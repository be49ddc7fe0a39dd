--------------------------- MODULE ProtocolProofs ---------------------------
(***************************************************************************)
(* Theorems about Protocol, for every value of its constants.              *)
(***************************************************************************)
EXTENDS Protocol, TLAPS

-----------------------------------------------------------------------------
(* Names *)

\* The key id that a create makes, and the scopes it opens.
MadeId(q) == EffectiveKeyId(q.key.namespace, q.key.name)

LEMMA MadeNames ==
    ASSUME NEW q \in Calls
    PROVE  /\ MadeId(q) \in KeyIds
           /\ KeyUri(MadeId(q)) \in Scopes
           /\ KeyScope(KeyUri(MadeId(q))) \in Scopes
<1>1. q.key \in Names
  BY ProtocolAssumption DEF Call
<1>2. MadeId(q) \in KeyIds
  BY <1>1 DEF MadeId, KeyIds
<1> QED BY <1>2 DEF Scopes

-----------------------------------------------------------------------------
(* Types *)

LocalType == [public : Pairs \cup {Null}, secret : Pairs \cup {Null}]

\* An answer frees its slot.
LEMMA AnswerOK ==
    ASSUME RequestsOK, NEW r \in Requests, NEW status \in Statuses, Answer(r, status)
    PROVE  RequestsOK'
  BY DEF RequestsOK, Answer, Blank

\* A request goes on to a step of its route.
LEMMA GotoOK ==
    ASSUME RequestsOK, NEW r \in Requests, NEW step \in Steps, Goto(r, step),
           pc[r] # "idle", RouteOf(step) = RouteOf(pc[r]),
           local' \in [Requests -> LocalType]
    PROVE  RequestsOK'
  BY DEF RequestsOK, Goto, Silent, Statuses, LocalType

\* A policy is set on a scope.
LEMMA SetPolicyOK ==
    ASSUME TablesOK, NEW scope \in Scopes, NEW policy \in SUBSET Grant,
           SetPolicy(scope, policy), UNCHANGED keys
    PROVE  TablesOK'
<1>1. /\ DOMAIN policies' = DOMAIN policies \cup {scope}
      /\ \A s \in DOMAIN policies' : policies'[s] \in SUBSET Grant
  BY DEF SetPolicy, TablesOK
<1>2. policies' = [s \in DOMAIN policies' |-> policies'[s]]
  BY DEF SetPolicy
<1> QED BY <1>1, <1>2 DEF TablesOK

\* The creator is given its key.
LEMMA CreatorPolicyOK ==
    ASSUME RequestsOK, CarriedOK, NEW r \in Requests, pc[r] \in {"grantUri", "grantScope"}
    PROVE  /\ call[r] \in Calls
           /\ CreatorPolicy(r) \in SUBSET Grant
<1>1. call[r] \in Calls /\ call[r].caller # Null
  BY DEF RequestsOK, CarriedOK
<1>2. call[r].caller \in Clients
  BY <1>1, ProtocolAssumption DEF Call
<1>3. {"key-management"} \in SUBSET SigningPurposes
  BY DEF SigningPurposes
<1> QED BY <1>1, <1>2, <1>3 DEF CreatorPolicy, Grant

LEMMA ObserveOK == Observe => entitled' \in [Requests -> BOOLEAN]
  BY DEF Observe

-----------------------------------------------------------------------------
(* The inductive invariant *)

\* What most steps leave alone.
LEMMA Frame ==
    ASSUME TablesOK, HistoryOK, BornOK, UNCHANGED <<tables, history>>, Observe
    PROVE  TablesOK' /\ HistoryOK' /\ BornOK'
<1>1. entitled' \in [Requests -> BOOLEAN]
  BY ObserveOK
<1>2. UNCHANGED <<keys, policies, born, retired, credentials>>
  BY DEF tables, history
<1>3. TablesOK'
  BY <1>2 DEF TablesOK
<1>4. HistoryOK'
  BY <1>1, <1>2 DEF HistoryOK
<1>5. BornOK'
  BY <1>2 DEF BornOK
<1> QED BY <1>3, <1>4, <1>5

\* A request that is answered carries nothing on.
LEMMA CarriedAnswer ==
    ASSUME RequestsOK, CarriedOK, NEW r \in Requests, NEW status, Answer(r, status),
           UNCHANGED <<born, retired>>
    PROVE  CarriedOK'
  BY DEF CarriedOK, RequestsOK, Answer

\* A request that goes on to a step that carries nothing.
LEMMA CarriedGoto ==
    ASSUME RequestsOK, CarriedOK, NEW r \in Requests, NEW step, Goto(r, step),
           step \notin {"grantUri", "grantScope", "issue"},
           UNCHANGED <<local, born, retired>>
    PROVE  CarriedOK'
  BY DEF CarriedOK, RequestsOK, Goto

\* A request that is answered without a change of the tables.
LEMMA AnswerInv ==
    ASSUME StoreInv, NEW r \in Requests, NEW status \in Statuses, Answer(r, status),
           UNCHANGED <<tables, history>>, Observe
    PROVE  StoreInv'
  BY Frame, AnswerOK, CarriedAnswer DEF StoreInv, TypeOK, history

\* A request whose check holds, before its next critical section.
LEMMA GotoInv ==
    ASSUME StoreInv, NEW r \in Requests, NEW step \in Steps, Goto(r, step),
           pc[r] # "idle", RouteOf(step) = RouteOf(pc[r]),
           step \notin {"grantUri", "grantScope", "issue"},
           UNCHANGED <<tables, local, history>>, Observe
    PROVE  StoreInv'
<1>1. local' \in [Requests -> LocalType]
  BY DEF StoreInv, TypeOK, RequestsOK, LocalType
<1> QED BY <1>1, Frame, GotoOK, CarriedGoto DEF StoreInv, TypeOK, history

LEMMA ArriveInv ==
    ASSUME StoreInv, NEW r \in Requests, NEW q \in Calls, Arrive(r, q)
    PROVE  StoreInv'
<1> USE DEF StoreInv, TypeOK
<1>1. q.route \in Routes
  BY ProtocolAssumption DEF Call
<1>2. RouteOf(q.route) = q.route
  BY <1>1 DEF Routes, RouteOf
<1>3. RequestsOK'
  BY <1>1, <1>2 DEF Arrive, RequestsOK, Steps, Silent, Statuses
<1>4. CarriedOK'
  BY <1>1 DEF Arrive, CarriedOK, RequestsOK, Routes, history
<1> QED BY <1>3, <1>4, Frame DEF Arrive

LEMMA CreateInv ==
    ASSUME StoreInv, NEW r \in Requests, Create(r)
    PROVE  StoreInv'
<1> USE DEF StoreInv, TypeOK
<1> DEFINE id == MadeId(call[r])
<1>1. id \in KeyIds /\ id # Null /\ Null \notin Pairs
  BY MadeNames, ProtocolAssumption DEF Create, RequestsOK
<1>2. CASE UNCHANGED <<keys, born>> /\ \E status \in Statuses : Answer(r, status)
  <2>1. UNCHANGED <<tables, history>> /\ Observe
    BY <1>2 DEF Create, tables, history
  <2> QED BY <1>2, <2>1, AnswerInv
<1>3. ASSUME NEW pair \in Pairs, born[pair] = Null, Free(id),
             keys' = [keys EXCEPT ![id] = pair],
             born' = [born EXCEPT ![pair] = id],
             \/ call[r].caller = Null /\ Answer(r, "Created")
             \/ /\ call[r].caller # Null
                /\ local' = [local EXCEPT ![r].public = pair]
                /\ Goto(r, "grantUri")
      PROVE  StoreInv'
  <2>1. UNCHANGED <<policies, retired, credentials>> /\ Observe /\ pc[r] = "create"
    BY DEF Create
  <2>2. TablesOK'
    BY <1>1, <1>3, <2>1 DEF TablesOK
  <2>3. HistoryOK'
    BY <1>1, <1>3, <2>1, ObserveOK DEF HistoryOK
  <2>4. BornOK'
    <3>1. Null \notin KeyIds
      BY ProtocolAssumption
    <3>2. \A i \in KeyIds \ {id} : keys'[i] = keys[i] /\ keys[i] # pair
      BY <1>1, <1>3, <3>1 DEF BornOK, TablesOK
    <3>3. /\ keys'[id] = pair /\ born'[pair] = id /\ pair \notin retired
          /\ \A p \in Pairs \ {pair} : born'[p] = born[p]
      BY <1>1, <1>3 DEF BornOK, TablesOK, HistoryOK
    <3>4. \A i \in KeyIds : keys[i] # Null => keys[i] \in Pairs
      BY DEF TablesOK
    <3> QED BY <1>1, <2>1, <3>2, <3>3, <3>4 DEF BornOK, HistoryOK
  <2>5. \A s \in Requests :
          /\ pc[s] \in {"grantUri", "grantScope"} => local[s].public # pair
          /\ pc[s] = "issue" => local[s].public # pair
    <3>1. \A s \in Requests : pc[s] \in {"grantUri", "grantScope"} =>
              MadeId(call[s]) \in KeyIds
      BY MadeNames DEF RequestsOK
    <3> QED BY <1>3, <3>1, ProtocolAssumption DEF CarriedOK, MadeId
  <2>6. CASE Answer(r, "Created")
    <3>1. RequestsOK'
      BY <2>6, AnswerOK DEF Statuses
    <3>2. CarriedOK'
      BY <1>1, <1>3, <2>1, <2>5, <2>6 DEF CarriedOK, Answer, RequestsOK, HistoryOK
    <3> QED BY <2>2, <2>3, <2>4, <3>1, <3>2
  <2>7. CASE /\ call[r].caller # Null
             /\ local' = [local EXCEPT ![r].public = pair]
             /\ Goto(r, "grantUri")
    <3>1. local' \in [Requests -> LocalType]
      BY <2>7 DEF RequestsOK, LocalType
    <3>2. RequestsOK'
      BY <2>1, <2>7, <3>1, GotoOK DEF Steps, RouteOf
    <3>3. CarriedOK'
      BY <1>1, <1>3, <2>1, <2>5, <2>7 DEF CarriedOK, Goto, RequestsOK, HistoryOK, MadeId
    <3> QED BY <2>2, <2>3, <2>4, <3>2, <3>3
  <2> QED BY <1>3, <2>6, <2>7
<1> QED BY <1>2, <1>3 DEF Create, MadeId, Statuses

LEMMA GrantInv ==
    ASSUME StoreInv, NEW r \in Requests, GrantUri(r) \/ GrantScope(r)
    PROVE  StoreInv'
<1> USE DEF StoreInv, TypeOK
<1>1. /\ call[r] \in Calls
      /\ CreatorPolicy(r) \in SUBSET Grant
  BY CreatorPolicyOK DEF GrantUri, GrantScope
<1>2. TablesOK'
  <2>1. UNCHANGED keys /\ \E scope \in Scopes : Initialise(scope, CreatorPolicy(r))
    BY <1>1, MadeNames DEF GrantUri, GrantScope, MadeId
  <2>2. PICK scope \in Scopes : Initialise(scope, CreatorPolicy(r))
    BY <2>1
  <2>3. CASE UNCHANGED policies
    BY <2>1, <2>3 DEF TablesOK
  <2>4. CASE SetPolicy(scope, CreatorPolicy(r))
    BY <1>1, <2>1, <2>4, SetPolicyOK
  <2> QED BY <2>2, <2>3, <2>4 DEF Initialise
<1>3. UNCHANGED <<keys, born, retired, credentials>> /\ Observe
  BY DEF GrantUri, GrantScope, history
<1>4. HistoryOK' /\ BornOK'
  BY <1>3, ObserveOK DEF HistoryOK, BornOK
<1>5. CASE GrantUri(r)
  <2>1. RequestsOK'
    <3>1. local' \in [Requests -> LocalType]
      BY <1>5 DEF GrantUri, RequestsOK, LocalType
    <3> QED BY <1>5, <3>1, GotoOK DEF GrantUri, Steps, RouteOf
  <2>2. CarriedOK'
    BY <1>3, <1>5 DEF GrantUri, Goto, CarriedOK, RequestsOK
  <2> QED BY <1>2, <1>4, <2>1, <2>2
<1>6. CASE GrantScope(r)
  <2>1. RequestsOK' /\ CarriedOK'
    BY <1>3, <1>6, AnswerOK, CarriedAnswer DEF GrantScope, Statuses
  <2> QED BY <1>2, <1>4, <2>1
<1> QED BY <1>5, <1>6

LEMMA RemoveInv ==
    ASSUME StoreInv, NEW r \in Requests, Remove(r)
    PROVE  StoreInv'
<1> USE DEF StoreInv, TypeOK
<1> DEFINE id == KeyId(call[r].uri)
<1>1. UNCHANGED <<policies, born, retired, credentials>> /\ Observe
  BY DEF Remove, history
<1>2. RequestsOK' /\ CarriedOK'
  BY <1>1, AnswerOK, CarriedAnswer DEF Remove, Statuses
<1>3. UNCHANGED keys \/ (id \in KeyIds /\ keys' = [keys EXCEPT ![id] = Null])
  BY DEF Remove
<1>4. TablesOK' /\ BornOK'
  BY <1>1, <1>3 DEF TablesOK, BornOK
<1>5. HistoryOK'
  BY <1>1, ObserveOK DEF HistoryOK
<1> QED BY <1>2, <1>4, <1>5

LEMMA ChecksInv ==
    ASSUME StoreInv, NEW r \in Requests,
           \/ Delete(r) \/ Resolve(r) \/ Read(r) \/ Execute(r) \/ Setup(r)
           \/ List(r) \/ Show(r) \/ ListScopes(r) \/ Replace(r) \/ Permit(r)
    PROVE  StoreInv'
<1> USE DEF Statuses, Steps, Routes, RouteOf
<1>1. CASE Delete(r)
  BY <1>1, AnswerInv, GotoInv DEF Delete
<1>2. CASE Resolve(r) \/ Read(r)
  BY <1>2, AnswerInv, GotoInv DEF Resolve, Read
<1>3. CASE Execute(r)
  BY <1>3, AnswerInv, GotoInv DEF Execute
<1>4. CASE Setup(r) \/ ListScopes(r) \/ Show(r)
  BY <1>4, AnswerInv DEF Setup, ListScopes, Show
<1>5. CASE List(r)
  BY <1>5, AnswerInv, GotoInv DEF List
<1>6. CASE Replace(r)
  BY <1>6, AnswerInv, GotoInv DEF Replace
<1>7. CASE Permit(r)
  BY <1>7, AnswerInv, GotoInv DEF Permit
<1> QED BY <1>1, <1>2, <1>3, <1>4, <1>5, <1>6, <1>7

LEMMA LoadInv ==
    ASSUME StoreInv, NEW r \in Requests, Load(r)
    PROVE  StoreInv'
<1> USE DEF StoreInv, TypeOK
<1> DEFINE id == KeyId(call[r].uri)
<1>1. UNCHANGED <<tables, history>> /\ Observe /\ pc[r] = "load"
  BY DEF Load
<1>2. TablesOK' /\ HistoryOK' /\ BornOK'
  BY <1>1, Frame
<1>3. CASE Answer(r, "InternalServerError")
  BY <1>1, <1>3, AnswerInv DEF Statuses
<1>4. CASE /\ id \in KeyIds /\ keys[id] # Null
           /\ local' = [local EXCEPT ![r] = [public |-> keys[id], secret |-> keys[id]]]
           /\ Goto(r, "issue")
  <2>1. keys[id] \in Pairs \ retired /\ born[keys[id]] = id
    BY <1>4 DEF TablesOK, BornOK
  <2>2. local' \in [Requests -> LocalType]
    BY <1>4, <2>1 DEF RequestsOK, LocalType
  <2>3. RequestsOK'
    BY <1>1, <1>4, <2>2, GotoOK DEF Steps, RouteOf
  <2>4. CarriedOK'
    BY <1>1, <1>4, <2>1 DEF CarriedOK, RequestsOK, Goto, history
  <2> QED BY <1>2, <2>3, <2>4
<1> QED BY <1>3, <1>4 DEF Load

LEMMA IssueInv ==
    ASSUME StoreInv, NEW r \in Requests, Issue(r)
    PROVE  StoreInv'
<1> USE DEF StoreInv, TypeOK
<1>1. UNCHANGED <<keys, policies, born, retired>> /\ Observe /\ pc[r] = "issue"
  BY DEF Issue, tables
<1>2. RequestsOK' /\ CarriedOK'
  BY <1>1, AnswerOK, CarriedAnswer DEF Issue, Statuses
<1>3. TablesOK' /\ BornOK'
  BY <1>1 DEF TablesOK, BornOK
<1>4. credentials' \subseteq [id : KeyIds, public : Pairs, secret : Pairs]
  BY <1>1 DEF Issue, HistoryOK, CarriedOK
<1>5. HistoryOK'
  BY <1>1, <1>4, ObserveOK DEF HistoryOK
<1> QED BY <1>2, <1>3, <1>5

LEMMA WriteInv ==
    ASSUME StoreInv, NEW r \in Requests, Write(r)
    PROVE  StoreInv'
<1> USE DEF StoreInv, TypeOK
<1>1. /\ UNCHANGED <<keys, history>> /\ Observe
      /\ SetPolicy(call[r].uri, call[r].grants)
      /\ Answer(r, "NoContent")
  BY DEF Write
<1>2. call[r].uri \in Scopes /\ call[r].grants \in SUBSET Grant
  <2>1. call[r] \in Calls /\ call[r].route = "replace"
    BY DEF Write, RequestsOK, RouteOf
  <2> QED BY <2>1, ProtocolAssumption DEF Call
<1>3. TablesOK'
  BY <1>1, <1>2, SetPolicyOK
<1>4. RequestsOK' /\ CarriedOK'
  BY <1>1, AnswerOK, CarriedAnswer DEF history, Statuses
<1>5. HistoryOK' /\ BornOK'
  BY <1>1, ObserveOK DEF HistoryOK, BornOK, history
<1> QED BY <1>3, <1>4, <1>5

LEMMA RestartInv ==
    ASSUME StoreInv, Restart
    PROVE  StoreInv'
<1> USE DEF StoreInv, TypeOK, Restart
<1>1. TablesOK'
  BY DEF TablesOK
<1>2. RequestsOK'
  BY DEF RequestsOK, Blank, Silent, Statuses
<1>3. HistoryOK'
  BY ObserveOK DEF HistoryOK
<1>4. BornOK' /\ CarriedOK'
  BY DEF BornOK, CarriedOK
<1> QED BY <1>1, <1>2, <1>3, <1>4

LEMMA InitStoreInv == Init => StoreInv
<1> SUFFICES ASSUME Init PROVE StoreInv
  OBVIOUS
<1> USE DEF Init
<1>1. TablesOK
  BY DEF TablesOK
<1>2. RequestsOK
  BY DEF RequestsOK, Blank, Silent, Statuses
<1>3. HistoryOK /\ BornOK /\ CarriedOK
  BY DEF HistoryOK, BornOK, CarriedOK
<1> QED BY <1>1, <1>2, <1>3 DEF StoreInv, TypeOK

LEMMA NextStoreInv == StoreInv /\ [Next]_vars => StoreInv'
<1> SUFFICES ASSUME StoreInv, [Next]_vars PROVE StoreInv'
  OBVIOUS
<1>1. ASSUME NEW r \in Requests, NEW q \in Calls, Arrive(r, q)
      PROVE  StoreInv'
  BY <1>1, ArriveInv
<1>2. ASSUME NEW r \in Requests, Handle(r)
      PROVE  StoreInv'
  BY <1>2, CreateInv, GrantInv, RemoveInv, ChecksInv, LoadInv, IssueInv, WriteInv
     DEF Handle
<1>3. CASE Restart
  BY <1>3, RestartInv
<1>4. CASE UNCHANGED vars
  BY <1>4 DEF vars, StoreInv, TypeOK, TablesOK, RequestsOK, HistoryOK, BornOK, CarriedOK
<1> QED BY <1>1, <1>2, <1>3, <1>4 DEF Next

\* Whatever handlers run at the same time, tables and requests keep their types,
\* live keys are where they were drawn for, and requests carry whole pairs.
THEOREM StoreInvariant == Spec => []StoreInv
<1> QED BY InitStoreInv, NextStoreInv, PTL DEF Spec

\* The type invariant of the key store, the policies and the calls in flight.
THEOREM TypesKept == Spec => []TypeOK
<1>1. StoreInv => TypeOK
  BY DEF StoreInv
<1> QED BY <1>1, StoreInvariant, PTL

-----------------------------------------------------------------------------
(* The key store implements its contract *)

LEMMA InitContract == Init => Contract!ContractInit
  BY DEF Init, Contract!ContractInit

LEMMA CreateContract ==
    ASSUME StoreInv, NEW r \in Requests, Create(r)
    PROVE  [Contract!ContractNext]_(Contract!contractVars)
<1> USE DEF StoreInv, TypeOK
<1>1. MadeId(call[r]) \in KeyIds
  BY MadeNames DEF Create, RequestsOK
<1>2. CASE UNCHANGED <<keys, born>>
  BY <1>2 DEF Create, Contract!contractVars
<1>3. CASE \E pair \in Pairs : Contract!Generate(MadeId(call[r]), pair)
  BY <1>1, <1>3 DEF Contract!ContractNext
<1>4. CASE \E pair \in Pairs :
             /\ Free(MadeId(call[r])) /\ born[pair] = Null
             /\ keys' = [keys EXCEPT ![MadeId(call[r])] = pair]
             /\ born' = [born EXCEPT ![pair] = MadeId(call[r])]
  BY <1>3, <1>4 DEF Create, Free, Contract!Generate
<1> QED BY <1>2, <1>4 DEF Create, MadeId

LEMMA IssueContract ==
    ASSUME StoreInv, NEW r \in Requests, Issue(r)
    PROVE  [Contract!ContractNext]_(Contract!contractVars)
<1> DEFINE id == KeyId(call[r].uri)
           pair == local[r].public
<1>1. /\ UNCHANGED <<keys, born, retired>>
      /\ id \in KeyIds /\ pair \in Pairs /\ pair \notin retired
      /\ local[r].secret = pair /\ born[pair] = id
  BY DEF Issue, tables, StoreInv, CarriedOK
<1>2. CASE UNCHANGED credentials
  BY <1>1, <1>2 DEF Contract!contractVars
<1>3. CASE credentials' = credentials \cup {[id |-> id, public |-> pair, secret |-> pair]}
  <2>1. Contract!Sign(id, pair)
    BY <1>1, <1>3 DEF Contract!Sign
  <2> QED BY <1>1, <2>1 DEF Contract!ContractNext
<1> QED BY <1>1, <1>2, <1>3 DEF Issue

\* Only four steps are visible to the contract.
LEMMA NextContract ==
    StoreInv /\ [Next]_vars => [Contract!ContractNext]_(Contract!contractVars)
<1> SUFFICES ASSUME StoreInv, [Next]_vars
             PROVE  [Contract!ContractNext]_(Contract!contractVars)
  OBVIOUS
<1>1. ASSUME NEW r \in Requests, Create(r) \/ Issue(r)
      PROVE  [Contract!ContractNext]_(Contract!contractVars)
  BY <1>1, CreateContract, IssueContract
<1>2. ASSUME NEW r \in Requests, Remove(r)
      PROVE  [Contract!ContractNext]_(Contract!contractVars)
  <2>1. UNCHANGED <<born, retired, credentials>>
    BY <1>2 DEF Remove, history
  <2>2. CASE UNCHANGED keys
    BY <2>1, <2>2 DEF Contract!contractVars
  <2>3. CASE /\ KeyId(call[r].uri) \in KeyIds /\ keys[KeyId(call[r].uri)] # Null
             /\ keys' = [keys EXCEPT ![KeyId(call[r].uri)] = Null]
    BY <2>1, <2>3 DEF Contract!ContractNext, Contract!Destroy
  <2> QED BY <1>2, <2>2, <2>3 DEF Remove
<1>3. CASE Restart
  BY <1>3 DEF Restart, Contract!ContractNext, Contract!Retire
<1>4. ASSUME NEW r \in Requests, Handle(r), ~Create(r), ~Issue(r), ~Remove(r)
      PROVE  UNCHANGED <<keys, history>>
  BY <1>4 DEF Handle, GrantUri, GrantScope, Delete, Resolve, Read, Execute, Setup, Load,
     List, Show, ListScopes, Replace, Permit, Write, tables
<1>5. CASE (\E r \in Requests, q \in Calls : Arrive(r, q)) \/ UNCHANGED vars
  BY <1>5 DEF Arrive, vars, tables, history, Contract!contractVars
<1> QED BY <1>1, <1>2, <1>3, <1>4, <1>5 DEF Next, history, Contract!contractVars

\* For any number of clients, keys and calls in flight: live keys are never
\* overwritten, and a credential is signed with both halves of one pair, drawn by
\* this process for the key id it names.
THEOREM ImplementsKeyContract == Spec => ContractSpec
<1> QED BY InitContract, NextContract, StoreInvariant, PTL
       DEF Spec, ContractSpec, Contract!ContractSpecification

-----------------------------------------------------------------------------
(* Nobody acts without a grant *)

\* A scope with a grant has a policy.
LEMMA HasMeansIn ==
    ASSUME NEW client, NEW scope, NEW purpose, Has(policies, client, scope, purpose)
    PROVE  scope \in DOMAIN policies
  BY DEF Has, PolicyIn

\* What is left of Observe for one slot.
LEMMA Observed ==
    ASSUME RequestsOK, HistoryOK, Observe, NEW r \in Requests
    PROVE  entitled'[r] <=>
               pc'[r] # "idle" /\ (entitled[r] \/ Permitted(policies', call'[r]))
  BY DEF Observe

\* A request that goes on where it has been permitted, now or before.
LEMMA PermittedGoto ==
    ASSUME StoreInv, ActedWasPermitted, NEW r \in Requests, NEW step \in Steps,
           Goto(r, step), Observe,
           entitled[r] \/ Permitted(policies', call[r]) \/ step \notin EffectSteps
    PROVE  ActedWasPermitted'
<1> USE DEF StoreInv, TypeOK
<1>1. ASSUME NEW s \in Requests, pc'[s] \in EffectSteps
      PROVE  entitled'[s]
  <2>1. pc'[s] # "idle"
    BY <1>1 DEF EffectSteps
  <2>2. CASE s = r
    BY <1>1, <2>1, <2>2, Observed DEF Goto, RequestsOK
  <2>3. CASE s # r
    <3>1. pc'[s] = pc[s]
      BY <2>3 DEF Goto, RequestsOK
    <3> QED BY <1>1, <2>1, <3>1, Observed DEF ActedWasPermitted
  <2> QED BY <2>2, <2>3
<1> QED BY <1>1 DEF ActedWasPermitted

\* A request that is answered acts no more.
LEMMA PermittedAnswer ==
    ASSUME StoreInv, ActedWasPermitted, NEW r \in Requests, NEW status,
           Answer(r, status), Observe
    PROVE  ActedWasPermitted'
<1> USE DEF StoreInv, TypeOK
<1>1. ASSUME NEW s \in Requests, pc'[s] \in EffectSteps
      PROVE  entitled'[s]
  <2>1. pc'[s] # "idle" /\ pc'[s] = pc[s]
    BY <1>1 DEF EffectSteps, Answer, RequestsOK
  <2> QED BY <1>1, <2>1, Observed DEF ActedWasPermitted
<1> QED BY <1>1 DEF ActedWasPermitted

LEMMA ArrivePermitted ==
    ASSUME StoreInv, ActedWasPermitted, NEW r \in Requests, NEW q \in Calls, Arrive(r, q)
    PROVE  ActedWasPermitted'
<1> USE DEF StoreInv, TypeOK
<1>1. q.route \in Routes
  BY ProtocolAssumption DEF Call
<1>2. ASSUME NEW s \in Requests, pc'[s] \in EffectSteps
      PROVE  entitled'[s]
  <2>1. pc'[s] # "idle" /\ pc'[s] = pc[s]
    BY <1>1, <1>2 DEF EffectSteps, Routes, Arrive, RequestsOK
  <2> QED BY <1>2, <2>1, Observed DEF ActedWasPermitted, Arrive
<1> QED BY <1>2 DEF ActedWasPermitted

\* The check that each route makes in its first or second critical section.
Checked(r) ==
    LET q == call[r] IN
    \/ pc[r] = "create" /\ IsAdmin(q.caller)
    \/ pc[r] = "delete" /\ IsAdmin(q.caller) /\ May(q.caller, q.uri, "key-management")
    \/ pc[r] \in {"resolve", "list"} /\ MayAny(q.caller, q.uri)
    \/ /\ pc[r] = "execute"
       /\ May(q.caller, IF q.operation = "setup" THEN OpScope("setup") ELSE q.uri,
              "operations")
    \/ /\ pc[r] = "replace"
       /\ q.caller = Null \/ (q.uri \notin DOMAIN policies /\ IsAdmin(q.caller))
    \/ pc[r] = "permit" /\ May(q.caller, q.uri, "key-management")

\* A check that holds is a moment at which the call is permitted.
LEMMA ChecksPermit ==
    ASSUME StoreInv, NEW r \in Requests, Checked(r), UNCHANGED policies
    PROVE  Permitted(policies', call[r])
<1>1. call[r].route = RouteOf(pc[r])
  BY DEF StoreInv, TypeOK, RequestsOK, Checked
<1>2. CASE pc[r] = "permit"
  <2>1. call[r].route = "replace"
    BY <1>1, <1>2 DEF RouteOf
  <2>2. May(call[r].caller, call[r].uri, "key-management")
    BY <1>2 DEF Checked
  <2>3. call[r].caller = Null \/ call[r].uri \in DOMAIN policies
    BY <2>2, HasMeansIn DEF May
  <2> QED BY <2>1, <2>2, <2>3 DEF May, Permitted
<1>3. CASE pc[r] # "permit"
  BY <1>1, <1>3 DEF Checked, RouteOf, May, MayAny, Permitted
<1> QED BY <1>2, <1>3

LEMMA HandlePermitted ==
    ASSUME StoreInv, ActedWasPermitted, NEW r \in Requests, Handle(r)
    PROVE  ActedWasPermitted'
<1> USE DEF Steps, Routes, EffectSteps
<1>1. CASE Create(r)
  BY <1>1, PermittedGoto, PermittedAnswer, ChecksPermit DEF Checked, Create
<1>2. CASE GrantUri(r)
  <2>1. entitled[r]
    BY <1>2 DEF GrantUri, ActedWasPermitted
  <2> QED BY <1>2, <2>1, PermittedGoto DEF GrantUri
<1>3. CASE GrantScope(r) \/ Remove(r) \/ Read(r) \/ Setup(r) \/ Issue(r)
           \/ Show(r) \/ ListScopes(r) \/ Write(r)
  BY <1>3, PermittedAnswer DEF GrantScope, Remove, Read, Setup, Issue, Show,
     ListScopes, Write
<1>4. CASE Delete(r)
  BY <1>4, PermittedGoto, PermittedAnswer, ChecksPermit DEF Checked, Delete, tables
<1>5. CASE Resolve(r) \/ List(r)
  BY <1>5, PermittedGoto, PermittedAnswer, ChecksPermit DEF Checked, Resolve, List, tables
<1>6. CASE Execute(r)
  BY <1>6, PermittedGoto, PermittedAnswer, ChecksPermit DEF Checked, Execute, tables
<1>7. CASE Load(r)
  <2>1. entitled[r]
    BY <1>7 DEF Load, ActedWasPermitted
  <2> QED BY <1>7, <2>1, PermittedGoto, PermittedAnswer DEF Load
<1>8. CASE Replace(r)
  BY <1>8, PermittedGoto, PermittedAnswer, ChecksPermit DEF Checked, Replace, tables
<1>9. CASE Permit(r)
  BY <1>9, PermittedGoto, PermittedAnswer, ChecksPermit DEF Checked, Permit, tables
<1> QED BY <1>1, <1>2, <1>3, <1>4, <1>5, <1>6, <1>7, <1>8, <1>9 DEF Handle

\* However policies are replaced between the checks of a call and its act, and
\* for any number of calls in flight, it acts only if there was a moment since it
\* came at which its caller was permitted the call.
THEOREM NobodyActsUnpermitted == Spec => []ActedWasPermitted
<1>1. Init => ActedWasPermitted
  BY DEF Init, ActedWasPermitted, EffectSteps
<1>2. StoreInv /\ ActedWasPermitted /\ [Next]_vars => ActedWasPermitted'
  <2> SUFFICES ASSUME StoreInv, ActedWasPermitted, [Next]_vars PROVE ActedWasPermitted'
    OBVIOUS
  <2>1. CASE Restart
    BY <2>1 DEF Restart, ActedWasPermitted, EffectSteps
  <2>2. CASE UNCHANGED vars
    BY <2>2 DEF vars, ActedWasPermitted
  <2> QED BY <2>1, <2>2, ArrivePermitted, HandlePermitted DEF Next
<1> QED BY <1>1, <1>2, StoreInvariant, PTL DEF Spec

-----------------------------------------------------------------------------
(* No key without its policies *)

\* Handlers replace policies and remove none.
LEMMA PoliciesGrow ==
    ASSUME NEW r \in Requests, Handle(r)
    PROVE  DOMAIN policies \subseteq DOMAIN policies'
<1>1. CASE ~GrantUri(r) /\ ~GrantScope(r) /\ ~Write(r)
  BY <1>1 DEF Handle, Create, Delete, Remove, Resolve, Read, Execute, Setup, Load, Issue,
     List, Show, ListScopes, Replace, Permit, tables
<1>2. CASE GrantUri(r) \/ GrantScope(r) \/ Write(r)
  BY <1>2 DEF GrantUri, GrantScope, Write, Initialise, SetPolicy
<1> QED BY <1>1, <1>2

\* The create that drew the pair of id, between its critical sections.
At(step, id) == \E r \in Requests : pc[r] = step /\ local[r].public = keys[id]

\* KeysHavePolicies for one key.
HasPolicies(id) ==
    /\ At("grantUri", id) \/ KeyUri(id) \in DOMAIN policies
    /\ At("grantUri", id) \/ At("grantScope", id)
       \/ KeyScope(KeyUri(id)) \in DOMAIN policies

LEMMA KeysHavePoliciesIs ==
    KeysHavePolicies <=>
        \A id \in KeyIds : Mode = "registered" /\ keys[id] # Null => HasPolicies(id)
  BY DEF KeysHavePolicies, HasPolicies, At

\* A create that still carries the pair of a live key made that key.
LEMMA CarrierMade ==
    ASSUME StoreInv, NEW r \in Requests, NEW id \in KeyIds, keys[id] # Null,
           pc[r] \in {"grantUri", "grantScope"}, local[r].public = keys[id]
    PROVE  MadeId(call[r]) = id
  BY DEF StoreInv, BornOK, CarriedOK, MadeId

\* A step in which no create moves on keeps the policies of a key that stays.
LEMMA OthersKeep ==
    ASSUME StoreInv, NEW id \in KeyIds, HasPolicies(id), keys'[id] = keys[id],
           DOMAIN policies \subseteq DOMAIN policies', NEW r \in Requests,
           pc[r] \notin {"grantUri", "grantScope"},
           \A s \in Requests \ {r} : pc'[s] = pc[s] /\ local'[s] = local[s]
    PROVE  HasPolicies(id)'
  BY DEF HasPolicies, At

\* Goto and Answer move one slot.
LEMMA OneSlot ==
    ASSUME StoreInv, NEW r \in Requests,
           \/ Arrive(r, call'[r]) \/ Handle(r)
    PROVE  \A s \in Requests \ {r} : pc'[s] = pc[s] /\ local'[s] = local[s]
<1> USE DEF StoreInv, TypeOK, RequestsOK, Goto, Answer
<1>1. CASE Arrive(r, call'[r])
  BY <1>1 DEF Arrive
<1>2. CASE Create(r) \/ GrantUri(r) \/ GrantScope(r)
  BY <1>2 DEF Create, GrantUri, GrantScope
<1>3. CASE Delete(r) \/ Remove(r) \/ Resolve(r) \/ Read(r)
  BY <1>3 DEF Delete, Remove, Resolve, Read
<1>4. CASE Execute(r) \/ Setup(r) \/ Load(r) \/ Issue(r)
  BY <1>4 DEF Execute, Setup, Load, Issue
<1>5. CASE List(r) \/ Show(r) \/ ListScopes(r)
  BY <1>5 DEF List, Show, ListScopes
<1>6. CASE Replace(r) \/ Permit(r) \/ Write(r)
  BY <1>6 DEF Replace, Permit, Write
<1> QED BY <1>1, <1>2, <1>3, <1>4, <1>5, <1>6 DEF Handle

LEMMA CreatePolicies ==
    ASSUME StoreInv, Mode = "registered", NEW r \in Requests, Create(r),
           NEW id \in KeyIds, keys'[id] # Null, keys[id] # Null => HasPolicies(id)
    PROVE  HasPolicies(id)'
<1> USE DEF StoreInv, TypeOK
<1>1. /\ policies' = policies /\ pc[r] = "create"
      /\ call[r].caller # Null
  BY ProtocolAssumption DEF Create, RequestsOK
<1>2. CASE keys'[id] = keys[id]
  BY <1>1, <1>2, OneSlot, OthersKeep DEF Handle
<1>3. CASE keys'[id] # keys[id]
  <2>1. PICK pair \in Pairs :
          /\ keys' = [keys EXCEPT ![MadeId(call[r])] = pair]
          /\ local' = [local EXCEPT ![r].public = pair]
          /\ Goto(r, "grantUri")
    BY <1>1, <1>3 DEF Create, MadeId
  <2>2. keys'[id] = pair
    BY <1>3, <2>1 DEF TablesOK
  <2>3. pc'[r] = "grantUri" /\ local'[r].public = pair
    BY <2>1 DEF Goto, RequestsOK
  <2> QED BY <2>2, <2>3 DEF HasPolicies, At
<1> QED BY <1>2, <1>3

LEMMA GrantPolicies ==
    ASSUME StoreInv, NEW r \in Requests, GrantUri(r) \/ GrantScope(r),
           NEW id \in KeyIds, keys[id] # Null, HasPolicies(id)
    PROVE  HasPolicies(id)'
<1> USE DEF StoreInv, TypeOK
<1>1. /\ keys' = keys
      /\ DOMAIN policies \subseteq DOMAIN policies'
      /\ \A s \in Requests \ {r} : pc'[s] = pc[s] /\ local'[s] = local[s]
  <2>1. DOMAIN policies \subseteq DOMAIN policies' /\ keys' = keys
    BY DEF GrantUri, GrantScope, Initialise, SetPolicy
  <2> QED BY <2>1, OneSlot DEF Handle
<1>2. CASE local[r].public # keys[id]
  BY <1>1, <1>2 DEF HasPolicies, At
<1>3. CASE GrantUri(r) /\ local[r].public = keys[id]
  <2>1. MadeId(call[r]) = id
    BY <1>3, CarrierMade DEF GrantUri
  <2>2. KeyUri(id) \in DOMAIN policies'
    BY <1>3, <2>1 DEF GrantUri, Initialise, SetPolicy, MadeId
  <2>3. pc'[r] = "grantScope" /\ local'[r].public = keys'[id]
    BY <1>1, <1>3 DEF GrantUri, Goto, RequestsOK
  <2> QED BY <2>2, <2>3 DEF HasPolicies, At
<1>4. CASE GrantScope(r) /\ local[r].public = keys[id]
  <2>1. MadeId(call[r]) = id
    BY <1>4, CarrierMade DEF GrantScope
  <2>2. KeyScope(KeyUri(id)) \in DOMAIN policies'
    BY <1>4, <2>1 DEF GrantScope, Initialise, SetPolicy, MadeId
  <2>3. At("grantUri", id)' \/ KeyUri(id) \in DOMAIN policies'
    BY <1>1, <1>4 DEF HasPolicies, At, GrantScope
  <2> QED BY <2>2, <2>3 DEF HasPolicies
<1> QED BY <1>2, <1>3, <1>4

\* Every other handler changes a key only to delete it.
LEMMA KeysStay ==
    ASSUME NEW r \in Requests, Handle(r), ~Create(r), StoreInv,
           NEW id \in KeyIds, keys'[id] # Null
    PROVE  keys'[id] = keys[id]
<1>1. CASE Remove(r)
  BY <1>1 DEF Remove, StoreInv, TypeOK, TablesOK
<1>2. CASE ~Remove(r)
  BY <1>2 DEF Handle, GrantUri, GrantScope, Delete, Resolve, Read, Execute, Setup, Load,
     Issue, List, Show, ListScopes, Replace, Permit, Write, tables
<1> QED BY <1>1, <1>2

\* However creates, deletes and replaces interleave, a key that was made for a
\* client has a policy on its URI and on its keychain once its create is answered.
THEOREM NoKeyWithoutPolicies == Spec => []KeysHavePolicies
<1>1. Init => KeysHavePolicies
  BY DEF Init, KeysHavePolicies
<1>2. StoreInv /\ KeysHavePolicies /\ [Next]_vars => KeysHavePolicies'
  <2> SUFFICES ASSUME StoreInv, KeysHavePolicies, [Next]_vars, Mode = "registered",
                      NEW id \in KeyIds, keys'[id] # Null
               PROVE  HasPolicies(id)'
    BY KeysHavePoliciesIs DEF KeysHavePolicies, HasPolicies, At
  <2>0. keys[id] # Null => HasPolicies(id)
    BY KeysHavePoliciesIs
  <2>1. CASE Restart
    BY <2>1 DEF Restart
  <2>2. CASE UNCHANGED vars
    BY <2>0, <2>2 DEF vars, HasPolicies, At
  <2>3. ASSUME NEW r \in Requests, NEW q \in Calls, Arrive(r, q)
        PROVE  HasPolicies(id)'
    <3>1. pc[r] = "idle" /\ UNCHANGED <<keys, policies>> /\ call'[r] = q
      BY <2>3 DEF Arrive, tables, StoreInv, TypeOK, RequestsOK
    <3> QED BY <2>0, <2>3, <3>1, OneSlot, OthersKeep
  <2>4. ASSUME NEW r \in Requests, Handle(r)
        PROVE  HasPolicies(id)'
    <3>1. CASE Create(r)
      BY <2>0, <3>1, CreatePolicies
    <3>2. CASE GrantUri(r) \/ GrantScope(r)
      <4>1. keys' = keys
        BY <3>2 DEF GrantUri, GrantScope
      <4> QED BY <2>0, <3>2, <4>1, GrantPolicies
    <3>3. CASE ~Create(r) /\ ~GrantUri(r) /\ ~GrantScope(r)
      <4>1. keys'[id] = keys[id]
        BY <2>4, <3>3, KeysStay
      <4>2. pc[r] \notin {"grantUri", "grantScope"}
        BY <2>4, <3>3 DEF Handle, Delete, Remove, Resolve, Read, Execute, Setup, Load,
           Issue, List, Show, ListScopes, Replace, Permit, Write
      <4>3. DOMAIN policies \subseteq DOMAIN policies'
        BY <2>4, PoliciesGrow
      <4> QED BY <2>0, <2>4, <4>1, <4>2, <4>3, OneSlot, OthersKeep
    <3> QED BY <3>1, <3>2, <3>3
  <2> QED BY <2>1, <2>2, <2>3, <2>4 DEF Next
<1> QED BY <1>1, <1>2, StoreInvariant, PTL DEF Spec

-----------------------------------------------------------------------------
(* Names do not clash *)

\* The id that create makes of a name.
IdOf(name) == EffectiveKeyId(name.namespace, name.name)

\* Policies go by name, so a clash of names would be a grant nobody made.  Whatever
\* create may be asked for: a URI names the key it was made for and no other; keys
\* share a scope only if they are in one keychain; and what is granted on a key, on
\* a keychain and on an operation are different policies.
THEOREM NamesDoNotClash ==
    ASSUME NEW m \in Names, NEW n \in Names, NEW operation
    PROVE  /\ KeyId(KeyUri(IdOf(m))) = IdOf(m)
           /\ KeyUri(IdOf(m)) = KeyUri(IdOf(n)) => IdOf(m) = IdOf(n)
           /\ KeyScope(KeyUri(IdOf(m))) = KeyScope(KeyUri(IdOf(n))) =>
                 \/ IdOf(m) = IdOf(n)
                 \/ m.namespace # NoNamespace /\ m.namespace = n.namespace
           /\ KeyUri(IdOf(m)) # KeyScope(KeyUri(IdOf(n)))
           /\ OpScope(operation) \notin {KeyUri(IdOf(m)), KeyScope(KeyUri(IdOf(m)))}
<1>1. ASSUME NEW q \in Names
      PROVE  /\ KeyId(KeyUri(IdOf(q))) = IdOf(q)
             /\ IF q.namespace = NoNamespace
                THEN /\ IdOf(q) = <<q.name>>
                     /\ KeyUri(IdOf(q)) = <<Scheme, q.name>>
                     /\ KeyScope(KeyUri(IdOf(q))) = <<q.name>>
                ELSE /\ IdOf(q) = <<"kc", q.namespace, q.name>>
                     /\ KeyUri(IdOf(q)) = <<Scheme, "kc", q.namespace, q.name>>
                     /\ KeyScope(KeyUri(IdOf(q))) = <<"kc", q.namespace>>
  <2>1. CASE q.namespace = NoNamespace
    <3>1. IdOf(q) = <<q.name>>
      BY <2>1 DEF IdOf, EffectiveKeyId
    <3>2. KeyUri(<<q.name>>) = <<Scheme, q.name>>
      <4> DEFINE S == {Scheme, q.name}
                 s == <<Scheme>> \o <<q.name>>
                 t == <<Scheme, q.name>>
      <4>1. <<Scheme>> \in Seq(S) /\ <<q.name>> \in Seq(S) /\ t \in Seq(S)
        OBVIOUS
      <4>2. /\ s \in Seq(S) /\ Len(s) = 2 /\ Len(t) = 2
            /\ s[1] = t[1] /\ s[2] = t[2]
        BY <4>1
      <4> HIDE DEF s, t
      <4>3. s = t
        BY <4>1, <4>2
      <4> QED BY <4>3 DEF KeyUri, s, t
    <3>3. Head(<<Scheme, q.name>>) = Scheme /\ Tail(<<Scheme, q.name>>) = <<q.name>>
      OBVIOUS
    <3>4. KeyId(<<Scheme, q.name>>) = <<q.name>>
      BY <3>3 DEF KeyId
    <3>5. KeyScope(<<Scheme, q.name>>) = <<q.name>>
      BY <3>3 DEF KeyScope
    <3> QED BY <2>1, <3>1, <3>2, <3>4, <3>5
  <2>2. CASE q.namespace # NoNamespace
    <3> DEFINE id == <<"kc", q.namespace, q.name>>
               uri == <<Scheme, "kc", q.namespace, q.name>>
    <3>1. IdOf(q) = id
      BY <2>2 DEF IdOf, EffectiveKeyId
    <3> DEFINE S == {Scheme, "kc", q.namespace, q.name}
               s == <<Scheme>> \o id
               z == SubSeq(id, 1, 2)
               scope == <<"kc", q.namespace>>
    <3>0. <<Scheme>> \in Seq(S) /\ id \in Seq(S) /\ uri \in Seq(S) /\ scope \in Seq(S)
      OBVIOUS
    <3>2. KeyUri(id) = uri
      <4>1. /\ s \in Seq(S) /\ Len(s) = 4 /\ Len(uri) = 4
            /\ s[1] = uri[1] /\ s[2] = uri[2] /\ s[3] = uri[3] /\ s[4] = uri[4]
        BY <3>0
      <4> HIDE DEF s, uri
      <4>2. s = uri
        BY <3>0, <4>1
      <4> QED BY <4>2 DEF KeyUri, s
    <3>3. Head(uri) = Scheme /\ Tail(uri) = id
      OBVIOUS
    <3>4. KeyId(uri) = id
      BY <3>3 DEF KeyId
    <3>5. z = scope
      <4>1. /\ z \in Seq(S) /\ Len(z) = 2 /\ Len(scope) = 2
            /\ z[1] = scope[1] /\ z[2] = scope[2]
        BY <3>0
      <4> HIDE DEF z, scope
      <4> QED BY <3>0, <4>1
    <3>6. KeyScope(uri) = <<"kc", q.namespace>>
      BY <3>3, <3>5 DEF KeyScope
    <3> QED BY <2>2, <3>1, <3>2, <3>4, <3>6
  <2> QED BY <2>1, <2>2
<1> QED BY <1>1 DEF OpScope, Scheme
=============================================================================
