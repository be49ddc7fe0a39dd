------------------------ MODULE ServiceEffectsProofs -------------------------
(***************************************************************************)
(* What a client brings about was signed and granted: the theorem that     *)
(* joins what is proved of Auth with what is proved of Protocol.           *)
(***************************************************************************)
EXTENDS ServiceProofs, AuthClientProofs

-----------------------------------------------------------------------------
(* What is proved of Protocol, for the instance in Service.                *)
(*                                                                         *)
(* Service takes Protocol as an instance.  Its theorems come with the same *)
(* instance of ProtocolProofs, and the two have to be shown the same.      *)

PP == INSTANCE ProtocolProofs WITH
         pc <- keyPc, call <- keyCall, local <- keyLocal, reply <- keyReply,
         retired <- retiredPairs, entitled <- permitted, Calls <- RoutedCalls

\* The calls that messages carry are what Protocol takes for calls.
LEMMA RoutedCallsAssumption == PP!ProtocolAssumption
<1>1. P!Call = PP!Call /\ P!KeyIds = PP!KeyIds /\ P!Scopes = PP!Scopes
  BY DEF P!Call, PP!Call, P!KeyIds, PP!KeyIds, P!Scopes, PP!Scopes,
         P!Routes, PP!Routes, P!Operations, PP!Operations, P!Grant, PP!Grant,
         P!SigningPurposes, PP!SigningPurposes,
         P!EffectiveKeyId, PP!EffectiveKeyId, P!KeyUri, PP!KeyUri,
         P!KeyId, PP!KeyId, P!KeyScope, PP!KeyScope, P!OpScope, PP!OpScope,
         P!Scheme, PP!Scheme
<1>2. ASSUME NEW q \in RoutedCalls
      PROVE  /\ q \in P!Call
             /\ q.caller = Null <=> Mode = "none"
             /\ q.route # "execute" => q.uri # Null
  <2>1. PICK m \in Messages, caller \in Callers :
            Route[m] # Null /\ q = [Route[m] EXCEPT !.caller = caller]
    BY DEF RoutedCalls
  <2>2. Route[m] \in P!Call
    BY <2>1, ServiceAssumption
  <2>3. caller \in Clients \cup {Null} /\ (caller = Null <=> Mode = "none")
    BY NullAssumption DEF Callers
  <2>4. /\ q \in P!Call /\ q.caller = caller
        /\ q.route = Route[m].route /\ q.uri = Route[m].uri
    BY <2>1, <2>2, <2>3 DEF P!Call
  <2> QED BY <2>1, <2>3, <2>4, ServiceAssumption
<1> QED BY <1>1, <1>2, AuthAssumption, NullAssumption, ServiceAssumption
       DEF PP!ProtocolAssumption

LEMMA SameInit == P!Init <=> PP!Init
  BY DEF P!Init, PP!Init, P!KeyIds, PP!KeyIds, P!Blank, PP!Blank,
         P!Silent, PP!Silent, P!EffectiveKeyId, PP!EffectiveKeyId, P!KeyUri, PP!KeyUri,
         P!KeyId, PP!KeyId, P!KeyScope, PP!KeyScope, P!OpScope, PP!OpScope,
         P!Scheme, PP!Scheme

LEMMA SameObserve == P!Observe <=> PP!Observe
  BY DEF P!Observe, PP!Observe, P!Permitted, PP!Permitted, P!Has, PP!Has,
         P!HasAny, PP!HasAny, P!IsAdmin, PP!IsAdmin, P!PolicyIn, PP!PolicyIn,
         P!EffectiveKeyId, PP!EffectiveKeyId, P!KeyUri, PP!KeyUri, P!KeyId, PP!KeyId,
         P!KeyScope, PP!KeyScope, P!OpScope, PP!OpScope, P!Scheme, PP!Scheme

LEMMA SamePairLeft == P!PairLeft <=> PP!PairLeft
  BY DEF P!PairLeft, PP!PairLeft, P!Cardinality, PP!Cardinality, P!IsFiniteSet, PP!IsFiniteSet

LEMMA SameHandle ==
    ASSUME NEW r \in Requests
    PROVE  P!Handle(r) <=> PP!Handle(r)
<1> USE SameObserve
     DEF P!Goto, PP!Goto, P!Answer, PP!Answer, P!tables, PP!tables,
         P!history, PP!history, P!IsAdmin, PP!IsAdmin, P!Blank, PP!Blank,
         P!Silent, PP!Silent, P!EffectiveKeyId, PP!EffectiveKeyId, P!KeyUri, PP!KeyUri,
         P!KeyId, PP!KeyId, P!KeyScope, PP!KeyScope, P!OpScope, PP!OpScope,
         P!Scheme, PP!Scheme, P!KeyIds, PP!KeyIds, P!Has, PP!Has,
         P!HasAny, PP!HasAny, P!PolicyIn, PP!PolicyIn, P!May, PP!May,
         P!MayAny, PP!MayAny, P!Initialise, PP!Initialise, P!SetPolicy, PP!SetPolicy,
         P!CreatorPolicy, PP!CreatorPolicy, P!Free, PP!Free
<1>1. P!Create(r) <=> PP!Create(r)
  BY DEF P!Create, PP!Create
<1>2. /\ P!GrantUri(r) <=> PP!GrantUri(r)
      /\ P!GrantScope(r) <=> PP!GrantScope(r)
  BY DEF P!GrantUri, PP!GrantUri, P!GrantScope, PP!GrantScope
<1>3. /\ P!Delete(r) <=> PP!Delete(r)
      /\ P!Remove(r) <=> PP!Remove(r)
      /\ P!Resolve(r) <=> PP!Resolve(r)
      /\ P!Read(r) <=> PP!Read(r)
  BY DEF P!Delete, PP!Delete, P!Remove, PP!Remove, P!Resolve, PP!Resolve,
         P!Read, PP!Read
<1>4. /\ P!Execute(r) <=> PP!Execute(r)
      /\ P!Setup(r) <=> PP!Setup(r)
      /\ P!Load(r) <=> PP!Load(r)
      /\ P!Issue(r) <=> PP!Issue(r)
  BY DEF P!Execute, PP!Execute, P!Setup, PP!Setup, P!Load, PP!Load,
         P!Issue, PP!Issue
<1>5. /\ P!List(r) <=> PP!List(r)
      /\ P!Show(r) <=> PP!Show(r)
      /\ P!ListScopes(r) <=> PP!ListScopes(r)
  BY DEF P!List, PP!List, P!Show, PP!Show, P!ListScopes, PP!ListScopes
<1>6. /\ P!Replace(r) <=> PP!Replace(r)
      /\ P!Permit(r) <=> PP!Permit(r)
      /\ P!Write(r) <=> PP!Write(r)
  BY DEF P!Replace, PP!Replace, P!Permit, PP!Permit, P!Write, PP!Write
<1> HIDE DEF P!Goto, PP!Goto, P!Answer, PP!Answer, P!tables, PP!tables,
         P!history, PP!history, P!IsAdmin, PP!IsAdmin, P!Blank, PP!Blank,
         P!Silent, PP!Silent, P!EffectiveKeyId, PP!EffectiveKeyId, P!KeyUri, PP!KeyUri,
         P!KeyId, PP!KeyId, P!KeyScope, PP!KeyScope, P!OpScope, PP!OpScope,
         P!Scheme, PP!Scheme, P!KeyIds, PP!KeyIds, P!Has, PP!Has,
         P!HasAny, PP!HasAny, P!PolicyIn, PP!PolicyIn, P!May, PP!May,
         P!MayAny, PP!MayAny, P!Initialise, PP!Initialise, P!SetPolicy, PP!SetPolicy,
         P!CreatorPolicy, PP!CreatorPolicy, P!Free, PP!Free
<1> QED BY <1>1, <1>2, <1>3, <1>4, <1>5, <1>6 DEF P!Handle, PP!Handle

LEMMA SameNext == [P!Next]_(P!vars) <=> [PP!Next]_(PP!vars)
<1>1. \A r \in Requests, q \in RoutedCalls : P!Arrive(r, q) <=> PP!Arrive(r, q)
  BY SameObserve, SamePairLeft
     DEF P!Arrive, PP!Arrive, P!Silent, PP!Silent, P!tables, PP!tables,
         P!history, PP!history
<1>2. P!Restart <=> PP!Restart
  BY SameObserve
     DEF P!Restart, PP!Restart, P!KeyIds, PP!KeyIds, P!Blank, PP!Blank,
         P!Silent, PP!Silent, P!EffectiveKeyId, PP!EffectiveKeyId
<1> QED BY <1>1, <1>2, SameHandle DEF P!Next, PP!Next, P!vars, PP!vars

\* Nobody acts unpermitted, in Protocol as the service runs it.
LEMMA PermittedInService == ServiceSpec => []P!ActedWasPermitted
<1>1. PP!Spec => []PP!ActedWasPermitted
  BY RoutedCallsAssumption, PP!NobodyActsUnpermitted
<1>2. P!ActedWasPermitted <=> PP!ActedWasPermitted
  BY DEF P!ActedWasPermitted, PP!ActedWasPermitted, P!EffectSteps, PP!EffectSteps
<1> QED BY <1>1, <1>2, SameInit, SameNext, ServiceImplementsProtocol, PTL
       DEF ProtocolSpec, P!Spec, PP!Spec

-----------------------------------------------------------------------------
(* What a request in its handler was accepted for *)

\* A registration stays with its client, or goes.
LEMMA ClientOfRegistration ==
    ASSUME IInv, [Next]_vars, NEW id \in issued,
           registrations[id] # Null, registrations'[id] # Null
    PROVE  registrations'[id].client = registrations[id].client
<1> USE DEF IInv, TypeOK, DataOK, HistoryOK
<1>0. id \in Ids /\ registrations[id] \in Registration
  OBVIOUS
<1>1. CASE registrations' = registrations
  BY <1>1
<1>2. CASE registrations' = Retained
  BY <1>0, <1>2 DEF Retained, Kept
<1>3. ASSUME NEW client \in Clients, NEW key \in Keys, OpenNew(client, key)
      PROVE  registrations'[id].client = registrations[id].client
  BY <1>0, <1>3 DEF OpenNew, Retained, Kept
<1>4. ASSUME NEW r \in Requests, StoreKey(r)
      PROVE  registrations'[id].client = registrations[id].client
  BY <1>0, <1>4 DEF StoreKey, Registration
<1>5. ASSUME NEW r \in Requests, Commit(r)
      PROVE  registrations'[id].client = registrations[id].client
  BY <1>0, <1>5 DEF Commit, Registration
<1>6. ASSUME NEW r \in Requests, RemoveClient(r)
      PROVE  registrations'[id].client = registrations[id].client
  BY <1>0, <1>6 DEF RemoveClient
<1>7. CASE Restart
  BY <1>0, <1>7 DEF Restart
<1> QED BY <1>1, <1>2, <1>3, <1>4, <1>5, <1>6, <1>7, WhoWritesRegistrations

\* The steps after the lookup.
Passed == {"verify", "commit", "handler"}

\* A request past its lookup is of a registration of this process, which is its
\* client's as long as it is there; in its handler it was signed under its key.
HandlerOK ==
    Mode = "registered" => \A r \in Requests :
        /\ pc[r] \in Passed =>
              /\ req[r].id \in issued \ retired
              /\ registrations[req[r].id] # Null =>
                    registrations[req[r].id].client = local[r].client
        /\ pc[r] = "handler" => req[r].key = bound[req[r].id]

\* Past the lookup a request keeps what it carries.
LEMMA CarriedRequest ==
    ASSUME TypeOK, Next, Mode = "registered", NEW r \in Requests,
           pc[r] \in Passed, pc'[r] \in Passed
    PROVE  /\ req'[r] = req[r] /\ ~Restart
           /\ pc'[r] = "handler" => pc[r] \in {"commit", "handler"}
<1> USE DEF TypeOK, RequestsOK, Passed
<1>0. ~Restart
  BY DEF Restart
<1>1. CASE \E client \in Clients, key \in Keys :
               OpenExisting(client, key) \/ OpenNew(client, key)
  BY <1>0, <1>1 DEF OpenExisting, OpenNew
<1>2. CASE \E s \in Requests : Arrive(s)
  BY <1>0, <1>2 DEF Arrive, ArriveRegister, ArriveSigned
<1>3. ASSUME NEW s \in Requests, Handle(s)
      PROVE  /\ req'[r] = req[r]
             /\ pc'[r] = "handler" => pc[r] \in {"commit", "handler"}
  <2> USE DEF Goto, Answer
  <2>1. CASE ReadRegistration(s) \/ CheckAcceptance(s) \/ StoreKey(s)
    BY <2>1 DEF ReadRegistration, CheckAcceptance, StoreKey
  <2>2. CASE Authenticate(s) \/ LookUp(s) \/ Verify(s)
    BY <2>2 DEF Authenticate, LookUp, Verify
  <2>3. CASE Commit(s)
    BY <2>3 DEF Commit
  <2>4. CASE AddClient(s) \/ RemoveClient(s) \/ ServeOther(s)
    BY <2>4 DEF AddClient, RemoveClient, ServeOther
  <2> QED BY <1>3, <2>1, <2>2, <2>3, <2>4 DEF Handle
<1>4. CASE Tick
  BY <1>0, <1>4 DEF Tick
<1> QED BY <1>0, <1>1, <1>2, <1>3, <1>4 DEF Next

\* Between restarts an id stays issued, and its binding stays once it is made.
LEMMA BindingKept ==
    ASSUME IInv, [Next]_vars, ~Restart, NEW id \in issued \ retired
    PROVE  /\ id \in issued' \ retired'
           /\ bound[id] # Null => bound'[id] = bound[id]
<1>1. [Contract!ContractNext]_(Contract!contractVars)
  BY NextContract
<1>2. retired' = retired
  BY DEF Next, OpenExisting, OpenNew, Arrive, ArriveRegister, ArriveSigned, Handle,
     ReadRegistration, CheckAcceptance, StoreKey, Authenticate, LookUp, Verify, Commit,
     AddClient, RemoveClient, ServeOther, Tick, history, vars
<1>3. id \in issued' /\ (bound[id] # Null => bound'[id] = bound[id])
  BY <1>1, <1>2 DEF Contract!ContractNext, Contract!contractVars, Contract!Issue,
     Contract!Bind, Contract!Accept, Contract!Advance, Contract!Retire,
     IInv, TypeOK, HistoryOK
<1> QED BY <1>2, <1>3

LEMMA HandlerStep ==
    ASSUME IInv, HandlerOK, [Next]_vars
    PROVE  HandlerOK'
<1> SUFFICES ASSUME Mode = "registered", NEW r \in Requests, pc'[r] \in Passed
             PROVE  /\ req'[r].id \in issued' \ retired'
                    /\ registrations'[req'[r].id] # Null =>
                          registrations'[req'[r].id].client = local'[r].client
                    /\ pc'[r] = "handler" => req'[r].key = bound'[req'[r].id]
  BY DEF HandlerOK, Passed
<1>1. CASE UNCHANGED vars
  BY <1>1 DEF vars, history, HandlerOK
<1>2. CASE Next /\ pc[r] \in Passed
  <2>1. /\ req'[r] = req[r] /\ ~Restart
        /\ pc'[r] = "handler" => pc[r] \in {"commit", "handler"}
    BY <1>2, CarriedRequest DEF IInv
  <2>2. local'[r].client = local[r].client
    BY <1>2, CarriedClient DEF Passed
  <2>3. /\ req[r].id \in issued \ retired
        /\ registrations[req[r].id] # Null =>
              registrations[req[r].id].client = local[r].client
        /\ pc'[r] = "handler" => req[r].key = bound[req[r].id]
    BY <1>2, <2>1 DEF HandlerOK, IInv, ContractInv, CarriedOK
  <2>4. req[r] \in Messages
    BY <1>2 DEF Passed, IInv, TypeOK, RequestsOK, AuthSteps
  <2>5. req[r].key # Null
    BY <2>4, AuthAssumption, NullAssumption DEF SignedMessage
  <2>6. registrations'[req[r].id] # Null => registrations[req[r].id] # Null
    BY <2>3, RegistrationSteps DEF IInv, TypeOK, HistoryOK
  <2> QED BY <2>1, <2>2, <2>3, <2>5, <2>6, BindingKept, ClientOfRegistration
<1>3. CASE LookUp(r)
  <2>1. /\ req'[r] = req[r] /\ UNCHANGED <<registrations, issued, retired>>
        /\ registrations[req[r].id] # Null
        /\ local'[r].client = registrations[req[r].id].client
        /\ pc'[r] = "verify"
    BY <1>3 DEF LookUp, Answer, Goto, Passed, authData, history, IInv, TypeOK, RequestsOK
  <2>2. req[r].id \in Ids
    BY <1>3, AuthAssumption
       DEF LookUp, IInv, TypeOK, RequestsOK, AuthSteps, SignedMessage
  <2> QED BY <2>1, <2>2 DEF IInv, ContractInv, BoundOK
<1>4. CASE Next /\ pc[r] \notin Passed /\ ~LookUp(r)
  BY <1>4, StepsOf DEF Passed
<1> QED BY <1>1, <1>2, <1>3, <1>4

-----------------------------------------------------------------------------
(* What a slot runs *)

\* A slot runs a route body only while its request is in the handler, with the
\* call and the caller of that request.
SlotOK ==
    /\ keyCall = [r \in Requests |-> keyCall[r]]
    /\ \A r \in Requests : keyPc[r] # "idle" =>
          pc[r] = "handler" /\ Route[req[r]] # Null /\ keyCall[r] = CallOf(r)

\* A step of Auth for one slot leaves the others alone.
LEMMA AuthSlot ==
    ASSUME TypeOK, NEW r \in Requests, Arrive(r) \/ Handle(r)
    PROVE  \A s \in Requests \ {r} :
              pc'[s] = pc[s] /\ req'[s] = req[s] /\ local'[s] = local[s]
<1> USE DEF TypeOK, RequestsOK, Goto, Answer
<1>1. CASE Arrive(r)
  BY <1>1 DEF Arrive, ArriveRegister, ArriveSigned
<1>2. CASE ReadRegistration(r) \/ CheckAcceptance(r) \/ StoreKey(r)
  BY <1>2 DEF ReadRegistration, CheckAcceptance, StoreKey
<1>3. CASE Authenticate(r) \/ LookUp(r) \/ Verify(r)
  BY <1>3 DEF Authenticate, LookUp, Verify
<1>4. CASE Commit(r)
  BY <1>4 DEF Commit
<1>5. CASE AddClient(r) \/ RemoveClient(r) \/ ServeOther(r)
  BY <1>5 DEF AddClient, RemoveClient, ServeOther
<1> QED BY <1>1, <1>2, <1>3, <1>4, <1>5 DEF Handle

\* A route body keeps its call until it answers.
LEMMA CallSlot ==
    ASSUME KeyPcOK, SlotOK, NEW r \in Requests, P!Handle(r)
    PROVE  /\ keyCall' = [s \in Requests |-> keyCall'[s]]
           /\ \A s \in Requests \ {r} : keyCall'[s] = keyCall[s]
           /\ keyPc'[r] # "idle" => keyCall' = keyCall
<1> USE DEF KeyPcOK, SlotOK, P!Goto, P!Answer
<1>1. CASE P!Create(r) \/ P!GrantUri(r) \/ P!GrantScope(r)
  BY <1>1 DEF P!Create, P!GrantUri, P!GrantScope
<1>2. CASE P!Delete(r) \/ P!Remove(r) \/ P!Resolve(r) \/ P!Read(r)
  BY <1>2 DEF P!Delete, P!Remove, P!Resolve, P!Read
<1>3. CASE P!Execute(r) \/ P!Setup(r) \/ P!Load(r) \/ P!Issue(r)
  BY <1>3 DEF P!Execute, P!Setup, P!Load, P!Issue
<1>4. CASE P!List(r) \/ P!Show(r) \/ P!ListScopes(r)
  BY <1>4 DEF P!List, P!Show, P!ListScopes
<1>5. CASE P!Replace(r) \/ P!Permit(r) \/ P!Write(r)
  BY <1>5 DEF P!Replace, P!Permit, P!Write
<1> QED BY <1>1, <1>2, <1>3, <1>4, <1>5 DEF P!Handle

LEMMA SlotStep ==
    ASSUME ServiceInv, SlotOK, [ServiceNext]_allVars
    PROVE  SlotOK'
<1> USE DEF ServiceInv, IInv
<1>1. CASE Open \/ Time
  BY <1>1 DEF Open, Time, OpenExisting, OpenNew, Tick, protocolVars, SlotOK, CallOf
<1>2. ASSUME NEW r \in Requests, Guard(r) \/ Unreadable(r)
      PROVE  SlotOK'
  <2>1. UNCHANGED <<keyPc, keyCall>> /\ (Arrive(r) \/ Handle(r))
    BY <1>2 DEF Guard, Unreadable, protocolVars, Handle
  <2>2. keyPc[r] = "idle"
    BY <1>2 DEF Guard, Unreadable, SlotOK
  <2> QED BY <2>1, <2>2, AuthSlot DEF SlotOK, CallOf
<1>3. ASSUME NEW r \in Requests, Dispatch(r)
      PROVE  SlotOK'
  <2>1. /\ UNCHANGED <<pc, req, local>> /\ pc[r] = "handler" /\ Route[req[r]] # Null
        /\ keyPc' = [keyPc EXCEPT ![r] = CallOf(r).route]
        /\ keyCall' = [keyCall EXCEPT ![r] = CallOf(r)]
    BY <1>3 DEF Dispatch, P!Arrive, authVars, vars
  <2> QED BY <2>1 DEF SlotOK, KeyPcOK, CallOf
<1>4. ASSUME NEW r \in Requests, RouteBody(r)
      PROVE  SlotOK'
  <2>1. /\ keyPc[r] # "idle"
        /\ \A s \in Requests \ {r} : keyPc'[s] = keyPc[s]
    BY <1>4, RouteSlot DEF RouteBody
  <2>2. CASE keyPc'[r] = "idle"
    <3>1. \A s \in Requests \ {r} :
              pc'[s] = pc[s] /\ req'[s] = req[s] /\ local'[s] = local[s]
      BY <1>4, <2>2, AuthSlot DEF RouteBody, Handle
    <3> QED BY <1>4, <2>1, <2>2, <3>1, CallSlot DEF RouteBody, SlotOK, CallOf
  <2>3. CASE keyPc'[r] # "idle"
    <3>1. UNCHANGED <<pc, req, local>>
      BY <1>4, <2>3 DEF RouteBody, authVars, vars
    <3> QED BY <1>4, <2>1, <2>3, <3>1, CallSlot DEF RouteBody, SlotOK, CallOf
  <2> QED BY <2>2, <2>3
<1>5. CASE Stop
  BY <1>5 DEF Stop, P!Restart, SlotOK
<1>6. CASE UNCHANGED allVars
  BY <1>6 DEF allVars, authVars, vars, protocolVars, SlotOK, CallOf
<1> QED BY <1>1, <1>2, <1>3, <1>4, <1>5, <1>6 DEF ServiceNext

\* End to end, for any number of clients, keys, requests in flight, removals,
\* replacements and restarts: what a client brings about with a key or a grant was
\* signed under its accepted key and granted to it, since the request came.
THEOREM EffectsSignedAndGranted == ServiceSpec => []EffectsWereSignedAndGranted
<1>1. ServiceInit => ServiceInv /\ HandlerOK /\ SlotOK
  <2>1. ServiceInit => HandlerOK /\ SlotOK
    BY DEF ServiceInit, Init, P!Init, HandlerOK, SlotOK, Passed
  <2> QED BY <2>1, InitServiceInv
<1>2. ServiceInv /\ HandlerOK /\ SlotOK /\ [ServiceNext]_allVars =>
          ServiceInv' /\ HandlerOK' /\ SlotOK'
  BY NextServiceInv, HandlerStep, SlotStep, StepIsAuths DEF ServiceInv
<1>3. ServiceSpec => []PassedWasEntitled
  BY ServiceImplementsAuth, NobodyPassesUnentitled, PTL DEF AuthSpec
<1>4. ServiceInv /\ HandlerOK /\ SlotOK /\ PassedWasEntitled /\ P!ActedWasPermitted =>
          EffectsWereSignedAndGranted
  <2> SUFFICES ASSUME ServiceInv, HandlerOK, SlotOK, PassedWasEntitled,
                      P!ActedWasPermitted, NEW r \in Requests,
                      Mode = "registered", keyPc[r] \in P!EffectSteps
               PROVE  /\ entitled[r] /\ permitted[r]
                      /\ req[r].id \in issued \ retired
                      /\ req[r].key = bound[req[r].id]
                      /\ keyCall[r].caller = local[r].client
                      /\ registrations[req[r].id] # Null =>
                            registrations[req[r].id].client = keyCall[r].caller
    BY DEF EffectsWereSignedAndGranted
  <2>1. pc[r] = "handler" /\ Route[req[r]] # Null /\ keyCall[r] = CallOf(r)
    BY DEF SlotOK, P!EffectSteps
  <2>2. keyCall[r].caller = local[r].client
    <3>1. req[r] \in Messages
      BY <2>1 DEF ServiceInv, IInv, TypeOK, RequestsOK, AuthSteps
    <3>2. Route[req[r]] \in P!Call
      BY <2>1, <3>1, ServiceAssumption
    <3> QED BY <2>1, <3>2 DEF CallOf, P!Call
  <2>3. entitled[r] /\ permitted[r]
    BY <2>1 DEF PassedWasEntitled, P!ActedWasPermitted
  <2> QED BY <2>1, <2>2, <2>3 DEF HandlerOK, Passed
<1> QED BY <1>1, <1>2, <1>3, <1>4, PermittedInService, PTL DEF ServiceSpec

-----------------------------------------------------------------------------
(* The types of the service *)

\* Protocol keeps its types, as the service runs it.
LEMMA ProtocolTypesInService == ServiceSpec => []P!TypeOK
<1>1. PP!Spec => []PP!TypeOK
  BY RoutedCallsAssumption, PP!TypesKept
<1>2. P!KeyIds = PP!KeyIds /\ P!Scopes = PP!Scopes /\ P!Steps = PP!Steps
      /\ P!Grant = PP!Grant /\ P!Statuses = PP!Statuses
  BY DEF P!KeyIds, PP!KeyIds, P!Scopes, PP!Scopes, P!Grant, PP!Grant,
         P!Routes, PP!Routes, P!Operations, PP!Operations,
         P!Steps, PP!Steps, P!Statuses, PP!Statuses,
         P!SigningPurposes, PP!SigningPurposes,
         P!EffectiveKeyId, PP!EffectiveKeyId, P!KeyUri, PP!KeyUri,
         P!KeyId, PP!KeyId, P!KeyScope, PP!KeyScope, P!OpScope, PP!OpScope,
         P!Scheme, PP!Scheme
<1>3. \A step : P!RouteOf(step) = PP!RouteOf(step)
  BY DEF P!RouteOf, PP!RouteOf
<1>4. P!TablesOK <=> PP!TablesOK
  BY <1>2 DEF P!TablesOK, PP!TablesOK
<1>5. P!RequestsOK <=> PP!RequestsOK
  BY <1>2, <1>3 DEF P!RequestsOK, PP!RequestsOK
<1>6. P!HistoryOK <=> PP!HistoryOK
  BY <1>2 DEF P!HistoryOK, PP!HistoryOK
<1>7. P!TypeOK <=> PP!TypeOK
  BY <1>4, <1>5, <1>6 DEF P!TypeOK, PP!TypeOK
<1> QED BY <1>1, <1>7, SameInit, SameNext, ServiceImplementsProtocol, PTL
       DEF ProtocolSpec, P!Spec, PP!Spec

DispatchedOK == dispatched \subseteq Messages

\* What begins its route body is a message.
LEMMA DispatchedStep ==
    ASSUME ServiceInv, DispatchedOK, [ServiceNext]_allVars
    PROVE  DispatchedOK'
<1>1. CASE UNCHANGED dispatched
  BY <1>1 DEF DispatchedOK
<1>2. ASSUME NEW r \in Requests, Dispatch(r)
      PROVE  DispatchedOK'
  <2>1. pc[r] = "handler" /\ dispatched' = dispatched \cup {req[r]}
    BY <1>2 DEF Dispatch
  <2>2. req[r] \in Messages
    BY <2>1 DEF ServiceInv, IInv, TypeOK, RequestsOK, AuthSteps
  <2> QED BY <2>1, <2>2 DEF DispatchedOK
<1> QED BY <1>1, <1>2 DEF ServiceNext, Open, Guard, Unreadable, RouteBody, Time, Stop,
                      allVars

\* Both halves keep their types, and a route body runs only for a request that is
\* in its handler, with the call that request carries and the client it was
\* authenticated as.
THEOREM ServiceTypesKept == ServiceSpec => []ServiceTypeOK
<1>1. ServiceInit => ServiceInv /\ SlotOK /\ DispatchedOK
  <2>1. ServiceInit => SlotOK /\ DispatchedOK
    BY DEF ServiceInit, Init, P!Init, SlotOK, DispatchedOK
  <2> QED BY <2>1, InitServiceInv
<1>2. ServiceInv /\ SlotOK /\ DispatchedOK /\ [ServiceNext]_allVars =>
          ServiceInv' /\ SlotOK' /\ DispatchedOK'
  BY NextServiceInv, SlotStep, DispatchedStep
<1>3. ServiceInv /\ SlotOK /\ DispatchedOK /\ P!TypeOK => ServiceTypeOK
  BY DEF ServiceInv, IInv, SlotOK, DispatchedOK, ServiceTypeOK
<1> QED BY <1>1, <1>2, <1>3, ProtocolTypesInService, PTL DEF ServiceSpec
=============================================================================
