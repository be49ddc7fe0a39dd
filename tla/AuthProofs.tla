----------------------------- MODULE AuthProofs -----------------------------
(***************************************************************************)
(* Theorems about Auth, for every value of its constants.                  *)
(***************************************************************************)
EXTENDS Auth, TLAPS

USE AuthAssumption, NullAssumption

-----------------------------------------------------------------------------
(* The two ways a step leaves a request: answered, or at its next step *)

\* Answering r leaves every request in flight with a step and content that agree.
LEMMA AnswerOK ==
    ASSUME RequestsOK, NEW r \in Requests, NEW status \in Statuses, Answer(r, status)
    PROVE  RequestsOK'
<1> USE DEF RequestsOK, Answer, RegisterSteps, AuthSteps
<1>1. pc' \in [Requests -> {"idle"} \cup RegisterSteps \cup AuthSteps]
  OBVIOUS
<1>2. req' \in [Requests -> {Null} \cup RegisterCalls \cup Messages]
  OBVIOUS
<1>3. local' \in [Requests -> LocalType]
  BY DEF LocalType, Blank
<1>4. reply' \in [to : Requests \cup {Null}, status : Statuses]
  OBVIOUS
<1>5. ASSUME NEW s \in Requests
      PROVE  /\ pc'[s] \in RegisterSteps => req'[s] \in RegisterCalls
             /\ pc'[s] \in AuthSteps => req'[s] \in Messages
             /\ pc'[s] \in {"accept", "store"} => local'[s].client # Null
  OBVIOUS
<1> QED BY <1>1, <1>2, <1>3, <1>4, <1>5

\* local' may carry new values for r, and only for r.
LEMMA GotoOK ==
    ASSUME RequestsOK, NEW r \in Requests, NEW step, Goto(r, step),
           NEW carried \in LocalType, local' = [local EXCEPT ![r] = carried],
           \/ /\ pc[r] \in RegisterSteps /\ step \in RegisterSteps
              /\ carried.client # Null
           \/ pc[r] \in AuthSteps /\ step \in AuthSteps
    PROVE  RequestsOK'
<1> USE DEF RequestsOK, Goto, RegisterSteps, AuthSteps
<1>1. pc' \in [Requests -> {"idle"} \cup RegisterSteps \cup AuthSteps]
  OBVIOUS
<1>2. req' \in [Requests -> {Null} \cup RegisterCalls \cup Messages]
  OBVIOUS
<1>3. local' \in [Requests -> LocalType]
  OBVIOUS
<1>4. reply' \in [to : Requests \cup {Null}, status : Statuses]
  BY DEF Silent, Statuses
<1>5. ASSUME NEW s \in Requests
      PROVE  /\ pc'[s] \in RegisterSteps => req'[s] \in RegisterCalls
             /\ pc'[s] \in AuthSteps => req'[s] \in Messages
             /\ pc'[s] \in {"accept", "store"} => local'[s].client # Null
  OBVIOUS
<1> QED BY <1>1, <1>2, <1>3, <1>4, <1>5

\* The history of entitlements stays a predicate of the slots.
LEMMA ObserveOK ==
    ASSUME Observe
    PROVE  entitled' \in [Requests -> BOOLEAN]
  BY DEF Observe

\* A step that writes no history variable keeps their types.
LEMMA HistoryKept ==
    ASSUME HistoryOK, Observe, UNCHANGED history
    PROVE  HistoryOK'
  BY ObserveOK DEF HistoryOK, history

\* A step that touches neither the tables nor the clock keeps their types.
LEMMA DataKept ==
    ASSUME DataOK, UNCHANGED <<authData, clock>>
    PROVE  DataOK'
  BY DEF DataOK, authData

-----------------------------------------------------------------------------
(* Type correctness: one lemma per action *)

\* open keeps the types when it answers with a registration it has,
LEMMA OpenExistingType ==
    ASSUME TypeOK, NEW client \in Clients, NEW key \in Keys, OpenExisting(client, key)
    PROVE  TypeOK'
<1> USE DEF TypeOK, OpenExisting
<1>1. DataOK'
  BY DEF DataOK, Retained
<1>2. RequestsOK'
  BY DEF RequestsOK, Silent, Statuses
<1>3. HistoryOK'
  BY HistoryKept
<1> QED BY <1>1, <1>2, <1>3

\* and when it inserts one under an id not drawn before.
LEMMA OpenNewType ==
    ASSUME TypeOK, NEW client \in Clients, NEW key \in Keys, OpenNew(client, key)
    PROVE  TypeOK'
<1> USE DEF TypeOK, OpenNew
<1>1. DataOK'
  <2>1. Retained \in [Ids -> Registration \cup {Null}]
    BY DEF DataOK, Retained
  <2>2. [client |-> client, key |-> Null, created |-> clock, lastUse |-> Null]
            \in Registration
    BY DEF DataOK, Registration
  <2> QED BY <2>1, <2>2 DEF DataOK
<1>2. RequestsOK'
  BY DEF RequestsOK, Silent, Statuses
<1>3. HistoryOK'
  BY ObserveOK DEF HistoryOK
<1> QED BY <1>1, <1>2, <1>3

\* A register call takes a free slot and starts at its first step.
LEMMA ArriveRegisterType ==
    ASSUME TypeOK, NEW r \in Requests, NEW q \in RegisterCalls, ArriveRegister(r, q)
    PROVE  TypeOK'
<1> USE DEF TypeOK, ArriveRegister
<1>1. RequestsOK'
  BY DEF RequestsOK, Silent, Statuses, RegisterSteps, AuthSteps
<1> QED BY <1>1, DataKept, HistoryKept

\* register's first critical section carries a client out, or answers.
LEMMA ReadRegistrationType ==
    ASSUME TypeOK, NEW r \in Requests, ReadRegistration(r)
    PROVE  TypeOK'
<1> USE DEF TypeOK, ReadRegistration
<1>1. RequestsOK'
  <2> DEFINE reg == registrations[req[r].id]
  <2>1. req[r].id \in Ids
    BY DEF RequestsOK, RegisterSteps, RegisterRequest
  <2>2. CASE reg = Null /\ Answer(r, "NotFound")
    BY <2>2, AnswerOK DEF Statuses
  <2>3. CASE Answer(r, IF reg.key = req[r].key THEN "NoContent" ELSE "Conflict")
    BY <2>3, AnswerOK DEF Statuses
  <2>4. CASE /\ reg # Null
             /\ local' = [local EXCEPT ![r].client = reg.client]
             /\ Goto(r, "accept")
    <3>1. reg.client \in Clients
      BY <2>1, <2>4 DEF DataOK, Registration
    <3> DEFINE carried == [local[r] EXCEPT !.client = reg.client]
    <3>2. carried \in LocalType /\ carried.client # Null
      BY <3>1 DEF RequestsOK, LocalType
    <3>3. local' = [local EXCEPT ![r] = carried]
      BY <2>4
    <3> QED BY <2>4, <3>2, <3>3, GotoOK DEF RegisterSteps
  <2> QED BY <2>2, <2>3, <2>4
<1> QED BY <1>1, DataKept, HistoryKept

\* register's second critical section changes nothing but the step.
LEMMA CheckAcceptanceType ==
    ASSUME TypeOK, NEW r \in Requests, CheckAcceptance(r)
    PROVE  TypeOK'
<1> USE DEF TypeOK, CheckAcceptance
<1>1. RequestsOK'
  <2>1. CASE Answer(r, "Forbidden") \/ Answer(r, "Unauthorized")
    BY <2>1, AnswerOK DEF Statuses
  <2>2. CASE Goto(r, "store") /\ UNCHANGED local
    <3>1. local[r] \in LocalType /\ local[r].client # Null
      BY DEF RequestsOK
    <3>2. local' = [local EXCEPT ![r] = local[r]]
      BY <2>2 DEF RequestsOK
    <3> QED BY <2>2, <3>1, <3>2, GotoOK DEF RegisterSteps
  <2> QED BY <2>1, <2>2
<1> QED BY <1>1, DataKept, HistoryKept

\* register's last critical section writes a key into a registration that has none.
LEMMA StoreKeyType ==
    ASSUME TypeOK, NEW r \in Requests, StoreKey(r)
    PROVE  TypeOK'
<1> USE DEF TypeOK, StoreKey
<1>1. req[r] \in RegisterRequest
  BY DEF RequestsOK, RegisterSteps
<1>2. RequestsOK'
  BY AnswerOK DEF Statuses
<1>3. DataOK'
  <2>1. CASE UNCHANGED registrations
    BY <2>1 DEF DataOK
  <2>2. CASE /\ registrations[req[r].id] # Null
             /\ registrations' = [registrations EXCEPT ![req[r].id].key = req[r].key]
    BY <1>1, <2>2 DEF DataOK, Registration, RegisterRequest
  <2> QED BY <2>1, <2>2
<1>4. HistoryOK'
  BY <1>1, ObserveOK DEF HistoryOK, RegisterRequest
<1> QED BY <1>2, <1>3, <1>4

\* A signed message takes a free slot and starts at authenticate.
LEMMA ArriveSignedType ==
    ASSUME TypeOK, NEW r \in Requests, NEW m \in Messages, ArriveSigned(r, m)
    PROVE  TypeOK'
<1> USE DEF TypeOK, ArriveSigned
<1>1. RequestsOK'
  BY DEF RequestsOK, Silent, Statuses, RegisterSteps, AuthSteps
<1> QED BY <1>1, DataKept, HistoryKept

\* authenticate's header checks move the request on, or answer.
LEMMA AuthenticateType ==
    ASSUME TypeOK, NEW r \in Requests, Authenticate(r)
    PROVE  TypeOK'
<1> USE DEF TypeOK, Authenticate
<1>1. RequestsOK'
  <2>1. CASE Answer(r, "Forbidden") \/ Answer(r, "Unauthorized")
    BY <2>1, AnswerOK DEF Statuses
  <2>2. CASE (Goto(r, "handler") \/ Goto(r, "lookup")) /\ UNCHANGED local
    <3>1. local[r] \in LocalType /\ local' = [local EXCEPT ![r] = local[r]]
      BY <2>2 DEF RequestsOK
    <3> QED BY <2>2, <3>1, GotoOK DEF AuthSteps
  <2> QED BY <2>1, <2>2
<1> QED BY <1>1, DataKept, HistoryKept

\* The lookup carries the client and the key of a completed registration.
LEMMA LookUpType ==
    ASSUME TypeOK, NEW r \in Requests, LookUp(r)
    PROVE  TypeOK'
<1> USE DEF TypeOK, LookUp
<1>1. RequestsOK'
  <2> DEFINE reg == registrations[req[r].id]
             carried == [client |-> reg.client, key |-> reg.key, now |-> 0]
  <2>1. req[r].id \in Ids
    BY DEF RequestsOK, AuthSteps, SignedMessage
  <2>2. CASE Answer(r, "Forbidden") \/ Answer(r, "Unauthorized")
    BY <2>2, AnswerOK DEF Statuses
  <2>3. CASE /\ reg # Null
             /\ local' = [local EXCEPT ![r] = carried]
             /\ Goto(r, "verify")
    <3>1. carried \in LocalType
      BY <2>1, <2>3 DEF DataOK, Registration, LocalType
    <3> QED BY <2>3, <3>1, GotoOK DEF AuthSteps
  <2> QED BY <2>2, <2>3
<1> QED BY <1>1, DataKept, HistoryKept

\* The proof is checked and the clock is read into the request.
LEMMA VerifyType ==
    ASSUME TypeOK, NEW r \in Requests, Verify(r)
    PROVE  TypeOK'
<1> USE DEF TypeOK, Verify
<1>1. RequestsOK'
  <2>1. CASE Answer(r, "Unauthorized")
    BY <2>1, AnswerOK DEF Statuses
  <2>2. CASE local' = [local EXCEPT ![r].now = clock] /\ Goto(r, "commit")
    <3> DEFINE carried == [local[r] EXCEPT !.now = clock]
    <3>1. carried \in LocalType
      BY DEF DataOK, RequestsOK, LocalType
    <3>2. local' = [local EXCEPT ![r] = carried]
      BY <2>2
    <3> QED BY <2>2, <3>1, <3>2, GotoOK DEF AuthSteps
  <2> QED BY <2>1, <2>2
<1> QED BY <1>1, DataKept, HistoryKept

\* The commit keeps the cache a set of messages and last_use a time.
LEMMA CommitType ==
    ASSUME TypeOK, NEW r \in Requests, Commit(r)
    PROVE  TypeOK'
<1> USE DEF TypeOK, Commit
<1>1. req[r] \in Messages /\ req[r].id \in Ids /\ local[r].now \in Nat
  BY DEF RequestsOK, AuthSteps, SignedMessage, LocalType
<1>2. RequestsOK'
  <2>1. CASE Answer(r, "Unauthorized")
    BY <2>1, AnswerOK DEF Statuses
  <2>2. CASE Goto(r, "handler") /\ UNCHANGED local
    <3>1. local[r] \in LocalType /\ local' = [local EXCEPT ![r] = local[r]]
      BY <2>2 DEF RequestsOK
    <3> QED BY <2>2, <3>1, GotoOK DEF AuthSteps
  <2> QED BY <2>1, <2>2
<1>3. DataOK'
  <2>1. signatures' \subseteq Messages
    BY <1>1 DEF DataOK
  <2>2. registrations' \in [Ids -> Registration \cup {Null}]
    <3>1. CASE UNCHANGED registrations
      BY <3>1 DEF DataOK
    <3>2. CASE /\ registrations[req[r].id] # Null
               /\ registrations' = [registrations EXCEPT ![req[r].id].lastUse = local[r].now]
      BY <1>1, <3>2 DEF DataOK, Registration
    <3> QED BY <3>1, <3>2
  <2> QED BY <2>1, <2>2 DEF DataOK
<1>4. HistoryOK'
  BY <1>1, ObserveOK DEF HistoryOK
<1> QED BY <1>2, <1>3, <1>4

\* add_client writes a key into the client table.
LEMMA AddClientType ==
    ASSUME TypeOK, NEW r \in Requests, AddClient(r)
    PROVE  TypeOK'
<1> USE DEF TypeOK, AddClient
<1>1. req[r].op \in Operations
  BY DEF RequestsOK, AuthSteps, SignedMessage
<1>2. RequestsOK'
  BY AnswerOK DEF Statuses
<1>3. DataOK'
  BY <1>1 DEF DataOK, Operations
<1> QED BY <1>2, <1>3, HistoryKept

\* remove_client empties an entry and drops its registrations.
LEMMA RemoveClientType ==
    ASSUME TypeOK, NEW r \in Requests, RemoveClient(r)
    PROVE  TypeOK'
<1> USE DEF TypeOK, RemoveClient
<1>1. req[r].op \in Operations
  BY DEF RequestsOK, AuthSteps, SignedMessage
<1>2. RequestsOK'
  BY AnswerOK DEF Statuses
<1>3. DataOK'
  BY <1>1 DEF DataOK, Operations
<1> QED BY <1>2, <1>3, HistoryKept

\* The other routes only answer.
LEMMA ServeOtherType ==
    ASSUME TypeOK, NEW r \in Requests, ServeOther(r)
    PROVE  TypeOK'
<1> USE DEF TypeOK, ServeOther
<1>1. RequestsOK'
  BY AnswerOK DEF Statuses
<1> QED BY <1>1, DataKept, HistoryKept

\* The clock stays below its bound.
LEMMA TickType ==
    ASSUME TypeOK, Tick
    PROVE  TypeOK'
<1> USE DEF TypeOK, Tick
<1>1. DataOK'
  BY DEF DataOK, authData
<1>2. RequestsOK'
  BY DEF RequestsOK, Silent, Statuses
<1> QED BY <1>1, <1>2, HistoryKept

\* A restart sets the tables and the slots to what Init made them.
LEMMA RestartType ==
    ASSUME TypeOK, Restart
    PROVE  TypeOK'
<1> USE DEF TypeOK, Restart
<1>1. DataOK'
  BY DEF DataOK
<1>2. RequestsOK'
  BY DEF RequestsOK, Silent, Statuses, LocalType, Blank, RegisterSteps, AuthSteps
<1>3. HistoryOK'
  BY ObserveOK DEF HistoryOK
<1> QED BY <1>1, <1>2, <1>3

\* The initial state has the types.
LEMMA InitTypeOK == Init => TypeOK
  BY DEF Init, TypeOK, DataOK, RequestsOK, HistoryOK, LocalType, Blank, Silent,
         Statuses, RegisterSteps, AuthSteps

\* The type invariant is inductive by itself.
LEMMA NextTypeOK == TypeOK /\ [Next]_vars => TypeOK'
<1> SUFFICES ASSUME TypeOK, [Next]_vars PROVE TypeOK'
  OBVIOUS
<1>1. CASE \E client \in Clients, key \in Keys :
               OpenExisting(client, key) \/ OpenNew(client, key)
  BY <1>1, OpenExistingType, OpenNewType
<1>2. CASE \E r \in Requests : Arrive(r)
  BY <1>2, ArriveRegisterType, ArriveSignedType DEF Arrive
<1>3. CASE \E r \in Requests : Handle(r)
  BY <1>3, ReadRegistrationType, CheckAcceptanceType, StoreKeyType, AuthenticateType,
     LookUpType, VerifyType, CommitType, AddClientType, RemoveClientType,
     ServeOtherType DEF Handle
<1>4. CASE Tick
  BY <1>4, TickType
<1>5. CASE Restart
  BY <1>5, RestartType
<1>6. CASE UNCHANGED vars
  BY <1>6 DEF vars, TypeOK, DataOK, RequestsOK, HistoryOK
<1> QED BY <1>1, <1>2, <1>3, <1>4, <1>5, <1>6 DEF Next

\* Every variable of Auth keeps its type in every reachable state.
THEOREM TypeCorrect == Spec => []TypeOK
<1>1. Init => TypeOK
  BY InitTypeOK
<1>2. TypeOK /\ [Next]_vars => TypeOK'
  BY NextTypeOK
<1> QED BY <1>1, <1>2, PTL DEF Spec

-----------------------------------------------------------------------------
(* Auth implements AuthContract *)

IInv == TypeOK /\ ContractInv

\* Steps that touch neither the tables nor the history nor the clock keep BoundOK
\* and Remembered.
LEMMA Frame ==
    ASSUME BoundOK, Remembered, UNCHANGED <<authData, clock, history>>
    PROVE  BoundOK' /\ Remembered'
  BY DEF BoundOK, Remembered, authData, history

\* A request that is answered carries nothing on.
LEMMA CarriedAnswer ==
    ASSUME RequestsOK, CarriedOK, NEW r \in Requests, NEW status, Answer(r, status),
           UNCHANGED <<issued, retired, bound, clock>>
    PROVE  CarriedOK'
  BY DEF CarriedOK, Answer, RequestsOK

\* The registrations that open keeps are unchanged, and bound as before.
LEMMA OpenExistingInv ==
    ASSUME IInv, NEW client \in Clients, NEW key \in Keys, OpenExisting(client, key)
    PROVE  ContractInv'
<1> USE DEF IInv, TypeOK, ContractInv, OpenExisting, history
<1>1. BoundOK'
  BY DEF BoundOK, Retained
<1>2. CarriedOK' /\ Remembered'
  BY DEF CarriedOK, Remembered
<1> QED BY <1>1, <1>2

\* A new registration has a fresh id, which is bound to nothing.
LEMMA OpenNewInv ==
    ASSUME IInv, NEW client \in Clients, NEW key \in Keys, OpenNew(client, key)
    PROVE  ContractInv'
<1> USE DEF IInv, TypeOK, ContractInv, OpenNew
<1>1. PICK id \in Ids \ issued :
        /\ registrations' = [Retained EXCEPT ![id] =
               [client |-> client, key |-> Null, created |-> clock, lastUse |-> Null]]
        /\ issued' = issued \cup {id}
  OBVIOUS
<1>2. BoundOK'
  BY <1>1 DEF BoundOK, Retained, HistoryOK
<1>3. CarriedOK' /\ Remembered'
  BY <1>1 DEF CarriedOK, Remembered
<1> QED BY <1>2, <1>3

\* A request that arrives carries nothing yet.
LEMMA ArriveInv ==
    ASSUME IInv, NEW r \in Requests, Arrive(r)
    PROVE  ContractInv'
<1> USE DEF IInv, TypeOK, ContractInv, Arrive, ArriveRegister, ArriveSigned
<1>1. UNCHANGED <<authData, clock, local, history>>
  OBVIOUS
<1>2. CarriedOK'
  BY <1>1 DEF CarriedOK, RequestsOK, history
<1> QED BY <1>1, <1>2, Frame

\* register's look changes no table, no clock and no history.
LEMMA ReadRegistrationInv ==
    ASSUME IInv, NEW r \in Requests, ReadRegistration(r)
    PROVE  ContractInv'
<1> USE DEF IInv, TypeOK, ContractInv, ReadRegistration
<1>1. CarriedOK'
  BY CarriedAnswer DEF CarriedOK, RequestsOK, Goto, history
<1> QED BY <1>1, Frame

\* The acceptance check changes none of them either.
LEMMA CheckAcceptanceInv ==
    ASSUME IInv, NEW r \in Requests, CheckAcceptance(r)
    PROVE  ContractInv'
<1> USE DEF IInv, TypeOK, ContractInv, CheckAcceptance
<1>1. CarriedOK'
  BY CarriedAnswer DEF CarriedOK, RequestsOK, Goto, history
<1> QED BY <1>1, Frame

\* The key is stored where no key was, so no carried binding becomes false.
LEMMA StoreKeyInv ==
    ASSUME IInv, NEW r \in Requests, StoreKey(r)
    PROVE  ContractInv'
<1> USE DEF IInv, TypeOK, ContractInv, StoreKey
<1>1. req[r] \in RegisterRequest
  BY DEF RequestsOK, RegisterSteps
<1>2. CASE UNCHANGED <<registrations, bound>>
  <2>1. CarriedOK'
    BY <1>2, CarriedAnswer
  <2> QED BY <1>2, <2>1, Frame DEF authData, history
<1>3. CASE /\ registrations[req[r].id] # Null
           /\ registrations[req[r].id].key = Null
           /\ registrations' = [registrations EXCEPT ![req[r].id].key = req[r].key]
           /\ bound' = [bound EXCEPT ![req[r].id] = req[r].key]
           /\ Answer(r, "NoContent")
  <2>1. bound[req[r].id] = Null
    BY <1>1, <1>3 DEF BoundOK, RegisterRequest
  <2>2. BoundOK'
    BY <1>1, <1>3 DEF BoundOK, DataOK, HistoryOK, Registration, RegisterRequest
  <2>3. CarriedOK'
    <3> SUFFICES ASSUME NEW s \in Requests
                 PROVE  /\ pc'[s] \in {"verify", "commit"} => req'[s].id \in issued \ retired
                        /\ pc'[s] = "verify" =>
                               local'[s].key # Null /\ local'[s].key = bound'[req'[s].id]
                        /\ pc'[s] = "commit" =>
                               req'[s].key = bound'[req'[s].id] /\ local'[s].now <= clock
      BY DEF CarriedOK
    <3>1. CASE s = r
      BY <1>3, <3>1 DEF Answer, RequestsOK
    <3>2. CASE s # r
      <4>1. pc'[s] = pc[s] /\ req'[s] = req[s] /\ local'[s] = local[s]
        BY <1>3, <3>2 DEF Answer, RequestsOK
      <4>2. pc[s] \in {"verify", "commit"} =>
                req[s].id \in Ids /\ req[s].key \in Keys
        BY DEF RequestsOK, AuthSteps, SignedMessage
      <4>3. pc[s] \in {"verify", "commit"} => bound[req[s].id] # Null
        BY <4>2 DEF CarriedOK
      <4>4. pc[s] \in {"verify", "commit"} => bound'[req[s].id] = bound[req[s].id]
        BY <1>3, <2>1, <4>2, <4>3 DEF HistoryOK
      <4> QED BY <4>1, <4>4 DEF CarriedOK
    <3> QED BY <3>1, <3>2
  <2>4. Remembered'
    BY DEF Remembered
  <2> QED BY <2>2, <2>3, <2>4
<1> QED BY <1>2, <1>3

\* The window check changes no table; it is the cache that must remember.
LEMMA AuthenticateInv ==
    ASSUME IInv, NEW r \in Requests, Authenticate(r)
    PROVE  ContractInv'
<1> USE DEF IInv, TypeOK, ContractInv, Authenticate
<1>1. CarriedOK'
  BY CarriedAnswer DEF CarriedOK, RequestsOK, Goto, history
<1> QED BY <1>1, Frame

\* The key carried out of the lookup is the one the id is bound to.
LEMMA LookUpInv ==
    ASSUME IInv, NEW r \in Requests, LookUp(r)
    PROVE  ContractInv'
<1> USE DEF IInv, TypeOK, ContractInv, LookUp
<1>1. req[r].id \in Ids
  BY DEF RequestsOK, AuthSteps, SignedMessage
<1>2. CarriedOK'
  <2> DEFINE reg == registrations[req[r].id]
  <2>1. CASE Answer(r, "Forbidden") \/ Answer(r, "Unauthorized")
    BY <2>1, CarriedAnswer DEF history
  <2>2. CASE /\ reg # Null /\ reg.key # Null
             /\ local' = [local EXCEPT ![r] =
                    [client |-> reg.client, key |-> reg.key, now |-> 0]]
             /\ Goto(r, "verify")
    <3>1. reg.key = bound[req[r].id] /\ req[r].id \in issued \ retired
      BY <1>1, <2>2 DEF BoundOK
    <3> QED BY <2>2, <3>1 DEF CarriedOK, RequestsOK, Goto, history
  <2> QED BY <2>1, <2>2
<1> QED BY <1>2, Frame

\* A verified request was signed under the bound key, and its cutoff is not ahead
\* of the clock.
LEMMA VerifyInv ==
    ASSUME IInv, NEW r \in Requests, Verify(r)
    PROVE  ContractInv'
<1> USE DEF IInv, TypeOK, ContractInv, Verify
<1>1. CarriedOK'
  <2>1. CASE Answer(r, "Unauthorized")
    BY <2>1, CarriedAnswer DEF history
  <2>2. CASE /\ req[r].key = local[r].key
             /\ local' = [local EXCEPT ![r].now = clock]
             /\ Goto(r, "commit")
    BY <2>2 DEF CarriedOK, RequestsOK, LocalType, DataOK, Goto, history
  <2> QED BY <2>1, <2>2
<1> QED BY <1>1, Frame

\* The heart of the replay protection: an entry that the cutoff drops belongs
\* to a message whose window has closed, because the cutoff is not ahead of
\* the clock.
LEMMA FreshEnough ==
    ASSUME IInv, NEW r \in Requests, pc[r] = "commit",
           NEW m \in Messages, clock <= m.ts + TimestampWindow
    PROVE  m.ts >= SaturatingSub(local[r].now, TimestampWindow)
<1>1. m.ts \in Nat
  BY DEF SignedMessage
<1>2. local[r].now \in Nat /\ local[r].now <= clock /\ clock \in Nat
  BY DEF IInv, TypeOK, DataOK, RequestsOK, LocalType, ContractInv, CarriedOK
<1> QED BY <1>1, <1>2 DEF SaturatingSub

\* The purge drops no message whose window is open, and the accepted one is added.
LEMMA CommitInv ==
    ASSUME IInv, NEW r \in Requests, Commit(r)
    PROVE  ContractInv'
<1> USE DEF IInv, TypeOK, ContractInv, Commit
<1>1. req[r] \in Messages /\ req[r].id \in Ids
  BY DEF RequestsOK, AuthSteps, SignedMessage
<1>2. BoundOK'
  <2>1. CASE UNCHANGED registrations
    BY <2>1 DEF BoundOK
  <2>2. CASE registrations' = [registrations EXCEPT ![req[r].id].lastUse = local[r].now]
    BY <1>1, <2>2 DEF BoundOK, DataOK, Registration
  <2> QED BY <2>1, <2>2
<1>3. CarriedOK'
  <2>1. CASE Answer(r, "Unauthorized")
    BY <2>1, CarriedAnswer
  <2>2. CASE Goto(r, "handler") /\ UNCHANGED local
    BY <2>2 DEF CarriedOK, RequestsOK, Goto
  <2> QED BY <2>1, <2>2
<1>4. Remembered'
  <2>0. req[r].id \in issued
    BY DEF CarriedOK
  <2> SUFFICES ASSUME NEW m \in accepted', m.id \notin retired,
                      ~(clock > m.ts + TimestampWindow)
               PROVE  m \in signatures'
    BY <2>0 DEF Remembered
  <2>1. CASE m = req[r] /\ signatures' = {s \in signatures :
                s.ts >= SaturatingSub(local[r].now, TimestampWindow)} \cup {req[r]}
    BY <2>1
  <2>2. CASE m \in accepted
    <3>1. m \in signatures /\ m \in Messages
      BY <2>2 DEF Remembered, HistoryOK
    <3>2. m.ts \in Nat /\ clock \in Nat
      BY <3>1 DEF SignedMessage, DataOK
    <3>3. m.ts >= SaturatingSub(local[r].now, TimestampWindow)
      BY <3>1, <3>2, FreshEnough
    <3> QED BY <3>1, <3>3
  <2> QED BY <2>1, <2>2
<1> QED BY <1>2, <1>3, <1>4

\* The client table is not part of the invariant.
LEMMA AddClientInv ==
    ASSUME IInv, NEW r \in Requests, AddClient(r)
    PROVE  ContractInv'
<1> USE DEF IInv, TypeOK, ContractInv, AddClient, history
<1>1. CarriedOK'
  BY CarriedAnswer
<1>2. BoundOK' /\ Remembered'
  BY DEF BoundOK, Remembered
<1> QED BY <1>1, <1>2

\* A removed registration leaves its id bound: the cache still counts for it.
LEMMA RemoveClientInv ==
    ASSUME IInv, NEW r \in Requests, RemoveClient(r)
    PROVE  ContractInv'
<1> USE DEF IInv, TypeOK, ContractInv, RemoveClient, history
<1>1. CarriedOK'
  BY CarriedAnswer
<1>2. BoundOK' /\ Remembered'
  BY DEF BoundOK, Remembered
<1> QED BY <1>1, <1>2

\* The other routes change nothing the invariant speaks of.
LEMMA ServeOtherInv ==
    ASSUME IInv, NEW r \in Requests, ServeOther(r)
    PROVE  ContractInv'
<1> USE DEF IInv, TypeOK, ContractInv, ServeOther
<1>1. CarriedOK'
  BY CarriedAnswer DEF history
<1> QED BY <1>1, Frame

\* As the clock advances, windows close and carried clock reads fall behind.
LEMMA TickInv ==
    ASSUME IInv, Tick
    PROVE  ContractInv'
<1> USE DEF IInv, TypeOK, ContractInv, Tick, history, authData
<1>1. BoundOK'
  BY DEF BoundOK
<1>2. CarriedOK'
  BY DEF CarriedOK, RequestsOK, LocalType, DataOK
<1>3. Remembered'
  BY DEF Remembered, HistoryOK, SignedMessage, DataOK
<1> QED BY <1>1, <1>2, <1>3

\* A restart empties the cache and retires every id its messages used.
LEMMA RestartInv ==
    ASSUME IInv, Restart
    PROVE  ContractInv'
<1> USE DEF IInv, TypeOK, ContractInv, Restart
<1>1. BoundOK' /\ CarriedOK'
  BY DEF BoundOK, CarriedOK
<1>2. Remembered'
  BY DEF Remembered
<1> QED BY <1>1, <1>2

\* The inductive invariant holds initially,
LEMMA InitIInv == Init => IInv
<1> SUFFICES ASSUME Init PROVE IInv
  OBVIOUS
<1>1. ContractInv
  BY DEF Init, ContractInv, BoundOK, CarriedOK, Remembered
<1> QED BY <1>1, InitTypeOK DEF IInv

\* and every step keeps it.
LEMMA NextIInv == IInv /\ [Next]_vars => IInv'
<1> SUFFICES ASSUME IInv, [Next]_vars PROVE ContractInv'
  BY NextTypeOK DEF IInv
<1>1. CASE \E client \in Clients, key \in Keys :
               OpenExisting(client, key) \/ OpenNew(client, key)
  BY <1>1, OpenExistingInv, OpenNewInv
<1>2. CASE \E r \in Requests : Arrive(r)
  BY <1>2, ArriveInv
<1>3. CASE \E r \in Requests : Handle(r)
  BY <1>3, ReadRegistrationInv, CheckAcceptanceInv, StoreKeyInv, AuthenticateInv,
     LookUpInv, VerifyInv, CommitInv, AddClientInv, RemoveClientInv,
     ServeOtherInv DEF Handle
<1>4. CASE Tick
  BY <1>4, TickInv
<1>5. CASE Restart
  BY <1>5, RestartInv
<1>6. CASE UNCHANGED vars
  BY <1>6 DEF vars, IInv, ContractInv, BoundOK, CarriedOK, Remembered
<1> QED BY <1>1, <1>2, <1>3, <1>4, <1>5, <1>6 DEF Next

\* The invariant that ties the registration table, the signature cache and the
\* values in flight to the history holds in every reachable state.
THEOREM ContractInvariant == Spec => []ContractInv
<1>1. Init => IInv
  BY InitIInv
<1>2. IInv /\ [Next]_vars => IInv'
  BY NextIInv
<1>3. IInv => ContractInv
  BY DEF IInv
<1> QED BY <1>1, <1>2, <1>3, PTL DEF Spec

-----------------------------------------------------------------------------
(* What a commit may accept *)

\* A message a commit accepts was not accepted before, unless its window is past.
LEMMA AcceptedOnce ==
    ASSUME IInv, NEW r \in Requests, Commit(r), pc'[r] = "handler",
           clock <= req[r].ts + TimestampWindow
    PROVE  req[r] \notin accepted
<1> SUFFICES ASSUME req[r] \in accepted PROVE FALSE
  OBVIOUS
<1> USE DEF IInv, TypeOK, ContractInv, Commit
<1>1. req[r] \in Messages /\ req[r].ts \in Nat /\ clock \in Nat
  BY DEF RequestsOK, AuthSteps, SignedMessage, DataOK
<1>2. req[r].id \notin retired
  BY DEF CarriedOK
<1>3. req[r] \in signatures
  BY <1>1, <1>2 DEF Remembered
<1>4. req[r].ts >= SaturatingSub(local[r].now, TimestampWindow)
  BY <1>1, FreshEnough
<1>5. Answer(r, "Unauthorized")
  BY <1>3, <1>4
<1> QED BY <1>5 DEF Answer, RequestsOK

\* Only a commit takes a request from the step "commit" to the route body.
LEMMA OnlyCommitPasses ==
    ASSUME TypeOK, Next, NEW r \in Requests, pc[r] = "commit", pc'[r] = "handler"
    PROVE  Commit(r)
<1> USE DEF TypeOK, RequestsOK
<1>1. CASE \E client \in Clients, key \in Keys :
               OpenExisting(client, key) \/ OpenNew(client, key)
  BY <1>1 DEF OpenExisting, OpenNew
<1>2. CASE \E s \in Requests : Arrive(s)
  BY <1>2 DEF Arrive, ArriveRegister, ArriveSigned
<1>3. ASSUME NEW s \in Requests, Handle(s)
      PROVE  Commit(r)
  <2>1. CASE Commit(s)
    BY <2>1 DEF Commit, Goto, Answer
  <2>2. CASE ~Commit(s)
    BY <1>3, <2>2 DEF Handle, ReadRegistration, CheckAcceptance, StoreKey, Authenticate,
       LookUp, Verify, AddClient, RemoveClient, ServeOther, Goto, Answer
  <2> QED BY <2>1, <2>2
<1>4. CASE Tick \/ Restart
  BY <1>4 DEF Tick, Restart
<1> QED BY <1>1, <1>2, <1>3, <1>4 DEF Next

\* Replay protection for every number of clients, requests in flight, messages
\* and restarts, and every window.
THEOREM ReplayProtection == Spec => AtMostOnceInWindow
<1>1. IInv /\ [Next]_vars =>
        [\A r \in Requests :
          /\ pc[r] = "commit" /\ pc'[r] = "handler"
          /\ clock <= req[r].ts + TimestampWindow
          => req[r] \notin accepted]_vars
  <2> SUFFICES ASSUME IInv, Next, NEW r \in Requests, pc[r] = "commit",
                      pc'[r] = "handler", clock <= req[r].ts + TimestampWindow
               PROVE  req[r] \notin accepted
    OBVIOUS
  <2>1. Commit(r)
    BY OnlyCommitPasses DEF IInv
  <2> QED BY <2>1, AcceptedOnce
<1> QED BY <1>1, InitIInv, NextIInv, PTL DEF Spec, AtMostOnceInWindow

-----------------------------------------------------------------------------
(* Refinement: every step of Auth is a step of the contract or a stutter *)

\* The initial state is an initial state of the contract.
LEMMA InitContract == Init => Contract!ContractInit
  BY DEF Init, Contract!ContractInit

\* A key that is stored is a Bind of the contract; an answer is a stutter.
LEMMA StoreKeyContract ==
    ASSUME IInv, NEW r \in Requests, StoreKey(r)
    PROVE  [Contract!ContractNext]_(Contract!contractVars)
<1> USE DEF IInv, TypeOK, ContractInv, StoreKey
<1>1. req[r].id \in Ids /\ req[r].key \in Keys
  BY DEF RequestsOK, RegisterSteps, RegisterRequest
<1>2. CASE UNCHANGED bound
  BY <1>2 DEF Contract!contractVars
<1>3. CASE /\ registrations[req[r].id] # Null
           /\ registrations[req[r].id].key = Null
           /\ bound' = [bound EXCEPT ![req[r].id] = req[r].key]
  <2>1. Contract!Bind(req[r].id, req[r].key)
    BY <1>1, <1>3 DEF Contract!Bind, BoundOK
  <2> QED BY <1>1, <2>1 DEF Contract!ContractNext
<1> QED BY <1>2, <1>3

\* A commit that accepts is an Accept of the contract; a refusal is a stutter.
LEMMA CommitContract ==
    ASSUME IInv, NEW r \in Requests, Commit(r)
    PROVE  [Contract!ContractNext]_(Contract!contractVars)
<1> USE DEF Commit
<1>1. CASE UNCHANGED accepted
  BY <1>1 DEF Contract!contractVars
<1>2. CASE accepted' = accepted \cup {req[r]} /\ Goto(r, "handler")
  <2>1. req[r] \in Messages
    BY DEF IInv, TypeOK, RequestsOK, AuthSteps
  <2>2. pc'[r] = "handler"
    BY <1>2 DEF Goto, IInv, TypeOK, RequestsOK
  <2>3. Contract!InWindow(req[r]) => req[r] \notin accepted
    BY <2>2, AcceptedOnce DEF Contract!InWindow
  <2>4. req[r].id \in issued \ retired /\ bound[req[r].id] = req[r].key
    BY DEF IInv, ContractInv, CarriedOK
  <2>5. Contract!Accept(req[r])
    BY <1>2, <2>3, <2>4 DEF Contract!Accept
  <2> QED BY <2>1, <2>5 DEF Contract!ContractNext
<1> QED BY <1>1, <1>2

\* Every step is a step of the contract, or leaves its variables alone.
LEMMA NextContract ==
    IInv /\ [Next]_vars => [Contract!ContractNext]_(Contract!contractVars)
<1> SUFFICES ASSUME IInv, [Next]_vars
             PROVE  [Contract!ContractNext]_(Contract!contractVars)
  OBVIOUS
<1>1. ASSUME NEW client \in Clients, NEW key \in Keys, OpenExisting(client, key)
      PROVE  UNCHANGED Contract!contractVars
  BY <1>1 DEF OpenExisting, history, Contract!contractVars
<1>2. ASSUME NEW client \in Clients, NEW key \in Keys, OpenNew(client, key)
      PROVE  Contract!ContractNext
  BY <1>2 DEF OpenNew, Contract!ContractNext, Contract!Issue
<1>3. ASSUME NEW r \in Requests, Arrive(r)
      PROVE  UNCHANGED Contract!contractVars
  BY <1>3 DEF Arrive, ArriveRegister, ArriveSigned, history, Contract!contractVars
<1>4. ASSUME NEW r \in Requests, Handle(r)
      PROVE  [Contract!ContractNext]_(Contract!contractVars)
  <2>1. CASE StoreKey(r)
    BY <2>1, StoreKeyContract
  <2>2. CASE Commit(r)
    BY <2>2, CommitContract
  <2>3. CASE ~StoreKey(r) /\ ~Commit(r)
    BY <1>4, <2>3 DEF Handle, ReadRegistration, CheckAcceptance, Authenticate, LookUp,
       Verify, AddClient, RemoveClient, ServeOther, history, Contract!contractVars
  <2> QED BY <2>1, <2>2, <2>3
<1>5. CASE Tick
  BY <1>5 DEF Tick, IInv, TypeOK, DataOK, history, Contract!ContractNext, Contract!Advance
<1>6. CASE Restart
  BY <1>6 DEF Restart, Contract!ContractNext, Contract!Retire
<1>7. CASE UNCHANGED vars
  BY <1>7 DEF vars, Contract!contractVars
<1> QED BY <1>1, <1>2, <1>3, <1>4, <1>5, <1>6, <1>7 DEF Next

\* AuthState implements AuthContract: one key per registration, messages accepted
\* only under that key and by the process that issued the registration, and at
\* most once while their timestamp is in the window.
THEOREM ImplementsContract == Spec => ContractSpec
<1>1. Init => Contract!ContractInit
  BY InitContract
<1>2. IInv /\ [Next]_vars => [Contract!ContractNext]_(Contract!contractVars)
  BY NextContract
<1> QED BY <1>1, <1>2, InitIInv, NextIInv, PTL
       DEF Spec, ContractSpec, Contract!ContractSpecification

=============================================================================
