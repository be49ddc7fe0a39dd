-------------------------- MODULE AuthClientProofs --------------------------
(***************************************************************************)
(* Theorems about the client table and the registrations of Auth, for      *)
(* every value of its constants.                                           *)
(***************************************************************************)
EXTENDS AuthProofs

USE AuthAssumption, NullAssumption

\* The inductive invariant of AuthProofs holds in every reachable state.
LEMMA InductiveInvariant == Spec => []IInv
  BY InitIInv, NextIInv, PTL DEF Spec

-----------------------------------------------------------------------------
(* Which steps write what *)

\* The actions of Next that change a registration, or leave them all alone.
LEMMA WhoWritesRegistrations ==
    ASSUME TypeOK, [Next]_vars
    PROVE  \/ registrations' = registrations
           \/ registrations' = Retained
           \/ \E client \in Clients, key \in Keys : OpenNew(client, key)
           \/ \E r \in Requests : StoreKey(r) \/ Commit(r) \/ RemoveClient(r)
           \/ Restart
<1>1. CASE UNCHANGED vars
  BY <1>1 DEF vars
<1>2. CASE \E client \in Clients, key \in Keys :
               OpenExisting(client, key) \/ OpenNew(client, key)
  BY <1>2 DEF OpenExisting
<1>3. CASE \E r \in Requests : Arrive(r)
  BY <1>3 DEF Arrive, ArriveRegister, ArriveSigned, authData
<1>4. CASE \E r \in Requests : Handle(r)
  <2>1. PICK r \in Requests : Handle(r)
    BY <1>4
  <2>2. CASE ReadRegistration(r) \/ CheckAcceptance(r) \/ Authenticate(r) \/ LookUp(r)
             \/ Verify(r) \/ ServeOther(r)
    BY <2>2 DEF ReadRegistration, CheckAcceptance, Authenticate, LookUp, Verify,
                ServeOther, authData
  <2>3. CASE AddClient(r)
    BY <2>3 DEF AddClient
  <2> QED BY <2>1, <2>2, <2>3 DEF Handle
<1>5. CASE Tick
  BY <1>5 DEF Tick, authData
<1> QED BY <1>1, <1>2, <1>3, <1>4, <1>5 DEF Next

-----------------------------------------------------------------------------
(* What a registration may become *)

\* A registration keeps its key once it has one, or goes; one that went stays
\* away.
LEMMA RegistrationSteps ==
    ASSUME IInv, [Next]_vars, NEW id \in Ids
    PROVE  /\ (registrations[id] # Null /\ registrations[id].key # Null
                   /\ registrations'[id] # Null)
                  => registrations'[id].key = registrations[id].key
           /\ (id \in issued /\ registrations[id] = Null) => registrations'[id] = Null
<1> USE DEF IInv, TypeOK, DataOK
<1>0. registrations[id] # Null => registrations[id] \in Registration
  OBVIOUS
<1>1. CASE registrations' = registrations
  BY <1>1
<1>2. CASE registrations' = Retained
  BY <1>2 DEF Retained, Kept
<1>3. CASE \E client \in Clients, key \in Keys : OpenNew(client, key)
  <2>1. PICK client \in Clients, key \in Keys : OpenNew(client, key)
    BY <1>3
  <2>2. PICK new \in Ids \ issued :
            registrations' = [Retained EXCEPT ![new] =
                [client |-> client, key |-> Null, created |-> clock, lastUse |-> Null]]
    BY <2>1 DEF OpenNew
  <2>3. CASE id = new
    <3>2. registrations[id] = Null
      BY <2>2, <2>3 DEF ContractInv, BoundOK
    <3>3. id \notin issued
      BY <2>2, <2>3
    <3> QED BY <3>2, <3>3
  <2>4. CASE id # new
    BY <2>2, <2>4 DEF Retained, Kept
  <2> QED BY <2>3, <2>4
<1>4. CASE \E r \in Requests : StoreKey(r)
  BY <1>0, <1>4 DEF StoreKey, Registration
<1>5. CASE \E r \in Requests : Commit(r)
  BY <1>0, <1>5 DEF Commit, Registration
<1>6. CASE \E r \in Requests : RemoveClient(r)
  BY <1>6 DEF RemoveClient
<1>7. CASE Restart
  BY <1>7 DEF Restart
<1> QED BY <1>1, <1>2, <1>3, <1>4, <1>5, <1>6, <1>7, WhoWritesRegistrations

\* Of the register calls that race for a registration one wins: no step changes
\* the key a registration was completed with.
THEOREM KeyBoundOnce == Spec => KeyNeverRebound
<1>1. IInv /\ [Next]_vars =>
        [\A id \in Ids :
          /\ registrations[id] # Null /\ registrations[id].key # Null
          /\ registrations'[id] # Null
          => registrations'[id].key = registrations[id].key]_vars
  BY RegistrationSteps
<1>2. Spec => []IInv
  BY InductiveInvariant
<1> QED BY <1>1, <1>2, PTL DEF Spec, KeyNeverRebound

\* A registration that expired, was removed with its client or was lost in a
\* restart does not come back, whatever register calls are in flight.
THEOREM DroppedForGood == Spec => DroppedStaysDropped
<1>1. IInv /\ [Next]_vars =>
        [\A id \in issued :
          registrations[id] = Null => registrations'[id] = Null]_vars
  <2> SUFFICES ASSUME IInv, [Next]_vars, NEW id \in issued, registrations[id] = Null
               PROVE  registrations'[id] = Null
    OBVIOUS
  <2>1. id \in Ids
    BY DEF IInv, TypeOK, HistoryOK
  <2> QED BY <2>1, RegistrationSteps
<1>2. Spec => []IInv
  BY InductiveInvariant
<1> QED BY <1>1, <1>2, PTL DEF Spec, DroppedStaysDropped

-----------------------------------------------------------------------------
(* Registrations and the client table *)

\* open inserts only for a client it has just found in the table, and
\* remove_client takes a client and its registrations out together.
LEMMA ClientsStep ==
    ASSUME IInv, RegistrationsHaveClients, [Next]_vars
    PROVE  RegistrationsHaveClients'
<1> SUFFICES ASSUME Mode = "registered", NEW id \in Ids, registrations'[id] # Null
             PROVE  clients'[registrations'[id].client] # Null
  BY DEF RegistrationsHaveClients
<1> USE DEF IInv, TypeOK, DataOK
<1>0. registrations[id] # Null =>
        /\ registrations[id] \in Registration
        /\ clients[registrations[id].client] # Null
  BY DEF RegistrationsHaveClients
<1>1. CASE UNCHANGED <<clients, registrations>>
  BY <1>0, <1>1
<1>2. CASE \E client \in Clients, key \in Keys :
               OpenExisting(client, key) \/ OpenNew(client, key)
  <2>1. PICK client \in Clients, key \in Keys :
            OpenExisting(client, key) \/ OpenNew(client, key)
    BY <1>2
  <2>2. CASE OpenExisting(client, key)
    BY <1>0, <2>2 DEF OpenExisting, Retained, Kept
  <2>3. CASE OpenNew(client, key)
    <3>1. PICK new \in Ids \ issued :
              registrations' = [Retained EXCEPT ![new] =
                  [client |-> client, key |-> Null, created |-> clock, lastUse |-> Null]]
      BY <2>3 DEF OpenNew
    <3>2. clients' = clients /\ clients[client] # Null
      BY <2>3 DEF OpenNew, Accepts
    <3>3. CASE id = new
      BY <3>1, <3>2, <3>3 DEF Retained
    <3>4. CASE id # new
      BY <1>0, <3>1, <3>2, <3>4 DEF Retained, Kept
    <3> QED BY <3>3, <3>4
  <2> QED BY <2>1, <2>2, <2>3
<1>3. CASE \E r \in Requests : StoreKey(r)
  BY <1>0, <1>3 DEF StoreKey, Registration
<1>4. CASE \E r \in Requests : Commit(r)
  BY <1>0, <1>4 DEF Commit, Registration
<1>5. CASE \E r \in Requests : AddClient(r)
  <2>1. PICK r \in Requests : AddClient(r)
    BY <1>5
  <2>2. req[r] \in Messages
    BY <2>1 DEF AddClient, RequestsOK, AuthSteps
  <2>3. req[r].op.key # Null
    BY <2>2 DEF SignedMessage, Operations
  <2> QED BY <1>0, <2>1, <2>3 DEF AddClient, Registration
<1>6. CASE \E r \in Requests : RemoveClient(r)
  BY <1>0, <1>6 DEF RemoveClient, Registration
<1>7. CASE Restart
  BY <1>7 DEF Restart
<1>8. CASE \E r \in Requests :
              \/ Arrive(r) \/ ReadRegistration(r) \/ CheckAcceptance(r) \/ Authenticate(r)
              \/ LookUp(r) \/ Verify(r) \/ ServeOther(r)
  BY <1>1, <1>8 DEF Arrive, ArriveRegister, ArriveSigned, ReadRegistration, CheckAcceptance,
                    Authenticate, LookUp, Verify, ServeOther, authData
<1>9. CASE Tick \/ UNCHANGED vars
  BY <1>1, <1>9 DEF Tick, authData, vars
<1> QED BY <1>2, <1>3, <1>4, <1>5, <1>6, <1>7, <1>8, <1>9 DEF Next, Handle

\* In registered mode no reachable state has a registration of a client that is
\* not in the client table.
THEOREM NoOrphanRegistration == Spec => []RegistrationsHaveClients
<1>1. Init => RegistrationsHaveClients
  BY DEF Init, RegistrationsHaveClients
<1>2. IInv /\ RegistrationsHaveClients /\ [Next]_vars => RegistrationsHaveClients'
  BY ClientsStep
<1>3. Spec => []IInv
  BY InductiveInvariant
<1> QED BY <1>1, <1>2, <1>3, PTL DEF Spec

-----------------------------------------------------------------------------
(* Entitlement *)

\* In registered mode a request reaches the steps after the lookup from one of
\* them, or by its lookup.
LEMMA StepsOf ==
    ASSUME IInv, Next, Mode = "registered", NEW r \in Requests,
           pc[r] \notin {"verify", "commit", "handler"}, ~LookUp(r)
    PROVE  pc'[r] \notin {"verify", "commit", "handler"}
<1> USE DEF IInv, TypeOK, RequestsOK
<1>1. CASE \E client \in Clients, key \in Keys :
               OpenExisting(client, key) \/ OpenNew(client, key)
  BY <1>1 DEF OpenExisting, OpenNew
<1>2. CASE \E s \in Requests : Arrive(s)
  BY <1>2 DEF Arrive, ArriveRegister, ArriveSigned
<1>3. CASE \E s \in Requests : Handle(s)
  <2>1. PICK s \in Requests : Handle(s)
    BY <1>3
  <2>2. CASE s # r
    <3>1. pc'[r] = pc[r]
      BY <2>1, <2>2 DEF Handle, ReadRegistration, CheckAcceptance, StoreKey, Authenticate,
           LookUp, Verify, Commit, AddClient, RemoveClient, ServeOther, Answer, Goto
    <3> QED BY <3>1
  <2>3. CASE s = r
    <3>1. CASE ReadRegistration(r) \/ CheckAcceptance(r) \/ StoreKey(r)
      BY <3>1 DEF ReadRegistration, CheckAcceptance, StoreKey, Answer, Goto
    <3>2. CASE Authenticate(r)
      BY <3>2 DEF Authenticate, Answer, Goto
    <3>3. CASE Verify(r) \/ Commit(r) \/ AddClient(r) \/ RemoveClient(r) \/ ServeOther(r)
      BY <3>3 DEF Verify, Commit, AddClient, RemoveClient, ServeOther
    <3> QED BY <2>1, <2>3, <3>1, <3>2, <3>3 DEF Handle
  <2> QED BY <2>2, <2>3
<1>4. CASE Tick \/ Restart
  BY <1>4 DEF Tick, Restart
<1> QED BY <1>1, <1>2, <1>3, <1>4 DEF Next

\* Only a lookup that found a good registration takes a request to the steps
\* after it, and the history of a request is not lost on those steps.
LEMMA EntitledStep ==
    ASSUME IInv, PassedWasEntitled, [Next]_vars
    PROVE  PassedWasEntitled'
<1> DEFINE Passed == {"verify", "commit", "handler"}
<1> SUFFICES ASSUME Mode = "registered", NEW r \in Requests, pc'[r] \in Passed
             PROVE  entitled'[r]
  BY DEF PassedWasEntitled
<1> USE DEF IInv, TypeOK, RequestsOK
<1>1. CASE UNCHANGED vars
  BY <1>1 DEF vars, PassedWasEntitled
<1>2. CASE Next
  <2>1. Observe
    BY <1>2 DEF Next, OpenExisting, OpenNew, Arrive, ArriveRegister, ArriveSigned, Handle,
                ReadRegistration, CheckAcceptance, StoreKey, Authenticate, LookUp, Verify,
                Commit, AddClient, RemoveClient, ServeOther, Tick, Restart
  <2>2. pc'[r] \in AuthSteps
    BY DEF AuthSteps
  <2>3. CASE pc[r] \in Passed
    <3>1. entitled[r]
      BY <2>3 DEF PassedWasEntitled
    <3> QED BY <2>1, <2>2, <3>1 DEF Observe
  <2>4. CASE LookUp(r)
    <3>1. Good(registrations', clients', req'[r].id)
      BY <2>2, <2>4 DEF LookUp, Good, Accepts, Answer, Goto, authData
    <3> QED BY <2>1, <2>2, <3>1 DEF Observe
  <2>5. CASE pc[r] \notin Passed /\ ~LookUp(r)
    <3>1. pc'[r] \notin Passed
      BY <1>2, <2>5, StepsOf
    <3> QED BY <3>1
  <2> QED BY <2>3, <2>4, <2>5
<1> QED BY <1>1, <1>2

\* Whatever happens to the client table while a request is in flight, it passes
\* the lookup only if its registration was complete and its key the client's
\* accepted key at some time since it came.
THEOREM NobodyPassesUnentitled == Spec => []PassedWasEntitled
<1>1. Init => PassedWasEntitled
  BY DEF Init, PassedWasEntitled
<1>2. IInv /\ PassedWasEntitled /\ [Next]_vars => PassedWasEntitled'
  BY EntitledStep
<1>3. Spec => []IInv
  BY InductiveInvariant
<1> QED BY <1>1, <1>2, <1>3, PTL DEF Spec

-----------------------------------------------------------------------------
(* The administrator *)

\* Only add_client and remove_client, called by the administrator in registered
\* mode, and a restart change the client table.
LEMMA WhoEditsClients ==
    ASSUME IInv, [Next]_vars, clients' # clients
    PROVE  \/ /\ Restart
              /\ clients' = ConfiguredClients
           \/ \E r \in Requests :
                 /\ AddClient(r) \/ RemoveClient(r)
                 /\ pc[r] = "handler"
                 /\ local[r].client = Administrator
                 /\ Mode = "registered"
<1>1. CASE \E client \in Clients, key \in Keys :
               OpenExisting(client, key) \/ OpenNew(client, key)
  BY <1>1 DEF OpenExisting, OpenNew
<1>2. CASE \E r \in Requests : Arrive(r)
  BY <1>2 DEF Arrive, ArriveRegister, ArriveSigned, authData
<1>3. CASE \E r \in Requests : Handle(r)
  <2>1. PICK r \in Requests : Handle(r)
    BY <1>3
  <2>2. CASE \/ ReadRegistration(r) \/ CheckAcceptance(r) \/ StoreKey(r)
             \/ Authenticate(r) \/ LookUp(r) \/ Verify(r) \/ Commit(r) \/ ServeOther(r)
    BY <2>2 DEF ReadRegistration, CheckAcceptance, StoreKey, Authenticate, LookUp, Verify,
                Commit, ServeOther, authData
  <2>3. CASE AddClient(r)
    BY <2>3 DEF AddClient, IsAdmin
  <2>4. CASE RemoveClient(r)
    BY <2>4 DEF RemoveClient, IsAdmin
  <2> QED BY <2>1, <2>2, <2>3, <2>4 DEF Handle
<1>4. CASE Tick \/ UNCHANGED vars
  BY <1>4 DEF Tick, authData, vars
<1>5. CASE Restart
  BY <1>5 DEF Restart
<1> QED BY <1>1, <1>2, <1>3, <1>4, <1>5 DEF Next

\* An edit is answered NoContent and changes the entry that the request names.
LEMMA EditIsTheRequest ==
    ASSUME PassedWasEntitled, NEW r \in Requests, AddClient(r) \/ RemoveClient(r),
           local[r].client = Administrator, Mode = "registered", clients' # clients
    PROVE  EditsClients(r)
<1>1. pc[r] = "handler" /\ entitled[r]
  BY DEF AddClient, RemoveClient, PassedWasEntitled
<1>2. CASE AddClient(r)
  BY <1>1, <1>2 DEF AddClient, EditsClients, Answer
<1>3. CASE RemoveClient(r)
  BY <1>1, <1>3 DEF RemoveClient, EditsClients, Answer
<1> QED BY <1>2, <1>3

\* The client table is changed by a restart, or by the step that answers an edit
\* of the administrator, in the entry it names.
THEOREM EditsAreTheAdministrators == Spec => OnlyAdministratorEdits
<1>1. IInv /\ PassedWasEntitled /\ [Next]_vars =>
        [clients' # clients => Restart \/ \E r \in Requests : EditsClients(r)]_vars
  <2> SUFFICES ASSUME IInv, PassedWasEntitled, [Next]_vars, clients' # clients, ~Restart
               PROVE  \E r \in Requests : EditsClients(r)
    OBVIOUS
  <2>1. PICK r \in Requests : /\ AddClient(r) \/ RemoveClient(r)
                             /\ local[r].client = Administrator
                             /\ Mode = "registered"
    BY WhoEditsClients
  <2> QED BY <2>1, EditIsTheRequest
<1>2. Spec => []IInv
  BY InductiveInvariant
<1>3. Spec => []PassedWasEntitled
  BY NobodyPassesUnentitled
<1> QED BY <1>1, <1>2, <1>3, PTL DEF Spec, OnlyAdministratorEdits

\* The administrator is in the table, or on a request past the lookup, only if
\* it was configured: nobody else can have added it.  In mode none nobody adds clients.
AdministratorConfigured ==
    /\ Mode = "none" => clients = ConfiguredClients
    /\ Mode = "registered" =>
        \/ ConfiguredClients[Administrator] # Null
        \/ /\ clients[Administrator] = Null
           /\ \A r \in Requests :
                pc[r] \in {"verify", "commit", "handler"} => local[r].client # Administrator

\* A request takes its client from a lookup and keeps it to its end.
LEMMA CarriedClient ==
    ASSUME IInv, Next, Mode = "registered", NEW r \in Requests,
           pc[r] \in {"verify", "commit", "handler"},
           pc'[r] \in {"verify", "commit", "handler"}
    PROVE  local'[r].client = local[r].client
<1> USE DEF IInv, TypeOK, RequestsOK, LocalType
<1>1. CASE \E client \in Clients, key \in Keys :
               OpenExisting(client, key) \/ OpenNew(client, key)
  BY <1>1 DEF OpenExisting, OpenNew
<1>2. CASE \E s \in Requests : Arrive(s)
  BY <1>2 DEF Arrive, ArriveRegister, ArriveSigned
<1>3. CASE \E s \in Requests : Handle(s)
  <2>1. PICK s \in Requests : Handle(s)
    BY <1>3
  <2>2. CASE s # r
    BY <2>1, <2>2 DEF Handle, ReadRegistration, CheckAcceptance, StoreKey, Authenticate,
         LookUp, Verify, Commit, AddClient, RemoveClient, ServeOther, Answer, Goto
  <2>3. CASE s = r
    <3>1. CASE Verify(r)
      BY <3>1 DEF Verify, Answer
    <3>2. CASE Commit(r)
      BY <3>2 DEF Commit, Answer
    <3>3. CASE AddClient(r) \/ RemoveClient(r) \/ ServeOther(r)
      BY <3>3 DEF AddClient, RemoveClient, ServeOther, Answer
    <3> QED BY <2>1, <2>3, <3>1, <3>2, <3>3 DEF Handle, ReadRegistration, CheckAcceptance,
                StoreKey, Authenticate, LookUp
  <2> QED BY <2>2, <2>3
<1>4. CASE Tick \/ Restart
  BY <1>4 DEF Tick, Restart
<1> QED BY <1>1, <1>2, <1>3, <1>4 DEF Next

\* An administrator that was not configured never gets in.
LEMMA AdministratorStep ==
    ASSUME IInv, AdministratorConfigured, [Next]_vars
    PROVE  AdministratorConfigured'
<1>a. Mode = "none" => clients' = ConfiguredClients
  BY WhoEditsClients DEF AdministratorConfigured
<1> SUFFICES ASSUME Mode = "registered", ConfiguredClients[Administrator] = Null
             PROVE  /\ clients'[Administrator] = Null
                    /\ \A r \in Requests :
                         pc'[r] \in {"verify", "commit", "handler"} =>
                             local'[r].client # Administrator
  BY <1>a DEF AdministratorConfigured
<1>0. /\ clients[Administrator] = Null
      /\ \A r \in Requests :
           pc[r] \in {"verify", "commit", "handler"} => local[r].client # Administrator
  BY DEF AdministratorConfigured
<1>1. clients'[Administrator] = Null
  BY <1>0, WhoEditsClients
<1>2. ASSUME NEW r \in Requests, pc'[r] \in {"verify", "commit", "handler"}
      PROVE  local'[r].client # Administrator
  <2>1. CASE UNCHANGED vars
    BY <1>0, <1>2, <2>1 DEF vars
  <2>2. CASE Next /\ pc[r] \in {"verify", "commit", "handler"}
    BY <1>0, <1>2, <2>2, CarriedClient
  <2>3. CASE LookUp(r)
    BY <1>0, <1>2, <2>3 DEF LookUp, Accepts, Answer, IInv, TypeOK, RequestsOK, LocalType
  <2>4. CASE Next /\ pc[r] \notin {"verify", "commit", "handler"} /\ ~LookUp(r)
    BY <1>2, <2>4, StepsOf
  <2> QED BY <2>1, <2>2, <2>3, <2>4
<1> QED BY <1>1, <1>2

\* No sequence of requests, and no restart, takes the administrator out of the
\* client table.
THEOREM AdministratorStays == Spec => AdministratorKept
<1>1. Init => AdministratorConfigured
  BY DEF Init, AdministratorConfigured
<1>2. IInv /\ AdministratorConfigured /\ [Next]_vars => AdministratorConfigured'
  BY AdministratorStep
<1>3. IInv /\ AdministratorConfigured /\ [Next]_vars =>
        [clients[Administrator] # Null => clients'[Administrator] # Null]_vars
  <2> SUFFICES ASSUME IInv, AdministratorConfigured, [Next]_vars,
                      clients[Administrator] # Null, clients' # clients
               PROVE  clients'[Administrator] # Null
    OBVIOUS
  <2>1. CASE Restart /\ clients' = ConfiguredClients /\ Mode = "registered"
    BY <2>1 DEF AdministratorConfigured
  <2>2. CASE Restart /\ clients' = ConfiguredClients /\ Mode = "none"
    BY <2>2 DEF AdministratorConfigured
  <2>3. CASE \E r \in Requests : AddClient(r)
    <3>1. PICK r \in Requests : AddClient(r)
      BY <2>3
    <3>2. req[r].op.key # Null
      BY <3>1 DEF AddClient, IInv, TypeOK, RequestsOK, AuthSteps, SignedMessage, Operations
    <3> QED BY <3>1, <3>2 DEF AddClient, IInv, TypeOK, DataOK
  <2>4. CASE \E r \in Requests : RemoveClient(r)
    BY <2>4 DEF RemoveClient, IInv, TypeOK, DataOK
  <2> QED BY <2>1, <2>2, <2>3, <2>4, WhoEditsClients
<1>4. Spec => []IInv
  BY InductiveInvariant
<1> QED BY <1>1, <1>2, <1>3, <1>4, PTL DEF Spec, AdministratorKept

-----------------------------------------------------------------------------
(* The replay check refuses nothing else *)

\* Every message in the signature cache has been accepted.
CacheAccepted == signatures \subseteq accepted

\* A message enters the cache in the critical section that accepts it, and no
\* step takes it out of the history.
LEMMA CacheStep ==
    ASSUME CacheAccepted, [Next]_vars
    PROVE  CacheAccepted'
<1> USE DEF CacheAccepted
<1>1. CASE \E r \in Requests : Commit(r)
  BY <1>1 DEF Commit
<1>2. CASE Restart
  BY <1>2 DEF Restart
<1>3. CASE \E client \in Clients, key \in Keys :
               OpenExisting(client, key) \/ OpenNew(client, key)
  BY <1>3 DEF OpenExisting, OpenNew, history
<1>4. CASE \E r \in Requests : Arrive(r)
  BY <1>4 DEF Arrive, ArriveRegister, ArriveSigned, authData, history
<1>5. CASE \E r \in Requests :
              \/ ReadRegistration(r) \/ CheckAcceptance(r) \/ StoreKey(r) \/ Authenticate(r)
              \/ LookUp(r) \/ Verify(r) \/ AddClient(r) \/ RemoveClient(r) \/ ServeOther(r)
  BY <1>5 DEF ReadRegistration, CheckAcceptance, StoreKey, Authenticate, LookUp, Verify,
              AddClient, RemoveClient, ServeOther, authData, history
<1>6. CASE Tick \/ UNCHANGED vars
  BY <1>6 DEF Tick, vars, authData, history
<1> QED BY <1>1, <1>2, <1>3, <1>4, <1>5, <1>6 DEF Next, Handle

\* A request at its commit is answered by that commit and no other step.
LEMMA OnlyCommitAnswers ==
    ASSUME TypeOK, Next, NEW r \in Requests, pc[r] = "commit",
           reply' = [to |-> r, status |-> "Unauthorized"]
    PROVE  Commit(r)
<1> USE DEF TypeOK, RequestsOK
<1>1. CASE \E client \in Clients, key \in Keys :
               OpenExisting(client, key) \/ OpenNew(client, key)
  BY <1>1 DEF OpenExisting, OpenNew, Silent
<1>2. CASE \E s \in Requests : Arrive(s)
  BY <1>2 DEF Arrive, ArriveRegister, ArriveSigned, Silent
<1>3. CASE \E s \in Requests : Handle(s)
  <2>1. PICK s \in Requests : Handle(s)
    BY <1>3
  <2>2. s = r
    BY <2>1 DEF Handle, ReadRegistration, CheckAcceptance, StoreKey, Authenticate,
         LookUp, Verify, Commit, AddClient, RemoveClient, ServeOther, Answer, Goto, Silent
  <2> QED BY <2>1, <2>2 DEF Handle, ReadRegistration, CheckAcceptance, StoreKey,
         Authenticate, LookUp, Verify, AddClient, RemoveClient, ServeOther
<1>4. CASE Tick \/ Restart
  BY <1>4 DEF Tick, Restart, Silent
<1> QED BY <1>1, <1>2, <1>3, <1>4 DEF Next

\* The replay check refuses a request only if that very message was accepted
\* before.
THEOREM RefusalsAreReplays == Spec => RefusedOnlyIfAccepted
<1>1. Init => CacheAccepted
  BY DEF Init, CacheAccepted
<1>2. CacheAccepted /\ [Next]_vars => CacheAccepted'
  BY CacheStep
<1>3. TypeOK /\ CacheAccepted /\ [Next]_vars =>
        [\A r \in Requests :
          pc[r] = "commit" /\ reply' = [to |-> r, status |-> "Unauthorized"]
          => req[r] \in accepted]_vars
  <2> SUFFICES ASSUME TypeOK, CacheAccepted, Next, NEW r \in Requests, pc[r] = "commit",
                      reply' = [to |-> r, status |-> "Unauthorized"]
               PROVE  req[r] \in accepted
    OBVIOUS
  <2>1. Commit(r)
    BY OnlyCommitAnswers
  <2> QED BY <2>1 DEF Commit, Goto, Silent, CacheAccepted
<1> QED BY <1>1, <1>2, <1>3, TypeCorrect, PTL DEF Spec, RefusedOnlyIfAccepted

-----------------------------------------------------------------------------
(* Last uses *)

\* No registration is younger than the clock, and a request that is about to commit
\* read the clock after its registration was created, if that is still there.
CreatedBefore ==
    \A id \in Ids : registrations[id] # Null => registrations[id].created <= clock

ReadAfterCreation ==
    \A r \in Requests :
        pc[r] = "commit" /\ registrations[req[r].id] # Null =>
            registrations[req[r].id].created <= local[r].now

DatesInv == LastUseAfterCreation /\ CreatedBefore /\ ReadAfterCreation

\* Only a fresh id gets a date, and it is the present one.
LEMMA CreatedOnce ==
    ASSUME IInv, [Next]_vars, NEW id \in Ids, registrations'[id] # Null
    PROVE  \/ registrations[id] # Null
              /\ registrations'[id].created = registrations[id].created
           \/ id \notin issued /\ registrations'[id].created = clock
              /\ registrations'[id].lastUse = Null
<1> USE DEF IInv, TypeOK, DataOK
<1>0. registrations[id] # Null => registrations[id] \in Registration
  OBVIOUS
<1>1. CASE registrations' = registrations
  BY <1>1
<1>2. CASE registrations' = Retained
  BY <1>2 DEF Retained, Kept
<1>3. CASE \E client \in Clients, key \in Keys : OpenNew(client, key)
  <2>1. PICK client \in Clients, key \in Keys : OpenNew(client, key)
    BY <1>3
  <2>2. PICK new \in Ids \ issued :
            registrations' = [Retained EXCEPT ![new] =
                [client |-> client, key |-> Null, created |-> clock, lastUse |-> Null]]
    BY <2>1 DEF OpenNew
  <2>3. CASE id = new
    BY <2>2, <2>3 DEF Retained
  <2>4. CASE id # new
    BY <2>2, <2>4 DEF Retained, Kept
  <2> QED BY <2>3, <2>4
<1>4. CASE \E r \in Requests : StoreKey(r)
  BY <1>0, <1>4 DEF StoreKey, Registration
<1>5. CASE \E r \in Requests : Commit(r)
  BY <1>0, <1>5 DEF Commit, Registration
<1>6. CASE \E r \in Requests : RemoveClient(r)
  BY <1>6 DEF RemoveClient
<1>7. CASE Restart
  BY <1>7 DEF Restart
<1> QED BY <1>1, <1>2, <1>3, <1>4, <1>5, <1>6, <1>7, WhoWritesRegistrations

\* The clock is not set back.
LEMMA ClockNotBack ==
    ASSUME IInv, [Next]_vars
    PROVE  clock \in Nat /\ clock' \in Nat /\ clock <= clock'
<1> USE DEF IInv, TypeOK, DataOK
<1>1. clock \in Nat
  OBVIOUS
<1>2. clock' = clock \/ clock' = clock + 1
  BY DEF Next, vars, OpenExisting, OpenNew, Arrive, ArriveRegister, ArriveSigned, Handle,
     ReadRegistration, CheckAcceptance, StoreKey, Authenticate, LookUp, Verify, Commit,
     AddClient, RemoveClient, ServeOther, Tick, Restart
<1> QED BY <1>1, <1>2

\* A request gets to the last critical section of authenticate with the clock read
\* of Verify, and stays there with it.
LEMMA CommitComesFrom ==
    ASSUME IInv, [Next]_vars, NEW r \in Requests, pc'[r] = "commit"
    PROVE  /\ req'[r] = req[r]
           /\ \/ pc[r] = "commit" /\ local'[r] = local[r]
              \/ pc[r] = "verify" /\ local'[r].now = clock
<1> USE DEF IInv, TypeOK, RequestsOK
<1>1. CASE UNCHANGED vars
  BY <1>1 DEF vars
<1>2. CASE \E client \in Clients, key \in Keys :
               OpenExisting(client, key) \/ OpenNew(client, key)
  BY <1>2 DEF OpenExisting, OpenNew
<1>3. CASE \E s \in Requests : Arrive(s)
  BY <1>3 DEF Arrive, ArriveRegister, ArriveSigned
<1>4. CASE \E s \in Requests : Handle(s)
  <2>1. PICK s \in Requests : Handle(s)
    BY <1>4
  <2>2. CASE s # r
    BY <2>1, <2>2 DEF Handle, ReadRegistration, CheckAcceptance, StoreKey, Authenticate,
         LookUp, Verify, Commit, AddClient, RemoveClient, ServeOther, Answer, Goto
  <2>3. CASE s = r
    <3>1. ~(AddClient(r) \/ RemoveClient(r) \/ ServeOther(r))
      BY DEF AddClient, RemoveClient, ServeOther, Answer
    <3>2. ~(ReadRegistration(r) \/ CheckAcceptance(r) \/ StoreKey(r))
      BY DEF ReadRegistration, CheckAcceptance, StoreKey, Answer, Goto
    <3>3. ~(Authenticate(r) \/ LookUp(r) \/ Commit(r))
      BY DEF Authenticate, LookUp, Commit, Answer, Goto
    <3>4. Verify(r)
      BY <2>1, <2>3, <3>1, <3>2, <3>3 DEF Handle
    <3> QED BY <3>4 DEF Verify, Answer, Goto, LocalType
  <2> QED BY <2>2, <2>3
<1>5. CASE Tick \/ Restart
  BY <1>5 DEF Tick, Restart
<1> QED BY <1>1, <1>2, <1>3, <1>4, <1>5 DEF Next

\* The registration of a request on its way is not created again under its id.
LEMMA ReadStep ==
    ASSUME IInv, DatesInv, [Next]_vars
    PROVE  ReadAfterCreation'
<1> SUFFICES ASSUME NEW r \in Requests, pc'[r] = "commit",
                    registrations'[req'[r].id] # Null
             PROVE  registrations'[req'[r].id].created <= local'[r].now
  BY DEF ReadAfterCreation
<1>1. /\ req'[r] = req[r]
      /\ \/ pc[r] = "commit" /\ local'[r] = local[r]
         \/ pc[r] = "verify" /\ local'[r].now = clock
  BY CommitComesFrom
<1>2. req[r].id \in Ids /\ req[r].id \in issued
  BY <1>1 DEF IInv, TypeOK, RequestsOK, AuthSteps, SignedMessage, ContractInv, CarriedOK
<1>3. /\ registrations[req[r].id] # Null
      /\ registrations'[req[r].id].created = registrations[req[r].id].created
  BY <1>1, <1>2, CreatedOnce
<1> QED BY <1>1, <1>2, <1>3 DEF DatesInv, CreatedBefore, ReadAfterCreation

\* Only a commit writes a last use, to a registration that is complete and not
\* younger than the clock read that it carries.
LEMMA LastUseStep ==
    ASSUME IInv, DatesInv, [Next]_vars
    PROVE  LastUseAfterCreation' /\ CreatedBefore'
<1> SUFFICES ASSUME NEW id \in Ids, registrations'[id] # Null
             PROVE  /\ registrations'[id].created <= clock'
                    /\ registrations'[id].lastUse # Null =>
                         /\ registrations'[id].key # Null
                         /\ registrations'[id].created <= registrations'[id].lastUse
                         /\ registrations'[id].lastUse <= clock'
  BY DEF LastUseAfterCreation, CreatedBefore
<1>1. registrations[id] # Null => registrations[id] \in Registration
  BY DEF IInv, TypeOK, DataOK
<1>2. clock \in Nat /\ clock' \in Nat /\ clock <= clock'
  BY ClockNotBack
<1>3. registrations'[id].created <= clock'
  BY <1>1, <1>2, CreatedOnce DEF DatesInv, CreatedBefore, Registration
<1>4. ASSUME registrations'[id].lastUse # Null
      PROVE  /\ registrations'[id].key # Null
             /\ registrations'[id].created <= registrations'[id].lastUse
             /\ registrations'[id].lastUse <= clock'
  <2>1. /\ registrations[id] # Null
        /\ registrations'[id].created = registrations[id].created
        /\ registrations[id].key # Null => registrations'[id].key = registrations[id].key
    BY <1>4, CreatedOnce, RegistrationSteps
  <2>2. CASE registrations'[id].lastUse = registrations[id].lastUse
    BY <1>1, <1>2, <1>4, <2>1, <2>2 DEF DatesInv, LastUseAfterCreation, Registration
  <2>3. CASE registrations'[id].lastUse # registrations[id].lastUse
    <3>1. PICK r \in Requests :
              /\ pc[r] = "commit" /\ req[r].id = id
              /\ registrations'[id].lastUse = local[r].now
      <4> USE DEF IInv, TypeOK, DataOK
      <4>0. Retained[id] \in {registrations[id], Null}
        BY DEF Retained
      <4>1. registrations' # registrations /\ registrations' # Retained
        BY <2>3, <4>0
      <4>2. ~\E client \in Clients, key \in Keys : OpenNew(client, key)
        <5> SUFFICES ASSUME NEW client \in Clients, NEW key \in Keys,
                            OpenNew(client, key)
                     PROVE  FALSE
          OBVIOUS
        <5>1. PICK new \in Ids \ issued :
                  registrations' = [Retained EXCEPT ![new] =
                      [client |-> client, key |-> Null,
                       created |-> clock, lastUse |-> Null]]
          BY DEF OpenNew
        <5>2. new # id
          BY <2>1 DEF ContractInv, BoundOK
        <5>3. registrations'[id] = Retained[id]
          BY <5>1, <5>2 DEF Retained
        <5> QED BY <2>3, <4>0, <5>3
      <4>3. ~\E r \in Requests : StoreKey(r)
        <5> SUFFICES ASSUME NEW r \in Requests, StoreKey(r) PROVE FALSE
          OBVIOUS
        <5>1. registrations' = [registrations EXCEPT ![req[r].id].key = req[r].key]
          BY <4>1 DEF StoreKey
        <5>2. registrations'[id].lastUse = registrations[id].lastUse
          BY <1>1, <2>1, <5>1 DEF Registration
        <5> QED BY <2>3, <5>2
      <4>4. ~\E r \in Requests : RemoveClient(r)
        BY <2>3 DEF RemoveClient
      <4>5. ~Restart
        BY DEF Restart
      <4>6. \E r \in Requests : Commit(r)
        BY <4>1, <4>2, <4>3, <4>4, <4>5, WhoWritesRegistrations
      <4> QED BY <1>1, <2>1, <2>3, <4>6 DEF Commit, Registration
    <3>2. /\ local[r].now <= clock /\ local[r].now \in Nat
          /\ registrations[id].created <= local[r].now
      BY <2>1, <3>1 DEF IInv, ContractInv, CarriedOK, DatesInv, ReadAfterCreation,
                        TypeOK, RequestsOK, LocalType
    <3>3. registrations[id].key = bound[id] /\ req[r].key = bound[id]
      BY <2>1, <3>1 DEF IInv, ContractInv, CarriedOK, BoundOK
    <3>4. req[r].key # Null
      BY <3>1 DEF IInv, TypeOK, RequestsOK, AuthSteps, SignedMessage
    <3> QED BY <1>2, <2>1, <3>1, <3>2, <3>3, <3>4
  <2> QED BY <2>2, <2>3
<1> QED BY <1>3, <1>4

\* Although last_use comes from a clock read outside the lock, and the registration
\* it is written to was looked up under another, it lies between the registration's
\* creation and now in every reachable state, and the registration is complete.
THEOREM LastUseIsDated == Spec => []LastUseAfterCreation
<1>1. Init => DatesInv
  BY DEF Init, DatesInv, LastUseAfterCreation, CreatedBefore, ReadAfterCreation
<1>2. IInv /\ DatesInv /\ [Next]_vars => DatesInv'
  BY ReadStep, LastUseStep DEF DatesInv
<1>3. Spec => []IInv
  BY InductiveInvariant
<1>4. DatesInv => LastUseAfterCreation
  BY DEF DatesInv
<1> QED BY <1>1, <1>2, <1>3, <1>4, PTL DEF Spec
=============================================================================
