---------------------------- MODULE ServiceProofs ----------------------------
(***************************************************************************)
(* Theorems about Service, for every value of its constants.               *)
(***************************************************************************)
EXTENDS Service, AuthProofs

-----------------------------------------------------------------------------
(* The service implements Auth *)

\* Every step of the service is a step of Auth, or one of a route body that
\* Auth does not see.
LEMMA StepIsAuths == [ServiceNext]_allVars => [Next]_vars
<1> SUFFICES ASSUME [ServiceNext]_allVars PROVE [Next]_vars
  OBVIOUS
<1> USE DEF Next, authVars
<1>1. CASE Open
  BY <1>1 DEF Open
<1>2. ASSUME NEW r \in Requests, Guard(r)
      PROVE  [Next]_vars
  BY <1>2 DEF Guard
<1>3. ASSUME NEW r \in Requests, Unreadable(r)
      PROVE  [Next]_vars
  BY <1>3 DEF Unreadable, Handle
<1>4. ASSUME NEW r \in Requests, Dispatch(r)
      PROVE  [Next]_vars
  BY <1>4 DEF Dispatch
<1>5. ASSUME NEW r \in Requests, RouteBody(r)
      PROVE  [Next]_vars
  BY <1>5 DEF RouteBody, Handle
<1>6. CASE Time
  BY <1>6 DEF Time
<1>7. CASE Stop
  BY <1>7 DEF Stop
<1>8. CASE UNCHANGED allVars
  BY <1>8 DEF allVars
<1> QED BY <1>1, <1>2, <1>3, <1>4, <1>5, <1>6, <1>7, <1>8 DEF ServiceNext

\* What is proved of Auth holds of the service: its route bodies, however they
\* interleave with authenticate, change nothing of AuthState.
THEOREM ServiceImplementsAuth == ServiceSpec => AuthSpec
<1>1. ServiceInit => Init
  BY DEF ServiceInit
<1>2. [ServiceNext]_allVars => [Next]_vars
  BY StepIsAuths
<1> QED BY <1>1, <1>2, PTL DEF ServiceSpec, AuthSpec, Spec

-----------------------------------------------------------------------------
(* One route body for a signature *)

\* The slots of the route bodies are those of the requests.
KeyPcOK == keyPc \in [Requests -> {"idle"} \cup P!Steps]

InWindow(r) == pc[r] = "handler" /\ clock <= req[r].ts + TimestampWindow

\* A request in its handler and in its window has not begun its route body
\* before, in this slot or another, and no other slot will.
OnceInv ==
    Mode = "registered" =>
        /\ dispatched \subseteq accepted
        /\ \A r \in Requests : pc[r] = "handler" => req[r] \in accepted
        /\ \A r \in Requests :
              InWindow(r) /\ keyPc[r] = "idle" => req[r] \notin dispatched
        /\ \A r, s \in Requests :
              r # s /\ InWindow(r) /\ pc[s] = "handler" => req[s] # req[r]

ServiceInv == IInv /\ KeyPcOK /\ OnceInv

\* A slot that is not in its handler afterwards cannot break OnceInv.
LEMMA OneSlotLeaves ==
    ASSUME OnceInv, NEW r \in Requests, pc'[r] # "handler",
           \A s \in Requests \ {r} :
               pc'[s] = pc[s] /\ req'[s] = req[s] /\ keyPc'[s] = keyPc[s],
           UNCHANGED <<clock, accepted, dispatched>>
    PROVE  OnceInv'
  BY DEF OnceInv, InWindow

\* Every step of Auth's Arrive and Handle leaves the other slots alone, and only
\* Commit leads to the handler when there are clients.
LEMMA GuardSlot ==
    ASSUME TypeOK, Mode = "registered", NEW r \in Requests, Arrive(r) \/ Handle(r)
    PROVE  /\ \A s \in Requests \ {r} : pc'[s] = pc[s] /\ req'[s] = req[s]
           /\ clock' = clock
           /\ ~Commit(r) => pc'[r] # "handler" /\ accepted' = accepted
<1> USE DEF TypeOK, RequestsOK
<1>1. CASE Arrive(r)
  BY <1>1 DEF Arrive, ArriveRegister, ArriveSigned, history
<1>2. CASE Handle(r)
  <2> USE DEF Goto, Answer, history
  <2>1. CASE ReadRegistration(r) \/ CheckAcceptance(r) \/ StoreKey(r)
    BY <2>1 DEF ReadRegistration, CheckAcceptance, StoreKey
  <2>2. CASE Authenticate(r) \/ LookUp(r) \/ Verify(r)
    BY <2>2 DEF Authenticate, LookUp, Verify
  <2>3. CASE Commit(r)
    BY <2>3 DEF Commit
  <2>4. CASE AddClient(r) \/ RemoveClient(r) \/ ServeOther(r)
    BY <2>4 DEF AddClient, RemoveClient, ServeOther
  <2> QED BY <1>2, <2>1, <2>2, <2>3, <2>4 DEF Handle
<1> QED BY <1>1, <1>2

\* A commit that passes keeps OnceInv: in its window, its message is new.
LEMMA CommitOnce ==
    ASSUME ServiceInv, NEW r \in Requests, Commit(r), UNCHANGED <<keyPc, dispatched>>
    PROVE  OnceInv'
<1> SUFFICES ASSUME Mode = "registered" PROVE OnceInv'
  BY DEF OnceInv
<1> USE DEF ServiceInv, IInv, TypeOK
<1>1. /\ \A s \in Requests \ {r} : pc'[s] = pc[s] /\ req'[s] = req[s]
      /\ clock' = clock
  BY GuardSlot DEF Handle
<1>2. CASE Answer(r, "Unauthorized") /\ accepted' = accepted
  <2>1. pc'[r] # "handler"
    BY <1>2 DEF Answer, RequestsOK
  <2> QED BY <1>1, <1>2, <2>1, OneSlotLeaves
<1>3. CASE Goto(r, "handler") /\ accepted' = accepted \cup {req[r]}
  <2>1. pc'[r] = "handler" /\ req' = req
    BY <1>3 DEF Goto, RequestsOK
  <2>2. clock <= req[r].ts + TimestampWindow => req[r] \notin accepted
    BY <2>1, AcceptedOnce
  <2> QED BY <1>1, <1>3, <2>1, <2>2 DEF OnceInv, InWindow
<1> QED BY <1>2, <1>3 DEF Commit

\* A critical section of a route body moves its own slot only.
LEMMA RouteSlot ==
    ASSUME KeyPcOK, NEW r \in Requests, P!Handle(r)
    PROVE  /\ keyPc[r] # "idle"
           /\ KeyPcOK'
           /\ \A s \in Requests \ {r} : keyPc'[s] = keyPc[s]
<1> USE DEF KeyPcOK, P!Goto, P!Answer, P!Steps, P!Routes
<1>1. CASE P!Create(r) \/ P!GrantUri(r) \/ P!GrantScope(r)
  BY <1>1 DEF P!Create, P!GrantUri, P!GrantScope
<1>2. CASE P!Delete(r) \/ P!Remove(r) \/ P!Resolve(r) \/ P!Read(r)
  BY <1>2 DEF P!Delete, P!Remove, P!Resolve, P!Read
<1>3. CASE P!Execute(r) \/ P!Setup(r) \/ P!Load(r) \/ P!Issue(r)
  BY <1>3 DEF P!Execute, P!Setup, P!Load, P!Issue
<1>4. CASE P!List(r) \/ P!Show(r) \/ P!ListScopes(r)
  BY <1>4 DEF P!List, P!Show, P!ListScopes
<1>5. CASE P!Replace(r) \/ P!Permit(r) \/ P!Write(r)
  BY <1>5 DEF P!Replace, P!Permit, P!Write
<1> QED BY <1>1, <1>2, <1>3, <1>4, <1>5 DEF P!Handle

\* What a request in its handler asks of Protocol is one of its calls.
LEMMA CallTyped ==
    ASSUME TypeOK, NEW r \in Requests, pc[r] = "handler", Route[req[r]] # Null
    PROVE  CallOf(r).route \in P!Routes
<1>1. req[r] \in Messages
  BY DEF TypeOK, RequestsOK, AuthSteps
<1>2. Route[req[r]] \in P!Call
  BY <1>1, ServiceAssumption
<1> QED BY <1>2 DEF CallOf, P!Call

\* A dispatch marks its message, which no other slot in the window has.
LEMMA DispatchOnce ==
    ASSUME ServiceInv, NEW r \in Requests, Dispatch(r)
    PROVE  KeyPcOK' /\ OnceInv'
<1>1. CallOf(r).route \in P!Routes
  BY CallTyped DEF ServiceInv, IInv, Dispatch
<1>2. keyPc' = [keyPc EXCEPT ![r] = CallOf(r).route]
  BY DEF Dispatch, P!Arrive
<1>3. KeyPcOK'
  BY <1>1, <1>2 DEF ServiceInv, KeyPcOK, P!Steps
<1>4. /\ keyPc'[r] # "idle"
      /\ \A s \in Requests \ {r} : keyPc'[s] = keyPc[s]
  BY <1>1, <1>2 DEF ServiceInv, KeyPcOK, P!Routes
<1>5. /\ UNCHANGED <<clock, pc, req, accepted>>
      /\ dispatched' = dispatched \cup {req[r]}
      /\ pc[r] = "handler"
  BY DEF Dispatch, authVars, vars
<1>6. OnceInv'
  BY <1>4, <1>5 DEF ServiceInv, OnceInv, InWindow
<1> QED BY <1>3, <1>6

\* The invariant holds initially,
LEMMA InitServiceInv == ServiceInit => ServiceInv
<1> SUFFICES ASSUME ServiceInit PROVE ServiceInv
  OBVIOUS
<1>1. IInv
  BY InitIInv DEF ServiceInit
<1>2. KeyPcOK
  BY DEF ServiceInit, P!Init, KeyPcOK
<1>3. OnceInv
  BY DEF ServiceInit, Init, OnceInv, InWindow
<1> QED BY <1>1, <1>2, <1>3 DEF ServiceInv

\* and every step of the service keeps it.
LEMMA NextServiceInv == ServiceInv /\ [ServiceNext]_allVars => ServiceInv'
<1> SUFFICES ASSUME ServiceInv, [ServiceNext]_allVars PROVE KeyPcOK' /\ OnceInv'
  BY StepIsAuths, NextIInv DEF ServiceInv
<1> USE DEF ServiceInv, IInv
<1>1. CASE Open
  BY <1>1 DEF Open, OpenExisting, OpenNew, history, protocolVars, KeyPcOK, OnceInv, InWindow
<1>2. ASSUME NEW r \in Requests, Guard(r)
      PROVE  KeyPcOK' /\ OnceInv'
  <2>1. KeyPcOK' /\ UNCHANGED <<keyPc, dispatched>>
    BY <1>2 DEF Guard, protocolVars, KeyPcOK
  <2>2. OnceInv'
    <3> SUFFICES ASSUME Mode = "registered" PROVE OnceInv'
      BY DEF OnceInv
    <3>1. CASE Commit(r)
      BY <2>1, <3>1, CommitOnce
    <3>2. CASE ~Commit(r)
      BY <1>2, <2>1, <3>2, GuardSlot, OneSlotLeaves DEF Guard
    <3> QED BY <3>1, <3>2
  <2> QED BY <2>1, <2>2
<1>3. ASSUME NEW r \in Requests, ServeOther(r), UNCHANGED dispatched, KeyPcOK',
             \A s \in Requests \ {r} : keyPc'[s] = keyPc[s]
      PROVE  OnceInv'
  <2>1. /\ \A s \in Requests \ {r} : pc'[s] = pc[s] /\ req'[s] = req[s]
        /\ pc'[r] # "handler"
        /\ UNCHANGED <<clock, accepted>>
    BY <1>3 DEF ServeOther, Answer, history, TypeOK, RequestsOK
  <2> QED BY <1>3, <2>1, OneSlotLeaves
<1>4. ASSUME NEW r \in Requests, Unreadable(r)
      PROVE  KeyPcOK' /\ OnceInv'
  <2>1. KeyPcOK' /\ keyPc' = keyPc
    BY <1>4 DEF Unreadable, protocolVars, KeyPcOK
  <2> QED BY <1>3, <1>4, <2>1 DEF Unreadable
<1>5. ASSUME NEW r \in Requests, Dispatch(r)
      PROVE  KeyPcOK' /\ OnceInv'
  BY <1>5, DispatchOnce
<1>6. ASSUME NEW r \in Requests, RouteBody(r)
      PROVE  KeyPcOK' /\ OnceInv'
  <2>1. /\ keyPc[r] # "idle"
        /\ KeyPcOK'
        /\ \A s \in Requests \ {r} : keyPc'[s] = keyPc[s]
    BY <1>6, RouteSlot DEF RouteBody
  <2>2. CASE keyPc'[r] = "idle"
    BY <1>3, <1>6, <2>1, <2>2 DEF RouteBody
  <2>3. CASE keyPc'[r] # "idle"
    <3>1. UNCHANGED <<clock, pc, req, accepted, dispatched>>
      BY <1>6, <2>3 DEF RouteBody, authVars, vars
    <3> QED BY <2>1, <2>3, <3>1 DEF OnceInv, InWindow
  <2> QED BY <2>1, <2>2, <2>3
<1>7. CASE Time
  <2>1. /\ clock \in Nat /\ clock' = clock + 1
        /\ UNCHANGED <<pc, req, accepted, keyPc, dispatched>>
    BY <1>7 DEF Time, Tick, history, protocolVars, TypeOK, DataOK
  <2>2. ASSUME NEW r \in Requests, InWindow(r)'
        PROVE  InWindow(r)
    <3>1. pc[r] = "handler" /\ clock + 1 <= req[r].ts + TimestampWindow
      BY <2>1, <2>2 DEF InWindow
    <3>2. req[r] \in SignedMessage
      BY <3>1, AuthAssumption DEF TypeOK, RequestsOK, AuthSteps
    <3>3. req[r].ts + TimestampWindow \in Nat
      BY <3>2, AuthAssumption DEF SignedMessage
    <3> QED BY <2>1, <3>1, <3>3 DEF InWindow
  <2> QED BY <2>1, <2>2 DEF KeyPcOK, OnceInv
<1>8. CASE Stop
  BY <1>8 DEF Stop, Restart, P!Restart, KeyPcOK, OnceInv, InWindow
<1>9. CASE UNCHANGED allVars
  BY <1>9 DEF allVars, authVars, vars, protocolVars, KeyPcOK, OnceInv, InWindow
<1> QED BY <1>1, <1>2, <1>4, <1>5, <1>6, <1>7, <1>8, <1>9 DEF ServiceNext

\* End to end replay protection: for any number of clients, requests in flight,
\* messages and restarts, a signature begins at most one route body inside its
\* window.
THEOREM OneRunPerSignature == ServiceSpec => RunsOncePerSignature
<1>1. ServiceInv /\ [ServiceNext]_allVars =>
        [\A r \in Requests :
          /\ keyPc[r] = "idle" /\ keyPc'[r] # "idle"
          /\ Mode = "registered"
          /\ clock <= req[r].ts + TimestampWindow
          => req[r] \notin dispatched]_allVars
  <2> SUFFICES ASSUME ServiceInv, ServiceNext, NEW r \in Requests,
                      keyPc[r] = "idle", keyPc'[r] # "idle", Mode = "registered",
                      clock <= req[r].ts + TimestampWindow
               PROVE  req[r] \notin dispatched
    OBVIOUS
  <2>1. Dispatch(r)
    <3>1. ~UNCHANGED keyPc
      OBVIOUS
    <3>2. ASSUME NEW s \in Requests, Guard(s) \/ Unreadable(s) PROVE FALSE
      BY <3>1, <3>2 DEF Guard, Unreadable, protocolVars
    <3>3. ASSUME NEW s \in Requests, Dispatch(s) PROVE Dispatch(r)
      BY <3>3 DEF Dispatch, P!Arrive, ServiceInv, KeyPcOK
    <3>4. ASSUME NEW s \in Requests, RouteBody(s) PROVE FALSE
      BY <3>4, RouteSlot DEF RouteBody, ServiceInv
    <3>5. CASE Open \/ Time
      BY <3>1, <3>5 DEF Open, Time, protocolVars
    <3>6. CASE Stop
      BY <3>6 DEF Stop, P!Restart
    <3> QED BY <3>2, <3>3, <3>4, <3>5, <3>6 DEF ServiceNext
  <2> QED BY <2>1 DEF ServiceInv, OnceInv, InWindow, Dispatch
<1> QED BY <1>1, InitServiceInv, NextServiceInv, PTL
       DEF ServiceSpec, RunsOncePerSignature

-----------------------------------------------------------------------------
(* The service implements Protocol *)

\* Past its lookup a request has a client; without clients it never gets one.
CallerOK ==
    \A r \in Requests :
        /\ pc[r] \in {"idle", "authenticate"} => local[r].client = Null
        /\ pc[r] \in {"lookup", "verify", "commit"} => Mode = "registered"
        /\ pc[r] \in {"verify", "commit"} => local[r].client # Null
        /\ pc[r] = "handler" => (local[r].client = Null <=> Mode = "none")

\* Every step of Auth keeps CallerOK: the lookup names the client, and an answer
\* forgets it.
LEMMA CallerStep ==
    ASSUME TypeOK, CallerOK, [Next]_vars
    PROVE  CallerOK'
<1> USE DEF CallerOK, TypeOK, RequestsOK, Goto, Answer, Blank
<1>1. CASE \E client \in Clients, key \in Keys :
               OpenExisting(client, key) \/ OpenNew(client, key)
  BY <1>1 DEF OpenExisting, OpenNew
<1>2. ASSUME NEW r \in Requests, Arrive(r)
      PROVE  CallerOK'
  BY <1>2 DEF Arrive, ArriveRegister, ArriveSigned
<1>3. ASSUME NEW r \in Requests, Handle(r)
      PROVE  CallerOK'
  <2>1. CASE ReadRegistration(r) \/ CheckAcceptance(r) \/ StoreKey(r)
    BY <2>1 DEF ReadRegistration, CheckAcceptance, StoreKey
  <2>2. CASE Authenticate(r)
    BY <2>2, AuthAssumption DEF Authenticate
  <2>3. CASE LookUp(r)
    <3>1. CASE Answer(r, "Unauthorized") \/ Answer(r, "Forbidden")
      BY <2>3, <3>1 DEF LookUp
    <3>2. CASE Goto(r, "verify")
      <4>1. /\ registrations[req[r].id] # Null
            /\ local' = [local EXCEPT ![r] =
                   [client |-> registrations[req[r].id].client,
                    key |-> registrations[req[r].id].key, now |-> 0]]
        BY <2>3, <3>2 DEF LookUp
      <4>2. registrations[req[r].id].client \in Clients
        BY <2>3, <4>1, AuthAssumption
           DEF LookUp, AuthSteps, SignedMessage, DataOK, Registration
      <4>3. local'[r].client # Null
        BY <4>1, <4>2, NullAssumption
      <4> QED BY <2>3, <3>2, <4>1, <4>3 DEF LookUp
    <3> QED BY <2>3, <3>1, <3>2 DEF LookUp
  <2>4. CASE Verify(r)
    BY <2>4 DEF Verify, LocalType
  <2>5. CASE Commit(r)
    <3>1. CASE Answer(r, "Unauthorized")
      BY <2>5, <3>1 DEF Commit
    <3>2. CASE Goto(r, "handler") /\ UNCHANGED local
      BY <2>5, <3>2, AuthAssumption DEF Commit
    <3> QED BY <2>5, <3>1, <3>2 DEF Commit
  <2>6. CASE AddClient(r) \/ RemoveClient(r) \/ ServeOther(r)
    BY <2>6 DEF AddClient, RemoveClient, ServeOther
  <2> QED BY <1>3, <2>1, <2>2, <2>3, <2>4, <2>5, <2>6 DEF Handle
<1>4. CASE Tick \/ Restart
  BY <1>4 DEF Tick, Restart
<1>5. CASE UNCHANGED vars
  BY <1>5 DEF vars
<1> QED BY <1>1, <1>2, <1>3, <1>4, <1>5 DEF Next

\* What the guard hands over is a call that may arrive.
LEMMA CallRouted ==
    ASSUME TypeOK, CallerOK, NEW r \in Requests, Dispatch(r)
    PROVE  CallOf(r) \in RoutedCalls
<1>1. req[r] \in {m \in Messages : Route[m] # Null}
  BY DEF Dispatch, TypeOK, RequestsOK, AuthSteps
<1>2. local[r].client \in Callers
  <2>1. local[r].client \in Clients \cup {Null}
    BY DEF TypeOK, RequestsOK, LocalType
  <2> QED BY <2>1, AuthAssumption DEF Dispatch, CallerOK, Callers
<1> QED BY <1>1, <1>2 DEF RoutedCalls, CallOf

\* Every step of the service is a step of Protocol, or one of a guard that
\* Protocol does not see.
LEMMA StepIsProtocols ==
    TypeOK /\ CallerOK /\ [ServiceNext]_allVars => [P!Next]_(P!vars)
<1> SUFFICES ASSUME TypeOK, CallerOK, [ServiceNext]_allVars PROVE [P!Next]_(P!vars)
  OBVIOUS
<1> USE DEF P!Next, P!vars, protocolVars
<1>1. CASE Open \/ Time
  BY <1>1 DEF Open, Time
<1>2. ASSUME NEW r \in Requests, Guard(r) \/ Unreadable(r)
      PROVE  [P!Next]_(P!vars)
  BY <1>2 DEF Guard, Unreadable
<1>3. ASSUME NEW r \in Requests, Dispatch(r)
      PROVE  [P!Next]_(P!vars)
  BY <1>3, CallRouted DEF Dispatch
<1>4. ASSUME NEW r \in Requests, RouteBody(r)
      PROVE  [P!Next]_(P!vars)
  BY <1>4 DEF RouteBody
<1>5. CASE Stop
  BY <1>5 DEF Stop
<1>6. CASE UNCHANGED allVars
  BY <1>6 DEF allVars
<1> QED BY <1>1, <1>2, <1>3, <1>4, <1>5, <1>6 DEF ServiceNext

\* What holds of Protocol for all calls with a caller holds of the service: the
\* guards hand it nothing else, whatever clients and registrations do meanwhile.
THEOREM ServiceImplementsProtocol == ServiceSpec => ProtocolSpec
<1>1. ServiceInit => Init /\ P!Init
  BY DEF ServiceInit
<1>2. Init => TypeOK /\ CallerOK
  BY InitTypeOK DEF Init, CallerOK, Blank
<1>3. TypeOK /\ CallerOK /\ [ServiceNext]_allVars => TypeOK' /\ CallerOK'
  BY StepIsAuths, NextTypeOK, CallerStep
<1>4. TypeOK /\ CallerOK /\ [ServiceNext]_allVars => [P!Next]_(P!vars)
  BY StepIsProtocols
<1> QED BY <1>1, <1>2, <1>3, <1>4, PTL DEF ServiceSpec, ProtocolSpec, P!Spec
=============================================================================
