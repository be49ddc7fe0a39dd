------------------------------ MODULE Service -------------------------------
(***************************************************************************)
(* The signing service as main.rs mounts it: the routes of the v1 protocol *)
(* behind the request guards of auth.rs.                                   *)
(*                                                                         *)
(* A signed request is one future: SignedBody or SignedRequest             *)
(* authenticates it, and the route body then runs with the context that    *)
(* came of it, among all other requests.  Auth stops at its step "handler" *)
(* and Protocol starts with a call that has a caller; here the same slot r *)
(* goes through both, so that a route still checks grants and signs while  *)
(* the client it acts for is removed, and the request cannot be answered   *)
(* by one half before the other has ended.                                 *)
(*                                                                         *)
(* Auth's variables have their names.  Protocol's keep theirs where they   *)
(* differ and are called keyPc, keyCall, keyLocal, keyReply, retiredPairs  *)
(* and permitted where they do not.                                        *)
(***************************************************************************)
EXTENDS Auth, KeyNames

CONSTANTS
    Names, Pairs,   \* as in Protocol
    Route           \* the call each message carries, Null for auth.rs's own routes

VARIABLES
    keys, policies, keyPc, keyCall, keyLocal, keyReply,
    born, retiredPairs, credentials, permitted,
    dispatched      \* history: the messages whose route body has begun

authVars == vars
protocolVars ==
    <<keys, policies, keyPc, keyCall, keyLocal, keyReply,
      born, retiredPairs, credentials, permitted>>
allVars == <<authVars, protocolVars, dispatched>>

\* A body names no caller, the context does: any client may send any body.
Callers == IF Mode = "none" THEN {Null} ELSE Clients
RoutedCalls ==
    {[Route[m] EXCEPT !.caller = caller] :
        m \in {n \in Messages : Route[n] # Null}, caller \in Callers}

P == INSTANCE Protocol WITH
         pc <- keyPc, call <- keyCall, local <- keyLocal, reply <- keyReply,
         retired <- retiredPairs, entitled <- permitted, Calls <- RoutedCalls

ASSUME ServiceAssumption ==
    /\ Null \notin P!Call /\ Null \notin Pairs
    /\ Null \notin P!KeyIds /\ Null \notin P!Scopes
    /\ Route \in [Messages -> P!Call \cup {Null}]
    /\ \A m \in Messages :
        /\ Route[m] = Null <=> m.op.name \notin {"keys", "read", "execute"}
        /\ Route[m] # Null => Route[m].caller = Null
        /\ Route[m] # Null /\ Route[m].route # "execute" => Route[m].uri # Null

-----------------------------------------------------------------------------
ServiceInit == Init /\ P!Init /\ dispatched = {}

\* BUG: the context is lost on the way, as if there were no clients.
CallOfNobody(r) == Route[req[r]]

\* The context that authenticate returned goes with the body.
CallOf(r) == [Route[req[r]] EXCEPT !.caller = local[r].client]

\* open, register, authenticate and the routes of routes/auth.rs.
Guard(r) ==
    /\ Arrive(r) \/ Handle(r)
    /\ pc[r] = "handler" => Route[req[r]] = Null
    /\ UNCHANGED <<protocolVars, dispatched>>

Open ==
    /\ \E client \in Clients, key \in Keys :
           OpenExisting(client, key) \/ OpenNew(client, key)
    /\ UNCHANGED <<protocolVars, dispatched>>

\* BUG: the purpose that was signed stands for the grant.
DispatchUnchecked(r) ==
    /\ pc[r] = "handler"
    /\ Route[req[r]] # Null
    /\ keyPc[r] = "idle"
    /\ keyPc' = [keyPc EXCEPT ![r] =
           CASE CallOf(r).route = "replace" -> "write"
             [] CallOf(r).route = "delete" -> "remove"
             [] OTHER -> CallOf(r).route]
    /\ keyCall' = [keyCall EXCEPT ![r] = CallOf(r)]
    /\ dispatched' = dispatched \cup {req[r]}
    /\ UNCHANGED <<authVars, keys, policies, keyLocal, keyReply,
                   born, retiredPairs, credentials, permitted>>

\* SignedBody parses the body only after authenticate has used the signature up.
Unreadable(r) ==
    /\ pc[r] = "handler" /\ keyPc[r] = "idle"
    /\ Route[req[r]] # Null /\ Route[req[r]].route \in {"create", "replace", "execute"}
    /\ ServeOther(r)
    /\ UNCHANGED <<protocolVars, dispatched>>

\* The guard has let r through and the route body begins.
Dispatch(r) ==
    /\ pc[r] = "handler"
    /\ Route[req[r]] # Null
    /\ P!Arrive(r, CallOf(r))
    /\ dispatched' = dispatched \cup {req[r]}
    /\ UNCHANGED authVars

\* BUG: a request that was refused may be sent again.
RouteForgives(r) ==
    /\ P!Handle(r)
    /\ IF keyPc'[r] # "idle" THEN UNCHANGED authVars
       ELSE /\ pc' = [pc EXCEPT ![r] = "idle"]
            /\ req' = [req EXCEPT ![r] = Null]
            /\ local' = [local EXCEPT ![r] = Blank]
            /\ reply' = [to |-> r, status |-> "Ok"]
            /\ signatures' = IF keyReply'.status = "Forbidden"
                             THEN signatures \ {req[r]} ELSE signatures
            /\ UNCHANGED <<clients, registrations, clock, history>>
            /\ Observe
    /\ UNCHANGED dispatched

\* One critical section of the route body; its answer answers the request.
RouteBody(r) ==
    /\ P!Handle(r)
    /\ IF keyPc'[r] = "idle" THEN ServeOther(r) ELSE UNCHANGED authVars
    /\ UNCHANGED dispatched

Time == Tick /\ UNCHANGED <<protocolVars, dispatched>>

\* BUG: the route bodies outlive the requests they answer.
StopGuards == Restart /\ UNCHANGED <<protocolVars, dispatched>>

\* All of the state is in the memory of one process.
Stop == Restart /\ P!Restart /\ UNCHANGED dispatched

ServiceNext ==
    \/ Open
    \/ \E r \in Requests : Guard(r) \/ Unreadable(r) \/ Dispatch(r) \/ RouteBody(r)
    \/ Time
    \/ Stop

ServiceSpec == ServiceInit /\ [][ServiceNext]_allVars

-----------------------------------------------------------------------------
\* Both halves keep their types, and a slot runs a route body only while its
\* request is in the handler, with the call and the caller of that request.
ServiceTypeOK ==
    /\ TypeOK /\ P!TypeOK
    /\ dispatched \subseteq Messages
    /\ \A r \in Requests : keyPc[r] # "idle" =>
           pc[r] = "handler" /\ Route[req[r]] # Null /\ keyCall[r] = CallOf(r)

(* What must hold *)

\* End to end: what a client brings about with a key or a grant was signed under
\* a key that was the client's accepted key, and was granted to that client, at
\* moments since the request came - whatever was removed, added, replaced or
\* deleted between the two checks and since.
EffectsWereSignedAndGranted ==
    \A r \in Requests :
        (Mode = "registered" /\ keyPc[r] \in P!EffectSteps) =>
            /\ entitled[r] /\ permitted[r]
            /\ req[r].id \in issued \ retired
            /\ req[r].key = bound[req[r].id]
            /\ keyCall[r].caller = local[r].client
            /\ registrations[req[r].id] # Null =>
                   registrations[req[r].id].client = keyCall[r].caller

\* A signed message begins its route body at most once while its timestamp is
\* inside the window: a create, an issuance or a replace is not repeated.
RunsOncePerSignature ==
    [][\A r \in Requests :
          /\ keyPc[r] = "idle" /\ keyPc'[r] # "idle"
          /\ Mode = "registered"
          /\ clock <= req[r].ts + TimestampWindow
          => req[r] \notin dispatched]_allVars

\* The composed service implements each of its halves: what is shown of Auth and
\* of Protocol on their own, for all calls with a caller, holds of the service.
AuthSpec == Spec
ProtocolSpec == P!Spec
=============================================================================
