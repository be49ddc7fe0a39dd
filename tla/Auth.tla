-------------------------------- MODULE Auth --------------------------------
(***************************************************************************)
(* Registration and request authentication (auth.rs, routes/auth.rs).      *)
(*                                                                         *)
(* AuthState keeps clients, registrations and signatures in one Mutex.  A  *)
(* handler takes the lock several times, and other handlers run between    *)
(* its critical sections.  Here every critical section, and every read of  *)
(* the clock outside one, is one action; a request in flight is a slot r   *)
(* with a program counter pc[r], its content req[r] and the values it has  *)
(* carried out of a critical section, local[r].                            *)
(*                                                                         *)
(*   register      "register" -> "accept" -> "store"                       *)
(*   authenticate  "authenticate" -> "lookup" -> "verify" -> "commit"      *)
(*                 -> "handler" (the route body, run with the context)     *)
(*                                                                         *)
(* A registration's psk is drawn with its id and never changes, so the id  *)
(* stands for both.  A signed message m stands for the request and its     *)
(* signature: Ed25519ph signatures are deterministic, so equal messages    *)
(* are equal signature strings.  m.key is the key the signature verifies   *)
(* under (with the psk of m.id); the cache's value for m is m.ts.          *)
(*                                                                         *)
(* Malformed input (bad Base64, a wrong length, an empty name, an unknown  *)
(* provider, a missing header) is answered before any state is read and    *)
(* is not modelled.                                                        *)
(***************************************************************************)
EXTENDS Naturals, FiniteSets

CONSTANTS
    Clients,            \* client names
    Keys,               \* Ed25519 public keys
    Ids,                \* registration ids new_id() may draw (bounds open)
    Requests,           \* slots for requests in flight (bounds concurrency)
    Messages,           \* signed requests that may arrive, and arrive again
    RegisterCalls,      \* register calls that may arrive, and arrive again
    Null,               \* Rust's None, or a missing map entry
    Mode,               \* SIGNING_AUTH_MODE
    Acceptance,         \* SIGNING_AUTH_CLIENT_ACCEPTANCE
    Administrator,      \* SIGNING_AUTH_CLIENT_ADMINISTRATOR
    ConfiguredClients,  \* SIGNING_AUTH_CLIENTS
    RegistrationTTL,    \* REGISTRATION_TTL_MS
    TimestampWindow,    \* TIMESTAMP_WINDOW_MS
    MaxClock            \* the clock stops here (bounds the model)

SigningPurposes == {"key-management", "signing", "operations", "decrypt", "read"}

\* What a signed request asks for: "keys" is a route under /v1/keys that is not
\* a GET, "read" one that is; client and key are add_client's and
\* remove_client's arguments.
Operations ==
    [name : {"addClient", "removeClient", "clients", "health", "keys", "read", "execute"},
     client : Clients, key : Keys]

SignedMessage ==
    [id : Ids, key : Keys, ts : Nat, purpose : STRING, op : Operations]

\* POST /v1/auth/registrations/<id>/key; proof says whether the signature
\* sent with the key verifies under it.
RegisterRequest == [id : Ids, key : Keys, proof : BOOLEAN]

Registration ==
    [client : Clients, key : Keys \cup {Null},
     created : Nat, lastUse : Nat \cup {Null}]

ASSUME AuthAssumption ==
    /\ Mode \in {"none", "registered"}
    /\ Acceptance \in {"allow-list", "platform-assisted"}
    /\ Administrator \in Clients
    /\ ConfiguredClients \in [Clients -> Keys \cup {Null}]
    /\ Mode = "registered" => \E c \in Clients : ConfiguredClients[c] # Null
    /\ Messages \subseteq SignedMessage
    /\ RegisterCalls \subseteq RegisterRequest
    /\ RegistrationTTL \in Nat
    /\ TimestampWindow \in Nat
    /\ MaxClock \in Nat

ASSUME NullAssumption ==
    /\ Null \notin Keys
    /\ Null \notin Clients
    /\ Null \notin Nat
    /\ Null \notin Registration
    /\ Null \notin SignedMessage
    /\ Null \notin RegisterRequest

VARIABLES
    clients,        \* AuthData.clients
    registrations,  \* AuthData.registrations
    signatures,     \* AuthData.signatures
    clock,          \* what now_ms() returns
    pc, req, local, \* the requests in flight
    reply,          \* the answer the last step sent, if it sent one
    \* History, read by no handler:
    issued,         \* ids new_id() has drawn: 128 random bits never repeat
    retired,        \* the ids drawn before the last restart
    bound,          \* the key each id was completed with
    accepted,       \* messages authenticate has accepted
    entitled        \* has r's registration been good at some time since r came?

authData == <<clients, registrations, signatures>>
history  == <<issued, retired, bound, accepted>>
vars == <<clients, registrations, signatures, clock, pc, req, local, reply,
          issued, retired, bound, accepted, entitled>>

-----------------------------------------------------------------------------
(* Helpers *)

SaturatingSub(a, b) == IF a >= b THEN a - b ELSE 0
AbsDiff(a, b) == IF a >= b THEN a - b ELSE b - a

RegisterSteps == {"register", "accept", "store"}
AuthSteps == {"authenticate", "lookup", "verify", "commit", "handler"}

Blank == [client |-> Null, key |-> Null, now |-> 0]
Silent == [to |-> Null, status |-> "Silent"]

Goto(r, step) ==
    /\ pc' = [pc EXCEPT ![r] = step]
    /\ reply' = Silent
    /\ UNCHANGED req

Answer(r, status) ==
    /\ pc' = [pc EXCEPT ![r] = "idle"]
    /\ req' = [req EXCEPT ![r] = Null]
    /\ local' = [local EXCEPT ![r] = Blank]
    /\ reply' = [to |-> r, status |-> status]

Accepts(client, key) == clients[client] # Null /\ clients[client] = key

\* retain in open: pending registrations expire, completed ones do not.
Kept(id) ==
    LET reg == registrations[id] IN
    /\ reg # Null
    /\ reg.key # Null \/ reg.created >= SaturatingSub(clock, RegistrationTTL)

Retained == [id \in Ids |-> IF Kept(id) THEN registrations[id] ELSE Null]

Completed(regs, client, key) ==
    {id \in Ids : regs[id] # Null /\ regs[id].client = client /\ regs[id].key = key}

RequiredPurpose(op) ==
    CASE op.name = "execute" -> {"operations"}
      [] op.name \in {"addClient", "removeClient", "keys"} -> {"key-management"}
      [] OTHER -> SigningPurposes

\* A registration authenticate would let through, were it read now.
Good(regs, table, id) ==
    /\ regs[id] # Null
    /\ regs[id].key # Null
    /\ table[regs[id].client] = regs[id].key

\* r's registration was good in a state no older than r's arrival.
Observe ==
    entitled' = [r \in Requests |->
        /\ pc'[r] \in AuthSteps
        /\ \/ entitled[r]
           \/ Good(registrations', clients', req'[r].id)]

-----------------------------------------------------------------------------
(* Initial state: from_env *)

Init ==
    /\ clients = ConfiguredClients
    /\ registrations = [id \in Ids |-> Null]
    /\ signatures = {}
    /\ clock = 0
    /\ pc = [r \in Requests |-> "idle"]
    /\ req = [r \in Requests |-> Null]
    /\ local = [r \in Requests |-> Blank]
    /\ reply = Silent
    /\ issued = {}
    /\ retired = {}
    /\ bound = [id \in Ids |-> Null]
    /\ accepted = {}
    /\ entitled = [r \in Requests |-> FALSE]

-----------------------------------------------------------------------------
(* open: one critical section *)

\* The client is known: the pending registrations that expired are gone, and
\* the answer is one of its completed registrations (iteration order picks).
OpenExisting(client, key) ==
    /\ Mode = "registered" => Accepts(client, key)
    /\ Completed(Retained, client, key) # {}
    /\ registrations' = Retained
    /\ reply' = Silent
    /\ UNCHANGED <<clients, signatures, clock, pc, req, local, history>>
    /\ Observe

OpenNew(client, key) ==
    /\ Mode = "registered" => Accepts(client, key)
    /\ Completed(Retained, client, key) = {}
    /\ \E id \in Ids \ issued :
        /\ registrations' = [Retained EXCEPT ![id] =
               [client |-> client, key |-> Null, created |-> clock, lastUse |-> Null]]
        /\ issued' = issued \cup {id}
    /\ reply' = Silent
    /\ UNCHANGED <<clients, signatures, clock, pc, req, local, retired, bound, accepted>>
    /\ Observe

-----------------------------------------------------------------------------
(* register: three critical sections *)

ArriveRegister(r, q) ==
    /\ pc[r] = "idle"
    /\ pc' = [pc EXCEPT ![r] = "register"]
    /\ req' = [req EXCEPT ![r] = q]
    /\ reply' = Silent
    /\ UNCHANGED <<authData, clock, local, history>>
    /\ Observe

\* BUG: the client is not carried to the acceptance check.
ReadRegistrationOnly(r) ==
    LET reg == registrations[req[r].id] IN
    /\ pc[r] = "register"
    /\ reg # Null
    /\ Goto(r, "accept")
    /\ UNCHANGED <<authData, clock, local, history>>
    /\ Observe

ReadRegistration(r) ==
    LET reg == registrations[req[r].id] IN
    /\ pc[r] = "register"
    /\ \/ reg = Null /\ Answer(r, "NotFound")
       \/ reg # Null /\ reg.key # Null
          /\ Answer(r, IF reg.key = req[r].key THEN "NoContent" ELSE "Conflict")
       \/ /\ reg # Null /\ reg.key = Null
          /\ local' = [local EXCEPT ![r].client = reg.client]
          /\ Goto(r, "accept")
    /\ UNCHANGED <<authData, clock, history>>
    /\ Observe

\* The acceptance check; the proof is checked next and touches no state.
CheckAcceptance(r) ==
    LET refused == Mode = "registered" /\ ~Accepts(local[r].client, req[r].key) IN
    /\ pc[r] = "accept"
    /\ \/ refused /\ Answer(r, "Forbidden")
       \/ ~refused /\ ~req[r].proof /\ Answer(r, "Unauthorized")
       \/ ~refused /\ req[r].proof /\ Goto(r, "store") /\ UNCHANGED local
    /\ UNCHANGED <<authData, clock, history>>
    /\ Observe

\* BUG: the key is stored without looking again.
StoreKeyBlindly(r) ==
    /\ pc[r] = "store"
    /\ registrations[req[r].id] # Null
    /\ registrations' = [registrations EXCEPT ![req[r].id].key = req[r].key]
    /\ bound' = [bound EXCEPT ![req[r].id] = req[r].key]
    /\ Answer(r, "NoContent")
    /\ UNCHANGED <<clients, signatures, clock, issued, retired, accepted>>
    /\ Observe

\* BUG: a registration removed meanwhile is inserted again.
StoreKeyAnyway(r) ==
    /\ pc[r] = "store"
    /\ registrations' = [registrations EXCEPT ![req[r].id] =
           [client |-> local[r].client, key |-> req[r].key,
            created |-> clock, lastUse |-> Null]]
    /\ bound' = [bound EXCEPT ![req[r].id] = req[r].key]
    /\ Answer(r, "NoContent")
    /\ UNCHANGED <<clients, signatures, clock, issued, retired, accepted>>
    /\ Observe

\* BUG: a call whose registration is gone waits for it.
StoreKeyWaits(r) ==
    /\ pc[r] = "store"
    /\ registrations[req[r].id] # Null
    /\ IF registrations[req[r].id].key # Null
       THEN Answer(r, "Conflict") /\ UNCHANGED <<registrations, bound>>
       ELSE /\ registrations' = [registrations EXCEPT ![req[r].id].key = req[r].key]
            /\ bound' = [bound EXCEPT ![req[r].id] = req[r].key]
            /\ Answer(r, "NoContent")
    /\ UNCHANGED <<clients, signatures, clock, issued, retired, accepted>>
    /\ Observe

StoreKey(r) ==
    LET id == req[r].id
        reg == registrations[id]
    IN
    /\ pc[r] = "store"
    /\ \/ /\ reg = Null
          /\ Answer(r, "NotFound")
          /\ UNCHANGED <<registrations, bound>>
       \/ /\ reg # Null /\ reg.key # Null
          /\ Answer(r, "Conflict")
          /\ UNCHANGED <<registrations, bound>>
       \/ /\ reg # Null /\ reg.key = Null
          /\ registrations' = [registrations EXCEPT ![id].key = req[r].key]
          /\ bound' = [bound EXCEPT ![id] = req[r].key]
          /\ Answer(r, "NoContent")
    /\ UNCHANGED <<clients, signatures, clock, issued, retired, accepted>>
    /\ Observe

-----------------------------------------------------------------------------
(* authenticate: a clock read, a critical section, a clock read, another    *)
(* critical section                                                         *)

ArriveSigned(r, m) ==
    /\ pc[r] = "idle"
    /\ pc' = [pc EXCEPT ![r] = "authenticate"]
    /\ req' = [req EXCEPT ![r] = m]
    /\ reply' = Silent
    /\ UNCHANGED <<authData, clock, local, history>>
    /\ Observe

\* The checks on the headers; in mode none there are none, and no client.
Authenticate(r) ==
    LET m == req[r]
        late == AbsDiff(clock, m.ts) > TimestampWindow
        known == m.purpose \in SigningPurposes
        right == m.purpose \in RequiredPurpose(m.op)
    IN
    /\ pc[r] = "authenticate"
    /\ \/ Mode = "none" /\ Goto(r, "handler") /\ UNCHANGED local
       \/ Mode # "none" /\ (late \/ ~known) /\ Answer(r, "Unauthorized")
       \/ Mode # "none" /\ ~late /\ known /\ ~right /\ Answer(r, "Forbidden")
       \/ /\ Mode # "none" /\ ~late /\ known /\ right
          /\ Goto(r, "lookup") /\ UNCHANGED local
    /\ UNCHANGED <<authData, clock, history>>
    /\ Observe

\* BUG: a completed registration is enough, whatever the client table says.
LookUpUnchecked(r) ==
    LET reg == registrations[req[r].id] IN
    /\ pc[r] = "lookup"
    /\ IF reg = Null \/ reg.key = Null
       THEN Answer(r, "Unauthorized")
       ELSE /\ local' = [local EXCEPT ![r] =
                   [client |-> reg.client, key |-> reg.key, now |-> 0]]
            /\ Goto(r, "verify")
    /\ UNCHANGED <<authData, clock, history>>
    /\ Observe

\* BUG: the signature is recorded before it is verified.
LookUpRecords(r) ==
    LET reg == registrations[req[r].id] IN
    /\ pc[r] = "lookup"
    /\ IF reg = Null \/ reg.key = Null \/ ~Accepts(reg.client, reg.key)
       THEN Answer(r, "Forbidden") /\ UNCHANGED signatures
       ELSE /\ signatures' = signatures \cup {req[r]}
            /\ local' = [local EXCEPT ![r] =
                   [client |-> reg.client, key |-> reg.key, now |-> 0]]
            /\ Goto(r, "verify")
    /\ UNCHANGED <<clients, registrations, clock, history>>
    /\ Observe

LookUp(r) ==
    LET reg == registrations[req[r].id] IN
    /\ pc[r] = "lookup"
    /\ \/ reg = Null /\ Answer(r, "Unauthorized")
       \/ reg # Null /\ reg.key = Null /\ Answer(r, "Unauthorized")
       \/ /\ reg # Null /\ reg.key # Null
          /\ ~Accepts(reg.client, reg.key)
          /\ Answer(r, "Forbidden")
       \/ /\ reg # Null /\ reg.key # Null
          /\ Accepts(reg.client, reg.key)
          /\ local' = [local EXCEPT ![r] =
                 [client |-> reg.client, key |-> reg.key, now |-> 0]]
          /\ Goto(r, "verify")
    /\ UNCHANGED <<authData, clock, history>>
    /\ Observe

\* BUG: the signature is not checked against the registered key.
VerifyAny(r) ==
    /\ pc[r] = "verify"
    /\ local' = [local EXCEPT ![r].now = clock]
    /\ Goto(r, "commit")
    /\ UNCHANGED <<authData, clock, history>>
    /\ Observe

\* verify_proof under the key carried from the lookup, then now_ms().
Verify(r) ==
    /\ pc[r] = "verify"
    /\ \/ req[r].key # local[r].key /\ Answer(r, "Unauthorized")
       \/ /\ req[r].key = local[r].key
          /\ local' = [local EXCEPT ![r].now = clock]
          /\ Goto(r, "commit")
    /\ UNCHANGED <<authData, clock, history>>
    /\ Observe

\* BUG: entries leave the cache a moment too early.
CommitEarlyPurge(r) ==
    LET m == req[r]
        fresh == {s \in signatures : s.ts > SaturatingSub(local[r].now, TimestampWindow)}
    IN
    /\ pc[r] = "commit"
    /\ IF m \in fresh
       THEN signatures' = fresh /\ Answer(r, "Unauthorized") /\ UNCHANGED <<registrations, accepted>>
       ELSE /\ signatures' = fresh \cup {m}
            /\ accepted' = accepted \cup {m}
            /\ UNCHANGED <<registrations, local>>
            /\ Goto(r, "handler")
    /\ UNCHANGED <<clients, clock, issued, retired, bound>>
    /\ Observe

\* BUG: last_use is the client's timestamp.
CommitClientTime(r) ==
    LET m == req[r]
        fresh == {s \in signatures : s.ts >= SaturatingSub(local[r].now, TimestampWindow)}
    IN
    /\ pc[r] = "commit"
    /\ IF m \in fresh
       THEN signatures' = fresh /\ Answer(r, "Unauthorized") /\ UNCHANGED <<registrations, accepted>>
       ELSE /\ signatures' = fresh \cup {m}
            /\ registrations' = IF registrations[m.id] = Null THEN registrations
                                ELSE [registrations EXCEPT ![m.id].lastUse = m.ts]
            /\ accepted' = accepted \cup {m}
            /\ UNCHANGED local
            /\ Goto(r, "handler")
    /\ UNCHANGED <<clients, clock, issued, retired, bound>>
    /\ Observe

\* Replay check, with the cutoff of the clock read in Verify.
Commit(r) ==
    LET m == req[r]
        now == local[r].now
        fresh == {s \in signatures : s.ts >= SaturatingSub(now, TimestampWindow)}
    IN
    /\ pc[r] = "commit"
    /\ \/ /\ m \in fresh
          /\ signatures' = fresh
          /\ Answer(r, "Unauthorized")
          /\ UNCHANGED <<registrations, accepted>>
       \/ /\ m \notin fresh
          /\ signatures' = fresh \cup {m}
          /\ registrations' = IF registrations[m.id] = Null THEN registrations
                              ELSE [registrations EXCEPT ![m.id].lastUse = now]
          /\ accepted' = accepted \cup {m}
          /\ Goto(r, "handler")
          /\ UNCHANGED local
    /\ UNCHANGED <<clients, clock, issued, retired, bound>>
    /\ Observe

-----------------------------------------------------------------------------
(* Route bodies, run with the context authenticate returned *)

IsAdmin(r) == Mode = "none" \/ local[r].client = Administrator

\* BUG: the context is not checked for the administrator.
AddClientAnyone(r) ==
    /\ pc[r] = "handler"
    /\ req[r].op.name = "addClient"
    /\ Mode = "registered" /\ Acceptance = "platform-assisted"
    /\ clients' = [clients EXCEPT ![req[r].op.client] = req[r].op.key]
    /\ Answer(r, "NoContent")
    /\ UNCHANGED <<registrations, signatures, clock, history>>
    /\ Observe

AddClient(r) ==
    LET open == Mode = "registered" /\ Acceptance = "platform-assisted" IN
    /\ pc[r] = "handler"
    /\ req[r].op.name = "addClient"
    /\ \/ ~(IsAdmin(r) /\ open) /\ Answer(r, "Forbidden") /\ UNCHANGED clients
       \/ /\ IsAdmin(r) /\ open
          /\ clients' = [clients EXCEPT ![req[r].op.client] = req[r].op.key]
          /\ Answer(r, "NoContent")
    /\ UNCHANGED <<registrations, signatures, clock, history>>
    /\ Observe

\* BUG: the registrations of the removed client stay.
RemoveClientOnly(r) ==
    LET client == req[r].op.client IN
    /\ pc[r] = "handler"
    /\ req[r].op.name = "removeClient"
    /\ IsAdmin(r) /\ client # Administrator
    /\ clients' = [clients EXCEPT ![client] = Null]
    /\ Answer(r, "NoContent")
    /\ UNCHANGED <<registrations, signatures, clock, history>>
    /\ Observe

\* BUG: the administrator is a client like any other.
RemoveAnyClient(r) ==
    LET client == req[r].op.client IN
    /\ pc[r] = "handler"
    /\ req[r].op.name = "removeClient"
    /\ IsAdmin(r)
    /\ clients' = [clients EXCEPT ![client] = Null]
    /\ registrations' = [id \in Ids |->
           IF registrations[id] # Null /\ registrations[id].client = client
           THEN Null ELSE registrations[id]]
    /\ Answer(r, "NoContent")
    /\ UNCHANGED <<signatures, clock, history>>
    /\ Observe

RemoveClient(r) ==
    LET client == req[r].op.client
        refused == Mode # "registered" \/ client = Administrator
    IN
    /\ pc[r] = "handler"
    /\ req[r].op.name = "removeClient"
    /\ \/ ~IsAdmin(r) /\ Answer(r, "Forbidden") /\ UNCHANGED <<clients, registrations>>
       \/ IsAdmin(r) /\ refused /\ Answer(r, "BadRequest")
          /\ UNCHANGED <<clients, registrations>>
       \/ IsAdmin(r) /\ ~refused /\ clients[client] = Null /\ Answer(r, "NotFound")
          /\ UNCHANGED <<clients, registrations>>
       \/ /\ IsAdmin(r) /\ ~refused /\ clients[client] # Null
          /\ clients' = [clients EXCEPT ![client] = Null]
          /\ registrations' = [id \in Ids |->
                 IF registrations[id] # Null /\ registrations[id].client = client
                 THEN Null ELSE registrations[id]]
          /\ Answer(r, "NoContent")
    /\ UNCHANGED <<signatures, clock, history>>
    /\ Observe

\* clients, health and the routes of the other components change nothing here.
ServeOther(r) ==
    /\ pc[r] = "handler"
    /\ req[r].op.name \notin {"addClient", "removeClient"}
    /\ Answer(r, "Ok")
    /\ UNCHANGED <<authData, clock, history>>
    /\ Observe

-----------------------------------------------------------------------------
(* The environment *)

\* SystemTime is assumed not to be set back.
Tick ==
    /\ clock < MaxClock
    /\ clock' = clock + 1
    /\ reply' = Silent
    /\ UNCHANGED <<authData, pc, req, local, history>>
    /\ Observe

\* BUG: the registrations outlive the process and the signatures do not.
RestartKeepsRegistrations ==
    /\ clients' = ConfiguredClients
    /\ signatures' = {}
    /\ pc' = [r \in Requests |-> "idle"]
    /\ req' = [r \in Requests |-> Null]
    /\ local' = [r \in Requests |-> Blank]
    /\ reply' = Silent
    /\ retired' = issued
    /\ UNCHANGED <<registrations, clock, issued, bound, accepted>>
    /\ Observe

\* The process ends and is started again: AuthState lives in its memory only.
Restart ==
    /\ clients' = ConfiguredClients
    /\ registrations' = [id \in Ids |-> Null]
    /\ signatures' = {}
    /\ pc' = [r \in Requests |-> "idle"]
    /\ req' = [r \in Requests |-> Null]
    /\ local' = [r \in Requests |-> Blank]
    /\ reply' = Silent
    /\ retired' = issued
    /\ UNCHANGED <<clock, issued, bound, accepted>>
    /\ Observe

-----------------------------------------------------------------------------
Arrive(r) ==
    \/ \E q \in RegisterCalls : ArriveRegister(r, q)
    \/ \E m \in Messages : ArriveSigned(r, m)

Handle(r) ==
    \/ ReadRegistration(r)
    \/ CheckAcceptance(r)
    \/ StoreKey(r)
    \/ Authenticate(r)
    \/ LookUp(r)
    \/ Verify(r)
    \/ Commit(r)
    \/ AddClient(r)
    \/ RemoveClient(r)
    \/ ServeOther(r)

Next ==
    \/ \E client \in Clients, key \in Keys :
           OpenExisting(client, key) \/ OpenNew(client, key)
    \/ \E r \in Requests : Arrive(r) \/ Handle(r)
    \/ Tick
    \/ Restart

Spec == Init /\ [][Next]_vars

\* Rocket runs every handler it has started to its end.
FairSpec == Spec /\ \A r \in Requests : WF_vars(Handle(r))

-----------------------------------------------------------------------------
(* Types *)

LocalType ==
    [client : Clients \cup {Null}, key : Keys \cup {Null}, now : Nat]

Statuses ==
    {"Silent", "Ok", "NoContent", "BadRequest", "Unauthorized", "Forbidden",
     "NotFound", "Conflict"}

DataOK ==
    /\ clients \in [Clients -> Keys \cup {Null}]
    /\ registrations \in [Ids -> Registration \cup {Null}]
    /\ signatures \subseteq Messages
    /\ clock \in 0..MaxClock

RequestsOK ==
    /\ pc \in [Requests -> {"idle"} \cup RegisterSteps \cup AuthSteps]
    /\ req \in [Requests -> {Null} \cup RegisterCalls \cup Messages]
    /\ local \in [Requests -> LocalType]
    /\ reply \in [to : Requests \cup {Null}, status : Statuses]
    /\ \A r \in Requests :
        /\ pc[r] \in RegisterSteps => req[r] \in RegisterCalls
        /\ pc[r] \in AuthSteps => req[r] \in Messages
        /\ pc[r] \in {"accept", "store"} => local[r].client # Null

HistoryOK ==
    /\ issued \subseteq Ids
    /\ retired \subseteq issued
    /\ bound \in [Ids -> Keys \cup {Null}]
    /\ accepted \subseteq Messages
    /\ entitled \in [Requests -> BOOLEAN]

\* Every variable keeps its type; a request in flight is a register call on the
\* steps of register and a signed message on those of authenticate.
TypeOK == DataOK /\ RequestsOK /\ HistoryOK

-----------------------------------------------------------------------------
(* What must hold *)

\* In registered mode every registration belongs to a client in the table:
\* open checks and inserts in one critical section, remove_client removes both.
RegistrationsHaveClients ==
    Mode = "registered" =>
        \A id \in Ids : registrations[id] # Null =>
            clients[registrations[id].client] # Null

\* Whatever add_client and remove_client do while a request is in flight, it
\* passes authenticate only if its registration was complete and its key the
\* client's accepted key at some time since the request came.
PassedWasEntitled ==
    \A r \in Requests :
        Mode = "registered" /\ pc[r] \in {"verify", "commit", "handler"} => entitled[r]

\* Replay protection: while a message's timestamp is inside the window it is
\* accepted at most once, whatever handlers run between the lookup, the clock
\* read that gives the cutoff and the critical section that uses it, and also
\* across a restart, which forgets every signature.
AtMostOnceInWindow ==
    [][\A r \in Requests :
          /\ pc[r] = "commit" /\ pc'[r] = "handler"
          /\ clock <= req[r].ts + TimestampWindow
          => req[r] \notin accepted]_vars

\* "Replay protection" (README.md:4) read as it stands: no signed message is
\* ever accepted twice.
NeverAcceptedTwice ==
    [][\A r \in Requests :
          pc[r] = "commit" /\ pc'[r] = "handler" => req[r] \notin accepted]_vars

\* The replay check refuses a verified request only if that very message was
\* accepted before: racing requests do not knock each other out.
RefusedOnlyIfAccepted ==
    [][\A r \in Requests :
          pc[r] = "commit" /\ reply' = [to |-> r, status |-> "Unauthorized"]
          => req[r] \in accepted]_vars

\* Of the register calls that race for a registration one wins: a registration
\* never changes the key it was completed with.
KeyNeverRebound ==
    [][\A id \in Ids :
          /\ registrations[id] # Null /\ registrations[id].key # Null
          /\ registrations'[id] # Null
          => registrations'[id].key = registrations[id].key]_vars

\* A registration that was removed with its client, expired or lost in a
\* restart never comes back, also when a register call for it is in flight.
DroppedStaysDropped ==
    [][\A id \in issued :
          registrations[id] = Null => registrations'[id] = Null]_vars

\* No sequence of requests removes the administrator from the client table.
AdministratorKept ==
    [][clients[Administrator] # Null => clients'[Administrator] # Null]_vars

\* r answers an add_client or remove_client of the administrator, whose registration
\* has been good since the request came, and changes the entry it names and no other.
EditsClients(r) ==
    /\ pc[r] = "handler" /\ local[r].client = Administrator /\ entitled[r]
    /\ reply' = [to |-> r, status |-> "NoContent"]
    /\ LET op == req[r].op IN
       \/ op.name = "addClient" /\ clients' = [clients EXCEPT ![op.client] = op.key]
       \/ op.name = "removeClient" /\ clients' = [clients EXCEPT ![op.client] = Null]

\* Only a restart changes the client table, or the very step that answers the
\* administrator's add_client or remove_client: whoever else is in flight, and
\* whatever became of registrations and clients since a request was let in.
OnlyAdministratorEdits ==
    [][clients' # clients => Restart \/ \E r \in Requests : EditsClients(r)]_vars

\* last_use is written from a clock read taken outside the lock, under another
\* critical section than the one that found the registration; it still lies
\* between the registration's creation and now.
LastUseAfterCreation ==
    \A id \in Ids :
        registrations[id] # Null /\ registrations[id].lastUse # Null =>
            /\ registrations[id].key # Null
            /\ registrations[id].created <= registrations[id].lastUse
            /\ registrations[id].lastUse <= clock

\* Every request in flight is answered, or the process restarts.
EveryRequestEnds == \A r \in Requests : pc[r] # "idle" ~> pc[r] = "idle"

-----------------------------------------------------------------------------
(* Refinement *)

\* A registration in the table was issued by this process and carries the key
\* its id is bound to; an id not yet drawn is bound to nothing.
BoundOK ==
    \A id \in Ids :
        /\ registrations[id] # Null =>
               /\ id \in issued \ retired
               /\ registrations[id].key = bound[id]
        /\ id \notin issued => bound[id] = Null

\* What a request carries from one critical section to the next stays true: the
\* binding of its id, although the registration may be gone, and that the clock
\* it read is not ahead of the clock.
CarriedOK ==
    \A r \in Requests :
        /\ pc[r] \in {"verify", "commit"} => req[r].id \in issued \ retired
        /\ pc[r] = "verify" => local[r].key # Null /\ local[r].key = bound[req[r].id]
        /\ pc[r] = "commit" => req[r].key = bound[req[r].id] /\ local[r].now <= clock

\* An accepted message that could still pass the window check is in the cache,
\* unless its registration died with an earlier process.
Remembered ==
    \A m \in accepted :
        /\ m.id \in issued
        /\ m.id \in retired \/ m \in signatures \/ clock > m.ts + TimestampWindow

\* The inductive invariant behind ContractSpec.
ContractInv == BoundOK /\ CarriedOK /\ Remembered

Contract == INSTANCE AuthContract

\* AuthState, with its locks and its clock reads, implements AuthContract.
ContractSpec == Contract!ContractSpecification
=============================================================================
