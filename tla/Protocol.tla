------------------------------ MODULE Protocol ------------------------------
(***************************************************************************)
(* Keys, grants and operations (routes/protocol.rs, routes/grants.rs,      *)
(* routes/bbs.rs).                                                         *)
(*                                                                         *)
(* The key store and the grant policies are two tables under two RwLocks.  *)
(* A handler takes a lock for one look or one write and gives it back, and *)
(* never holds both: between the check of a grant and what the grant was   *)
(* needed for, any other handler may run.  Every critical section is one   *)
(* action; call[r] is the request in slot r and pc[r] its next section.    *)
(*                                                                         *)
(*   create   "create" -> "grantUri" -> "grantScope"                       *)
(*   delete   "delete" -> "remove"                                         *)
(*   resolve  "resolve" -> "read"                                          *)
(*   execute  "execute" -> "load" -> "issue", or "execute" -> "setup"      *)
(*   list     "list" -> "show"                                             *)
(*   scopes   "scopes"                                                     *)
(*   replace  "replace" -> "permit" -> "write"                             *)
(*                                                                         *)
(* A call arrives with the context authenticate gave it: its caller, or    *)
(* Null in mode none.  Malformed bodies are refused before any state is    *)
(* read and are not modelled, except those that execute finds only after   *)
(* it has checked the grant (valid).                                       *)
(***************************************************************************)
EXTENDS Naturals, FiniteSets, KeyNames

CONSTANTS
    Clients, Administrator,
    Mode,           \* SIGNING_AUTH_MODE
    Names,          \* what create may be asked for: a namespace and a key id
    Pairs,          \* BBS key pairs generate_keypair may draw (bounds create)
    Calls,          \* the calls that may arrive, and arrive again
    Requests,       \* slots for calls in flight (bounds concurrency)
    Null

SigningPurposes == {"key-management", "signing", "operations", "decrypt", "read"}

Routes == {"create", "delete", "resolve", "execute", "list", "scopes", "replace"}

Operations == {"issuance", "setup", "unknown"}

KeyIds == {EffectiveKeyId(n.namespace, n.name) : n \in Names}

Scopes ==
    {KeyUri(id) : id \in KeyIds} \cup {KeyScope(KeyUri(id)) : id \in KeyIds}
        \cup {OpScope("setup")}

\* A policy is a set of grants: neither their order nor repetition matters.
Grant == [client : Clients, purposes : SUBSET SigningPurposes]

\* key is create's argument; uri the key URI or the scope of the other routes,
\* Null for an execute without keyUri; grants is replace's argument; valid says
\* whether create's algorithm, or execute's input, is what it should be.
Call ==
    [route : Routes, caller : Clients \cup {Null}, key : Names,
     uri : Scopes \cup {Null}, operation : Operations, grants : SUBSET Grant,
     valid : BOOLEAN]

ASSUME ProtocolAssumption ==
    /\ Mode \in {"none", "registered"}
    /\ Administrator \in Clients
    /\ Null \notin Clients /\ Null \notin KeyIds /\ Null \notin Pairs
    /\ Null \notin Scopes /\ Null \notin Calls
    /\ Calls \subseteq Call
    /\ \A q \in Calls :
        /\ q.caller = Null <=> Mode = "none"
        /\ q.route # "execute" => q.uri # Null

VARIABLES
    keys,           \* bbs.rs KEYS: the pair of each live key
    policies,       \* grants.rs GRANTS: a policy for each scope in its domain
    pc, call,       \* the calls in flight
    local,          \* the pair a create drew, or the halves an execute cloned
    reply,          \* the answer the last step sent, if it sent one
    \* History, read by no handler:
    born,           \* the key id each pair was drawn for: pairs do not repeat
    retired,        \* the pairs drawn before the last restart
    credentials,    \* the credentials issued
    entitled        \* has r's caller been permitted r at some time since r came?

tables == <<keys, policies>>
history == <<born, retired, credentials>>
vars == <<keys, policies, pc, call, local, reply, born, retired, credentials, entitled>>

-----------------------------------------------------------------------------
(* Helpers *)

Blank == [public |-> Null, secret |-> Null]
Silent == [to |-> Null, status |-> "Silent"]

Goto(r, step) ==
    /\ pc' = [pc EXCEPT ![r] = step]
    /\ reply' = Silent
    /\ UNCHANGED call

Answer(r, status) ==
    /\ pc' = [pc EXCEPT ![r] = "idle"]
    /\ call' = [call EXCEPT ![r] = Null]
    /\ local' = [local EXCEPT ![r] = Blank]
    /\ reply' = [to |-> r, status |-> status]

IsAdmin(caller) == Mode = "none" \/ caller = Administrator

PolicyIn(table, scope) == IF scope \in DOMAIN table THEN table[scope] ELSE {}

\* require_any and require, on a given state of the policies.
HasAny(table, client, scope) ==
    \E grant \in PolicyIn(table, scope) : grant.client = client

Has(table, client, scope, purpose) ==
    \E grant \in PolicyIn(table, scope) :
        grant.client = client /\ purpose \in grant.purposes

\* The handlers check grants only for a caller: in mode none there is none.
MayAny(caller, scope) == caller = Null \/ HasAny(policies, caller, scope)
May(caller, scope, purpose) == caller = Null \/ Has(policies, caller, scope, purpose)

SetPolicy(scope, policy) ==
    policies' = [s \in DOMAIN policies \cup {scope} |->
                    IF s = scope THEN policy ELSE policies[s]]

\* What the routes ask of a caller, in one look at the policies.
Permitted(table, q) ==
    CASE q.route = "create" -> IsAdmin(q.caller)
      [] q.route = "delete" ->
            /\ IsAdmin(q.caller)
            /\ q.caller = Null \/ Has(table, q.caller, q.uri, "key-management")
      [] q.route \in {"resolve", "list"} ->
            q.caller = Null \/ HasAny(table, q.caller, q.uri)
      [] q.route = "execute" ->
            LET scope == IF q.operation = "setup" THEN OpScope("setup") ELSE q.uri IN
            q.caller = Null \/ Has(table, q.caller, scope, "operations")
      [] q.route = "scopes" -> IsAdmin(q.caller)
      [] q.route = "replace" ->
            \/ q.caller = Null
            \/ IF q.uri \in DOMAIN table
               THEN Has(table, q.caller, q.uri, "key-management")
               ELSE IsAdmin(q.caller)

\* r was permitted in a state no older than r's arrival.
Observe ==
    entitled' = [r \in Requests |->
        /\ pc'[r] # "idle"
        /\ entitled[r] \/ Permitted(policies', call'[r])]

Init ==
    /\ keys = [id \in KeyIds |-> Null]
    /\ policies = [s \in {} |-> {}]
    /\ pc = [r \in Requests |-> "idle"]
    /\ call = [r \in Requests |-> Null]
    /\ local = [r \in Requests |-> Blank]
    /\ reply = Silent
    /\ born = [pair \in Pairs |-> Null]
    /\ retired = {}
    /\ credentials = {}
    /\ entitled = [r \in Requests |-> FALSE]

\* The environment asks for a key only while a pair is left for it.
PairLeft ==
    Cardinality({r \in Requests : pc[r] = "create"})
        < Cardinality({pair \in Pairs : born[pair] = Null})

Arrive(r, q) ==
    /\ pc[r] = "idle"
    /\ q.route = "create" => PairLeft
    /\ pc' = [pc EXCEPT ![r] = q.route]
    /\ call' = [call EXCEPT ![r] = q]
    /\ reply' = Silent
    /\ UNCHANGED <<tables, local, history>>
    /\ Observe

-----------------------------------------------------------------------------
(* create and delete *)

\* BUG: the store is not asked whether the id is taken.
FreeUnchecked(id) == TRUE

Free(id) == keys[id] = Null

\* BUG: a create of an id that is taken waits until it is free.
CreateWaits(r) ==
    LET id == EffectiveKeyId(call[r].key.namespace, call[r].key.name) IN
    /\ pc[r] = "create"
    /\ Free(id)
    /\ \E pair \in Pairs :
        /\ born[pair] = Null
        /\ keys' = [keys EXCEPT ![id] = pair]
        /\ born' = [born EXCEPT ![pair] = id]
    /\ Answer(r, "Created")
    /\ UNCHANGED <<policies, retired, credentials>>
    /\ Observe

\* bbs::create: the look and the insertion are one critical section.
Create(r) ==
    LET q == call[r]
        id == EffectiveKeyId(q.key.namespace, q.key.name)
    IN
    /\ pc[r] = "create"
    /\ \/ /\ ~IsAdmin(q.caller)
          /\ Answer(r, "Forbidden")
          /\ UNCHANGED <<keys, born>>
       \/ /\ IsAdmin(q.caller)
          /\ ~q.valid \/ ~Free(id)
          /\ Answer(r, "InternalServerError")
          /\ UNCHANGED <<keys, born>>
       \/ /\ IsAdmin(q.caller) /\ q.valid /\ Free(id)
          /\ \E pair \in Pairs :
                /\ born[pair] = Null
                /\ keys' = [keys EXCEPT ![id] = pair]
                /\ born' = [born EXCEPT ![pair] = id]
                /\ \/ /\ q.caller = Null
                      /\ Answer(r, "Created")
                   \/ /\ q.caller # Null
                      /\ local' = [local EXCEPT ![r].public = pair]
                      /\ Goto(r, "grantUri")
    /\ UNCHANGED <<policies, retired, credentials>>
    /\ Observe

CreatorPolicy(r) == {[client |-> call[r].caller, purposes |-> {"key-management"}]}

\* BUG: the creator's policy is written to its keychain only.
InitialiseScopeOnly(scope, policy) ==
    IF scope \in DOMAIN policies \/ Head(scope) = Scheme
    THEN UNCHANGED policies ELSE SetPolicy(scope, policy)

\* grants::initialise: a policy the scope already has stays as it is.
Initialise(scope, policy) ==
    IF scope \in DOMAIN policies THEN UNCHANGED policies ELSE SetPolicy(scope, policy)

GrantUri(r) ==
    LET uri == KeyUri(EffectiveKeyId(call[r].key.namespace, call[r].key.name)) IN
    /\ pc[r] = "grantUri"
    /\ Initialise(uri, CreatorPolicy(r))
    /\ Goto(r, "grantScope")
    /\ UNCHANGED <<keys, local, history>>
    /\ Observe

GrantScope(r) ==
    LET uri == KeyUri(EffectiveKeyId(call[r].key.namespace, call[r].key.name)) IN
    /\ pc[r] = "grantScope"
    /\ Initialise(KeyScope(uri), CreatorPolicy(r))
    /\ Answer(r, "Created")
    /\ UNCHANGED <<keys, history>>
    /\ Observe

Delete(r) ==
    LET q == call[r]
        permitted == IsAdmin(q.caller) /\ May(q.caller, q.uri, "key-management")
    IN
    /\ pc[r] = "delete"
    /\ \/ ~permitted /\ Answer(r, "Forbidden")
       \/ permitted /\ Goto(r, "remove") /\ UNCHANGED local
    /\ UNCHANGED <<tables, history>>
    /\ Observe

\* bbs::delete: the policies of the key stay.
Remove(r) ==
    LET id == KeyId(call[r].uri) IN
    /\ pc[r] = "remove"
    /\ \/ /\ id \notin KeyIds \/ keys[id] = Null
          /\ Answer(r, "NotFound")
          /\ UNCHANGED keys
       \/ /\ id \in KeyIds /\ keys[id] # Null
          /\ keys' = [keys EXCEPT ![id] = Null]
          /\ Answer(r, "NoContent")
    /\ UNCHANGED <<policies, history>>
    /\ Observe

-----------------------------------------------------------------------------
(* resolve and execute *)

Resolve(r) ==
    LET permitted == MayAny(call[r].caller, call[r].uri) IN
    /\ pc[r] = "resolve"
    /\ \/ ~permitted /\ Answer(r, "Forbidden")
       \/ permitted /\ Goto(r, "read") /\ UNCHANGED local
    /\ UNCHANGED <<tables, history>>
    /\ Observe

Read(r) ==
    LET id == KeyId(call[r].uri)
        found == id \in KeyIds /\ keys[id] # Null
    IN
    /\ pc[r] = "read"
    /\ Answer(r, IF found THEN "Ok" ELSE "NotFound")
    /\ UNCHANGED <<tables, history>>
    /\ Observe

\* The checks of protocol::execute, and the input bbs::execute reads first.
Execute(r) ==
    LET q == call[r]
        keyless == q.operation = "setup"
        scope == IF keyless THEN OpScope("setup") ELSE q.uri
        supported == q.operation # "unknown"
        named == IF keyless THEN q.uri = Null ELSE q.uri # Null
    IN
    /\ pc[r] = "execute"
    /\ \/ ~supported /\ Answer(r, "NotImplemented")
       \/ supported /\ ~named /\ Answer(r, "BadRequest")
       \/ supported /\ named /\ ~May(q.caller, scope, "operations") /\ Answer(r, "Forbidden")
       \/ /\ supported /\ named /\ May(q.caller, scope, "operations")
          /\ \/ ~q.valid /\ Answer(r, "InternalServerError")
             \/ q.valid /\ Goto(r, IF keyless THEN "setup" ELSE "load") /\ UNCHANGED local
    /\ UNCHANGED <<tables, history>>
    /\ Observe

\* execute_keyless: generate_circuits keeps nothing.  It returns no Result: if it
\* fails on a circuit id it does not know it panics, which Rocket answers with 500.
Setup(r) ==
    /\ pc[r] = "setup"
    /\ Answer(r, "Ok") \/ Answer(r, "InternalServerError")
    /\ UNCHANGED <<tables, history>>
    /\ Observe

\* BUG: a key that is not there is cloned as well.
LoadUnchecked(r) ==
    LET id == KeyId(call[r].uri) IN
    /\ pc[r] = "load"
    /\ local' = [local EXCEPT ![r] = [public |-> keys[id], secret |-> keys[id]]]
    /\ Goto(r, "issue")
    /\ UNCHANGED <<tables, history>>
    /\ Observe

\* BUG: only the public half is cloned before the await.
LoadPublic(r) ==
    LET id == KeyId(call[r].uri)
        found == id \in KeyIds /\ keys[id] # Null
    IN
    /\ pc[r] = "load"
    /\ \/ ~found /\ Answer(r, "InternalServerError")
       \/ /\ found
          /\ local' = [local EXCEPT ![r].public = keys[id]]
          /\ Goto(r, "issue")
    /\ UNCHANGED <<tables, history>>
    /\ Observe

\* Both halves are cloned in one critical section, before the await.
Load(r) ==
    LET id == KeyId(call[r].uri)
        found == id \in KeyIds /\ keys[id] # Null
    IN
    /\ pc[r] = "load"
    /\ \/ ~found /\ Answer(r, "InternalServerError")
       \/ /\ found
          /\ local' = [local EXCEPT ![r] = [public |-> keys[id], secret |-> keys[id]]]
          /\ Goto(r, "issue")
    /\ UNCHANGED <<tables, history>>
    /\ Observe

\* BUG: the secret half is fetched only after the await.
IssueLate(r) ==
    LET id == KeyId(call[r].uri) IN
    /\ pc[r] = "issue"
    /\ keys[id] # Null
    /\ credentials' = credentials \cup
           {[id |-> id, public |-> local[r].public, secret |-> keys[id]]}
    /\ Answer(r, "Ok")
    /\ UNCHANGED <<tables, born, retired>>
    /\ Observe

\* zkp::issue signs with what was cloned, or fails on the claims.
Issue(r) ==
    /\ pc[r] = "issue"
    /\ \/ /\ credentials' = credentials \cup
                 {[id |-> KeyId(call[r].uri),
                   public |-> local[r].public, secret |-> local[r].secret]}
          /\ Answer(r, "Ok")
       \/ /\ Answer(r, "InternalServerError")
          /\ UNCHANGED credentials
    /\ UNCHANGED <<tables, born, retired>>
    /\ Observe

-----------------------------------------------------------------------------
(* The grant policies *)

List(r) ==
    LET permitted == MayAny(call[r].caller, call[r].uri) IN
    /\ pc[r] = "list"
    /\ \/ ~permitted /\ Answer(r, "Forbidden")
       \/ permitted /\ Goto(r, "show") /\ UNCHANGED local
    /\ UNCHANGED <<tables, history>>
    /\ Observe

Show(r) ==
    /\ pc[r] = "show"
    /\ Answer(r, "Ok")
    /\ UNCHANGED <<tables, history>>
    /\ Observe

ListScopes(r) ==
    /\ pc[r] = "scopes"
    /\ Answer(r, IF IsAdmin(call[r].caller) THEN "Ok" ELSE "Forbidden")
    /\ UNCHANGED <<tables, history>>
    /\ Observe

\* BUG: a caller that is not the administrator may open a policy.
ReplaceOpen(r) ==
    /\ pc[r] = "replace"
    /\ Goto(r, IF call[r].caller # Null /\ call[r].uri \in DOMAIN policies
               THEN "permit" ELSE "write")
    /\ UNCHANGED <<tables, local, history>>
    /\ Observe

\* has_policy decides which right is asked for.
Replace(r) ==
    LET q == call[r]
        has == q.uri \in DOMAIN policies
    IN
    /\ pc[r] = "replace"
    /\ \/ /\ q.caller # Null /\ has
          /\ Goto(r, "permit") /\ UNCHANGED local
       \/ /\ q.caller # Null /\ ~has /\ ~IsAdmin(q.caller)
          /\ Answer(r, "Forbidden")
       \/ /\ q.caller = Null \/ (~has /\ IsAdmin(q.caller))
          /\ Goto(r, "write") /\ UNCHANGED local
    /\ UNCHANGED <<tables, history>>
    /\ Observe

Permit(r) ==
    LET permitted == May(call[r].caller, call[r].uri, "key-management") IN
    /\ pc[r] = "permit"
    /\ \/ ~permitted /\ Answer(r, "Forbidden")
       \/ permitted /\ Goto(r, "write") /\ UNCHANGED local
    /\ UNCHANGED <<tables, history>>
    /\ Observe

Write(r) ==
    /\ pc[r] = "write"
    /\ SetPolicy(call[r].uri, call[r].grants)
    /\ Answer(r, "NoContent")
    /\ UNCHANGED <<keys, history>>
    /\ Observe

-----------------------------------------------------------------------------
\* The process ends and is started again: both tables live in its memory only.
Restart ==
    /\ keys' = [id \in KeyIds |-> Null]
    /\ policies' = [s \in {} |-> {}]
    /\ pc' = [r \in Requests |-> "idle"]
    /\ call' = [r \in Requests |-> Null]
    /\ local' = [r \in Requests |-> Blank]
    /\ reply' = Silent
    /\ retired' = {pair \in Pairs : born[pair] # Null}
    /\ UNCHANGED <<born, credentials>>
    /\ Observe

Handle(r) ==
    \/ Create(r) \/ GrantUri(r) \/ GrantScope(r)
    \/ Delete(r) \/ Remove(r)
    \/ Resolve(r) \/ Read(r)
    \/ Execute(r) \/ Setup(r) \/ Load(r) \/ Issue(r)
    \/ List(r) \/ Show(r) \/ ListScopes(r)
    \/ Replace(r) \/ Permit(r) \/ Write(r)

Next ==
    \/ \E r \in Requests : (\E q \in Calls : Arrive(r, q)) \/ Handle(r)
    \/ Restart

Spec == Init /\ [][Next]_vars

\* Rocket runs every handler it has started to its end.
FairSpec == Spec /\ \A r \in Requests : WF_vars(Handle(r))

-----------------------------------------------------------------------------
(* Types *)

Steps ==
    Routes \cup {"grantUri", "grantScope", "remove", "read", "load", "issue", "setup",
                 "show", "permit", "write"}

Statuses ==
    {"Silent", "Ok", "Created", "NoContent", "BadRequest", "Forbidden", "NotFound",
     "NotImplemented", "InternalServerError"}

\* The steps each route goes through.
RouteOf(step) ==
    CASE step \in {"create", "grantUri", "grantScope"} -> "create"
      [] step \in {"delete", "remove"} -> "delete"
      [] step \in {"resolve", "read"} -> "resolve"
      [] step \in {"execute", "load", "issue", "setup"} -> "execute"
      [] step \in {"list", "show"} -> "list"
      [] step = "scopes" -> "scopes"
      [] OTHER -> "replace"

TablesOK ==
    /\ keys \in [KeyIds -> Pairs \cup {Null}]
    /\ DOMAIN policies \subseteq Scopes
    /\ policies \in [DOMAIN policies -> SUBSET Grant]

RequestsOK ==
    /\ pc \in [Requests -> {"idle"} \cup Steps]
    /\ call \in [Requests -> {Null} \cup Calls]
    /\ local \in [Requests -> [public : Pairs \cup {Null}, secret : Pairs \cup {Null}]]
    /\ reply \in [to : Requests \cup {Null}, status : Statuses]
    /\ \A r \in Requests :
        pc[r] # "idle" => call[r] \in Calls /\ call[r].route = RouteOf(pc[r])

HistoryOK ==
    /\ born \in [Pairs -> KeyIds \cup {Null}]
    /\ retired \subseteq Pairs
    /\ credentials \subseteq [id : KeyIds, public : Pairs, secret : Pairs]
    /\ entitled \in [Requests -> BOOLEAN]

\* Every variable keeps its type, and a call stays on the steps of its route.
TypeOK == TablesOK /\ RequestsOK /\ HistoryOK

-----------------------------------------------------------------------------
(* What must hold *)

EffectSteps ==
    {"grantUri", "grantScope", "remove", "read", "load", "issue", "setup", "show", "write"}

\* However grants are replaced and keys deleted and created again while a call
\* is in flight, it acts only if its caller was permitted the call at some time
\* since it came: the policies may have changed between the checks and the act,
\* but never was there no moment at which the checks held together.
ActedWasPermitted ==
    \A r \in Requests : pc[r] \in EffectSteps => entitled[r]

\* A key made for a client has an entry of its own in the policy table once the
\* create that drew it has passed that point, and its keychain one once it is
\* answered, whatever is deleted, created and replaced meanwhile.  What the entries
\* allow is another matter: replace may have emptied one, and initialise keeps it.
KeysHavePolicies ==
    \A id \in KeyIds :
        (Mode = "registered" /\ keys[id] # Null) =>
            LET At(step) == \E r \in Requests : pc[r] = step /\ local[r].public = keys[id]
            IN  /\ At("grantUri") \/ KeyUri(id) \in DOMAIN policies
                /\ At("grantUri") \/ At("grantScope")
                   \/ KeyScope(KeyUri(id)) \in DOMAIN policies

\* Every call in flight is answered, or the process restarts.
EveryRequestEnds == \A r \in Requests : pc[r] # "idle" ~> pc[r] = "idle"

-----------------------------------------------------------------------------
(* What TypeOK, KeysHavePolicies and ContractSpec rest on *)

\* A live key is where it was drawn for, and was drawn by this process.
BornOK ==
    /\ \A id \in KeyIds :
          keys[id] # Null => born[keys[id]] = id /\ keys[id] \notin retired
    /\ \A pair \in retired : born[pair] # Null

\* A create carries the pair it drew, an issuance both halves of the pair that
\* was live when it looked, whatever has become of the key.
CarriedOK ==
    \A r \in Requests :
        /\ pc[r] \in {"grantUri", "grantScope"} =>
              /\ call[r].caller # Null
              /\ local[r].public \in Pairs
              /\ born[local[r].public] =
                    EffectiveKeyId(call[r].key.namespace, call[r].key.name)
        /\ pc[r] = "issue" =>
              /\ KeyId(call[r].uri) \in KeyIds
              /\ local[r].public \in Pairs \ retired
              /\ local[r].secret = local[r].public
              /\ born[local[r].public] = KeyId(call[r].uri)

\* The inductive invariant.
StoreInv == TypeOK /\ BornOK /\ CarriedOK

-----------------------------------------------------------------------------
(* Refinement *)

Contract == INSTANCE KeyContract

\* The key store, with its locks and the grants around it, implements
\* KeyContract: live keys are never overwritten, and a credential is signed with
\* the two halves of one pair, drawn by this process for the key id it names.
ContractSpec == Contract!ContractSpecification
=============================================================================
