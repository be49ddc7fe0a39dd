# A formal model of the next-gen signing service

TLA+ modules, TLC runs and TLAPS proofs about the services in this repository:
the signing service (`src/next-gen-signing-service`) and the library under it
(`src/next-gen-signatures`). Paths below are relative to the repository; `auth.rs`,
`routes/...` and `models/...` are files of the signing service, `crypto/...` files
of the library.

## 1. The system

One Rocket process. Everything it knows is in its memory: there is no database, and
a restart forgets it all. Handlers of concurrent requests run on a pool of threads
and meet in three tables.

| Component | State it keeps | Operations |
|---|---|---|
| Registration and request authentication (`auth.rs`, `routes/auth.rs`) | `AuthData` under one `Mutex`: client table, registrations, used signatures | `open`, `register`, `authenticate` (a request guard of every other v1 route), `clients`, `add_client`, `remove_client` |
| Grant policies (`routes/grants.rs`) | `GRANTS` under an `RwLock`: a list of grants for each scope | `has_policy`, `require_any`, `require`, `initialise`; routes `list`, `scopes`, `replace` |
| Key store and operations (`routes/bbs.rs`) | `KEYS` under an `RwLock`: a BBS key pair for each key id | `create`, `resolve`, `delete`, `execute` (issuance), `execute_keyless` (circuit setup) |
| v1 routes (`routes/protocol.rs`, `models/protocol.rs`) | none | check grants, then call the key store |
| Credentials and presentations (`routes/zkp.rs`, `crypto/zkp.rs`) | none | `gen_keypair`, `issue`, `gen_proving_keys`, `present`, `verify` |
| BBS+ and ML-DSA providers (`crypto/bbs.rs`, `crypto/fips204.rs`, `macros.rs`) | none | key generation, sign, verify, proofs of knowledge |
| Comparator circuits (`circom/circuits`) | none | constraints for `<`, `<=`, `>`, `>=`, `=` |
| Assembly (`main.rs`, the request guards of `auth.rs`) | none | mounts the routes; a guard authenticates, parses the body and hands it with an `AuthContext` to the route |
| Byte encodings (`encoding.rs`, `models/common.rs`) | none | Base64 of byte strings |

How they interact:

- `SignedRequest` and `SignedBody` call `authenticate` before a v1 handler runs. The
  handler gets an `AuthContext` (client name, mode, administrator): a copy, which no
  later change of the client table reaches.
- A v1 key route checks the policies under one lock and uses the key table under
  another. It holds neither while it uses the other, and issuance awaits
  (`zkp::issue`) with a clone of the key pair.
- `create` writes into both tables, one after the other.
- The `/zkp` routes are given everything as input: their callers carry credentials,
  circuit keys and presentations from one route to the next.

What is hard about it:

- every handler that checks and then acts does so in two or more critical sections;
- `authenticate` reads the clock twice, outside the lock, and uses the second value
  inside it;
- a restart forgets used signatures while signed requests are still valid;
- names outlive what they name: policies go by URI, and a key can be deleted and
  created again under its URI;
- a signature is used up before its body is parsed and before its grant is checked;
- panics and absent options in the stateless routes, which the tests do not meet;
- what callers pass from one stateless route to the next: keys under one nonce, messages
  under another, requirements that three copies of one conversion must agree on;
- in the circuits, arithmetic that wraps around the field and witnesses that no honest
  prover computes.

PROJECT.json lists each of these hazards at its line, with the property that watches
it or the reason why none does.

## 2. Modules

| Module | What it is |
|---|---|
| `AuthContract` | What authentication promises, without locks, tables or requests in flight |
| `Auth` | `auth.rs` and `routes/auth.rs` |
| `MCAuth`, `auth_*.cfg` | Instances of `Auth` for TLC |
| `AuthProofs` | Theorems: types, the inductive invariant, replay protection, the contract |
| `AuthClientProofs` | Theorems: registrations, the client table, the administrator, last uses |
| `KeyNames` | How key ids, key URIs and scopes are named |
| `KeyContract` | What the key store promises |
| `Protocol` | `routes/protocol.rs`, `routes/grants.rs` and `routes/bbs.rs` together |
| `MCProtocol`, `protocol_*.cfg` | Instances of `Protocol` |
| `ProtocolProofs` | Theorems: types, the inductive invariant, grants, policies, the contract, names |
| `Service` | `Auth` and `Protocol` together, as the request guards join them |
| `MCService`, `service.cfg` | An instance of `Service` |
| `ServiceProofs` | Theorems: the service implements both, and runs a signature once |
| `ServiceEffectsProofs` | Theorems: what a route body does was signed and granted; types |
| `Providers` | `macros.rs`, `crypto/bbs.rs`, `crypto/fips204.rs` and `routes/bbs_plus.rs` |
| `MCProviders`, `providers*.cfg` | Instances of `Providers` |
| `ProvidersProofs` | Theorem: honest callers get a yes |
| `Zkp` | `routes/zkp.rs` and `crypto/zkp.rs` |
| `MCZkp`, `zkp_*.cfg` | Instances of `Zkp` |
| `ZkpProofs` | Theorems: what a verifier may rely on, and that an honest holder is not refused |
| `Comparators`, `comparators.cfg` | `circom/circuits/comparators.circom` |
| `ComparatorsProofs` | Theorems: what the templates compute, in every prime field |

### Auth

`clients`, `registrations` and `signatures` are the fields of `AuthData`. `clock` is
what `now_ms` returns. A request in flight is a slot `r`: `pc[r]` is the critical
section or clock read it runs next, `req[r]` what it carries, `local[r]` the values it
took out of a critical section. Each critical section is one action, because the lock
makes it one; each clock read outside the lock is part of the action before the next
critical section. So other requests run exactly where the code lets them:

    register      ReadRegistration, CheckAcceptance, StoreKey
    authenticate  Authenticate (window and purpose), LookUp, Verify (and the clock
                  read for the cutoff), Commit (purge, replay check, insertion)
    then          AddClient, RemoveClient or ServeOther with the carried client

`open` is one critical section, so one action, split by its two answers
(`OpenExisting`, `OpenNew`). In `open` the expired registrations go also when the
answer is an old one. Its clock read is inside the lock.

Abstractions. The psk is drawn with the registration id and never changes, so the id
stands for both. A signed message stands for its signature string: Ed25519ph is
deterministic, so two requests with equal content have the same signature and the
cache cannot tell them apart; that they are the same element here is the code's
behaviour. `m.key` is the key the signature verifies under. Malformed input is
answered before any state is read, and is left out. The last five variables are
history and appear in no guard.

The environment ticks the clock and restarts the process. The clock is assumed not to
be set back; the code cannot notice when it is.

### AuthContract and the refinement

Five variables: `clock`, the ids `issued`, those `retired` by a restart, the key each
id is `bound` to, and the messages `accepted`. A message is accepted only if its id was
issued by the running process and is bound to the key that signed it, and, inside its
window, only once. `Auth!ContractSpec` says that `Auth` implements it; the refinement
mapping is the identity on the history variables, which `Auth` updates where the code
takes the corresponding decision: in `OpenNew`, `StoreKey`, `Commit` and `Restart`.

### Protocol

`keys` and `policies` are the two tables, `call[r]`, `pc[r]` and `local[r]` the requests
in flight, one action per critical section as above. A policy is a set of grants: the
code only asks whether some grant has a client and a purpose, so order and repetition
do not show. A call comes with the caller that `authenticate` gave it, or `Null` in mode
none. What the routes refuse before they read any state is left out; what `execute`
refuses only after it has checked the grant is kept (`valid`).

`KeyNames` works on the segments of a name instead of its characters. `KeyContract`
speaks of key ids, pairs and credentials only; `Protocol!ContractSpec` is the
refinement.

### Service

A signed request is one future. `SignedBody` or `SignedRequest` runs `authenticate`; the
route body runs with what came of it. `Service` extends `Auth` and takes `Protocol` as an
instance over the same slots (`P == INSTANCE Protocol WITH pc <- keyPc, ...`):

    Guard(r)       a critical section of register, authenticate or a route of auth.rs
    Dispatch(r)    the guard lets r through: Protocol's Arrive, with the call that
                   the message carries (Route) and the client the lookup found (CallOf)
    RouteBody(r)   a critical section of the route; with its answer the slot is free
    Unreadable(r)  the body of an accepted request does not parse: it is answered, and
                   its signature is used up all the same
    Stop           both halves forget everything, together

While a slot is in its route body, `Auth` sees it in its step "handler" and `Protocol`
sees a call in flight; other slots authenticate, change clients and replace grants in
between. `AuthSpec` and `ProtocolSpec` say that the service implements each half: the
refinement mappings hide the other half's variables. So what is shown of `Auth` and of
`Protocol` on their own, for every call with a caller, holds of the service. `Service`
adds one history variable, the messages `dispatched`.

### Providers

The state is what `keypair`, `sign` and `pok/create` have handed out. Any of it may be
sent, with any nonce, messages, counts and indexes, to the routes of any provider of the
same family; keys and signatures of the other family are not. The routes unwrap most
errors, and where they do the answer is "Panicked": Rocket's 500, with nothing held or half
done. `Content` is what is signed: for BBS+ numbers, read little endian from the bytes, so
that bytes of zero at the end do not count. `SeedLength` is the number of bytes the
generator of the secret key is given. Which signature and which proof of knowledge verifies is
the business of `bbs_plus` and `fips204`, outside the repository: `Accepts` and `Proves` say
what their callers rely on. `pok/verify` passes the caller's indexes and `message_count` on and
compares them with nothing; when they are not those of the proof (`Fits`), both answers are
allowed. So the model says nothing of what a yes to such a call means.

### Zkp

The routes keep nothing, so the state is what has been handed out: credentials, circuit
keys, signatures of devices, presentations. Any caller may send any of these to any
route. Claims are numbers by name. Requirements are sent as they are written
(`Requirement`, where a circuit's id is any string) and go through the map of the route that
gets them: the code has three copies, and so has the model (`ConvertForKeys`,
`ConvertForPresent`, `ConvertForVerify`). Circuit keys are maps by circuit id. What
`generate_circuits` does with an id it does not know is not known here: it leaves it out or
panics. An issuer is named by a public key, an id and a key id, three inputs of `verify` that
need not belong together; `present` is taken to be given those of the credential. A challenge is bytes, and what a device signs is the field
element they are reduced to (`Scalar`), which may be the same for two challenges.
A presentation is "sigma" (the routes) or "native" (`present_native` and `verify_native`,
which no route calls); `verify` may be handed either.

`zkp-util` is outside the repository; `Proves`, `IsFor`, `DeviceProof` and `SignChallenge` say
what its callers rely on and are marked external. It may fail to issue or to present. It says
yes only to what a proof shows (`Proves`), and it does not say no to the very things a proof
was made with (`IsFor`). Between the two, both answers are allowed: with another id of the
issuer, fewer requirements than were presented, or a binding that only one side asked for.
What the repository adds, and the properties are about, is that requirements, challenges,
issuers and circuit keys reach it as the callers gave them.

### Comparators

A circom template is two things. The program compiled from it computes a witness by the
assignments (`<--`); a verifier checks only the constraints (`===`), and a prover may
choose any field elements for the signals. `hinted` says which prover the behaviour has.
`Init` gives an instantiated template its inputs, any two field elements; `LessThan`'s
assert decides which widths there are. `Pow2` is `1<<n`. `Num2BitsRound` is one round of the loop in
`Num2Bits`, `Num2BitsSum` its last constraint and the output of `LessThan`; the other
orders only rearrange the operands (`Operands`). `IsZero` is one action, for `IsEqual`.
A behaviour ends with a verdict, so `CHECK_DEADLOCK FALSE`.

## 3. Properties and runs

Interference needs two concurrent slots at least and enough
messages for the same one to arrive twice. The bounds below are chosen so that
every action fires and every mutant in PROJECT.json is caught. Symmetry is used over
request slots, key pairs, draws and other values that are only compared with each other;
never in a run with a liveness property.

| Run | Bounds | Distinct states | What holds |
|---|---|---|---|
| `auth_replay` | 1 client, 2 ids, 2 messages (timestamps 0 and 1), 2 slots, window 1, clock to 3 | 154 376 | `ContractInv`, `LastUseAfterCreation`, `AtMostOnceInWindow`, `RefusedOnlyIfAccepted`, `ContractSpec` |
| `auth_clients` | 2 clients, 3 keys, 3 ids, 7 messages, 2 slots, the clock stands | 777 410 | `TypeOK`, `RegistrationsHaveClients`, `PassedWasEntitled`, `AdministratorKept`, `OnlyAdministratorEdits`, `ContractSpec` |
| `auth_registration` | mode none, 2 keys, 2 ids, 2 slots, expiry after 1, clock to 3 | 49 982 | `KeyNeverRebound`, `DroppedStaysDropped`, `EveryRequestEnds` |
| `protocol_registered` | 2 clients, 1 key id, 3 scopes, 3 pairs, 13 calls, 2 slots | 299 012 | `TypeOK`, `StoreInv`, `ActedWasPermitted`, `KeysHavePolicies`, `ContractSpec` |
| `protocol_none` | mode none, 2 key ids, 2 pairs, 12 calls, 2 slots | 62 168 | `EveryRequestEnds`, `ContractSpec` |
| `service` | 2 clients, 4 messages (create, replace, issue, remove the issuer), 2 ids, 1 pair, 2 slots, window 0, clock to 1 | 874 663 | `ServiceTypeOK`, `EffectsWereSignedAndGranted`, `RunsOncePerSignature`, `ProtocolSpec` |
| `providers` | 4 providers, 2 nonces, 3 messages in lists of up to 2, 2 pairs, 1 signature, 1 proof | 875 663 | `RoundTripSaysYes` |
| `zkp_flow` | 2 public keys, ids and key ids of issuers in all combinations, 2 devices, 3 challenges, 4 lists of requirements, one with an unknown circuit, 2 draws of circuit keys, 1 credential, 1 presentation at a time | 1 341 422 | `VerifiedWasSigned`, `VerifiedMeetsRequirements`, `RoundTripVerifies`, `PresentationsMade` |
| `comparators` | a field of 23 elements, `MaxWidth` 3, widths 1 to 4, every pair of inputs | 163 300 | `CircuitInv`, `OutputIsComparison`, `HintedIsAccepted`, `OutputIsSign`, `WitnessIsComputed` |
| `auth_replay_strict` | as `auth_replay` | | `NeverAcceptedTwice` is violated |
| `zkp_optional` | as `zkp_flow` | | `PresentedCanBeRead` is violated |
| `providers_keys` | as `providers` | | `KeyPairsDiffer` is violated |

Why the bounds are enough: a replay needs an original and a copy, hence two slots; it
needs the clock before, at and after the end of a window, hence window 1 and four clock
values; a stale timestamp beside a fresh one needs two messages. Races of `register`
need two keys and two slots. A client that is removed under its own request, while the
administrator's request runs, needs two slots and two clients; the clock plays no part,
so it stands. Re-creation of a key under a request that has loaded it needs two slots, as
the other one serves delete and create in turn, and three pairs, for two that are gone. In
`service` the clock ticks once: out of the window, as that is 0. Two messages of one client
and two of the other are enough for an issuance to run while its client is removed, and for
a copy of any of them. In `providers` two pairs, under one nonce or two and of one provider
or two, are every way a key can be the wrong one; a list of two shows a message and hides
one. In `zkp_flow` two of the three challenges have one field element. The field of the
circuits has 23 elements: room for four bits and not for five. Width 3 is therefore the last that `Num2Bits(n+1)` may have, and width 4
the one the assert must refuse; up to there every input and every witness is tried.

What the properties say, in a sentence each:

- `AtMostOnceInWindow`: while its timestamp is inside the window a signed message is
  accepted at most once, also across a restart.
- `RefusedOnlyIfAccepted`: the replay check refuses only what was accepted.
- `LastUseAfterCreation`: a last use lies between the registration's creation and now.
- `PassedWasEntitled`, `ActedWasPermitted`: checks and use are in different critical
  sections, so a request may succeed after its right was withdrawn; but there was a
  moment since its arrival at which it had that right.
- `RegistrationsHaveClients`, `AdministratorKept`: the client table, the registrations and
  the administrator stay together.
- `OnlyAdministratorEdits`: the client table changes only in a restart or in the very step
  that answers an `add_client` or `remove_client` of the administrator, which was good at some
  moment since it came, and only in the entry that request names.
- `KeyNeverRebound`, `DroppedStaysDropped`: the last critical section of `register`
  looks again before it writes.
- `KeysHavePolicies`: although `create` writes key, URI policy and keychain policy in
  three critical sections, once it is answered the key and its keychain have an entry each in
  the policy table. The entry may be empty (`replace` takes any list, and `initialise` keeps
  what it finds), so this is not to say that the key can be reached.
- `ContractSpec` of `Protocol`: live keys are never overwritten, and a credential is
  signed with two halves of one pair, drawn by this process for the id it names.
- `EffectsWereSignedAndGranted`: a route body about to act with a key or a grant was signed
  under a key that was its client's accepted key, and was granted to that client, each at
  some moment since the request came - whatever was removed or replaced in between.
- `RunsOncePerSignature`: inside its window, a signed message begins one route body at most.
- `ProtocolSpec`: the service is an implementation of `Protocol`.
- `RoundTripSaysYes`: what the tests try once, for all arguments and in any order of calls:
  an honest signature, and an honest proof that shows any part of its messages, verifies.
- `VerifiedMeetsRequirements`: a verifier that was told yes holds a presentation of a
  credential issued under the public key it named, whose claims meet every requirement the
  verifier sent, whatever the holder presented under.
- `VerifiedWasSigned`: a verifier that asked for a device binding and was told yes holds
  a credential issued under the public key it named to a device, and that device signed the
  verifier's challenge.
- `RoundTripVerifies`: the circuit keys made for a list of requirements are all that `present`
  needs for that list, and what `present` made is not refused to a verifier with the same list,
  keys and issuer whose challenge the credential's device signed. A case, a field or a name
  in which `present`'s copy of the conversion differs from `verify`'s breaks it, and a circuit
  that the copy of `circuit-keys` leaves out.
- `OutputIsComparison`: any witness for inputs in width has the right output, at the
  ends of the range too. `HintedIsAccepted`: the computed witness is always accepted.
- `OutputIsSign`: out of width as well, an accepted output is the sign of a difference
  of at most n bits, so no inputs have two outputs.
- `WitnessIsComputed`: the constraints of `Num2Bits` leave a prover no choice of signals at
  all. `IsZero` does leave one: with input 0 any inverse will do, and none shows.
- `PresentationsMade`, `CircuitInv`: the inductive invariants of `Zkp` and `Comparators`, which the proofs below rest on, as `StoreInv` and
  `ContractInv` are those of `Protocol` and `Auth`.
- `EveryRequestEnds`: every request in flight is answered.

Three statements of the repository do not hold of the code:

- `README.md:4` of the signing service promises replay protection. The window check and
  the purge of the cache use different clock reads. A copy that passed the check in the
  last moment of its window can purge the entry of the original, and is accepted
  (`auth_replay_strict`).
- `models/zkp.rs:108` and `:163` call the device binding optional. `present` writes `null`
  where there is none, and `verify` takes `null` for a malformed binding: no presentation
  without a device binding can be verified (`zkp_optional`).
- `crypto/bbs.rs:109-111` draws random bytes for the seed of a secret key, but into an empty
  vector, so none are drawn: every BBS+ key pair of every caller has the same secret key, and
  two pairs under one nonce are equal (`providers_keys`). The tests make one pair each.

A fourth is a slip in a comment: `comparators.circom:49` says that for `a > b` the top bit of
`(1<<n) + a - b` is 0. It is 1, and the output relies on it, as `OutputIsComparison` shows.

Fairness. `FairSpec` assumes `WF_vars(Handle(r))` for each slot: Rocket runs every handler
it has started, and no handler waits for anything but a lock that its holder gives back.
Nothing is assumed of arrivals, the clock or restarts.

Deadlock is checked in every run of the service: the routes always admit one more
request. A circuit's evaluation ends.

## 4. Proofs

Everything here is proved for every value of the constants: any number of clients, keys,
ids, slots, messages, key ids, scopes, pairs and calls, any window, any bound on the clock.
The assumptions are `AuthAssumption` (the configuration is one `from_env` accepts),
`ProtocolAssumption` and `ServiceAssumption` (what a call and a route look like),
`NullAssumption` (`Null` is no other value), `ZkpAssumption` and `ProvidersAssumption` (what
challenges, claims and messages look like), and `FieldAssumption` (the field has prime
order, with room for the widths of the assert). TLC evaluates them in the runs. Where a
theorem about `Protocol` is used in `Service`, its assumption is proved for the instance,
not assumed again.

### Auth

| Theorem | States |
|---|---|
| `TypeCorrect` | `Spec => []TypeOK` |
| `ContractInvariant` | `Spec => []ContractInv` |
| `ReplayProtection` | `Spec => AtMostOnceInWindow` |
| `ImplementsContract` | `Spec => ContractSpec` |
| `KeyBoundOnce` | `Spec => KeyNeverRebound` |
| `DroppedForGood` | `Spec => DroppedStaysDropped` |
| `NoOrphanRegistration` | `Spec => []RegistrationsHaveClients` |
| `NobodyPassesUnentitled` | `Spec => []PassedWasEntitled` |
| `EditsAreTheAdministrators` | `Spec => OnlyAdministratorEdits` |
| `AdministratorStays` | `Spec => AdministratorKept` |
| `RefusalsAreReplays` | `Spec => RefusedOnlyIfAccepted` |
| `LastUseIsDated` | `Spec => []LastUseAfterCreation` |

The argument. That a commit does not accept twice is not inductive: one has to know why
the signature cache still holds an accepted message. `Remembered` says that an accepted
message is in the cache, or its window is past, or its id belongs to an earlier process.
A purge keeps `Remembered` because the cutoff is computed from a clock read that is not
ahead of the clock (`local[r].now <= clock`, in `CarriedOK`): what it drops is out of the
window by now (`FreshEnough`). A restart keeps it because all ids of accepted messages
become retired, and a retired id is in no registration again (`BoundOK`). That a request
which read a registration before another changed it still commits under the bound key
needs the rest of `CarriedOK`: a binding never changes, although a registration may go.
`IInv == TypeOK /\ ContractInv` is inductive; `NextIInv` has one lemma per action. The two
last theorems are about single steps and follow from `IInv` before the step.

The theorems of `AuthClientProofs` rest on `IInv` and on three small invariants of their
own. `DroppedForGood` needs `BoundOK`: an id that `open` draws is in no registration.
`NobodyPassesUnentitled` is inductive beside `IInv`, as only a lookup leads to the steps
after it (`StepsOf`). `EditsAreTheAdministrators` takes from it that the slot which edits was
entitled, and from the two actions that they edit only for the administrator
(`WhoEditsClients`) and only the entry named (`EditIsTheRequest`). `AdministratorStays` needs `AdministratorConfigured`: the one step
that could drop the administrator is a restart, which goes back to the configuration, so
it has to be shown that an administrator who was not configured never got in.
`RefusalsAreReplays` needs `CacheAccepted`: what is in the cache was accepted.
`LastUseIsDated` has to follow a clock read from one critical section into another
(`DatesInv`): what `Verify` reads is no earlier than the creation of the registration the
request looked up, and that registration is the one `Commit` finds, if it finds one,
because an id is not drawn twice.

### Protocol

| Theorem of `ProtocolProofs` | States |
|---|---|
| `StoreInvariant` | `Spec => []StoreInv` |
| `TypesKept` | `Spec => []TypeOK` |
| `ImplementsKeyContract` | `Spec => ContractSpec` |
| `NobodyActsUnpermitted` | `Spec => []ActedWasPermitted` |
| `NoKeyWithoutPolicies` | `Spec => []KeysHavePolicies` |
| `NamesDoNotClash` | `KeyNames`: what a URI and a scope name |

`StoreInv` is inductive. To the types it adds what is known of the pairs: a live key is
where it was drawn for and was drawn by this process (`BornOK`), and a request between two
critical sections carries the pair it drew, or both halves of the pair that was live when
it looked (`CarriedOK`). The second is what makes the refinement go through: when `Issue`
signs, the table may hold another pair or none, so the step of the contract has to be found
in what the request carries. A restart is where `CarriedOK` would break; it empties the
slots.

`ActedWasPermitted` speaks of the history variable `entitled`, which every step updates
from the policies after it (`Observe`). The steps that lead to an effect are the checks
(`ChecksPermit`), and they read the policies that the variable has already seen. For
`KeysHavePolicies` one has to know that a create which still carries the pair of a live key
made that key, so that it is this key's policies it will write (`CarrierMade`), and that no
other request takes a policy away again (`PoliciesGrow`): `initialise` keeps what is there
and `replace` only replaces.

`NamesDoNotClash` is why grants can be looked up by name at all: the policy on a key, the one
on its keychain and the one on an operation are never the same entry by accident. That an id
is one segment is what `effective_key_id` checks.

### Service

| Theorem | Module | States |
|---|---|---|
| `ServiceImplementsAuth` | `ServiceProofs` | `ServiceSpec => AuthSpec` |
| `ServiceImplementsProtocol` | `ServiceProofs` | `ServiceSpec => ProtocolSpec` |
| `OneRunPerSignature` | `ServiceProofs` | `ServiceSpec => RunsOncePerSignature` |
| `EffectsSignedAndGranted` | `ServiceEffectsProofs` | `ServiceSpec => []EffectsWereSignedAndGranted` |
| `ServiceTypesKept` | `ServiceEffectsProofs` | `ServiceSpec => []ServiceTypeOK` |

The two refinements are proved step by step (`StepIsAuths`, `StepIsProtocols`); what is
proved of `Auth` and `Protocol` on their own then holds here. The second needs that a
signed request reaches its route with a client (`CallerOK`): `Protocol` only takes calls
whose caller fits the mode.

`OneRunPerSignature` is where the halves have to fit. `Auth` promises that a message is
accepted once in its window; `OnceInv` carries that over to route bodies. What was
dispatched was accepted; of the slots in their handlers inside the window no two hold the
same message; and a message in a slot that has not dispatched it yet was dispatched by
nobody. When `Commit` lets a message into a handler, `ReplayProtection`'s step says that it
was not accepted before, hence is in no other handler and not dispatched.

`EffectsSignedAndGranted` joins `NobodyPassesUnentitled` and `NobodyActsUnpermitted`. Each
is about the slot of its own half; the lemmas between them say that a slot at work in a
route body is in step "handler" of `Auth` (`HandlerOK`), and that it works for the
client and the message that were authenticated (`SlotOK`).

### Credentials and presentations

| Theorem of `ZkpProofs` | States |
|---|---|
| `PresentationsAreMade` | `Spec => []PresentationsMade` |
| `DeviceSigned` | `Spec => []VerifiedWasSigned` |
| `RequirementsMet` | `Spec => []VerifiedMeetsRequirements` |
| `HonestIsNotRefused` | `Spec => []RoundTripVerifies` |

A yes speaks of the past: of a credential that was issued and a device that signed, whatever
was handed out since. `PresentationsMade` carries that along with every presentation, and
nothing handed out is taken back (`NothingTakenBack`). A yes comes only from `verify`
(`VerdictIsVerifys`), so what remains is a single step: from a presentation that satisfies
the invariant and from what `zkp-util` compares. `ConversionKeeps` says that what a converted
requirement asks of the claims is what the verifier wrote.

`HonestIsNotRefused` needs an invariant of its own, `HandedAsAsked`: circuit keys are for the
known circuits of the list they were asked for, and a presentation shows its list and was made
with a key for each of its circuits. There the three conversions have to agree (`OneConversion`).

### Providers

| Theorem of `ProvidersProofs` | States |
|---|---|
| `HonestIsAccepted` | `Spec => []RoundTripSaysYes` |

For lists of messages of any length. It rests on `MadeAsAsked`, a lemma's invariant: what has
been handed out was readable and is what was asked for, and a proof shows the indexes its
maker chose. The proof speaks of positions in lists (`ContentOf`): the holder's indexes and
the verifier's pick the same messages.

### Circuits

| Theorem of `ComparatorsProofs` | States |
|---|---|
| `CircuitInvariant` | `Spec => []CircuitInv` |
| `TheOutputIsTheSign` | `Spec => []OutputIsSign` |
| `TheOutputIsTheComparison` | `Spec => []OutputIsComparison` |
| `AnHonestWitnessIsAccepted` | `Spec => []HintedIsAccepted` |
| `TheWitnessIsComputed` | `Spec => []WitnessIsComputed` |

TLC tries a field of 23 elements; these hold in every prime field, the one the circuits are
compiled for among them, and for every width that the assert lets pass.

The provers know no induction over numbers, nothing of powers and nothing of primes. What
they can use is that a set of numbers has a least element (`LeastNumber`, from the library's
theorem about well-founded relations), and each induction below is one least
counterexample. So `Pow2` is shown to satisfy its recursive definition (`Pow2Def`), to be
positive and monotone, and smaller powers to divide larger ones (`Pow2Divides`). The least
positive multiple of an element, modulo `Prime`, divides `Prime`: every element but 0 has an
inverse (`InverseExists`), and the field has no divisors of 0 (`NoZeroDivisors`). The second
is why `out[i] * (out[i] - 1) === 0` leaves 0 and 1 (`BitsAreBits`), and the first why
`IsZero` has an honest witness.

`CircuitInv` is the loop invariant of `Num2Bits`: before each round `e2` is the next power
of 2, `lc1` is below it, and the bits so far are the digits of `lc1`. A round keeps it as
long as the next power is below `Prime` (`RoundFits`, `LowDigit`, `TopDigit`), and the
assert of `LessThan` says it is (`WidthFits`). At the end `lc1 === in` says that `in` fits into
n + 1 bits, and its top bit is the output. `InputIsDifference` and `InWidthInput` turn that
into a statement about integers: with inputs of n bits `in` is their difference, shifted by
2^n, whichever way the template has rearranged them.

### Only model-checked

Liveness: `EveryRequestEnds`, in `auth_registration` and in `protocol_none`. The prover has
no rule for fairness and ENABLED. Every other property of a passing run is the statement of
a theorem.

## 5. Not modelled

- The compiled circuits that have no source here (`less_than_eq_*`, `*_prv_*`).
- Encodings (the services use two Base64 alphabets), the contents of claims, JSON-LD, dates.
- Keys and signatures of one provider family sent to the routes of the other.
- Sizes: the growth of the signature cache and of pending registrations.
- A clock that is set back, and a poisoned lock (no handler panics while it holds one).
- Rocket, deployment, `zkp-util`, `rdf-util`.

## 6. Plan

Done: `Auth` first, because every v1 route depends on it, with its contract; `Protocol` with
`KeyContract`; `Zkp`, with requirements, circuit keys and the native variants; `Comparators`;
`Service`, the composition; `Providers`; and the proofs of each.

Next, in this order:

1. `Zkp` and `Comparators` together: the relation that a requirement names is the one its
   circuit decides.
2. Presentations written by other software, as inputs of `verify`.
