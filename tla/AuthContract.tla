---------------------------- MODULE AuthContract ----------------------------
(***************************************************************************)
(* What the authentication component promises, with nothing of how it does *)
(* it: no client table, no registration table, no signature cache and no   *)
(* request in flight.                                                      *)
(*                                                                         *)
(*   - a registration id is bound to at most one public key, for ever;     *)
(*   - a signed message is accepted only under the key its registration is *)
(*     bound to, and only by the process that issued the registration;     *)
(*   - while the timestamp of a message is inside the window, the message  *)
(*     is accepted at most once.                                           *)
(*                                                                         *)
(* Auth implements this specification (Auth!ContractSpec).                 *)
(***************************************************************************)
EXTENDS Naturals

CONSTANTS Keys, Ids, Messages, Null, TimestampWindow

VARIABLES
    clock,    \* the wall clock, in milliseconds
    issued,   \* the registration ids drawn so far, by any process
    retired,  \* the ids drawn by processes that have ended
    bound,    \* the key each id was completed with, Null before that
    accepted  \* the signed messages accepted so far, by any process

contractVars == <<clock, issued, retired, bound, accepted>>

ContractInit ==
    /\ clock \in Nat
    /\ issued = {}
    /\ retired = {}
    /\ bound = [id \in Ids |-> Null]
    /\ accepted = {}

Issue(id) ==
    /\ id \notin issued
    /\ issued' = issued \cup {id}
    /\ UNCHANGED <<clock, retired, bound, accepted>>

Bind(id, key) ==
    /\ id \in issued \ retired
    /\ bound[id] = Null
    /\ bound' = [bound EXCEPT ![id] = key]
    /\ UNCHANGED <<clock, issued, retired, accepted>>

InWindow(m) == clock <= m.ts + TimestampWindow

Accept(m) ==
    /\ m.id \in issued \ retired
    /\ bound[m.id] = m.key
    /\ InWindow(m) => m \notin accepted
    /\ accepted' = accepted \cup {m}
    /\ UNCHANGED <<clock, issued, retired, bound>>

Advance ==
    /\ clock' \in Nat
    /\ clock' >= clock
    /\ UNCHANGED <<issued, retired, bound, accepted>>

\* The process ends and a new one starts: the old ids are worth nothing to it.
Retire ==
    /\ retired' = issued
    /\ UNCHANGED <<clock, issued, bound, accepted>>

ContractNext ==
    \/ \E id \in Ids : Issue(id)
    \/ \E id \in Ids, key \in Keys : Bind(id, key)
    \/ \E m \in Messages : Accept(m)
    \/ Advance
    \/ Retire

ContractSpecification == ContractInit /\ [][ContractNext]_contractVars
====
