---------------------------- MODULE KeyContract ----------------------------
(***************************************************************************)
(* What the key store promises, with no locks, no grants and no request in *)
(* flight:                                                                 *)
(*                                                                         *)
(*   - a key pair is drawn for one key id, and a live key is never         *)
(*     replaced by another: it has to be deleted first;                    *)
(*   - a credential is signed with both halves of one pair, drawn for the  *)
(*     key id the request named, by the process that answers.              *)
(*                                                                         *)
(* Protocol implements this specification (Protocol!ContractSpec).         *)
(***************************************************************************)
CONSTANTS KeyIds, Pairs, Null

VARIABLES
    keys,        \* the live key pair of each key id, or Null
    born,        \* the key id each pair was drawn for, Null when not yet drawn
    retired,     \* the pairs drawn by processes that have ended
    credentials  \* the credentials issued so far

contractVars == <<keys, born, retired, credentials>>

ContractInit ==
    /\ keys = [id \in KeyIds |-> Null]
    /\ born = [pair \in Pairs |-> Null]
    /\ retired = {}
    /\ credentials = {}

Generate(id, pair) ==
    /\ keys[id] = Null
    /\ born[pair] = Null
    /\ keys' = [keys EXCEPT ![id] = pair]
    /\ born' = [born EXCEPT ![pair] = id]
    /\ UNCHANGED <<retired, credentials>>

Destroy(id) ==
    /\ keys[id] # Null
    /\ keys' = [keys EXCEPT ![id] = Null]
    /\ UNCHANGED <<born, retired, credentials>>

\* The pair need not be live any more: deletion does not stop a signature that
\* has begun.
Sign(id, pair) ==
    /\ born[pair] = id
    /\ pair \notin retired
    /\ credentials' = credentials \cup {[id |-> id, public |-> pair, secret |-> pair]}
    /\ UNCHANGED <<keys, born, retired>>

Retire ==
    /\ keys' = [id \in KeyIds |-> Null]
    /\ retired' = {pair \in Pairs : born[pair] # Null}
    /\ UNCHANGED <<born, credentials>>

ContractNext ==
    \/ \E id \in KeyIds, pair \in Pairs : Generate(id, pair) \/ Sign(id, pair)
    \/ \E id \in KeyIds : Destroy(id)
    \/ Retire

ContractSpecification == ContractInit /\ [][ContractNext]_contractVars
=============================================================================
