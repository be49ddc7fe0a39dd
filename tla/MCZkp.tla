------------------------------- MODULE MCZkp -------------------------------
(***************************************************************************)
(* Values for the constants of Zkp.                                        *)
(***************************************************************************)
EXTENDS Zkp, TLC

CONSTANTS c1, c2, c3, p1, p2, n1, n2, k1, k2

\* Public keys, ids and key ids, of issuers in any combination.
SomeIssuers == [pk : {p1, p2}, id : {n1, n2}, keyId : {k1, k2}]

\* They, devices and draws are only ever compared with each other.
Symmetry ==
    Permutations({p1, p2}) \cup Permutations({n1, n2}) \cup Permutations({k1, k2})
        \cup Permutations(Devices) \cup Permutations(Draws)

\* c2 is c1 with the order of the group added.
Elements == c1 :> 1 @@ c2 :> 1 @@ c3 :> 2

\* One with a name, one without, on both sides of the verifier's number.
SomeClaims == {"name" :> 0 @@ "birthDate" :> 1, "birthDate" :> 3}

Named == [type |-> "required", key |-> "name"]
Circuit(id) ==
    [type |-> "circuit", circuit_id |-> id, private_var |-> "a",
     private_key |-> "birthDate", public_var |-> "b", public_val |-> 2]
Older == Circuit("less_than_public_64")
Younger == Circuit("larger_than_public_64")
Unknown == Circuit("unknown")

SomeRequirements == {{Named}, {Named, Older}, {Younger}, {Unknown}}
=============================================================================
