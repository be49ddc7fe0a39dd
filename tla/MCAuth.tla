------------------------------- MODULE MCAuth -------------------------------
(***************************************************************************)
(* Values for the constants of Auth, one group per run.                    *)
(***************************************************************************)
EXTENDS Auth, TLC

CONSTANTS platform, issuer, kp, k1, k2, i1, i2, i3, r1, r2

Symmetry == Permutations(Requests)

Signed(id, key, ts, purpose, name, client, arg) ==
    [id |-> id, key |-> key, ts |-> ts, purpose |-> purpose,
     op |-> [name |-> name, client |-> client, key |-> arg]]

Health(id, key, ts) == Signed(id, key, ts, "read", "health", platform, key)

PlatformOnly == platform :> kp
PlatformAndIssuer == platform :> kp @@ issuer :> k1

\* replay: one client; two timestamps, so that one is stale while the other
\* is not.
ReplayMessages == {Health(i1, kp, 0), Health(i1, kp, 1)}
ReplayRegisterCalls ==
    {[id |-> i1, key |-> kp, proof |-> TRUE], [id |-> i2, key |-> kp, proof |-> TRUE]}

\* clients: the administrator adds, replaces and removes the issuer while the
\* issuer's requests are in flight; the issuer tries the same with its own key.
ClientMessages ==
    {Signed(i1, kp, 0, "key-management", "addClient", issuer, k1),
     Signed(i1, kp, 0, "key-management", "addClient", issuer, k2),
     Signed(i1, kp, 0, "key-management", "removeClient", issuer, kp),
     Signed(i1, kp, 0, "key-management", "removeClient", platform, kp),
     Signed(i1, k1, 0, "key-management", "removeClient", issuer, kp),
     Signed(i2, k1, 0, "read", "removeClient", issuer, k1),
     Signed(i2, k1, 0, "key-management", "addClient", issuer, k2)}
ClientRegisterCalls ==
    {[id |-> i1, key |-> kp, proof |-> TRUE], [id |-> i2, key |-> k1, proof |-> TRUE]}

\* registration: two keys race for two registrations, one proof is bad; in
\* mode none the administration routes are reached without a client.
OpenMessages ==
    {Signed(i1, k1, 0, "key-management", "addClient", issuer, k1),
     Signed(i1, k1, 0, "key-management", "removeClient", issuer, k1)}
OpenRegisterCalls ==
    {[id |-> i1, key |-> k1, proof |-> TRUE], [id |-> i1, key |-> k2, proof |-> TRUE],
     [id |-> i2, key |-> k1, proof |-> FALSE]}
NoClients == issuer :> Null
=============================================================================
