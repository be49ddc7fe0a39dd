----------------------------- MODULE MCService ------------------------------
(***************************************************************************)
(* Values for the constants of Service.                                    *)
(***************************************************************************)
EXTENDS Service, TLC

CONSTANTS platform, issuer, kp, k1, i1, i2, g1, r1, r2

Symmetry == Permutations(Requests)

InChain == [namespace |-> "u1", name |-> "a"]
OneName == {InChain}
Uri == KeyUri(EffectiveKeyId(InChain.namespace, InChain.name))

Signed(id, key, purpose, name) ==
    [id |-> id, key |-> key, ts |-> 0, purpose |-> purpose,
     op |-> [name |-> name, client |-> issuer, key |-> k1]]

Managed(route, grants) ==
    [route |-> route, caller |-> Null, key |-> InChain, uri |-> Uri,
     operation |-> "issuance", grants |-> grants, valid |-> TRUE]

\* The administrator makes a key, lets the issuer operate it and removes the
\* issuer; the issuer issues.
CreateIt == Signed(i1, kp, "key-management", "keys")
LetIssue == [CreateIt EXCEPT !.op.client = platform]
DropIssuer == Signed(i1, kp, "key-management", "removeClient")
IssueIt == Signed(i2, k1, "operations", "execute")

ServiceMessages == {CreateIt, LetIssue, DropIssuer, IssueIt}

HandOut ==
    {[client |-> platform, purposes |-> {"key-management"}],
     [client |-> issuer, purposes |-> {"operations"}]}

ServiceRoute ==
    CreateIt :> Managed("create", {})
      @@ LetIssue :> Managed("replace", HandOut)
      @@ DropIssuer :> Null
      @@ IssueIt :> Managed("execute", {})

ServiceRegisterCalls ==
    {[id |-> i1, key |-> kp, proof |-> TRUE], [id |-> i2, key |-> k1, proof |-> TRUE]}

BothClients == platform :> kp @@ issuer :> k1
=============================================================================
