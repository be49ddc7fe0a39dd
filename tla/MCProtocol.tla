----------------------------- MODULE MCProtocol -----------------------------
(***************************************************************************)
(* Values for the constants of Protocol, one group per run.                *)
(***************************************************************************)
EXTENDS Protocol, TLC

CONSTANTS platform, issuer, wallet, g1, g2, g3, r1, r2, r3

Symmetry == Permutations(Requests) \cup Permutations(Pairs)

\* One key in a keychain, one in none.
InChain == [namespace |-> "u1", name |-> "a"]
Alone == [namespace |-> NoNamespace, name |-> "b"]
UriOf(n) == KeyUri(EffectiveKeyId(n.namespace, n.name))

OneName == {InChain}
TwoNames == {InChain, Alone}

Ask(route, caller, n, uri, operation, grants, valid) ==
    [route |-> route, caller |-> caller, key |-> n, uri |-> uri,
     operation |-> operation, grants |-> grants, valid |-> valid]

CreateCall(caller, n) == Ask("create", caller, n, UriOf(n), "issuance", {}, TRUE)
DeleteCall(caller, n) == Ask("delete", caller, n, UriOf(n), "issuance", {}, TRUE)
ResolveCall(caller, n) == Ask("resolve", caller, n, UriOf(n), "issuance", {}, TRUE)
IssueCall(caller, n) == Ask("execute", caller, n, UriOf(n), "issuance", {}, TRUE)
SetupCall(caller, n) == Ask("execute", caller, n, Null, "setup", {}, TRUE)
ListCall(caller, scope) == Ask("list", caller, InChain, scope, "issuance", {}, TRUE)
ScopesCall(caller) == Ask("scopes", caller, InChain, UriOf(InChain), "issuance", {}, TRUE)
ReplaceCall(caller, scope, grants) ==
    Ask("replace", caller, InChain, scope, "issuance", grants, TRUE)

Manage(client) == [client |-> client, purposes |-> {"key-management"}]
Operate(client) == [client |-> client, purposes |-> {"operations"}]

\* registered: the issuer's operations race with deletion, re-creation and the
\* withdrawal of its grant, and two clients hand the policies of a keychain, a
\* key and an operation to each other.
RegisteredCalls ==
    LET uri == UriOf(InChain)
        chain == KeyScope(uri)
        setup == OpScope("setup")
    IN
    {CreateCall(platform, InChain), CreateCall(issuer, InChain),
     DeleteCall(platform, InChain), ResolveCall(issuer, InChain),
     IssueCall(issuer, InChain), SetupCall(issuer, InChain),
     ReplaceCall(platform, uri, {Manage(platform), Operate(issuer)}),
     ReplaceCall(platform, uri, {Manage(issuer)}),
     ReplaceCall(issuer, uri, {Operate(platform)}),
     ReplaceCall(issuer, chain, {Manage(issuer)}),
     ReplaceCall(platform, setup, {Operate(issuer)}),
     ListCall(issuer, uri), ScopesCall(issuer)}

\* none: no caller, so no grant is ever checked.
OpenCalls ==
    {CreateCall(Null, InChain), CreateCall(Null, Alone), DeleteCall(Null, Alone),
     ResolveCall(Null, Alone), IssueCall(Null, InChain), SetupCall(Null, Alone),
     Ask("execute", Null, Alone, Null, "issuance", {}, TRUE),
     Ask("execute", Null, Alone, UriOf(Alone), "unknown", {}, TRUE),
     Ask("execute", Null, Alone, UriOf(Alone), "issuance", {}, FALSE),
     ReplaceCall(Null, UriOf(Alone), {Operate(issuer)}),
     ListCall(Null, UriOf(Alone)), ScopesCall(Null)}
=============================================================================
