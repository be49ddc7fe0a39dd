------------------------------ MODULE KeyNames ------------------------------
(***************************************************************************)
(* How key ids, key URIs and grant scopes are named (routes/bbs.rs,        *)
(* routes/grants.rs).  A name is the sequence of its segments, the parts   *)
(* between slashes; the scheme of a URI is its first segment.              *)
(***************************************************************************)
EXTENDS Sequences, Naturals

CONSTANTS
    NoNamespace  \* CreateKeyRequest.namespace = None

Scheme == "next-gen:"

\* A keychain namespace is "kc/<uuid>", a key id is one segment.
EffectiveKeyId(namespace, name) ==
    IF namespace = NoNamespace THEN <<name>> ELSE <<"kc", namespace, name>>

KeyUri(id) == <<Scheme>> \o id

\* The key id a URI names; <<>>, which is no key's id, for a foreign URI.
KeyId(uri) == IF uri # <<>> /\ Head(uri) = Scheme THEN Tail(uri) ELSE <<>>

\* The keychain of a key's URI, or the bare id of a key that is in none.
KeyScope(uri) ==
    LET id == Tail(uri) IN
    IF Len(id) > 1 /\ id[1] = "kc" THEN SubSeq(id, 1, 2) ELSE id

OpScope(operation) == <<"op", operation>>
=============================================================================
