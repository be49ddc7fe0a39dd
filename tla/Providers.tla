------------------------------ MODULE Providers ------------------------------
(***************************************************************************)
(* The BBS+ and ML-DSA routes (macros.rs, crypto/bbs.rs,                   *)
(* crypto/fips204.rs, routes/bbs_plus.rs).                                 *)
(*                                                                         *)
(* The routes keep nothing.  The state is what they have handed out, and   *)
(* any caller may send any of it, with any nonce and messages, to any      *)
(* route.  Most errors are unwrapped, so that the answer is a panic        *)
(* (Rocket's 500); nothing is held or half done when that happens.         *)
(*                                                                         *)
(* bbs_plus and fips204 are outside the repository.  A signature verifies  *)
(* for the content it was made for and no other; a proof of knowledge      *)
(* shows the messages it reveals and that some signature verifies, to a    *)
(* verifier who gives the indexes and the number of messages it is about.  *)
(* Keys and signatures of the other family of providers are not sent.      *)
(***************************************************************************)
EXTENDS Naturals, Sequences, FiniteSets, Functions

CONSTANTS
    Providers,      \* the providers in use (bounds the model)
    Nonces,         \* nonces of the BBS+ routes, Base64 that decodes
    Messages,       \* messages, Base64 that decodes
    Garbled,        \* Base64 that does not decode
    Element,        \* the number a message's bytes stand for
    MessageLists,   \* the lists of messages that are sent
    Counts,         \* the numbers sent as message_count
    Draws,          \* what OsRng may return; it never repeats (bounds keypair)
    MaxPairs, MaxSignatures, MaxProofs,  \* bound what is handed out
    Null

BbsPlus == {"BbsPlusG1Provider", "BbsPlusG2Provider"}
Fips204 == {"Fips204MlDsa44Provider", "Fips204MlDsa65Provider", "Fips204MlDsa87Provider"}

ASSUME ProvidersAssumption ==
    /\ Providers \subseteq BbsPlus \cup Fips204
    /\ Garbled \notin Nonces /\ Garbled \notin Messages /\ Null \notin Nonces
    /\ DOMAIN Element = Messages
    /\ MessageLists \subseteq Seq(Messages \cup {Garbled})
    /\ Counts \subseteq Nat
    /\ MaxPairs \in Nat /\ MaxSignatures \in Nat /\ MaxProofs \in Nat

\* What the routes share: a nonce, which ML-DSA has none of, and messages, of
\* which ML-DSA has one.
ParamsOf(provider) ==
    IF provider \in BbsPlus
    THEN [nonce : Nonces \cup {Garbled}, messages : MessageLists]
    ELSE [nonce : {Null}, messages : {list \in MessageLists : Len(list) = 1}]

VARIABLES
    drawn,       \* what OsRng has returned
    pairs,       \* the key pairs keypair has returned, in their order
    signatures,  \* the signatures sign has returned
    proofs,      \* the proofs of knowledge pok/create has returned
    answer       \* the last answer, and what it was about

vars == <<drawn, pairs, signatures, proofs, answer>>

Nothing ==
    [route |-> "other", by |-> Null, result |-> "None", pair |-> Null, of |-> Null,
     nonce |-> Null, shown |-> <<>>, count |-> 0]

Panic == answer' = [Nothing EXCEPT !.result = "Panicked"]

Init ==
    /\ drawn = {} /\ pairs = <<>> /\ signatures = {} /\ proofs = {}
    /\ answer = Nothing

-----------------------------------------------------------------------------
(* What the providers compute *)

Readable(params) == params.nonce # Garbled /\ Garbled \notin Range(params.messages)

\* What is signed: BBS+ signs the messages as numbers, little endian, so bytes
\* of zero at the end do not count; ML-DSA signs the bytes.
Content(provider, messages) ==
    IF provider \in BbsPlus
    THEN [i \in DOMAIN messages |-> Element[messages[i]]]
    ELSE messages

\* The bytes a generator has drawn: ByteArray::new() is a vector of length 0,
\* and fill_bytes fills the bytes that are there; try_keygen draws its own.
SeedLength(provider) == IF provider \in BbsPlus THEN 0 ELSE 1

\* The two BBS+ providers have the same type of secret key.
SecretFits(provider, pair) ==
    pair.provider = provider \/ {pair.provider, provider} \subseteq BbsPlus

\* Public keys and signatures have a length, or a curve, of their own.
PublicFits(provider, pair) == pair.provider = provider
SignatureFits(provider, signature) == signature.provider = provider

\* sig.verify: the generators come from the nonce, the key's too.
Accepts(pair, signature, nonce, content) ==
    /\ signature.secret = pair.secret
    /\ signature.nonce = nonce /\ pair.nonce = nonce
    /\ signature.content = content

\* BUG: the messages to be shown are the blinded ones.
RevealedSwapped(indexes, messages) == (0 .. Len(messages) - 1) \ indexes

\* The messages that are shown by a proof, by index from 0.
Revealed(indexes, messages) == (0 .. Len(messages) - 1) \cap indexes

-----------------------------------------------------------------------------
(* keypair, sign, verify *)

\* message_count sizes the generators and does not matter to the keys; the
\* library asserts that it is not 0.
GenKeypair(provider, nonce, count) ==
    /\ \/ /\ provider \in BbsPlus /\ nonce = Garbled
          /\ answer' = [Nothing EXCEPT !.result = "Error"]
          /\ UNCHANGED <<drawn, pairs>>
       \/ /\ provider \in BbsPlus /\ nonce # Garbled /\ count = 0
          /\ Panic
          /\ UNCHANGED <<drawn, pairs>>
       \/ /\ provider \in BbsPlus => nonce # Garbled /\ count # 0
          /\ Len(pairs) < MaxPairs
          /\ \E seed \in [1 .. SeedLength(provider) -> Draws \ drawn] :
                /\ drawn' = drawn \cup Range(seed)
                /\ pairs' = Append(pairs,
                       [provider |-> provider, nonce |-> nonce, secret |-> seed])
          /\ answer' = Nothing
    /\ UNCHANGED <<signatures, proofs>>

Sign(provider, pair, params) ==
    LET readable ==
            SecretFits(provider, pair) /\ Readable(params) /\ params.messages # <<>>
    IN
    /\ \/ ~readable /\ Panic /\ UNCHANGED signatures
       \/ /\ readable
          /\ signatures' = signatures \cup
                 {[provider |-> provider, secret |-> pair.secret, nonce |-> params.nonce,
                   content |-> Content(provider, params.messages),
                   asked |-> params.messages]}
          /\ answer' = Nothing
    /\ UNCHANGED <<drawn, pairs, proofs>>

Verify(provider, pair, signature, params) ==
    LET fits == PublicFits(provider, pair) /\ Readable(params) /\ params.messages # <<>>
        own == SignatureFits(provider, signature)
        right == Accepts(pair, signature, params.nonce, Content(provider, params.messages))
        Answer(result) ==
            answer' = [route |-> "verify", by |-> provider, result |-> result,
                       pair |-> pair, of |-> signature, nonce |-> params.nonce,
                       shown |-> params.messages, count |-> Len(params.messages)]
    IN
    /\ \/ ~(fits /\ own) /\ Answer("Panicked")
       \* Bytes of the other BBS+ group might be read as some signature of this one.
       \/ fits /\ ~own /\ provider \in BbsPlus /\ Answer("No")
       \/ fits /\ own /\ right /\ Answer("Yes")
       \/ fits /\ own /\ ~right /\ Answer("No")
    /\ UNCHANGED <<drawn, pairs, signatures, proofs>>

-----------------------------------------------------------------------------
(* pok/create and pok/verify: BbsPlusG1Provider only *)

\* The signature is not verified here: a proof about messages it was not made
\* for is one that will not verify.
CreatePok(signature, params, indexes) ==
    LET possible ==
            /\ signature.provider = "BbsPlusG1Provider"
            /\ Readable(params) /\ params.messages # <<>>
            /\ indexes \subseteq 0 .. Len(params.messages) - 1
    IN
    /\ \/ ~possible /\ Panic /\ UNCHANGED proofs
       \/ /\ possible
          /\ proofs' = proofs \cup
                 {[signature |-> signature, nonce |-> params.nonce,
                   content |-> Content("BbsPlusG1Provider", params.messages),
                   shown |-> Revealed(indexes, params.messages),
                   asked |-> params.messages, indexes |-> indexes]}
          /\ answer' = Nothing
    /\ UNCHANGED <<drawn, pairs, signatures>>

\* The indexes and the count are those of the proof.  pok/verify does not look, and
\* what the library makes of others is not known here.
Fits(proof, revealed, count) ==
    DOMAIN revealed = proof.shown /\ count = Len(proof.content)

\* proof.verify on messages that fit, with the challenge computed from them.
Proves(pair, proof, revealed, nonce) ==
    /\ Accepts(pair, proof.signature, nonce, proof.content)
    /\ proof.nonce = nonce
    /\ \A i \in proof.shown : Element[revealed[i]] = proof.content[i + 1]

\* A proof that fails is an error, and the error is unwrapped: never "No".
VerifyPok(pair, proof, revealed, nonce, count) ==
    LET readable ==
            /\ pair.provider = "BbsPlusG1Provider"
            /\ nonce # Garbled /\ count # 0
            /\ \A i \in DOMAIN revealed : revealed[i] # Garbled
        fits == Fits(proof, revealed, count)
        right == fits /\ Proves(pair, proof, revealed, nonce)
        Answer(result) ==
            answer' = [route |-> "pok", by |-> "BbsPlusG1Provider", result |-> result,
                       pair |-> pair, of |-> proof, nonce |-> nonce,
                       shown |-> revealed, count |-> count]
    IN
    /\ \/ ~(readable /\ right) /\ Answer("Panicked")
       \/ readable /\ (fits => right) /\ Answer("Yes")
    /\ UNCHANGED <<drawn, pairs, signatures, proofs>>

-----------------------------------------------------------------------------
\* What may be sent as revealed_messages: some of a list, by index.
RevealedMaps ==
    UNION {{[i \in indexes |-> list[i + 1]] : indexes \in SUBSET (0 .. Len(list) - 1)} :
           list \in MessageLists}

CallPok ==
    \/ \E signature \in signatures, params \in ParamsOf("BbsPlusG1Provider"),
          indexes \in SUBSET Counts :
           /\ Cardinality(proofs) < MaxProofs
           /\ CreatePok(signature, params, indexes)
    \/ \E pair \in Range(pairs), proof \in proofs, revealed \in RevealedMaps,
          nonce \in Nonces \cup {Garbled}, count \in Counts :
           VerifyPok(pair, proof, revealed, nonce, count)

Call ==
    \/ \E provider \in Providers : \E params \in ParamsOf(provider) :
        \/ \E count \in Counts : GenKeypair(provider, params.nonce, count)
        \/ \E pair \in Range(pairs) :
            \/ /\ Cardinality(signatures) < MaxSignatures
               /\ Sign(provider, pair, params)
            \/ \E signature \in signatures : Verify(provider, pair, signature, params)
    \/ CallPok

\* The caller has its answer.
Return == answer' = Nothing /\ UNCHANGED <<drawn, pairs, signatures, proofs>>

\* Calls that overlap do nothing to each other, so one follows the other here.
Next ==
    \/ answer = Nothing /\ Call
    \/ answer # Nothing /\ Return

Spec == Init /\ [][Next]_vars

-----------------------------------------------------------------------------
(* What must hold *)

\* test_sign_verify_roundtrip, test_pok_of_sig and the tests of main.rs, for all
\* arguments and in any order of calls: what was signed with a pair under its
\* own nonce verifies under it, and so does a proof of knowledge that shows what
\* its maker chose, whatever message_count the pair was made with.
RoundTripSaysYes ==
    LET pair == answer.pair
        Honest(signature) ==
            /\ signature.provider = answer.by /\ pair.provider = answer.by
            /\ signature.secret = pair.secret
            /\ signature.nonce = pair.nonce /\ answer.nonce = pair.nonce
    IN
    answer.result \in {"No", "Panicked"} =>
        /\ answer.route = "verify" =>
               ~(Honest(answer.of) /\ answer.shown = answer.of.asked)
        /\ answer.route = "pok" =>
               ~ LET proof == answer.of IN
                 /\ Honest(proof.signature) /\ proof.nonce = pair.nonce
                 /\ proof.asked = proof.signature.asked
                 /\ answer.count = Len(proof.asked)
                 /\ answer.shown = [i \in proof.indexes |-> proof.asked[i + 1]]

\* "let mut rng = get_rng(); ... rng.fill_bytes(&mut seed);" (bbs.rs:109-111):
\* the seed is random, so two calls of keypair return different key pairs.
KeyPairsDiffer ==
    \A i, j \in DOMAIN pairs : i # j => pairs[i] # pairs[j]
==============================================================================
