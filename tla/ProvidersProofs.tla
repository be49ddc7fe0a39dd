--------------------------- MODULE ProvidersProofs ---------------------------
(***************************************************************************)
(* The round trip of the providers: the theorem about Providers, for any   *)
(* nonces, messages and lists of them, and any number of keys, signatures  *)
(* and proofs handed out.                                                  *)
(***************************************************************************)
EXTENDS Providers, SequenceTheorems, TLAPS

-----------------------------------------------------------------------------
(* Messages and their content *)

\* A list that can be read has no garbled message.
LEMMA ReadableMessages ==
    ASSUME NEW provider, NEW params \in ParamsOf(provider), Readable(params),
           params.messages # <<>>
    PROVE  params.messages \in Seq(Messages) \ {<<>>} /\ params.nonce # Garbled
<1>1. params.messages \in MessageLists
  BY DEF ParamsOf
<1>2. params.messages \in Seq(Messages \cup {Garbled})
  BY <1>1, ProvidersAssumption
<1>3. \A i \in DOMAIN params.messages : params.messages[i] # Garbled
  BY DEF Readable, Range
<1>4. \A i \in 1 .. Len(params.messages) : params.messages[i] \in Messages
  BY <1>2, <1>3
<1>5. params.messages \in Seq(Messages)
  BY <1>2, <1>4
<1> QED BY <1>5 DEF Readable

\* For BBS+, the content of a list is its numbers, one for each message.
LEMMA ContentOf ==
    ASSUME NEW provider, provider \in BbsPlus, NEW list \in Seq(Messages)
    PROVE  /\ DOMAIN Content(provider, list) = 1 .. Len(list)
           /\ Len(Content(provider, list)) = Len(list)
           /\ \A i \in 1 .. Len(list) : Content(provider, list)[i] = Element[list[i]]
<1>1. Content(provider, list) = [i \in 1 .. Len(list) |-> Element[list[i]]]
  BY DEF Content
<1>2. Len(list) \in Nat
  OBVIOUS
<1> QED BY <1>1, <1>2

-----------------------------------------------------------------------------
(* What is handed out *)

\* What the round trip rests on: what has been handed out is what was asked for, and
\* was readable; a proof of knowledge shows the messages its maker chose.
MadeAsAsked ==
    /\ \A signature \in signatures :
          /\ signature.asked \in Seq(Messages) \ {<<>>} /\ signature.nonce # Garbled
          /\ signature.content = Content(signature.provider, signature.asked)
    /\ \A proof \in proofs :
          /\ proof.signature \in signatures
          /\ proof.signature.provider = "BbsPlusG1Provider"
          /\ proof.asked \in Seq(Messages) \ {<<>>}
          /\ proof.content = Content("BbsPlusG1Provider", proof.asked)
          /\ proof.shown = proof.indexes
          /\ proof.indexes \subseteq 0 .. Len(proof.asked) - 1

LEMMA SignMade ==
    ASSUME MadeAsAsked, NEW provider \in Providers, NEW pair,
           NEW params \in ParamsOf(provider), Sign(provider, pair, params)
    PROVE  MadeAsAsked'
<1> DEFINE made == [provider |-> provider, secret |-> pair.secret, nonce |-> params.nonce,
                    content |-> Content(provider, params.messages),
                    asked |-> params.messages]
<1>1. CASE UNCHANGED signatures
  BY <1>1 DEF Sign, MadeAsAsked, Content
<1>2. CASE ~UNCHANGED signatures
  <2>1. /\ signatures' = signatures \cup {made}
        /\ Readable(params) /\ params.messages # <<>>
        /\ proofs' = proofs
    BY <1>2 DEF Sign
  <2>2. /\ made.asked \in Seq(Messages) \ {<<>>} /\ made.nonce # Garbled
        /\ made.content = Content(made.provider, made.asked)
    BY <2>1, ReadableMessages
  <2> HIDE DEF made
  <2> QED BY <2>1, <2>2 DEF MadeAsAsked, Content
<1> QED BY <1>1, <1>2

LEMMA PokMade ==
    ASSUME MadeAsAsked, NEW signature \in signatures,
           NEW params \in ParamsOf("BbsPlusG1Provider"), NEW indexes,
           CreatePok(signature, params, indexes)
    PROVE  MadeAsAsked'
<1> DEFINE made == [signature |-> signature, nonce |-> params.nonce,
                    content |-> Content("BbsPlusG1Provider", params.messages),
                    shown |-> Revealed(indexes, params.messages),
                    asked |-> params.messages, indexes |-> indexes]
<1>1. CASE UNCHANGED proofs
  BY <1>1 DEF CreatePok, MadeAsAsked, Content
<1>2. CASE ~UNCHANGED proofs
  <2>1. /\ proofs' = proofs \cup {made}
        /\ signature.provider = "BbsPlusG1Provider"
        /\ Readable(params) /\ params.messages # <<>>
        /\ indexes \subseteq 0 .. Len(params.messages) - 1
        /\ signatures' = signatures
    BY <1>2 DEF CreatePok
  <2>2. Revealed(indexes, params.messages) = indexes
    BY <2>1 DEF Revealed
  <2>3. /\ made.signature \in signatures
        /\ made.signature.provider = "BbsPlusG1Provider"
        /\ made.asked \in Seq(Messages) \ {<<>>}
        /\ made.content = Content("BbsPlusG1Provider", made.asked)
        /\ made.shown = made.indexes
        /\ made.indexes \subseteq 0 .. Len(made.asked) - 1
    BY <2>1, <2>2, ReadableMessages
  <2> HIDE DEF made
  <2> QED BY <2>1, <2>3 DEF MadeAsAsked, Content
<1> QED BY <1>1, <1>2

LEMMA NextMade ==
    ASSUME MadeAsAsked, [Next]_vars
    PROVE  MadeAsAsked'
<1>1. ASSUME UNCHANGED <<signatures, proofs>>
      PROVE  MadeAsAsked'
  BY <1>1 DEF MadeAsAsked, Content
<1>2. CASE Return \/ UNCHANGED vars
  BY <1>1, <1>2 DEF Return, vars
<1>3. CASE CallPok
  BY <1>1, <1>3, PokMade DEF CallPok, VerifyPok
<1>4. CASE \E provider \in Providers : \E params \in ParamsOf(provider) :
              \/ \E count \in Counts : GenKeypair(provider, params.nonce, count)
              \/ \E pair \in Range(pairs) :
                  \/ Sign(provider, pair, params)
                  \/ \E signature \in signatures : Verify(provider, pair, signature, params)
  BY <1>1, <1>4, SignMade DEF GenKeypair, Verify
<1> QED BY <1>2, <1>3, <1>4 DEF Next, Call

LEMMA AllMadeAsAsked == Spec => []MadeAsAsked
<1>1. Init => MadeAsAsked
  BY DEF Init, MadeAsAsked
<1>2. MadeAsAsked /\ [Next]_vars => MadeAsAsked'
  BY NextMade
<1> QED BY <1>1, <1>2, PTL DEF Spec

-----------------------------------------------------------------------------
(* The answers *)

\* Only verify and pok/verify have an answer that the round trip is about.
LEMMA OtherAnswers ==
    ASSUME NEW provider, NEW params, NEW pair, NEW signature, NEW indexes, NEW count,
           \/ GenKeypair(provider, params.nonce, count)
           \/ Sign(provider, pair, params)
           \/ CreatePok(signature, params, indexes)
           \/ Return
    PROVE  answer'.route = "other"
<1>1. Nothing.route = "other"
  BY DEF Nothing
<1>2. /\ [Nothing EXCEPT !.result = "Panicked"].route = "other"
      /\ [Nothing EXCEPT !.result = "Error"].route = "other"
  BY DEF Nothing
<1>3. \/ answer' = Nothing
      \/ answer' = [Nothing EXCEPT !.result = "Panicked"]
      \/ answer' = [Nothing EXCEPT !.result = "Error"]
  BY Zenon DEF GenKeypair, Sign, CreatePok, Return, Panic
<1> QED BY <1>1, <1>2, <1>3

\* Every other answer is about one call of verify or of pok/verify.
LEMMA NextAnswer ==
    ASSUME Next
    PROVE  \/ answer'.route = "other"
           \/ \E provider \in Providers : \E params \in ParamsOf(provider) :
                 \E pair \in Range(pairs), signature \in signatures :
                    Verify(provider, pair, signature, params)
           \/ \E pair \in Range(pairs), proof \in proofs, revealed \in RevealedMaps,
                 nonce \in Nonces \cup {Garbled}, count \in Counts :
                    VerifyPok(pair, proof, revealed, nonce, count)
<1>1. CASE Return
  BY <1>1, OtherAnswers
<1>2. CASE CallPok
  BY <1>2, OtherAnswers DEF CallPok
<1>3. CASE \E provider \in Providers : \E params \in ParamsOf(provider) :
              \/ \E count \in Counts : GenKeypair(provider, params.nonce, count)
              \/ \E pair \in Range(pairs) :
                  \/ Sign(provider, pair, params)
                  \/ \E signature \in signatures : Verify(provider, pair, signature, params)
  BY <1>3, OtherAnswers
<1> QED BY <1>1, <1>2, <1>3 DEF Next, Call

-----------------------------------------------------------------------------
(* The round trip *)

LEMMA VerifyRoundTrip ==
    ASSUME MadeAsAsked, NEW provider \in Providers, NEW params \in ParamsOf(provider),
           NEW pair \in Range(pairs), NEW signature \in signatures,
           Verify(provider, pair, signature, params),
           signature.provider = provider, pair.provider = provider,
           signature.secret = pair.secret, signature.nonce = pair.nonce,
           params.nonce = pair.nonce, params.messages = signature.asked
    PROVE  answer'.result = "Yes"
<1>1. /\ signature.asked \in Seq(Messages) \ {<<>>} /\ signature.nonce # Garbled
      /\ signature.content = Content(provider, signature.asked)
  BY DEF MadeAsAsked
<1>2. \A i \in DOMAIN params.messages : params.messages[i] # Garbled
  BY <1>1, ProvidersAssumption
<1>3. Readable(params)
  BY <1>1, <1>2 DEF Readable, Range
<1>4. /\ PublicFits(provider, pair) /\ SignatureFits(provider, signature)
      /\ Accepts(pair, signature, params.nonce, Content(provider, params.messages))
  BY <1>1 DEF PublicFits, SignatureFits, Accepts
<1> QED BY <1>1, <1>3, <1>4 DEF Verify

LEMMA PokRoundTrip ==
    ASSUME MadeAsAsked, NEW pair \in Range(pairs), NEW proof \in proofs,
           NEW revealed, NEW nonce, NEW count,
           VerifyPok(pair, proof, revealed, nonce, count),
           pair.provider = "BbsPlusG1Provider",
           proof.signature.secret = pair.secret, proof.signature.nonce = pair.nonce,
           nonce = pair.nonce, proof.nonce = pair.nonce,
           proof.asked = proof.signature.asked, count = Len(proof.asked),
           revealed = [i \in proof.indexes |-> proof.asked[i + 1]]
    PROVE  answer'.result = "Yes"
<1>1. /\ proof.signature \in signatures
      /\ proof.signature.provider = "BbsPlusG1Provider"
      /\ proof.signature.nonce # Garbled
      /\ proof.signature.content = Content("BbsPlusG1Provider", proof.asked)
      /\ proof.asked \in Seq(Messages) \ {<<>>}
      /\ proof.content = Content("BbsPlusG1Provider", proof.asked)
      /\ proof.shown = proof.indexes
      /\ proof.indexes \subseteq 0 .. Len(proof.asked) - 1
  BY DEF MadeAsAsked
<1>2. "BbsPlusG1Provider" \in BbsPlus
  BY DEF BbsPlus
<1>3. Len(proof.content) = Len(proof.asked)
  BY <1>1, <1>2, ContentOf
<1>4. Len(proof.asked) # 0
  BY <1>1
<1>5. ASSUME NEW i \in proof.indexes
      PROVE  /\ revealed[i] # Garbled
             /\ Element[revealed[i]] = proof.content[i + 1]
  <2>1. i + 1 \in 1 .. Len(proof.asked) /\ revealed[i] = proof.asked[i + 1]
    BY <1>1
  <2>2. proof.asked[i + 1] \in Messages
    BY <1>1, <2>1
  <2> QED BY <1>1, <1>2, <2>1, <2>2, ContentOf, ProvidersAssumption
<1>6. DOMAIN revealed = proof.indexes
  OBVIOUS
<1>7. Fits(proof, revealed, count) /\ Proves(pair, proof, revealed, nonce)
  BY <1>1, <1>3, <1>5, <1>6 DEF Fits, Proves, Accepts
<1>8. \A i \in DOMAIN revealed : revealed[i] # Garbled
  BY <1>5, <1>6
<1>9. nonce # Garbled /\ count # 0
  BY <1>1, <1>4
<1>10. answer' = [route |-> "pok", by |-> "BbsPlusG1Provider", result |-> "Yes",
                  pair |-> pair, of |-> proof, nonce |-> nonce,
                  shown |-> revealed, count |-> count]
  BY <1>7, <1>8, <1>9, Zenon DEF VerifyPok
<1> QED BY <1>10

LEMMA NextRoundTrip ==
    ASSUME MadeAsAsked, Next
    PROVE  RoundTripSaysYes'
<1>1. CASE answer'.route = "other"
  BY <1>1 DEF RoundTripSaysYes
<1>2. ASSUME NEW provider \in Providers, NEW params \in ParamsOf(provider),
             NEW pair \in Range(pairs), NEW signature \in signatures,
             Verify(provider, pair, signature, params)
      PROVE  RoundTripSaysYes'
  <2>1. /\ answer'.route = "verify" /\ answer'.by = provider /\ answer'.pair = pair
        /\ answer'.of = signature /\ answer'.nonce = params.nonce
        /\ answer'.shown = params.messages
    BY <1>2 DEF Verify
  <2> QED BY <1>2, <2>1, VerifyRoundTrip DEF RoundTripSaysYes
<1>3. ASSUME NEW pair \in Range(pairs), NEW proof \in proofs, NEW revealed \in RevealedMaps,
             NEW nonce \in Nonces \cup {Garbled}, NEW count \in Counts,
             VerifyPok(pair, proof, revealed, nonce, count)
      PROVE  RoundTripSaysYes'
  <2>1. /\ answer'.route = "pok" /\ answer'.by = "BbsPlusG1Provider"
        /\ answer'.pair = pair /\ answer'.of = proof /\ answer'.nonce = nonce
        /\ answer'.shown = revealed /\ answer'.count = count
    BY <1>3 DEF VerifyPok
  <2> QED BY <1>3, <2>1, PokRoundTrip DEF RoundTripSaysYes
<1> QED BY <1>1, <1>2, <1>3, NextAnswer

\* What was signed with a key pair under its own nonce verifies under it, and so
\* does an honest proof of knowledge that shows any part of it, for any messages and
\* whatever else was called before: never "false", never a panic.
THEOREM HonestIsAccepted == Spec => []RoundTripSaysYes
<1>1. Init => RoundTripSaysYes
  BY DEF Init, Nothing, RoundTripSaysYes
<1>2. MadeAsAsked /\ RoundTripSaysYes /\ [Next]_vars => RoundTripSaysYes'
  <2>1. RoundTripSaysYes /\ UNCHANGED vars => RoundTripSaysYes'
    BY DEF vars, RoundTripSaysYes
  <2> QED BY <2>1, NextRoundTrip
<1> QED BY <1>1, <1>2, AllMadeAsAsked, PTL DEF Spec
=============================================================================
