------------------------------ MODULE ZkpProofs ------------------------------
(***************************************************************************)
(* What a verifier may rely on: the theorems about Zkp, for any issuers,   *)
(* devices, challenges, claims and lists of requirements.                  *)
(***************************************************************************)
EXTENDS Zkp, TLAPS

-----------------------------------------------------------------------------
(* What is handed out *)

\* Nobody takes back what a route has returned or a device has signed.
LEMMA NothingTakenBack ==
    ASSUME [Next]_vars
    PROVE  /\ credentials \subseteq credentials'
           /\ signed \subseteq signed'
<1>1. CASE Return \/ UNCHANGED vars
  BY <1>1 DEF Return, handedOut, vars
<1>2. CASE \E requirements \in Requirements : GenProvingKeys(requirements)
  BY <1>2 DEF GenProvingKeys
<1>3. CASE \E credential \in credentials, requirements \in Requirements,
              binding \in Binding \cup {Null, Malformed}, keys \in circuitKeys :
               \/ Present(credential, requirements, binding, keys)
               \/ PresentNative(credential, requirements, binding, keys)
  BY <1>3 DEF Present, PresentNative, PresentAs
<1> QED BY <1>1, <1>2, <1>3 DEF Next, Call, Issue, SignChallenge, PresentUndecodable,
           Verify, VerifyNative, VerifyAs, handedOut

\* A presentation stays good while more is handed out.
LEMMA OldPresentations ==
    ASSUME PresentationsMade, [Next]_vars, tokens' = tokens
    PROVE  PresentationsMade'
  BY NothingTakenBack DEF PresentationsMade, Meets, Relation

\* What present makes of a credential and a binding.
LEMMA NewPresentation ==
    ASSUME PresentationsMade, [Next]_vars,
           NEW form, NEW credential \in credentials, NEW requirements \in Requirements,
           NEW binding \in Binding \cup {Null, Malformed}, NEW keys \in circuitKeys,
           PresentAs(form, credential, requirements, binding, keys)
    PROVE  PresentationsMade'
<1>1. CASE UNCHANGED tokens
  BY <1>1, OldPresentations
<1>2. CASE ~UNCHANGED tokens
  <2> DEFINE made == [form |-> form, credential |-> credential,
                      shown |-> Presented(requirements),
                      keys |-> keys, binding |-> EncodeBinding(DeviceProof(binding)),
                      asked |-> requirements]
  <2>1. /\ tokens' = tokens \cup {made}
        /\ \A q \in Presented(requirements) : Meets(credential.claims, q)
        /\ binding # Null => Signs(binding)
    BY <1>2 DEF PresentAs
  <2>2. made.binding # JsonNull => made.binding \in signed
    BY <2>1 DEF EncodeBinding, DeviceProof, Signs
  <2>3. /\ made.credential \in credentials'
        /\ \A q \in made.shown : Meets(made.credential.claims, q)
        /\ made.binding # JsonNull => made.binding \in signed'
    BY <2>1, <2>2, NothingTakenBack
  <2>4. \A token \in tokens :
           /\ token.credential \in credentials'
           /\ \A q \in token.shown : Meets(token.credential.claims, q)
           /\ token.binding # JsonNull => token.binding \in signed'
    BY NothingTakenBack DEF PresentationsMade
  <2> HIDE DEF made
  <2>5. \A token \in tokens' :
           /\ token.credential \in credentials'
           /\ \A q \in token.shown : Meets(token.credential.claims, q)
           /\ token.binding # JsonNull => token.binding \in signed'
    BY <2>1, <2>3, <2>4
  <2> QED BY <2>5 DEF PresentationsMade, Meets, Relation
<1> QED BY <1>1, <1>2

LEMMA NextPresentations ==
    ASSUME PresentationsMade, [Next]_vars
    PROVE  PresentationsMade'
<1>1. CASE Return \/ UNCHANGED vars
  BY <1>1, OldPresentations DEF Return, handedOut, vars
<1>2. CASE Call
  <2>1. ASSUME NEW credential \in credentials, NEW requirements \in Requirements,
               NEW binding \in Binding \cup {Null, Malformed}, NEW keys \in circuitKeys,
               \/ Present(credential, requirements, binding, keys)
               \/ PresentNative(credential, requirements, binding, keys)
        PROVE  PresentationsMade'
    BY <2>1, NewPresentation DEF Present, PresentNative
  <2>2. ASSUME tokens' = tokens
        PROVE  PresentationsMade'
    BY <2>2, OldPresentations
  <2> QED BY <1>2, <2>1, <2>2 DEF Call, Issue, GenProvingKeys, SignChallenge,
             PresentUndecodable, Verify, VerifyNative, VerifyAs, handedOut
<1> QED BY <1>1, <1>2 DEF Next

\* A presentation, made over either form and passed on by anyone, is of an issued
\* credential, shows what it meets and is bound by the device it names.
THEOREM PresentationsAreMade == Spec => []PresentationsMade
<1>1. Init => PresentationsMade
  BY DEF Init, PresentationsMade
<1>2. PresentationsMade /\ [Next]_vars => PresentationsMade'
  BY NextPresentations
<1> QED BY <1>1, <1>2, PTL DEF Spec

-----------------------------------------------------------------------------
(* The verdict *)

\* What present answers, of either form.
LEMMA PresentAnswers ==
    ASSUME NEW form, NEW credential, NEW requirements, NEW binding, NEW keys,
           PresentAs(form, credential, requirements, binding, keys)
    PROVE  /\ verdict'.result \notin {"Verified", "Refused"}
           /\ verdict'.result = "KeyMissing" =>
                 /\ verdict'.requirements = requirements /\ verdict'.keys = keys
                 /\ ~(CircuitsOf(Presented(requirements)) \cap CircuitIds
                         \subseteq DOMAIN keys.of)
<1> DEFINE missing == [Failed("KeyMissing") EXCEPT !.requirements = requirements,
                                                   !.keys = keys]
<1>1. /\ Nothing.result = "None" /\ Failed("Panicked").result = "Panicked"
      /\ Failed("PresentFailed").result = "PresentFailed"
      /\ missing.result = "KeyMissing"
      /\ missing.requirements = requirements /\ missing.keys = keys
  BY DEF Failed, Nothing
<1> HIDE DEF missing
<1>2. \/ verdict' \in {Nothing, Failed("Panicked"), Failed("PresentFailed")}
      \/ /\ verdict' = missing
         /\ ~(CircuitsOf(Presented(requirements)) \cap CircuitIds \subseteq DOMAIN keys.of)
  BY Zenon DEF PresentAs, missing
<1> QED BY <1>1, <1>2

\* "Verified" and "Refused" are the answers of verify, of either form, and of no
\* other call.
LEMMA VerdictIsVerifys ==
    ASSUME Next, verdict'.result \in {"Verified", "Refused"}
    PROVE  \E form \in {"sigma", "native"}, token \in tokens, issuer \in Issuers,
              requirements \in Requirements, challenge \in Challenges \cup {Null},
              keys \in circuitKeys :
                  VerifyAs(form, token, issuer, requirements, challenge, keys)
<1> USE DEF Failed, Nothing
<1>1. CASE Return
  BY <1>1 DEF Return
<1>2. CASE Call
  <2>1. CASE \E issuer \in Issuers, device \in Devices \cup {Null}, claims \in Claims :
                 Issue(issuer, device, claims)
    BY <2>1 DEF Issue
  <2>2. CASE \/ \E requirements \in Requirements : GenProvingKeys(requirements)
             \/ \E device \in Devices, challenge \in Challenges :
                    SignChallenge(device, challenge)
             \/ PresentUndecodable
    BY <2>2 DEF GenProvingKeys, SignChallenge, PresentUndecodable
  <2>3. CASE \E credential \in credentials, requirements \in Requirements,
                binding \in Binding \cup {Null, Malformed}, keys \in circuitKeys :
                 \/ Present(credential, requirements, binding, keys)
                 \/ PresentNative(credential, requirements, binding, keys)
    BY <2>3, PresentAnswers DEF Present, PresentNative
  <2>4. ASSUME NEW token \in tokens, NEW issuer \in Issuers,
               NEW requirements \in Requirements, NEW challenge \in Challenges \cup {Null},
               NEW keys \in circuitKeys,
               \/ Verify(token, issuer, requirements, challenge, keys)
               \/ VerifyNative(token, issuer, requirements, challenge, keys)
        PROVE  \E form \in {"sigma", "native"} :
                   VerifyAs(form, token, issuer, requirements, challenge, keys)
    BY <2>4 DEF Verify, VerifyNative
  <2>5. CASE \E token \in tokens, issuer \in Issuers, requirements \in Requirements,
                challenge \in Challenges \cup {Null}, keys \in circuitKeys :
                 \/ Verify(token, issuer, requirements, challenge, keys)
                 \/ VerifyNative(token, issuer, requirements, challenge, keys)
    BY <2>4, <2>5
  <2> QED BY <1>2, <2>1, <2>2, <2>3, <2>5 DEF Call
<1> QED BY <1>1, <1>2 DEF Next

\* What a yes of it comes from, and what it is about.
LEMMA YesIsProven ==
    ASSUME NEW form, NEW token, NEW issuer, NEW requirements, NEW challenge, NEW keys,
           VerifyAs(form, token, issuer, requirements, challenge, keys),
           verdict'.result = "Verified"
    PROVE  /\ Parses(token)
           /\ Proves(token, issuer, AskedOfClaims(requirements),
                     AskedOfDevice(challenge), keys)
           /\ verdict'.token = token /\ verdict'.issuer = issuer
           /\ verdict'.requirements = requirements /\ verdict'.challenge = challenge
           /\ credentials' = credentials /\ signed' = signed
  BY DEF VerifyAs, Failed, Nothing, handedOut

LEMMA NextSigned ==
    ASSUME PresentationsMade, VerifiedWasSigned, [Next]_vars
    PROVE  VerifiedWasSigned'
<1>1. CASE UNCHANGED vars
  BY <1>1 DEF vars, VerifiedWasSigned
<1>2. CASE Next /\ verdict'.result = "Verified" /\ verdict'.challenge # Null
  <2>1. PICK form \in {"sigma", "native"}, token \in tokens, issuer \in Issuers,
             requirements \in Requirements, challenge \in Challenges \cup {Null},
             keys \in circuitKeys :
                VerifyAs(form, token, issuer, requirements, challenge, keys)
    BY <1>2, VerdictIsVerifys
  <2>2. /\ verdict'.token = token /\ verdict'.issuer = issuer
        /\ verdict'.challenge = challenge
        /\ credentials' = credentials /\ signed' = signed
    BY <1>2, <2>1, YesIsProven
  <2>3. /\ token.binding # JsonNull
        /\ Proves(token, issuer, AskedOfClaims(requirements),
                  AskedOfDevice(challenge), keys)
    BY <1>2, <2>1, YesIsProven DEF Parses
  <2>4. challenge \in Challenges /\ AskedOfDevice(challenge) = Scalar[challenge]
    BY <1>2, <2>2 DEF AskedOfDevice
  <2>5. /\ token.credential.issuer.pk = issuer.pk
        /\ token.binding = [device |-> token.credential.device, scalar |-> Scalar[challenge]]
    BY <2>3, <2>4, ZkpAssumption DEF Proves
  <2>6. token.credential \in credentials /\ token.binding \in signed
    BY <2>3 DEF PresentationsMade
  <2> QED BY <2>2, <2>5, <2>6 DEF VerifiedWasSigned
<1> QED BY <1>1, <1>2 DEF VerifiedWasSigned

\* A verifier that asked for a device binding, and was told yes by verify in either
\* form, has the signature of the very device of an issued credential on its own
\* challenge, for any number of credentials, presentations and challenges, and
\* whatever is passed to whom.
THEOREM DeviceSigned == Spec => []VerifiedWasSigned
<1>1. Init => VerifiedWasSigned
  BY DEF Init, Nothing, VerifiedWasSigned
<1>2. PresentationsMade /\ VerifiedWasSigned /\ [Next]_vars => VerifiedWasSigned'
  BY NextSigned
<1> QED BY <1>1, <1>2, PresentationsAreMade, PTL DEF Spec

-----------------------------------------------------------------------------
(* The requirements *)

\* The verifier's copy of the map loses no requirement and changes none: claims
\* that meet what verify asks zkp-util for meet what was sent to it.
LEMMA ConversionKeeps ==
    ASSUME NEW requirements \in Requirements, NEW claims,
           \A q \in AskedOfClaims(requirements) : Meets(claims, q),
           NEW r \in requirements
    PROVE  IF r.type = "required"
           THEN r.key \in DOMAIN claims
           ELSE /\ r.circuit_id \in CircuitIds
                /\ r.private_key \in DOMAIN claims
                /\ Relation(r.circuit_id, claims[r.private_key], r.public_val)
<1>1. Meets(claims, ConvertForVerify(r))
  BY DEF AskedOfClaims
<1>2. CASE r.type = "required"
  BY <1>1, <1>2 DEF ConvertForVerify, Disclosed, Meets
<1>3. CASE r.type # "required"
  <2>1. ConvertForVerify(r) = Proven(r.circuit_id, r.private_var, r.private_key,
                                     r.public_var, r.public_val)
    BY <1>3 DEF ConvertForVerify
  <2> QED BY <1>1, <1>3, <2>1 DEF Proven, Meets
<1> QED BY <1>2, <1>3

LEMMA NextMeets ==
    ASSUME PresentationsMade, VerifiedMeetsRequirements, [Next]_vars
    PROVE  VerifiedMeetsRequirements'
<1>1. CASE UNCHANGED vars
  BY <1>1 DEF vars, VerifiedMeetsRequirements, Relation
<1>2. CASE Next /\ verdict'.result = "Verified"
  <2>1. PICK form \in {"sigma", "native"}, token \in tokens, issuer \in Issuers,
             requirements \in Requirements, challenge \in Challenges \cup {Null},
             keys \in circuitKeys :
                VerifyAs(form, token, issuer, requirements, challenge, keys)
    BY <1>2, VerdictIsVerifys
  <2>2. /\ verdict'.token = token /\ verdict'.issuer = issuer
        /\ verdict'.requirements = requirements
        /\ credentials' = credentials
    BY <1>2, <2>1, YesIsProven
  <2>3. Proves(token, issuer, AskedOfClaims(requirements), AskedOfDevice(challenge), keys)
    BY <1>2, <2>1, YesIsProven
  <2>4. /\ token.credential \in credentials
        /\ token.credential.issuer.pk = issuer.pk
        /\ \A q \in AskedOfClaims(requirements) : Meets(token.credential.claims, q)
    BY <2>3 DEF PresentationsMade, Proves
  <2>5. \A r \in requirements :
           IF r.type = "required"
           THEN r.key \in DOMAIN token.credential.claims
           ELSE /\ r.circuit_id \in CircuitIds
                /\ r.private_key \in DOMAIN token.credential.claims
                /\ Relation(r.circuit_id, token.credential.claims[r.private_key],
                            r.public_val)
    BY <2>4, ConversionKeeps
  <2> QED BY <2>2, <2>4, <2>5 DEF VerifiedMeetsRequirements, Relation
<1> QED BY <1>1, <1>2 DEF VerifiedMeetsRequirements

\* A verifier that was told yes holds a presentation of a credential issued under the
\* public key it named, and the claims in it meet all that it sent, whatever the holder presented
\* under and whichever circuit keys the two of them used.
THEOREM RequirementsMet == Spec => []VerifiedMeetsRequirements
<1>1. Init => VerifiedMeetsRequirements
  BY DEF Init, Nothing, VerifiedMeetsRequirements
<1>2. PresentationsMade /\ VerifiedMeetsRequirements /\ [Next]_vars =>
          VerifiedMeetsRequirements'
  BY NextMeets
<1> QED BY <1>1, <1>2, PresentationsAreMade, PTL DEF Spec

-----------------------------------------------------------------------------
(* The round trip *)

\* What the round trip rests on: the keys that were handed out are for the circuits
\* that were asked for, and a presentation shows what was asked of present and was
\* made with all the keys that this takes.
HandedAsAsked ==
    /\ \A keys \in circuitKeys :
          DOMAIN keys.of = CircuitsOf({ConvertForKeys(r) : r \in keys.asked}) \cap CircuitIds
    /\ \A token \in tokens :
          /\ token.shown = Presented(token.asked)
          /\ CircuitsOf(token.shown) \subseteq DOMAIN token.keys.of

\* The three copies of the map are one.
LEMMA OneConversion ==
    ASSUME NEW requirements
    PROVE  /\ Presented(requirements) = AskedOfClaims(requirements)
           /\ Presented(requirements) = {ConvertForKeys(r) : r \in requirements}
<1>1. ASSUME NEW r
      PROVE  /\ ConvertForPresent(r) = ConvertForVerify(r)
             /\ ConvertForPresent(r) = ConvertForKeys(r)
  BY DEF ConvertForPresent, ConvertForVerify, ConvertForKeys
<1> QED BY <1>1 DEF Presented, AskedOfClaims

LEMMA NewKeys ==
    ASSUME HandedAsAsked, NEW requirements, GenProvingKeys(requirements)
    PROVE  HandedAsAsked'
<1>1. tokens' = tokens
  BY DEF GenProvingKeys
<1>2. ASSUME NEW keys \in circuitKeys'
      PROVE  DOMAIN keys.of = CircuitsOf({ConvertForKeys(r) : r \in keys.asked}) \cap CircuitIds
  <2>1. CASE keys \in circuitKeys
    BY <2>1 DEF HandedAsAsked
  <2>2. CASE keys \notin circuitKeys
    <3> DEFINE ids == CircuitsOf({ConvertForKeys(r) : r \in requirements})
    <3>1. PICK draw :
              circuitKeys' = circuitKeys \cup
                  {[asked |-> requirements, of |-> [id \in ids \cap CircuitIds |-> draw]]}
      BY <1>2, <2>2, Zenon DEF GenProvingKeys
    <3> HIDE DEF ids
    <3>2. keys.asked = requirements /\ DOMAIN keys.of = ids \cap CircuitIds
      BY <1>2, <2>2, <3>1
    <3> QED BY <3>2 DEF ids
  <2> QED BY <2>1, <2>2
<1> QED BY <1>1, <1>2 DEF HandedAsAsked, CircuitsOf, CircuitIds, Presented

LEMMA NewToken ==
    ASSUME HandedAsAsked, NEW form, NEW credential, NEW requirements, NEW binding, NEW keys,
           PresentAs(form, credential, requirements, binding, keys)
    PROVE  HandedAsAsked'
<1>1. circuitKeys' = circuitKeys
  BY DEF PresentAs
<1>2. ASSUME NEW token \in tokens'
      PROVE  /\ token.shown = Presented(token.asked)
             /\ CircuitsOf(token.shown) \subseteq DOMAIN token.keys.of
  <2>1. CASE token \in tokens
    BY <2>1 DEF HandedAsAsked
  <2>2. CASE token \notin tokens
    <3> DEFINE shown == Presented(requirements)
    <3>1. /\ token = [form |-> form, credential |-> credential, shown |-> shown,
                      keys |-> keys, binding |-> EncodeBinding(DeviceProof(binding)),
                      asked |-> requirements]
          /\ CircuitsOf(shown) \subseteq DOMAIN keys.of
      BY <1>2, <2>2 DEF PresentAs
    <3> HIDE DEF shown
    <3>2. token.shown = shown /\ token.keys = keys /\ token.asked = requirements
      BY <3>1
    <3> QED BY <3>1, <3>2 DEF shown
  <2> QED BY <2>1, <2>2
<1> QED BY <1>1, <1>2 DEF HandedAsAsked, CircuitsOf, CircuitIds, Presented

LEMMA NextHanded ==
    ASSUME HandedAsAsked, [Next]_vars
    PROVE  HandedAsAsked'
<1>1. ASSUME UNCHANGED <<circuitKeys, tokens>>
      PROVE  HandedAsAsked'
  BY <1>1 DEF HandedAsAsked, CircuitsOf, CircuitIds, Presented
<1>2. CASE Return \/ UNCHANGED vars
  BY <1>1, <1>2 DEF Return, handedOut, vars
<1>3. CASE \E requirements \in Requirements : GenProvingKeys(requirements)
  BY <1>3, NewKeys
<1>4. CASE \E credential \in credentials, requirements \in Requirements,
              binding \in Binding \cup {Null, Malformed}, keys \in circuitKeys :
               \/ Present(credential, requirements, binding, keys)
               \/ PresentNative(credential, requirements, binding, keys)
  BY <1>4, NewToken DEF Present, PresentNative
<1> QED BY <1>1, <1>2, <1>3, <1>4 DEF Next, Call, Issue, SignChallenge,
           PresentUndecodable, Verify, VerifyNative, VerifyAs, handedOut

\* present misses no key of those that were made for its requirements.
LEMMA NoKeyMissing ==
    ASSUME HandedAsAsked, Next, verdict'.result = "KeyMissing"
    PROVE  verdict'.keys.asked # verdict'.requirements
<1>1. PICK form \in {"sigma", "native"}, credential \in credentials,
           requirements \in Requirements, binding \in Binding \cup {Null, Malformed},
           keys \in circuitKeys :
              PresentAs(form, credential, requirements, binding, keys)
  <2>1. CASE \E requirements \in Requirements : GenProvingKeys(requirements)
    BY <2>1 DEF GenProvingKeys, Failed, Nothing
  <2>2. CASE \E token \in tokens, issuer \in Issuers, requirements \in Requirements,
                challenge \in Challenges \cup {Null}, keys \in circuitKeys :
                 \/ Verify(token, issuer, requirements, challenge, keys)
                 \/ VerifyNative(token, issuer, requirements, challenge, keys)
    BY <2>2 DEF Verify, VerifyNative, VerifyAs, Failed, Nothing
  <2>3. CASE \/ Return \/ PresentUndecodable
             \/ \E issuer \in Issuers, device \in Devices \cup {Null}, claims \in Claims :
                    Issue(issuer, device, claims)
             \/ \E device \in Devices, challenge \in Challenges :
                    SignChallenge(device, challenge)
    BY <2>3 DEF Return, PresentUndecodable, Issue, SignChallenge, Failed, Nothing
  <2>4. CASE \E credential \in credentials, requirements \in Requirements,
                binding \in Binding \cup {Null, Malformed}, keys \in circuitKeys :
                 \/ Present(credential, requirements, binding, keys)
                 \/ PresentNative(credential, requirements, binding, keys)
    BY <2>4, Zenon DEF Present, PresentNative
  <2> QED BY <2>1, <2>2, <2>3, <2>4 DEF Next, Call
<1>2. /\ verdict'.requirements = requirements /\ verdict'.keys = keys
      /\ ~(CircuitsOf(Presented(requirements)) \cap CircuitIds \subseteq DOMAIN keys.of)
  BY <1>1, PresentAnswers
<1>3. DOMAIN keys.of = CircuitsOf(Presented(keys.asked)) \cap CircuitIds
  BY OneConversion DEF HandedAsAsked
<1> QED BY <1>2, <1>3

\* verify refuses no presentation to the verifier it was made for.
LEMMA NotRefused ==
    ASSUME HandedAsAsked, NEW form, NEW token \in tokens, NEW issuer, NEW requirements,
           NEW challenge \in Challenges, NEW keys,
           VerifyAs(form, token, issuer, requirements, challenge, keys),
           form = token.form, requirements = token.asked, keys = token.keys,
           issuer = token.credential.issuer,
           token.binding = [device |-> token.credential.device, scalar |-> Scalar[challenge]]
    PROVE  verdict'.result # "Refused"
<1>1. /\ AskedOfClaims(requirements) = token.shown
      /\ CircuitsOf(token.shown) \subseteq DOMAIN token.keys.of
  BY OneConversion DEF HandedAsAsked
<1>2. AskedOfDevice(challenge) = Scalar[challenge] /\ Scalar[challenge] # Null
  BY ZkpAssumption DEF AskedOfDevice
<1>3. IsFor(token, issuer, AskedOfClaims(requirements), AskedOfDevice(challenge), keys)
  BY <1>1, <1>2 DEF IsFor, Proves
<1> QED BY <1>3 DEF VerifyAs, Failed, Nothing

LEMMA NextRoundTrip ==
    ASSUME HandedAsAsked, RoundTripVerifies, [Next]_vars
    PROVE  RoundTripVerifies'
<1>1. CASE UNCHANGED vars
  BY <1>1 DEF vars, RoundTripVerifies
<1>2. CASE Next /\ verdict'.result = "KeyMissing"
  BY <1>2, NoKeyMissing DEF RoundTripVerifies
<1>3. CASE Next /\ verdict'.result = "Refused"
  <2>1. PICK form \in {"sigma", "native"}, token \in tokens, issuer \in Issuers,
             requirements \in Requirements, challenge \in Challenges \cup {Null},
             keys \in circuitKeys :
                VerifyAs(form, token, issuer, requirements, challenge, keys)
    BY <1>3, VerdictIsVerifys
  <2>2. /\ verdict'.form = form /\ verdict'.token = token /\ verdict'.issuer = issuer
        /\ verdict'.requirements = requirements /\ verdict'.challenge = challenge
        /\ verdict'.keys = keys
    BY <1>3, <2>1 DEF VerifyAs, Failed, Nothing
  <2> QED BY <1>3, <2>1, <2>2, NotRefused DEF RoundTripVerifies
<1> QED BY <1>1, <1>2, <1>3 DEF RoundTripVerifies

\* The keys made for a list of requirements are all that present needs for it, and
\* what it makes for a device's signature on the verifier's challenge is not refused
\* under the same list: the three conversions agree, for any list of requirements,
\* and whatever else is called in between.
THEOREM HonestIsNotRefused == Spec => []RoundTripVerifies
<1>1. Init => HandedAsAsked /\ RoundTripVerifies
  BY DEF Init, HandedAsAsked, Nothing, RoundTripVerifies
<1>2. HandedAsAsked /\ [Next]_vars => HandedAsAsked'
  BY NextHanded
<1>3. HandedAsAsked /\ RoundTripVerifies /\ [Next]_vars => RoundTripVerifies'
  BY NextRoundTrip
<1> QED BY <1>1, <1>2, <1>3, PTL DEF Spec
=============================================================================
