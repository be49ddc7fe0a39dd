-------------------------------- MODULE Zkp --------------------------------
(***************************************************************************)
(* Credentials and presentations (routes/zkp.rs, crypto/zkp.rs).           *)
(*                                                                         *)
(* The /zkp routes keep nothing: what they return is in the hands of their *)
(* callers, and any caller may send any of it to any route, in any order   *)
(* and as often as it likes.  The state is therefore what has been handed  *)
(* out, and every handler is one action.  A presentation has one of two    *)
(* forms: the routes make and verify "sigma", present_native and           *)
(* verify_native of the library the other.                                 *)
(*                                                                         *)
(* zkp-util, which signs, proves and verifies, is outside the repository.  *)
(* It may fail to issue or to prove; a proof it makes says under whose     *)
(* public key the credential was signed, what it shows of the claims, with *)
(* which circuit keys, and, with a device binding, which device signed     *)
(* which challenge.  It accepts no proof of anything else, and accepts     *)
(* what it made when it is asked for just that.  What it does in between   *)
(* is not known here and left open: a binding that only one side asked     *)
(* for, fewer requirements than were presented, another id of the issuer.  *)
(***************************************************************************)
EXTENDS Naturals, FiniteSets, Functions

CONSTANTS
    Issuers,         \* what names an issuer: a public key, an id and a key id
    Devices,         \* P-256 device keys
    Challenges,      \* messages a verifier has a device sign, as bytes
    Scalar,          \* the field element a challenge is reduced to
    Claims,          \* claims: functions from property names to numbers
    Requirements,    \* lists of requirements, as sets: order does not matter
    Draws,           \* what generate_circuits may draw (bounds circuit keys)
    Malformed,       \* bytes that are no public key
    MaxCredentials,  \* bounds credentials
    MaxTokens,       \* bounds tokens
    Null,            \* Rust's None
    JsonNull         \* JSON's null, which is a value

\* What the base64 text of a credential decodes to: the two fields, or JSON
\* that lacks one of them.
Credential == [issuer : Issuers, device : Devices \cup {Null}, claims : Claims]

\* Circuits that zkp-util knows; those that have their source here.
CircuitIds == {"less_than_public_64", "larger_than_public_64"}

\* A requirement as it is sent: a circuit's id and its variables are any strings.
Requirement ==
    [type : {"required"}, key : STRING]
        \cup [type : {"circuit"}, circuit_id : STRING, private_var : STRING,
              private_key : STRING, public_var : STRING, public_val : Nat]

\* The proof about a device: the challenge its key signed, and whether the
\* signature verifies.
Binding == [device : Devices, challenge : Challenges]

ASSUME ZkpAssumption ==
    /\ \A issuer \in Issuers : issuer = [pk |-> issuer.pk, id |-> issuer.id, keyId |-> issuer.keyId]
    /\ Null \notin Devices /\ Null \notin Challenges /\ Null \notin Binding
    /\ Malformed \notin Binding /\ Malformed # Null
    /\ JsonNull \notin [device : Devices, scalar : Range(Scalar)] /\ JsonNull # Null
    /\ DOMAIN Scalar = Challenges
    /\ \A challenge \in Challenges : Scalar[challenge] # Null
    /\ Requirements \subseteq SUBSET Requirement
    /\ MaxCredentials \in Nat /\ MaxTokens \in Nat

VARIABLES
    credentials,  \* what issue has returned
    circuitKeys,  \* the key maps gen_proving_keys has returned, and what it was asked
    drawn,        \* what they were drawn from
    signed,       \* the field elements devices have signed
    tokens,       \* what present has returned
    verdict       \* the last answer, and what it was about

vars == <<credentials, circuitKeys, drawn, signed, tokens, verdict>>
handedOut == <<credentials, circuitKeys, drawn, signed, tokens>>

-----------------------------------------------------------------------------
Nothing ==
    [result |-> "None", form |-> Null, token |-> Null, issuer |-> Null,
     requirements |-> {}, challenge |-> Null, keys |-> Null]

Failed(result) == [Nothing EXCEPT !.result = result]

Init ==
    /\ credentials = {} /\ circuitKeys = {} /\ drawn = {} /\ signed = {} /\ tokens = {}
    /\ verdict = Nothing

\* What zkp-util is asked for.
Disclosed(key) == [kind |-> "Required", key |-> key]
Proven(id, private, key, public, value) ==
    [kind |-> "Circuit", id |-> id, private_var |-> private, key |-> key,
     public_var |-> public, value |-> value]

\* Each of the three routes has a map of its own from what is sent to it.
ConvertForKeys(r) ==
    IF r.type = "required" THEN Disclosed(r.key)
    ELSE Proven(r.circuit_id, r.private_var, r.private_key, r.public_var, r.public_val)

\* BUG: present's copy of the map swaps the names of the variables.
ConvertForPresentSwapped(r) ==
    IF r.type = "required" THEN Disclosed(r.key)
    ELSE Proven(r.circuit_id, r.public_var, r.private_key, r.private_var, r.public_val)

ConvertForPresent(r) ==
    IF r.type = "required" THEN Disclosed(r.key)
    ELSE Proven(r.circuit_id, r.private_var, r.private_key, r.public_var, r.public_val)

ConvertForVerify(r) ==
    IF r.type = "required" THEN Disclosed(r.key)
    ELSE Proven(r.circuit_id, r.private_var, r.private_key, r.public_var, r.public_val)

\* What a circuit proves of a claim and the verifier's number.
Relation(id, x, y) == IF id = "less_than_public_64" THEN x < y ELSE x > y

\* Can claims be presented so that q is met?
Meets(claims, q) ==
    /\ q.key \in DOMAIN claims
    /\ q.kind = "Circuit" =>
           q.id \in CircuitIds /\ Relation(q.id, claims[q.key], q.value)

CircuitsOf(qs) == {q.id : q \in {p \in qs : p.kind = "Circuit"}}

-----------------------------------------------------------------------------
(* issue, circuit-keys *)

\* zkp::issue: the claims become a graph, dates are parsed, the device's
\* coordinates split into limbs; or one of them is refused.
Issue(issuer, device, claims) ==
    /\ \/ /\ Cardinality(credentials) < MaxCredentials
          /\ credentials' = credentials \cup
                 {[issuer |-> issuer, device |-> device, claims |-> claims]}
          /\ verdict' = Nothing
       \/ /\ verdict' = Failed("IssueFailed")
          /\ UNCHANGED credentials
    /\ UNCHANGED <<circuitKeys, drawn, signed, tokens>>

\* A proving and a verifying key for each circuit, in two maps by circuit id; the
\* draw stands for both.  generate_circuits returns no Result: a circuit id that it
\* does not know is left out, or a panic.
GenProvingKeys(requirements) ==
    LET ids == CircuitsOf({ConvertForKeys(r) : r \in requirements}) IN
    /\ \/ /\ \E draw \in Draws \ drawn :
              /\ drawn' = drawn \cup {draw}
              /\ circuitKeys' = circuitKeys \cup
                     {[asked |-> requirements, of |-> [id \in ids \cap CircuitIds |-> draw]]}
          /\ verdict' = Nothing
       \/ /\ ~(ids \subseteq CircuitIds)
          /\ verdict' = Failed("Panicked")
          /\ UNCHANGED <<circuitKeys, drawn>>
    /\ UNCHANGED <<credentials, signed, tokens>>

\* A holder's device signs a verifier's challenge; no route is involved.
SignChallenge(device, challenge) ==
    /\ signed' = signed \cup {[device |-> device, scalar |-> Scalar[challenge]]}
    /\ verdict' = Nothing
    /\ UNCHANGED <<credentials, circuitKeys, drawn, tokens>>

-----------------------------------------------------------------------------
(* present *)

\* deserialize_public_key_uncompressed and deserialize_signature.
Decodes(binding) == binding # Malformed

\* BUG: the assert is gone, so that any binding is let into the presentation.
SignsUnchecked(binding) == TRUE

\* verify_prehashed, which present asserts.
Signs(binding) == [device |-> binding.device, scalar |-> Scalar[binding.challenge]] \in signed

\* What zkp-util returns about the device: a proof for a binding, nothing for none.
DeviceProof(binding) ==
    IF binding = Null THEN Null
    ELSE [device |-> binding.device, scalar |-> Scalar[binding.challenge]]

\* json!: an Option becomes the value or null; the key is always written.
EncodeBinding(db) == IF db = Null THEN JsonNull ELSE db

Presented(requirements) == {ConvertForPresent(r) : r \in requirements}

\* A presentation of a credential that can be decoded, under its issuer's key and
\* ids: with others, zkp-util fails or makes what it does not accept.
PresentAs(form, credential, requirements, binding, keys) ==
    LET shown == Presented(requirements)
        known == CircuitsOf(shown) \cap CircuitIds
        possible ==
            /\ CircuitsOf(shown) \subseteq DOMAIN keys.of
            /\ \A q \in shown : Meets(credential.claims, q)
    IN
    /\ \/ /\ binding # Null /\ ~Decodes(binding)
          /\ verdict' = Failed("PresentFailed")
          /\ UNCHANGED tokens
       \/ /\ binding # Null /\ Decodes(binding) /\ ~Signs(binding)
          /\ verdict' = Failed("Panicked")
          /\ UNCHANGED tokens
       \/ /\ binding # Null => Decodes(binding) /\ Signs(binding)
          /\ \/ /\ possible
                /\ Cardinality(tokens) < MaxTokens
                /\ tokens' = tokens \cup
                       {[form |-> form, credential |-> credential, shown |-> shown,
                         keys |-> keys, binding |-> EncodeBinding(DeviceProof(binding)),
                         asked |-> requirements]}
                /\ verdict' = Nothing
             \/ /\ ~(known \subseteq DOMAIN keys.of)
                /\ verdict' = [Failed("KeyMissing") EXCEPT !.requirements = requirements,
                                                          !.keys = keys]
                /\ UNCHANGED tokens
             \/ /\ known \subseteq DOMAIN keys.of
                /\ verdict' = Failed("PresentFailed")
                /\ UNCHANGED tokens
    /\ UNCHANGED <<credentials, circuitKeys, drawn, signed>>

Present(credential, requirements, binding, keys) ==
    PresentAs("sigma", credential, requirements, binding, keys)

\* The same steps up to another encoding of the binding; no route leads here.
PresentNative(credential, requirements, binding, keys) ==
    PresentAs("native", credential, requirements, binding, keys)

\* present on JSON that lacks document or proof: unwrap on None.
PresentUndecodable ==
    /\ verdict' = Failed("Panicked")
    /\ UNCHANGED handedOut

-----------------------------------------------------------------------------
(* verify *)

\* verify reads the field with get: null is a value, and not a string.
Parses(token) == token.binding # JsonNull

\* BUG: the verifier's copy of the map knows no circuits.
AskedOfClaimsDisclosed(requirements) ==
    {ConvertForVerify(r) : r \in {p \in requirements : p.type = "required"}}

AskedOfClaims(requirements) == {ConvertForVerify(r) : r \in requirements}

\* BUG: the verifier's device binding is not passed on.
AskedNothing(challenge) == Null

\* DeviceBindingVerificationParams: None, or the element that is to be signed.
AskedOfDevice(challenge) == IF challenge = Null THEN Null ELSE Scalar[challenge]

\* What zkp_util must be given to say yes to a token.
Proves(token, issuer, qs, scalar, keys) ==
    /\ token.credential.issuer.pk = issuer.pk
    /\ qs \subseteq token.shown
    /\ \A id \in CircuitsOf(qs) : id \in DOMAIN keys.of /\ keys.of[id] = token.keys.of[id]
    /\ scalar # Null =>
           token.binding = [device |-> token.credential.device, scalar |-> scalar]

\* The very things the token was made with, to which it does say yes.
IsFor(token, issuer, qs, scalar, keys) ==
    /\ Proves(token, issuer, qs, scalar, keys)
    /\ token.credential.issuer = issuer /\ qs = token.shown /\ scalar # Null

\* The verdict on a token of form; another form's binding may still be decoded, to
\* something else, and is then refused.
VerifyAs(form, token, issuer, requirements, challenge, keys) ==
    LET About(result) ==
            [result |-> result, form |-> form, token |-> token, issuer |-> issuer,
             requirements |-> requirements, challenge |-> challenge, keys |-> keys]
        qs == AskedOfClaims(requirements)
        scalar == AskedOfDevice(challenge)
    IN
    /\ \/ ~Parses(token) /\ verdict' = Failed("NotParsed")
       \/ /\ Parses(token) /\ token.form = form
          /\ Proves(token, issuer, qs, scalar, keys)
          /\ verdict' = About("Verified")
       \/ /\ Parses(token)
          /\ ~(token.form = form /\ IsFor(token, issuer, qs, scalar, keys))
          /\ verdict' = About("Refused")
    /\ UNCHANGED handedOut

Verify(token, issuer, requirements, challenge, keys) ==
    VerifyAs("sigma", token, issuer, requirements, challenge, keys)

\* DeviceBindingPresentationNative's deserialize returns no error: bytes of the
\* other form may be a panic.
VerifyNative(token, issuer, requirements, challenge, keys) ==
    \/ VerifyAs("native", token, issuer, requirements, challenge, keys)
    \/ /\ Parses(token) /\ token.form # "native"
       /\ verdict' = Failed("Panicked")
       /\ UNCHANGED handedOut

-----------------------------------------------------------------------------
Call ==
    \/ \E issuer \in Issuers, device \in Devices \cup {Null}, claims \in Claims :
           Issue(issuer, device, claims)
    \/ \E requirements \in Requirements : GenProvingKeys(requirements)
    \/ \E device \in Devices, challenge \in Challenges : SignChallenge(device, challenge)
    \/ \E credential \in credentials, requirements \in Requirements,
          binding \in Binding \cup {Null, Malformed}, keys \in circuitKeys :
           \/ Present(credential, requirements, binding, keys)
           \/ PresentNative(credential, requirements, binding, keys)
    \/ PresentUndecodable
    \/ \E token \in tokens, issuer \in Issuers,
          requirements \in Requirements, challenge \in Challenges \cup {Null},
          keys \in circuitKeys :
           \/ Verify(token, issuer, requirements, challenge, keys)
           \/ VerifyNative(token, issuer, requirements, challenge, keys)

\* The caller has its answer.
Return == verdict' = Nothing /\ UNCHANGED handedOut

\* Calls that overlap do nothing to each other, so one follows the other here.
Next ==
    \/ verdict = Nothing /\ Call
    \/ verdict # Nothing /\ Return

Spec == Init /\ [][Next]_vars

-----------------------------------------------------------------------------
(* What must hold *)

\* Whatever callers mix up, a verifier that asked for a device binding and was
\* told yes holds a presentation of a credential that was issued under the public
\* key it named, to a device, and that very device signed the verifier's own
\* challenge.
VerifiedWasSigned ==
    (verdict.result = "Verified" /\ verdict.challenge # Null) =>
        LET credential == verdict.token.credential IN
        /\ credential \in credentials
        /\ credential.issuer.pk = verdict.issuer.pk
        /\ [device |-> credential.device, scalar |-> Scalar[verdict.challenge]] \in signed

\* Whatever requirements the holder presented under, and with whatever circuit
\* keys: a verifier that was told yes holds a presentation of a credential issued
\* under the public key it named, whose claims meet every requirement it sent.
VerifiedMeetsRequirements ==
    verdict.result = "Verified" =>
        LET credential == verdict.token.credential IN
        /\ credential \in credentials
        /\ credential.issuer.pk = verdict.issuer.pk
        /\ \A r \in verdict.requirements :
               IF r.type = "required"
               THEN r.key \in DOMAIN credential.claims
               ELSE /\ r.circuit_id \in CircuitIds
                    /\ r.private_key \in DOMAIN credential.claims
                    /\ Relation(r.circuit_id, credential.claims[r.private_key], r.public_val)

\* test_roundtrip_zkp, for all requirements and among the calls of others.  The keys
\* made for a list of requirements are all that present needs for that list.  What
\* present made is not refused by a verifier that sends the same list and circuit
\* keys, names the issuer, and had the credential's device sign its challenge: the
\* routes convert a list into one and the same thing three times.
RoundTripVerifies ==
    /\ verdict.result = "KeyMissing" => verdict.keys.asked # verdict.requirements
    /\ verdict.result = "Refused" =>
           ~ LET token == verdict.token IN
             /\ verdict.form = token.form
             /\ verdict.requirements = token.asked /\ verdict.keys = token.keys
             /\ verdict.issuer = token.credential.issuer
             /\ verdict.challenge # Null
             /\ token.binding = [device |-> token.credential.device,
                                 scalar |-> Scalar[verdict.challenge]]

\* The inductive invariant: a presentation is of a credential that was issued,
\* shows of it only what it meets, and carries, if any, a binding that the device
\* it names has signed: whoever asked for it, and whatever was handed out since.
PresentationsMade ==
    \A token \in tokens :
        /\ token.credential \in credentials
        /\ \A q \in token.shown : Meets(token.credential.claims, q)
        /\ token.binding # JsonNull => token.binding \in signed

\* "Optional device binding that should be presented" and "Optional device
\* binding that should be checked" (models/zkp.rs:108, 163): what present
\* returns, with a binding or without, verify can at least read.
PresentedCanBeRead == verdict.result # "NotParsed"
=============================================================================
