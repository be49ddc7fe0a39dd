---------------------------- MODULE Comparators ----------------------------
(***************************************************************************)
(* The comparator circuits (circom/circuits/comparators.circom).           *)
(*                                                                         *)
(* A template is read in two ways.  The program compiled from it computes  *)
(* a witness from the inputs, following the assignments (<--).  A verifier *)
(* checks the constraints (===) only, and whoever proves may choose any    *)
(* field elements that satisfy them.  Both are here: the behaviour goes    *)
(* through the template, a signal at a time, and `hinted' says which of    *)
(* the two provers it is.                                                  *)
(***************************************************************************)
EXTENDS Integers, Sequences

CONSTANTS
    Prime,    \* the order of the field
    MaxWidth, \* the largest n that LessThan's assert lets pass (252)
    Widths    \* the n that templates are instantiated with (bounds n)

\* 1<<i
Pow2[i \in Nat] == IF i = 0 THEN 1 ELSE 2 * Pow2[i - 1]

ASSUME FieldAssumption ==
    /\ Prime \in Nat \ {0, 1}
    /\ \A x, y \in 2 .. Prime - 1 : x * y # Prime
    /\ MaxWidth \in Nat /\ Pow2[MaxWidth + 1] < Prime
    /\ Widths \subseteq Nat

Field == 0 .. Prime - 1

Add(x, y) == (x + y) % Prime
Sub(x, y) == (x - y) % Prime
Mul(x, y) == (x * y) % Prime

Orders == {"LessThan", "LessEqThan", "GreaterThan", "GreaterEqThan"}
Templates == Orders \cup {"IsEqual"}

VARIABLES
    template,  \* the template and the width it is instantiated with
    n,
    hinted,    \* is the witness the one the assignments compute?
    a, b,      \* the inputs
    in,        \* the input of Num2Bits, or of IsZero
    bits,      \* Num2Bits' signals out[0], out[1], ... so far
    lc1, e2,   \* Num2Bits' variables
    out,       \* the output signal
    phase      \* what comes next, or how it ended

vars == <<template, n, hinted, a, b, in, bits, lc1, e2, out, phase>>

-----------------------------------------------------------------------------
\* BUG: the assert is one off.
CompilesOneMore(width) == width <= MaxWidth + 1

\* assert(n <= 252), in the LessThan that every order contains.
Compiles(width) == width <= MaxWidth

\* BUG: the bound that is not strict is taken for the strict one.
OperandsStrict(t, x, y) ==
    IF t \in {"LessThan", "LessEqThan"} THEN <<x, y>> ELSE <<y, x>>

\* lt.a and lt.b of the LessThan inside.
Operands(t, x, y) ==
    CASE t = "LessThan"      -> <<x, y>>
      [] t = "LessEqThan"    -> <<x, Add(y, 1)>>
      [] t = "GreaterThan"   -> <<y, x>>
      [] t = "GreaterEqThan" -> <<y, Add(x, 1)>>

\* BUG: Num2Bits(n), as if the difference had no borrow bit.
BitCountWithoutBorrow == n

\* LessThan's Num2Bits(n+1).
BitCount == n + 1

\* LessThan's n2b.in, and IsEqual's isz.in.
Input(t, width, x, y) ==
    IF t = "IsEqual" THEN Sub(y, x)
    ELSE LET lt == Operands(t, x, y) IN Sub(Add(Pow2[width], lt[1]), lt[2])

\* An instantiated template is given its inputs.
Init ==
    /\ template \in Templates
    /\ n \in Widths /\ (template \in Orders => Compiles(n))
    /\ hinted \in BOOLEAN
    /\ a \in Field /\ b \in Field
    /\ in = Input(template, n, a, b)
    /\ bits = <<>> /\ lc1 = 0 /\ e2 = 1
    /\ out = 0
    /\ phase = IF template = "IsEqual" THEN "IsZero" ELSE "Num2Bits"

Given == UNCHANGED <<template, n, hinted, a, b, in>>

Reject ==
    /\ phase' = "Rejected"
    /\ bits' = <<>> /\ lc1' = 0 /\ e2' = 1 /\ out' = 0

\* (in >> i) & 1
BitHint(i) == (in \div Pow2[i]) % 2

\* BUG: the bit is assigned (<--) and never constrained (===).
IsAnything(bit) == TRUE

\* out[i] * (out[i] - 1) === 0
IsBit(bit) == Mul(bit, Sub(bit, 1)) = 0

\* One round of the loop in Num2Bits.
Num2BitsRound ==
    /\ phase = "Num2Bits" /\ Len(bits) < BitCount
    /\ \E bit \in IF hinted THEN {BitHint(Len(bits))} ELSE Field :
           \/ /\ IsBit(bit)
              /\ bits' = Append(bits, bit)
              /\ lc1' = Add(lc1, Mul(bit, e2))
              /\ e2' = Add(e2, e2)
              /\ UNCHANGED <<out, phase>>
           \/ ~IsBit(bit) /\ Reject
    /\ Given

\* After the loop: lc1 === in, and LessThan's out <== 1 - n2b.out[n].
Num2BitsSum ==
    /\ phase = "Num2Bits" /\ Len(bits) = BitCount
    /\ \/ /\ lc1 = in
          /\ out' = Sub(1, bits[BitCount])
          /\ phase' = "Accepted"
          /\ UNCHANGED <<bits, lc1, e2>>
       \/ lc1 # in /\ Reject
    /\ Given

\* in != 0 ? 1/in : 0
InverseHint == IF in = 0 THEN 0 ELSE CHOOSE y \in Field : Mul(in, y) = 1

\* IsZero: out <== -in*inv + 1, then in*out === 0.
IsZero ==
    /\ phase = "IsZero"
    /\ \E inv \in IF hinted THEN {InverseHint} ELSE Field :
           LET o == Sub(1, Mul(in, inv)) IN
           \/ /\ Mul(in, o) = 0
              /\ out' = o /\ phase' = "Accepted"
              /\ UNCHANGED <<bits, lc1, e2>>
           \/ Mul(in, o) # 0 /\ Reject
    /\ Given

Next == Num2BitsRound \/ Num2BitsSum \/ IsZero

Spec == Init /\ [][Next]_vars

-----------------------------------------------------------------------------
(* What must hold *)

\* What an instance was given stays, and decides which template is run.
GivenOK ==
    /\ template \in Templates /\ n \in Widths /\ (template \in Orders => Compiles(n))
    /\ hinted \in BOOLEAN /\ a \in Field /\ b \in Field
    /\ in = Input(template, n, a, b)
    /\ phase \in {"Num2Bits", "IsZero", "Accepted", "Rejected"}
    /\ phase = "Num2Bits" => template \in Orders
    /\ phase = "IsZero" => template = "IsEqual"

\* The bits are the digits of lc1, which is below e2; the hints are the low bits
\* of in.  Neither lc1 nor e2 has wrapped around the field.
LoopOK ==
    /\ bits \in Seq({0, 1}) /\ Len(bits) <= BitCount
    /\ e2 = Pow2[Len(bits)] /\ lc1 \in 0 .. e2 - 1
    /\ \A i \in 1 .. Len(bits) : bits[i] = (lc1 \div Pow2[i - 1]) % 2
    /\ hinted => lc1 = in % e2

\* A verdict depends on in only: an order takes what fits into n+1 bits, and
\* shows the top one; IsEqual takes everything, and compares it with 0.
VerdictOK ==
    /\ phase = "Accepted" =>
           IF template = "IsEqual" THEN out = IF in = 0 THEN 1 ELSE 0
           ELSE /\ Len(bits) = BitCount /\ lc1 = in /\ in < Pow2[n + 1]
                /\ out = IF in < Pow2[n] THEN 1 ELSE 0
    /\ phase = "Rejected" /\ hinted => template \in Orders /\ in >= Pow2[n + 1]

\* Whatever field elements the prover chooses for its bits, in every round they
\* are the digits of a number that has not wrapped around, and a verdict on that
\* number depends on the inputs alone.
CircuitInv == GivenOK /\ LoopOK /\ VerdictOK

\* The integer a field element stands for when its top values are negative.
Signed(x) == IF x <= Prime \div 2 THEN x ELSE x - Prime

\* "N is the number of bits the input have": both inputs unsigned, or both in
\* two's complement, as a template may be used for either.
Unsigned == a \in 0 .. Pow2[n] - 1 /\ b \in 0 .. Pow2[n] - 1
InWidth ==
    \/ Unsigned
    \/ /\ n > 0
       /\ \A x \in {a, b} : Signed(x) \in -Pow2[n - 1] .. Pow2[n - 1] - 1

Holds(x, y) ==
    CASE template = "LessThan"      -> x < y
      [] template = "LessEqThan"    -> x <= y
      [] template = "GreaterThan"   -> x > y
      [] template = "GreaterEqThan" -> x >= y
      [] template = "IsEqual"       -> x = y

\* Whatever witness a prover finds for inputs of n bits, the output is 1 if the
\* integers compare as the template says, and else 0; at the ends of the range
\* too, where b+1 needs one bit more than b.  IsEqual: for all field elements.
OutputIsComparison ==
    (phase = "Accepted" /\ (template = "IsEqual" \/ InWidth)) =>
        out = IF IF Unsigned THEN Holds(a, b) ELSE Holds(Signed(a), Signed(b))
              THEN 1 ELSE 0

\* For inputs of n bits the witness that the assignments compute satisfies the
\* constraints: an honest prover is never stuck.
HintedIsAccepted ==
    (hinted /\ (template = "IsEqual" \/ InWidth)) => phase # "Rejected"

\* For any field elements, in width or not: what an order accepts has a
\* difference that fits into n bits and a sign, and the output is the sign.  So
\* the output is a function of the inputs, and wrapping around the field cannot
\* produce two.
OutputIsSign ==
    (phase = "Accepted" /\ template \in Orders) =>
        LET lt == Operands(template, a, b)
            difference == {d \in -Pow2[n] .. Pow2[n] - 1 : d % Prime = Sub(lt[1], lt[2])}
        IN \E d \in difference : difference = {d} /\ out = IF d < 0 THEN 1 ELSE 0

\* The constraints of Num2Bits leave a prover no choice: the only signals that
\* satisfy them are the ones the assignments compute.
WitnessIsComputed ==
    (phase = "Accepted" /\ template \in Orders) =>
        bits = [i \in 1 .. BitCount |-> BitHint(i - 1)]
=============================================================================
