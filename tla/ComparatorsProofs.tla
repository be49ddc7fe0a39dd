------------------------- MODULE ComparatorsProofs --------------------------
(***************************************************************************)
(* The comparator circuits, for every prime field, every width under the   *)
(* assert and every witness: the outputs are what the templates say.       *)
(*                                                                         *)
(* The arithmetic that this takes is proved first: the powers of 2, and    *)
(* multiplication modulo a prime.  Each induction in it goes by a least    *)
(* number that would be an exception.                                      *)
(***************************************************************************)
EXTENDS Comparators, WellFoundedInduction, TLAPS

-----------------------------------------------------------------------------
(* The least number *)

LEMMA LeastNumber ==
    ASSUME NEW T \in SUBSET Nat, T # {}
    PROVE  \E x \in T : \A y \in T : x <= y
<1>1. \E x \in T : \A y \in T : ~(<<y, x>> \in OpToRel(<, Nat))
  BY WFMin, NatLessThanWellFounded
<1>2. \A x, y \in Nat : <<y, x>> \in OpToRel(<, Nat) <=> y < x
  BY Zenon DEF OpToRel
<1>3. PICK x \in T : \A y \in T : ~(<<y, x>> \in OpToRel(<, Nat))
  BY <1>1, Zenon
<1>4. \A y \in T : ~(y < x)
  BY <1>2, <1>3, Zenon
<1> QED BY <1>4

-----------------------------------------------------------------------------
(* Powers of 2 *)

\* The first powers of 2, up to the m-th.
Doubling(g, m) ==
    /\ g \in [0 .. m -> Nat]
    /\ g[0] = 1
    /\ \A i \in 1 .. m : g[i] = 2 * g[i - 1]

LEMMA DoublingExists == \A m \in Nat : \E g : Doubling(g, m)
<1> DEFINE T == {m \in Nat : ~\E g : Doubling(g, m)}
<1> SUFFICES ASSUME T # {} PROVE FALSE
  OBVIOUS
<1>1. PICK m \in T : \A k \in T : m <= k
  BY LeastNumber
<1>2. CASE m = 0
  <2>1. Doubling([i \in 0 .. 0 |-> 1], 0)
    BY DEF Doubling
  <2> QED BY <1>2, <2>1
<1>3. CASE m # 0
  <2>1. PICK g : Doubling(g, m - 1)
    <3>1. m - 1 \in Nat /\ m - 1 \notin T
      BY <1>1, <1>3
    <3> QED BY <3>1
  <2> DEFINE h == [i \in 0 .. m |-> IF i = m THEN 2 * g[m - 1] ELSE g[i]]
  <2>2. Doubling(h, m)
    <3>1. g \in [0 .. m - 1 -> Nat] /\ g[0] = 1
      BY <2>1 DEF Doubling
    <3>2. h \in [0 .. m -> Nat] /\ h[0] = 1
      BY <1>3, <3>1
    <3>3. \A i \in 1 .. m : h[i] = 2 * h[i - 1]
      BY <1>3, <2>1 DEF Doubling
    <3> QED BY <3>2, <3>3 DEF Doubling
  <2> QED BY <2>2
<1> QED BY <1>2, <1>3

LEMMA DoublingUnique ==
    ASSUME NEW m \in Nat, NEW k \in Nat, NEW g, NEW h,
           Doubling(g, m), Doubling(h, k)
    PROVE  \A i \in Nat : i <= m /\ i <= k => g[i] = h[i]
<1> DEFINE T == {i \in Nat : i <= m /\ i <= k /\ g[i] # h[i]}
<1> SUFFICES ASSUME T # {} PROVE FALSE
  OBVIOUS
<1>1. PICK i \in T : \A j \in T : i <= j
  BY LeastNumber
<1>2. i # 0
  BY <1>1 DEF Doubling
<1>3. g[i - 1] = h[i - 1]
  <2>1. i - 1 \in Nat /\ i - 1 \notin T
    BY <1>1, <1>2
  <2> QED BY <2>1
<1> QED BY <1>2, <1>3 DEF Doubling

LEMMA Pow2Def == Pow2 = [i \in Nat |-> IF i = 0 THEN 1 ELSE 2 * Pow2[i - 1]]
<1> DEFINE first(m) == CHOOSE g : Doubling(g, m)
           f == [m \in Nat |-> first(m)[m]]
<1>1. \A m \in Nat : Doubling(first(m), m)
  BY DoublingExists
<1> HIDE DEF first
<1>2. f[0] = 1
  BY <1>1 DEF Doubling
<1>3. \A m \in Nat \ {0} : f[m] = 2 * f[m - 1]
  <2> SUFFICES ASSUME NEW m \in Nat \ {0} PROVE f[m] = 2 * f[m - 1]
    OBVIOUS
  <2>1. m - 1 \in Nat
    OBVIOUS
  <2>2. first(m)[m] = 2 * first(m)[m - 1]
    BY <1>1 DEF Doubling
  <2>3. first(m)[m - 1] = first(m - 1)[m - 1]
    BY <1>1, <2>1, DoublingUnique
  <2> QED BY <2>1, <2>2, <2>3
<1>4. f = [i \in Nat |-> IF i = 0 THEN 1 ELSE 2 * f[i - 1]]
  BY <1>2, <1>3
<1> HIDE DEF f
<1>5. \E g : g = [i \in Nat |-> IF i = 0 THEN 1 ELSE 2 * g[i - 1]]
  BY <1>4
<1> QED BY <1>5 DEF Pow2

LEMMA Pow2Step ==
    /\ Pow2[0] = 1
    /\ \A i \in Nat : Pow2[i + 1] = 2 * Pow2[i]
<1>1. Pow2[0] = 1
  BY Pow2Def
<1>2. ASSUME NEW i \in Nat PROVE Pow2[i + 1] = 2 * Pow2[i]
  <2>1. i + 1 \in Nat /\ i + 1 # 0 /\ (i + 1) - 1 = i
    OBVIOUS
  <2> QED BY <2>1, Pow2Def
<1> QED BY <1>1, <1>2

LEMMA Pow2Positive == \A i \in Nat : Pow2[i] \in Nat \ {0}
<1> DEFINE T == {i \in Nat : Pow2[i] \notin Nat \ {0}}
<1> SUFFICES ASSUME T # {} PROVE FALSE
  OBVIOUS
<1>1. PICK i \in T : \A j \in T : i <= j
  BY LeastNumber
<1>2. i # 0
  BY Pow2Step
<1>3. Pow2[i - 1] \in Nat \ {0} /\ i - 1 \in Nat
  <2>1. i - 1 \in Nat /\ i - 1 \notin T
    BY <1>1, <1>2
  <2> QED BY <2>1
<1>4. Pow2[i] = 2 * Pow2[i - 1]
  <2>1. (i - 1) + 1 = i
    OBVIOUS
  <2> QED BY <1>3, <2>1, Pow2Step
<1> QED BY <1>3, <1>4

LEMMA Pow2Monotone ==
    ASSUME NEW i \in Nat, NEW k \in Nat, i <= k
    PROVE  Pow2[i] <= Pow2[k]
<1> DEFINE T == {j \in Nat : i <= j /\ ~(Pow2[i] <= Pow2[j])}
<1> SUFFICES ASSUME T # {} PROVE FALSE
  OBVIOUS
<1>1. PICK j \in T : \A l \in T : j <= l
  BY LeastNumber
<1>2. j # i
  BY Pow2Positive
<1>3. j - 1 \in Nat /\ Pow2[i] <= Pow2[j - 1]
  <2>1. j - 1 \in Nat /\ i <= j - 1 /\ j - 1 \notin T
    BY <1>1, <1>2
  <2> QED BY <2>1
<1>4. Pow2[j] = 2 * Pow2[j - 1]
  <2>1. (j - 1) + 1 = j
    OBVIOUS
  <2> QED BY <1>3, <2>1, Pow2Step
<1> QED BY <1>3, <1>4, Pow2Positive

\* A smaller power divides a larger one, with a factor of 2 to spare.
LEMMA Pow2Divides ==
    ASSUME NEW i \in Nat, NEW k \in Nat, i < k
    PROVE  \E c \in Nat : Pow2[k] = (2 * c) * Pow2[i]
<1> DEFINE T == {j \in Nat : i < j /\ ~\E c \in Nat : Pow2[j] = (2 * c) * Pow2[i]}
<1> SUFFICES ASSUME T # {} PROVE FALSE
  OBVIOUS
<1>1. PICK j \in T : \A l \in T : j <= l
  BY LeastNumber
<1>2. j - 1 \in Nat /\ (j - 1) + 1 = j
  OBVIOUS
<1>3. Pow2[j] = 2 * Pow2[j - 1] /\ Pow2[i] \in Nat
  BY <1>2, Pow2Step, Pow2Positive
<1>4. CASE j - 1 = i
  <2>1. Pow2[j] = (2 * 1) * Pow2[i]
    BY <1>3, <1>4
  <2> QED BY <2>1
<1>5. CASE j - 1 # i
  <2>1. PICK c \in Nat : Pow2[j - 1] = (2 * c) * Pow2[i]
    <3>1. i < j - 1 /\ j - 1 \notin T
      BY <1>1, <1>2, <1>5
    <3> QED BY <1>2, <3>1
  <2>2. Pow2[j] = (2 * (2 * c)) * Pow2[i] /\ 2 * c \in Nat
    BY <1>3, <2>1
  <2> QED BY <2>2
<1> QED BY <1>4, <1>5

-----------------------------------------------------------------------------
(* Arithmetic in the field *)

LEMMA Division ==
    ASSUME NEW m \in Nat \ {0}, NEW x \in Int
    PROVE  /\ x \div m \in Int
           /\ x % m \in 0 .. m - 1
           /\ x = ((x \div m) * m) + (x % m)
  OBVIOUS

LEMMA Remainder ==
    ASSUME NEW m \in Nat \ {0}, NEW q \in Int, NEW r \in 0 .. m - 1
    PROVE  ((q * m) + r) % m = r
  OBVIOUS

\* Multiples do not count.
LEMMA ModShift ==
    ASSUME NEW m \in Nat \ {0}, NEW q \in Int, NEW x \in Int
    PROVE  ((q * m) + x) % m = x % m
<1> DEFINE k == x \div m
           r == x % m
<1>1. k \in Int /\ r \in 0 .. m - 1 /\ x = (k * m) + r
  BY Division
<1> HIDE DEF k, r
<1>2. (q * m) + x = ((q + k) * m) + r
  BY <1>1
<1>3. q + k \in Int
  BY <1>1
<1>4. (((q + k) * m) + r) % m = r
  BY <1>1, <1>3, Remainder
<1>5. ((k * m) + r) % m = r
  BY <1>1, Remainder
<1> QED BY <1>1, <1>2, <1>4, <1>5

\* A factor may be reduced before the product is.
LEMMA ModMul ==
    ASSUME NEW m \in Nat \ {0}, NEW x \in Int, NEW y \in Int
    PROVE  (x * (y % m)) % m = (x * y) % m
<1> DEFINE k == y \div m
           r == y % m
<1>1. k \in Int /\ r \in 0 .. m - 1 /\ y = (k * m) + r
  BY Division
<1> HIDE DEF k, r
<1>2. x * y = ((x * k) * m) + (x * r)
  BY <1>1
<1>3. x * k \in Int /\ x * r \in Int
  BY <1>1
<1>4. (((x * k) * m) + (x * r)) % m = (x * r) % m
  BY <1>3, ModShift
<1>5. (x * y) % m = (x * r) % m
  BY <1>2, <1>4
<1> QED BY <1>5 DEF r

\* A summand may be reduced before the sum is.
LEMMA ModAdd ==
    ASSUME NEW m \in Nat \ {0}, NEW x \in Int, NEW y \in Int
    PROVE  (x + (y % m)) % m = (x + y) % m
<1> DEFINE k == y \div m
           r == y % m
<1>1. k \in Int /\ r \in 0 .. m - 1 /\ y = (k * m) + r
  BY Division
<1> HIDE DEF k, r
<1>2. x + y = (k * m) + (x + r)
  BY <1>1
<1>3. x + r \in Int
  BY <1>1
<1>4. ((k * m) + (x + r)) % m = (x + r) % m
  BY <1>1, <1>3, ModShift
<1>5. (x + y) % m = (x + r) % m
  BY <1>2, <1>4
<1> QED BY <1>5 DEF r

\* Every element but 0 has an inverse: the least multiple of x, modulo Prime,
\* divides Prime, and so is 1.
LEMMA InverseExists ==
    ASSUME NEW x \in 1 .. Prime - 1
    PROVE  \E y \in Field : Mul(x, y) = 1
<1> USE FieldAssumption
<1> DEFINE T == {d \in Nat \ {0} : \E y \in Field : Mul(x, y) = d}
<1>1. x \in T
  BY DEF Mul, Field
<1>2. PICK d \in T : \A c \in T : d <= c
  <2>1. T \in SUBSET Nat /\ T # {}
    BY <1>1
  <2> QED BY <2>1, LeastNumber
<1>3. PICK y \in Field : Mul(x, y) = d
  OBVIOUS
<1>4. d \in 1 .. Prime - 1 /\ y \in Int
  BY <1>3, Division DEF Mul, Field
<1> SUFFICES ASSUME d # 1 PROVE FALSE
  BY <1>3
<1> DEFINE q == Prime \div d
           r == Prime % d
<1>5. q \in Int /\ r \in 0 .. d - 1 /\ Prime = (q * d) + r
  BY <1>4, Division
<1> HIDE DEF q, r
<1>6. CASE r = 0
  <2>1. Prime = q * d /\ d \in 2 .. Prime - 1
    BY <1>4, <1>5, <1>6
  <2>2. q \in 2 .. Prime - 1
    <3>1. q >= 1
      BY <2>1, <1>5
    <3>2. q # 1
      BY <2>1
    <3>3. q < Prime
      BY <2>1, <3>1, <1>5
    <3> QED BY <3>1, <3>2, <3>3, <1>5
  <2> QED BY <2>1, <2>2
<1>7. CASE r # 0
  <2>0. PICK k \in Int : k = -q
    BY <1>5
  <2> DEFINE z == (k * y) % Prime
             p == x * y
  <2>1. z \in Field
    <3>1. k * y \in Int
      BY <1>4
    <3> QED BY <3>1, Division DEF Field
  <2>2. Mul(x, z) = (x * (k * y)) % Prime
    <3> DEFINE s == k * y
    <3>1. s \in Int /\ x \in Int /\ Prime \in Nat \ {0}
      BY <1>4
    <3> HIDE DEF s
    <3>2. (x * (s % Prime)) % Prime = (x * s) % Prime
      BY <3>1, ModMul
    <3> QED BY <3>2 DEF Mul, s
  <2>3. x * (k * y) = k * p
    BY <1>4
  <2>4. (k * p) % Prime = (k * d) % Prime
    <3>1. p \in Int /\ p % Prime = d
      BY <1>3, <1>4 DEF Mul
    <3> HIDE DEF p
    <3>2. (k * (p % Prime)) % Prime = (k * p) % Prime
      BY <3>1, ModMul
    <3> QED BY <3>1, <3>2
  <2>5. (k * d) % Prime = r
    <3>1. k * d = (-1 * Prime) + r
      BY <1>4, <1>5, <2>0
    <3>2. r \in 0 .. Prime - 1
      BY <1>4, <1>5
    <3> QED BY <3>1, <3>2, Remainder
  <2>6. r \in T
    BY <2>1, <2>2, <2>3, <2>4, <2>5, <1>5, <1>7
  <2> QED BY <2>6, <1>2, <1>4, <1>5
<1> QED BY <1>6, <1>7

\* Without divisors of 0: Euclid's lemma for field elements.
LEMMA NoZeroDivisors ==
    ASSUME NEW x \in Field, NEW y \in Field, Mul(x, y) = 0
    PROVE  x = 0 \/ y = 0
<1> USE FieldAssumption
<1> SUFFICES ASSUME x # 0 PROVE y = 0
  OBVIOUS
<1>1. PICK z \in Field : Mul(x, z) = 1
  <2>1. x \in 1 .. Prime - 1
    BY DEF Field
  <2> QED BY <2>1, InverseExists
<1>2. x \in Int /\ y \in Int /\ z \in Int
  BY DEF Field
<1>3. (y * (x * z)) % Prime = y
  <2>1. (y * ((x * z) % Prime)) % Prime = (y * (x * z)) % Prime
    <3> DEFINE p == x * z
    <3>1. p \in Int
      BY <1>2
    <3> HIDE DEF p
    <3>2. (y * (p % Prime)) % Prime = (y * p) % Prime
      BY <3>1, <1>2, ModMul
    <3> QED BY <3>2 DEF p
  <2>2. (y * 1) % Prime = y
    BY <1>2 DEF Field
  <2> QED BY <2>1, <2>2, <1>1 DEF Mul
<1>4. (z * (x * y)) % Prime = 0
  <2>1. (z * ((x * y) % Prime)) % Prime = (z * (x * y)) % Prime
    <3> DEFINE p == x * y
    <3>1. p \in Int
      BY <1>2
    <3> HIDE DEF p
    <3>2. (z * (p % Prime)) % Prime = (z * p) % Prime
      BY <3>1, <1>2, ModMul
    <3> QED BY <3>2 DEF p
  <2>2. (z * 0) % Prime = 0
    BY <1>2
  <2> QED BY <2>1, <2>2 DEF Mul
<1>5. y * (x * z) = z * (x * y)
  BY <1>2
<1> QED BY <1>3, <1>4, <1>5

-----------------------------------------------------------------------------
(* The inputs of the circuits *)

LEMMA PrimePositive == Prime \in Nat \ {0, 1}
  BY FieldAssumption

\* Under the assert n + 1 bits do not wrap around the field.
LEMMA WidthFits ==
    ASSUME NEW w \in Widths, Compiles(w)
    PROVE  /\ w \in Nat /\ Pow2[w] \in Nat \ {0}
           /\ Pow2[w + 1] = 2 * Pow2[w] /\ Pow2[w + 1] < Prime
<1>1. w \in Nat /\ MaxWidth \in Nat /\ w <= MaxWidth
  BY FieldAssumption DEF Compiles
<1>2. Pow2[w + 1] <= Pow2[MaxWidth + 1]
  BY <1>1, Pow2Monotone
<1>3. w + 1 \in Nat /\ MaxWidth + 1 \in Nat
  BY <1>1
<1>4. Pow2[w + 1] \in Nat /\ Pow2[MaxWidth + 1] \in Nat
  BY <1>3, Pow2Positive
<1>5. Pow2[MaxWidth + 1] < Prime /\ Prime \in Nat
  BY FieldAssumption
<1>6. Pow2[w] \in Nat \ {0} /\ Pow2[w + 1] = 2 * Pow2[w]
  BY <1>1, Pow2Positive, Pow2Step
<1>7. Pow2[w + 1] < Prime
  BY <1>2, <1>4, <1>5
<1> QED BY <1>1, <1>6, <1>7

LEMMA OperandsInField ==
    ASSUME NEW t \in Orders, NEW x \in Field, NEW y \in Field
    PROVE  /\ Operands(t, x, y)[1] \in Field
           /\ Operands(t, x, y)[2] \in Field
<1>1. Add(x, 1) \in Field /\ Add(y, 1) \in Field
  BY PrimePositive, Division DEF Add, Field
<1> QED BY <1>1 DEF Operands, Orders

\* Sums and differences of representatives are representatives.
LEMMA ModDifference ==
    ASSUME NEW m \in Int, NEW u \in Int, NEW v \in Int
    PROVE  Sub(Add(m, u % Prime), v % Prime) = (m + (u - v)) % Prime
<1> USE PrimePositive
<1> DEFINE w == m + u
           r == v % Prime
           k == v \div Prime
<1>1. w \in Int /\ Prime \in Nat \ {0}
  OBVIOUS
<1>2. r \in Int /\ k \in Int /\ v = (k * Prime) + r
  BY Division
<1>3. Add(m, u % Prime) = w % Prime
  BY ModAdd DEF Add
<1> HIDE DEF w, r, k
<1>4. -r \in Int /\ w % Prime \in Int
  BY <1>1, <1>2, Division
<1>5. (-r + (w % Prime)) % Prime = (-r + w) % Prime
  BY <1>1, <1>4, ModAdd
<1>6. -r + w = (k * Prime) + (w - v) /\ w - v \in Int
  BY <1>1, <1>2
<1>7. ((k * Prime) + (w - v)) % Prime = (w - v) % Prime
  BY <1>1, <1>2, <1>6, ModShift
<1>8. (w % Prime) - r = -r + (w % Prime)
  BY <1>2, <1>4
<1>9. w - v = m + (u - v)
  BY DEF w
<1> QED BY <1>3, <1>5, <1>6, <1>7, <1>8, <1>9 DEF Sub, r

LEMMA InputInField ==
    ASSUME NEW t \in Templates, NEW w \in Widths, t \in Orders => Compiles(w),
           NEW x \in Field, NEW y \in Field
    PROVE  Input(t, w, x, y) \in Field
<1> USE PrimePositive
<1>1. CASE t = "IsEqual"
  <2>1. y - x \in Int
    BY DEF Field
  <2> QED BY <1>1, <2>1, Division DEF Input, Sub, Field
<1>2. CASE t \in Orders
  <2> DEFINE l == Operands(t, x, y)[1]
             r == Operands(t, x, y)[2]
             s == Add(Pow2[w], l)
  <2>1. l \in Int /\ r \in Int
    BY <1>2, OperandsInField DEF Field
  <2>2. Pow2[w] \in Int
    BY <1>2, WidthFits
  <2> HIDE DEF l, r
  <2>3. Pow2[w] + l \in Int
    BY <2>1, <2>2
  <2>4. s \in Int
    BY <2>3, Division DEF Add
  <2> HIDE DEF s
  <2>5. s - r \in Int
    BY <2>1, <2>4
  <2>6. Sub(s, r) \in Field
    BY <2>5, Division DEF Sub, Field
  <2>7. t # "IsEqual"
    BY <1>2 DEF Orders
  <2> QED BY <2>6, <2>7 DEF Input, s, l, r
<1> QED BY <1>1, <1>2 DEF Templates

\* What an order subtracts, over the integers.
Difference(t, x, y) ==
    CASE t = "LessThan"      -> x - y
      [] t = "LessEqThan"    -> x - (y + 1)
      [] t = "GreaterThan"   -> y - x
      [] t = "GreaterEqThan" -> y - (x + 1)

\* LessThan's input is that difference, shifted by 2^n, whichever integers the
\* field elements stand for.
LEMMA InputIsDifference ==
    ASSUME NEW t \in Orders, NEW w \in Nat, NEW u \in Int, NEW v \in Int
    PROVE  Input(t, w, u % Prime, v % Prime)
               = (Pow2[w] + Difference(t, u, v)) % Prime
<1> USE PrimePositive
<1>1. Pow2[w] \in Int
  BY Pow2Positive
<1>2. \A z \in Int : Add(z % Prime, 1) = (z + 1) % Prime
  <2> SUFFICES ASSUME NEW z \in Int PROVE Add(z % Prime, 1) = (z + 1) % Prime
    OBVIOUS
  <2>1. z % Prime \in Int
    BY Division
  <2>2. (1 + (z % Prime)) % Prime = (1 + z) % Prime
    <3>1. Prime \in Nat \ {0} /\ 1 \in Int
      OBVIOUS
    <3> QED BY <3>1, ModAdd
  <2>3. (z % Prime) + 1 = 1 + (z % Prime) /\ z + 1 = 1 + z
    BY <2>1
  <2> QED BY <2>2, <2>3 DEF Add
<1> DEFINE u1 == u + 1
           v1 == v + 1
<1>3. /\ Add(u % Prime, 1) = u1 % Prime /\ u1 \in Int
      /\ Add(v % Prime, 1) = v1 % Prime /\ v1 \in Int
  <2>1. u1 \in Int /\ v1 \in Int
    OBVIOUS
  <2>2. Add(u % Prime, 1) = u1 % Prime
    BY <1>2
  <2>3. Add(v % Prime, 1) = v1 % Prime
    BY <1>2
  <2> QED BY <2>1, <2>2, <2>3
<1> HIDE DEF u1, v1
<1>4. CASE t = "LessThan"
  BY <1>1, <1>4, ModDifference DEF Input, Operands, Difference
<1>5. CASE t = "LessEqThan"
  <2>1. Input(t, w, u % Prime, v % Prime) = Sub(Add(Pow2[w], u % Prime), v1 % Prime)
    BY <1>3, <1>5 DEF Input, Operands
  <2>2. Difference(t, u, v) = u - v1
    BY <1>5 DEF Difference, v1
  <2>3. Sub(Add(Pow2[w], u % Prime), v1 % Prime) = (Pow2[w] + (u - v1)) % Prime
    BY <1>1, <1>3, ModDifference
  <2> QED BY <2>1, <2>2, <2>3
<1>6. CASE t = "GreaterThan"
  BY <1>1, <1>6, ModDifference DEF Input, Operands, Difference
<1>7. CASE t = "GreaterEqThan"
  <2>1. Input(t, w, u % Prime, v % Prime) = Sub(Add(Pow2[w], v % Prime), u1 % Prime)
    BY <1>3, <1>7 DEF Input, Operands
  <2>2. Difference(t, u, v) = v - u1
    BY <1>7 DEF Difference, u1
  <2>3. Sub(Add(Pow2[w], v % Prime), u1 % Prime) = (Pow2[w] + (v - u1)) % Prime
    BY <1>1, <1>3, ModDifference
  <2> QED BY <2>1, <2>2, <2>3
<1> QED BY <1>4, <1>5, <1>6, <1>7 DEF Orders

-----------------------------------------------------------------------------
(* Num2Bits *)

\* out[i] * (out[i] - 1) === 0 leaves 0 and 1: the field has no other root.
LEMMA BitsAreBits ==
    ASSUME NEW bit \in Field
    PROVE  IsBit(bit) <=> bit \in {0, 1}
<1> USE PrimePositive
<1>1. CASE bit = 0
  <2>1. Sub(0, 1) \in Int
    BY Division DEF Sub
  <2>2. 0 * Sub(0, 1) = 0
    BY <2>1
  <2> QED BY <1>1, <2>2 DEF IsBit, Mul
<1>2. CASE bit = 1
  BY <1>2 DEF IsBit, Mul, Sub
<1>3. CASE bit \notin {0, 1}
  <2>1. Sub(bit, 1) = bit - 1 /\ bit - 1 \in Field /\ bit - 1 # 0
    BY <1>3 DEF Sub, Field
  <2> QED BY <1>3, <2>1, NoZeroDivisors DEF IsBit
<1> QED BY <1>1, <1>2, <1>3

\* One binary digit more of a number.
LEMMA NextDigit ==
    ASSUME NEW m \in Nat \ {0}, NEW x \in Nat
    PROVE  x % (2 * m) = (x % m) + (((x \div m) % 2) * m)
<1> DEFINE q == x \div m
           r == x % m
<1>1. q \in Int /\ r \in 0 .. m - 1 /\ x = (q * m) + r
  BY Division
<1> HIDE DEF q, r
<1> DEFINE h == q \div 2
           d == q % 2
<1>2. h \in Int /\ d \in 0 .. 1 /\ q = (h * 2) + d
  BY <1>1, Division
<1> HIDE DEF h, d
<1>3. x = (h * (2 * m)) + (r + (d * m))
  BY <1>1, <1>2
<1>4. r + (d * m) \in 0 .. (2 * m) - 1
  <2>1. d = 0 \/ d = 1
    BY <1>2
  <2> QED BY <1>1, <2>1
<1>5. ((h * (2 * m)) + (r + (d * m))) % (2 * m) = r + (d * m)
  <2>1. 2 * m \in Nat \ {0}
    OBVIOUS
  <2> QED BY <1>2, <1>4, <2>1, Remainder
<1> QED BY <1>3, <1>5 DEF r, d, q

LEMMA Quotient ==
    ASSUME NEW m \in Nat \ {0}, NEW q \in Int, NEW r \in 0 .. m - 1
    PROVE  ((q * m) + r) \div m = q
  OBVIOUS

\* A bit above them leaves the digits of a number alone,
LEMMA LowDigit ==
    ASSUME NEW p \in Nat \ {0}, NEW c \in Nat, NEW l \in Nat, NEW bit \in {0, 1}
    PROVE  ((l + (bit * ((2 * c) * p))) \div p) % 2 = (l \div p) % 2
<1> DEFINE q == l \div p
           r == l % p
<1>1. q \in Int /\ r \in 0 .. p - 1 /\ l = (q * p) + r
  BY Division
<1> HIDE DEF q, r
<1>2. PICK f \in Nat : f = bit * c
  OBVIOUS
<1>3. l + (bit * ((2 * c) * p)) = (((f * 2) + q) * p) + r
  <2>1. CASE bit = 0
    <3>1. f = 0 /\ bit * ((2 * c) * p) = 0 /\ (f * 2) + q = q
      BY <1>1, <1>2, <2>1
    <3> QED BY <1>1, <3>1
  <2>2. CASE bit = 1
    <3>1. f = c /\ bit * ((2 * c) * p) = (2 * c) * p
      BY <1>2, <2>2
    <3>2. ((c * 2) + q) * p = ((2 * c) * p) + (q * p)
      BY <1>1
    <3> QED BY <1>1, <3>1, <3>2
  <2> QED BY <2>1, <2>2
<1>4. (f * 2) + q \in Int
  BY <1>1
<1>5. ((((f * 2) + q) * p) + r) \div p = (f * 2) + q
  BY <1>1, <1>4, Quotient
<1>6. ((f * 2) + q) % 2 = q % 2
  BY <1>1, ModShift
<1> QED BY <1>3, <1>5, <1>6 DEF q

\* and the top digit says in which half it is.
LEMMA TopDigit ==
    ASSUME NEW m \in Nat \ {0}, NEW l \in 0 .. (2 * m) - 1
    PROVE  (l \div m) % 2 = IF l < m THEN 0 ELSE 1
<1>1. CASE l < m
  <2>1. ((0 * m) + l) \div m = 0
    BY <1>1, Quotient
  <2> QED BY <1>1, <2>1
<1>2. CASE ~(l < m)
  <2>1. l - m \in 0 .. m - 1 /\ l = (1 * m) + (l - m)
    BY <1>2
  <2>2. ((1 * m) + (l - m)) \div m = 1
    BY <2>1, Quotient
  <2> QED BY <1>2, <2>1, <2>2
<1> QED BY <1>1, <1>2

\* One round: where lc1 and e2 still fit, a bit doubles e2 and decides whether
\* lc1 goes into the upper half.
LEMMA RoundFits ==
    ASSUME NEW m \in Nat \ {0}, 2 * m < Prime, NEW l \in 0 .. m - 1, NEW bit \in {0, 1}
    PROVE  /\ Add(m, m) = 2 * m
           /\ Add(l, Mul(bit, m)) = l + (bit * m)
           /\ l + (bit * m) \in 0 .. (2 * m) - 1
           /\ bit = IF l + (bit * m) < m THEN 0 ELSE 1
<1> USE PrimePositive
<1>1. \A z \in 0 .. Prime - 1 : z % Prime = z
  OBVIOUS
<1>2. Add(m, m) = 2 * m
  BY <1>1 DEF Add
<1>3. CASE bit = 0
  <2>1. Mul(0, m) = 0
    BY <1>1 DEF Mul
  <2> QED BY <1>1, <1>2, <1>3, <2>1 DEF Add
<1>4. CASE bit = 1
  <2>1. Mul(1, m) = m
    BY <1>1 DEF Mul
  <2> QED BY <1>1, <1>2, <1>4, <2>1 DEF Add
<1> QED BY <1>3, <1>4

\* The loop before its first round.
LEMMA NoDigits ==
    /\ <<>> \in Seq({0, 1}) /\ Len(<<>>) = 0
    /\ Pow2[0] = 1
    /\ \A x \in Nat : x % 1 = 0
<1>1. <<>> \in Seq({0, 1}) /\ Len(<<>>) = 0
  OBVIOUS
<1>2. \A x \in Nat : x % 1 \in 0 .. 1 - 1
  BY Division
<1> QED BY <1>1, <1>2, Pow2Step

LEMMA ResetLoop ==
    ASSUME bits' = <<>>, lc1' = 0, e2' = 1, n' \in Nat, in' \in Nat
    PROVE  LoopOK'
<1>1. bits' \in Seq({0, 1}) /\ Len(bits') = 0
  BY NoDigits
<1>2. Len(bits') <= BitCount'
  <2>1. BitCount' = n' + 1
    BY DEF BitCount
  <2>2. \A k \in Nat : 0 <= k + 1
    OBVIOUS
  <2>3. 0 <= n' + 1
    BY <2>2, Zenon
  <2> QED BY <1>1, <2>1, <2>3
<1>3. e2' = Pow2[Len(bits')]
  BY <1>1, NoDigits
<1>4. lc1' \in 0 .. e2' - 1
  OBVIOUS
<1>5. lc1' = in' % e2'
  BY NoDigits
<1>6. \A i \in 1 .. Len(bits') : bits'[i] = (lc1' \div Pow2[i - 1]) % 2
  BY <1>1
<1> QED BY <1>1, <1>2, <1>3, <1>4, <1>5, <1>6 DEF LoopOK

LEMMA RoundStep ==
    ASSUME CircuitInv, Num2BitsRound
    PROVE  CircuitInv'
<1> DEFINE L == Len(bits)
           m == Pow2[L]
<1> USE PrimePositive
<1>1. /\ template \in Orders /\ n \in Widths /\ Compiles(n) /\ hinted \in BOOLEAN
      /\ a \in Field /\ b \in Field /\ in \in Field
  BY InputInField DEF Num2BitsRound, CircuitInv, GivenOK
<1>2. /\ bits \in Seq({0, 1}) /\ L \in Nat /\ L < n + 1
      /\ e2 = m /\ lc1 \in 0 .. m - 1 /\ (hinted => lc1 = in % m)
  BY DEF Num2BitsRound, CircuitInv, LoopOK, BitCount
<1>3. m \in Nat \ {0} /\ Pow2[L + 1] = 2 * m /\ 2 * m < Prime
  <2>1. n \in Nat /\ Pow2[n + 1] < Prime /\ L + 1 <= n + 1
    BY <1>1, <1>2, WidthFits
  <2>2. Pow2[L + 1] <= Pow2[n + 1]
    BY <1>2, <2>1, Pow2Monotone
  <2>3. m \in Nat \ {0} /\ Pow2[L + 1] = 2 * m
    BY <1>2, Pow2Positive, Pow2Step
  <2>4. Pow2[n + 1] \in Nat
    BY <2>1, Pow2Positive
  <2> QED BY <2>1, <2>2, <2>3, <2>4
<1> HIDE DEF m
<1>4. PICK bit \in IF hinted THEN {BitHint(L)} ELSE Field :
          \/ /\ IsBit(bit)
             /\ bits' = Append(bits, bit)
             /\ lc1' = Add(lc1, Mul(bit, e2))
             /\ e2' = Add(e2, e2)
             /\ UNCHANGED <<out, phase>>
          \/ ~IsBit(bit) /\ Reject
  BY DEF Num2BitsRound
<1>5. hinted => bit = (in \div m) % 2 /\ bit \in {0, 1}
  <2>1. in \div m \in Int
    BY <1>1, <1>3, Division DEF Field
  <2>2. (in \div m) % 2 \in {0, 1}
    BY <2>1
  <2> QED BY <1>4, <2>2 DEF BitHint, m
<1>6. bit \in Field
  BY <1>4, <1>5 DEF Field
<1>7. UNCHANGED <<template, n, hinted, a, b, in>> /\ phase = "Num2Bits"
  BY DEF Num2BitsRound, Given
<1>8. CASE IsBit(bit)
  <2>1. bit \in {0, 1}
    BY <1>6, <1>8, BitsAreBits
  <2>2. /\ bits' = Append(bits, bit) /\ UNCHANGED <<out, phase>>
        /\ lc1' = Add(lc1, Mul(bit, m)) /\ e2' = Add(m, m)
    BY <1>2, <1>4, <1>8 DEF Reject
  <2>3. /\ e2' = 2 * m /\ lc1' = lc1 + (bit * m)
        /\ lc1' \in 0 .. (2 * m) - 1
        /\ bit = IF lc1' < m THEN 0 ELSE 1
    BY <1>2, <1>3, <2>1, <2>2, RoundFits
  <2>4. /\ bits' \in Seq({0, 1}) /\ Len(bits') = L + 1
        /\ bits'[Len(bits')] = bit
    BY <1>2, <2>1, <2>2
  <2>5. hinted' => lc1' = in' % e2'
    <3>1. in \in Nat
      BY <1>1 DEF Field
    <3>2. in % (2 * m) = (in % m) + (((in \div m) % 2) * m)
      BY <1>3, <3>1, NextDigit
    <3> QED BY <1>2, <1>5, <1>7, <2>3, <3>2
  <2>6. LoopOK'
    <3>1. bits' \in Seq({0, 1}) /\ Len(bits') <= BitCount'
      BY <1>2, <1>7, <2>4, <1>1, FieldAssumption DEF BitCount
    <3>2. e2' = Pow2[Len(bits')] /\ lc1' \in 0 .. e2' - 1
      BY <1>3, <2>3, <2>4
    <3>3. ASSUME NEW i \in 1 .. Len(bits')
          PROVE  bits'[i] = (lc1' \div Pow2[i - 1]) % 2
      <4>1. i - 1 \in Nat
        OBVIOUS
      <4>2. CASE i = L + 1
        <5>1. bits'[i] = bit /\ i - 1 = L
          BY <1>2, <2>4, <4>2
        <5> QED BY <1>3, <2>3, <5>1, TopDigit DEF m
      <4>3. CASE i # L + 1
        <5>1. i \in 1 .. L /\ i - 1 < L
          BY <1>2, <2>4, <4>3
        <5>2. bits'[i] = (lc1 \div Pow2[i - 1]) % 2
          BY <1>2, <2>2, <5>1 DEF CircuitInv, LoopOK
        <5>3. PICK c \in Nat : m = (2 * c) * Pow2[i - 1]
          BY <1>2, <4>1, <5>1, Pow2Divides DEF m
        <5>4. Pow2[i - 1] \in Nat \ {0} /\ lc1 \in Nat
          BY <1>2, <1>3, <4>1, Pow2Positive
        <5>5. ((lc1 + (bit * m)) \div Pow2[i - 1]) % 2 = (lc1 \div Pow2[i - 1]) % 2
          BY <2>1, <5>3, <5>4, LowDigit
        <5> QED BY <2>3, <5>2, <5>5
      <4> QED BY <4>2, <4>3
    <3> QED BY <3>1, <3>2, <3>3, <2>5 DEF LoopOK
  <2>7. GivenOK' /\ VerdictOK'
    BY <1>7, <2>2 DEF CircuitInv, GivenOK, VerdictOK, Compiles
  <2> QED BY <2>6, <2>7 DEF CircuitInv
<1>9. CASE ~IsBit(bit)
  <2>1. ~hinted /\ Reject
    BY <1>4, <1>5, <1>6, <1>9, BitsAreBits
  <2>2. LoopOK'
    <3>1. bits' = <<>> /\ lc1' = 0 /\ e2' = 1 /\ n' \in Nat /\ in' \in Nat
      BY <1>1, <1>7, <2>1, FieldAssumption DEF Reject, Field
    <3> QED BY <3>1, ResetLoop
  <2>3. GivenOK' /\ VerdictOK'
    BY <1>7, <2>1 DEF CircuitInv, GivenOK, VerdictOK, Reject, Compiles
  <2> QED BY <2>2, <2>3 DEF CircuitInv
<1> QED BY <1>8, <1>9

LEMMA SumStep ==
    ASSUME CircuitInv, Num2BitsSum
    PROVE  CircuitInv'
<1> USE PrimePositive
<1>1. /\ template \in Orders /\ n \in Widths /\ Compiles(n) /\ in \in Field
      /\ UNCHANGED <<template, n, hinted, a, b, in>>
  BY InputInField DEF Num2BitsSum, CircuitInv, GivenOK, Given
<1>2. /\ n \in Nat /\ Pow2[n] \in Nat \ {0}
      /\ Pow2[n + 1] = 2 * Pow2[n]
  BY <1>1, WidthFits
<1>3. /\ bits \in Seq({0, 1}) /\ Len(bits) = n + 1
      /\ lc1 \in 0 .. Pow2[n + 1] - 1
      /\ bits[n + 1] = IF lc1 < Pow2[n] THEN 0 ELSE 1
      /\ hinted => lc1 = in % Pow2[n + 1]
  <2>1. (n + 1) - 1 = n /\ Len(bits) = n + 1 /\ n + 1 \in 1 .. Len(bits)
    BY <1>2 DEF Num2BitsSum, BitCount
  <2>2. /\ bits \in Seq({0, 1}) /\ lc1 \in 0 .. Pow2[n + 1] - 1
        /\ bits[n + 1] = (lc1 \div Pow2[n]) % 2
        /\ hinted => lc1 = in % Pow2[n + 1]
    BY <2>1 DEF CircuitInv, LoopOK
  <2>3. (lc1 \div Pow2[n]) % 2 = IF lc1 < Pow2[n] THEN 0 ELSE 1
    BY <1>2, <2>2, TopDigit
  <2> QED BY <2>1, <2>2, <2>3
<1>4. template # "IsEqual"
  BY <1>1 DEF Orders
<1>5. CASE /\ lc1 = in
           /\ out' = Sub(1, bits[BitCount])
           /\ phase' = "Accepted"
           /\ UNCHANGED <<bits, lc1, e2>>
  <2>1. Sub(1, 0) = 1 /\ Sub(1, 1) = 0
    BY DEF Sub
  <2>2. out' = IF in < Pow2[n] THEN 1 ELSE 0
    BY <1>3, <1>5, <2>1 DEF BitCount
  <2>3. in < Pow2[n + 1]
    BY <1>2, <1>3, <1>5
  <2>4. VerdictOK'
    BY <1>1, <1>3, <1>4, <1>5, <2>2, <2>3 DEF VerdictOK, BitCount
  <2>5. GivenOK' /\ LoopOK'
    BY <1>1, <1>5 DEF CircuitInv, GivenOK, LoopOK, BitCount, Compiles
  <2> QED BY <2>4, <2>5 DEF CircuitInv
<1>6. CASE lc1 # in /\ Reject
  <2>1. hinted => in >= Pow2[n + 1]
    <3>1. in \in Nat /\ Pow2[n + 1] \in Nat \ {0}
      BY <1>1, <1>2 DEF Field
    <3>2. in < Pow2[n + 1] => in % Pow2[n + 1] = in
      BY <3>1
    <3> QED BY <1>3, <1>6, <3>1, <3>2
  <2>2. VerdictOK'
    BY <1>1, <1>6, <2>1 DEF VerdictOK, Reject
  <2>3. LoopOK'
    <3>1. /\ bits' = <<>> /\ lc1' = 0 /\ e2' = 1 /\ n' \in Nat /\ in' \in Nat
      BY <1>1, <1>2, <1>6 DEF Reject, Field
    <3> QED BY <3>1, ResetLoop
  <2>4. GivenOK'
    BY <1>1, <1>6 DEF CircuitInv, GivenOK, Reject, Compiles
  <2> QED BY <2>2, <2>3, <2>4 DEF CircuitInv
<1> QED BY <1>5, <1>6 DEF Num2BitsSum

-----------------------------------------------------------------------------
(* IsZero *)

\* The hint is an inverse, where there is one.
LEMMA HintIsInverse ==
    ASSUME in \in Field
    PROVE  /\ InverseHint \in Field
           /\ in # 0 => Mul(in, InverseHint) = 1
<1> USE PrimePositive
<1>1. CASE in = 0
  BY <1>1 DEF InverseHint, Field
<1>2. CASE in # 0
  <2>1. in \in 1 .. Prime - 1
    BY <1>2 DEF Field
  <2>2. \E y \in Field : Mul(in, y) = 1
    BY <2>1, InverseExists
  <2> QED BY <1>2, <2>2 DEF InverseHint
<1> QED BY <1>1, <1>2

LEMMA IsZeroStep ==
    ASSUME CircuitInv, IsZero
    PROVE  CircuitInv'
<1> USE PrimePositive
<1>1. /\ template = "IsEqual" /\ template \notin Orders /\ n \in Widths
      /\ in \in Field
      /\ UNCHANGED <<template, n, hinted, a, b, in>>
  BY InputInField DEF IsZero, CircuitInv, GivenOK, Given, Orders
<1>2. PICK inv \in IF hinted THEN {InverseHint} ELSE Field :
          LET o == Sub(1, Mul(in, inv)) IN
          \/ /\ Mul(in, o) = 0
             /\ out' = o /\ phase' = "Accepted"
             /\ UNCHANGED <<bits, lc1, e2>>
          \/ Mul(in, o) # 0 /\ Reject
  BY DEF IsZero
<1>3. inv \in Field /\ (hinted => inv = InverseHint)
  BY <1>1, <1>2, HintIsInverse
<1> DEFINE s == Mul(in, inv)
           o == Sub(1, s)
<1>4. s \in Field /\ o \in Field
  <2>1. in * inv \in Int
    BY <1>1, <1>3 DEF Field
  <2>2. s \in Field
    BY <2>1, Division DEF Mul, Field
  <2> HIDE DEF s
  <2>3. 1 - s \in Int
    BY <2>2 DEF Field
  <2> QED BY <2>2, <2>3, Division DEF Sub, Field
<1>5. in = 0 => s = 0
  <2>1. inv \in Int
    BY <1>3 DEF Field
  <2> QED BY <2>1 DEF Mul
<1>6. Sub(1, 0) = 1 /\ Sub(1, 1) = 0
  BY DEF Sub
<1>7. Mul(in, 0) = 0 /\ Mul(0, 1) = 0
  BY <1>1 DEF Mul, Field
<1> HIDE DEF s
<1>8. CASE Mul(in, o) = 0 /\ out' = o /\ phase' = "Accepted" /\ UNCHANGED <<bits, lc1, e2>>
  <2>1. o = IF in = 0 THEN 1 ELSE 0
    BY <1>1, <1>4, <1>5, <1>6, <1>8, NoZeroDivisors
  <2> HIDE DEF o
  <2>2. VerdictOK'
    BY <1>1, <1>8, <2>1 DEF VerdictOK
  <2>3. GivenOK' /\ LoopOK'
    BY <1>1, <1>8 DEF CircuitInv, GivenOK, LoopOK, BitCount
  <2> QED BY <2>2, <2>3 DEF CircuitInv
<1>9. CASE Mul(in, o) # 0 /\ Reject
  <2>1. ~hinted
    <3>1. in # 0 /\ hinted => s = 1
      BY <1>1, <1>3, HintIsInverse DEF s
    <3> QED BY <1>5, <1>6, <1>7, <1>9, <3>1
  <2> HIDE DEF o
  <2>2. LoopOK'
    <3>1. bits' = <<>> /\ lc1' = 0 /\ e2' = 1 /\ n' \in Nat /\ in' \in Nat
      BY <1>1, <1>9, <2>1, FieldAssumption DEF Reject, Field
    <3> QED BY <3>1, ResetLoop
  <2>3. GivenOK' /\ VerdictOK'
    BY <1>1, <1>9, <2>1 DEF CircuitInv, GivenOK, VerdictOK, Reject
  <2> QED BY <2>2, <2>3 DEF CircuitInv
<1> QED BY <1>2, <1>8, <1>9 DEF s

-----------------------------------------------------------------------------
(* What the templates compute *)

LEMMA InitCircuit == Init => CircuitInv
<1> SUFFICES ASSUME Init PROVE CircuitInv
  OBVIOUS
<1>1. GivenOK
  BY DEF Init, GivenOK, Templates
<1>2. in \in Nat /\ n \in Nat
  BY <1>1, InputInField, FieldAssumption DEF Init, GivenOK, Field
<1>3. LoopOK
  <2>0. \A i \in 1 .. Len(bits) : bits[i] = (lc1 \div Pow2[i - 1]) % 2
    BY NoDigits DEF Init
  <2>1. bits = <<>> /\ lc1 = 0 /\ e2 = 1 /\ 0 <= n + 1
    BY <1>2 DEF Init
  <2>2. bits \in Seq({0, 1}) /\ Len(bits) = 0
    BY <2>1, NoDigits
  <2>3. e2 = Pow2[Len(bits)] /\ lc1 = in % e2
    BY <1>2, <2>1, <2>2, NoDigits
  <2> QED BY <2>0, <2>1, <2>2, <2>3 DEF LoopOK, BitCount
<1>4. VerdictOK
  BY DEF Init, VerdictOK
<1> QED BY <1>1, <1>3, <1>4 DEF CircuitInv

\* In every prime field, under every width that the assert lets pass and for every
\* witness, the loop of Num2Bits does not wrap around the field, and the verdict
\* depends on the inputs alone.
THEOREM CircuitInvariant == Spec => []CircuitInv
<1>1. CircuitInv /\ [Next]_vars => CircuitInv'
  <2>1. CircuitInv /\ UNCHANGED vars => CircuitInv'
    BY DEF vars, CircuitInv, GivenOK, LoopOK, VerdictOK, BitCount, Compiles
  <2> QED BY <2>1, RoundStep, SumStep, IsZeroStep DEF Next
<1> QED BY <1>1, InitCircuit, PTL DEF Spec

\* The output of an order is the sign of the difference of its operands, for any
\* field elements: no prover has a choice.
THEOREM TheOutputIsTheSign == Spec => []OutputIsSign
<1>1. CircuitInv => OutputIsSign
  <2> SUFFICES ASSUME CircuitInv, phase = "Accepted", template \in Orders
               PROVE  OutputIsSign
    BY DEF OutputIsSign
  <2> USE PrimePositive
  <2> DEFINE m == Pow2[n]
             x == Operands(template, a, b)[1]
             y == Operands(template, a, b)[2]
             D == {e \in -m .. m - 1 : e % Prime = Sub(x, y)}
             d == in - m
  <2>1. /\ n \in Nat /\ m \in Nat \ {0} /\ 2 * m < Prime
        /\ Pow2[n + 1] = 2 * m
    BY WidthFits DEF CircuitInv, GivenOK
  <2>2. /\ in \in Nat /\ in < 2 * m
        /\ out = IF in < m THEN 1 ELSE 0
    <3>1. in \in Field
      BY InputInField DEF CircuitInv, GivenOK
    <3> QED BY <2>1, <3>1 DEF CircuitInv, VerdictOK, Orders, Field
  <2>3. x \in Field /\ y \in Field
    BY OperandsInField DEF CircuitInv, GivenOK
  <2>4. in = Sub(Add(m, x), y)
    BY DEF CircuitInv, GivenOK, Input, Orders
  <2> HIDE DEF m, x, y
  <2>5. in = (m + (x - y)) % Prime
    <3>1. x % Prime = x /\ y % Prime = y /\ x \in Int /\ y \in Int /\ m \in Int
      BY <2>1, <2>3 DEF Field
    <3>2. Sub(Add(m, x % Prime), y % Prime) = (m + (x - y)) % Prime
      BY <3>1, ModDifference
    <3> QED BY <2>4, <3>1, <3>2
  <2>6. d % Prime = Sub(x, y)
    <3> DEFINE s == m + (x - y)
    <3>1. s \in Int /\ -m \in Int /\ -m + s = x - y /\ Prime \in Nat \ {0}
      BY <2>1, <2>3 DEF Field
    <3> HIDE DEF s
    <3>2. (-m + (s % Prime)) % Prime = (-m + s) % Prime
      BY <3>1, ModAdd
    <3>3. d = -m + (s % Prime)
      BY <2>1, <2>2, <2>5 DEF s
    <3> QED BY <3>1, <3>2, <3>3 DEF Sub
  <2>7. d \in -m .. m - 1 /\ (d < 0 <=> in < m)
    BY <2>1, <2>2
  <2>8. \A e \in -m .. m - 1 : e % Prime = d % Prime => e = d
    <3>1. \A e \in -m .. m - 1 : e % Prime = IF e < 0 THEN e + Prime ELSE e
      BY <2>1
    <3> HIDE DEF d
    <3> QED BY <2>1, <2>7, <3>1
  <2>9. d \in D /\ D = {d} /\ out = IF d < 0 THEN 1 ELSE 0
    BY <2>2, <2>6, <2>7, <2>8
  <2> QED BY <2>9 DEF OutputIsSign, m, x, y
<1> QED BY <1>1, CircuitInvariant, PTL

\* The integers that inputs of n bits stand for.
Value(x) == IF Unsigned THEN x ELSE Signed(x)

LEMMA SignedValues ==
    ASSUME NEW x \in Field
    PROVE  /\ Signed(x) \in Int /\ x \in Int
           /\ Signed(x) % Prime = x /\ x % Prime = x
<1> USE PrimePositive
<1>1. x \in 0 .. Prime - 1
  BY DEF Field
<1>2. x % Prime = x
  BY <1>1
<1>3. (x - Prime) % Prime = x
  <2>1. x - Prime = (-1 * Prime) + x
    BY <1>1
  <2> QED BY <1>1, <2>1, Remainder
<1> QED BY <1>1, <1>2, <1>3 DEF Signed

\* For inputs of n bits LessThan's input is the difference of the integers,
\* shifted by 2^n: it fits, with the sign, and is negative if they compare so.
LEMMA InWidthInput ==
    ASSUME GivenOK, template \in Orders, InWidth
    PROVE  \E d \in -Pow2[n] .. Pow2[n] - 1 :
               /\ in = Pow2[n] + d
               /\ d < 0 <=> Holds(Value(a), Value(b))
<1> USE PrimePositive
<1> DEFINE m == Pow2[n]
           u == Value(a)
           v == Value(b)
           d == Difference(template, u, v)
<1>1. n \in Nat /\ m \in Nat \ {0} /\ 2 * m < Prime
  BY WidthFits DEF GivenOK
<1>2. u \in Int /\ v \in Int /\ u % Prime = a /\ v % Prime = b
  BY SignedValues DEF GivenOK, Value
<1>3. \E l \in Int, h \in Int :
          u \in l .. h /\ v \in l .. h /\ h - l = m - 1
  <2>1. CASE Unsigned
    <3>1. u \in 0 .. m - 1 /\ v \in 0 .. m - 1
      BY <2>1 DEF Value, Unsigned
    <3> QED BY <1>1, <3>1
  <2>2. CASE ~Unsigned
    <3>1. n > 0 /\ u \in -Pow2[n - 1] .. Pow2[n - 1] - 1
                /\ v \in -Pow2[n - 1] .. Pow2[n - 1] - 1
      BY <2>2 DEF InWidth, Value
    <3>2. n - 1 \in Nat /\ (n - 1) + 1 = n
      BY <1>1, <3>1
    <3>3. Pow2[n - 1] \in Nat /\ m = 2 * Pow2[n - 1]
      BY <3>2, Pow2Positive, Pow2Step
    <3> QED BY <3>1, <3>3
  <2> QED BY <2>1, <2>2
<1> HIDE DEF m, u, v
<1>4. d \in -m .. m - 1 /\ (d < 0 <=> Holds(u, v))
  <2>1. PICK l \in Int, h \in Int :
            u \in l .. h /\ v \in l .. h /\ h - l = m - 1
    BY <1>3
  <2>2. CASE template = "LessThan"
    BY <1>1, <1>2, <2>1, <2>2 DEF Difference, Holds
  <2>3. CASE template = "LessEqThan"
    BY <1>1, <1>2, <2>1, <2>3 DEF Difference, Holds
  <2>4. CASE template = "GreaterThan"
    BY <1>1, <1>2, <2>1, <2>4 DEF Difference, Holds
  <2>5. CASE template = "GreaterEqThan"
    BY <1>1, <1>2, <2>1, <2>5 DEF Difference, Holds
  <2> QED BY <2>2, <2>3, <2>4, <2>5 DEF Orders
<1>5. in = (m + d) % Prime
  <2>1. in = Input(template, n, a, b)
    BY DEF GivenOK
  <2> QED BY <1>1, <1>2, <2>1, InputIsDifference DEF m
<1> HIDE DEF d
<1>6. in = m + d
  BY <1>1, <1>4, <1>5
<1> QED BY <1>4, <1>6 DEF m, u, v

\* For inputs of n bits, unsigned or in two's complement, the output is the
\* comparison that the template names; IsEqual compares all field elements.
THEOREM TheOutputIsTheComparison == Spec => []OutputIsComparison
<1>1. CircuitInv => OutputIsComparison
  <2> SUFFICES ASSUME CircuitInv, phase = "Accepted", template = "IsEqual" \/ InWidth
               PROVE  out = IF Holds(Value(a), Value(b)) THEN 1 ELSE 0
    BY DEF OutputIsComparison, Value
  <2> USE PrimePositive
  <2>0. GivenOK /\ template \in Templates /\ a \in Field /\ b \in Field
    BY DEF CircuitInv, GivenOK
  <2>1. CASE template \in Orders
    <3> DEFINE m == Pow2[n]
    <3>1. PICK d \in -m .. m - 1 :
              /\ in = m + d
              /\ d < 0 <=> Holds(Value(a), Value(b))
      BY <2>0, <2>1, InWidthInput DEF Orders
    <3>2. m \in Nat
      BY <2>0, <2>1, WidthFits DEF GivenOK
    <3>3. out = IF in < m THEN 1 ELSE 0
      BY <2>1 DEF CircuitInv, VerdictOK, Orders
    <3> HIDE DEF m
    <3>4. in < m <=> d < 0
      BY <3>1, <3>2
    <3> QED BY <3>1, <3>3, <3>4
  <2>2. CASE template = "IsEqual"
    <3>1. out = IF in = 0 THEN 1 ELSE 0
      BY <2>2 DEF CircuitInv, VerdictOK
    <3>2. in = (b - a) % Prime
      BY <2>0, <2>2 DEF GivenOK, Input, Sub
    <3>3. in = 0 <=> a = b
      <4>1. b - a \in -(Prime - 1) .. Prime - 1 /\ (b - a = 0 <=> a = b)
        BY <2>0 DEF Field
      <4> QED BY <3>2, <4>1
    <3>4. Value(a) = Value(b) <=> a = b
      BY <2>0, SignedValues DEF Value
    <3> QED BY <2>2, <3>1, <3>3, <3>4 DEF Holds
  <2> QED BY <2>0, <2>1, <2>2 DEF Templates
<1> QED BY <1>1, CircuitInvariant, PTL

\* The assignments find a witness for all inputs of n bits.
THEOREM AnHonestWitnessIsAccepted == Spec => []HintedIsAccepted
<1>1. CircuitInv => HintedIsAccepted
  <2> SUFFICES ASSUME CircuitInv, hinted, template = "IsEqual" \/ InWidth,
                      phase = "Rejected"
               PROVE  FALSE
    BY DEF HintedIsAccepted
  <2>1. GivenOK /\ template \in Orders /\ in >= Pow2[n + 1]
    BY DEF CircuitInv, VerdictOK
  <2> DEFINE m == Pow2[n]
  <2>2. m \in Nat /\ Pow2[n + 1] = 2 * m
    BY <2>1, WidthFits DEF GivenOK
  <2>3. PICK d \in -m .. m - 1 : in = m + d
    BY <2>1, InWidthInput DEF Orders
  <2> HIDE DEF m
  <2> QED BY <2>1, <2>2, <2>3
<1> QED BY <1>1, CircuitInvariant, PTL

\* No signal of Num2Bits is left to the prover: the witness that satisfies the
\* constraints is the one the assignments compute.
THEOREM TheWitnessIsComputed == Spec => []WitnessIsComputed
<1>1. CircuitInv => WitnessIsComputed
  <2> SUFFICES ASSUME CircuitInv, phase = "Accepted", template \in Orders
               PROVE  bits = [i \in 1 .. BitCount |-> BitHint(i - 1)]
    BY DEF WitnessIsComputed
  <2>1. bits \in Seq({0, 1}) /\ Len(bits) = BitCount /\ lc1 = in
    BY DEF CircuitInv, LoopOK, VerdictOK, Orders
  <2>2. \A i \in 1 .. BitCount : bits[i] = BitHint(i - 1)
    BY <2>1 DEF CircuitInv, LoopOK, BitHint
  <2>3. bits = [i \in 1 .. Len(bits) |-> bits[i]]
    BY <2>1
  <2> QED BY <2>1, <2>2, <2>3
<1> QED BY <1>1, CircuitInvariant, PTL
=============================================================================
