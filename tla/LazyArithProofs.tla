--------------------------- MODULE LazyArithProofs ---------------------------
(****************************************************************************)
(* Theorems of LazyArith for every field, every set of moduli and every     *)
(* number of wires: the type invariant; the recorded bound of a wire is a   *)
(* bound of its value; a wire stays congruent to the coefficient that the   *)
(* FHE library computes, and is equal to it when no reduction is pending;   *)
(* the range checks of a reduction accept what an honest prover files,      *)
(* unless an assertion on a size or an operand failed before.               *)
(****************************************************************************)
EXTENDS LazyArith, ArithmeticTheorems, TLAPS

-----------------------------------------------------------------------------
(* Powers of two, up to the size of the field *)

\* Powers of two are positive.
LEMMA PowerPositive ==
  \A n \in 0 .. FieldBits : 2^n \in Nat /\ 2^n >= 1
<1> DEFINE T == {n \in 0 .. FieldBits : ~(2^n >= 1)}
<1>1. T = {}
  <2> SUFFICES ASSUME T # {} PROVE FALSE
    OBVIOUS
  <2>1. PICK m \in T : \A k \in T : m <= k
    <3>1. T \in SUBSET Nat
      BY FieldAssumption
    <3> QED
      BY <3>1, LeastNat
  <2>2. m # 0
    <3> SUFFICES ASSUME m = 0 PROVE FALSE
      OBVIOUS
    <3>1. 2^m = 1
      BY PowerAssumption, Zenon
    <3>2. ~(2^m >= 1)
      BY <2>1
    <3> QED
      BY <3>1, <3>2
  <2>3. m - 1 \in 0 .. FieldBits /\ m - 1 \notin T /\ (m - 1) + 1 = m
    BY <2>1, <2>2, FieldAssumption
  <2>4. 2^(m - 1) \in Nat /\ 2^m = 2 * 2^(m - 1)
    BY <2>3, PowerAssumption
  <2> QED
    BY <2>3, <2>4
<1> QED
  BY <1>1, PowerAssumption

\* They grow with the exponent.
LEMMA PowerMonotone ==
  ASSUME NEW m \in Nat, NEW n \in Nat, m <= n, n <= FieldBits
  PROVE  2^m <= 2^n
<1> DEFINE T == {k \in m .. FieldBits : ~(2^m <= 2^k)}
<1>1. T = {}
  <2> SUFFICES ASSUME T # {} PROVE FALSE
    OBVIOUS
  <2>1. PICK k \in T : \A l \in T : k <= l
    <3>1. T \in SUBSET Nat
      BY FieldAssumption
    <3> QED
      BY <3>1, LeastNat
  <2>2. k # m
    BY PowerPositive, FieldAssumption
  <2>3. k - 1 \in m .. FieldBits /\ k - 1 \notin T /\ (k - 1) + 1 = k
    BY <2>1, <2>2, FieldAssumption
  <2>4. 2^(k - 1) \in Nat /\ 2^m \in Nat /\ 2^k = 2 * 2^(k - 1)
    BY <2>3, PowerAssumption, FieldAssumption
  <2> QED
    BY <2>3, <2>4
<1> QED
  BY <1>1, FieldAssumption

\* Their product has the sum of the exponents.
LEMMA PowerSum ==
  ASSUME NEW m \in Nat, NEW n \in Nat, m + n <= FieldBits
  PROVE  2^m * 2^n = 2^(m + n)
<1> DEFINE T == {k \in 0 .. (FieldBits - m) : ~(2^m * 2^k = 2^(m + k))}
<1>1. T = {}
  <2> SUFFICES ASSUME T # {} PROVE FALSE
    OBVIOUS
  <2>1. PICK k \in T : \A l \in T : k <= l
    <3>1. T \in SUBSET Nat
      BY FieldAssumption
    <3> QED
      BY <3>1, LeastNat
  <2>2. 2^m \in Nat /\ 2^0 = 1
    BY PowerAssumption, FieldAssumption
  <2>3. k # 0
    <3>1. 2^m * 1 = 2^m /\ m + 0 = m
      BY <2>2
    <3> QED
      BY <2>1, <2>2, <3>1
  <2>4. /\ k - 1 \in 0 .. (FieldBits - m) /\ k - 1 \notin T
        /\ k - 1 \in 0 .. FieldBits /\ m + (k - 1) \in 0 .. FieldBits
        /\ (k - 1) + 1 = k /\ (m + (k - 1)) + 1 = m + k
    BY <2>1, <2>3, FieldAssumption
  <2>5. 2^m * 2^(k - 1) = 2^(m + (k - 1))
    BY <2>4
  <2>6. 2^(k - 1) \in Nat /\ 2^k = 2 * 2^(k - 1)
    BY <2>4, PowerAssumption
  <2>7. 2^(m + k) = 2 * 2^(m + (k - 1))
    BY <2>4, PowerAssumption
  <2> DEFINE a == 2^m
             b == 2^(k - 1)
  <2>8. a * (2 * b) = 2 * (a * b)
    <3> HIDE DEF a, b
    <3>1. a \in Nat /\ b \in Nat
      BY <2>2, <2>6 DEF a, b
    <3> QED
      BY <3>1
  <2>9. 2^m * 2^k = 2^(m + k)
    BY <2>5, <2>6, <2>7, <2>8
  <2> QED
    BY <2>1, <2>9
<1>2. n \in 0 .. (FieldBits - m)
  BY FieldAssumption
<1> QED
  BY <1>1, <1>2

-----------------------------------------------------------------------------
(* Field elements and bit counts *)

\* Numbers of a bit less than the field are in the field.
LEMMA FieldSize ==
  /\ P \in Nat /\ P > 1
  /\ FieldBits \in Nat /\ FieldBits >= 1
  /\ 2^(FieldBits - 1) \in Nat /\ 2^(FieldBits - 1) < P
<1>1. FieldBits \in Nat /\ FieldBits >= 1 /\ FieldBits - 1 \in 0 .. FieldBits
  BY FieldAssumption
<1>2. 2^(FieldBits - 1) \in Nat /\ 2^(FieldBits - 1) >= 1
  BY <1>1, PowerPositive
<1> QED
  BY <1>1, <1>2, FieldAssumption

\* What is in the field already does not wrap around.
LEMMA WrapFacts ==
  ASSUME NEW x \in Int
  PROVE  /\ Wrap(x) \in Field
         /\ x \in Field => Wrap(x) = x
<1>1. (x % P) \in 0 .. (P - 1)
  BY FieldSize, ModRange
<1> QED
  BY <1>1 DEF Wrap, Field

\* The bit count of x is the least n with x below 2^n.
LEMMA NumBitsFacts ==
  ASSUME NEW x \in Field
  PROVE  /\ NumBits(x) \in 0 .. FieldBits
         /\ x < 2^NumBits(x)
         /\ \A m \in 0 .. FieldBits : x < 2^m => NumBits(x) <= m
<1> DEFINE T == {n \in 0 .. FieldBits : x < 2^n}
<1>1. FieldBits \in T
  <2>1. x \in Nat /\ x < P
    BY FieldSize DEF Field
  <2>2. 2^FieldBits \in Nat
    BY PowerPositive, FieldSize
  <2> QED
    BY <2>1, <2>2, FieldSize, FieldAssumption
<1>2. PICK n \in T : \A k \in T : n <= k
  <2>1. T \in SUBSET Nat
    BY FieldSize
  <2> QED
    BY <1>1, <2>1, LeastNat
<1>3. \E l \in 0 .. FieldBits :
         /\ x < 2^l
         /\ \A m \in 0 .. FieldBits : x < 2^m => l <= m
  BY <1>2
<1> QED
  BY <1>3 DEF NumBits

\* A sum of two numbers of at most k bits fits when k + 1 bits are few enough.
LEMMA SumFits ==
  ASSUME NEW k \in 0 .. FieldBits, 1 + k < FieldBits,
         NEW a \in Nat, NEW b \in Nat, a < 2^k, b <= 2^k
  PROVE  a + b \in Field
<1>1. 2^k \in Nat /\ 2^(k + 1) = 2 * 2^k
  BY PowerAssumption
<1>2. k + 1 \in Nat /\ k + 1 <= FieldBits - 1 /\ FieldBits - 1 \in Nat
      /\ FieldBits - 1 <= FieldBits
  BY FieldSize
<1>3. 2^(k + 1) <= 2^(FieldBits - 1)
  BY <1>2, PowerMonotone
<1>4. a + b < 2 * 2^k
  BY <1>1
<1>5. 2 * 2^k < P
  BY <1>1, <1>3, FieldSize
<1> QED
  BY <1>1, <1>4, <1>5, FieldSize DEF Field

\* A product of a number of k bits and one of l bits fits in k + l bits.
LEMMA ProductFits ==
  ASSUME NEW k \in 0 .. FieldBits, NEW l \in 0 .. FieldBits, k + l < FieldBits,
         NEW a \in Nat, NEW b \in Nat, a < 2^k, b < 2^l
  PROVE  a * b \in Field
<1> DEFINE x == 2^k
           y == 2^l
           z == 2^(k + l)
<1>1. x \in Nat /\ y \in Nat /\ a <= x /\ b <= y
  BY PowerAssumption
<1>2. a * b \in Nat /\ a * b <= x * y
  <2> HIDE DEF x, y
  <2> QED
    BY <1>1, ProductMonotone
<1>3. x * y = z
  BY FieldSize, PowerSum
<1>4. z <= 2^(FieldBits - 1)
  BY FieldSize, PowerMonotone
<1>5. z \in Nat
  BY FieldSize, PowerPositive
<1>6. a * b <= z
  <2> HIDE DEF x, y, z
  <2> QED
    BY <1>2, <1>3
<1> HIDE DEF x, y, z
<1> QED
  BY <1>2, <1>4, <1>5, <1>6, FieldSize DEF Field

-----------------------------------------------------------------------------
(* The wire an operation makes *)

\* A wire of the right type, whose bound is at least that of a fresh one.
Good(w) == /\ w \in Wire
           /\ w.res < w.q
           /\ w.max >= w.q - 1

Bounded(w) == w.val <= w.max

\* The components of a wire are numbers.
LEMMA WireType ==
  ASSUME NEW w \in Wire
  PROVE  /\ w.q \in Moduli /\ w.q \in Nat /\ w.q > 2 /\ 3 * w.q < P
         /\ w.val \in Nat /\ w.val \in Field
         /\ w.max \in Nat /\ w.max \in Field
         /\ w.res \in Nat
BY ModuliAssumption, FieldSize DEF Wire, Field

\* What makes a record a good wire.
LEMMA GoodWire ==
  ASSUME NEW q \in Moduli, NEW val \in Field, NEW max \in Field, NEW res \in Nat,
         res < q, max >= q - 1
  PROVE  Good([q |-> q, val |-> val, max |-> max, res |-> res])
BY DEF Good, Wire

\* A public input is bounded by its modulus.
LEMMA FreshGood ==
  ASSUME NEW q \in Moduli, NEW v \in 0 .. (q - 1)
  PROVE  Good(Fresh(q, v)) /\ Bounded(Fresh(q, v))
<1>1. /\ q \in Nat /\ q - 1 \in Field /\ v \in Field /\ v \in Nat
      /\ v < q /\ v <= q - 1
  BY ModuliAssumption, FieldSize DEF Field
<1>2. Good(Fresh(q, v))
  BY <1>1, GoodWire DEF Fresh
<1> QED
  BY <1>1, <1>2 DEF Bounded, Fresh

\* So is what was reduced.
LEMMA ReducedGood ==
  ASSUME NEW v1 \in Int, NEW v2 \in Int, NEW q \in Moduli, NEW res \in Nat, res < q
  PROVE  Good(Reduced(v1, v2, q, res)) /\ Bounded(Reduced(v1, v2, q, res))
<1>1. q \in Nat /\ q > 2 /\ 3 * q < P
  BY ModuliAssumption
<1>2. v1 * v2 \in Int
  OBVIOUS
<1>3. Wrap(v1 * v2) \in Int
  BY <1>2, WrapFacts DEF Field
<1>4. ModOut(v1, v2, q) \in 0 .. (q - 1)
  BY <1>1, <1>3, ModRange DEF ModOut
<1>5. /\ ModOut(v1, v2, q) \in Field /\ q - 1 \in Field
      /\ ModOut(v1, v2, q) <= q - 1
  BY <1>1, <1>4, FieldSize DEF Field
<1>6. Good(Reduced(v1, v2, q, res))
  BY <1>1, <1>5, GoodWire DEF Reduced
<1> QED
  BY <1>5, <1>6 DEF Bounded, Reduced

\* The results of the library are residues.
LEMMA Residues ==
  ASSUME NEW a \in Wire, NEW b \in Wire
  PROVE  /\ AddRes(a, b) \in Nat /\ AddRes(a, b) < a.q
         /\ SubRes(a, b) \in Nat /\ SubRes(a, b) < a.q
         /\ MulRes(a, b) \in Nat /\ MulRes(a, b) < a.q
<1>1. a.q \in Nat /\ a.q > 0 /\ a.res \in Nat /\ b.res \in Nat
  BY WireType
<1>2. /\ a.res + b.res \in Int /\ a.res + a.q - b.res \in Int
      /\ a.res * b.res \in Int
  BY <1>1
<1>3. ASSUME NEW x \in Int PROVE (x % a.q) \in Nat /\ (x % a.q) < a.q
  BY <1>1, ModRange
<1> QED
  BY <1>2, <1>3 DEF AddRes, SubRes, MulRes

\* So are those of products with a constant.
LEMMA ConstResidue ==
  ASSUME NEW a \in Wire, NEW c \in Nat
  PROVE  MulConstRes(a, c) \in Nat /\ MulConstRes(a, c) < a.q
<1>1. a.q \in Nat /\ a.q > 0 /\ a.res * c \in Int
  <2>1. a.q \in Nat /\ a.q > 0 /\ a.res \in Nat
    BY WireType
  <2> QED
    BY <2>1
<1> QED
  BY <1>1, ModRange DEF MulConstRes

\* The tests that postpone a reduction keep bounds below the field order, and
\* with them the values they bound.

\* A sum that is reduced later has not wrapped around, and is bounded.
LEMMA SumGood ==
  ASSUME NEW a, NEW b, Good(a), Good(b), a.q = b.q, ~AddOverflows(a, b)
  PROVE  /\ Good(Sum(a, b))
         /\ Bounded(a) /\ Bounded(b) => /\ Bounded(Sum(a, b))
                                      /\ Sum(a, b).val = a.val + b.val
<1>1. a \in Wire /\ b \in Wire
  BY DEF Good
<1>2. PICK k \in 0 .. FieldBits : 1 + k < FieldBits /\ a.max < 2^k /\ b.max < 2^k
  <2> DEFINE ka == NumBits(a.max)
             kb == NumBits(b.max)
  <2>1. /\ ka \in 0 .. FieldBits /\ kb \in 0 .. FieldBits
        /\ a.max < 2^ka /\ b.max < 2^kb
    BY <1>1, WireType, NumBitsFacts
  <2>2. 1 + Larger(ka, kb) < FieldBits
    BY <2>1, FieldSize DEF AddOverflows, Larger
  <2> HIDE DEF ka, kb
  <2>3. CASE ka >= kb
    <3>1. 1 + ka < FieldBits
      BY <2>2, <2>3 DEF Larger
    <3>2. 2^kb <= 2^ka /\ 2^ka \in Nat /\ 2^kb \in Nat
      BY <2>1, <2>3, PowerMonotone, PowerPositive, FieldSize
    <3>3. b.max < 2^ka
      BY <1>1, <2>1, <3>2, WireType
    <3> QED
      BY <2>1, <3>1, <3>3
  <2>4. CASE ~(ka >= kb)
    <3>1. 1 + kb < FieldBits
      BY <2>2, <2>4 DEF Larger
    <3>2. 2^ka <= 2^kb /\ 2^ka \in Nat /\ 2^kb \in Nat
      BY <2>1, <2>4, PowerMonotone, PowerPositive, FieldSize
    <3>3. a.max < 2^kb
      BY <1>1, <2>1, <3>2, WireType
    <3> QED
      BY <2>1, <3>1, <3>3
  <2> QED
    BY <2>3, <2>4
<1>3. a.max \in Nat /\ b.max \in Nat /\ a.val \in Nat /\ b.val \in Nat
  BY <1>1, WireType
<1>4. 2^k \in Nat
  BY PowerPositive
<1>5. a.max + b.max \in Field
  BY <1>2, <1>3, <1>4, SumFits
<1>6. Sum(a, b).max = a.max + b.max
  BY <1>3, <1>5, WrapFacts DEF Sum
<1>7. Sum(a, b).val \in Field /\ Sum(a, b).res \in Nat /\ Sum(a, b).res < a.q
  BY <1>1, <1>3, WrapFacts, Residues DEF Sum
<1>8. a.max + b.max >= a.q - 1
  BY <1>1, <1>3, WireType DEF Good
<1>9. Good(Sum(a, b))
  <2>1. Good([q |-> a.q, val |-> Sum(a, b).val, max |-> Sum(a, b).max,
              res |-> Sum(a, b).res])
    BY <1>1, <1>5, <1>6, <1>7, <1>8, WireType, GoodWire
  <2> QED
    BY <2>1 DEF Sum
<1>10. ASSUME Bounded(a), Bounded(b)
       PROVE  Bounded(Sum(a, b)) /\ Sum(a, b).val = a.val + b.val
  <2>1. a.val + b.val <= a.max + b.max
    BY <1>3, <1>10 DEF Bounded
  <2>2. a.val + b.val \in Field
    BY <1>3, <1>5, <2>1, FieldSize DEF Field
  <2>3. Sum(a, b).val = a.val + b.val
    BY <1>3, <2>2, WrapFacts DEF Sum
  <2> QED
    BY <1>6, <2>1, <2>3 DEF Bounded
<1> QED
  BY <1>9, <1>10

\* So is a difference, if the subtrahend is at most the modulus.
LEMMA DifferenceGood ==
  ASSUME NEW a, NEW b, Good(a), Good(b), a.q = b.q, ~SubOverflows(a)
  PROVE  /\ Good(Difference(a, b))
         /\ Bounded(a) /\ Bounded(b) /\ b.max <= a.q =>
              /\ Bounded(Difference(a, b))
              /\ Difference(a, b).val = a.val + a.q - b.val
<1>1. a \in Wire /\ b \in Wire
  BY DEF Good
<1>2. /\ a.max \in Nat /\ b.max \in Nat /\ a.val \in Nat /\ b.val \in Nat
      /\ a.q \in Nat /\ a.q > 2 /\ a.q - 1 \in Field /\ a.q - 1 <= a.max
  <2>1. /\ a.max \in Nat /\ b.max \in Nat /\ a.val \in Nat /\ b.val \in Nat
        /\ a.q \in Nat /\ a.q > 2 /\ 3 * a.q < P
    BY <1>1, WireType
  <2>2. a.max >= a.q - 1
    BY DEF Good
  <2> QED
    BY <2>1, <2>2, FieldSize DEF Field
<1>3. PICK k \in 0 .. FieldBits : 1 + k < FieldBits /\ a.max < 2^k
  <2> DEFINE ka == NumBits(a.max)
             kq == CeilLog2(a.q)
  <2>1. /\ ka \in 0 .. FieldBits /\ kq \in 0 .. FieldBits
        /\ a.max < 2^ka
    BY <1>1, <1>2, WireType, NumBitsFacts DEF CeilLog2
  <2>2. 1 + Larger(ka, kq) < FieldBits
    BY <2>1, FieldSize DEF SubOverflows, Larger
  <2> HIDE DEF ka, kq
  <2>3. 1 + ka < FieldBits
    BY <2>1, <2>2, FieldSize DEF Larger
  <2> QED
    BY <2>1, <2>3
<1>4. 2^k \in Nat
  BY PowerPositive
<1>5. a.q <= 2^k
  BY <1>2, <1>3, <1>4
<1>6. a.max + a.q \in Field
  BY <1>2, <1>3, <1>5, SumFits
<1>7. Difference(a, b).max = a.max + a.q
  BY <1>2, <1>6, WrapFacts DEF Difference, SubMax
<1>8. /\ Difference(a, b).val \in Field /\ Difference(a, b).res \in Nat
      /\ Difference(a, b).res < a.q
  BY <1>1, <1>2, WrapFacts, Residues DEF Difference
<1>9. Good(Difference(a, b))
  <2>1. Good([q |-> a.q, val |-> Difference(a, b).val, max |-> Difference(a, b).max,
              res |-> Difference(a, b).res])
    BY <1>1, <1>2, <1>6, <1>7, <1>8, WireType, GoodWire
  <2> QED
    BY <2>1 DEF Difference
<1>10. ASSUME Bounded(a), Bounded(b), b.max <= a.q
       PROVE  /\ Bounded(Difference(a, b))
              /\ Difference(a, b).val = a.val + a.q - b.val
  <2> DEFINE d == a.val + a.q - b.val
  <2>1. d \in Int /\ 0 <= d /\ d <= a.max + a.q
    BY <1>2, <1>10 DEF Bounded
  <2>2. d \in Field
    BY <1>2, <1>6, <2>1, FieldSize DEF Field
  <2>3. Difference(a, b).val = d
    BY <2>1, <2>2, WrapFacts DEF Difference
  <2> QED
    BY <1>7, <2>1, <2>3 DEF Bounded
<1> QED
  BY <1>9, <1>10

\* So is a product.
LEMMA ProductGood ==
  ASSUME NEW a, NEW b, Good(a), Good(b), a.q = b.q, ~MulOverflows(a, b)
  PROVE  /\ Good(Product(a, b))
         /\ Bounded(a) /\ Bounded(b) => /\ Bounded(Product(a, b))
                                      /\ Product(a, b).val = a.val * b.val
<1>1. a \in Wire /\ b \in Wire
  BY DEF Good
<1>2. /\ a.max \in Nat /\ b.max \in Nat /\ a.val \in Nat /\ b.val \in Nat
      /\ a.q \in Nat /\ a.q > 2 /\ a.max >= a.q - 1 /\ b.max >= 1
  <2>1. /\ a.max \in Nat /\ b.max \in Nat /\ a.val \in Nat /\ b.val \in Nat
        /\ a.q \in Nat /\ a.q > 2
    BY <1>1, WireType
  <2>2. a.max >= a.q - 1 /\ b.max >= b.q - 1
    BY DEF Good
  <2> QED
    BY <2>1, <2>2
<1>3. a.max * b.max \in Field
  <2>1. /\ NumBits(a.max) \in 0 .. FieldBits /\ NumBits(b.max) \in 0 .. FieldBits
        /\ a.max < 2^NumBits(a.max) /\ b.max < 2^NumBits(b.max)
    BY <1>1, WireType, NumBitsFacts
  <2>2. NumBits(a.max) + NumBits(b.max) < FieldBits
    BY <2>1, FieldSize DEF MulOverflows
  <2> QED
    BY <1>2, <2>1, <2>2, ProductFits
<1>4. a.val * b.val \in Int /\ a.max * b.max \in Int
  BY <1>2
<1>5. Product(a, b).max = a.max * b.max
  BY <1>3, <1>4, WrapFacts DEF Product
<1>6. /\ Product(a, b).val \in Field /\ Product(a, b).res \in Nat
      /\ Product(a, b).res < a.q
  BY <1>1, <1>4, WrapFacts, Residues DEF Product
<1>7. a.max * b.max >= a.q - 1
  <2>1. a.max * 1 <= a.max * b.max
    BY <1>2, ProductMonotone
  <2> QED
    BY <1>2, <1>4, <2>1
<1>8. Good(Product(a, b))
  <2>1. Good([q |-> a.q, val |-> Product(a, b).val, max |-> Product(a, b).max,
              res |-> Product(a, b).res])
    BY <1>1, <1>3, <1>5, <1>6, <1>7, WireType, GoodWire
  <2> QED
    BY <2>1 DEF Product
<1>9. ASSUME Bounded(a), Bounded(b)
      PROVE  Bounded(Product(a, b)) /\ Product(a, b).val = a.val * b.val
  <2>1. a.val * b.val \in Nat /\ a.val * b.val <= a.max * b.max
    BY <1>2, <1>9, ProductMonotone DEF Bounded
  <2>2. a.val * b.val \in Field
    BY <1>3, <1>4, <2>1, FieldSize DEF Field
  <2>3. Product(a, b).val = a.val * b.val
    BY <1>4, <2>2, WrapFacts DEF Product
  <2> QED
    BY <1>5, <2>1, <2>3 DEF Bounded
<1> QED
  BY <1>8, <1>9

\* LazyMulModGadget counts the bits of the wire's bound twice.  That is enough
\* because the constant is below the modulus and the bound never is.
LEMMA MultipleGood ==
  ASSUME NEW a, Good(a), NEW c \in 1 .. (a.q - 1), ~MulConstOverflows(a)
  PROVE  /\ Good(Multiple(a, c))
         /\ Bounded(a) => /\ Bounded(Multiple(a, c))
                           /\ Multiple(a, c).val = a.val * c
<1>1. a \in Wire
  BY DEF Good
<1>2. /\ a.max \in Nat /\ a.val \in Nat /\ a.q \in Nat /\ a.q > 2
      /\ a.max >= a.q - 1 /\ c \in Nat /\ 1 <= c /\ c <= a.max
  <2>1. a.max \in Nat /\ a.val \in Nat /\ a.q \in Nat /\ a.q > 2
    BY <1>1, WireType
  <2>2. a.max >= a.q - 1
    BY DEF Good
  <2> QED
    BY <2>1, <2>2
<1>3. a.max * c \in Field
  <2>1. NumBits(a.max) \in 0 .. FieldBits /\ a.max < 2^NumBits(a.max)
    BY <1>1, WireType, NumBitsFacts
  <2>2. NumBits(a.max) + NumBits(a.max) < FieldBits
    BY <2>1, FieldSize DEF MulConstOverflows
  <2>3. 2^NumBits(a.max) \in Nat
    BY <2>1, PowerPositive
  <2>4. c < 2^NumBits(a.max)
    BY <1>2, <2>1, <2>3
  <2> QED
    BY <1>2, <2>1, <2>2, <2>4, ProductFits
<1>4. a.val * c \in Int /\ a.max * c \in Int
  BY <1>2
<1>5. Multiple(a, c).max = a.max * c
  BY <1>3, <1>4, WrapFacts DEF Multiple
<1>6. /\ Multiple(a, c).val \in Field /\ Multiple(a, c).res \in Nat
      /\ Multiple(a, c).res < a.q
  BY <1>1, <1>2, <1>4, WrapFacts, ConstResidue DEF Multiple
<1>7. a.max * c >= a.q - 1
  <2>1. a.max * 1 <= a.max * c
    BY <1>2, ProductMonotone
  <2> QED
    BY <1>2, <1>4, <2>1
<1>8. Good(Multiple(a, c))
  <2>1. Good([q |-> a.q, val |-> Multiple(a, c).val, max |-> Multiple(a, c).max,
              res |-> Multiple(a, c).res])
    BY <1>1, <1>3, <1>5, <1>6, <1>7, WireType, GoodWire
  <2> QED
    BY <2>1 DEF Multiple
<1>9. ASSUME Bounded(a)
      PROVE  Bounded(Multiple(a, c)) /\ Multiple(a, c).val = a.val * c
  <2>1. a.val * c \in Nat /\ a.val * c <= a.max * c
    BY <1>2, <1>9, ProductMonotone DEF Bounded
  <2>2. a.val * c \in Field
    BY <1>3, <1>4, <2>1, FieldSize DEF Field
  <2>3. Multiple(a, c).val = a.val * c
    BY <1>4, <2>2, WrapFacts DEF Multiple
  <2> QED
    BY <1>5, <2>1, <2>3 DEF Bounded
<1> QED
  BY <1>8, <1>9

\* What a modulus switch computes before it lifts the value.
LEMMA SwitchFacts ==
  ASSUME NEW a, Good(a), NEW new \in Moduli, new # a.q
  PROVE  /\ SwitchVal(a) \in Nat
         /\ Bounded(a) => SwitchVal(a) <= a.q - 1
         /\ Shift(a, new) \in {0, Distance(a.q, new)}
         /\ Distance(a.q, new) \in Nat
         /\ SwitchRes(a, new) \in Nat /\ SwitchRes(a, new) < new
<1>1. a \in Wire /\ a.res < a.q
  BY DEF Good
<1>2. /\ a.q \in Nat /\ a.q > 2 /\ a.q \in Moduli /\ a.max \in Nat /\ a.val \in Nat
      /\ a.res \in Nat /\ new \in Nat /\ new > 2
  BY <1>1, WireType, ModuliAssumption
<1>3. ModOut(a.val, 1, a.q) \in 0 .. (a.q - 1)
  <2>1. a.val * 1 \in Int
    BY <1>2
  <2>2. Wrap(a.val * 1) \in Int
    BY <2>1, WrapFacts DEF Field
  <2> QED
    BY <1>2, <2>2, ModRange DEF ModOut
<1>4. SwitchVal(a) \in Nat
  BY <1>2, <1>3 DEF SwitchVal
<1>5. ASSUME Bounded(a) PROVE SwitchVal(a) <= a.q - 1
  BY <1>2, <1>3, <1>5 DEF SwitchVal, NeedsReduction, Bounded
<1>6. Distance(a.q, new) \in Nat
  BY <1>2 DEF Distance
<1>7. Shift(a, new) \in {0, Distance(a.q, new)}
  BY DEF Shift
<1>8. SwitchRes(a, new) \in Nat /\ SwitchRes(a, new) < new
  <2> DEFINE s == IF a.res > Half(a.q) THEN Distance(a.q, new) ELSE 0
  <2>1. s \in Nat
    BY <1>6
  <2>2. CASE new > a.q
    <3>1. s <= new - a.q
      BY <1>2, <2>2 DEF Distance
    <3>2. SwitchRes(a, new) = a.res + s
      BY <2>2 DEF SwitchRes
    <3> HIDE DEF s
    <3> QED
      BY <1>1, <1>2, <2>1, <2>2, <3>1, <3>2
  <2>3. CASE ~(new > a.q)
    <3>1. SwitchRes(a, new) = (a.res - s) % new
      BY <2>3 DEF SwitchRes
    <3> HIDE DEF s
    <3>2. a.res - s \in Int
      BY <1>2, <2>1
    <3>3. ((a.res - s) % new) \in 0 .. (new - 1)
      BY <1>2, <3>2, ModRange
    <3> QED
      BY <1>2, <3>1, <3>3
  <2> QED
    BY <2>2, <2>3
<1> QED
  BY <1>4, <1>5, <1>6, <1>7, <1>8

\* A value switched to a larger modulus is bounded.
LEMMA LiftedGood ==
  ASSUME NEW a, Good(a), NEW new \in Moduli, new > a.q
  PROVE  /\ Good(Lifted(a, new))
         /\ Bounded(a) => /\ Bounded(Lifted(a, new))
                           /\ Lifted(a, new).val = SwitchVal(a) + Shift(a, new)
<1>1. a \in Wire
  BY DEF Good
<1>2. /\ a.q \in Nat /\ new \in Nat /\ new > 2 /\ 3 * new < P /\ new # a.q
  BY <1>1, WireType, ModuliAssumption
<1>3. /\ SwitchVal(a) \in Nat
      /\ Bounded(a) => SwitchVal(a) <= a.q - 1
      /\ Shift(a, new) \in {0, Distance(a.q, new)} /\ Distance(a.q, new) \in Nat
      /\ SwitchRes(a, new) \in Nat /\ SwitchRes(a, new) < new
  BY <1>2, SwitchFacts
<1>4. Shift(a, new) \in Nat /\ Shift(a, new) <= new - a.q
  BY <1>2, <1>3 DEF Distance
<1>5. SwitchVal(a) + Shift(a, new) \in Int
  BY <1>3, <1>4
<1>6. Wrap(SwitchVal(a) + Shift(a, new)) \in Field /\ new - 1 \in Field
  BY <1>2, <1>5, WrapFacts, FieldSize DEF Field
<1>7. Good(Lifted(a, new))
  BY <1>2, <1>3, <1>6, GoodWire DEF Lifted
<1>8. ASSUME Bounded(a)
      PROVE  /\ Bounded(Lifted(a, new))
             /\ Lifted(a, new).val = SwitchVal(a) + Shift(a, new)
  <2>1. SwitchVal(a) + Shift(a, new) <= new - 1
    BY <1>2, <1>3, <1>4, <1>8
  <2>2. SwitchVal(a) + Shift(a, new) \in Field
    BY <1>2, <1>3, <1>4, <2>1, FieldSize DEF Field
  <2>3. Wrap(SwitchVal(a) + Shift(a, new)) = SwitchVal(a) + Shift(a, new)
    BY <1>5, <2>2, WrapFacts
  <2> QED
    BY <2>1, <2>3 DEF Bounded, Lifted
<1> QED
  BY <1>7, <1>8

-----------------------------------------------------------------------------
(* The inductive invariant *)

IInv == /\ TypeOK
        /\ \A w \in wires : Good(w)
        /\ BoundInv

\* The assertions an operation may fail are named ones.
LEMMA FailNames ==
  ASSUME NEW v1, NEW m1, NEW v2, NEW m2, NEW q, NEW strict, NEW c,
         NEW name \in AssertionNames
  PROVE  /\ ModFails(v1, m1, v2, m2, q, strict) \subseteq AssertionNames
         /\ Require(name, c) \subseteq AssertionNames
BY DEF ModFails, Require, AssertionNames

\* An operation preserves the invariant if the wire it makes is good, and
\* bounded when the wires are and none of its assertions failed.
LEMMA OutcomeInv ==
  ASSUME IInv, NEW w, NEW fails \in SUBSET AssertionNames,
         Good(w),
         (\A u \in wires : Bounded(u)) /\ fails = {} => Bounded(w),
         Outcome(fails, w)
  PROVE  IInv'
<1>1. /\ debug \in BOOLEAN /\ debug' = debug
      /\ failed \subseteq AssertionNames /\ failed' = failed \cup fails
      /\ wires' \subseteq wires \cup {w}
  BY DEF IInv, TypeOK, Outcome
<1>2. w \in Wire /\ w.res < w.q
  BY DEF Good
<1>3. TypeOK'
  BY <1>1, <1>2 DEF IInv, TypeOK
<1>4. \A u \in wires' : Good(u)
  BY <1>1 DEF IInv
<1>5. ASSUME failed' = {} \/ debug' PROVE \A u \in wires' : Bounded(u)
  <2>1. \A u \in wires : Bounded(u)
    BY <1>1, <1>5 DEF IInv, BoundInv, Trusted, Bounded
  <2>2. CASE fails = {}
    BY <1>1, <2>1, <2>2
  <2>3. CASE fails # {}
    <3>1. debug
      BY <1>1, <1>5, <2>3
    <3>2. fails \cap LiveAsserts # {}
      BY <2>3, <3>1 DEF LiveAsserts
    <3> QED
      BY <2>1, <3>2 DEF Outcome
  <2> QED
    BY <2>2, <2>3
<1>6. BoundInv'
  BY <1>5 DEF BoundInv, Trusted, Bounded
<1> QED
  BY <1>3, <1>4, <1>6 DEF IInv, Good

\* What the invariant says of the wires of a pair.
LEMMA PairFacts ==
  ASSUME IInv, NEW p \in Pairs
  PROVE  /\ p[1] \in wires /\ p[2] \in wires /\ p[1].q = p[2].q
         /\ Good(p[1]) /\ Good(p[2])
         /\ p[1] \in Wire /\ p[2] \in Wire
BY DEF IInv, Pairs, Good

\* An addition keeps the invariant, postponed or reduced at once.
LEMMA StepAdd ==
  ASSUME IInv, NEW p \in Pairs, AddLater(p[1], p[2]) \/ AddNow(p[1], p[2])
  PROVE  IInv'
<1> DEFINE a == p[1]
           b == p[2]
<1>1. /\ a \in wires /\ b \in wires /\ Good(a) /\ Good(b) /\ a.q = b.q
      /\ a \in Wire /\ b \in Wire
  BY PairFacts
<1> HIDE DEF a, b
<1>2. CASE AddLater(a, b)
  <2>1. Outcome({}, Sum(a, b)) /\ ~AddOverflows(a, b)
    BY <1>2 DEF AddLater
  <2>2. /\ Good(Sum(a, b))
        /\ Bounded(a) /\ Bounded(b) => Bounded(Sum(a, b))
    BY <1>1, <2>1, SumGood
  <2> QED
    BY <1>1, <2>1, <2>2, OutcomeInv
<1>3. CASE AddNow(a, b)
  <2> DEFINE fails == Require("add_fits", ~AddOverflows(a, b))
                        \cup ModFails(Sum(a, b).val, Sum(a, b).max, 1, 1, a.q, TRUE)
             w     == Reduced(Sum(a, b).val, 1, a.q, AddRes(a, b))
  <2>1. Outcome(fails, w)
    BY <1>3 DEF AddNow
  <2>2. fails \in SUBSET AssertionNames
    BY FailNames DEF AssertionNames
  <2>3. Sum(a, b).val \in Int
    <3>1. a.val + b.val \in Int
      BY <1>1, WireType
    <3> QED
      BY <3>1, WrapFacts DEF Sum, Field
  <2>4. Good(w) /\ Bounded(w)
    BY <1>1, <2>3, WireType, Residues, ReducedGood
  <2> HIDE DEF fails, w
  <2> QED
    BY <2>1, <2>2, <2>4, OutcomeInv
<1> QED
  BY <1>2, <1>3 DEF a, b

\* Both branches of a subtraction.
LEMMA StepSub ==
  ASSUME IInv, NEW p \in Pairs, SubLater(p[1], p[2]) \/ SubNow(p[1], p[2])
  PROVE  IInv'
<1> DEFINE a == p[1]
           b == p[2]
<1>1. /\ a \in wires /\ b \in wires /\ Good(a) /\ Good(b) /\ a.q = b.q
      /\ a \in Wire /\ b \in Wire
  BY PairFacts
<1> HIDE DEF a, b
<1>2. CASE SubLater(a, b)
  <2> DEFINE fails == Require("sub_operand", b.max <= a.q)
  <2>1. Outcome(fails, Difference(a, b)) /\ ~SubOverflows(a)
    BY <1>2 DEF SubLater
  <2>2. fails \in SUBSET AssertionNames
    BY FailNames DEF AssertionNames
  <2>3. fails = {} => b.max <= a.q
    BY DEF Require
  <2>4. /\ Good(Difference(a, b))
        /\ Bounded(a) /\ Bounded(b) /\ b.max <= a.q => Bounded(Difference(a, b))
    BY <1>1, <2>1, DifferenceGood
  <2> HIDE DEF fails
  <2> QED
    BY <1>1, <2>1, <2>2, <2>3, <2>4, OutcomeInv
<1>3. CASE SubNow(a, b)
  <2> DEFINE fails == Require("sub_operand", b.max < a.q)
                        \cup Require("sub_fits", ~SubOverflows(a))
                        \cup ModFails(Difference(a, b).val,
                                     Wrap(a.max + a.q - b.max), 1, 1, a.q, TRUE)
             w     == Reduced(Difference(a, b).val, 1, a.q, SubRes(a, b))
  <2>1. Outcome(fails, w)
    BY <1>3 DEF SubNow
  <2>2. fails \in SUBSET AssertionNames
    <3>1. Require("sub_operand", b.max < a.q) \subseteq AssertionNames
      BY FailNames DEF AssertionNames
    <3>2. Require("sub_fits", ~SubOverflows(a)) \subseteq AssertionNames
      BY FailNames DEF AssertionNames
    <3>3. ModFails(Difference(a, b).val, Wrap(a.max + a.q - b.max), 1, 1, a.q, TRUE)
            \subseteq AssertionNames
      BY FailNames DEF AssertionNames
    <3> QED
      BY <3>1, <3>2, <3>3
  <2>3. Difference(a, b).val \in Int
    <3>1. a.val + a.q - b.val \in Int
      BY <1>1, WireType
    <3> QED
      BY <3>1, WrapFacts DEF Difference, Field
  <2>4. Good(w) /\ Bounded(w)
    BY <1>1, <2>3, WireType, Residues, ReducedGood
  <2> HIDE DEF fails, w
  <2> QED
    BY <2>1, <2>2, <2>4, OutcomeInv
<1> QED
  BY <1>2, <1>3 DEF a, b

\* Both branches of a multiplication.
LEMMA StepMul ==
  ASSUME IInv, NEW p \in Pairs, MulLater(p[1], p[2]) \/ MulNow(p[1], p[2])
  PROVE  IInv'
<1> DEFINE a == p[1]
           b == p[2]
<1>1. /\ a \in wires /\ b \in wires /\ Good(a) /\ Good(b) /\ a.q = b.q
      /\ a \in Wire /\ b \in Wire
  BY PairFacts
<1> HIDE DEF a, b
<1>2. CASE MulLater(a, b)
  <2>1. Outcome({}, Product(a, b)) /\ ~MulOverflows(a, b)
    BY <1>2 DEF MulLater
  <2>2. /\ Good(Product(a, b))
        /\ Bounded(a) /\ Bounded(b) => Bounded(Product(a, b))
    BY <1>1, <2>1, ProductGood
  <2> QED
    BY <1>1, <2>1, <2>2, OutcomeInv
<1>3. CASE MulNow(a, b)
  <2> DEFINE fails == ModFails(a.val, a.max, b.val, b.max, a.q, TRUE)
             w     == Reduced(a.val, b.val, a.q, MulRes(a, b))
  <2>1. Outcome(fails, w)
    BY <1>3 DEF MulNow
  <2>2. fails \in SUBSET AssertionNames
    BY FailNames DEF AssertionNames
  <2>3. Good(w) /\ Bounded(w)
    BY <1>1, WireType, Residues, ReducedGood
  <2> HIDE DEF fails, w
  <2> QED
    BY <2>1, <2>2, <2>3, OutcomeInv
<1> QED
  BY <1>2, <1>3 DEF a, b

\* Both branches of a multiplication by a constant.
LEMMA StepMulConst ==
  ASSUME IInv, NEW a \in wires, NEW c \in 1 .. (a.q - 1),
         MulConstLater(a, c) \/ MulConstNow(a, c)
  PROVE  IInv'
<1>1. Good(a) /\ a \in Wire
  BY DEF IInv, Good
<1>2. c \in Nat
  BY <1>1, WireType
<1>3. CASE MulConstLater(a, c)
  <2>1. Outcome({}, Multiple(a, c)) /\ ~MulConstOverflows(a)
    BY <1>3 DEF MulConstLater
  <2>2. /\ Good(Multiple(a, c))
        /\ Bounded(a) => Bounded(Multiple(a, c))
    BY <1>1, <2>1, MultipleGood
  <2> QED
    BY <2>1, <2>2, OutcomeInv
<1>4. CASE MulConstNow(a, c)
  <2> DEFINE fails == ModFails(a.val, a.max, c, c, a.q, TRUE)
             w     == Reduced(a.val, c, a.q, MulConstRes(a, c))
  <2>1. Outcome(fails, w)
    BY <1>4 DEF MulConstNow
  <2>2. fails \in SUBSET AssertionNames
    BY FailNames DEF AssertionNames
  <2>3. Good(w) /\ Bounded(w)
    BY <1>1, <1>2, WireType, ConstResidue, ReducedGood
  <2> HIDE DEF fails, w
  <2> QED
    BY <2>1, <2>2, <2>3, OutcomeInv
<1> QED
  BY <1>3, <1>4

\* A reduction that finalizes an output.
LEMMA StepReduce ==
  ASSUME IInv, NEW a \in wires, Reduce(a)
  PROVE  IInv'
<1> DEFINE fails == ModFails(a.val, a.max, 1, 1, a.q, TRUE)
           w     == Reduced(a.val, 1, a.q, a.res)
<1>1. Good(a) /\ a \in Wire /\ a.res < a.q
  BY DEF IInv, Good
<1>2. Outcome(fails, w)
  BY DEF Reduce
<1>3. fails \in SUBSET AssertionNames
  BY FailNames DEF AssertionNames
<1>4. Good(w) /\ Bounded(w)
  BY <1>1, WireType, ReducedGood
<1> HIDE DEF fails, w
<1> QED
  BY <1>2, <1>3, <1>4, OutcomeInv

\* The three cases of a modulus switch.
LEMMA StepSwitch ==
  ASSUME IInv, NEW a \in wires, NEW new \in Moduli,
         SwitchSame(a) \/ SwitchUp(a, new) \/ SwitchDown(a, new)
  PROVE  IInv'
<1>1. Good(a) /\ a \in Wire
  BY DEF IInv, Good
<1>2. a.q \in Nat /\ new \in Nat
  BY <1>1, WireType, ModuliAssumption
<1>3. SwitchFails(a) \subseteq AssertionNames
  BY FailNames DEF SwitchFails, AssertionNames
<1>4. CASE SwitchSame(a)
  <2>1. {"switch_modulus"} \in SUBSET AssertionNames
    BY DEF AssertionNames
  <2> QED
    BY <1>1, <1>4, <2>1, OutcomeInv DEF SwitchSame
<1>5. CASE SwitchUp(a, new)
  <2> DEFINE fails == SwitchFails(a)
                        \cup Require("switch_modulus",
                                    Half(a.q) + Distance(a.q, new) < new)
  <2>1. Outcome(fails, Lifted(a, new)) /\ new > a.q
    BY <1>5 DEF SwitchUp
  <2>2. fails \in SUBSET AssertionNames
    BY <1>3, FailNames DEF AssertionNames
  <2>3. /\ Good(Lifted(a, new))
        /\ Bounded(a) => Bounded(Lifted(a, new))
    BY <1>1, <2>1, LiftedGood
  <2> HIDE DEF fails
  <2> QED
    BY <2>1, <2>2, <2>3, OutcomeInv
<1>6. CASE SwitchDown(a, new)
  <2> DEFINE diff  == Distance(a.q, new)
             tmp   == Wrap(SwitchVal(a) - Shift(a, new))
             fails == SwitchFails(a)
                        \cup Require("switch_modulus", Half(a.q) > diff)
                        \cup ModFails(tmp, Larger(Half(a.q), a.q - 1 - diff), 1, 1,
                                     new, FALSE)
             w     == Reduced(tmp, 1, new, SwitchRes(a, new))
  <2>1. Outcome(fails, w) /\ new < a.q
    BY <1>6 DEF SwitchDown
  <2>2. fails \in SUBSET AssertionNames
    <3>1. Require("switch_modulus", Half(a.q) > diff) \subseteq AssertionNames
      BY FailNames DEF AssertionNames
    <3>2. ModFails(tmp, Larger(Half(a.q), a.q - 1 - diff), 1, 1, new, FALSE)
            \subseteq AssertionNames
      BY FailNames DEF AssertionNames
    <3> QED
      BY <1>3, <3>1, <3>2
  <2>3. /\ SwitchVal(a) \in Nat
        /\ Shift(a, new) \in {0, Distance(a.q, new)} /\ Distance(a.q, new) \in Nat
        /\ SwitchRes(a, new) \in Nat /\ SwitchRes(a, new) < new
    BY <1>1, <1>2, <2>1, SwitchFacts
  <2>4. tmp \in Int
    <3>1. SwitchVal(a) - Shift(a, new) \in Int
      BY <2>3
    <3> QED
      BY <3>1, WrapFacts DEF Field
  <2>5. Good(w) /\ Bounded(w)
    BY <2>3, <2>4, ReducedGood
  <2> HIDE DEF fails, w
  <2> QED
    BY <2>1, <2>2, <2>5, OutcomeInv
<1> QED
  BY <1>4, <1>5, <1>6

-----------------------------------------------------------------------------
(* Theorems *)

\* The invariant holds before any wire is built and every operation keeps it.
THEOREM Inductive ==
  /\ Init => IInv
  /\ IInv /\ [Next]_vars => IInv'
<1>1. Init => IInv
  BY DEF Init, IInv, TypeOK, BoundInv
<1>2. ASSUME IInv, Next PROVE IInv'
  <2>1. CASE \E q \in Moduli : \E v \in 0 .. (q - 1) : PublicInput(q, v)
    <3>1. PICK q \in Moduli : \E v \in 0 .. (q - 1) : PublicInput(q, v)
      BY <2>1
    <3>2. PICK v \in 0 .. (q - 1) : PublicInput(q, v)
      BY <3>1
    <3>3. Good(Fresh(q, v)) /\ Bounded(Fresh(q, v))
      BY FreshGood
    <3> QED
      BY <1>2, <3>2, <3>3, OutcomeInv DEF PublicInput
  <2>2. CASE \E p \in Pairs : AddLater(p[1], p[2]) \/ AddNow(p[1], p[2])
    BY <1>2, <2>2, StepAdd
  <2>3. CASE \E p \in Pairs : SubLater(p[1], p[2]) \/ SubNow(p[1], p[2])
    BY <1>2, <2>3, StepSub
  <2>4. CASE \E p \in Pairs : MulLater(p[1], p[2]) \/ MulNow(p[1], p[2])
    BY <1>2, <2>4, StepMul
  <2>5. CASE \E a \in wires : \E c \in 1 .. (a.q - 1) :
               MulConstLater(a, c) \/ MulConstNow(a, c)
    <3>1. PICK a \in wires : \E c \in 1 .. (a.q - 1) :
                 MulConstLater(a, c) \/ MulConstNow(a, c)
      BY <2>5
    <3>2. PICK c \in 1 .. (a.q - 1) : MulConstLater(a, c) \/ MulConstNow(a, c)
      BY <3>1
    <3> QED
      BY <1>2, <3>2, StepMulConst
  <2>6. CASE \E a \in wires : Reduce(a)
    BY <1>2, <2>6, StepReduce
  <2>7. CASE \E a \in wires : SwitchSame(a)
    <3>1. PICK a \in wires : SwitchSame(a)
      BY <2>7
    <3>2. a.q \in Moduli
      BY <1>2, WireType DEF IInv, Good
    <3> QED
      BY <1>2, <3>1, <3>2, StepSwitch
  <2>8. CASE \E a \in wires : \E new \in Moduli : SwitchUp(a, new)
    BY <1>2, <2>8, StepSwitch
  <2>9. CASE \E a \in wires : \E new \in Moduli : SwitchDown(a, new)
    BY <1>2, <2>9, StepSwitch
  <2> QED
    BY <1>2, <2>1, <2>2, <2>3, <2>4, <2>5, <2>6, <2>7, <2>8, <2>9 DEF Next
<1>3. ASSUME IInv, UNCHANGED vars PROVE IInv'
  BY <1>3 DEF IInv, vars, TypeOK, BoundInv, Trusted
<1> QED
  BY <1>1, <1>2, <1>3

\* Wires are records of a modulus, a field element, a bound below the field
\* order and a residue below the modulus, for every field and every moduli.
THEOREM TypeCorrect == Spec => []TypeOK
<1>1. IInv => TypeOK
  BY DEF IInv
<1> QED
  BY Inductive, <1>1, PTL DEF Spec

\* The recorded bound of a wire is a bound of its value, however many lazy
\* operations are chained: the gadgets' tests keep each bound they record from
\* wrapping around the field order.
THEOREM BoundsHold == Spec => []BoundInv
<1>1. IInv => BoundInv
  BY DEF IInv
<1> QED
  BY Inductive, <1>1, PTL DEF Spec

-----------------------------------------------------------------------------
(* The residue of the wire an operation makes *)

\* A wire has the residue the FHE library computed.
Congruent(w) == w.val % w.q = w.res

\* A wire is well formed, within its bound and congruent.
Exact(w) == Good(w) /\ Bounded(w) /\ Congruent(w)

\* A wire's parts are integers.
LEMMA ExactFacts ==
  ASSUME NEW w, Exact(w)
  PROVE  /\ w \in Wire /\ Good(w) /\ Bounded(w)
         /\ w.q \in Nat /\ w.q > 2 /\ 3 * w.q < P /\ w.q \in Moduli
         /\ w.val \in Nat /\ w.val \in Field /\ w.max \in Nat /\ w.val <= w.max
         /\ w.res \in Nat /\ w.res < w.q /\ w.max >= w.q - 1
         /\ w.val % w.q = w.res
<1>1. Good(w) /\ w \in Wire
  BY DEF Exact, Good
<1> QED
  BY <1>1, WireType DEF Exact, Good, Bounded, Congruent

\* A reduced wire has its residue if the value reduced had it.
LEMMA ReducedExact ==
  ASSUME NEW v1 \in Int, NEW v2 \in Int, NEW q \in Nat, q > 0, NEW res,
         v1 * v2 \in Field, (v1 * v2) % q = res
  PROVE  Congruent(Reduced(v1, v2, q, res))
<1> DEFINE x == v1 * v2
<1>1. x \in Int /\ Wrap(x) = x /\ x % q = res
  BY WrapFacts DEF Field
<1>2. ModOut(v1, v2, q) = res
  BY <1>1 DEF ModOut
<1> HIDE DEF x
<1>3. res \in 0 .. (q - 1)
  BY <1>1, ModRange
<1>4. res % q = res
  BY <1>3, ModSmall
<1> QED
  BY <1>2, <1>4 DEF Congruent, Reduced

\* The residues of values are the results on residues.
LEMMA PairResidues ==
  ASSUME NEW a, NEW b, Exact(a), Exact(b), a.q = b.q
  PROVE  /\ (a.val + b.val) % a.q = (a.res + b.res) % a.q
         /\ (a.val + a.q - b.val) % a.q = (a.res + a.q - b.res) % a.q
         /\ (a.val * b.val) % a.q = (a.res * b.res) % a.q
<1> DEFINE q == a.q
           x == a.val
           y == b.val
           r == a.res
           s == b.res
<1>1. /\ q \in Nat /\ q > 0 /\ x \in Int /\ y \in Int
      /\ x % q = r /\ y % q = s
  BY ExactFacts
<1> HIDE DEF q, x, y, r, s
<1>2. /\ (x + y) % q = ((x % q) + (y % q)) % q
      /\ (x + q - y) % q = ((x % q) + q - (y % q)) % q
      /\ (x * y) % q = ((x % q) * (y % q)) % q
  BY <1>1, ModArith
<1>3. /\ (x + y) % q = (r + s) % q
      /\ (x + q - y) % q = (r + q - s) % q
      /\ (x * y) % q = (r * s) % q
  BY <1>1, <1>2
<1> QED
  BY <1>3 DEF q, x, y, r, s

\* The lazy sum, difference, product and multiple have the library's residue.
LEMMA SumExact ==
  ASSUME NEW a, NEW b, Exact(a), Exact(b), a.q = b.q, ~AddOverflows(a, b)
  PROVE  Congruent(Sum(a, b))
<1>1. Sum(a, b).val = a.val + b.val /\ Sum(a, b).q = a.q
  BY ExactFacts, SumGood DEF Sum
<1>2. (a.val + b.val) % a.q = (a.res + b.res) % a.q
  BY PairResidues
<1> QED
  BY <1>1, <1>2 DEF Congruent, Sum, AddRes

\* A difference that is reduced later keeps its residue.
LEMMA DifferenceExact ==
  ASSUME NEW a, NEW b, Exact(a), Exact(b), a.q = b.q, ~SubOverflows(a),
         b.max <= a.q
  PROVE  Congruent(Difference(a, b))
<1>1. /\ Difference(a, b).val = a.val + a.q - b.val
      /\ Difference(a, b).q = a.q
  BY ExactFacts, DifferenceGood DEF Difference
<1>2. (a.val + a.q - b.val) % a.q = (a.res + a.q - b.res) % a.q
  BY PairResidues
<1> QED
  BY <1>1, <1>2 DEF Congruent, Difference, SubRes

\* So does a product.
LEMMA ProductExact ==
  ASSUME NEW a, NEW b, Exact(a), Exact(b), a.q = b.q, ~MulOverflows(a, b)
  PROVE  Congruent(Product(a, b))
<1>1. Product(a, b).val = a.val * b.val /\ Product(a, b).q = a.q
  BY ExactFacts, ProductGood DEF Product
<1>2. (a.val * b.val) % a.q = (a.res * b.res) % a.q
  BY PairResidues
<1> QED
  BY <1>1, <1>2 DEF Congruent, Product, MulRes

\* A constant below the modulus is its own residue.
LEMMA ConstantTimes ==
  ASSUME NEW a, Exact(a), NEW c \in 1 .. (a.q - 1)
  PROVE  (a.val * c) % a.q = MulConstRes(a, c)
<1>1. c \in 0 .. (a.q - 1) /\ c \in Nat
  BY ExactFacts
<1>2. c % a.q = c
  BY <1>1, ExactFacts, ModSmall
<1> DEFINE q == a.q
           x == a.val
           r == a.res
<1>3. q \in Nat /\ q > 0 /\ x \in Int /\ c \in Int /\ x % q = r /\ c % q = c
  BY <1>1, <1>2, ExactFacts
<1> HIDE DEF q, x, r
<1>4. (x * c) % q = ((x % q) * (c % q)) % q
  BY <1>3, ModArith
<1>5. (x * c) % q = (r * c) % q
  BY <1>3, <1>4
<1> QED
  BY <1>5 DEF MulConstRes, q, x, r

\* So does a product with a constant.
LEMMA MultipleExact ==
  ASSUME NEW a, Exact(a), NEW c \in 1 .. (a.q - 1), ~MulConstOverflows(a)
  PROVE  Congruent(Multiple(a, c))
<1>1. Multiple(a, c).val = a.val * c /\ Multiple(a, c).q = a.q
  BY ExactFacts, MultipleGood DEF Multiple
<1> QED
  BY <1>1, ConstantTimes DEF Congruent, Multiple

-----------------------------------------------------------------------------
(* The modulus switch *)

\* The bit count of a positive number is not wasteful.
LEMMA NumBitsTight ==
  ASSUME NEW x \in Field, x >= 1
  PROVE  2^NumBits(x) \in Nat /\ 2^NumBits(x) <= 2 * x
<1> DEFINE n == NumBits(x)
<1>1. /\ n \in 0 .. FieldBits /\ x < 2^n /\ x \in Nat /\ x >= 1
      /\ \A m \in 0 .. FieldBits : x < 2^m => n <= m
  BY NumBitsFacts, FieldSize DEF Field
<1> HIDE DEF n
<1>2. n # 0
  <2>1. SUFFICES ASSUME n = 0 PROVE FALSE
    OBVIOUS
  <2>2. 2^n = 1
    BY <2>1, PowerAssumption
  <2> QED
    BY <1>1, <2>2
<1>3. n - 1 \in 0 .. FieldBits /\ (n - 1) + 1 = n
  BY <1>1, <1>2, FieldSize
<1>4. 2^(n - 1) \in Nat /\ 2^n = 2 * 2^(n - 1)
  <2>1. 2^(n - 1) \in Nat /\ 2^((n - 1) + 1) = 2 * 2^(n - 1)
    BY <1>3, PowerAssumption
  <2> QED
    BY <1>3, <2>1
<1>5. ~(x < 2^(n - 1))
  BY <1>1, <1>3
<1>6. 2^n \in Nat /\ 2^n <= 2 * x
  BY <1>1, <1>4, <1>5
<1> QED
  BY <1>6 DEF n

\* The value to switch is the residue, and its bound is that of a fresh wire.
LEMMA SwitchInput ==
  ASSUME NEW a, Exact(a)
  PROVE  SwitchVal(a) = a.res /\ SwitchMax(a) = a.q - 1
<1>1. CASE NeedsReduction(a)
  <2>1. a.val * 1 = a.val /\ a.val \in Int
    BY ExactFacts
  <2>2. Wrap(a.val * 1) = a.val
    BY <2>1, ExactFacts, WrapFacts
  <2> QED
    BY <1>1, <2>2, ExactFacts DEF SwitchVal, SwitchMax, ModOut
<1>2. CASE ~NeedsReduction(a)
  <2>1. a.max < a.q
    BY <1>2, ExactFacts DEF NeedsReduction
  <2>2. a.val \in 0 .. (a.q - 1) /\ a.max = a.q - 1
    BY <2>1, ExactFacts
  <2>3. a.val % a.q = a.val
    BY <2>2, ExactFacts, ModSmall
  <2> QED
    BY <1>2, <2>2, <2>3, ExactFacts DEF SwitchVal, SwitchMax
<1> QED
  BY <1>1, <1>2

\* The comparison by bits takes the distance exactly for the upper half.
LEMMA ShiftExact ==
  ASSUME NEW a, Exact(a), NEW new \in Moduli, new # a.q
  PROVE  Shift(a, new) = IF a.res > Half(a.q) THEN Distance(a.q, new) ELSE 0
<1> DEFINE q == a.q
           r == a.res
           h == Half(q)
           kq == NumBits(q - 1)
           kh == NumBits(h)
           n == Larger(kq, kh)
<1>1. q \in Nat /\ q > 2 /\ 3 * q < P /\ r \in Nat /\ r <= q - 1
  BY ExactFacts
<1>2. h \in Nat /\ h >= 1 /\ 2 * h <= q
  BY <1>1 DEF Half
<1>3. SwitchVal(a) = r /\ SwitchMax(a) = q - 1
  BY SwitchInput
<1> HIDE DEF q, r, h
<1>4. q - 1 \in Field /\ h \in Field /\ (h + 1) - 1 = h
  BY <1>1, <1>2, FieldSize DEF Field
<1>5. /\ kq \in 0 .. FieldBits /\ kh \in 0 .. FieldBits
      /\ 2^kq \in Nat /\ 2^kh \in Nat /\ q - 1 < 2^kq
      /\ 2^kq <= 2 * (q - 1) /\ 2^kh <= 2 * h
  BY <1>1, <1>2, <1>4, NumBitsFacts, NumBitsTight
<1> HIDE DEF kq, kh
<1>6. 2^n \in Nat /\ r < 2^n /\ 2^n <= 2 * (q - 1)
  <2>1. CASE kq >= kh
    BY <1>1, <1>5, <2>1 DEF Larger
  <2>2. CASE ~(kq >= kh)
    <3>1. 2^kq <= 2^kh
      BY <1>5, <2>2, PowerMonotone
    <3> QED
      BY <1>1, <1>2, <1>5, <2>2, <3>1 DEF Larger
  <2> QED
    BY <2>1, <2>2
<1> DEFINE z == 2^n
           packed == z + ((h + 1) - 1) - r
<1>7. IsLessThanConstant(r, h + 1, kq) <=> Wrap(packed) >= z
  BY <1>4 DEF IsLessThanConstant, kh
<1>8. z \in Nat /\ r < z /\ z <= 2 * (q - 1)
  BY <1>6
<1> HIDE DEF z
<1>9. packed \in Field /\ packed \in Int
  BY <1>1, <1>2, <1>8, FieldSize DEF Field
<1>10. Wrap(packed) = packed
  BY <1>9, WrapFacts
<1>11. IsLessThanConstant(r, h + 1, kq) <=> ~(r > h)
  BY <1>1, <1>2, <1>7, <1>8, <1>10
<1>12. Shift(a, new) = IF IsLessThanConstant(r, h + 1, kq) THEN 0 ELSE Distance(q, new)
  BY <1>3 DEF Shift, q, h, kq
<1> QED
  BY <1>11, <1>12 DEF q, r, h

\* Switching to a larger modulus computes the library's residue.
LEMMA LiftedExact ==
  ASSUME NEW a, Exact(a), NEW new \in Moduli, new > a.q
  PROVE  Congruent(Lifted(a, new))
<1>1. a.q \in Nat /\ new \in Nat /\ new > 0 /\ new # a.q /\ Good(a) /\ Bounded(a)
  BY ExactFacts, ModuliAssumption
<1>2. Lifted(a, new).val = a.res + Shift(a, new)
  BY <1>1, LiftedGood, SwitchInput
<1>3. SwitchRes(a, new) = a.res + Shift(a, new)
  BY <1>1, ShiftExact DEF SwitchRes
<1>4. SwitchRes(a, new) \in 0 .. (new - 1)
  BY <1>1, SwitchFacts
<1>5. SwitchRes(a, new) % new = SwitchRes(a, new)
  BY <1>1, <1>4, ModSmall
<1> QED
  BY <1>2, <1>3, <1>5 DEF Congruent, Lifted

\* A coefficient of the upper half is above the distance, by the assertion.
LEMMA LoweredExact ==
  ASSUME NEW a, Exact(a), NEW new \in Moduli, new < a.q,
         Half(a.q) > Distance(a.q, new)
  PROVE  Congruent(Reduced(Wrap(SwitchVal(a) - Shift(a, new)), 1, new,
                           SwitchRes(a, new)))
<1> DEFINE x == a.res - Shift(a, new)
<1>1. /\ a.q \in Nat /\ new \in Nat /\ new > 0 /\ new # a.q /\ a.res \in Nat
      /\ a.res < a.q /\ 3 * a.q < P
  BY ExactFacts, ModuliAssumption
<1>2. Shift(a, new) = IF a.res > Half(a.q) THEN Distance(a.q, new) ELSE 0
  BY <1>1, ShiftExact
<1>3. Distance(a.q, new) \in Nat /\ Half(a.q) \in Nat
  BY <1>1 DEF Distance, Half
<1>4. x \in Field /\ x \in Int
  BY <1>1, <1>2, <1>3, FieldSize DEF Field
<1>5. SwitchRes(a, new) = x % new
  BY <1>1, <1>2 DEF SwitchRes
<1>6. Wrap(SwitchVal(a) - Shift(a, new)) = x
  BY <1>4, SwitchInput, WrapFacts
<1> HIDE DEF x
<1>7. x * 1 = x
  BY <1>4
<1>8. Congruent(Reduced(x, 1, new, x % new))
  BY <1>1, <1>4, <1>7, ReducedExact
<1> QED
  BY <1>5, <1>6, <1>8

-----------------------------------------------------------------------------
(* The inductive invariant *)

\* The bounds are part of it: a value is exact only as long as its bound says
\* that it has not wrapped around the field order.
RInv == IInv /\ CongruentInv

\* An operation preserves the invariant if the wire it makes is congruent when
\* the wires are exact and none of its assertions failed.
LEMMA OutcomeResidue ==
  ASSUME RInv, NEW w, NEW fails \in SUBSET AssertionNames,
         (\A u \in wires : Exact(u)) /\ fails = {} => Congruent(w),
         Outcome(fails, w)
  PROVE  CongruentInv'
<1>1. /\ debug \in BOOLEAN /\ debug' = debug
      /\ failed \subseteq AssertionNames /\ failed' = failed \cup fails
      /\ wires' \subseteq wires \cup {w}
  BY DEF RInv, IInv, TypeOK, Outcome
<1>2. ASSUME failed' = {} \/ debug' PROVE \A u \in wires' : Congruent(u)
  <2>1. \A u \in wires : Exact(u)
    BY <1>1, <1>2
    DEF RInv, IInv, BoundInv, CongruentInv, Trusted, Exact, Bounded, Congruent
  <2>2. \A u \in wires : Congruent(u)
    BY <2>1 DEF Exact
  <2>3. CASE fails = {}
    BY <1>1, <2>1, <2>2, <2>3
  <2>4. CASE fails # {}
    <3>1. debug
      BY <1>1, <1>2, <2>4
    <3>2. fails \cap LiveAsserts # {}
      BY <2>4, <3>1 DEF LiveAsserts
    <3> QED
      BY <2>2, <3>2 DEF Outcome
  <2> QED
    BY <2>3, <2>4
<1> QED
  BY <1>2 DEF CongruentInv, Trusted, Congruent

\* A gadget that reduces now asserts the size test it has just found false.
LEMMA SizeFails ==
  ASSUME NEW v1, NEW m1, NEW v2, NEW m2, NEW q, NEW strict,
         ModFails(v1, m1, v2, m2, q, strict) = {}
  PROVE  NumBits(m1) + NumBits(m2) < FieldBits
BY DEF ModFails, Require

\* An addition keeps the residues, postponed or reduced at once.
LEMMA ResidueAdd ==
  ASSUME RInv, NEW p \in Pairs, AddLater(p[1], p[2]) \/ AddNow(p[1], p[2])
  PROVE  CongruentInv'
<1> DEFINE a == p[1]
           b == p[2]
<1>1. a \in wires /\ b \in wires /\ a.q = b.q
  BY PairFacts DEF RInv
<1> HIDE DEF a, b
<1>2. CASE AddLater(a, b)
  <2>1. Outcome({}, Sum(a, b)) /\ ~AddOverflows(a, b)
    BY <1>2 DEF AddLater
  <2>2. (\A u \in wires : Exact(u)) => Congruent(Sum(a, b))
    BY <1>1, <2>1, SumExact
  <2> QED
    BY <2>1, <2>2, OutcomeResidue
<1>3. CASE AddNow(a, b)
  <2> DEFINE fails == Require("add_fits", ~AddOverflows(a, b))
                        \cup ModFails(Sum(a, b).val, Sum(a, b).max, 1, 1, a.q, TRUE)
             w     == Reduced(Sum(a, b).val, 1, a.q, AddRes(a, b))
  <2>1. Outcome(fails, w) /\ AddOverflows(a, b)
    BY <1>3 DEF AddNow
  <2>2. fails \in SUBSET AssertionNames
    BY FailNames DEF AssertionNames
  <2>3. fails # {}
    BY <2>1 DEF Require
  <2> HIDE DEF fails, w
  <2> QED
    BY <2>1, <2>2, <2>3, OutcomeResidue
<1> QED
  BY <1>2, <1>3 DEF a, b

\* A subtraction keeps the residues, postponed or reduced at once.
LEMMA ResidueSub ==
  ASSUME RInv, NEW p \in Pairs, SubLater(p[1], p[2]) \/ SubNow(p[1], p[2])
  PROVE  CongruentInv'
<1> DEFINE a == p[1]
           b == p[2]
<1>1. a \in wires /\ b \in wires /\ a.q = b.q
  BY PairFacts DEF RInv
<1> HIDE DEF a, b
<1>2. CASE SubLater(a, b)
  <2> DEFINE fails == Require("sub_operand", b.max <= a.q)
  <2>1. Outcome(fails, Difference(a, b)) /\ ~SubOverflows(a)
    BY <1>2 DEF SubLater
  <2>2. fails \in SUBSET AssertionNames
    BY FailNames DEF AssertionNames
  <2>3. fails = {} => b.max <= a.q
    BY DEF Require
  <2> HIDE DEF fails
  <2>4. (\A u \in wires : Exact(u)) /\ fails = {} => Congruent(Difference(a, b))
    BY <1>1, <2>1, <2>3, DifferenceExact
  <2> QED
    BY <2>1, <2>2, <2>4, OutcomeResidue
<1>3. CASE SubNow(a, b)
  <2> DEFINE m     == Wrap(a.max + a.q - b.max)
             fails == Require("sub_operand", b.max < a.q)
                        \cup Require("sub_fits", ~SubOverflows(a))
                        \cup ModFails(Difference(a, b).val, m, 1, 1, a.q, TRUE)
             w     == Reduced(Difference(a, b).val, 1, a.q, SubRes(a, b))
  <2>1. Outcome(fails, w) /\ SubOverflows(a)
    BY <1>3 DEF SubNow
  <2>2. fails \in SUBSET AssertionNames
    <3>1. Require("sub_operand", b.max < a.q) \subseteq AssertionNames
      BY FailNames DEF AssertionNames
    <3>2. Require("sub_fits", ~SubOverflows(a)) \subseteq AssertionNames
      BY FailNames DEF AssertionNames
    <3>3. ModFails(Difference(a, b).val, m, 1, 1, a.q, TRUE)
            \subseteq AssertionNames
      BY FailNames DEF AssertionNames
    <3> QED
      BY <3>1, <3>2, <3>3
  <2>3. fails # {}
    BY <2>1 DEF Require
  <2> HIDE DEF fails, w
  <2> QED
    BY <2>1, <2>2, <2>3, OutcomeResidue
<1> QED
  BY <1>2, <1>3 DEF a, b

\* A product of wires keeps the residues, postponed or reduced at once.
LEMMA ResidueMul ==
  ASSUME RInv, NEW p \in Pairs, MulLater(p[1], p[2]) \/ MulNow(p[1], p[2])
  PROVE  CongruentInv'
<1> DEFINE a == p[1]
           b == p[2]
<1>1. /\ a \in wires /\ b \in wires /\ a.q = b.q
      /\ a \in Wire /\ b \in Wire
  BY PairFacts DEF RInv
<1> HIDE DEF a, b
<1>2. CASE MulLater(a, b)
  <2>1. Outcome({}, Product(a, b)) /\ ~MulOverflows(a, b)
    BY <1>2 DEF MulLater
  <2>2. (\A u \in wires : Exact(u)) => Congruent(Product(a, b))
    BY <1>1, <2>1, ProductExact
  <2> QED
    BY <2>1, <2>2, OutcomeResidue
<1>3. CASE MulNow(a, b)
  <2> DEFINE fails == ModFails(a.val, a.max, b.val, b.max, a.q, TRUE)
             w     == Reduced(a.val, b.val, a.q, MulRes(a, b))
  <2>1. Outcome(fails, w) /\ NumBits(a.max) + NumBits(b.max) >= FieldBits
    BY <1>3 DEF MulNow, MulOverflows
  <2>2. fails \in SUBSET AssertionNames
    BY FailNames DEF AssertionNames
  <2>3. NumBits(a.max) \in Nat /\ NumBits(b.max) \in Nat /\ FieldBits \in Nat
    BY <1>1, WireType, NumBitsFacts, FieldSize
  <2>4. fails = {} => NumBits(a.max) + NumBits(b.max) < FieldBits
    BY SizeFails
  <2> HIDE DEF fails, w
  <2>5. fails # {}
    BY <2>1, <2>3, <2>4
  <2> QED
    BY <2>1, <2>2, <2>5, OutcomeResidue
<1> QED
  BY <1>2, <1>3 DEF a, b

\* The test of a multiplication by a constant may ask for a reduction of a
\* product that fits: the gadget then reduces it to the right residue.
LEMMA ResidueMulConst ==
  ASSUME RInv, NEW a \in wires, NEW c \in 1 .. (a.q - 1),
         MulConstLater(a, c) \/ MulConstNow(a, c)
  PROVE  CongruentInv'
<1>1. CASE MulConstLater(a, c)
  <2>1. Outcome({}, Multiple(a, c)) /\ ~MulConstOverflows(a)
    BY <1>1 DEF MulConstLater
  <2>2. (\A u \in wires : Exact(u)) => Congruent(Multiple(a, c))
    BY <2>1, MultipleExact
  <2> QED
    BY <2>1, <2>2, OutcomeResidue
<1>2. CASE MulConstNow(a, c)
  <2> DEFINE fails == ModFails(a.val, a.max, c, c, a.q, TRUE)
             w     == Reduced(a.val, c, a.q, MulConstRes(a, c))
  <2>1. Outcome(fails, w)
    BY <1>2 DEF MulConstNow
  <2>2. fails \in SUBSET AssertionNames
    BY FailNames DEF AssertionNames
  <2>3. fails = {} => NumBits(a.max) + NumBits(c) < FieldBits
    BY SizeFails
  <2> HIDE DEF fails
  <2>4. ASSUME Exact(a), fails = {} PROVE Congruent(w)
    <3>1. /\ a.q \in Nat /\ a.q > 0 /\ a.val \in Nat /\ a.max \in Nat
          /\ a.max \in Field /\ a.val <= a.max
          /\ c \in Nat /\ c \in Field
      BY <2>4, ExactFacts, WireType, FieldSize DEF Field
    <3>2. /\ NumBits(a.max) \in 0 .. FieldBits /\ NumBits(c) \in 0 .. FieldBits
          /\ a.max < 2^NumBits(a.max) /\ c < 2^NumBits(c)
      BY <3>1, NumBitsFacts
    <3>3. a.val < 2^NumBits(a.max)
      BY <3>1, <3>2, PowerAssumption
    <3>4. a.val * c \in Field
      BY <2>3, <2>4, <3>1, <3>2, <3>3, ProductFits
    <3>5. (a.val * c) % a.q = MulConstRes(a, c)
      BY <2>4, ConstantTimes
    <3> QED
      BY <3>1, <3>4, <3>5, ReducedExact
  <2> HIDE DEF w
  <2> QED
    BY <2>1, <2>2, <2>4, OutcomeResidue
<1> QED
  BY <1>1, <1>2

\* Resolving a pending reduction keeps the residue.
LEMMA ResidueReduce ==
  ASSUME RInv, NEW a \in wires, Reduce(a)
  PROVE  CongruentInv'
<1> DEFINE fails == ModFails(a.val, a.max, 1, 1, a.q, TRUE)
           w     == Reduced(a.val, 1, a.q, a.res)
<1>1. Outcome(fails, w)
  BY DEF Reduce
<1>2. fails \in SUBSET AssertionNames
  BY FailNames DEF AssertionNames
<1>3. ASSUME Exact(a) PROVE Congruent(w)
  <2>1. /\ a.q \in Nat /\ a.q > 0 /\ a.val \in Int /\ a.val \in Field
        /\ a.val % a.q = a.res
    BY <1>3, ExactFacts
  <2>2. a.val * 1 = a.val
    BY <2>1
  <2> QED
    BY <2>1, <2>2, ReducedExact
<1> HIDE DEF fails, w
<1> QED
  BY <1>1, <1>2, <1>3, OutcomeResidue

\* A modulus switch keeps the residues.
LEMMA ResidueSwitch ==
  ASSUME RInv, NEW a \in wires, NEW new \in Moduli,
         SwitchSame(a) \/ SwitchUp(a, new) \/ SwitchDown(a, new)
  PROVE  CongruentInv'
<1>1. SwitchFails(a) \subseteq AssertionNames
  BY FailNames DEF SwitchFails, AssertionNames
<1>2. CASE SwitchSame(a)
  <2>1. {"switch_modulus"} \in SUBSET AssertionNames /\ {"switch_modulus"} # {}
    BY DEF AssertionNames
  <2> QED
    BY <1>2, <2>1, OutcomeResidue DEF SwitchSame
<1>3. CASE SwitchUp(a, new)
  <2> DEFINE fails == SwitchFails(a)
                        \cup Require("switch_modulus",
                                    Half(a.q) + Distance(a.q, new) < new)
  <2>1. Outcome(fails, Lifted(a, new)) /\ new > a.q
    BY <1>3 DEF SwitchUp
  <2>2. fails \in SUBSET AssertionNames
    BY <1>1, FailNames DEF AssertionNames
  <2> HIDE DEF fails
  <2>3. (\A u \in wires : Exact(u)) => Congruent(Lifted(a, new))
    BY <2>1, LiftedExact
  <2> QED
    BY <2>1, <2>2, <2>3, OutcomeResidue
<1>4. CASE SwitchDown(a, new)
  <2> DEFINE diff  == Distance(a.q, new)
             tmp   == Wrap(SwitchVal(a) - Shift(a, new))
             sizes == ModFails(tmp, Larger(Half(a.q), a.q - 1 - diff), 1, 1,
                               new, FALSE)
             fails == SwitchFails(a)
                        \cup Require("switch_modulus", Half(a.q) > diff) \cup sizes
             w     == Reduced(tmp, 1, new, SwitchRes(a, new))
  <2>1. Outcome(fails, w) /\ new < a.q
    BY <1>4 DEF SwitchDown
  <2>2. fails \in SUBSET AssertionNames
    <3>1. Require("switch_modulus", Half(a.q) > diff) \subseteq AssertionNames
      BY FailNames DEF AssertionNames
    <3>2. sizes \subseteq AssertionNames
      BY FailNames DEF AssertionNames
    <3> HIDE DEF sizes
    <3> QED
      BY <1>1, <3>1, <3>2
  <2>3. fails = {} => Half(a.q) > diff
    BY DEF Require
  <2>4. (\A u \in wires : Exact(u)) /\ fails = {} => Congruent(w)
    BY <2>1, <2>3, LoweredExact
  <2> HIDE DEF fails, w
  <2> QED
    BY <2>1, <2>2, <2>4, OutcomeResidue
<1> QED
  BY <1>2, <1>3, <1>4

-----------------------------------------------------------------------------
(* Theorems *)

\* The bounds and the residues hold before any wire is built, and together
\* every operation keeps them.
THEOREM ResiduesInductive ==
  /\ Init => RInv
  /\ RInv /\ [Next]_vars => RInv'
<1>1. Init => RInv
  BY Inductive DEF Init, RInv, CongruentInv
<1>2. ASSUME RInv, Next PROVE CongruentInv'
  <2>1. CASE \E q \in Moduli : \E v \in 0 .. (q - 1) : PublicInput(q, v)
    <3>1. PICK q \in Moduli : \E v \in 0 .. (q - 1) : PublicInput(q, v)
      BY <2>1
    <3>2. PICK v \in 0 .. (q - 1) : PublicInput(q, v)
      BY <3>1
    <3>3. v % q = v
      BY ModSmall, ModuliAssumption
    <3>4. Congruent(Fresh(q, v))
      BY <3>3 DEF Congruent, Fresh
    <3> QED
      BY <1>2, <3>2, <3>4, OutcomeResidue DEF PublicInput
  <2>2. CASE \E p \in Pairs : AddLater(p[1], p[2]) \/ AddNow(p[1], p[2])
    BY <1>2, <2>2, ResidueAdd
  <2>3. CASE \E p \in Pairs : SubLater(p[1], p[2]) \/ SubNow(p[1], p[2])
    BY <1>2, <2>3, ResidueSub
  <2>4. CASE \E p \in Pairs : MulLater(p[1], p[2]) \/ MulNow(p[1], p[2])
    BY <1>2, <2>4, ResidueMul
  <2>5. CASE \E a \in wires : \E c \in 1 .. (a.q - 1) :
               MulConstLater(a, c) \/ MulConstNow(a, c)
    <3>1. PICK a \in wires : \E c \in 1 .. (a.q - 1) :
                 MulConstLater(a, c) \/ MulConstNow(a, c)
      BY <2>5
    <3>2. PICK c \in 1 .. (a.q - 1) : MulConstLater(a, c) \/ MulConstNow(a, c)
      BY <3>1
    <3> QED
      BY <1>2, <3>2, ResidueMulConst
  <2>6. CASE \E a \in wires : Reduce(a)
    BY <1>2, <2>6, ResidueReduce
  <2>7. CASE \E a \in wires : SwitchSame(a)
    <3>1. PICK a \in wires : SwitchSame(a)
      BY <2>7
    <3>2. a.q \in Moduli
      BY <1>2, WireType DEF RInv, IInv, Good
    <3> QED
      BY <1>2, <3>1, <3>2, ResidueSwitch
  <2>8. CASE \E a \in wires : \E new \in Moduli : SwitchUp(a, new)
    BY <1>2, <2>8, ResidueSwitch
  <2>9. CASE \E a \in wires : \E new \in Moduli : SwitchDown(a, new)
    BY <1>2, <2>9, ResidueSwitch
  <2> QED
    BY <1>2, <2>1, <2>2, <2>3, <2>4, <2>5, <2>6, <2>7, <2>8, <2>9 DEF Next
<1>3. ASSUME RInv, UNCHANGED vars PROVE CongruentInv'
  BY <1>3 DEF RInv, CongruentInv, Trusted, vars
<1>4. RInv /\ [Next]_vars => IInv'
  BY Inductive DEF RInv
<1> QED
  BY <1>1, <1>2, <1>3, <1>4 DEF RInv

\* However reductions are postponed, a wire is congruent to the coefficient the
\* FHE library computed, for every field, moduli and number of operations.
THEOREM ResiduesHold == Spec => []CongruentInv
<1>1. RInv => CongruentInv
  BY DEF RInv
<1> QED
  BY ResiduesInductive, <1>1, PTL DEF Spec

\* A wire with no reduction pending is the coefficient itself, so what the
\* output constraints bind is the result of the homomorphic computation.
THEOREM OutputsExact == Spec => []OutputExact
<1>1. ASSUME RInv PROVE OutputExact
  <2>1. SUFFICES ASSUME Trusted, NEW w \in wires, ~NeedsReduction(w)
                 PROVE  w.val = w.res
    BY DEF OutputExact
  <2>2. Exact(w)
    BY <1>1, <2>1
    DEF RInv, IInv, BoundInv, CongruentInv, Exact, Bounded, Congruent
  <2>3. w.max < w.q
    BY <2>1, <2>2, ExactFacts DEF NeedsReduction
  <2>4. w.val \in 0 .. (w.q - 1) /\ w.q \in Nat /\ w.q > 0 /\ w.val % w.q = w.res
    BY <2>2, <2>3, ExactFacts
  <2>5. w.val % w.q = w.val
    BY <2>4, ModSmall
  <2> QED
    BY <2>4, <2>5
<1> QED
  BY ResiduesInductive, <1>1, PTL DEF Spec

-----------------------------------------------------------------------------
(* Quotients and range checks *)

\* Quotients respect the order, and a multiple of one is at most its dividend.
LEMMA QuotientFacts ==
  ASSUME NEW q \in Nat, q > 2, NEW x \in Nat, NEW y \in Nat, x <= y
  PROVE  /\ (x \div q) \in Nat /\ (y \div q) \in Nat
         /\ (x \div q) <= (y \div q)
         /\ 3 * (y \div q) <= y
<1> DEFINE k == x \div q
           l == y \div q
           r == x % q
           s == y % q
<1>1. /\ k \in Int /\ l \in Int /\ x = q * k + r /\ y = q * l + s
      /\ r \in 0 .. (q - 1) /\ s \in 0 .. (q - 1)
  OBVIOUS
<1>2. k \in Nat /\ l \in Nat
  OBVIOUS
<1> HIDE DEF k, l, r, s
<1>3. 3 * l <= q * l
  BY <1>2, ProductMonotone
<1>4. k <= l
  <2>1. SUFFICES ASSUME ~(k <= l) PROVE FALSE
    OBVIOUS
  <2>2. q * (l + 1) <= q * k
    BY <1>2, <2>1, ProductMonotone
  <2>3. q * (l + 1) = q * l + q
    BY <1>2
  <2>4. q * k \in Nat /\ q * l \in Nat
    BY <1>2
  <2> QED
    BY <1>1, <2>2, <2>3, <2>4
<1>5. q * l \in Nat
  BY <1>2
<1> QED
  BY <1>1, <1>2, <1>3, <1>4, <1>5 DEF k, l

\* The check that A < B accepts every A below B if its width is that of a
\* number of at most B bits and three times B is still a field element.
LEMMA RangeAccepts ==
  ASSUME NEW A \in Nat, NEW B \in Nat, A < B, NEW z \in Field, 1 <= z,
         B - 1 <= z, 2 * z + (B - 1) < P
  PROVE  LessThanConstant(A, B, NumBits(z))
<1> DEFINE kz == NumBits(z)
           kb == NumBits(B - 1)
<1>1. z \in Nat /\ B - 1 \in Nat /\ B - 1 \in Field
  BY FieldSize DEF Field
<1>2. /\ kz \in 0 .. FieldBits /\ z < 2^kz /\ kb \in 0 .. FieldBits
      /\ \A m \in 0 .. FieldBits : B - 1 < 2^m => kb <= m
      /\ 2^kz \in Nat /\ 2^kz <= 2 * z
  BY <1>1, NumBitsFacts, NumBitsTight
<1>3. B - 1 < 2^kz
  BY <1>1, <1>2
<1>4. Larger(kz, kb) = kz
  BY <1>2, <1>3 DEF Larger
<1>5. 2^(kz + 1) = 2 * 2^kz
  BY <1>2, PowerAssumption
<1> DEFINE w == 2^kz
           packed == w + (B - 1) - A
<1>6. LessThanConstant(A, B, kz) <=> w <= Wrap(packed) /\ Wrap(packed) < 2 * w
  BY <1>4, <1>5 DEF LessThanConstant
<1>7. w \in Nat /\ w <= 2 * z /\ B - 1 < w
  BY <1>2, <1>3
<1> HIDE DEF w, kz
<1>8. packed \in Int /\ packed \in Field
  BY <1>1, <1>7, FieldSize DEF Field
<1>9. Wrap(packed) = packed
  BY <1>8, WrapFacts
<1> QED
  BY <1>1, <1>6, <1>7, <1>9 DEF kz

\* A product whose bit count leaves a bit of the field free is two short of
\* the field order: the room the check of a quotient needs.
LEMMA ProductRoom ==
  ASSUME NEW q \in Moduli, NEW m1 \in Field, NEW m2 \in Field,
         NumBits(m1) + NumBits(m2) < FieldBits
  PROVE  m1 * m2 \in Nat /\ m1 * m2 \in Field /\ m1 * m2 + 2 < P
<1> DEFINE k == NumBits(m1)
           l == NumBits(m2)
           x == 2^k
           y == 2^l
<1>1. m1 \in Nat /\ m2 \in Nat
  BY FieldSize DEF Field
<1>2. /\ k \in 0 .. FieldBits /\ l \in 0 .. FieldBits
      /\ x \in Nat /\ y \in Nat /\ m1 < x /\ m2 < y
  BY NumBitsFacts, PowerPositive
<1>3. x * y = 2^(k + l)
  BY <1>2, FieldSize, PowerSum
<1>4. k + l <= FieldBits - 1 /\ k + l \in Nat
  BY <1>2, FieldSize
<1>5. 2^(k + l) <= 2^(FieldBits - 1)
  BY <1>4, FieldSize, PowerMonotone
<1> DEFINE z == 2^(k + l)
<1>6. z \in Nat /\ z < P /\ x * y = z
  BY <1>3, <1>4, <1>5, FieldSize, PowerPositive
<1> HIDE DEF k, l, x, y, z
<1>7. m1 + 1 <= x /\ m2 + 1 <= y
  BY <1>1, <1>2
<1>8. (m1 + 1) * (m2 + 1) <= x * y
  BY <1>1, <1>2, <1>7, ProductMonotone
<1>9. (m1 + 1) * (m2 + 1) = m1 * m2 + m1 + m2 + 1
  BY <1>1
<1>10. m1 * m2 \in Nat
  BY <1>1
<1>11. m1 * m2 + m1 + m2 + 1 < P
  <2> DEFINE e == (m1 + 1) * (m2 + 1)
  <2>1. e \in Nat /\ e <= z
    BY <1>1, <1>6, <1>8
  <2> HIDE DEF e
  <2>2. e < P
    BY <1>6, <2>1, FieldSize
  <2> QED
    BY <1>9, <2>2 DEF e
<1>12. CASE m1 = 0 /\ m2 = 0
  BY <1>12, ModuliAssumption, FieldSize DEF Field
<1>13. CASE m1 >= 1 \/ m2 >= 1
  BY <1>1, <1>10, <1>11, <1>13, FieldSize DEF Field
<1> QED
  BY <1>1, <1>12, <1>13

-----------------------------------------------------------------------------
(* Reductions *)

\* A reduction whose size assertion holds fails no other one: it is needed, and
\* the quotient and the remainder are in the ranges checked.
LEMMA ModAccepts ==
  ASSUME NEW q \in Moduli, NEW m1 \in Field, NEW m2 \in Field,
         NEW v1 \in Nat, NEW v2 \in Nat, v1 <= m1, v2 <= m2,
         NEW strict \in BOOLEAN, strict => m1 * m2 >= q - 1,
         NumBits(m1) + NumBits(m2) < FieldBits
  PROVE  ModFails(v1, m1, v2, m2, q, strict) = {}
<1> DEFINE m == m1 * m2
           x == v1 * v2
           maxq == m \div q
<1>1. q \in Nat /\ q > 2 /\ 3 * q < P /\ m1 \in Nat /\ m2 \in Nat
  BY ModuliAssumption, FieldSize DEF Field
<1>2. m \in Nat /\ m \in Field /\ m + 2 < P
  BY ProductRoom
<1>3. x \in Nat /\ x <= m
  BY <1>1, ProductMonotone
<1>4. x \in Field /\ Wrap(x) = x /\ Wrap(m) = m
  <2> HIDE DEF x, m
  <2>1. x \in Field
    BY <1>2, <1>3, FieldSize DEF Field
  <2> QED
    BY <1>2, <1>3, <2>1, WrapFacts
<1>5. MaxQuotient(m1, m2, q) = maxq
  BY <1>4 DEF MaxQuotient
<1>6. strict => NumBits(Wrap(m)) >= CeilLog2(q)
  <2>1. SUFFICES ASSUME strict PROVE NumBits(m) >= CeilLog2(q)
    BY <1>4
  <2>2. m >= q - 1
    BY <2>1
  <2> HIDE DEF m
  <2>3. q - 1 \in Field
    BY <1>1, FieldSize DEF Field
  <2>4. NumBits(m) \in 0 .. FieldBits /\ m < 2^NumBits(m)
    BY <1>2, NumBitsFacts
  <2>5. 2^NumBits(m) \in Nat
    BY <2>4, PowerPositive
  <2>6. q - 1 < 2^NumBits(m)
    BY <1>1, <1>2, <2>2, <2>4, <2>5
  <2>7. NumBits(q - 1) <= NumBits(m) /\ NumBits(q - 1) \in 0 .. FieldBits
    BY <2>3, <2>4, <2>6, NumBitsFacts
  <2> QED
    BY <2>4, <2>7, FieldSize DEF CeilLog2
<1>7. LessThanConstant(x \div q, maxq + 1, NumBits(maxq + 1))
  <2> HIDE DEF x, m
  <2> DEFINE A == x \div q
             B == maxq + 1
  <2>1. A \in Nat /\ maxq \in Nat /\ A <= maxq /\ 3 * maxq <= m
    BY <1>1, <1>2, <1>3, QuotientFacts
  <2> HIDE DEF A, maxq
  <2>2. /\ A \in Nat /\ B \in Nat /\ A < B /\ B \in Field /\ 1 <= B
        /\ B - 1 <= B /\ 2 * B + (B - 1) < P
    BY <1>2, <2>1, FieldSize DEF Field
  <2> HIDE DEF B
  <2>3. LessThanConstant(A, B, NumBits(B))
    BY <2>2, RangeAccepts
  <2> QED
    BY <2>3 DEF A, B
<1>8. LessThanConstant(x % q, q, CeilLog2(q))
  <2> HIDE DEF x
  <2>1. (x % q) \in 0 .. (q - 1)
    BY <1>1, <1>3, ModRange
  <2> DEFINE A == x % q
             z == q - 1
  <2>2. /\ A \in Nat /\ A < q /\ z \in Field /\ 1 <= z /\ q - 1 <= z
        /\ 2 * z + (q - 1) < P
    BY <1>1, <2>1, FieldSize DEF Field
  <2> HIDE DEF A, z
  <2>3. LessThanConstant(A, q, NumBits(z))
    BY <1>1, <2>2, RangeAccepts
  <2> QED
    BY <2>3 DEF A, z, CeilLog2
<1>9. /\ Require("mod_fits", NumBits(m1) + NumBits(m2) < FieldBits) = {}
      /\ Require("mod_needed", strict => NumBits(Wrap(m)) >= CeilLog2(q)) = {}
  BY <1>6 DEF Require
<1>10. Require("range",
              /\ v1 <= m1 /\ v2 <= m2
              /\ LessThanConstant(x \div q, maxq + 1, NumBits(maxq + 1))
              /\ LessThanConstant(x % q, q, CeilLog2(q))) = {}
  BY <1>7, <1>8 DEF Require
<1> QED
  BY <1>4, <1>5, <1>9, <1>10 DEF ModFails

\* The assertions that fail include one on a size or an operand.
Blamed(fails) == fails # {} => fails \cap SizeAsserts # {}

\* A reduction of a value within its bound, itself not below that of a reduced
\* wire, fails no range check on its own.
LEMMA ModBlamed ==
  ASSUME NEW q \in Moduli, NEW m1 \in Field, NEW m2 \in Field,
         NEW v1 \in Nat, NEW v2 \in Nat, v1 <= m1, v2 <= m2,
         NEW strict \in BOOLEAN, strict => m1 * m2 >= q - 1
  PROVE  Blamed(ModFails(v1, m1, v2, m2, q, strict))
<1>1. CASE NumBits(m1) + NumBits(m2) < FieldBits
  BY <1>1, ModAccepts DEF Blamed
<1>2. CASE ~(NumBits(m1) + NumBits(m2) < FieldBits)
  BY <1>2 DEF ModFails, Require, Blamed, SizeAsserts
<1> QED
  BY <1>1, <1>2

\* Two sets of failures that are both blamed on sizes are so together.
LEMMA BlamedUnion ==
  ASSUME NEW f, NEW g, Blamed(f), Blamed(g)
  PROVE  Blamed(f \cup g)
BY DEF Blamed

\* A size assertion is to blame for itself.
LEMMA SizeBlamed ==
  ASSUME NEW name \in SizeAsserts, NEW c
  PROVE  Blamed(Require(name, c))
BY DEF Blamed, Require

\* A reduction of a whole wire.
LEMMA WireBlamed ==
  ASSUME NEW a, Exact(a)
  PROVE  Blamed(ModFails(a.val, a.max, 1, 1, a.q, TRUE))
<1>1. /\ a.q \in Moduli /\ a.max \in Field /\ a.max \in Nat /\ a.val \in Nat
      /\ a.val <= a.max /\ a.max >= a.q - 1 /\ 1 \in Field
  BY ExactFacts, WireType, FieldSize DEF Field
<1>2. a.max * 1 = a.max
  BY <1>1
<1>3. 1 \in Nat /\ 1 <= 1 /\ TRUE \in BOOLEAN /\ a.max * 1 >= a.q - 1
  BY <1>1, <1>2
<1> QED
  BY <1>1, <1>3, ModBlamed, Zenon

-----------------------------------------------------------------------------
(* The operations *)

\* An operation keeps the property if, when the wires are exact, the assertions
\* it fails are blamed on sizes.
LEMMA OutcomeBlamed ==
  ASSUME RInv, RangeInv, NEW w, NEW fails,
         (\A u \in wires : Exact(u)) => Blamed(fails),
         Outcome(fails, w)
  PROVE  RangeInv'
<1>1. failed' = failed \cup fails
  BY DEF Outcome
<1>2. CASE failed = {}
  <2>1. \A u \in wires : Exact(u)
    BY <1>2
    DEF RInv, IInv, BoundInv, CongruentInv, Trusted, Exact, Bounded, Congruent
  <2> QED
    BY <1>1, <1>2, <2>1 DEF RangeInv, Blamed, SizeAsserts
<1>3. CASE failed # {}
  BY <1>1, <1>3 DEF RangeInv, SizeAsserts
<1> QED
  BY <1>2, <1>3

\* Additions, subtractions and products of wires reduce now only where the
\* gadget's own assertion on the size is false.
LEMMA RangePairs ==
  ASSUME RInv, RangeInv, NEW p \in Pairs,
         \/ AddLater(p[1], p[2]) \/ AddNow(p[1], p[2])
         \/ SubLater(p[1], p[2]) \/ SubNow(p[1], p[2])
         \/ MulLater(p[1], p[2]) \/ MulNow(p[1], p[2])
  PROVE  RangeInv'
<1> DEFINE a == p[1]
           b == p[2]
<1>1. a \in Wire /\ b \in Wire
  BY PairFacts DEF RInv
<1> HIDE DEF a, b
<1>2. Blamed({})
  BY DEF Blamed
<1>3. CASE AddLater(a, b) \/ MulLater(a, b)
  BY <1>2, <1>3, OutcomeBlamed DEF AddLater, MulLater
<1>4. CASE SubLater(a, b)
  <2>1. Blamed(Require("sub_operand", b.max <= a.q))
    BY SizeBlamed DEF SizeAsserts
  <2> QED
    BY <1>4, <2>1, OutcomeBlamed DEF SubLater
<1>5. CASE AddNow(a, b)
  <2> DEFINE mod   == ModFails(Sum(a, b).val, Sum(a, b).max, 1, 1, a.q, TRUE)
             fails == Require("add_fits", ~AddOverflows(a, b)) \cup mod
             w     == Reduced(Sum(a, b).val, 1, a.q, AddRes(a, b))
  <2>1. Outcome(fails, w) /\ AddOverflows(a, b)
    BY <1>5 DEF AddNow
  <2>2. "add_fits" \in fails
    BY <2>1 DEF Require
  <2> HIDE DEF fails, w
  <2>3. Blamed(fails)
    BY <2>2 DEF Blamed, SizeAsserts
  <2> QED
    BY <2>1, <2>3, OutcomeBlamed
<1>6. CASE SubNow(a, b)
  <2> DEFINE mod   == ModFails(Difference(a, b).val, Wrap(a.max + a.q - b.max),
                               1, 1, a.q, TRUE)
             fails == Require("sub_operand", b.max < a.q)
                        \cup Require("sub_fits", ~SubOverflows(a)) \cup mod
             w     == Reduced(Difference(a, b).val, 1, a.q, SubRes(a, b))
  <2>1. Outcome(fails, w) /\ SubOverflows(a)
    BY <1>6 DEF SubNow
  <2>2. "sub_fits" \in fails
    BY <2>1 DEF Require
  <2> HIDE DEF fails, w
  <2>3. Blamed(fails)
    BY <2>2 DEF Blamed, SizeAsserts
  <2> QED
    BY <2>1, <2>3, OutcomeBlamed
<1>7. CASE MulNow(a, b)
  <2> DEFINE fails == ModFails(a.val, a.max, b.val, b.max, a.q, TRUE)
             w     == Reduced(a.val, b.val, a.q, MulRes(a, b))
  <2>1. Outcome(fails, w) /\ NumBits(a.max) + NumBits(b.max) >= FieldBits
    BY <1>7 DEF MulNow, MulOverflows
  <2>2. NumBits(a.max) \in Nat /\ NumBits(b.max) \in Nat /\ FieldBits \in Nat
    BY <1>1, WireType, NumBitsFacts, FieldSize
  <2>3. ~(NumBits(a.max) + NumBits(b.max) < FieldBits)
    BY <2>1, <2>2
  <2>4. "mod_fits" \in fails
    BY <2>3 DEF ModFails, Require
  <2> HIDE DEF fails, w
  <2>5. Blamed(fails)
    BY <2>4 DEF Blamed, SizeAsserts
  <2> QED
    BY <2>1, <2>5, OutcomeBlamed
<1> QED
  BY <1>3, <1>4, <1>5, <1>6, <1>7 DEF a, b

\* A multiplication by a constant may reduce a product that fits.
LEMMA RangeMulConst ==
  ASSUME RInv, RangeInv, NEW a \in wires, NEW c \in 1 .. (a.q - 1),
         MulConstLater(a, c) \/ MulConstNow(a, c)
  PROVE  RangeInv'
<1>1. CASE MulConstLater(a, c)
  BY <1>1, OutcomeBlamed DEF MulConstLater, Blamed
<1>2. CASE MulConstNow(a, c)
  <2> DEFINE fails == ModFails(a.val, a.max, c, c, a.q, TRUE)
             w     == Reduced(a.val, c, a.q, MulConstRes(a, c))
  <2>1. Outcome(fails, w)
    BY <1>2 DEF MulConstNow
  <2>2. ASSUME Exact(a) PROVE Blamed(fails)
    <3>1. /\ a.q \in Moduli /\ a.max \in Field /\ a.max \in Nat /\ a.val \in Nat
          /\ a.val <= a.max /\ a.max >= a.q - 1
          /\ c \in Field /\ c \in Nat /\ 1 <= c /\ a.q \in Nat
      BY <2>2, ExactFacts, WireType, FieldSize DEF Field
    <3>2. a.max * 1 <= a.max * c /\ a.max * c \in Nat /\ a.max * 1 = a.max
      BY <3>1, ProductMonotone
    <3>3. a.max * c >= a.q - 1 /\ c <= c /\ TRUE \in BOOLEAN
      BY <3>1, <3>2
    <3> QED
      BY <3>1, <3>3, ModBlamed, Zenon
  <2> HIDE DEF fails, w
  <2> QED
    BY <2>1, <2>2, OutcomeBlamed
<1> QED
  BY <1>1, <1>2

\* A switch to a smaller modulus reduces a value within the bound it states.
LEMMA LoweredBlamed ==
  ASSUME NEW a, Exact(a), NEW new \in Moduli, new < a.q,
         Half(a.q) > Distance(a.q, new)
  PROVE  Blamed(ModFails(Wrap(SwitchVal(a) - Shift(a, new)),
                         Larger(Half(a.q), a.q - 1 - Distance(a.q, new)),
                         1, 1, new, FALSE))
<1> DEFINE diff == Distance(a.q, new)
           h == Half(a.q)
           x == a.res - Shift(a, new)
           m == Larger(h, a.q - 1 - diff)
<1>1. /\ a.q \in Nat /\ new \in Nat /\ new > 0 /\ new # a.q /\ a.res \in Nat
      /\ a.res < a.q /\ 3 * a.q < P
  BY ExactFacts, ModuliAssumption
<1>2. Shift(a, new) = IF a.res > h THEN diff ELSE 0
  BY <1>1, ShiftExact
<1>3. diff \in Nat /\ h \in Nat /\ h <= a.q /\ diff < a.q
  BY <1>1 DEF Distance, Half
<1> HIDE DEF diff, h
<1>4. x \in Nat /\ x <= m /\ m \in Nat /\ x \in Field /\ m \in Field /\ 1 \in Field
  BY <1>1, <1>2, <1>3, FieldSize DEF Field, Larger, diff, h
<1>5. Wrap(SwitchVal(a) - Shift(a, new)) = x
  BY <1>4, SwitchInput, WrapFacts DEF Field
<1> HIDE DEF x, m
<1>6. Blamed(ModFails(x, m, 1, 1, new, FALSE))
  <2>1. 1 \in Nat /\ 1 <= 1 /\ FALSE \in BOOLEAN
    OBVIOUS
  <2> QED
    BY <1>4, <2>1, ModBlamed, Zenon
<1> QED
  BY <1>5, <1>6 DEF m, h, diff

\* A modulus switch fails no range check unless the moduli are too far apart.
LEMMA RangeSwitch ==
  ASSUME RInv, RangeInv, NEW a \in wires, NEW new \in Moduli,
         SwitchSame(a) \/ SwitchUp(a, new) \/ SwitchDown(a, new)
  PROVE  RangeInv'
<1>1. ASSUME Exact(a) PROVE Blamed(SwitchFails(a))
  BY <1>1, WireBlamed DEF SwitchFails, Blamed
<1>2. CASE SwitchSame(a)
  <2>1. Blamed({"switch_modulus"})
    BY DEF Blamed, SizeAsserts
  <2> QED
    BY <1>2, <2>1, OutcomeBlamed DEF SwitchSame
<1>3. CASE SwitchUp(a, new)
  <2> DEFINE fails == SwitchFails(a)
                        \cup Require("switch_modulus",
                                    Half(a.q) + Distance(a.q, new) < new)
  <2>1. Outcome(fails, Lifted(a, new))
    BY <1>3 DEF SwitchUp
  <2>2. Blamed(Require("switch_modulus", Half(a.q) + Distance(a.q, new) < new))
    BY SizeBlamed DEF SizeAsserts
  <2>3. Exact(a) => Blamed(fails)
    BY <1>1, <2>2, BlamedUnion
  <2> HIDE DEF fails
  <2> QED
    BY <2>1, <2>3, OutcomeBlamed
<1>4. CASE SwitchDown(a, new)
  <2> DEFINE diff  == Distance(a.q, new)
             tmp   == Wrap(SwitchVal(a) - Shift(a, new))
             room  == Require("switch_modulus", Half(a.q) > diff)
             sizes == ModFails(tmp, Larger(Half(a.q), a.q - 1 - diff), 1, 1,
                               new, FALSE)
             fails == SwitchFails(a) \cup room \cup sizes
             w     == Reduced(tmp, 1, new, SwitchRes(a, new))
  <2>1. Outcome(fails, w) /\ new < a.q
    BY <1>4 DEF SwitchDown
  <2>2. Half(a.q) > diff => (Exact(a) => Blamed(sizes))
    BY <2>1, LoweredBlamed
  <2>3. Blamed(room)
    BY SizeBlamed DEF SizeAsserts
  <2>4. ~(Half(a.q) > diff) => "switch_modulus" \in room
    BY DEF Require
  <2> HIDE DEF sizes, room, w, tmp, diff
  <2>5. ASSUME Exact(a) PROVE Blamed(fails)
    <3>1. CASE Half(a.q) > diff
      BY <1>1, <2>2, <2>3, <2>5, <3>1, BlamedUnion
    <3>2. CASE ~(Half(a.q) > diff)
      BY <2>4, <3>2 DEF Blamed, SizeAsserts
    <3> QED
      BY <3>1, <3>2
  <2> HIDE DEF fails
  <2> QED
    BY <2>1, <2>5, OutcomeBlamed
<1> QED
  BY <1>2, <1>3, <1>4

-----------------------------------------------------------------------------
(* Theorem *)

\* The range checks of quotients and remainders accept every honest witness and
\* no gadget is asked for a reduction it refuses, for every field, all moduli
\* and every number of operations, unless a size or operand assertion failed.
THEOREM RangesAccept == Spec => []RangeInv
<1>1. Init => RangeInv
  BY DEF Init, RangeInv
<1>2. ASSUME RInv, RangeInv, Next PROVE RangeInv'
  <2>1. CASE \E q \in Moduli : \E v \in 0 .. (q - 1) : PublicInput(q, v)
    BY <1>2, <2>1, OutcomeBlamed DEF PublicInput, Blamed
  <2>2. CASE \E p \in Pairs : \/ AddLater(p[1], p[2]) \/ AddNow(p[1], p[2])
                             \/ SubLater(p[1], p[2]) \/ SubNow(p[1], p[2])
                             \/ MulLater(p[1], p[2]) \/ MulNow(p[1], p[2])
    BY <1>2, <2>2, RangePairs
  <2>3. CASE \E a \in wires : \E c \in 1 .. (a.q - 1) :
               MulConstLater(a, c) \/ MulConstNow(a, c)
    <3>1. PICK a \in wires : \E c \in 1 .. (a.q - 1) :
                 MulConstLater(a, c) \/ MulConstNow(a, c)
      BY <2>3
    <3>2. PICK c \in 1 .. (a.q - 1) : MulConstLater(a, c) \/ MulConstNow(a, c)
      BY <3>1
    <3> QED
      BY <1>2, <3>2, RangeMulConst
  <2>4. CASE \E a \in wires : Reduce(a)
    BY <1>2, <2>4, WireBlamed, OutcomeBlamed DEF Reduce
  <2>5. CASE \E a \in wires : SwitchSame(a)
    <3>1. PICK a \in wires : SwitchSame(a)
      BY <2>5
    <3>2. a.q \in Moduli
      BY <1>2, WireType DEF RInv, IInv, Good
    <3> QED
      BY <1>2, <3>1, <3>2, RangeSwitch
  <2>6. CASE \E a \in wires : \E new \in Moduli :
               SwitchUp(a, new) \/ SwitchDown(a, new)
    BY <1>2, <2>6, RangeSwitch
  <2> QED
    BY <1>2, <2>1, <2>2, <2>3, <2>4, <2>5, <2>6 DEF Next
<1>3. ASSUME RangeInv, UNCHANGED vars PROVE RangeInv'
  BY <1>3 DEF RangeInv, vars
<1> QED
  BY ResiduesInductive, <1>1, <1>2, <1>3, PTL DEF Spec

=============================================================================
