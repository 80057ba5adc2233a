------------------------- MODULE ArithmeticTheorems -------------------------
(****************************************************************************)
(* Facts of arithmetic that the proofs of several components need: least    *)
(* elements, remainders, that recurrences and folds have the values their   *)
(* equations say, quotients, residues and sums of both, and numbers cut in  *)
(* windows.  The induction in them is over sets of naturals.                *)
(****************************************************************************)
EXTENDS Integers, FiniteSets, FiniteSetTheorems, WellFoundedInduction, TLAPS

-----------------------------------------------------------------------------
(* Integers *)

\* A set of naturals that is not empty has a least element.
LEMMA LeastNat ==
  ASSUME NEW T \in SUBSET Nat, T # {}
  PROVE  \E m \in T : \A k \in T : m <= k
<1>1. \E m \in T : \A k \in T : ~(<<k, m>> \in OpToRel(<, Nat))
  BY NatLessThanWellFounded, WFMin
<1>2. PICK m \in T : \A k \in T : ~(<<k, m>> \in OpToRel(<, Nat))
  BY <1>1
<1>3. ASSUME NEW k \in T PROVE m <= k
  <2>1. <<k, m>> \in Nat \X Nat
    OBVIOUS
  <2>2. ~(k < m)
    BY <1>2, <2>1 DEF OpToRel
  <2> QED
    BY <2>2
<1> QED
  BY <1>3

\* The remainder of an integer is between 0 and the divisor.
LEMMA ModRange ==
  ASSUME NEW x \in Int, NEW q \in Nat, q > 0
  PROVE  (x % q) \in 0 .. (q - 1)
OBVIOUS

\* Products of naturals respect the order.
LEMMA ProductMonotone ==
  ASSUME NEW a \in Nat, NEW b \in Nat, NEW c \in Nat, NEW d \in Nat,
         a <= c, b <= d
  PROVE  /\ a * b \in Nat
         /\ a * b <= c * d
<1>1. PICK e \in Nat : c = a + e
  <2> WITNESS c - a \in Nat
  <2> QED OBVIOUS
<1>2. PICK f \in Nat : d = b + f
  <2> WITNESS d - b \in Nat
  <2> QED OBVIOUS
<1>3. c * d = a * b + a * f + e * b + e * f
  BY <1>1, <1>2
<1>4. a * b \in Nat /\ a * f \in Nat /\ e * b \in Nat /\ e * f \in Nat
  OBVIOUS
<1> QED
  BY <1>3, <1>4

\* A set of naturals that holds 0 and the successors of its elements, up to a
\* bound, holds every natural up to the bound.
LEMMA UpTo ==
  ASSUME NEW n \in Nat, NEW S, 0 \in S, \A k \in 0 .. (n - 1) : k \in S => k + 1 \in S
  PROVE  \A k \in 0 .. n : k \in S
<1> DEFINE T == {k \in 0 .. n : k \notin S}
<1>1. SUFFICES ASSUME T # {} PROVE FALSE
  OBVIOUS
<1>2. T \in SUBSET Nat
  OBVIOUS
<1>3. PICK m \in T : \A k \in T : m <= k
  BY <1>1, <1>2, LeastNat
<1>4. m # 0 /\ m \in 0 .. n
  BY <1>3
<1>5. m - 1 \in 0 .. (n - 1) /\ m - 1 \in 0 .. n /\ (m - 1) + 1 = m /\ ~(m <= m - 1)
  BY <1>4
<1>6. m - 1 \in S
  BY <1>3, <1>5
<1> QED
  BY <1>3, <1>5, <1>6

-----------------------------------------------------------------------------
(* Remainders *)

\* What is left of a number after a multiple of q, if it is below q, is its
\* remainder.
LEMMA ModUnique ==
  ASSUME NEW q \in Nat, q > 0, NEW k \in Int, NEW r \in 0 .. (q - 1)
  PROVE  (q * k + r) % q = r
<1> DEFINE x == q * k + r
           l == x \div q
           s == x % q
           d == k - l
<1>0. x \in Int /\ x = q * k + r
  OBVIOUS
<1> HIDE DEF x
<1>1. l \in Int /\ s \in 0 .. (q - 1) /\ x = q * l + s
  BY <1>0
<1> HIDE DEF l, s
<1>2. d \in Int /\ q * d = s - r
  BY <1>0, <1>1
<1> HIDE DEF d
<1>3. ~(d >= 1)
  <2>1. SUFFICES ASSUME d >= 1 PROVE FALSE
    OBVIOUS
  <2>2. d \in Nat /\ q * 1 <= q * d
    BY <1>2, <2>1, ProductMonotone
  <2> QED
    BY <1>1, <1>2, <2>2
<1>4. ~(d <= -1)
  <2>1. SUFFICES ASSUME d <= -1 PROVE FALSE
    OBVIOUS
  <2> DEFINE e == -d
  <2>2. e \in Nat /\ e >= 1 /\ q * e = r - s
    BY <1>1, <1>2, <2>1
  <2> HIDE DEF e
  <2>3. q * 1 <= q * e
    BY <2>2, ProductMonotone
  <2> QED
    BY <1>1, <2>2, <2>3
<1>5. d = 0
  BY <1>2, <1>3, <1>4
<1>6. s = r
  BY <1>1, <1>2, <1>5
<1> QED
  BY <1>6 DEF s, x

\* Numbers a multiple of q apart have the same remainder.
LEMMA ModShift ==
  ASSUME NEW q \in Nat, q > 0, NEW k \in Int, NEW y \in Int
  PROVE  (y + q * k) % q = y % q
<1> DEFINE l == y \div q
           s == y % q
           m == k + l
<1>1. l \in Int /\ s \in 0 .. (q - 1) /\ y = q * l + s /\ m \in Int
  OBVIOUS
<1>2. y + q * k = q * m + s
  BY <1>1
<1> HIDE DEF l, s, m
<1>3. (q * m + s) % q = s
  BY <1>1, ModUnique
<1> QED
  BY <1>2, <1>3 DEF s

\* A number below q is its own remainder.
LEMMA ModSmall ==
  ASSUME NEW q \in Nat, q > 0, NEW x \in 0 .. (q - 1)
  PROVE  x % q = x
<1>1. (q * 0 + x) % q = x
  BY ModUnique
<1>2. q * 0 + x = x
  OBVIOUS
<1> QED
  BY <1>1, <1>2

\* A number is its remainder and a multiple of the divisor.
LEMMA ModSplit ==
  ASSUME NEW q \in Nat, q > 0, NEW x \in Int
  PROVE  \E k \in Int : x = (x % q) + q * k
<1> WITNESS x \div q \in Int
<1> QED
  OBVIOUS

\* A number is its remainder and a multiple of the modulus, the quotient.
LEMMA DivMod ==
  ASSUME NEW q \in Nat, q > 0, NEW x \in Int
  PROVE  x = (x % q) + q * (x \div q) /\ x \div q \in Int /\ x % q \in 0 .. (q - 1)
OBVIOUS

\* Remainders of sums, differences and products depend on those of the operands.
LEMMA ModArith ==
  ASSUME NEW q \in Nat, q > 0, NEW x \in Int, NEW y \in Int
  PROVE  /\ (x + y) % q = ((x % q) + (y % q)) % q
         /\ (x + q - y) % q = ((x % q) + q - (y % q)) % q
         /\ (x * y) % q = ((x % q) * (y % q)) % q
<1> DEFINE r == x % q
           s == y % q
<1>0. r \in Int /\ s \in Int
  OBVIOUS
<1>1. PICK k \in Int : x = r + q * k
  BY ModSplit
<1>2. PICK l \in Int : y = s + q * l
  BY ModSplit
<1> HIDE DEF r, s
<1>3. (x + y) % q = (r + s) % q
  <2> DEFINE h == k + l
             v == r + s
  <2>1. h \in Int /\ v \in Int /\ x + y = v + q * h
    BY <1>0, <1>1, <1>2
  <2> HIDE DEF h, v
  <2>2. (v + q * h) % q = v % q
    BY <2>1, ModShift
  <2> QED
    BY <2>1, <2>2 DEF v
<1>4. (x + q - y) % q = (r + q - s) % q
  <2> DEFINE h == k - l
             v == r + q - s
  <2>1. h \in Int /\ v \in Int /\ x + q - y = v + q * h
    BY <1>0, <1>1, <1>2
  <2> HIDE DEF h, v
  <2>2. (v + q * h) % q = v % q
    BY <2>1, ModShift
  <2> QED
    BY <2>1, <2>2 DEF v
<1>5. (x * y) % q = (r * s) % q
  <2> DEFINE h == k * s + r * l + k * (q * l)
             v == r * s
  <2>1. h \in Int /\ v \in Int
    BY <1>0
  <2>2. x * y = v + q * h
    BY <1>0, <1>1, <1>2
  <2> HIDE DEF h, v
  <2>3. (v + q * h) % q = v % q
    BY <2>1, ModShift
  <2> QED
    BY <2>2, <2>3 DEF v
<1> QED
  BY <1>3, <1>4, <1>5 DEF r, s

\* Factors and terms may be reduced before or after.
LEMMA ModAbsorb ==
  ASSUME NEW q \in Nat, q > 0, NEW x \in Int, NEW y \in Int
  PROVE  /\ ((x % q) * y) % q = (x * y) % q
         /\ (x * (y % q)) % q = (x * y) % q
         /\ ((x % q) + y) % q = (x + y) % q
         /\ (x + (y % q)) % q = (x + y) % q
<1> DEFINE r == x % q
           s == y % q
<1>1. r \in 0 .. (q - 1) /\ s \in 0 .. (q - 1) /\ r \in Int /\ s \in Int
  OBVIOUS
<1> HIDE DEF r, s
<1>2. r % q = r /\ s % q = s
  BY <1>1, ModSmall
<1>3. /\ (r * y) % q = ((r % q) * s) % q
      /\ (x * s) % q = (r * (s % q)) % q
      /\ (x * y) % q = (r * s) % q
      /\ (r + y) % q = ((r % q) + s) % q
      /\ (x + s) % q = (r + (s % q)) % q
      /\ (x + y) % q = (r + s) % q
  BY <1>1, ModArith DEF r, s
<1> QED
  BY <1>2, <1>3 DEF r, s

-----------------------------------------------------------------------------
(* Recursion *)

(* Recurrences and folds are given by a function from an index or element   *)
(* and the value before it.                                                  *)
IsStep(F, S, V) == F \in [S \X V -> V]

Recurs(f, n, V, base, F) ==
  /\ f \in [0 .. n -> V]
  /\ f[0] = base
  /\ \A k \in 1 .. n : f[k] = F[<<k, f[k - 1]>>]

\* A recurrence over 0 .. n has a solution.
LEMMA RecursionExists ==
  ASSUME NEW n \in Nat, NEW V, NEW base \in V, NEW F, IsStep(F, 1 .. n, V)
  PROVE  \E f : Recurs(f, n, V, base, F)
<1> USE DEF IsStep
<1> DEFINE Solves(f, m) == f[0] = base /\ \A k \in 1 .. m : f[k] = F[<<k, f[k - 1]>>]
           S == {m \in 0 .. n : \E f \in [0 .. m -> V] : Solves(f, m)}
<1>1. 0 \in S
  <2> DEFINE f == [k \in 0 .. 0 |-> base]
  <2>1. f \in [0 .. 0 -> V] /\ Solves(f, 0)
    OBVIOUS
  <2> HIDE DEF f, Solves
  <2>2. 0 \in 0 .. n /\ \E e \in [0 .. 0 -> V] : Solves(e, 0)
    BY <2>1
  <2> QED
    BY <2>2
<1>2. ASSUME NEW m \in 0 .. (n - 1), m \in S PROVE m + 1 \in S
  <2>1. PICK f \in [0 .. m -> V] : Solves(f, m)
    BY <1>2
  <2> DEFINE g == [k \in 0 .. (m + 1) |-> IF k = m + 1 THEN F[<<m + 1, f[m]>>] ELSE f[k]]
  <2>2. m \in Nat /\ m + 1 \in 1 .. n /\ m \in 0 .. m /\ f[m] \in V
    OBVIOUS
  <2>3. F[<<m + 1, f[m]>>] \in V
    BY <2>2
  <2>4. g \in [0 .. (m + 1) -> V]
    BY <2>2, <2>3
  <2>5. /\ g[0] = f[0]
        /\ \A k \in 0 .. m : g[k] = f[k]
        /\ g[m + 1] = F[<<m + 1, f[m]>>]
    BY <2>2
  <2> HIDE DEF g
  <2>6. \A k \in 1 .. (m + 1) : g[k] = F[<<k, g[k - 1]>>]
    <3> TAKE k \in 1 .. (m + 1)
    <3>1. CASE k = m + 1
      <4>1. k - 1 = m /\ g[k - 1] = f[m]
        BY <2>2, <2>5, <3>1
      <4> QED
        BY <2>5, <3>1, <4>1
    <3>2. CASE k # m + 1
      <4>1. k \in 1 .. m /\ k - 1 \in 0 .. m /\ k \in 0 .. m
        BY <2>2, <3>2
      <4> QED
        BY <2>1, <2>5, <4>1
    <3> QED
      BY <3>1, <3>2
  <2>7. Solves(g, m + 1)
    BY <2>1, <2>5, <2>6
  <2> QED
    BY <2>2, <2>4, <2>7
<1> HIDE DEF S
<1>3. n \in S
  BY <1>1, <1>2, UpTo
<1> QED
  BY <1>3 DEF S, Recurs

(* The order in which a fold takes the elements of a set. *)
IsPick(pick, S) == \A T \in SUBSET S : T # {} => pick[T] \in T

FoldsTo(h, S, V, base, F, pick) ==
  /\ h \in [SUBSET S -> V]
  /\ \A T \in SUBSET S :
       h[T] = IF T = {} THEN base ELSE F[<<pick[T], h[T \ {pick[T]}]>>]

\* A fold over a finite set, in whatever order the elements are taken, has a
\* value for every subset.
LEMMA FoldExists ==
  ASSUME NEW S, IsFiniteSet(S), NEW V, NEW base \in V, NEW F, IsStep(F, S, V),
         NEW pick, IsPick(pick, S)
  PROVE  \E h : FoldsTo(h, S, V, base, F, pick)
<1> USE DEF IsStep, IsPick
<1> DEFINE Value(h, T) == IF T = {} THEN base ELSE F[<<pick[T], h[T \ {pick[T]}]>>]
           Small(n) == {T \in SUBSET S : Cardinality(T) <= n}
           c == Cardinality(S)
           N == {n \in 0 .. c : \E h \in [Small(n) -> V] : \A T \in Small(n) : h[T] = Value(h, T)}
<1>1. c \in Nat /\ \A T \in SUBSET S : IsFiniteSet(T) /\ Cardinality(T) \in Nat /\ Cardinality(T) <= c
  BY FS_CardinalityType, FS_Subset
<1>2. 0 \in N
  <2> DEFINE h == [T \in Small(0) |-> base]
  <2>1. \A T \in Small(0) : T = {}
    BY <1>1, FS_EmptySet
  <2>2. h \in [Small(0) -> V] /\ \A T \in Small(0) : h[T] = Value(h, T)
    BY <2>1
  <2> HIDE DEF h, Small, Value, c
  <2>3. 0 \in 0 .. c /\ \E e \in [Small(0) -> V] : \A T \in Small(0) : e[T] = Value(e, T)
    BY <1>1, <2>2
  <2> QED
    BY <2>3
<1>3. ASSUME NEW n \in 0 .. (c - 1), n \in N PROVE n + 1 \in N
  <2>1. PICK h \in [Small(n) -> V] : \A T \in Small(n) : h[T] = Value(h, T)
    BY <1>3
  <2> DEFINE g == [T \in Small(n + 1) |-> Value(h, T)]
  <2>2. n \in Nat /\ n + 1 \in 0 .. c
    BY <1>1
  <2>3. ASSUME NEW T \in Small(n + 1), T # {}
        PROVE  pick[T] \in S /\ T \ {pick[T]} \in Small(n)
    <3>1. T \in SUBSET S /\ pick[T] \in T /\ Cardinality(T) <= n + 1 /\ IsFiniteSet(T)
          /\ Cardinality(T) \in Nat
      BY <1>1, <2>3
    <3>2. Cardinality(T \ {pick[T]}) = Cardinality(T) - 1
      BY <3>1, FS_RemoveElement
    <3> QED
      BY <2>2, <3>1, <3>2
  <2>4. g \in [Small(n + 1) -> V]
    <3>1. ASSUME NEW T \in Small(n + 1) PROVE Value(h, T) \in V
      <4>1. CASE T = {}
        BY <4>1
      <4>2. CASE T # {}
        <5>1. pick[T] \in S /\ h[T \ {pick[T]}] \in V
          BY <2>3, <4>2
        <5> HIDE DEF Small
        <5>2. F[<<pick[T], h[T \ {pick[T]}]>>] \in V
          BY <5>1
        <5> QED
          BY <4>2, <5>2
      <4> QED
        BY <4>1, <4>2
    <3> HIDE DEF Small, Value
    <3> QED
      BY <3>1
  <2>5. \A T \in Small(n) : T \in Small(n + 1) /\ g[T] = h[T]
    <3> TAKE T \in Small(n)
    <3>1. T \in Small(n + 1)
      BY <1>1, <2>2
    <3> HIDE DEF Small, Value
    <3> QED
      BY <2>1, <3>1
  <2>6. ASSUME NEW T \in Small(n + 1) PROVE g[T] = Value(g, T)
    <3>1. g[T] = Value(h, T)
      OBVIOUS
    <3> HIDE DEF g
    <3>2. CASE T = {}
      BY <3>1, <3>2
    <3>3. CASE T # {}
      <4>1. g[T \ {pick[T]}] = h[T \ {pick[T]}]
        BY <2>3, <2>5, <3>3
      <4> QED
        BY <3>1, <3>3, <4>1
    <3> QED
      BY <3>2, <3>3
  <2> HIDE DEF g, Small, Value
  <2>7. \E e \in [Small(n + 1) -> V] : \A T \in Small(n + 1) : e[T] = Value(e, T)
    BY <2>4, <2>6
  <2> QED
    BY <2>2, <2>7
<1>4. c \in N
  <2> HIDE DEF N, c
  <2> QED
    BY <1>1, <1>2, <1>3, UpTo
<1>5. Small(c) = SUBSET S
  BY <1>1
<1>6. PICK h \in [Small(c) -> V] : \A T \in Small(c) : h[T] = Value(h, T)
  BY <1>4
<1> QED
  BY <1>5, <1>6 DEF FoldsTo

Inherits(G, S) ==
  /\ {} \in G
  /\ \A T \in SUBSET S : T # {} => \E x \in T : T \ {x} \in G => T \in G

\* What holds of the empty set, and of a set whenever it holds of the set
\* without the element that is taken last, holds of all subsets.
LEMMA FoldInduction ==
  ASSUME NEW S, IsFiniteSet(S), NEW G, Inherits(G, S)
  PROVE  \A T \in SUBSET S : T \in G
<1> USE DEF Inherits
<1> DEFINE c == Cardinality(S)
           N == {n \in 0 .. c : \A T \in SUBSET S : Cardinality(T) = n => T \in G}
<1>1. c \in Nat /\ \A T \in SUBSET S : IsFiniteSet(T) /\ Cardinality(T) \in Nat /\ Cardinality(T) <= c
  BY FS_CardinalityType, FS_Subset
<1>2. 0 \in N
  <2>1. \A T \in SUBSET S : Cardinality(T) = 0 => T = {}
    BY <1>1, FS_EmptySet
  <2>2. \A T \in SUBSET S : Cardinality(T) = 0 => T \in G
    BY <2>1
  <2>3. 0 \in 0 .. c
    BY <1>1
  <2> QED
    BY <2>2, <2>3
<1>3. ASSUME NEW n \in 0 .. (c - 1), n \in N PROVE n + 1 \in N
  <2>1. ASSUME NEW T \in SUBSET S, Cardinality(T) = n + 1 PROVE T \in G
    <3> HIDE DEF c
    <3>1. n \in Nat /\ T # {}
      <4>1. n + 1 # 0 /\ n \in Nat
        BY <1>1
      <4> QED
        BY <2>1, <4>1, FS_EmptySet
    <3>2. PICK x \in T : T \ {x} \in G => T \in G
      BY <3>1
    <3>3. Cardinality(T \ {x}) = Cardinality(T) - 1 /\ T \ {x} \in SUBSET S
      BY <1>1, <2>1, FS_RemoveElement
    <3>4. Cardinality(T \ {x}) = n
      BY <2>1, <3>1, <3>3
    <3> QED
      BY <1>3, <3>2, <3>3, <3>4
  <2> QED
    BY <1>1, <2>1
<1> HIDE DEF N
<1>4. \A n \in 0 .. c : n \in N
  BY <1>1, <1>2, <1>3, UpTo
<1> QED
  BY <1>1, <1>4 DEF N

-----------------------------------------------------------------------------
(* Sums *)

Adds(f, S) == [p \in S \X Int |-> f[p[1]] + p[2]]

AnElement(T) == CHOOSE x \in T : TRUE

AnyOf(S) == [T \in SUBSET S |-> AnElement(T)]

SumsTo(h, f, S) == FoldsTo(h, S, Int, 0, Adds(f, S), AnyOf(S))

(* The sum of f over a finite set S.                                         *)
Total(f, S) == (CHOOSE h : SumsTo(h, f, S))[S]

\* Terms can be added up.
LEMMA SumExists ==
  ASSUME NEW S, IsFiniteSet(S), NEW f, \A x \in S : f[x] \in Int
  PROVE  \E h : SumsTo(h, f, S)
<1>1. IsStep(Adds(f, S), S, Int)
  <2>1. \A p \in S \X Int : f[p[1]] + p[2] \in Int
    OBVIOUS
  <2> QED
    BY <2>1 DEF IsStep, Adds
<1>2. IsPick(AnyOf(S), S)
  <2>1. \A T \in SUBSET S : T # {} => AnElement(T) \in T
    BY DEF AnElement
  <2> QED
    BY <2>1 DEF IsPick, AnyOf
<1>3. \E h : FoldsTo(h, S, Int, 0, Adds(f, S), AnyOf(S))
  <2>1. 0 \in Int
    OBVIOUS
  <2> QED
    BY <1>1, <1>2, <2>1, FoldExists
<1> QED
  BY <1>3 DEF SumsTo

AddsUp(h, f, S) ==
  /\ h \in [SUBSET S -> Int]
  /\ h[{}] = 0
  /\ \A T \in SUBSET S : T # {} =>
       AnElement(T) \in T /\ h[T] = f[AnElement(T)] + h[T \ {AnElement(T)}]

\* What adds up the terms of a set adds up those of its subsets.
LEMMA SumsUp ==
  ASSUME NEW S, NEW f, NEW h, SumsTo(h, f, S)
  PROVE  AddsUp(h, f, S)
<1>1. h \in [SUBSET S -> Int] /\ h[{}] = 0
  BY DEF SumsTo, FoldsTo
<1>2. ASSUME NEW T \in SUBSET S, T # {}
      PROVE  AnElement(T) \in T /\ h[T] = f[AnElement(T)] + h[T \ {AnElement(T)}]
  <2> DEFINE x == AnElement(T)
  <2>1. x \in T /\ AnyOf(S)[T] = x
    BY <1>2 DEF AnyOf, AnElement
  <2> HIDE DEF x
  <2>2. h[T] = Adds(f, S)[<<x, h[T \ {x}]>>]
    BY <1>2, <2>1 DEF SumsTo, FoldsTo
  <2>3. h[T \ {x}] \in Int /\ x \in S
    BY <1>1, <2>1
  <2>4. Adds(f, S)[<<x, h[T \ {x}]>>] = f[x] + h[T \ {x}]
    BY <2>3 DEF Adds
  <2> QED
    BY <2>1, <2>2, <2>4 DEF x
<1> QED
  BY <1>1, <1>2 DEF AddsUp

\* There is one sum.
LEMMA SumUnique ==
  ASSUME NEW S, IsFiniteSet(S), NEW f, NEW h, SumsTo(h, f, S)
  PROVE  \A T \in SUBSET S : Total(f, T) = h[T]
<1> TAKE T \in SUBSET S
<1> DEFINE g == CHOOSE g : SumsTo(g, f, T)
           G == {R \in SUBSET T : g[R] = h[R]}
<1>1. IsFiniteSet(T) /\ SUBSET T \subseteq SUBSET S
  BY FS_Subset
<1>6. \A R \in SUBSET S : R # {} =>
        AnElement(R) \in R /\ h[R] = f[AnElement(R)] + h[R \ {AnElement(R)}]
  <2>1. AddsUp(h, f, S)
    BY SumsUp
  <2> QED
    BY <2>1 DEF AddsUp
<1>2. SumsTo([R \in SUBSET T |-> h[R]], f, T)
  <2> DEFINE e == [R \in SUBSET T |-> h[R]]
  <2>1. e \in [SUBSET T -> Int]
    <3>1. h \in [SUBSET S -> Int]
      BY SumsUp DEF AddsUp
    <3> QED
      BY <1>1, <3>1
  <2>2. ASSUME NEW R \in SUBSET T, R # {}
        PROVE  e[R] = Adds(f, T)[<<AnyOf(T)[R], e[R \ {AnyOf(T)[R]}]>>]
    <3> DEFINE x == AnElement(R)
    <3>0. AnyOf(T)[R] = x
      BY DEF AnyOf
    <3>1. x \in R /\ h[R] = f[x] + h[R \ {x}]
      <4>1. R \in SUBSET S
        BY <1>1
      <4> QED
        BY <1>6, <2>2, <4>1
    <3> HIDE DEF x
    <3>2. e[R] = h[R] /\ e[R \ {x}] = h[R \ {x}] /\ e[R \ {x}] \in Int /\ x \in T
      BY <2>1, <3>1
    <3> HIDE DEF e
    <3>3. Adds(f, T)[<<x, e[R \ {x}]>>] = f[x] + e[R \ {x}]
      BY <3>2 DEF Adds
    <3> QED
      BY <3>0, <3>1, <3>2, <3>3
  <2>3. e[{}] = 0
    BY SumsUp DEF AddsUp
  <2> HIDE DEF e
  <2>4. SumsTo(e, f, T)
    BY <2>1, <2>2, <2>3 DEF SumsTo, FoldsTo
  <2> QED
    BY <2>4 DEF e
<1>3. SumsTo(g, f, T)
  BY <1>2
<1> HIDE DEF g
<1>7. \A R \in SUBSET T : R # {} => g[R] = f[AnElement(R)] + g[R \ {AnElement(R)}]
  <2>1. AddsUp(g, f, T)
    BY <1>3, SumsUp
  <2> QED
    BY <2>1 DEF AddsUp
<1>4. Inherits(G, T)
  <2>1. {} \in G
    <3>1. h[{}] = 0
      BY SumsUp DEF AddsUp
    <3>2. g[{}] = 0
      BY <1>3, SumsUp DEF AddsUp
    <3> QED
      BY <3>1, <3>2
  <2>2. ASSUME NEW R \in SUBSET T, R # {}
        PROVE  \E x \in R : R \ {x} \in G => R \in G
    <3> DEFINE x == AnElement(R)
    <3>0. R \in SUBSET S
      BY <1>1
    <3>1. x \in R /\ h[R] = f[x] + h[R \ {x}]
      BY <1>6, <2>2, <3>0
    <3>3. g[R] = f[x] + g[R \ {x}]
      BY <1>7, <2>2
    <3> HIDE DEF x
    <3>2. R \ {x} \in G => R \in G
      BY <3>1, <3>3
    <3> QED
      BY <3>1, <3>2
  <2> QED
    BY <2>1, <2>2 DEF Inherits
<1>5. T \in G
  <2> HIDE DEF G
  <2> QED
    BY <1>1, <1>4, FoldInduction
<1> QED
  BY <1>5 DEF Total, g

\* The sum over no element, and over a set of which an element is taken out.
LEMMA TotalSplit ==
  ASSUME NEW S, IsFiniteSet(S), NEW f, \A x \in S : f[x] \in Int
  PROVE  /\ Total(f, S) \in Int
         /\ Total(f, {}) = 0
         /\ \A x \in S : Total(f, S) = f[x] + Total(f, S \ {x})
<1>1. PICK h : SumsTo(h, f, S)
  BY SumExists
<1>0. \A T \in SUBSET S : T # {} =>
        AnElement(T) \in T /\ h[T] = f[AnElement(T)] + h[T \ {AnElement(T)}]
  <2>1. AddsUp(h, f, S)
    BY <1>1, SumsUp
  <2> QED
    BY <2>1 DEF AddsUp
<1> DEFINE c == Cardinality(S)
           Splits(T) == \A x \in T : h[T] = f[x] + h[T \ {x}]
           N == {n \in 0 .. c : \A T \in SUBSET S : Cardinality(T) = n => Splits(T)}
<1>2. c \in Nat /\ \A T \in SUBSET S : IsFiniteSet(T) /\ Cardinality(T) \in Nat /\ Cardinality(T) <= c
  BY FS_CardinalityType, FS_Subset
<1>3. h \in [SUBSET S -> Int]
  BY <1>1, SumsUp DEF AddsUp
<1>4. 0 \in N
  <2>1. \A T \in SUBSET S : Cardinality(T) = 0 => T = {}
    BY <1>2, FS_EmptySet
  <2>2. \A T \in SUBSET S : Cardinality(T) = 0 => Splits(T)
    BY <2>1
  <2> HIDE DEF Splits, c
  <2> QED
    BY <1>2, <2>2
<1>5. ASSUME NEW n \in 0 .. (c - 1), n \in N PROVE n + 1 \in N
  <2>1. ASSUME NEW T \in SUBSET S, Cardinality(T) = n + 1, NEW x \in T
        PROVE  h[T] = f[x] + h[T \ {x}]
    <3> DEFINE y == AnElement(T)
    <3>1. y \in T /\ h[T] = f[y] + h[T \ {y}]
      <4>1. T # {}
        BY <2>1
      <4> QED
        BY <1>0, <4>1
    <3> HIDE DEF y
    <3>2. CASE x = y
      BY <3>1, <3>2
    <3>3. CASE x # y
      <4>1. n \in Nat /\ Cardinality(T \ {x}) = n /\ Cardinality(T \ {y}) = n
        BY <1>2, <2>1, <3>1, FS_RemoveElement
      <4>2. Splits(T \ {x}) /\ Splits(T \ {y})
        BY <1>5, <4>1
      <4>3. h[T \ {x}] = f[y] + h[(T \ {x}) \ {y}]
        BY <3>1, <3>3, <4>2
      <4>4. h[T \ {y}] = f[x] + h[(T \ {y}) \ {x}]
        BY <2>1, <3>3, <4>2
      <4>5. (T \ {x}) \ {y} = (T \ {y}) \ {x}
        OBVIOUS
      <4>6. f[x] \in Int /\ f[y] \in Int /\ h[(T \ {y}) \ {x}] \in Int
        BY <1>3, <2>1, <3>1
      <4> HIDE DEF Splits
      <4>7. h[T] = f[y] + (f[x] + h[(T \ {y}) \ {x}])
        BY <3>1, <4>4
      <4>8. h[T \ {x}] = f[y] + h[(T \ {y}) \ {x}]
        BY <4>3, <4>5
      <4> QED
        BY <4>6, <4>7, <4>8
    <3> QED
      BY <3>2, <3>3
  <2>2. n + 1 \in 0 .. c
    BY <1>2
  <2> HIDE DEF c
  <2> QED
    BY <2>1, <2>2
<1>6. Splits(S)
  <2> HIDE DEF N, Splits
  <2>1. c \in N
    <3> HIDE DEF c
    <3> QED
      BY <1>2, <1>4, <1>5, UpTo
  <2> QED
    BY <2>1 DEF N
<1>7. \A T \in SUBSET S : Total(f, T) = h[T]
  BY <1>1, SumUnique
<1> HIDE DEF Splits
<1>8. \A x \in S : h[S] = f[x] + h[S \ {x}]
  BY <1>6 DEF Splits
<1>9. h[{}] = 0
  BY <1>1, SumsUp DEF AddsUp
<1> QED
  BY <1>3, <1>7, <1>8, <1>9

\* A property of the sums over subsets passes from a set without one of its
\* elements to the set.
LEMMA TotalInduction ==
  ASSUME NEW S, IsFiniteSet(S), NEW f, \A x \in S : f[x] \in Int,
         NEW T \in SUBSET S
  PROVE  /\ IsFiniteSet(T) /\ Total(f, T) \in Int
         /\ \A x \in T : /\ f[x] \in Int /\ Total(f, T \ {x}) \in Int
                        /\ Total(f, T) = f[x] + Total(f, T \ {x})
<1>1. IsFiniteSet(T) /\ \A x \in T : f[x] \in Int
  BY FS_Subset
<1>2. /\ Total(f, T) \in Int
      /\ \A x \in T : Total(f, T) = f[x] + Total(f, T \ {x})
  BY <1>1, TotalSplit
<1>3. ASSUME NEW x \in T PROVE Total(f, T \ {x}) \in Int
  <2>1. IsFiniteSet(T \ {x}) /\ \A y \in T \ {x} : f[y] \in Int
    BY <1>1, FS_Subset
  <2> HIDE DEF Total
  <2> DEFINE R == T \ {x}
  <2> HIDE DEF R
  <2>2. IsFiniteSet(R) /\ \A y \in R : f[y] \in Int
    BY <2>1 DEF R
  <2>3. Total(f, R) \in Int
    BY <2>2, TotalSplit
  <2> QED
    BY <2>3 DEF R
<1> QED
  BY <1>1, <1>2, <1>3

\* Sums of the same terms are the same, and sums are linear.
LEMMA TotalLinear ==
  ASSUME NEW S, IsFiniteSet(S), NEW c \in Int, NEW f, NEW g, NEW h,
         \A x \in S : f[x] \in Int /\ g[x] \in Int /\ h[x] = f[x] + c * g[x]
  PROVE  Total(h, S) = Total(f, S) + c * Total(g, S)
<1>0. \A x \in S : h[x] \in Int
  OBVIOUS
<1> DEFINE G == {T \in SUBSET S : Total(h, T) = Total(f, T) + c * Total(g, T)}
<1>1. Inherits(G, S)
  <2>1. {} \in G
    <3>1. Total(f, {}) = 0 /\ Total(g, {}) = 0 /\ Total(h, {}) = 0
      <4>1. (\A x \in S : f[x] \in Int) /\ (\A x \in S : g[x] \in Int)
        OBVIOUS
      <4>2. Total(f, {}) = 0
        BY <4>1, TotalSplit
      <4>3. Total(g, {}) = 0
        BY <4>1, TotalSplit
      <4>4. Total(h, {}) = 0
        BY <1>0, TotalSplit
      <4> QED
        BY <4>2, <4>3, <4>4
    <3> QED
      BY <3>1
  <2>2. ASSUME NEW T \in SUBSET S, T # {} PROVE \E x \in T : T \ {x} \in G => T \in G
    <3>1. PICK x \in T : TRUE
      BY <2>2
    <3>2. /\ f[x] \in Int /\ Total(f, T \ {x}) \in Int
          /\ Total(f, T) = f[x] + Total(f, T \ {x})
      BY TotalInduction
    <3>3. /\ g[x] \in Int /\ Total(g, T \ {x}) \in Int
          /\ Total(g, T) = g[x] + Total(g, T \ {x})
      BY TotalInduction
    <3>4. Total(h, T) = h[x] + Total(h, T \ {x})
      BY <1>0, TotalInduction
    <3>5. h[x] = f[x] + c * g[x]
      OBVIOUS
    <3>6. ASSUME T \ {x} \in G PROVE Total(h, T) = Total(f, T) + c * Total(g, T)
      <4> DEFINE a == Total(f, T \ {x})
                 b == Total(g, T \ {x})
                 u == f[x]
                 v == g[x]
      <4>1. a \in Int /\ b \in Int /\ u \in Int /\ v \in Int
        BY <3>2, <3>3
      <4>2. Total(h, T \ {x}) = a + c * b
        BY <3>6
      <4>3. Total(h, T) = (u + c * v) + (a + c * b) /\ Total(f, T) = u + a /\ Total(g, T) = v + b
        BY <3>2, <3>3, <3>4, <3>5, <4>2
      <4> HIDE DEF a, b, u, v, G
      <4>4. (u + c * v) + (a + c * b) = (u + a) + c * (v + b)
        BY <4>1
      <4> QED
        BY <4>3, <4>4
    <3> QED
      BY <3>6
  <2> QED
    BY <2>1, <2>2 DEF Inherits
<1>2. S \in G
  <2> HIDE DEF G
  <2>1. S \in SUBSET S
    OBVIOUS
  <2> QED
    BY <1>1, <2>1, FoldInduction
<1> QED
  BY <1>2

\* Sums of the same terms are the same.
LEMMA TotalSame ==
  ASSUME NEW S, IsFiniteSet(S), NEW f, NEW h, \A x \in S : f[x] \in Int /\ h[x] = f[x]
  PROVE  Total(h, S) = Total(f, S)
<1>1. \A x \in S : f[x] \in Int /\ f[x] \in Int /\ h[x] = f[x] + 0 * f[x]
  OBVIOUS
<1>2. Total(h, S) = Total(f, S) + 0 * Total(f, S)
  BY <1>1, TotalLinear
<1>3. Total(f, S) \in Int
  BY TotalSplit
<1> QED
  BY <1>2, <1>3

\* Terms that are zero add nothing.
LEMMA TotalMore ==
  ASSUME NEW S, IsFiniteSet(S), NEW f, \A x \in S : f[x] \in Int,
         NEW R \in SUBSET S, \A x \in S \ R : f[x] = 0
  PROVE  Total(f, S) = Total(f, R)
<1> DEFINE G == {T \in SUBSET S : Total(f, T) = Total(f, T \cap R)}
<1>1. Inherits(G, S)
  <2>1. {} \in G
    OBVIOUS
  <2>2. ASSUME NEW T \in SUBSET S, T # {} PROVE \E x \in T : T \ {x} \in G => T \in G
    <3>1. PICK x \in T : TRUE
      BY <2>2
    <3>2. /\ f[x] \in Int /\ Total(f, T \ {x}) \in Int
          /\ Total(f, T) = f[x] + Total(f, T \ {x})
      BY TotalInduction
    <3>3. ASSUME T \ {x} \in G PROVE Total(f, T) = Total(f, T \cap R)
      <4>1. Total(f, T) = f[x] + Total(f, (T \ {x}) \cap R)
        BY <3>2, <3>3
      <4>2. CASE x \in R
        <5>1. (T \ {x}) \cap R = (T \cap R) \ {x} /\ T \cap R \in SUBSET S /\ x \in T \cap R
          BY <4>2
        <5> DEFINE I == T \cap R
        <5>3. I \in SUBSET S /\ x \in I
          BY <5>1
        <5> HIDE DEF I
        <5>4. Total(f, I) = f[x] + Total(f, I \ {x})
          BY <5>3, TotalInduction
        <5>2. Total(f, T \cap R) = f[x] + Total(f, (T \cap R) \ {x})
          BY <5>4 DEF I
        <5>5. Total(f, (T \ {x}) \cap R) = Total(f, (T \cap R) \ {x})
          BY <5>1
        <5> HIDE DEF G
        <5> QED
          BY <4>1, <5>2, <5>5
      <4>3. CASE x \notin R
        <5>1. (T \ {x}) \cap R = T \cap R /\ f[x] = 0
          BY <4>3
        <5>2. Total(f, T \ {x}) = Total(f, (T \ {x}) \cap R)
          BY <3>3
        <5>3. Total(f, (T \ {x}) \cap R) = Total(f, T \cap R)
          BY <5>1
        <5> DEFINE a == Total(f, T)
                   b == Total(f, T \ {x})
        <5>4. a = f[x] + b /\ b \in Int /\ b = Total(f, T \cap R) /\ f[x] = 0
          BY <3>2, <5>1, <5>2, <5>3
        <5> HIDE DEF a, b, G
        <5>5. a = Total(f, T \cap R)
          BY <5>4
        <5> QED
          BY <5>5 DEF a
      <4> QED
        BY <4>2, <4>3
    <3> QED
      BY <3>3
  <2> QED
    BY <2>1, <2>2 DEF Inherits
<1>2. S \in G
  <2> HIDE DEF G
  <2>1. S \in SUBSET S
    OBVIOUS
  <2> QED
    BY <1>1, <2>1, FoldInduction
<1>3. S \cap R = R
  OBVIOUS
<1> QED
  BY <1>2, <1>3

\* A fold that takes the last element first is a recurrence.
LEMMA LeftFold ==
  ASSUME NEW n \in Nat, NEW V, NEW base, NEW F, NEW h, NEW pick,
         FoldsTo(h, 1 .. n, V, base, F, pick), \A k \in 1 .. n : pick[1 .. k] = k
  PROVE  Recurs([k \in 0 .. n |-> h[1 .. k]], n, V, base, F)
<1> DEFINE f == [k \in 0 .. n |-> h[1 .. k]]
<1>1. \A k \in 0 .. n : 1 .. k \in SUBSET (1 .. n)
  OBVIOUS
<1>2. f \in [0 .. n -> V]
  BY <1>1 DEF FoldsTo
<1>3. f[0] = base
  <2>1. 1 .. 0 = {}
    OBVIOUS
  <2>2. h[{}] = base
    BY DEF FoldsTo
  <2> QED
    BY <2>1, <2>2
<1>4. ASSUME NEW k \in 1 .. n PROVE f[k] = F[<<k, f[k - 1]>>]
  <2>1. 1 .. k # {} /\ (1 .. k) \ {k} = 1 .. (k - 1) /\ k \in 0 .. n /\ k - 1 \in 0 .. n
    <3>1. k \in 1 .. k /\ k \in 0 .. n /\ k - 1 \in 0 .. n
      OBVIOUS
    <3>2. \A x : x \in (1 .. k) \ {k} <=> x \in 1 .. (k - 1)
      OBVIOUS
    <3> QED
      BY <3>1, <3>2
  <2>2. 1 .. k \in SUBSET (1 .. n)
    BY <1>1, <2>1
  <2> DEFINE T == 1 .. k
  <2>3. h[T] = F[<<pick[T], h[T \ {pick[T]}]>>]
    <3>1. T # {} /\ T \in SUBSET (1 .. n)
      BY <2>1, <2>2
    <3> HIDE DEF T
    <3> QED
      BY <3>1 DEF FoldsTo
  <2>4. pick[T] = k
    OBVIOUS
  <2>5. h[T] = F[<<k, h[T \ {k}]>>]
    BY <2>3, <2>4
  <2>6. f[k] = h[T] /\ f[k - 1] = h[1 .. (k - 1)]
    BY <2>1
  <2> HIDE DEF f, T
  <2>7. T \ {k} = 1 .. (k - 1)
    BY <2>1 DEF T
  <2> QED
    BY <2>5, <2>6, <2>7
<1> HIDE DEF f
<1>5. Recurs(f, n, V, base, F)
  BY <1>2, <1>3, <1>4 DEF Recurs
<1> QED
  BY <1>5 DEF f

-----------------------------------------------------------------------------
(* Quotients *)

\* Quotient and remainder.
LEMMA Division ==
  ASSUME NEW k \in Nat, NEW a \in Nat \ {0}
  PROVE  /\ k \div a \in Nat /\ k % a \in 0 .. (a - 1)
         /\ k = a * (k \div a) + (k % a)
  BY SMT

\* A number is below a multiple of a exactly if its quotient is below the factor.
LEMMA DivisionBound ==
  ASSUME NEW k \in Nat, NEW a \in Nat \ {0}, NEW n \in Nat
  PROVE  k < a * n <=> k \div a < n
<1> DEFINE d == k \div a
           r == k % a
<1>1. d \in Nat /\ r \in 0 .. (a - 1) /\ k = a * d + r
  BY Division
<1> HIDE DEF d, r
<1>2. CASE d < n
  <2>1. PICK m \in Nat : n = d + 1 + m
    <3>1. n - d - 1 \in Nat
      BY <1>1, <1>2
    <3> QED BY <1>1, <3>1
  <2>2. a * n = a * d + a + a * m
    BY <1>1, <2>1
  <2>3. a * m \in Nat /\ a * d \in Nat
    BY <1>1, <2>1
  <2> QED BY <1>1, <1>2, <2>2, <2>3 DEF d
<1>3. CASE ~(d < n)
  <2>1. PICK m \in Nat : d = n + m
    <3>1. d - n \in Nat
      BY <1>1, <1>3
    <3> QED BY <1>1, <3>1
  <2>2. a * d = a * n + a * m
    BY <1>1, <2>1
  <2>3. a * m \in Nat /\ a * n \in Nat
    BY <2>1
  <2> QED BY <1>1, <1>3, <2>2, <2>3 DEF d
<1> QED BY <1>2, <1>3

\* The towers 0 to l - 1 are l.
LEMMA SizeOfInterval == ASSUME NEW l \in Nat PROVE Cardinality(0 .. (l - 1)) = l
<1>1. Cardinality(0 .. (l - 1)) = (IF 0 > l - 1 THEN 0 ELSE (l - 1) - 0 + 1)
  BY FS_Interval
<1> QED BY <1>1

-----------------------------------------------------------------------------
(* Residues *)

\* Two integers have the same residue.
Same(x, y, m) == x \in Int /\ y \in Int /\ \E k \in Int : x = y + m * k

\* Residues of sums and products are those of the operands.
LEMMA SameArith ==
  ASSUME NEW m \in Nat, m > 0, NEW x, NEW y, NEW u, NEW v, Same(x, u, m), Same(y, v, m)
  PROVE  Same(x + y, u + v, m) /\ Same(x * y, u * v, m)
<1>1. x \in Int /\ y \in Int /\ u \in Int /\ v \in Int
  BY DEF Same
<1>2. PICK k \in Int : x = u + m * k
  BY DEF Same
<1>3. PICK l \in Int : y = v + m * l
  BY DEF Same
<1>4. x + y = (u + v) + m * (k + l)
  BY <1>1, <1>2, <1>3
<1>5. x * y = u * v + m * (k * v + u * l + m * k * l)
  <2>1. x * y = (u + m * k) * (v + m * l)
    BY <1>2, <1>3
  <2>2. (u + m * k) * (v + m * l) = u * v + m * (k * v + u * l + m * k * l)
    BY <1>1
  <2> QED
    BY <2>1, <2>2
<1>6. k + l \in Int /\ k * v + u * l + m * k * l \in Int /\ x + y \in Int /\ u + v \in Int
      /\ x * y \in Int /\ u * v \in Int
  BY <1>1
<1> HIDE DEF Same
<1>7. Same(x + y, u + v, m)
  BY <1>4, <1>6 DEF Same
<1>8. Same(x * y, u * v, m)
  BY <1>5, <1>6 DEF Same
<1> QED
  BY <1>7, <1>8

\* An integer, its remainder and what has the same residue have one remainder.
LEMMA SameRemainder ==
  ASSUME NEW m \in Nat, m > 0, NEW x, NEW y, Same(x, y, m)
  PROVE  x % m = y % m /\ Same(x % m, y, m) /\ Same(y, x, m) /\ x \in Int /\ y \in Int
<1>1. x \in Int /\ y \in Int
  BY DEF Same
<1>2. PICK k \in Int : x = y + m * k
  BY DEF Same
<1>3. x % m = y % m
  BY <1>1, <1>2, ModShift
<1>4. y = (y % m) + m * (y \div m) /\ y \div m \in Int /\ y % m \in Int
  BY <1>1, DivMod
<1> DEFINE l == -(y \div m)
<1>5. l \in Int /\ y % m = y + m * l
  <2> DEFINE d == y \div m
             r == y % m
  <2>1. m * (-d) = -(m * d)
    BY <1>4
  <2>2. m * d \in Int /\ r \in Int
    BY <1>4
  <2> HIDE DEF d, r
  <2>3. y = r + m * d
    BY <1>4 DEF d, r
  <2>4. r = y + m * (-d)
    BY <1>1, <2>1, <2>2, <2>3
  <2> QED
    BY <1>4, <2>4 DEF d, r
<1>6. Same(x % m, y, m)
  BY <1>1, <1>3, <1>4, <1>5 DEF Same
<1>7. -k \in Int /\ y = x + m * (-k)
  <2>1. m * (-k) = -(m * k) /\ m * k \in Int
    OBVIOUS
  <2> QED
    BY <1>1, <1>2, <2>1
<1> QED
  BY <1>1, <1>3, <1>6, <1>7 DEF Same

\* An integer has its own residue.
LEMMA SameSelf ==
  ASSUME NEW m \in Nat, m > 0, NEW x \in Int
  PROVE  Same(x, x, m) /\ Same(x % m, x, m)
<1>1. x = x + m * 0
  OBVIOUS
<1>2. Same(x, x, m)
  BY <1>1 DEF Same
<1> QED
  BY <1>2, SameRemainder

\* Two representatives of one residue differ by a multiple of the modulus.
LEMMA SameOther ==
  ASSUME NEW m \in Nat, m > 0, NEW x, NEW y, NEW z, Same(x, y, m), Same(x, z, m)
  PROVE  Same(y, z, m)
<1>1. x \in Int /\ y \in Int /\ z \in Int
  BY DEF Same
<1>2. PICK k \in Int : x = y + m * k
  BY DEF Same
<1>3. PICK l \in Int : x = z + m * l
  BY DEF Same
<1>4. y = z + m * (l - k) /\ l - k \in Int
  <2>1. m * (l - k) = m * l - m * k /\ m * l \in Int /\ m * k \in Int
    OBVIOUS
  <2> QED
    BY <1>1, <1>2, <1>3, <2>1
<1> QED
  BY <1>1, <1>4 DEF Same

\* Same is transitive.
LEMMA SameTrans ==
  ASSUME NEW m \in Nat, m > 0, NEW x, NEW y, NEW z, Same(x, y, m), Same(y, z, m)
  PROVE  Same(x, z, m)
<1>1. Same(y, x, m)
  BY SameRemainder
<1> QED
  BY <1>1, SameOther

\* A number has an inverse modulo another.
Unit(a, m) == a \in Int /\ \E y \in Int : Same(a * y, 1, m)

\* Products of numbers that have inverses have one, and what is the same as a
\* number that has one.
LEMMA ProductIsUnit ==
  ASSUME NEW m \in Nat, m > 0, NEW a, Unit(a, m)
  PROVE  /\ \A b : Unit(b, m) => Unit(a * b, m)
         /\ \A b : Same(a, b, m) => Unit(b, m)
<1>1. PICK y \in Int : a \in Int /\ Same(a * y, 1, m)
  BY DEF Unit
<1>2. ASSUME NEW b, Unit(b, m) PROVE Unit(a * b, m)
  <2>1. PICK z \in Int : b \in Int /\ Same(b * z, 1, m)
    BY <1>2 DEF Unit
  <2>2. Same((a * y) * (b * z), 1 * 1, m)
    BY <1>1, <2>1, SameArith
  <2>3. (a * y) * (b * z) = (a * b) * (y * z)
    BY <1>1, <2>1
  <2>4. a * b \in Int /\ y * z \in Int /\ 1 * 1 = 1
    BY <1>1, <2>1
  <2>5. Same((a * b) * (y * z), 1, m)
    BY <2>2, <2>3, <2>4
  <2> QED
    BY <2>4, <2>5 DEF Unit
<1>3. ASSUME NEW b, Same(a, b, m) PROVE Unit(b, m)
  <2>1. b \in Int /\ Same(y, y, m)
    BY <1>3, SameSelf DEF Same
  <2>2. Same(a * y, b * y, m)
    BY <1>3, <2>1, SameArith
  <2>3. Same(b * y, 1, m)
    BY <1>1, <2>2, SameOther
  <2> QED
    BY <2>1, <2>3 DEF Unit
<1> QED
  BY <1>2, <1>3

\* The remainder of a number with an inverse is not zero, and has one.
LEMMA UnitRemainder ==
  ASSUME NEW m \in Nat, m > 1, NEW a, Unit(a, m)
  PROVE  a % m \in 1 .. (m - 1) /\ Unit(a % m, m) /\ Same(a % m, a, m)
<1> DEFINE r == a % m
<1>1. a \in Int /\ m > 0
  BY DEF Unit
<1>2. r \in 0 .. (m - 1) /\ Same(r, a, m)
  BY <1>1, ModRange, SameSelf
<1> HIDE DEF r
<1>3. Same(a, r, m)
  BY <1>1, <1>2, SameRemainder
<1>4. Unit(r, m)
  BY <1>1, <1>3, ProductIsUnit
<1>5. ASSUME r = 0 PROVE FALSE
  <2>1. PICK y \in Int : Same(r * y, 1, m)
    BY <1>4 DEF Unit
  <2>2. Same(0, 1, m)
    BY <1>5, <2>1
  <2>3. 0 % m = 1 % m
    BY <1>1, <2>2, SameRemainder
  <2>4. 0 % m = 0 /\ 1 % m = 1
    BY <1>1, ModSmall
  <2> QED
    BY <2>3, <2>4
<1> QED
  BY <1>2, <1>4, <1>5 DEF r

\* What has an inverse may be cancelled.
LEMMA UnitCancels ==
  ASSUME NEW m \in Nat, m > 0, NEW a, Unit(a, m), NEW x \in Int, NEW y \in Int,
         Same(a * x, a * y, m)
  PROVE  Same(x, y, m)
<1>1. PICK z \in Int : a \in Int /\ Same(a * z, 1, m)
  BY DEF Unit
<1>2. ASSUME NEW v \in Int PROVE Same(z * (a * v), v, m)
  <2>1. Same((a * z) * v, 1 * v, m)
    BY <1>1, SameSelf, SameArith
  <2>2. (a * z) * v = z * (a * v) /\ 1 * v = v
    BY <1>1
  <2> QED
    BY <2>1, <2>2
<1>3. Same(z * (a * x), z * (a * y), m)
  BY SameSelf, SameArith
<1>4. Same(z * (a * x), x, m) /\ Same(z * (a * y), y, m)
  BY <1>2
<1>5. Same(x, z * (a * y), m)
  BY <1>3, <1>4, SameOther
<1> QED
  BY <1>4, <1>5, SameTrans

-----------------------------------------------------------------------------
(* Sums of residues and multiples *)

\* Sums of terms with the same remainders have the same remainder.
LEMMA TotalCongruent ==
  ASSUME NEW D, IsFiniteSet(D), NEW m \in Nat, m > 0, NEW f, NEW g, \A x \in D : Same(f[x], g[x], m)
  PROVE  Same(Total(f, D), Total(g, D), m)
<1>1. (\A x \in D : f[x] \in Int) /\ (\A x \in D : g[x] \in Int)
  BY DEF Same
<1> DEFINE G == {s \in SUBSET D : Same(Total(f, s), Total(g, s), m)}
<1>2. Inherits(G, D)
  <2>1. {} \in G
    <3>1. Total(f, {}) = 0 /\ Total(g, {}) = 0
      BY <1>1, TotalSplit
    <3>2. Same(0, 0, m)
      BY SameSelf
    <3> QED
      BY <3>1, <3>2
  <2>2. ASSUME NEW s \in SUBSET D, s # {} PROVE \E x \in s : s \ {x} \in G => s \in G
    <3>1. PICK x \in s : TRUE
      BY <2>2
    <3>2. Total(f, s) = f[x] + Total(f, s \ {x})
      BY <1>1, TotalInduction
    <3>3. Total(g, s) = g[x] + Total(g, s \ {x})
      BY <1>1, TotalInduction
    <3>4. Same(f[x], g[x], m)
      OBVIOUS
    <3>5. ASSUME s \ {x} \in G PROVE s \in G
      <4>1. Same(Total(f, s \ {x}), Total(g, s \ {x}), m)
        BY <3>5
      <4>2. Same(f[x] + Total(f, s \ {x}), g[x] + Total(g, s \ {x}), m)
        BY <3>4, <4>1, SameArith
      <4> QED
        BY <3>2, <3>3, <4>2
    <3> QED
      BY <3>5
  <2> QED
    BY <2>1, <2>2 DEF Inherits
<1>3. D \in G
  <2> HIDE DEF G
  <2>1. D \in SUBSET D
    OBVIOUS
  <2> QED
    BY <1>2, <2>1, FoldInduction
<1> QED
  BY <1>3

\* A factor of all terms is one of their sum.
LEMMA TotalScaled ==
  ASSUME NEW D, IsFiniteSet(D), NEW c \in Int, NEW f, NEW h,
         \A x \in D : f[x] \in Int /\ h[x] = c * f[x]
  PROVE  Total(h, D) = c * Total(f, D) /\ Total(f, D) \in Int /\ Total(h, D) \in Int
<1> DEFINE z == [x \in D |-> 0]
<1>1. \A x \in D : z[x] \in Int /\ f[x] \in Int /\ h[x] = z[x] + c * f[x]
  <2>1. \A x \in D : z[x] = 0
    OBVIOUS
  <2>2. \A x \in D : c * f[x] \in Int /\ c * f[x] = 0 + c * f[x]
    OBVIOUS
  <2> HIDE DEF z
  <2> QED
    BY <2>1, <2>2
<1>2. Total(z, D) = 0
  <2>1. /\ \A x \in D : z[x] \in Int
        /\ {} \in SUBSET D /\ \A x \in D \ {} : z[x] = 0
    OBVIOUS
  <2> HIDE DEF z
  <2>2. Total(z, D) = Total(z, {})
    BY <2>1, TotalMore
  <2>3. Total(z, {}) = 0
    BY <2>1, TotalSplit
  <2> QED
    BY <2>2, <2>3
<1> HIDE DEF z
<1>3. Total(h, D) = Total(z, D) + c * Total(f, D)
  BY <1>1, TotalLinear
<1>4. Total(f, D) \in Int
  BY TotalSplit
<1> QED
  BY <1>2, <1>3, <1>4

\* If one term may be other than zero it is the sum.
LEMMA TotalOne ==
  ASSUME NEW D, IsFiniteSet(D), NEW f, \A x \in D : f[x] \in Int,
         NEW r \in D, \A x \in D : x # r => f[x] = 0
  PROVE  Total(f, D) = f[r]
<1>1. {r} \in SUBSET D /\ \A x \in D \ {r} : f[x] = 0
  OBVIOUS
<1>2. Total(f, D) = Total(f, {r})
  BY <1>1, TotalMore
<1>3. IsFiniteSet({r}) /\ \A x \in {r} : f[x] \in Int
  BY FS_Singleton
<1>4. Total(f, {r}) = f[r] + Total(f, {r} \ {r}) /\ Total(f, {}) = 0
  BY <1>3, TotalSplit
<1>5. {r} \ {r} = {} /\ f[r] \in Int
  OBVIOUS
<1> QED
  BY <1>2, <1>4, <1>5

\* Term by term, one function is another and a multiple of a third.
LinearTerms(D, c, f, g, h) == \A n \in D : f[n] \in Int /\ g[n] \in Int /\ h[n] = f[n] + c * g[n]

\* So are their sums.
LEMMA LinearTotal ==
  ASSUME NEW D, IsFiniteSet(D), NEW c \in Int, NEW f, NEW g, NEW h, LinearTerms(D, c, f, g, h)
  PROVE  Total(h, D) = Total(f, D) + c * Total(g, D)
<1>1. \A n \in D : f[n] \in Int /\ g[n] \in Int /\ h[n] = f[n] + c * g[n]
  BY DEF LinearTerms
<1> QED
  BY <1>1, TotalLinear

\* The digits multiplied with the elements of the keys, which stand for a
\* multiple of a secret and some noise.
Summands(D, m, y, x, t, d, u, v, f, w, e) ==
  \A n \in D :
    /\ d[n] \in Int /\ u[n] \in Int /\ v[n] \in Int /\ f[n] \in Int /\ w[n] \in Int /\ e[n] \in Int
    /\ Same(d[n], f[n], m) /\ Same(v[n] + u[n] * y, w[n] * x + t * e[n], m)

\* Their products.
Multiplied(D, d, u, v, f, w, e, dv, du, fw, fe) ==
  \A n \in D : /\ dv[n] = d[n] * v[n] /\ du[n] = d[n] * u[n]
               /\ fw[n] = f[n] * w[n] /\ fe[n] = f[n] * e[n]

\* The sum of the products is that multiple of the secret and noise of the
\* integers the digits stand for.
LEMMA InnerSum ==
  ASSUME NEW D, IsFiniteSet(D), NEW m \in Nat, m > 0, NEW y \in Int, NEW x \in Int, NEW t \in Int,
         NEW d, NEW u, NEW v, NEW f, NEW w, NEW e, Summands(D, m, y, x, t, d, u, v, f, w, e),
         NEW dv, NEW du, NEW fw, NEW fe, Multiplied(D, d, u, v, f, w, e, dv, du, fw, fe)
  PROVE  /\ Total(dv, D) \in Int /\ Total(du, D) \in Int /\ Total(fw, D) \in Int /\ Total(fe, D) \in Int
         /\ Same(Total(dv, D) + Total(du, D) * y, Total(fw, D) * x + t * Total(fe, D), m)
<1> DEFINE g == [n \in D |-> dv[n] + y * du[n]]
           k == [n \in D |-> x * fw[n]]
           h == [n \in D |-> k[n] + t * fe[n]]
<1>1. \A n \in D : /\ d[n] \in Int /\ u[n] \in Int /\ v[n] \in Int
                   /\ f[n] \in Int /\ w[n] \in Int /\ e[n] \in Int
                   /\ Same(d[n], f[n], m) /\ Same(v[n] + u[n] * y, w[n] * x + t * e[n], m)
  BY DEF Summands
<1>a. \A n \in D : /\ dv[n] = d[n] * v[n] /\ du[n] = d[n] * u[n]
                   /\ fw[n] = f[n] * w[n] /\ fe[n] = f[n] * e[n]
  BY DEF Multiplied
<1>2. \A n \in D : dv[n] \in Int /\ du[n] \in Int /\ fw[n] \in Int /\ fe[n] \in Int /\ k[n] \in Int
  <2> TAKE n \in D
  <2>1. d[n] * v[n] \in Int /\ d[n] * u[n] \in Int /\ f[n] * w[n] \in Int /\ f[n] * e[n] \in Int
    BY <1>1
  <2>2. fw[n] \in Int
    BY <1>a, <2>1
  <2>3. x * fw[n] \in Int
    BY <2>2
  <2> QED
    BY <1>a, <2>1, <2>3
<1>3. /\ Total(dv, D) \in Int /\ Total(du, D) \in Int /\ Total(fw, D) \in Int /\ Total(fe, D) \in Int
  <2>1. Total(dv, D) \in Int
    BY <1>2, TotalSplit
  <2>2. Total(du, D) \in Int
    BY <1>2, TotalSplit
  <2>3. Total(fw, D) \in Int
    BY <1>2, TotalSplit
  <2>4. Total(fe, D) \in Int
    BY <1>2, TotalSplit
  <2> QED
    BY <2>1, <2>2, <2>3, <2>4
<1>4. Total(g, D) = Total(dv, D) + y * Total(du, D)
  <2>1. LinearTerms(D, y, dv, du, g)
    BY <1>2 DEF LinearTerms
  <2> HIDE DEF g
  <2> QED
    BY <2>1, LinearTotal
<1>5. Total(k, D) = x * Total(fw, D) /\ Total(k, D) \in Int
  <2>1. \A n \in D : fw[n] \in Int /\ k[n] = x * fw[n]
    BY <1>2
  <2> HIDE DEF k
  <2> QED
    BY <2>1, TotalScaled
<1>6. Total(h, D) = Total(k, D) + t * Total(fe, D)
  <2>1. LinearTerms(D, t, k, fe, h)
    BY <1>2 DEF LinearTerms
  <2> HIDE DEF k, h
  <2> QED
    BY <2>1, LinearTotal
<1>7. \A n \in D : Same(g[n], h[n], m)
  <2> TAKE n \in D
  <2> DEFINE p == v[n] + u[n] * y
             r == w[n] * x + t * e[n]
  <2>1. p \in Int /\ r \in Int /\ Same(p, r, m) /\ Same(d[n], f[n], m)
    BY <1>1 DEF Same
  <2>2. g[n] = d[n] * p
    <3>1. g[n] = d[n] * v[n] + y * (d[n] * u[n])
      BY <1>a
    <3>2. d[n] * v[n] + y * (d[n] * u[n]) = d[n] * (v[n] + u[n] * y)
      BY <1>1
    <3> QED
      BY <3>1, <3>2
  <2>3. h[n] = f[n] * r
    <3>1. h[n] = x * (f[n] * w[n]) + t * (f[n] * e[n])
      BY <1>a
    <3>2. x * (f[n] * w[n]) + t * (f[n] * e[n]) = f[n] * (w[n] * x + t * e[n])
      BY <1>1
    <3> QED
      BY <3>1, <3>2
  <2> HIDE DEF p, r, g, h
  <2>4. Same(d[n] * p, f[n] * r, m)
    BY <2>1, SameArith
  <2> QED
    BY <2>2, <2>3, <2>4
<1>8. Same(Total(g, D), Total(h, D), m)
  <2> HIDE DEF g, h
  <2> QED
    BY <1>7, TotalCongruent
<1>9. Total(g, D) = Total(dv, D) + Total(du, D) * y
  <2> DEFINE a == Total(du, D)
  <2>1. a \in Int /\ Total(g, D) = Total(dv, D) + y * a
    BY <1>3, <1>4
  <2> HIDE DEF a, g
  <2>2. y * a = a * y
    BY <2>1
  <2> QED
    BY <2>1, <2>2 DEF a
<1>10. Total(h, D) = Total(fw, D) * x + t * Total(fe, D)
  <2> DEFINE a == Total(fw, D)
  <2>1. a \in Int /\ Total(h, D) = x * a + t * Total(fe, D)
    BY <1>3, <1>5, <1>6
  <2> HIDE DEF a, h
  <2>2. x * a = a * x
    BY <2>1
  <2> QED
    BY <2>1, <2>2 DEF a
<1> HIDE DEF g, h
<1> QED
  BY <1>3, <1>8, <1>9, <1>10

\* Sums with the powers of a secret of numbers that are the same are the same.
LEMMA SamePowers ==
  ASSUME NEW m \in Nat, m > 0, NEW s \in Int,
         NEW u1, NEW u2, NEW u3, NEW v1, NEW v2, NEW v3,
         Same(u1, v1, m), Same(u2, v2, m), Same(u3, v3, m)
  PROVE  Same(u1 + u2 * s + u3 * (s * s), v1 + v2 * s + v3 * (s * s), m)
<1> DEFINE r == s * s
<1>1. r \in Int
  OBVIOUS
<1> HIDE DEF r
<1>2. Same(s, s, m) /\ Same(r, r, m)
  BY <1>1, SameSelf
<1>3. Same(u2 * s, v2 * s, m) /\ Same(u3 * r, v3 * r, m)
  BY <1>2, SameArith
<1>4. Same(u1 + u2 * s, v1 + v2 * s, m)
  BY <1>3, SameArith
<1>5. Same(u1 + u2 * s + u3 * r, v1 + v2 * s + v3 * r, m)
  BY <1>3, <1>4, SameArith
<1> QED
  BY <1>5 DEF r

\* What is added to each element, and to what they carry.
LEMMA SpreadPowers ==
  ASSUME NEW a1 \in Int, NEW a2 \in Int, NEW a3 \in Int, NEW d1 \in Int, NEW d2 \in Int, NEW d3 \in Int,
         NEW s \in Int, NEW r \in Int, NEW t \in Int
  PROVE  /\ (a1 + t * d1) + (a2 + t * d2) * s + (a3 + t * d3) * r
              = (a1 + a2 * s + a3 * r) + t * (d1 + d2 * s + d3 * r)
         /\ (a1 * t) + (a2 * t) * s + (a3 * t) * r = (a1 + a2 * s + a3 * r) * t
<1>1. (a2 + t * d2) * s = a2 * s + t * (d2 * s) /\ (a3 + t * d3) * r = a3 * r + t * (d3 * r)
  OBVIOUS
<1>2. t * (d1 + d2 * s + d3 * r) = t * d1 + t * (d2 * s) + t * (d3 * r)
  OBVIOUS
<1>3. (a2 * t) * s = (a2 * s) * t /\ (a3 * t) * r = (a3 * r) * t
  OBVIOUS
<1>4. (a1 + a2 * s + a3 * r) * t = a1 * t + (a2 * s) * t + (a3 * r) * t
  OBVIOUS
<1> QED
  BY <1>1, <1>2, <1>3, <1>4

-----------------------------------------------------------------------------
(* Rounded divisions and windows of numbers *)

\* A division by a modulus, rounded, brings a bound of the size of the moduli
\* down with it.
LEMMA BoundReduced ==
  ASSUME NEW q \in Nat, q > 1, NEW t \in Nat, NEW g \in Nat,
         NEW a \in Nat, NEW b \in Nat, NEW h \in Nat,
         2 * h <= q, 2 * b <= q * g + 2 * t, q * a <= b + t * h
  PROVE  2 * a <= g + 2 * t
<1>1. t * (2 * h) <= t * q /\ t * 2 <= t * q /\ t * q \in Nat
  BY ProductMonotone
<1>2. t * (2 * h) = 2 * (t * h) /\ t * h \in Nat /\ q * g \in Nat /\ q * a \in Nat
  OBVIOUS
<1>3. SUFFICES ASSUME 2 * a >= g + 2 * t + 1 PROVE FALSE
  OBVIOUS
<1>4. q * (g + 2 * t + 1) <= q * (2 * a)
  BY <1>3, ProductMonotone
<1>5. q * (g + 2 * t + 1) = q * g + 2 * (t * q) + q /\ q * (2 * a) = 2 * (q * a)
  OBVIOUS
<1> DEFINE th == t * h
           tq == t * q
           qg == q * g
           qa == q * a
<1>6. /\ 2 * th <= tq /\ t * 2 <= tq /\ tq \in Nat /\ th \in Nat /\ qg \in Nat /\ qa \in Nat
      /\ qg + 2 * tq + q <= 2 * qa /\ 2 * b <= qg + 2 * t /\ qa <= b + th
  BY <1>1, <1>2, <1>4, <1>5
<1> HIDE DEF th, tq, qg, qa
<1> QED
  BY <1>6

\* One window of a number after the other.
CutsAt(v, p, b) ==
  /\ v \div p \in Nat /\ v \div (p * b) \in Nat /\ (v \div p) % b \in Nat
  /\ p * (v \div p) = ((v \div p) % b) * p + (p * b) * (v \div (p * b))

\* What is above a window is the window after it and what is above that.
LEMMA NextWindow ==
  ASSUME NEW v \in Nat, NEW p \in Nat, p > 0, NEW b \in Nat, b > 0
  PROVE  CutsAt(v, p, b)
<1> DEFINE w == v \div p
           r == v % p
           k == w \div b
           s == w % b
           m == p * b
           y == p * s + r
<1>1. w \in Nat /\ r \in 0 .. (p - 1) /\ v = p * w + r
  <2>1. p \in Nat \ {0}
    OBVIOUS
  <2> QED
    BY <2>1, Division
<1>2. k \in Nat /\ s \in 0 .. (b - 1) /\ w = b * k + s
  <2>1. b \in Nat \ {0}
    OBVIOUS
  <2> HIDE DEF w
  <2> QED
    BY <1>1, <2>1, Division
<1> HIDE DEF w, r, k, s
<1>3. p * w = p * (b * k) + p * s /\ p * (b * k) = m * k /\ p * s \in Nat /\ m * k \in Nat
  BY <1>1, <1>2
<1>4. m \in Nat /\ m > 0 /\ p * (s + 1) <= m
  <2>1. p * (s + 1) <= p * b
    BY <1>2, ProductMonotone
  <2>2. p * 1 <= p * b /\ p * b \in Nat
    BY ProductMonotone
  <2> QED
    BY <2>1, <2>2
<1>5. y \in 0 .. (m - 1)
  <2>1. p * (s + 1) = p * s + p
    BY <1>2
  <2> HIDE DEF m
  <2> QED
    BY <1>1, <1>3, <1>4, <2>1
<1>6. v = m * k + y
  <2> DEFINE mk == m * k
             ps == p * s
             pw == p * w
  <2>1. v = pw + r /\ pw = mk + ps /\ mk \in Nat /\ ps \in Nat /\ pw \in Int /\ r \in Nat
    BY <1>1, <1>3
  <2> HIDE DEF mk, ps, pw
  <2>2. v = mk + (ps + r)
    BY <2>1
  <2> QED
    BY <2>2 DEF mk, ps
<1>7. v \div m = k
  <2> DEFINE j == v \div m
             z == v % m
  <2> HIDE DEF m, y
  <2>1. m \in Nat \ {0}
    BY <1>4
  <2>2. j \in Nat /\ z \in 0 .. (m - 1) /\ v = m * j + z
    BY <2>1, Division
  <2> HIDE DEF j, z
  <2>3. z = v % m
    BY DEF z
  <2>4. v % m = y
    BY <1>2, <1>4, <1>5, <1>6, ModUnique
  <2>5. m * j = m * k
    <3> DEFINE mj == m * j
               mk == m * k
    <3>0. mj \in Int /\ mk \in Int
      BY <1>2, <2>1, <2>2
    <3>1. mj \in Int /\ mk \in Int /\ v = mj + z /\ v = mk + y /\ z = y /\ z \in Int
      <4>1. v = mj + z /\ z \in Int
        BY <2>1, <2>2
      <4>2. v = mk + y
        BY <1>6
      <4>3. z = y
        BY <2>3, <2>4
      <4> QED
        BY <3>0, <4>1, <4>2, <4>3
    <3> HIDE DEF mj, mk
    <3>2. mj = mk
      BY <3>1
    <3> QED
      BY <3>2 DEF mj, mk
  <2>6. m * (j - k) = 0
    BY <1>2, <2>1, <2>2, <2>5
  <2>7. j = k
    BY <1>2, <2>1, <2>2, <2>6
  <2> QED
    BY <2>7 DEF j
<1>8. p * s = s * p
  BY <1>2
<1>9. p * w = s * p + m * (v \div m)
  <2> HIDE DEF m
  <2> DEFINE ps == p * s
             pw == p * w
             bk == p * (b * k)
  <2>1. pw = bk + ps /\ bk = m * k /\ ps \in Nat /\ m * k \in Nat
    BY <1>3
  <2> HIDE DEF ps, pw, bk
  <2>2. pw = ps + m * k
    BY <2>1
  <2>3. ps = s * p /\ m * k = m * (v \div m)
    BY <1>7, <1>8 DEF ps
  <2> QED
    BY <2>2, <2>3 DEF pw
<1>10. s = (v \div p) % b /\ w = v \div p
  BY DEF s, w
<1>11. v \div m \in Nat
  BY <1>2, <1>7
<1>12. p * (v \div p) = ((v \div p) % b) * p + m * (v \div m)
  BY <1>9, <1>10
<1>13. v \div p \in Nat /\ (v \div p) % b \in Nat
  <2>1. w \in Nat /\ s \in Nat
    BY <1>1, <1>2
  <2> QED
    BY <1>10, <2>1
<1> QED
  BY <1>11, <1>12, <1>13 DEF CutsAt

\* The windows of a number, numbered from a, and the powers they stand at.
Windowed(v, b, m, a, p, h) ==
  /\ p[0] = 1 /\ v < p[m]
  /\ \A k \in 0 .. m : p[k] \in Nat /\ p[k] > 0
  /\ \A k \in 0 .. (m - 1) : p[k + 1] = p[k] * b
  /\ \A k \in 0 .. (m - 1) : h[a + k] = ((v \div p[k]) % b) * p[k]

\* The windows of a number, each with the power it stands at, add up to it.
LEMMA WindowsAddUp ==
  ASSUME NEW v \in Nat, NEW b \in Nat, b > 0, NEW m \in Nat, NEW a \in Nat,
         NEW p, NEW h, Windowed(v, b, m, a, p, h)
  PROVE  Total(h, a .. (a + m - 1)) = v
<1>0. /\ p[0] = 1 /\ v < p[m]
      /\ \A k \in 0 .. m : p[k] \in Nat /\ p[k] > 0
      /\ \A k \in 0 .. (m - 1) : p[k + 1] = p[k] * b
      /\ \A k \in 0 .. (m - 1) : h[a + k] = ((v \div p[k]) % b) * p[k]
  BY DEF Windowed
<1> USE <1>0
<1> DEFINE G == {k \in 0 .. m : /\ Total(h, a .. (a + k - 1)) \in Int
                                /\ v = Total(h, a .. (a + k - 1)) + p[k] * (v \div p[k])}
           D == a .. (a + m - 1)
<1>1. \A n \in D : h[n] \in Int
  <2> TAKE n \in D
  <2>1. n - a \in 0 .. (m - 1) /\ n - a \in 0 .. m /\ a + (n - a) = n
    OBVIOUS
  <2> DEFINE k == n - a
             x == v \div p[k]
  <2>2. k \in 0 .. (m - 1) /\ p[k] \in Nat /\ p[k] > 0 /\ a + k = n
    BY <2>1
  <2> HIDE DEF k
  <2>3. x % b \in Nat
    BY <2>2, NextWindow DEF CutsAt
  <2> HIDE DEF x
  <2>4. (x % b) * p[k] \in Int
    BY <2>2, <2>3
  <2> QED
    BY <2>2, <2>4 DEF x
<1>2. IsFiniteSet(D)
  BY FS_Interval
<1>3. 0 \in G
  <2>1. a .. (a + 0 - 1) = {} /\ 0 \in 0 .. m
    OBVIOUS
  <2>2. Total(h, {}) = 0
    BY <1>1, <1>2, TotalSplit
  <2>3. v \div p[0] = v
    BY Division
  <2> QED
    BY <2>1, <2>2, <2>3
<1>4. ASSUME NEW k \in 0 .. (m - 1), k \in G PROVE k + 1 \in G
  <2> DEFINE lo == a .. (a + k - 1)
             hi == a .. (a + (k + 1) - 1)
             x == a + k
             w == v \div p[k]
             next == v \div (p[k] * b)
  <2>1. /\ k \in Nat /\ k \in 0 .. m /\ k + 1 \in 0 .. m
        /\ x \in hi /\ hi \ {x} = lo /\ hi \subseteq D
    OBVIOUS
  <2>2. Total(h, hi) = h[x] + Total(h, lo) /\ Total(h, hi) \in Int
    <3> HIDE DEF D, hi, lo, x
    <3>1. hi \in SUBSET D
      BY <2>1
    <3>2. Total(h, hi) \in Int /\ \A y \in hi : Total(h, hi) = h[y] + Total(h, hi \ {y})
      BY <1>1, <1>2, <3>1, TotalInduction
    <3> QED
      BY <2>1, <3>2
  <2>3. p[k] \in Nat /\ p[k] > 0 /\ p[k + 1] = p[k] * b
    BY <2>1
  <2>4. p[k] * w = (w % b) * p[k] + (p[k] * b) * next
    <3> DEFINE c == p[k]
    <3>1. c \in Nat /\ c > 0
      BY <2>3
    <3> HIDE DEF c, G, D
    <3>2. CutsAt(v, c, b)
      BY <3>1, NextWindow
    <3> QED
      BY <3>2, Zenon DEF c, CutsAt
  <2>5. h[x] = (w % b) * p[k]
    OBVIOUS
  <2>6. v = Total(h, lo) + p[k] * w /\ Total(h, lo) \in Int
    BY <1>4
  <2>7. w \in Nat /\ next \in Nat /\ w % b \in Nat
    <3> DEFINE c == p[k]
    <3>1. c \in Nat /\ c > 0
      BY <2>3
    <3> HIDE DEF c, G, D
    <3>2. CutsAt(v, c, b)
      BY <3>1, NextWindow
    <3> QED
      BY <3>2, Zenon DEF c, CutsAt
  <2> DEFINE u == (w % b) * p[k]
             z == (p[k] * b) * next
  <2>8. u \in Nat /\ z \in Nat
    <3> HIDE DEF w, next
    <3>1. p[k] * b \in Nat
      BY <2>3
    <3> QED
      BY <2>3, <2>7, <3>1
  <2>9. p[k] * w = u + z /\ h[x] = u
    BY <2>4, <2>5
  <2> HIDE DEF u, w, x, hi, lo
  <2>10. v = Total(h, hi) + z
    BY <2>2, <2>6, <2>8, <2>9
  <2>11. z = p[k + 1] * (v \div p[k + 1])
    BY <2>3
  <2>12. v = Total(h, hi) + p[k + 1] * (v \div p[k + 1])
    BY <2>10, <2>11
  <2> QED
    BY <2>1, <2>2, <2>12 DEF hi
<1>5. \A k \in 0 .. m : k \in G
  <2> HIDE DEF G
  <2> QED
    BY <1>3, <1>4, UpTo
<1>6. Total(h, D) \in Int /\ v = Total(h, D) + p[m] * (v \div p[m])
  <2>1. m \in 0 .. m
    OBVIOUS
  <2> QED
    BY <1>5, <2>1
<1>7. v \div p[m] = 0
  <2> DEFINE q == p[m]
             w == v \div q
             r == v % q
  <2>1. q \in Nat \ {0} /\ v < q
    OBVIOUS
  <2> HIDE DEF q
  <2>2. w \in Nat /\ r \in 0 .. (q - 1) /\ v = q * w + r
    BY <2>1, Division
  <2> HIDE DEF w, r
  <2>3. CASE w >= 1
    <3>1. q * 1 <= q * w /\ q * w \in Nat
      BY <2>1, <2>2, <2>3, ProductMonotone
    <3> QED
      BY <2>1, <2>2, <3>1
  <2>4. CASE ~(w >= 1)
    <3>1. w = 0
      BY <2>2, <2>4
    <3> QED
      BY <3>1 DEF w, q
  <2> QED
    BY <2>3, <2>4
<1>8. p[m] * (v \div p[m]) = 0
  BY <1>7
<1> QED
  BY <1>6, <1>8
=============================================================================
