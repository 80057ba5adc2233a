---------------------------- MODULE WitnessProofs ----------------------------
(****************************************************************************)
(* For every modulus, number of limbs and kind of program that does not     *)
(* repeat a call: the replay computes a witness.  It assigns every variable *)
(* the gadgets of its call compute, in an order in which their inputs are   *)
(* known; so all constraints hold, what is recorded of each ciphertext      *)
(* agrees with the ciphertext the replay computed, and an output finalized  *)
(* after the replay is bound to it.                                         *)
(****************************************************************************)
EXTENDS ProofClientProofs

-----------------------------------------------------------------------------
(* Values of linear combinations                                             *)

Valuation(val, n) == n \in Nat /\ val \in [1 .. n -> Int]

\* Everything over the first n variables has a value.
LEMMA ValueOf ==
  ASSUME NEW n, NEW val, Valuation(val, n), NEW lc \in Lcs(n)
  PROVE  /\ Known(lc, val)
         /\ LcVal(lc, val) \in Int
         /\ LcVal(lc, val) = Total(Terms(lc, val), DOMAIN lc)
<1>1. n \in Nat /\ \A v \in 1 .. n : val[v] \in Int
  BY DEF Valuation
<1>2. Known(lc, val)
  BY <1>1, KnownFirst
<1> QED
  BY <1>1, <1>2, LcValTotal

\* The value of a combination of one variable or the constant.
LEMMA SingleValue ==
  ASSUME NEW n, NEW val, Valuation(val, n), NEW lc \in Lcs(n), NEW v, DOMAIN lc = {v}
  PROVE  LcVal(lc, val) = Term(lc, val, v)
<1> DEFINE f == Terms(lc, val)
<1>1. Known(lc, val) /\ LcVal(lc, val) = Total(f, {v}) /\ n \in Nat
  BY ValueOf DEF Valuation
<1>2. IsFiniteSet({v}) /\ f[v] \in Int /\ f[v] = Term(lc, val, v)
  BY <1>1, TermsInt
<1> HIDE DEF f
<1>3. Total(f, {}) = 0 /\ Total(f, {v}) = f[v] + Total(f, {v} \ {v})
  <2>1. \A x \in {v} : f[x] \in Int
    BY <1>2
  <2> QED
    BY <1>2, <2>1, TotalSplit
<1>4. {v} \ {v} = {}
  OBVIOUS
<1>5. Total(f, {v}) = f[v]
  <2>1. Total(f, {v} \ {v}) = 0
    BY <1>3, <1>4
  <2> DEFINE z == Total(f, {v} \ {v})
  <2>2. z = 0 /\ Total(f, {v}) = f[v] + z
    BY <1>3, <2>1
  <2> HIDE DEF z
  <2> QED
    BY <1>2, <2>2
<1> QED
  BY <1>1, <1>2, <1>5

\* The values of a variable, a constant and nothing.
LEMMA AtomValue ==
  ASSUME NEW n, NEW val, Valuation(val, n)
  PROVE  /\ \A v \in 1 .. n : LcVal(Var(v), val) = val[v]
         /\ \A c \in Int : LcVal(Const(c), val) = c
         /\ LcVal(<<>>, val) = 0
<1>1. n \in Nat
  BY DEF Valuation
<1>2. ASSUME NEW v \in 1 .. n PROVE LcVal(Var(v), val) = val[v]
  <2>1. v \in 0 .. n /\ val[v] \in Int /\ v # 0
    BY <1>1 DEF Valuation
  <2>2. Var(v) \in Lcs(n)
    BY <1>1, <2>1, AtomLc
  <2>3. DOMAIN Var(v) = {v} /\ Var(v)[v] = 1
    BY DEF Var
  <2>4. Term(Var(v), val, v) = 1 * val[v]
    BY <2>1, <2>3 DEF Term
  <2>5. LcVal(Var(v), val) = Term(Var(v), val, v)
    BY <2>2, <2>3, SingleValue
  <2> QED
    BY <2>1, <2>4, <2>5
<1>3. ASSUME NEW c \in Int PROVE LcVal(Const(c), val) = c
  <2>1. Const(c) \in Lcs(n)
    BY <1>1, AtomLc
  <2>2. DOMAIN Const(c) = {0} /\ Const(c)[0] = c
    BY DEF Const
  <2>3. LcVal(Const(c), val) = Term(Const(c), val, 0)
    BY <2>1, <2>2, SingleValue
  <2> QED
    BY <2>2, <2>3 DEF Term
<1>4. LcVal(<<>>, val) = 0
  <2> DEFINE f == Terms(<<>>, val)
  <2>1. <<>> \in Lcs(n) /\ DOMAIN <<>> = {}
    BY <1>1, AtomLc
  <2>2. LcVal(<<>>, val) = Total(f, {})
    BY <2>1, ValueOf
  <2> HIDE DEF f
  <2>3. Total(f, {}) = 0
    <3>1. IsFiniteSet({}) /\ \A x \in {} : f[x] \in Int
      BY FS_EmptySet
    <3> QED
      BY <3>1, TotalSplit
  <2> QED
    BY <2>2, <2>3
<1> QED
  BY <1>2, <1>3, <1>4

Spread(lc, val, D) == [v \in D |-> Coefficient(lc, v) * (IF v = 0 THEN 1 ELSE val[v])]

\* The value of a combination is also a sum over more variables than it
\* mentions.
LEMMA SpreadValue ==
  ASSUME NEW n, NEW val, Valuation(val, n), NEW lc \in Lcs(n), NEW D \in SUBSET (0 .. n),
         DOMAIN lc \subseteq D
  PROVE  /\ IsFiniteSet(D)
         /\ \A v \in D : Spread(lc, val, D)[v] \in Int
         /\ LcVal(lc, val) = Total(Spread(lc, val, D), D)
<1> DEFINE f == Spread(lc, val, D)
           t == Terms(lc, val)
           R == DOMAIN lc
<1>1. n \in Nat /\ \A v \in 1 .. n : val[v] \in Int
  BY DEF Valuation
<1>2. IsFiniteSet(D)
  <2>1. IsFiniteSet(0 .. n)
    BY <1>1, FS_Interval
  <2> QED
    BY <2>1, FS_Subset
<1>3. \A v \in R : lc[v] \in Int
  BY LcFacts
<1>4. \A v \in D : /\ f[v] \in Int
                   /\ v \in R => f[v] = Term(lc, val, v)
                   /\ v \notin R => f[v] = 0
  <2> SUFFICES ASSUME NEW v \in D
               PROVE  f[v] \in Int /\ (v \in R => f[v] = Term(lc, val, v)) /\ (v \notin R => f[v] = 0)
    OBVIOUS
  <2> DEFINE x == IF v = 0 THEN 1 ELSE val[v]
  <2>1. x \in Int
    <3>1. v = 0 \/ v \in 1 .. n
      BY <1>1
    <3> QED
      BY <1>1, <3>1
  <2>2. f[v] = Coefficient(lc, v) * x
    BY DEF Spread
  <2> HIDE DEF x, f
  <2>3. CASE v \in R
    <3>1. Coefficient(lc, v) = lc[v] /\ lc[v] \in Int
      BY <1>3, <2>3 DEF Coefficient
    <3>2. Term(lc, val, v) = lc[v] * x
      BY DEF Term, x
    <3> QED
      BY <2>1, <2>2, <2>3, <3>1, <3>2
  <2>4. CASE v \notin R
    <3>1. Coefficient(lc, v) = 0
      BY <2>4 DEF Coefficient
    <3> QED
      BY <2>1, <2>2, <2>4, <3>1
  <2> QED
    BY <2>3, <2>4
<1>5. LcVal(lc, val) = Total(t, R) /\ \A v \in R : t[v] = Term(lc, val, v) /\ t[v] \in Int
  <2>1. Known(lc, val) /\ LcVal(lc, val) = Total(t, R)
    BY ValueOf
  <2>2. \A v \in R : t[v] \in Int /\ t[v] = Term(lc, val, v)
    BY <1>1, <2>1, TermsInt
  <2> QED
    BY <2>1, <2>2
<1> HIDE DEF f, t
<1>6. Total(f, D) = Total(f, R)
  BY <1>2, <1>4, TotalMore
<1>7. Total(t, R) = Total(f, R)
  <2>1. IsFiniteSet(R)
    BY <1>2, FS_Subset
  <2>2. \A v \in R : f[v] \in Int /\ t[v] = f[v]
    BY <1>4, <1>5
  <2> HIDE DEF R
  <2> QED
    BY <2>1, <2>2, TotalSame
<1> QED
  BY <1>2, <1>4, <1>5, <1>6, <1>7 DEF f

\* Combinations are linear.
LEMMA CombineValue ==
  ASSUME NEW n, NEW val, Valuation(val, n), NEW a \in Lcs(n), NEW b \in Lcs(n), NEW s \in Int
  PROVE  /\ Combine(a, s, b) \in Lcs(n)
         /\ LcVal(Combine(a, s, b), val) = LcVal(a, val) + s * LcVal(b, val)
<1> DEFINE D == DOMAIN a \cup DOMAIN b
           c == Combine(a, s, b)
           f == Spread(a, val, D)
           g == Spread(b, val, D)
           h == Spread(c, val, D)
<1>1. n \in Nat
  BY DEF Valuation
<1>2. c \in Lcs(n) /\ DOMAIN c = D
  BY <1>1, CombineLc DEF Combine
<1>3. D \in SUBSET (0 .. n)
  BY LcFacts
<1>4. /\ IsFiniteSet(D)
      /\ \A v \in D : f[v] \in Int /\ g[v] \in Int
      /\ LcVal(a, val) = Total(f, D) /\ LcVal(b, val) = Total(g, D)
  BY <1>3, SpreadValue
<1>5. LcVal(c, val) = Total(h, D)
  BY <1>2, <1>3, SpreadValue
<1>6. \A v \in D : h[v] = f[v] + s * g[v]
  <2> SUFFICES ASSUME NEW v \in D PROVE h[v] = f[v] + s * g[v]
    OBVIOUS
  <2> DEFINE x == IF v = 0 THEN 1 ELSE val[v]
             p == Coefficient(a, v)
             q == Coefficient(b, v)
  <2>1. p \in Int /\ q \in Int /\ x \in Int
    <3>1. v = 0 \/ v \in 1 .. n
      BY <1>1, <1>3
    <3>2. x \in Int
      BY <3>1 DEF Valuation
    <3>3. (v \in DOMAIN a => a[v] \in Int) /\ (v \in DOMAIN b => b[v] \in Int)
      BY LcFacts
    <3> QED
      BY <3>2, <3>3 DEF Coefficient
  <2>2. f[v] = p * x /\ g[v] = q * x
    BY DEF Spread
  <2>3. h[v] = (p + s * q) * x
    <3>1. h[v] = Coefficient(c, v) * x
      BY DEF Spread
    <3>2. Coefficient(c, v) = p + s * q
      BY <1>2 DEF Coefficient, Combine
    <3> QED
      BY <3>1, <3>2
  <2> HIDE DEF p, q, x, f, g, h
  <2>4. (p + s * q) * x = p * x + s * (q * x)
    BY <2>1
  <2> QED
    BY <2>2, <2>3, <2>4
<1> HIDE DEF D, f, g, h, c
<1>7. Total(h, D) = Total(f, D) + s * Total(g, D)
  BY <1>4, <1>6, TotalLinear, ZenonT(60)
<1> QED
  BY <1>2, <1>4, <1>5, <1>7 DEF c

SameUpTo(val, w, k) == \A v \in 1 .. k : w[v] = val[v]

\* Values that agree on the first k variables give what is over them the same
\* values.
LEMMA SameFirst ==
  ASSUME NEW n, NEW val, NEW w, Valuation(val, n), NEW k \in Nat, k <= n,
         SameUpTo(val, w, k), NEW lc \in Lcs(k)
  PROVE  LcVal(lc, w) = LcVal(lc, val)
<1>1. n \in Nat /\ lc \in Lcs(n)
  BY LcGrow DEF Valuation
<1>2. Known(lc, val)
  BY <1>1, ValueOf
<1>3. DOMAIN lc \subseteq 0 .. k
  BY LcFacts
<1>4. \A v \in DOMAIN lc \ {0} : w[v] = val[v]
  <2>1. \A v \in (0 .. k) \ {0} : v \in 1 .. k
    OBVIOUS
  <2> QED
    BY <1>3, <2>1 DEF SameUpTo
<1> QED
  BY <1>1, <1>2, <1>4, LcValSame

-----------------------------------------------------------------------------
(* Running gadgets                                                           *)

\* Gadgets that read the first s variables and write the variables after them,
\* one each.
Writers(g, s, n) ==
  /\ s \in Nat /\ n \in Nat /\ Len(g) \in Nat /\ s + Len(g) <= n
  /\ g \in Seq(Gadgets(n))
  /\ \A k \in 1 .. Len(g) : g[k].in1 \in Lcs(s) /\ g[k].in2 \in Lcs(s) /\ g[k].out = s + k

ProductOf(g, val) == Wrap(LcVal(g.in1, val) * LcVal(g.in2, val))

Computed(g, val) == \A k \in 1 .. Len(g) : val[g[k].out] = ProductOf(g[k], val)

Untouched(val, w, lo, hi, n) == \A v \in 1 .. n : v <= lo \/ v > hi => w[v] = val[v]

RunUpTo(x, k, g, s, n, val) ==
  /\ \A v \in 1 .. n : v <= s \/ v > s + k => x[v] = val[v]
  /\ \A i \in 1 .. k : x[s + i] = ProductOf(g[i], val)

\* After k gadgets the k variables they write have their values, and no other
\* has changed.
LEMMA RunPrefix ==
  ASSUME NEW n, NEW val, Valuation(val, n), NEW g, NEW s, Writers(g, s, n),
         NEW r, Runs(r, n, val, g)
  PROVE  \A k \in 0 .. Len(g) : RunUpTo(r[k], k, g, s, n, val)
<1> DEFINE T == {k \in 0 .. Len(g) : RunUpTo(r[k], k, g, s, n, val)}
<1>1. s \in Nat /\ n \in Nat /\ Len(g) \in Nat /\ s + Len(g) <= n
  BY DEF Writers
<1>2. 0 \in T
  <2>1. r[0] = val
    BY DEF Runs
  <2>2. RunUpTo(val, 0, g, s, n, val)
    BY DEF RunUpTo
  <2> QED
    BY <1>1, <2>1, <2>2
<1>3. ASSUME NEW k \in 0 .. (Len(g) - 1), k \in T PROVE k + 1 \in T
  <2> DEFINE c == k + 1
             x == r[k]
             y == r[c]
             h == g[c]
  <2>1. c \in 1 .. Len(g) /\ c - 1 = k /\ k \in 0 .. Len(g) /\ c \in Nat /\ k \in Nat
    BY <1>1, <1>3
  <2>2. RunUpTo(x, k, g, s, n, val)
    BY <1>3
  <2>3. x \in [1 .. n -> Int] /\ y = RunGadget(x, h)
    <3>1. r[c] = RunGadget(r[c - 1], g[c]) /\ r[k] \in [1 .. n -> Int]
      BY <2>1 DEF Runs
    <3> QED
      BY <2>1, <3>1
  <2>4. h \in Gadgets(n) /\ h.in1 \in Lcs(s) /\ h.in2 \in Lcs(s) /\ h.out = s + c
    <3>1. g \in Seq(Gadgets(n)) /\ h.in1 \in Lcs(s) /\ h.in2 \in Lcs(s) /\ h.out = s + c
      BY <2>1 DEF Writers
    <3>2. \A i \in 1 .. Len(g) : g[i] \in Gadgets(n)
      BY <3>1
    <3> QED
      BY <2>1, <3>1, <3>2
  <2> HIDE DEF c, x, y, h
  <2>5. /\ y[h.out] = Wrap(LcVal(h.in1, x) * LcVal(h.in2, x))
        /\ \A v \in 1 .. n : v # h.out => y[v] = x[v]
    BY <1>1, <2>3, <2>4, RunOne
  <2>6. SameUpTo(val, x, s)
    <3>1. \A v \in 1 .. s : v \in 1 .. n /\ v <= s
      BY <1>1
    <3> QED
      BY <2>2, <3>1 DEF RunUpTo, SameUpTo
  <2>7. LcVal(h.in1, x) = LcVal(h.in1, val) /\ LcVal(h.in2, x) = LcVal(h.in2, val)
    <3> DEFINE a == h.in1
               b == h.in2
    <3>1. s \in Nat /\ s <= n
      BY <1>1
    <3>2. a \in Lcs(s) /\ b \in Lcs(s)
      BY <2>4
    <3> HIDE DEF a, b
    <3>3. LcVal(a, x) = LcVal(a, val) /\ LcVal(b, x) = LcVal(b, val)
      BY <2>6, <3>1, <3>2, SameFirst
    <3> QED
      BY <3>3 DEF a, b
  <2>8. y[s + c] = ProductOf(h, val)
    BY <2>4, <2>5, <2>7 DEF ProductOf
  <2>9. \A v \in 1 .. n : v <= s \/ v > s + c => y[v] = val[v]
    <3> SUFFICES ASSUME NEW v \in 1 .. n, v <= s \/ v > s + c PROVE y[v] = val[v]
      OBVIOUS
    <3>1. v # s + c /\ (v <= s \/ v > s + k)
      BY <1>1, <2>1
    <3>2. y[v] = x[v]
      BY <2>4, <2>5, <3>1
    <3> QED
      BY <2>2, <3>1, <3>2 DEF RunUpTo
  <2>10. \A i \in 1 .. c : y[s + i] = ProductOf(g[i], val)
    <3> SUFFICES ASSUME NEW i \in 1 .. c PROVE y[s + i] = ProductOf(g[i], val)
      OBVIOUS
    <3>1. CASE i = c
      BY <2>8, <3>1 DEF h
    <3>2. CASE i # c
      <4>1. i \in 1 .. k /\ s + i \in 1 .. n /\ s + i # s + c
        BY <1>1, <2>1, <3>2
      <4>2. y[s + i] = x[s + i]
        BY <2>4, <2>5, <4>1
      <4> QED
        BY <2>2, <4>1, <4>2 DEF RunUpTo
    <3> QED
      BY <3>1, <3>2
  <2>11. RunUpTo(y, c, g, s, n, val)
    BY <2>9, <2>10 DEF RunUpTo
  <2>12. c \in T
    <3>1. c \in 0 .. Len(g)
      BY <1>1, <2>1
    <3> QED
      BY <2>11, <3>1 DEF y
  <2> QED
    BY <2>12 DEF c
<1> HIDE DEF T
<1>4. \A k \in 0 .. Len(g) : k \in T
  BY <1>1, <1>2, <1>3, UpTo
<1> QED
  BY <1>4 DEF T

\* After all of them each variable they write is the product it stands for.
LEMMA RunComputes ==
  ASSUME NEW n, NEW val, Valuation(val, n), NEW g, NEW s, Writers(g, s, n),
         NEW r, Runs(r, n, val, g), NEW w, w = r[Len(g)]
  PROVE  Valuation(w, n) /\ Computed(g, w) /\ Untouched(val, w, s, s + Len(g), n)
<1>1. s \in Nat /\ n \in Nat /\ Len(g) \in Nat /\ s + Len(g) <= n
  BY DEF Writers
<1>2. RunUpTo(w, Len(g), g, s, n, val)
  <2>1. Len(g) \in 0 .. Len(g)
    BY <1>1
  <2> QED
    BY <2>1, RunPrefix
<1>3. Valuation(w, n)
  BY <1>1 DEF Runs, Valuation
<1>4. Untouched(val, w, s, s + Len(g), n)
  BY <1>2 DEF RunUpTo, Untouched
<1>5. SameUpTo(val, w, s)
  <2>1. \A v \in 1 .. s : v \in 1 .. n /\ v <= s
    BY <1>1
  <2> QED
    BY <1>2, <2>1 DEF RunUpTo, SameUpTo
<1>6. ASSUME NEW k \in 1 .. Len(g) PROVE w[g[k].out] = ProductOf(g[k], w)
  <2>1. g[k].in1 \in Lcs(s) /\ g[k].in2 \in Lcs(s) /\ g[k].out = s + k
    BY DEF Writers
  <2>2. LcVal(g[k].in1, w) = LcVal(g[k].in1, val) /\ LcVal(g[k].in2, w) = LcVal(g[k].in2, val)
    <3>1. s <= n
      BY <1>1
    <3> DEFINE a == g[k].in1
               b == g[k].in2
    <3>2. a \in Lcs(s) /\ b \in Lcs(s)
      BY <2>1
    <3> HIDE DEF a, b
    <3>3. LcVal(a, w) = LcVal(a, val) /\ LcVal(b, w) = LcVal(b, val)
      BY <1>1, <1>5, <3>1, <3>2, SameFirst
    <3> QED
      BY <3>3 DEF a, b
  <2>3. w[s + k] = ProductOf(g[k], val)
    BY <1>2 DEF RunUpTo
  <2> QED
    BY <2>1, <2>2, <2>3 DEF ProductOf
<1> QED
  BY <1>3, <1>4, <1>6 DEF Computed

\* What was computed over the first k variables stays so when only variables
\* after them change.
LEMMA StaysComputed ==
  ASSUME NEW n, NEW val, Valuation(val, n), NEW w, NEW k \in Nat, k <= n,
         SameUpTo(val, w, k),
         NEW g, \A i \in 1 .. Len(g) : g[i] \in Gadgets(k),
         Computed(g, val)
  PROVE  Computed(g, w)
<1> SUFFICES ASSUME NEW i \in 1 .. Len(g) PROVE w[g[i].out] = ProductOf(g[i], w)
  BY DEF Computed
<1> DEFINE a == g[i].in1
           b == g[i].in2
<1>1. a \in Lcs(k) /\ b \in Lcs(k) /\ g[i].out \in 1 .. k
  <2>1. g[i] \in [in1 : Lcs(k), in2 : Lcs(k), out : 1 .. k]
    BY DEF Gadgets
  <2> QED
    BY <2>1
<1>2. val[g[i].out] = Wrap(LcVal(a, val) * LcVal(b, val))
  BY DEF Computed, ProductOf
<1>3. w[g[i].out] = val[g[i].out]
  BY <1>1 DEF SameUpTo
<1> HIDE DEF a, b
<1>4. LcVal(a, w) = LcVal(a, val) /\ LcVal(b, w) = LcVal(b, val)
  BY <1>1, SameFirst
<1> QED
  BY <1>2, <1>3, <1>4 DEF ProductOf, a, b

-----------------------------------------------------------------------------
(* What is recorded of a ciphertext and the ciphertext                       *)

Fits(v, max, y) == v \in Nat /\ max \in Int /\ v <= max /\ y = v % Q

Agrees(m, x, val) ==
  /\ Len(x) = NumPolys(m) /\ FieldHasRoom(m)
  /\ \A i \in 1 .. NumPolys(m), j \in Limbs : Fits(LcVal(m.lc[i][j], val), m.max_value[i][j], x[i][j])

\* A value within its bound is itself in the field.
LEMMA AgreesInField ==
  ASSUME NEW m, NEW x, NEW val, Agrees(m, x, val), NEW i \in 1 .. NumPolys(m), NEW j \in Limbs
  PROVE  /\ Wrap(LcVal(m.lc[i][j], val)) = LcVal(m.lc[i][j], val)
         /\ Fits(LcVal(m.lc[i][j], val), m.max_value[i][j], x[i][j])
<1> DEFINE v == LcVal(m.lc[i][j], val)
           b == m.max_value[i][j]
<1>1. Fits(v, b, x[i][j]) /\ 4 * b < P
  BY DEF Agrees, FieldHasRoom
<1>2. v \in Nat /\ b \in Int /\ v <= b
  BY <1>1 DEF Fits
<1> HIDE DEF v, b
<1>3. v < P
  <2>1. P \in Nat
    BY <1>2, WrapIs
  <2> QED
    BY <1>1, <1>2, <2>1
<1>4. Wrap(v) = v
  BY <1>2, <1>3, WrapIs
<1> QED
  BY <1>1, <1>4 DEF v, b

\* Sums agree with sums, and so do differences when the subtrahend is bounded
\* by the modulus.
LEMMA FitsLinear ==
  ASSUME NEW v, NEW a, NEW x, Fits(v, a, x), NEW w, NEW b, NEW y, Fits(w, b, y)
  PROVE  /\ Fits(v + w, a + b, (x + y) % Q)
         /\ b <= Q => Fits(v - w + Q, a + Q, (x - y) % Q)
<1>1. Q \in Nat /\ Q > 0 /\ v \in Nat /\ w \in Nat /\ a \in Int /\ b \in Int /\ v <= a /\ w <= b
      /\ x = v % Q /\ y = w % Q
  BY SizeFacts DEF Fits
<1>2. v \in Int /\ w \in Int
  BY <1>1
<1>3. x \in 0 .. (Q - 1) /\ y \in 0 .. (Q - 1)
  BY <1>1, <1>2, ModRange
<1>4. (v + w) % Q = (x + y) % Q /\ (v + Q - w) % Q = (x + Q - y) % Q
  BY <1>1, <1>2, ModArith
<1>5. ((x - y) + Q * 1) % Q = (x - y) % Q
  <2>1. x - y \in Int /\ 1 \in Int
    BY <1>1, <1>3
  <2> DEFINE z == x - y
  <2> HIDE DEF z
  <2>2. (z + Q * 1) % Q = z % Q
    BY <1>1, <2>1, ModShift DEF z
  <2> QED
    BY <2>2 DEF z
<1>6. x + Q - y = (x - y) + Q * 1 /\ v + Q - w = v - w + Q
  BY <1>1, <1>3
<1>7. Fits(v + w, a + b, (x + y) % Q)
  <2>1. v + w \in Nat /\ a + b \in Int /\ v + w <= a + b
    BY <1>1
  <2> QED
    BY <1>4, <2>1 DEF Fits
<1>8. ASSUME b <= Q PROVE Fits(v - w + Q, a + Q, (x - y) % Q)
  <2>1. v - w + Q \in Nat /\ a + Q \in Int /\ v - w + Q <= a + Q
    BY <1>1, <1>8
  <2>2. (v - w + Q) % Q = (x - y) % Q
    BY <1>4, <1>5, <1>6
  <2> QED
    BY <2>1, <2>2 DEF Fits
<1> QED
  BY <1>7, <1>8

\* Products agree with products.
LEMMA FitsProduct ==
  ASSUME NEW v, NEW a, NEW x, Fits(v, a, x), NEW w, NEW b, NEW y, Fits(w, b, y)
  PROVE  Fits(v * w, a * b, (x * y) % Q) /\ x * y \in Int
<1>1. Q \in Nat /\ Q > 0 /\ v \in Nat /\ w \in Nat /\ a \in Int /\ b \in Int /\ v <= a /\ w <= b
      /\ x = v % Q /\ y = w % Q
  BY SizeFacts DEF Fits
<1>2. v \in Int /\ w \in Int /\ a \in Nat /\ b \in Nat
  BY <1>1
<1>3. x \in 0 .. (Q - 1) /\ y \in 0 .. (Q - 1)
  BY <1>1, <1>2, ModRange
<1>4. (v * w) % Q = (x * y) % Q
  BY <1>1, <1>2, ModArith
<1>5. v * w \in Nat /\ v * w <= a * b
  BY <1>1, <1>2, ProductMonotone
<1>6. a * b \in Int /\ x * y \in Int
  BY <1>2, <1>3
<1> QED
  BY <1>4, <1>5, <1>6 DEF Fits

-----------------------------------------------------------------------------
(* Sums and differences                                                      *)

LinearShape(op, m1, m2, mr) ==
  /\ NumPolys(mr) = NumPolys(m1)
  /\ \A i \in 1 .. NumPolys(m1), j \in Limbs :
       /\ mr.lc[i][j] = Combine(Combine(m1.lc[i][j], Sign(op), m2.lc[i][j]), 1,
                                Const(IF op = "Sub" THEN Q ELSE 0))
       /\ mr.max_value[i][j] = m1.max_value[i][j] + (IF op = "Sub" THEN Q ELSE m2.max_value[i][j])

\* What is recorded of a sum or difference agrees with it if what is recorded
\* of the operands agrees with them.
LEMMA LinearAgrees ==
  ASSUME NEW n, NEW val, Valuation(val, n), NEW op \in Linear, NEW m1, NEW m2, NEW mr,
         IsMeta(m1, n), IsMeta(m2, n), OperandsFit(op, m1, m2), LinearShape(op, m1, m2, mr),
         SubtrahendReduced(op, m2), FieldHasRoom(mr),
         NEW x, NEW y, Agrees(m1, x, val), Agrees(m2, y, val)
  PROVE  Agrees(mr, FheLinear(op, x, y), val)
<1> DEFINE z == FheLinear(op, x, y)
           l == NumPolys(m1)
<1>1. l \in Nat /\ NumPolys(m2) = l /\ NumPolys(mr) = l /\ Len(x) = l /\ Len(y) = l
  BY MetaEntry DEF OperandsFit, LinearShape, Agrees
<1>2. z = [i \in 1 .. l |-> [j \in Limbs |-> (x[i][j] + Sign(op) * y[i][j]) % Q]]
  BY <1>1 DEF FheLinear, Matrix
<1>3. Len(z) = l
  BY <1>1, <1>2
<1>4. ASSUME NEW i \in 1 .. l, NEW j \in Limbs
      PROVE  Fits(LcVal(mr.lc[i][j], val), mr.max_value[i][j], z[i][j])
  <2> DEFINE a == m1.lc[i][j]
             b == m2.lc[i][j]
             c == Combine(a, Sign(op), b)
             k == IF op = "Sub" THEN Q ELSE 0
             v == LcVal(a, val)
             w == LcVal(b, val)
             s == m1.max_value[i][j]
             t == m2.max_value[i][j]
             p == x[i][j]
             q == y[i][j]
  <2>1. a \in Lcs(n) /\ b \in Lcs(n)
    BY <1>1, <1>4, MetaEntry
  <2>2. Sign(op) \in Int /\ k \in Int /\ 1 \in Int /\ n \in Nat
    BY SizeFacts DEF Sign, Valuation
  <2>3. Fits(v, s, p) /\ Fits(w, t, q)
    BY <1>1, <1>4 DEF Agrees
  <2>4. mr.lc[i][j] = Combine(c, 1, Const(k)) /\ mr.max_value[i][j] = s + (IF op = "Sub" THEN Q ELSE t)
    BY <1>4 DEF LinearShape
  <2>5. z[i][j] = (p + Sign(op) * q) % Q
    BY <1>2, <1>4
  <2>6. op = "Sub" => t <= Q
    BY <1>1, <1>4 DEF SubtrahendReduced
  <2> HIDE DEF a, b, k, v, w, s, t, p, q, z
  <2>7. c \in Lcs(n) /\ LcVal(c, val) = LcVal(a, val) + Sign(op) * LcVal(b, val)
    BY <2>1, <2>2, CombineValue
  <2>8. Const(k) \in Lcs(n) /\ LcVal(Const(k), val) = k
    BY <2>2, AtomLc, AtomValue
  <2> DEFINE e == Const(k)
  <2> HIDE DEF c, e
  <2>9. LcVal(Combine(c, 1, e), val) = LcVal(c, val) + 1 * LcVal(e, val)
    BY <2>2, <2>7, <2>8, CombineValue DEF e
  <2>10. LcVal(mr.lc[i][j], val) = (v + Sign(op) * w) + 1 * k
    BY <2>4, <2>7, <2>8, <2>9 DEF v, w, e
  <2>11. v \in Nat /\ w \in Nat /\ p \in Int /\ q \in Int
    <3>1. v \in Nat /\ w \in Nat /\ p = v % Q /\ q = w % Q /\ Q \in Nat /\ Q > 0
      BY <2>3, SizeFacts DEF Fits
    <3> QED
      BY <3>1
  <2>12. CASE op = "Sub"
    <3>1. Sign(op) = -1 /\ k = Q
      BY <2>12 DEF Sign, k
    <3>2. (v + Sign(op) * w) + 1 * k = v - w + Q /\ p + Sign(op) * q = p - q
      BY <2>2, <2>11, <3>1, SizeFacts
    <3>3. Fits(v - w + Q, s + Q, (p - q) % Q)
      BY <2>3, <2>6, <2>12, FitsLinear
    <3>4. mr.max_value[i][j] = s + Q
      BY <2>4, <2>12
    <3> QED
      BY <2>5, <2>10, <3>2, <3>3, <3>4
  <2>13. CASE op # "Sub"
    <3>1. Sign(op) = 1 /\ k = 0
      BY <2>13 DEF Sign, k
    <3>2. (v + Sign(op) * w) + 1 * k = v + w /\ p + Sign(op) * q = p + q
      BY <2>2, <2>11, <3>1
    <3>3. Fits(v + w, s + t, (p + q) % Q)
      BY <2>3, FitsLinear
    <3>4. mr.max_value[i][j] = s + t
      BY <2>4, <2>13
    <3> QED
      BY <2>5, <2>10, <3>2, <3>3, <3>4
  <2> QED
    BY <2>12, <2>13
<1> HIDE DEF z, l
<1> QED
  BY <1>1, <1>3, <1>4 DEF Agrees, z

-----------------------------------------------------------------------------
(* Products                                                                  *)

Cross(x, y, i, j, a) == x[a][j] * y[i + 1 - a][j]

Meeting(x, y, i) == {a \in DOMAIN x : i + 1 - a \in DOMAIN y}

Convolved(x, y, i, j) == MapThenSumSet(LAMBDA a : x[a][j] * y[i + 1 - a][j], Meeting(x, y, i))

\* A coefficient of a product is the sum of the products that meet there.
LEMMA ConvolvedTotal ==
  ASSUME NEW x, NEW y, NEW i, NEW j, IsFiniteSet(Meeting(x, y, i)),
         NEW f, \A a \in Meeting(x, y, i) : f[a] \in Int /\ f[a] = Cross(x, y, i, j, a)
  PROVE  Convolved(x, y, i, j) = Total(f, Meeting(x, y, i))
<1> DEFINE D == Meeting(x, y, i)
<1>2. PICK h : SumsTo(h, f, D)
  BY SumExists
<1>3. AddsUp(h, f, D)
  BY <1>2, SumsUp
<1> DEFINE Body(g) == [s \in SUBSET D |->
                         IF s = {} THEN 0
                         ELSE LET c == CHOOSE c \in s : TRUE
                              IN  x[c][j] * y[i + 1 - c][j] + g[s \ {c}]]
           iter == CHOOSE g : g = Body(g)
<1>4. Convolved(x, y, i, j) = iter[D]
  BY DEF Convolved, MapThenSumSet, MapThenFoldSet
<1>0. IsFiniteSet(D) /\ \A a \in D : f[a] = Cross(x, y, i, j, a)
  OBVIOUS
<1> HIDE DEF D
<1>5. h = Body(h)
  <2>1. \A s \in SUBSET D : s # {} =>
          AnElement(s) \in s /\ h[s] = f[AnElement(s)] + h[s \ {AnElement(s)}]
    BY <1>3 DEF AddsUp
  <2>2. ASSUME NEW s \in SUBSET D, s # {}
        PROVE  h[s] = x[AnElement(s)][j] * y[i + 1 - AnElement(s)][j] + h[s \ {AnElement(s)}]
    <3> DEFINE c == AnElement(s)
    <3>1. c \in D /\ h[s] = f[c] + h[s \ {c}]
      BY <2>1, <2>2
    <3>2. f[c] = Cross(x, y, i, j, c)
      BY <1>0, <3>1
    <3> HIDE DEF c
    <3>3. f[c] = x[c][j] * y[i + 1 - c][j]
      BY <3>2 DEF Cross
    <3>4. h[s] = x[c][j] * y[i + 1 - c][j] + h[s \ {c}]
      BY <3>1, <3>3
    <3> QED
      BY <3>4 DEF c
  <2>3. h \in [SUBSET D -> Int] /\ h[{}] = 0
    BY <1>3 DEF AddsUp
  <2> QED
    BY <2>2, <2>3 DEF AnElement
<1>6. iter = Body(iter)
  <2> HIDE DEF Body
  <2> QED
    BY <1>5
<1> DEFINE G == {s \in SUBSET D : iter[s] = h[s]}
<1>7. Inherits(G, D)
  <2> HIDE DEF iter
  <2>1. {} \in G
    BY <1>3, <1>6 DEF AddsUp
  <2>2. ASSUME NEW s \in SUBSET D, s # {} PROVE \E c \in s : s \ {c} \in G => s \in G
    <3> DEFINE c == AnElement(s)
    <3>1. c \in s
      BY <2>2 DEF AnElement
    <3>2. h[s] = x[c][j] * y[i + 1 - c][j] + h[s \ {c}]
      BY <1>5, <2>2 DEF AnElement
    <3>3. iter[s] = x[c][j] * y[i + 1 - c][j] + iter[s \ {c}]
      BY <1>6, <2>2 DEF AnElement
    <3> HIDE DEF c
    <3>4. s \ {c} \in G => s \in G
      BY <3>2, <3>3
    <3> QED
      BY <3>1, <3>4
  <2> QED
    BY <2>1, <2>2 DEF Inherits
<1>8. D \in G
  <2> HIDE DEF G
  <2>1. D \in SUBSET D
    OBVIOUS
  <2> QED
    BY <1>0, <1>7, <2>1, FoldInduction
<1>9. Total(f, D) = h[D]
  <2>1. \A a \in D : f[a] \in Int
    BY DEF D
  <2> QED
    BY <1>0, <1>2, <2>1, SumUnique
<1> HIDE DEF iter
<1> QED
  BY <1>4, <1>8, <1>9 DEF D

\* The coefficients of a product of two pairs of polynomials.
LEMMA ProductCoefficients ==
  ASSUME NEW x, NEW y, DOMAIN x = 1 .. 2, DOMAIN y = 1 .. 2, NEW j,
         \A a \in 1 .. 2, b \in 1 .. 2 : x[a][j] * y[b][j] \in Int
  PROVE  /\ Convolved(x, y, 1, j) = x[1][j] * y[1][j]
         /\ Convolved(x, y, 2, j) = x[1][j] * y[2][j] + x[2][j] * y[1][j]
         /\ Convolved(x, y, 3, j) = x[2][j] * y[2][j]
<1>1. Meeting(x, y, 1) = {1} /\ Meeting(x, y, 2) = {1, 2} /\ Meeting(x, y, 3) = {2}
  <2>1. 1 .. 2 = {1, 2}
    OBVIOUS
  <2> QED
    BY <2>1 DEF Meeting
<1>2. IsFiniteSet({1}) /\ IsFiniteSet({2}) /\ IsFiniteSet({1, 2})
  <2>1. IsFiniteSet({1}) /\ IsFiniteSet({2})
    BY FS_Singleton
  <2>2. IsFiniteSet({1} \cup {2})
    BY <2>1, FS_AddElement
  <2>3. {1} \cup {2} = {1, 2}
    OBVIOUS
  <2> QED
    BY <2>1, <2>2, <2>3
<1>3. ASSUME NEW f, NEW c \in Int, f[c] \in Int PROVE Total(f, {c}) = f[c]
  <2>1. \A e \in {c} : f[e] \in Int
    BY <1>3
  <2>2. IsFiniteSet({c})
    BY FS_Singleton
  <2>3. Total(f, {}) = 0 /\ Total(f, {c}) = f[c] + Total(f, {c} \ {c})
    BY <2>1, <2>2, TotalSplit
  <2>4. {c} \ {c} = {}
    OBVIOUS
  <2> DEFINE u == Total(f, {c} \ {c})
  <2>5. u = 0 /\ Total(f, {c}) = f[c] + u
    BY <2>3, <2>4
  <2> HIDE DEF u
  <2> QED
    BY <1>3, <2>5
<1>4. ASSUME NEW i \in {1, 3}, NEW c \in {1, 2}, Meeting(x, y, i) = {c}, i + 1 - c = c
      PROVE  Convolved(x, y, i, j) = x[c][j] * y[c][j]
  <2> DEFINE f == [a \in {c} |-> Cross(x, y, i, j, a)]
  <2>1. Cross(x, y, i, j, c) = x[c][j] * y[c][j] /\ c \in 1 .. 2 /\ c \in Int
    BY <1>4 DEF Cross
  <2>2. f[c] = Cross(x, y, i, j, c) /\ f[c] \in Int
    BY <2>1
  <2>3. IsFiniteSet(Meeting(x, y, i)) /\ \A a \in Meeting(x, y, i) : f[a] \in Int /\ f[a] = Cross(x, y, i, j, a)
    BY <1>2, <1>4, <2>2
  <2> HIDE DEF f
  <2>4. Convolved(x, y, i, j) = Total(f, Meeting(x, y, i))
    BY <2>3, ConvolvedTotal
  <2>5. Total(f, {c}) = f[c]
    BY <1>3, <2>1, <2>2
  <2> QED
    BY <1>4, <2>1, <2>2, <2>4, <2>5
<1>5. Convolved(x, y, 2, j) = x[1][j] * y[2][j] + x[2][j] * y[1][j]
  <2> DEFINE f == [a \in {1, 2} |-> Cross(x, y, 2, j, a)]
  <2>1. Cross(x, y, 2, j, 1) = x[1][j] * y[2][j] /\ Cross(x, y, 2, j, 2) = x[2][j] * y[1][j]
    <3>1. 2 + 1 - 1 = 2 /\ 2 + 1 - 2 = 1
      OBVIOUS
    <3> QED
      BY <3>1 DEF Cross
  <2>2. f[1] = x[1][j] * y[2][j] /\ f[2] = x[2][j] * y[1][j] /\ f[1] \in Int /\ f[2] \in Int
    BY <2>1
  <2>3. IsFiniteSet(Meeting(x, y, 2)) /\ \A a \in Meeting(x, y, 2) : f[a] \in Int /\ f[a] = Cross(x, y, 2, j, a)
    BY <1>1, <1>2, <2>2
  <2> HIDE DEF f
  <2>4. Convolved(x, y, 2, j) = Total(f, Meeting(x, y, 2))
    BY <2>3, ConvolvedTotal
  <2>5. Total(f, {1, 2}) = f[1] + Total(f, {1, 2} \ {1})
    <3>1. \A e \in {1, 2} : f[e] \in Int
      BY <2>2
    <3> QED
      BY <1>2, <3>1, TotalSplit
  <2>6. {1, 2} \ {1} = {2}
    OBVIOUS
  <2>7. Total(f, {2}) = f[2]
    BY <1>3, <2>2
  <2>8. Total(f, {1, 2}) = f[1] + f[2]
    <3> DEFINE u == Total(f, {1, 2} \ {1})
    <3>1. u = f[2] /\ Total(f, {1, 2}) = f[1] + u
      BY <2>5, <2>6, <2>7
    <3> HIDE DEF u
    <3> QED
      BY <3>1
  <2> QED
    BY <1>1, <2>2, <2>4, <2>8
<1>6. Convolved(x, y, 1, j) = x[1][j] * y[1][j]
  BY <1>1, <1>4
<1>7. Convolved(x, y, 3, j) = x[2][j] * y[2][j]
  BY <1>1, <1>4
<1> QED
  BY <1>5, <1>6, <1>7

QuadraticShape(op, m1, m2, s, mr) ==
  /\ NumPolys(mr) = 3
  /\ \A i \in 1 .. 3, j \in Limbs :
       /\ mr.lc[i][j] = SumOfProducts(s, Sums(op)[i], j)
       /\ mr.max_value[i][j] = SumOfBounds(Products(op), m1, m2, Sums(op)[i], j)

\* One variable belongs to one polynomial and limb.
LEMMA SameVariable ==
  ASSUME NEW s \in Nat, NEW n \in Nat
  PROVE  \A a \in 1 .. n, b \in Limbs, c \in 1 .. n, d \in Limbs :
           VariableAt(s, a, b) = VariableAt(s, c, d) => a = c /\ b = d
<1>1. /\ n * NumLimbs \in Nat
      /\ \A i \in 1 .. n, j \in Limbs :
           /\ VariableAt(s, i, j) \in (s + 1) .. (s + n * NumLimbs)
           /\ \A k \in 1 .. n, l \in Limbs :
                VariableAt(s, i, j) = VariableAt(s, k, l) => i = k /\ j = l
  BY VariablesApart, SMTT(40)
<1> QED
  BY <1>1

\* The variables of the products have their values.
LEMMA ProductValue ==
  ASSUME NEW val, NEW op \in Quadratic, NEW s \in Nat, NEW m1, NEW m2,
         Computed(ProductGadgets(Products(op), m1, m2, s), val),
         NEW t \in 1 .. Len(Products(op)), NEW j \in Limbs
  PROVE  val[VariableAt(s, t, j)] = Wrap(LcVal(m1.lc[Products(op)[t][1]][j], val)
                                           * LcVal(m2.lc[Products(op)[t][2]][j], val))
<1> DEFINE p == Products(op)
           l == Len(p)
           g == ProductGadgets(p, m1, m2, s)
           c == l * NumLimbs
           v == VariableAt(s, t, j)
           k == v - s
           tt == ((k - 1) \div NumLimbs) + 1
           jj == ((k - 1) % NumLimbs) + 1
<1>1. l \in Nat /\ t \in 1 .. l
  BY ProductShape
<1>2. c \in Nat /\ v \in (s + 1) .. (s + c)
  <2> HIDE DEF l, p
  <2> QED
    BY <1>1, VariablesApart
<1>3. k \in 1 .. c /\ s + k = v
  <2> HIDE DEF v, c
  <2> QED
    BY <1>2
<1>4. g = [i \in 1 .. c |-> LET a == ((i - 1) \div NumLimbs) + 1
                                b == ((i - 1) % NumLimbs) + 1
                            IN  [in1 |-> m1.lc[p[a][1]][b], in2 |-> m2.lc[p[a][2]][b],
                                 out |-> VariableAt(s, a, b)]]
  BY DEF ProductGadgets
<1> HIDE DEF v, k, g, c, p
<1>5. tt \in 1 .. l /\ jj \in Limbs /\ VariableAt(s, tt, jj) = s + k
  <2> HIDE DEF l
  <2> QED
    BY <1>1, <1>3, VariableBack DEF c
<1>6. tt = t /\ jj = j
  <2> HIDE DEF tt, jj, l
  <2>1. VariableAt(s, tt, jj) = VariableAt(s, t, j) /\ t \in 1 .. l
    BY <1>3, <1>5 DEF v, l, p
  <2> QED
    BY <1>1, <1>5, <2>1, SameVariable
<1>7. g[k] = [in1 |-> m1.lc[p[t][1]][j], in2 |-> m2.lc[p[t][2]][j], out |-> VariableAt(s, t, j)]
  BY <1>3, <1>4, <1>6
<1>8. Len(g) = c /\ k \in 1 .. Len(g)
  BY <1>2, <1>3, <1>4
<1>9. val[g[k].out] = ProductOf(g[k], val)
  BY <1>8 DEF Computed, g, p
<1> QED
  BY <1>7, <1>9 DEF ProductOf, p

\* Sums of one product and of two.
LEMMA ShortSums ==
  ASSUME NEW n \in Nat, NEW s, NEW j, NEW t, NEW u,
         VariableAt(s, t, j) \in 0 .. n, VariableAt(s, u, j) \in 0 .. n
  PROVE  LET x == Combine(<<>>, 1, Var(VariableAt(s, t, j)))
         IN  /\ SumOfProducts(s, <<t>>, j) = x
             /\ SumOfProducts(s, <<t, u>>, j) = Combine(x, 1, Var(VariableAt(s, u, j)))
<1> DEFINE a == VariableAt(s, t, j)
           b == VariableAt(s, u, j)
           e == <<>>
           x == Combine(e, 1, Var(a))
<1>1. n \in Nat
  OBVIOUS
<1>2. \A v \in {t, u} : VariableAt(s, v, j) \in 0 .. n
  OBVIOUS
<1>3. <<t>> \in Seq({t, u}) /\ <<t, u>> \in Seq({t, u})
  OBVIOUS
<1>4. PICK q : LcSums(q, n, s, <<t>>, j)
  <2> DEFINE S == {t, u}
             z == <<t>>
  <2>1. z \in Seq(S) /\ \A v \in S : VariableAt(s, v, j) \in 0 .. n
    BY <1>2, <1>3
  <2> HIDE DEF S, z
  <2>2. \E f : LcSums(f, n, s, z, j)
    BY <1>1, <2>1, SumOfProductsIs
  <2> QED
    BY <2>2 DEF z
<1>5. PICK r : LcSums(r, n, s, <<t, u>>, j)
  <2> DEFINE S == {t, u}
             z == <<t, u>>
  <2>1. z \in Seq(S) /\ \A v \in S : VariableAt(s, v, j) \in 0 .. n
    BY <1>2, <1>3
  <2> HIDE DEF S, z
  <2>2. \E f : LcSums(f, n, s, z, j)
    BY <1>1, <2>1, SumOfProductsIs
  <2> QED
    BY <2>2 DEF z
<1>6. q[0] = e /\ q[1] = x /\ SumOfProducts(s, <<t>>, j) = q[1]
  <2>1. Len(<<t>>) = 1 /\ 1 \in 1 .. 1 /\ <<t>>[1] = t /\ 1 - 1 = 0
    OBVIOUS
  <2> HIDE DEF e
  <2> QED
    BY <1>4, <2>1 DEF LcSums, e
<1>7. r[0] = e /\ r[1] = x /\ r[2] = Combine(r[1], 1, Var(b)) /\ SumOfProducts(s, <<t, u>>, j) = r[2]
  <2>1. Len(<<t, u>>) = 2 /\ 1 \in 1 .. 2 /\ 2 \in 1 .. 2 /\ <<t, u>>[1] = t /\ <<t, u>>[2] = u
        /\ 1 - 1 = 0 /\ 2 - 1 = 1
    OBVIOUS
  <2> QED
    BY <1>5, <2>1 DEF LcSums
<1> QED
  BY <1>6, <1>7

\* The values of sums of one product and of two.
LEMMA SumValue ==
  ASSUME NEW n, NEW val, Valuation(val, n), NEW s, NEW j, NEW t, NEW u,
         VariableAt(s, t, j) \in 1 .. n, VariableAt(s, u, j) \in 1 .. n
  PROVE  /\ LcVal(SumOfProducts(s, <<t>>, j), val) = val[VariableAt(s, t, j)]
         /\ LcVal(SumOfProducts(s, <<t, u>>, j), val) = val[VariableAt(s, t, j)] + val[VariableAt(s, u, j)]
<1> DEFINE a == VariableAt(s, t, j)
           b == VariableAt(s, u, j)
           e == <<>>
           x == Combine(e, 1, Var(a))
<1>1. n \in Nat /\ 1 \in Int /\ val[a] \in Int /\ val[b] \in Int
  BY DEF Valuation
<1>2. \A v \in {t, u} : VariableAt(s, v, j) \in 0 .. n
  BY <1>1
<1>3. SumOfProducts(s, <<t>>, j) = x /\ SumOfProducts(s, <<t, u>>, j) = Combine(x, 1, Var(b))
  BY <1>1, <1>2, ShortSums
<1>8. e \in Lcs(n) /\ Var(a) \in Lcs(n) /\ Var(b) \in Lcs(n)
  BY <1>1, <1>2, AtomLc
<1>9. LcVal(e, val) = 0 /\ LcVal(Var(a), val) = val[a] /\ LcVal(Var(b), val) = val[b]
  BY AtomValue
<1> DEFINE va == Var(a)
           vb == Var(b)
<1>14. va \in Lcs(n) /\ vb \in Lcs(n)
  BY <1>8
<1> HIDE DEF e, va, vb
<1>10. Combine(e, 1, va) \in Lcs(n) /\ LcVal(Combine(e, 1, va), val) = LcVal(e, val) + 1 * LcVal(va, val)
  BY <1>1, <1>8, <1>14, CombineValue
<1>11. x \in Lcs(n) /\ LcVal(x, val) = val[a]
  BY <1>1, <1>9, <1>10 DEF va
<1> HIDE DEF x
<1>12. LcVal(Combine(x, 1, vb), val) = LcVal(x, val) + 1 * LcVal(vb, val)
  <2>1. x \in Lcs(n) /\ vb \in Lcs(n) /\ 1 \in Int
    BY <1>11, <1>14
  <2> QED
    BY <2>1, CombineValue
<1>13. LcVal(Combine(x, 1, vb), val) = val[a] + val[b]
  <2> DEFINE y == LcVal(Combine(x, 1, vb), val)
             z == LcVal(vb, val)
             w == LcVal(x, val)
  <2>1. z = val[b] /\ w = val[a] /\ y = w + 1 * z
    BY <1>9, <1>11, <1>12 DEF vb
  <2> HIDE DEF y, z, w
  <2>2. y = val[a] + val[b]
    BY <1>1, <2>1
  <2> QED
    BY <2>2 DEF y
<1> QED
  BY <1>3, <1>11, <1>13 DEF vb

\* The bounds of sums of one product and of two.
LEMMA SumBound ==
  ASSUME NEW p, NEW m1, NEW m2, NEW j, NEW t, NEW u,
         Bound(p, m1, m2, t, j) \in Int, Bound(p, m1, m2, u, j) \in Int
  PROVE  /\ SumOfBounds(p, m1, m2, <<t>>, j) = Bound(p, m1, m2, t, j)
         /\ SumOfBounds(p, m1, m2, <<t, u>>, j) = Bound(p, m1, m2, t, j) + Bound(p, m1, m2, u, j)
<1> DEFINE a == Bound(p, m1, m2, t, j)
           b == Bound(p, m1, m2, u, j)
<1>1. \A v \in {t, u} : Bound(p, m1, m2, v, j) \in Int
  OBVIOUS
<1>2. <<t>> \in Seq({t, u}) /\ <<t, u>> \in Seq({t, u})
  OBVIOUS
<1>3. PICK q : BoundSums(q, p, m1, m2, <<t>>, j)
  <2> DEFINE S == {t, u}
             z == <<t>>
  <2>1. z \in Seq(S) /\ \A v \in S : Bound(p, m1, m2, v, j) \in Int
    BY <1>1, <1>2
  <2> HIDE DEF S, z
  <2>2. \E f : BoundSums(f, p, m1, m2, z, j)
    BY <2>1, SumOfBoundsIs
  <2> QED
    BY <2>2 DEF z
<1>4. PICK r : BoundSums(r, p, m1, m2, <<t, u>>, j)
  <2> DEFINE S == {t, u}
             z == <<t, u>>
  <2>1. z \in Seq(S) /\ \A v \in S : Bound(p, m1, m2, v, j) \in Int
    BY <1>1, <1>2
  <2> HIDE DEF S, z
  <2>2. \E f : BoundSums(f, p, m1, m2, z, j)
    BY <2>1, SumOfBoundsIs
  <2> QED
    BY <2>2 DEF z
<1>5. q[0] = 0 /\ q[1] = q[0] + a /\ SumOfBounds(p, m1, m2, <<t>>, j) = q[1]
  <2>1. Len(<<t>>) = 1 /\ 1 \in 1 .. 1 /\ <<t>>[1] = t /\ 1 - 1 = 0
    OBVIOUS
  <2> QED
    BY <1>3, <2>1 DEF BoundSums
<1>6. r[0] = 0 /\ r[1] = r[0] + a /\ r[2] = r[1] + b /\ SumOfBounds(p, m1, m2, <<t, u>>, j) = r[2]
  <2>1. Len(<<t, u>>) = 2 /\ 1 \in 1 .. 2 /\ 2 \in 1 .. 2 /\ <<t, u>>[1] = t /\ <<t, u>>[2] = u
        /\ 1 - 1 = 0 /\ 2 - 1 = 1
    OBVIOUS
  <2> QED
    BY <1>4, <2>1 DEF BoundSums
<1>7. a \in Int /\ b \in Int
  OBVIOUS
<1> HIDE DEF a, b
<1>8. q[1] = a /\ r[2] = a + b
  BY <1>5, <1>6, <1>7
<1> QED
  BY <1>5, <1>6, <1>8 DEF a, b

\* Each product is a term of a sum the field has room for.
LEMMA ProductInField ==
  ASSUME NEW op \in Quadratic, NEW m1, NEW m2, NEW s, NEW mr, QuadraticShape(op, m1, m2, s, mr),
         FieldHasRoom(mr), NEW j \in Limbs,
         \A t \in 1 .. Len(Products(op)) : Bound(Products(op), m1, m2, t, j) \in Nat
  PROVE  \A t \in 1 .. Len(Products(op)) : Bound(Products(op), m1, m2, t, j) < P
<1> DEFINE pr == Products(op)
           b(t) == Bound(pr, m1, m2, t, j)
           sum(ts) == SumOfBounds(pr, m1, m2, ts, j)
<1>1. P \in Nat
  BY FieldAssumption
<1>2. \A i \in 1 .. 3 : 4 * sum(Sums(op)[i]) < P
  <2> SUFFICES ASSUME NEW i \in 1 .. 3 PROVE 4 * sum(Sums(op)[i]) < P
    OBVIOUS
  <2>1. mr.max_value[i][j] = sum(Sums(op)[i]) /\ NumPolys(mr) = 3
    BY DEF QuadraticShape
  <2>2. 4 * mr.max_value[i][j] < P
    BY <2>1 DEF FieldHasRoom
  <2> QED
    BY <2>1, <2>2
<1>3. ASSUME NEW t \in 1 .. Len(pr), NEW u \in 1 .. Len(pr)
      PROVE  sum(<<t>>) = b(t) /\ sum(<<t, u>>) = b(t) + b(u) /\ b(t) \in Nat /\ b(u) \in Nat
  <2>1. b(t) \in Int /\ b(u) \in Int
    BY <1>3
  <2> QED
    BY <1>3, <2>1, SumBound
<1>4. CASE op = "MultNoRelin"
  <2>1. /\ Len(pr) = 4 /\ Sums(op)[1] = <<1>> /\ Sums(op)[2] = <<2, 3>> /\ Sums(op)[3] = <<4>>
        /\ 1 \in 1 .. 4 /\ 2 \in 1 .. 4 /\ 3 \in 1 .. 4 /\ 4 \in 1 .. 4
        /\ 1 \in 1 .. 3 /\ 2 \in 1 .. 3 /\ 3 \in 1 .. 3
    BY <1>4 DEF Products, Sums
  <2>2. 4 * sum(<<1>>) < P /\ 4 * sum(<<2, 3>>) < P /\ 4 * sum(<<4>>) < P
    <3> HIDE DEF sum
    <3> QED
      BY <1>2, <2>1
  <2>3. /\ sum(<<1>>) = b(1) /\ sum(<<2, 3>>) = b(2) + b(3) /\ sum(<<4>>) = b(4)
        /\ b(1) \in Nat /\ b(2) \in Nat /\ b(3) \in Nat /\ b(4) \in Nat
    <3> HIDE DEF pr, sum, b
    <3> QED
      BY <1>3, <2>1
  <2> HIDE DEF pr, sum, b
  <2>4. b(1) < P /\ b(2) < P /\ b(3) < P /\ b(4) < P
    BY <1>1, <2>2, <2>3
  <2>5. \A t \in 1 .. 4 : t = 1 \/ t = 2 \/ t = 3 \/ t = 4
    OBVIOUS
  <2>6. \A t \in 1 .. 4 : b(t) < P
    BY <2>4, <2>5
  <2> QED
    BY <2>1, <2>6 DEF b, pr
<1>5. CASE op = "Square"
  <2>1. /\ Len(pr) = 3 /\ Sums(op)[1] = <<2>> /\ Sums(op)[2] = <<1, 1>> /\ Sums(op)[3] = <<3>>
        /\ 1 \in 1 .. 3 /\ 2 \in 1 .. 3 /\ 3 \in 1 .. 3
    BY <1>5 DEF Products, Sums
  <2>2. 4 * sum(<<2>>) < P /\ 4 * sum(<<1, 1>>) < P /\ 4 * sum(<<3>>) < P
    <3> HIDE DEF sum
    <3> QED
      BY <1>2, <2>1
  <2>3. /\ sum(<<2>>) = b(2) /\ sum(<<1, 1>>) = b(1) + b(1) /\ sum(<<3>>) = b(3)
        /\ b(1) \in Nat /\ b(2) \in Nat /\ b(3) \in Nat
    <3> HIDE DEF pr, sum, b
    <3> QED
      BY <1>3, <2>1
  <2> HIDE DEF pr, sum, b
  <2>4. b(1) < P /\ b(2) < P /\ b(3) < P
    BY <1>1, <2>2, <2>3
  <2>5. \A t \in 1 .. 3 : t = 1 \/ t = 2 \/ t = 3
    OBVIOUS
  <2>6. \A t \in 1 .. 3 : b(t) < P
    BY <2>4, <2>5
  <2> QED
    BY <2>1, <2>6 DEF b, pr
<1> QED
  BY <1>4, <1>5 DEF Quadratic

ProductFits(op, m1, m2, s, x, y, val, j, t) ==
  LET a == Products(op)[t][1]
      b == Products(op)[t][2]
  IN  Fits(val[VariableAt(s, t, j)], Bound(Products(op), m1, m2, t, j), (x[a][j] * y[b][j]) % Q)

\* One product, and the sum of two, agree with those of the coefficients.
LEMMA SumsFit ==
  ASSUME NEW n, NEW val, Valuation(val, n), NEW op, NEW s, NEW m1, NEW m2, NEW x, NEW y, NEW j,
         NEW t, NEW u, VariableAt(s, t, j) \in 1 .. n, VariableAt(s, u, j) \in 1 .. n,
         NEW p \in Int, NEW q \in Int,
         Fits(val[VariableAt(s, t, j)], Bound(Products(op), m1, m2, t, j), p % Q),
         Fits(val[VariableAt(s, u, j)], Bound(Products(op), m1, m2, u, j), q % Q)
  PROVE  /\ Fits(LcVal(SumOfProducts(s, <<t>>, j), val), SumOfBounds(Products(op), m1, m2, <<t>>, j), p % Q)
         /\ Fits(LcVal(SumOfProducts(s, <<t, u>>, j), val), SumOfBounds(Products(op), m1, m2, <<t, u>>, j),
                 (p + q) % Q)
<1> DEFINE v == val[VariableAt(s, t, j)]
           w == val[VariableAt(s, u, j)]
           a == Bound(Products(op), m1, m2, t, j)
           b == Bound(Products(op), m1, m2, u, j)
<1>1. Fits(v, a, p % Q) /\ Fits(w, b, q % Q)
  OBVIOUS
<1>2. a \in Int /\ b \in Int
  BY <1>1 DEF Fits
<1>3. /\ SumOfBounds(Products(op), m1, m2, <<t>>, j) = a
      /\ SumOfBounds(Products(op), m1, m2, <<t, u>>, j) = a + b
  BY <1>2, SumBound
<1>4. /\ LcVal(SumOfProducts(s, <<t>>, j), val) = v
      /\ LcVal(SumOfProducts(s, <<t, u>>, j), val) = v + w
  BY SumValue
<1>5. Fits(v + w, a + b, ((p % Q) + (q % Q)) % Q)
  <2> HIDE DEF v, w, a, b
  <2> QED
    BY <1>1, FitsLinear
<1>6. ((p % Q) + (q % Q)) % Q = (p + q) % Q
  <2>1. Q \in Nat /\ Q > 0
    BY SizeFacts
  <2> QED
    BY <2>1, ModArith
<1> HIDE DEF v, w, a, b
<1>7. Fits(v + w, a + b, (p + q) % Q)
  BY <1>5, <1>6
<1> QED
  BY <1>1, <1>3, <1>4, <1>7

\* What is recorded of a product agrees with it if what is recorded of the
\* operands agrees with them and the products of its gadgets were computed.
LEMMA QuadraticAgrees ==
  ASSUME NEW n, NEW val, Valuation(val, n), NEW op \in Quadratic, NEW s \in Nat, NEW m1, NEW m2, NEW mr,
         IsMeta(m1, s), IsMeta(m2, s), OperandsFit(op, m1, m2),
         s + Len(Products(op)) * NumLimbs <= n,
         QuadraticShape(op, m1, m2, s, mr), FieldHasRoom(mr),
         Computed(ProductGadgets(Products(op), m1, m2, s), val),
         NEW x, NEW y, IsSeq(x), IsSeq(y), Agrees(m1, x, val), Agrees(m2, y, val),
         op = "Square" => m1 = m2 /\ x = y
  PROVE  Agrees(mr, FheProduct(x, y), val)
<1> DEFINE z == FheProduct(x, y)
           pr == Products(op)
<1>1. NumPolys(m1) = 2 /\ NumPolys(m2) = 2 /\ Len(x) = 2 /\ Len(y) = 2
  BY DEF OperandsFit, Agrees
<1>2. DOMAIN x = 1 .. 2 /\ DOMAIN y = 1 .. 2
  <2>1. x = [k \in 1 .. 2 |-> x[k]] /\ y = [k \in 1 .. 2 |-> y[k]]
    BY <1>1 DEF IsSeq
  <2>2. DOMAIN [k \in 1 .. 2 |-> x[k]] = 1 .. 2 /\ DOMAIN [k \in 1 .. 2 |-> y[k]] = 1 .. 2
    OBVIOUS
  <2> QED
    BY <2>1, <2>2
<1>3. z = [i \in 1 .. 3 |-> [j \in Limbs |-> Convolved(x, y, i, j) % Q]]
  <2>1. Len(x) + Len(y) - 1 = 3
    BY <1>1
  <2> QED
    BY <2>1 DEF FheProduct, Matrix, Convolved, Meeting
<1>4. Len(z) = 3 /\ NumPolys(mr) = 3
  BY <1>3 DEF QuadraticShape
<1>5. ASSUME NEW i \in 1 .. 2, NEW j \in Limbs
      PROVE  /\ Fits(LcVal(m1.lc[i][j], val), m1.max_value[i][j], x[i][j])
             /\ Fits(LcVal(m2.lc[i][j], val), m2.max_value[i][j], y[i][j])
  BY <1>1, <1>5 DEF Agrees
<1>6. ASSUME NEW j \in Limbs
      PROVE  \A a \in 1 .. 2, b \in 1 .. 2 : x[a][j] * y[b][j] \in Int
  <2> SUFFICES ASSUME NEW a \in 1 .. 2, NEW b \in 1 .. 2 PROVE x[a][j] * y[b][j] \in Int
    OBVIOUS
  <2> DEFINE p == x[a][j]
             q == y[b][j]
  <2>1. Fits(LcVal(m1.lc[a][j], val), m1.max_value[a][j], p)
    BY <1>5, <1>6
  <2>2. Fits(LcVal(m2.lc[b][j], val), m2.max_value[b][j], q)
    BY <1>5, <1>6
  <2> HIDE DEF p, q
  <2>3. p * q \in Int
    BY <2>1, <2>2, FitsProduct
  <2> QED
    BY <2>3 DEF p, q
<1>7. Len(pr) \in Nat /\ \A t \in 1 .. Len(pr) : pr[t][1] \in 1 .. 2 /\ pr[t][2] \in 1 .. 2
  BY ProductShape
<1>13. ASSUME NEW j \in Limbs, NEW t \in 1 .. Len(pr)
       PROVE  LET a == pr[t][1]
                  b == pr[t][2]
              IN  /\ Fits(LcVal(m1.lc[a][j], val), m1.max_value[a][j], x[a][j])
                  /\ Fits(LcVal(m2.lc[b][j], val), m2.max_value[b][j], y[b][j])
                  /\ Bound(pr, m1, m2, t, j) = m1.max_value[a][j] * m2.max_value[b][j]
                  /\ Bound(pr, m1, m2, t, j) \in Nat
  <2> DEFINE a == pr[t][1]
             b == pr[t][2]
             c == m1.max_value[a][j]
             d == m2.max_value[b][j]
  <2>1. a \in 1 .. 2 /\ b \in 1 .. 2
    BY <1>7, <1>13
  <2>2. Fits(LcVal(m1.lc[a][j], val), c, x[a][j]) /\ Fits(LcVal(m2.lc[b][j], val), d, y[b][j])
    <3> HIDE DEF a, b
    <3> QED
      BY <1>5, <1>13, <2>1
  <2>3. Bound(pr, m1, m2, t, j) = c * d
    BY DEF Bound
  <2>4. c \in Nat /\ d \in Nat
    <3> HIDE DEF a, b, c, d
    <3> QED
      BY <2>2 DEF Fits
  <2> HIDE DEF c, d
  <2>5. c * d \in Nat
    BY <2>4
  <2> QED
    BY <2>2, <2>3, <2>5 DEF c, d
<1>14. ASSUME NEW j \in Limbs PROVE \A t \in 1 .. Len(pr) : Bound(pr, m1, m2, t, j) < P
  <2>1. \A t \in 1 .. Len(pr) : Bound(pr, m1, m2, t, j) \in Nat
    BY <1>13, <1>14
  <2> QED
    BY <1>14, <2>1, ProductInField
<1>8. ASSUME NEW j \in Limbs, NEW t \in 1 .. Len(pr)
      PROVE  /\ VariableAt(s, t, j) \in 1 .. n
             /\ ProductFits(op, m1, m2, s, x, y, val, j, t)
  <2> DEFINE a == pr[t][1]
             b == pr[t][2]
             v == LcVal(m1.lc[a][j], val)
             w == LcVal(m2.lc[b][j], val)
  <2>1. a \in 1 .. 2 /\ b \in 1 .. 2
    BY <1>7, <1>8
  <2>2. Fits(v, m1.max_value[a][j], x[a][j]) /\ Fits(w, m2.max_value[b][j], y[b][j])
    BY <1>8, <1>13
  <2>3. Fits(v * w, m1.max_value[a][j] * m2.max_value[b][j], (x[a][j] * y[b][j]) % Q)
    <3> DEFINE c == m1.max_value[a][j]
               d == m2.max_value[b][j]
               e == x[a][j]
               f == y[b][j]
    <3>1. Fits(v, c, e) /\ Fits(w, d, f)
      BY <2>2
    <3> HIDE DEF c, d, e, f, v, w
    <3>2. Fits(v * w, c * d, (e * f) % Q)
      BY <3>1, FitsProduct
    <3> QED
      BY <3>2 DEF c, d, e, f
  <2>5. /\ Bound(pr, m1, m2, t, j) = m1.max_value[a][j] * m2.max_value[b][j]
        /\ Bound(pr, m1, m2, t, j) < P
    BY <1>8, <1>13, <1>14
  <2>4. val[VariableAt(s, t, j)] = v * w
    <3> DEFINE e == m1.max_value[a][j] * m2.max_value[b][j]
    <3>1. val[VariableAt(s, t, j)] = Wrap(v * w)
      BY <1>8, ProductValue
    <3>2. v * w \in Nat /\ e \in Int /\ v * w <= e /\ e < P
      BY <2>3, <2>5 DEF Fits
    <3> DEFINE u == v * w
    <3> HIDE DEF e, u
    <3>3. u \in Int /\ 0 <= u /\ u < P
      <4>1. u \in Nat /\ e \in Int /\ u <= e /\ e < P
        BY <3>2 DEF u
      <4>2. P \in Nat
        BY FieldAssumption
      <4> QED
        BY <4>1, <4>2
    <3>4. Wrap(u) = u
      BY <3>3, WrapIs
    <3> QED
      BY <3>1, <3>4 DEF u
  <2>6. VariableAt(s, t, j) \in 1 .. n
    <3> DEFINE l == Len(pr)
               c == l * NumLimbs
               u == VariableAt(s, t, j)
    <3>1. l \in Nat /\ t \in 1 .. l /\ s + c <= n
      BY <1>7, <1>8
    <3> HIDE DEF l
    <3>2. c \in Nat /\ u \in (s + 1) .. (s + c)
      BY <1>8, <3>1, VariablesApart
    <3>3. n \in Nat
      BY DEF Valuation
    <3> HIDE DEF c, u
    <3>4. u \in 1 .. n
      BY <3>1, <3>2, <3>3
    <3> QED
      BY <3>4 DEF u
  <2> HIDE DEF v, w
  <2>7. ProductFits(op, m1, m2, s, x, y, val, j, t)
    BY <2>3, <2>4, <2>5 DEF ProductFits
  <2> QED
    BY <2>6, <2>7
<1> DEFINE Entry(i, j) == Fits(LcVal(SumOfProducts(s, Sums(op)[i], j), val),
                               SumOfBounds(pr, m1, m2, Sums(op)[i], j), Convolved(x, y, i, j) % Q)
<1>9. ASSUME NEW j \in Limbs
      PROVE  /\ Convolved(x, y, 1, j) = x[1][j] * y[1][j]
             /\ Convolved(x, y, 2, j) = x[1][j] * y[2][j] + x[2][j] * y[1][j]
             /\ Convolved(x, y, 3, j) = x[2][j] * y[2][j]
  BY <1>2, <1>6, <1>9, ProductCoefficients
<1>10. ASSUME NEW j \in Limbs, NEW t \in 1 .. Len(pr), NEW u \in 1 .. Len(pr), NEW p, NEW q,
              p = x[pr[t][1]][j] * y[pr[t][2]][j], q = x[pr[u][1]][j] * y[pr[u][2]][j]
       PROVE  /\ Fits(LcVal(SumOfProducts(s, <<t>>, j), val), SumOfBounds(pr, m1, m2, <<t>>, j), p % Q)
              /\ Fits(LcVal(SumOfProducts(s, <<t, u>>, j), val), SumOfBounds(pr, m1, m2, <<t, u>>, j), (p + q) % Q)
  <2>1. p \in Int /\ q \in Int
    <3>1. pr[t][1] \in 1 .. 2 /\ pr[t][2] \in 1 .. 2 /\ pr[u][1] \in 1 .. 2 /\ pr[u][2] \in 1 .. 2
      BY <1>7, <1>10
    <3> HIDE DEF pr
    <3> QED
      BY <1>6, <1>10, <3>1
  <2>2. VariableAt(s, t, j) \in 1 .. n /\ VariableAt(s, u, j) \in 1 .. n
    BY <1>8, <1>10
  <2>3. /\ Fits(val[VariableAt(s, t, j)], Bound(pr, m1, m2, t, j), p % Q)
        /\ Fits(val[VariableAt(s, u, j)], Bound(pr, m1, m2, u, j), q % Q)
    BY <1>8, <1>10 DEF ProductFits
  <2> QED
    BY <2>1, <2>2, <2>3, SumsFit
<1>11. ASSUME NEW j \in Limbs PROVE Entry(1, j) /\ Entry(2, j) /\ Entry(3, j)
  <2>1. CASE op = "MultNoRelin"
    <3>1. /\ pr = << <<1, 1>>, <<1, 2>>, <<2, 1>>, <<2, 2>> >>
          /\ Sums(op) = << <<1>>, <<2, 3>>, <<4>> >>
      BY <2>1 DEF Products, Sums
    <3>2. /\ 1 \in 1 .. Len(pr) /\ 2 \in 1 .. Len(pr) /\ 3 \in 1 .. Len(pr) /\ 4 \in 1 .. Len(pr)
          /\ pr[1][1] = 1 /\ pr[1][2] = 1 /\ pr[2][1] = 1 /\ pr[2][2] = 2
          /\ pr[3][1] = 2 /\ pr[3][2] = 1 /\ pr[4][1] = 2 /\ pr[4][2] = 2
          /\ Sums(op)[1] = <<1>> /\ Sums(op)[2] = <<2, 3>> /\ Sums(op)[3] = <<4>>
      BY <3>1
    <3> HIDE DEF pr
    <3>3. Entry(1, j)
      <4>1. Fits(LcVal(SumOfProducts(s, <<1>>, j), val), SumOfBounds(pr, m1, m2, <<1>>, j), (x[1][j] * y[1][j]) % Q)
        BY <1>10, <1>11, <3>2
      <4> QED
        BY <1>9, <1>11, <3>2, <4>1
    <3>4. Entry(2, j)
      <4>1. Fits(LcVal(SumOfProducts(s, <<2, 3>>, j), val), SumOfBounds(pr, m1, m2, <<2, 3>>, j),
                 (x[1][j] * y[2][j] + x[2][j] * y[1][j]) % Q)
        BY <1>10, <1>11, <3>2
      <4> QED
        BY <1>9, <1>11, <3>2, <4>1
    <3>5. Entry(3, j)
      <4>1. Fits(LcVal(SumOfProducts(s, <<4>>, j), val), SumOfBounds(pr, m1, m2, <<4>>, j), (x[2][j] * y[2][j]) % Q)
        BY <1>10, <1>11, <3>2
      <4> QED
        BY <1>9, <1>11, <3>2, <4>1
    <3> QED
      BY <3>3, <3>4, <3>5
  <2>2. CASE op = "Square"
    <3>1. /\ pr = << <<1, 2>>, <<1, 1>>, <<2, 2>> >>
          /\ Sums(op) = << <<2>>, <<1, 1>>, <<3>> >>
      BY <2>2 DEF Products, Sums
    <3>2. /\ 1 \in 1 .. Len(pr) /\ 2 \in 1 .. Len(pr) /\ 3 \in 1 .. Len(pr)
          /\ pr[1][1] = 1 /\ pr[1][2] = 2 /\ pr[2][1] = 1 /\ pr[2][2] = 1
          /\ pr[3][1] = 2 /\ pr[3][2] = 2
          /\ Sums(op)[1] = <<2>> /\ Sums(op)[2] = <<1, 1>> /\ Sums(op)[3] = <<3>>
      BY <3>1
    <3> HIDE DEF pr
    <3>3. Entry(1, j)
      <4>1. Fits(LcVal(SumOfProducts(s, <<2>>, j), val), SumOfBounds(pr, m1, m2, <<2>>, j), (x[1][j] * y[1][j]) % Q)
        BY <1>10, <1>11, <3>2
      <4> QED
        BY <1>9, <1>11, <3>2, <4>1
    <3>4. Entry(2, j)
      <4>1. Fits(LcVal(SumOfProducts(s, <<1, 1>>, j), val), SumOfBounds(pr, m1, m2, <<1, 1>>, j),
                 (x[1][j] * y[2][j] + x[1][j] * y[2][j]) % Q)
        BY <1>10, <1>11, <3>2
      <4>2. x[1][j] * y[2][j] = x[2][j] * y[1][j]
        <5> DEFINE a == x[1][j]
                   b == x[2][j]
        <5>1. Fits(LcVal(m1.lc[1][j], val), m1.max_value[1][j], a)
          BY <1>5, <1>11
        <5>2. Fits(LcVal(m1.lc[2][j], val), m1.max_value[2][j], b)
          BY <1>5, <1>11
        <5>3. a \in Int /\ b \in Int
          <6>1. Q \in Nat /\ Q > 0
            BY SizeFacts
          <6> HIDE DEF a, b
          <6> QED
            BY <5>1, <5>2, <6>1 DEF Fits
        <5>4. y[1][j] = a /\ y[2][j] = b
          BY <2>2
        <5> HIDE DEF a, b
        <5>5. a * b = b * a
          BY <5>3
        <5> QED
          BY <5>4, <5>5 DEF a, b
      <4> QED
        BY <1>9, <1>11, <3>2, <4>1, <4>2
    <3>5. Entry(3, j)
      <4>1. Fits(LcVal(SumOfProducts(s, <<3>>, j), val), SumOfBounds(pr, m1, m2, <<3>>, j), (x[2][j] * y[2][j]) % Q)
        BY <1>10, <1>11, <3>2
      <4> QED
        BY <1>9, <1>11, <3>2, <4>1
    <3> QED
      BY <3>3, <3>4, <3>5
  <2> QED
    BY <2>1, <2>2 DEF Quadratic
<1>12. ASSUME NEW i \in 1 .. 3, NEW j \in Limbs
       PROVE  Fits(LcVal(mr.lc[i][j], val), mr.max_value[i][j], z[i][j])
  <2>1. Entry(i, j)
    <3> HIDE DEF Entry
    <3>1. i = 1 \/ i = 2 \/ i = 3
      BY <1>12
    <3> QED
      BY <1>11, <1>12, <3>1
  <2>2. z[i][j] = Convolved(x, y, i, j) % Q
    BY <1>3, <1>12
  <2>3. /\ mr.lc[i][j] = SumOfProducts(s, Sums(op)[i], j)
        /\ mr.max_value[i][j] = SumOfBounds(pr, m1, m2, Sums(op)[i], j)
    BY <1>12 DEF QuadraticShape
  <2> HIDE DEF z
  <2> QED
    BY <2>1, <2>2, <2>3
<1> HIDE DEF z
<1> QED
  BY <1>1, <1>4, <1>12 DEF Agrees, z

-----------------------------------------------------------------------------
(* What the calls of a generation left behind                                *)

GadgetsOf(N, p, o, n) == o[Object(N, p, n)].constraint.witness.gadgets

\* The variables of a declaration are the first ones after s, in the order of
\* the coefficients.
DeclaredShape(m, l, s, nv) ==
  /\ l \in Nat /\ s + l * NumLimbs <= nv
  /\ m.witness = WitnessMeta(s + 1, <<>>)
  /\ NumPolys(m) = l
  /\ \A i \in 1 .. l, j \in Limbs : m.lc[i][j] = Var(VariableAt(s, i, j)) /\ m.max_value[i][j] = Q - 1

\* An operation left what its constraint makes of its operands.
OperatedShape(op, m1, m2, s, nv, m) ==
  /\ OperandsFit(op, m1, m2) /\ FieldHasRoom(m)
  /\ op \in Linear => LinearShape(op, m1, m2, m) /\ m.witness.gadgets = <<>>
  /\ op \in Quadratic => /\ QuadraticShape(op, m1, m2, s, m)
                         /\ s + Len(Products(op)) * NumLimbs <= nv
                         /\ m.witness.gadgets = ProductGadgets(Products(op), m1, m2, s)

ShapeOK(N, p, o, n, s, nv) ==
  LET m == o[Object(N, p, n)].constraint
  IN  IF IsPublic(p, n) THEN DeclaredShape(m, Len(o[Object(N, p, n)].content), s, nv)
      ELSE OperatedShape(p[n].op, o[ArgOf(p, n, 1)].constraint, o[ArgOf(p, n, 2)].constraint, s, nv, m)

\* All that was there before a call is over the first s variables, and what the
\* call made is over later ones.
Layer(N, p, o, n, s, nv) ==
  /\ s \in Nat /\ s <= nv
  /\ \A k : UsableAt(N, p, k, n) => IsMeta(o[k].constraint, s)
  /\ \A m \in 1 .. (n - 1) : GadgetsOf(N, p, o, m) \in Seq(Gadgets(s))
  /\ ShapeOK(N, p, o, n, s, nv)

FiledIs(N, p, o, w, n) == w[Wire(p, o, n)] = o[Object(N, p, n)].constraint.witness

TracedTo(N, p, o, w, nv, l) ==
  \A n \in 1 .. l : FiledIs(N, p, o, w, n) /\ \E s \in Nat : Layer(N, p, o, n, s, nv)

Traced(N, p, o, w, nv) == TracedTo(N, p, o, w, nv, Len(p))

SameFiled(p, o, w, x) == \A m \in 1 .. Len(p) : x[Wire(p, o, m)] = w[Wire(p, o, m)]

SameTrace(o, s, k) == /\ s[k].constraint = o[k].constraint
                      /\ s[k].wire = o[k].wire
                      /\ Len(s[k].content) = Len(o[k].content)

Counted(N, p, n) ==
  /\ n - 1 \in Nat /\ n \in Nat /\ n + 1 - 1 = n
  /\ Made(N, p, n - 1) \in Nat /\ Made(N, p, n) \in Nat /\ N <= Made(N, p, n - 1)
  /\ Made(N, p, n) = IF IsPublic(p, n) THEN Made(N, p, n - 1) ELSE Made(N, p, n - 1) + 1

\* The objects made by a call.
LEMMA MadeBy ==
  ASSUME NEW N \in Nat, NEW p, NEW n \in Nat, n >= 1
  PROVE  Counted(N, p, n)
<1>1. n - 1 \in Nat /\ (n - 1) + 1 = n /\ n + 1 - 1 = n
  OBVIOUS
<1>2. Ops(p, n - 1) \in Nat /\ Ops(p, n) \in Nat
      /\ Ops(p, n) = IF p[n].op # "Public" THEN Ops(p, n - 1) + 1 ELSE Ops(p, n - 1)
  <2> DEFINE m == n - 1
  <2>1. m \in Nat /\ m + 1 = n
    BY <1>1
  <2> HIDE DEF m
  <2>2. /\ Ops(p, m) \in Nat
        /\ Ops(p, m + 1) = IF p[m + 1].op # "Public" THEN Ops(p, m) + 1 ELSE Ops(p, m)
    BY <2>1, OpsCount
  <2> QED
    BY <2>1, <2>2 DEF m
<1> QED
  BY <1>1, <1>2 DEF Counted, Made, IsPublic

\* A call knows what it made and all that was known before, and nothing else.
LEMMA CallKnows ==
  ASSUME NEW N \in Nat, NEW p, NEW n \in Nat, n >= 1, CallOK(N, p, n)
  PROVE  /\ UsableAt(N, p, Object(N, p, n), n + 1)
         /\ \A k : UsableAt(N, p, k, n + 1) <=> UsableAt(N, p, k, n) \/ k = Object(N, p, n)
         /\ ~IsPublic(p, n) => /\ UsableAt(N, p, ArgOf(p, n, 1), n) /\ UsableAt(N, p, ArgOf(p, n, 2), n)
                               /\ Object(N, p, n) = Made(N, p, n - 1) + 1
                               /\ ~UsableAt(N, p, Object(N, p, n), n)
<1> DEFINE a == Made(N, p, n - 1)
           b == Made(N, p, n)
           k0 == Object(N, p, n)
<1>1. /\ n - 1 \in Nat /\ n \in Nat /\ n + 1 - 1 = n
      /\ a \in Nat /\ b \in Nat /\ N <= a
      /\ b = IF IsPublic(p, n) THEN a ELSE a + 1
  BY MadeBy DEF Counted
<1>2. \A k : DeclaredBefore(p, k, n + 1) <=> DeclaredBefore(p, k, n) \/ (IsPublic(p, n) /\ ArgOf(p, n, 1) = k)
  <2>1. \A m : m \in 1 .. (n + 1 - 1) <=> m \in 1 .. (n - 1) \/ m = n
    BY <1>1
  <2> QED
    BY <2>1 DEF DeclaredBefore
<1>3. \A k : UsableAt(N, p, k, n) <=> k \in 1 .. a /\ (k \in 1 .. N => DeclaredBefore(p, k, n))
  BY DEF UsableAt
<1>4. \A k : UsableAt(N, p, k, n + 1) <=> k \in 1 .. b /\ (k \in 1 .. N => DeclaredBefore(p, k, n + 1))
  BY <1>1 DEF UsableAt
<1>5. CASE IsPublic(p, n)
  <2>1. k0 = ArgOf(p, n, 1) /\ k0 \in 1 .. N
    BY <1>5 DEF Object, CallOK, DeclarationOK
  <2> HIDE DEF a, b, k0
  <2>2. \A k : UsableAt(N, p, k, n + 1) <=> UsableAt(N, p, k, n) \/ k = k0
    BY <1>1, <1>2, <1>3, <1>4, <1>5, <2>1
  <2> QED
    BY <1>5, <2>2 DEF k0
<1>6. CASE ~IsPublic(p, n)
  <2>1. k0 = b /\ UsableAt(N, p, ArgOf(p, n, 1), n) /\ UsableAt(N, p, ArgOf(p, n, 2), n)
    BY <1>6 DEF Object, CallOK, OperationOK
  <2>2. k0 = a + 1 /\ b = a + 1
    BY <1>1, <1>6, <2>1
  <2> HIDE DEF a, b, k0
  <2>3. k0 \notin 1 .. N /\ k0 \notin 1 .. a /\ \A k : k \in 1 .. b <=> k \in 1 .. a \/ k = k0
    BY <1>1, <2>2
  <2>4. \A k : UsableAt(N, p, k, n + 1) <=> UsableAt(N, p, k, n) \/ k = k0
    BY <1>2, <1>3, <1>4, <1>6, <2>3
  <2>5. ~UsableAt(N, p, k0, n)
    BY <1>3, <2>3
  <2> QED
    BY <1>6, <2>1, <2>2, <2>4, <2>5 DEF k0, a
<1> QED
  BY <1>5, <1>6

\* What is usable stays so.
LEMMA UsableGrow ==
  ASSUME NEW N \in Nat, NEW p, NEW m \in Nat, NEW n \in Nat, m <= n, m >= 1, NEW k, UsableAt(N, p, k, m)
  PROVE  UsableAt(N, p, k, n)
<1>1. m - 1 \in 0 .. (n - 1) /\ n - 1 \in Nat
  OBVIOUS
<1>2. Made(N, p, m - 1) \in Nat /\ Made(N, p, n - 1) \in Nat /\ Made(N, p, m - 1) <= Made(N, p, n - 1)
  BY <1>1, MadeGrow
<1>3. \A i \in 1 .. (m - 1) : i \in 1 .. (n - 1)
  OBVIOUS
<1>4. DeclaredBefore(p, k, m) => DeclaredBefore(p, k, n)
  BY <1>3 DEF DeclaredBefore
<1>5. k \in 1 .. Made(N, p, m - 1) /\ (k \in 1 .. N => DeclaredBefore(p, k, m))
  BY DEF UsableAt
<1>6. k \in 1 .. Made(N, p, n - 1)
  BY <1>2, <1>5
<1> QED
  BY <1>4, <1>5, <1>6 DEF UsableAt

\* The first n calls of both are the same.
Begins(p, q, n) == \A m \in 1 .. n : q[m] = p[m]

\* The calls of a longer program are the same calls.
LEMMA CallAgrees ==
  ASSUME NEW N \in Nat, NEW p, NEW q, NEW n \in Nat, n >= 1, Begins(p, q, n)
  PROVE  /\ IsPublic(q, n) <=> IsPublic(p, n)
         /\ \A a : ArgOf(q, n, a) = ArgOf(p, n, a)
         /\ p[n].op = q[n].op
         /\ Object(N, q, n) = Object(N, p, n)
         /\ \A k : UsableAt(N, q, k, n) <=> UsableAt(N, p, k, n)
         /\ Pubs(q, n) = Pubs(p, n)
<1>1. q[n] = p[n]
  BY DEF Begins
<1>2. \A m \in 1 .. n : q[m] = p[m]
  BY DEF Begins
<1>3. /\ \A k : UsableAt(N, p, k, n) <=> UsableAt(N, q, k, n)
      /\ Made(N, p, n) = Made(N, q, n) /\ Pubs(p, n) = Pubs(q, n)
  BY <1>2, CallSame, ZenonT(60)
<1>4. Object(N, q, n) = Object(N, p, n)
  BY <1>1, <1>3 DEF Object, IsPublic, ArgOf
<1> QED
  BY <1>1, <1>3, <1>4 DEF IsPublic, ArgOf

\* In particular they are about the same objects.
LEMMA ObjectAgrees ==
  ASSUME NEW N \in Nat, NEW p, NEW q, NEW n \in Nat, Begins(p, q, n), NEW m \in 1 .. n
  PROVE  Begins(p, q, m) /\ m \in Nat /\ m >= 1 /\ Object(N, q, m) = Object(N, p, m)
<1>1. m \in Nat /\ m >= 1 /\ Begins(p, q, m)
  BY DEF Begins
<1> QED
  BY <1>1, CallAgrees

\* All that call n may use has kept what was recorded of it.
Keeps(N, p, o, s, n) == \A k : UsableAt(N, p, k, n) => SameTrace(o, s, k)

\* The shape of what a call left stays right in a longer program, when no
\* metadata changed and no length.
LEMMA ShapeStays ==
  ASSUME NEW N \in Nat, NEW p, NEW q, NEW o, NEW s, NEW n \in Nat, n >= 1,
         Begins(p, q, n), CallOK(N, p, n),
         Keeps(N, p, o, s, n + 1),
         NEW nv \in Int, NEW nx \in Int, nv <= nx, NEW h \in Nat, ShapeOK(N, p, o, n, h, nv)
  PROVE  ShapeOK(N, q, s, n, h, nx) /\ Wire(q, s, n) = Wire(p, o, n)
<1> DEFINE k == Object(N, p, n)
           a == ArgOf(p, n, 1)
           b == ArgOf(p, n, 2)
           op == p[n].op
<1>1. /\ IsPublic(q, n) <=> IsPublic(p, n)
      /\ ArgOf(q, n, 1) = a /\ ArgOf(q, n, 2) = b
      /\ q[n].op = op /\ Object(N, q, n) = k
  BY CallAgrees
<1>2. UsableAt(N, p, k, n + 1) /\ (~IsPublic(p, n) => UsableAt(N, p, a, n + 1) /\ UsableAt(N, p, b, n + 1))
  BY CallKnows
<1>3. SameTrace(o, s, k) /\ (~IsPublic(p, n) => SameTrace(o, s, a) /\ SameTrace(o, s, b))
  BY <1>2 DEF Keeps
<1>4. NumLimbs \in Nat
  BY SizeFacts
<1>5. Pubs(q, n) = Pubs(p, n)
  BY CallAgrees
<1> HIDE DEF k, a, b, op
<1>6. CASE IsPublic(p, n)
  <2> DEFINE m == o[k].constraint
             l == Len(o[k].content)
  <2>1. DeclaredShape(m, l, h, nv)
    BY <1>6 DEF ShapeOK, k
  <2>2. s[k].constraint = m /\ Len(s[k].content) = l
    BY <1>3 DEF SameTrace
  <2> HIDE DEF m, l
  <2>3. l \in Nat /\ h + l * NumLimbs <= nv
    BY <2>1 DEF DeclaredShape
  <2>4. h + l * NumLimbs <= nx
    <3> DEFINE c == l * NumLimbs
    <3>1. c \in Int /\ h + c <= nv
      BY <1>4, <2>3
    <3> HIDE DEF c
    <3>2. h + c <= nx
      BY <3>1
    <3> QED
      BY <3>2 DEF c
  <2>5. DeclaredShape(m, l, h, nx)
    BY <2>1, <2>4 DEF DeclaredShape
  <2>6. ShapeOK(N, q, s, n, h, nx)
    BY <1>1, <1>6, <2>2, <2>5 DEF ShapeOK
  <2>7. Wire(q, s, n) = Wire(p, o, n)
    BY <1>1, <1>5, <1>6 DEF Wire
  <2> QED
    BY <2>6, <2>7
<1>7. CASE ~IsPublic(p, n)
  <2> DEFINE m == o[k].constraint
             m1 == o[a].constraint
             m2 == o[b].constraint
  <2>1. OperatedShape(op, m1, m2, h, nv, m)
    BY <1>7 DEF ShapeOK, k, a, b, op
  <2>2. s[k].constraint = m /\ s[a].constraint = m1 /\ s[b].constraint = m2
        /\ s[a].wire = o[a].wire /\ s[b].wire = o[b].wire
    BY <1>3, <1>7 DEF SameTrace
  <2> HIDE DEF m, m1, m2
  <2>3. ASSUME op \in Quadratic, h + Len(Products(op)) * NumLimbs <= nv
        PROVE  h + Len(Products(op)) * NumLimbs <= nx
    <3> DEFINE l == Len(Products(op))
               c == l * NumLimbs
    <3>1. l \in Nat
      BY <2>3, ProductShape
    <3>2. c \in Int /\ h + c <= nv
      BY <1>4, <2>3, <3>1
    <3> HIDE DEF c
    <3>3. h + c <= nx
      BY <3>2
    <3> QED
      BY <3>3 DEF c
  <2>4. OperatedShape(op, m1, m2, h, nx, m)
    BY <2>1, <2>3 DEF OperatedShape
  <2>5. ShapeOK(N, q, s, n, h, nx)
    BY <1>1, <1>7, <2>2, <2>4 DEF ShapeOK
  <2>6. Wire(q, s, n) = OpWire(op, s[a].wire, s[b].wire) /\ Wire(p, o, n) = OpWire(op, o[a].wire, o[b].wire)
    BY <1>1, <1>7 DEF Wire, op, a, b
  <2> QED
    BY <2>2, <2>5, <2>6
<1> QED
  BY <1>6, <1>7

\* So do all the calls of a program and what is filed for them.
LEMMA TracedStays ==
  ASSUME NEW N \in Nat, NEW p, IsSeq(p), NEW q, NEW o, NEW s, NEW w, NEW x,
         Begins(p, q, Len(p)),
         NEW nv \in Int, NEW nx \in Int, nv <= nx,
         CallsOK(N, p, o, w, nv), Traced(N, p, o, w, nv),
         Keeps(N, p, o, s, Len(p) + 1),
         SameFiled(p, o, w, x)
  PROVE  TracedTo(N, q, s, x, nx, Len(p))
<1> SUFFICES ASSUME NEW n \in 1 .. Len(p)
             PROVE  FiledIs(N, q, s, x, n) /\ \E h \in Nat : Layer(N, q, s, n, h, nx)
  BY DEF TracedTo
<1>1. Len(p) \in Nat /\ n \in Nat /\ n >= 1 /\ n <= Len(p) /\ n + 1 \in Nat /\ Len(p) + 1 \in Nat
      /\ n + 1 <= Len(p) + 1 /\ n + 1 >= 1 /\ n <= Len(p) + 1
  BY DEF IsSeq
<1>2. Begins(p, q, n) /\ \A m \in 1 .. n : m \in 1 .. Len(p)
  BY <1>1, ObjectAgrees
<1>3. \A m \in 1 .. Len(p) : CallOK(N, p, m)
  BY DEF CallsOK
<1>4. Keeps(N, p, o, s, n + 1)
  <2> SUFFICES ASSUME NEW k, UsableAt(N, p, k, n + 1) PROVE SameTrace(o, s, k)
    BY DEF Keeps
  <2>1. UsableAt(N, p, k, Len(p) + 1)
    BY <1>1, UsableGrow
  <2> QED
    BY <2>1 DEF Keeps
<1>5. PICK h \in Nat : Layer(N, p, o, n, h, nv)
  BY DEF Traced, TracedTo
<1>6. h <= nv /\ ShapeOK(N, p, o, n, h, nv)
  BY <1>5 DEF Layer
<1>7. ShapeOK(N, q, s, n, h, nx) /\ Wire(q, s, n) = Wire(p, o, n)
  <2>1. n \in Nat /\ n >= 1 /\ Begins(p, q, n) /\ CallOK(N, p, n)
        /\ nv <= nx /\ h \in Nat /\ ShapeOK(N, p, o, n, h, nv)
    BY <1>1, <1>2, <1>3, <1>6
  <2> QED
    BY <1>4, <2>1, ShapeStays
<1>8. \A m \in 1 .. n : Object(N, q, m) = Object(N, p, m) /\ SameTrace(o, s, Object(N, p, m))
  <2> SUFFICES ASSUME NEW m \in 1 .. n
               PROVE  Object(N, q, m) = Object(N, p, m) /\ SameTrace(o, s, Object(N, p, m))
    OBVIOUS
  <2>1. m \in Nat /\ m >= 1 /\ CallOK(N, p, m) /\ m + 1 \in Nat /\ m + 1 <= n + 1 /\ m + 1 >= 1
    BY <1>1, <1>2, <1>3
  <2>2. UsableAt(N, p, Object(N, p, m), m + 1)
    BY <2>1, CallKnows
  <2>3. UsableAt(N, p, Object(N, p, m), n + 1)
    BY <1>1, <2>1, <2>2, UsableGrow
  <2>5. Object(N, q, m) = Object(N, p, m)
    BY <1>1, <1>2, ObjectAgrees
  <2> QED
    BY <1>4, <2>3, <2>5 DEF Keeps
<1>9. \A m \in 1 .. (n - 1) : GadgetsOf(N, q, s, m) \in Seq(Gadgets(h))
  <2> SUFFICES ASSUME NEW m \in 1 .. (n - 1) PROVE GadgetsOf(N, q, s, m) \in Seq(Gadgets(h))
    OBVIOUS
  <2>1. m \in 1 .. n
    BY <1>1
  <2>2. GadgetsOf(N, p, o, m) \in Seq(Gadgets(h))
    BY <1>5 DEF Layer
  <2> QED
    BY <1>8, <2>1, <2>2 DEF GadgetsOf, SameTrace
<1>10. \A k : UsableAt(N, q, k, n) => IsMeta(s[k].constraint, h)
  <2> SUFFICES ASSUME NEW k, UsableAt(N, q, k, n) PROVE IsMeta(s[k].constraint, h)
    OBVIOUS
  <2>1. UsableAt(N, p, k, n)
    BY <1>1, <1>2, CallAgrees
  <2>2. UsableAt(N, p, k, n + 1)
    BY <1>1, <1>3, <2>1, CallKnows
  <2>3. IsMeta(o[k].constraint, h)
    BY <1>5, <2>1 DEF Layer
  <2> QED
    BY <1>4, <2>2, <2>3 DEF SameTrace, Keeps
<1>11. Layer(N, q, s, n, h, nx)
  <2>1. h \in Nat /\ h <= nx
    BY <1>6
  <2> QED
    BY <1>7, <1>9, <1>10, <2>1 DEF Layer
<1>12. FiledIs(N, q, s, x, n)
  <2>1. w[Wire(p, o, n)] = o[Object(N, p, n)].constraint.witness
    BY DEF Traced, TracedTo, FiledIs
  <2>2. n \in 1 .. n
    BY <1>1
  <2>3. x[Wire(q, s, n)] = w[Wire(p, o, n)]
    BY <1>7 DEF SameFiled
  <2>4. s[Object(N, q, n)].constraint = o[Object(N, p, n)].constraint
    BY <1>8, <2>2 DEF SameTrace
  <2> QED
    BY <2>1, <2>3, <2>4 DEF FiledIs
<1> QED
  BY <1>11, <1>12

-----------------------------------------------------------------------------
(* Different calls have different wire ids if no call is repeated            *)

\* Whatever is usable was made by a call.
LEMMA CallOfObject ==
  ASSUME NEW N \in Nat, NEW p, NEW l \in Nat, NEW k, UsableAt(N, p, k, l + 1)
  PROVE  \E m \in 1 .. l : Object(N, p, m) = k
<1>1. l + 1 - 1 = l
  OBVIOUS
<1>2. k \in 1 .. Made(N, p, l) /\ (k \in 1 .. N => DeclaredBefore(p, k, l + 1))
  BY <1>1 DEF UsableAt
<1>3. CASE k \in 1 .. N
  <2>1. PICK m \in 1 .. l : IsPublic(p, m) /\ ArgOf(p, m, 1) = k
    BY <1>1, <1>2, <1>3 DEF DeclaredBefore
  <2> QED
    BY <2>1 DEF Object
<1>4. CASE k \notin 1 .. N
  <2> DEFINE T == {n \in 0 .. l : k <= Made(N, p, n)}
  <2>1. Made(N, p, l) \in Nat /\ k \in Nat /\ k >= 1 /\ k <= Made(N, p, l)
    <3>1. Made(N, p, l) \in Nat
      BY MadeGrow
    <3> QED
      BY <1>2, <3>1
  <2>2. l \in T /\ T \in SUBSET Nat /\ T # {}
    BY <2>1
  <2>3. PICK m \in T : \A n \in T : m <= n
    <3> HIDE DEF T
    <3> QED
      BY <2>2, LeastNat
  <2>4. m \in 0 .. l /\ m \in Nat /\ k <= Made(N, p, m)
    BY <2>3
  <2>5. Made(N, p, 0) = N
    <3>1. Ops(p, 0) = 0
      BY OpsCount
    <3> QED
      BY <3>1 DEF Made
  <2>6. m # 0
    BY <1>4, <2>1, <2>4, <2>5
  <2>7. m >= 1 /\ m \in 1 .. l /\ m - 1 \in 0 .. l /\ m - 1 \in Nat
    BY <2>4, <2>6
  <2>8. /\ Made(N, p, m - 1) \in Nat /\ Made(N, p, m) \in Nat
        /\ Made(N, p, m) = IF IsPublic(p, m) THEN Made(N, p, m - 1) ELSE Made(N, p, m - 1) + 1
    BY <2>4, <2>7, MadeBy DEF Counted
  <2>9. ~(k <= Made(N, p, m - 1))
    <3>1. ~(m <= m - 1)
      BY <2>4
    <3> QED
      BY <2>3, <2>7, <3>1
  <2>10. ~IsPublic(p, m) /\ k = Made(N, p, m)
    BY <2>1, <2>4, <2>8, <2>9
  <2> QED
    BY <2>7, <2>10 DEF Object
<1> QED
  BY <1>3, <1>4

Apart(p, o) == \A m, n \in 1 .. Len(p) : Wire(p, o, m) = Wire(p, o, n) => m = n

\* Then usable objects have different wire ids too.
LEMMA ObjectsApart ==
  ASSUME NEW N \in Nat, NEW p, IsSeq(p), NEW o, NEW w, NEW nv, CallsOK(N, p, o, w, nv), Apart(p, o),
         NEW k, NEW j, UsableAt(N, p, k, Len(p) + 1), UsableAt(N, p, j, Len(p) + 1), o[k].wire = o[j].wire
  PROVE  k = j
<1>1. Len(p) \in Nat
  BY DEF IsSeq
<1>2. PICK m \in 1 .. Len(p) : Object(N, p, m) = k
  BY <1>1, CallOfObject
<1>3. PICK n \in 1 .. Len(p) : Object(N, p, n) = j
  BY <1>1, CallOfObject
<1>4. o[k].wire = Wire(p, o, m) /\ o[j].wire = Wire(p, o, n)
  BY <1>2, <1>3 DEF CallsOK, WireOK
<1> QED
  BY <1>2, <1>3, <1>4 DEF Apart

\* The wire id of a declaration is new.
LEMMA DeclarationFresh ==
  ASSUME NEW N \in Nat, NEW p, IsSeq(p), NEW o, NEW w, NEW nv, CallsOK(N, p, o, w, nv)
  PROVE  \A m \in 1 .. Len(p) : Wire(p, o, m) # PublicWire(Pubs(p, Len(p)))
<1> SUFFICES ASSUME NEW m \in 1 .. Len(p) PROVE Wire(p, o, m) # PublicWire(Pubs(p, Len(p)))
  OBVIOUS
<1>1. Len(p) \in Nat /\ m \in Nat /\ m \in 0 .. Len(p)
  BY DEF IsSeq
<1>2. Pubs(p, m) \in Nat /\ Pubs(p, Len(p)) \in Nat /\ Pubs(p, m) <= Pubs(p, Len(p))
  <2>1. Pubs(p, m) \in Nat /\ Pubs(p, m) <= Pubs(p, Len(p))
    BY <1>1, OpsGrow
  <2>2. Len(p) \in 0 .. Len(p)
    BY <1>1
  <2>3. Pubs(p, Len(p)) \in Nat
    BY <1>1, <2>2, OpsGrow
  <2> QED
    BY <2>1, <2>3
<1>3. CASE IsPublic(p, m)
  <2> DEFINE a == Pubs(p, m) - 1
             b == Pubs(p, Len(p))
  <2>1. a # b
    BY <1>2
  <2> HIDE DEF a, b
  <2>2. PublicWire(a) # PublicWire(b)
    BY <2>1 DEF PublicWire
  <2> QED
    BY <1>3, <2>2 DEF Wire, a, b
<1>4. CASE ~IsPublic(p, m)
  <2>1. p[m].op \in Linear \cup Quadratic
    BY <1>4 DEF CallsOK, CallOK, OperationOK
  <2> QED
    BY <1>4, <2>1, WiresApart DEF Wire
<1> QED
  BY <1>3, <1>4

\* Wire ids of operations name the operation and the operands.
LEMMA OpWiresApart ==
  ASSUME NEW op, NEW u, NEW v, NEW op2, NEW u2, NEW v2, OpWire(op, u, v) = OpWire(op2, u2, v2)
  PROVE  op = op2 /\ u = u2 /\ (op # "Square" => v = v2)
<1>1. CASE op = "Square" /\ op2 = "Square"
  BY <1>1 DEF OpWire
<1>2. CASE op # "Square" /\ op2 # "Square"
  BY <1>2 DEF OpWire
<1>3. \A a, b, c, d, e : <<a, b>> # <<c, d, e>>
  OBVIOUS
<1>4. CASE op = "Square" /\ op2 # "Square"
  BY <1>3, <1>4 DEF OpWire
<1>5. CASE op # "Square" /\ op2 = "Square"
  BY <1>3, <1>5 DEF OpWire
<1> QED
  BY <1>1, <1>2, <1>4, <1>5

\* So is that of an operation that is not repeated.
LEMMA OperationFresh ==
  ASSUME NEW N \in Nat, NEW p, IsSeq(p), NEW o, NEW w, NEW nv, CallsOK(N, p, o, w, nv), Apart(p, o),
         NEW op \in Linear \cup Quadratic, NEW k, NEW j, op = "Square" => k = j,
         UsableAt(N, p, k, Len(p) + 1), UsableAt(N, p, j, Len(p) + 1),
         \A n \in 1 .. Len(p) : p[n] # [op |-> op, args |-> <<k, j>>]
  PROVE  \A m \in 1 .. Len(p) : Wire(p, o, m) # OpWire(op, o[k].wire, o[j].wire)
<1> SUFFICES ASSUME NEW m \in 1 .. Len(p), Wire(p, o, m) = OpWire(op, o[k].wire, o[j].wire) PROVE FALSE
  OBVIOUS
<1> DEFINE a == ArgOf(p, m, 1)
           b == ArgOf(p, m, 2)
<1>1. Len(p) \in Nat /\ m \in Nat /\ m >= 1 /\ m <= Len(p) + 1 /\ Len(p) + 1 \in Nat
  BY DEF IsSeq
<1>2. ~IsPublic(p, m)
  BY WiresApart DEF Wire
<1>3. OperationOK(N, p, m)
  BY <1>2 DEF CallsOK, CallOK
<1>4. /\ p[m] = [op |-> p[m].op, args |-> <<a, b>>]
      /\ p[m].op = "Square" => a = b
      /\ UsableAt(N, p, a, m) /\ UsableAt(N, p, b, m)
  BY <1>3 DEF OperationOK
<1>5. Wire(p, o, m) = OpWire(p[m].op, o[a].wire, o[b].wire)
  BY <1>2 DEF Wire
<1> HIDE DEF a, b
<1>6. UsableAt(N, p, a, Len(p) + 1) /\ UsableAt(N, p, b, Len(p) + 1)
  BY <1>1, <1>4, UsableGrow
<1>7. p[m].op = op /\ o[a].wire = o[k].wire /\ (op # "Square" => o[b].wire = o[j].wire)
  <2> DEFINE u == o[a].wire
             v == o[b].wire
             u2 == o[k].wire
             v2 == o[j].wire
             h == p[m].op
  <2>1. OpWire(h, u, v) = OpWire(op, u2, v2)
    BY <1>5
  <2> HIDE DEF u, v, u2, v2, h
  <2>2. h = op /\ u = u2 /\ (h # "Square" => v = v2)
    BY <2>1, OpWiresApart
  <2> QED
    BY <2>2 DEF u, v, u2, v2, h
<1>8. a = k
  BY <1>6, <1>7, ObjectsApart
<1>9. b = j
  <2>1. CASE op = "Square"
    BY <1>4, <1>7, <1>8, <2>1
  <2>2. CASE op # "Square"
    BY <1>6, <1>7, <2>2, ObjectsApart
  <2> QED
    BY <2>1, <2>2
<1> QED
  BY <1>4, <1>7, <1>8, <1>9

-----------------------------------------------------------------------------
(* A call is appended                                                        *)

\* The gadgets of all calls are over the variables there are.
LEMMA GadgetsOver ==
  ASSUME NEW N \in Nat, NEW p, NEW o, NEW w, NEW nv, CallsOK(N, p, o, w, nv), Traced(N, p, o, w, nv)
  PROVE  \A m \in 1 .. Len(p) : GadgetsOf(N, p, o, m) \in Seq(Gadgets(nv))
<1> SUFFICES ASSUME NEW m \in 1 .. Len(p) PROVE GadgetsOf(N, p, o, m) \in Seq(Gadgets(nv))
  OBVIOUS
<1>1. CASE IsPublic(p, m)
  <2>1. PICK h \in Nat : Layer(N, p, o, m, h, nv)
    BY DEF Traced, TracedTo
  <2>2. o[Object(N, p, m)].constraint.witness = WitnessMeta(h + 1, <<>>)
    BY <1>1, <2>1 DEF Layer, ShapeOK, DeclaredShape
  <2>3. GadgetsOf(N, p, o, m) = <<>>
    BY <2>2 DEF GadgetsOf, WitnessMeta
  <2> QED
    BY <2>3, NoGadgets
<1>2. CASE ~IsPublic(p, m)
  <2>1. w[Wire(p, o, m)].gadgets \in Seq(Gadgets(nv))
    BY <1>2 DEF CallsOK, WireOK, FiledOK
  <2>2. w[Wire(p, o, m)] = o[Object(N, p, m)].constraint.witness
    BY DEF Traced, TracedTo, FiledIs
  <2> QED
    BY <2>1, <2>2 DEF GadgetsOf
<1> QED
  BY <1>1, <1>2

\* So is what is recorded of all they may use.
LEMMA MetasOver ==
  ASSUME NEW N \in Nat, NEW p, NEW o, NEW nv, MetasOK(N, p, o, nv), Len(p) \in Nat,
         Len(o) \in Nat, Len(o) >= Made(N, p, Len(p)),
         NEW k, UsableAt(N, p, k, Len(p) + 1)
  PROVE  IsMeta(o[k].constraint, nv) /\ k \in 1 .. Len(o)
<1>1. Len(p) + 1 - 1 = Len(p)
  OBVIOUS
<1>2. k \in 1 .. Made(N, p, Len(p)) /\ Usable(N, p, k)
  BY <1>1 DEF UsableAt, Usable, IsDeclared
<1>3. Made(N, p, Len(p)) \in Nat
  BY MadeGrow
<1>4. k \in 1 .. Len(o)
  BY <1>2, <1>3
<1> QED
  BY <1>2, <1>4 DEF MetasOK

SameCall(N, p, q, o, s, m) ==
  /\ Object(N, q, m) = Object(N, p, m)
  /\ s[Object(N, p, m)].constraint = o[Object(N, p, m)].constraint
  /\ GadgetsOf(N, q, s, m) = GadgetsOf(N, p, o, m)
  /\ Wire(q, s, m) = Wire(p, o, m)

\* Calls are the same in a longer program when their objects keep what is
\* recorded of them.
LEMMA CallsKept ==
  ASSUME NEW N \in Nat, NEW p, IsSeq(p), NEW q, NEW o, NEW s, NEW w, NEW nv, CallsOK(N, p, o, w, nv),
         Begins(p, q, Len(p)), Keeps(N, p, o, s, Len(p) + 1)
  PROVE  \A m \in 1 .. Len(p) : SameCall(N, p, q, o, s, m)
<1> SUFFICES ASSUME NEW m \in 1 .. Len(p) PROVE SameCall(N, p, q, o, s, m)
  OBVIOUS
<1> DEFINE k == Object(N, p, m)
           a == ArgOf(p, m, 1)
           b == ArgOf(p, m, 2)
<1>1. Len(p) \in Nat /\ m \in Nat /\ m >= 1 /\ m + 1 \in Nat /\ m + 1 >= 1 /\ m + 1 <= Len(p) + 1
      /\ Len(p) + 1 \in Nat
  BY DEF IsSeq
<1>2. CallOK(N, p, m)
  BY DEF CallsOK
<1>3. Begins(p, q, m) /\ Object(N, q, m) = k
  BY <1>1, ObjectAgrees
<1>4. UsableAt(N, p, k, m + 1) /\ (~IsPublic(p, m) => UsableAt(N, p, a, m + 1) /\ UsableAt(N, p, b, m + 1))
  BY <1>1, <1>2, CallKnows
<1>5. \A j : UsableAt(N, p, j, m + 1) => UsableAt(N, p, j, Len(p) + 1)
  BY <1>1, UsableGrow
<1>6. SameTrace(o, s, k) /\ (~IsPublic(p, m) => SameTrace(o, s, a) /\ SameTrace(o, s, b))
  BY <1>4, <1>5 DEF Keeps
<1>7. /\ IsPublic(q, m) <=> IsPublic(p, m)
      /\ ArgOf(q, m, 1) = a /\ ArgOf(q, m, 2) = b /\ p[m].op = q[m].op
      /\ Pubs(q, m) = Pubs(p, m)
  BY <1>1, <1>3, CallAgrees
<1> HIDE DEF k, a, b
<1>8. Wire(q, s, m) = Wire(p, o, m)
  <2>1. CASE IsPublic(p, m)
    BY <1>7, <2>1 DEF Wire
  <2>2. CASE ~IsPublic(p, m)
    <3>1. s[a].wire = o[a].wire /\ s[b].wire = o[b].wire
      BY <1>6, <2>2 DEF SameTrace
    <3> QED
      BY <1>7, <2>2, <3>1 DEF Wire, a, b
  <2> QED
    BY <2>1, <2>2
<1> QED
  BY <1>3, <1>6, <1>8 DEF SameCall, GadgetsOf, SameTrace, k

\* What a call left has the shape it should have after any number of later ones.
LEMMA TraceAppended ==
  ASSUME NEW N \in Nat, NEW p, IsSeq(p), NEW c, NEW q, AppendsCall(p, q, c),
         NEW o, NEW s, NEW w, NEW x, NEW nv \in Nat, NEW nx \in Nat, nv <= nx,
         CallsOK(N, p, o, w, nv), Traced(N, p, o, w, nv), MetasOK(N, p, o, nv),
         Len(o) \in Nat, Len(o) >= Made(N, p, Len(p)),
         Keeps(N, p, o, s, Len(p) + 1), SameFiled(p, o, w, x),
         FiledIs(N, q, s, x, Len(p) + 1), ShapeOK(N, q, s, Len(p) + 1, nv, nx)
  PROVE  Traced(N, q, s, x, nx)
<1> DEFINE l == Len(p) + 1
<1>1. /\ Len(p) \in Nat /\ l \in Nat /\ l >= 1 /\ Len(q) = l
      /\ \A n \in 1 .. Len(q) : n \in 1 .. Len(p) \/ n = l
  BY DEF AppendsCall
<1>2. Begins(p, q, Len(p))
  BY DEF AppendsCall, Begins
<1>3. TracedTo(N, q, s, x, nx, Len(p))
  <2> HIDE DEF l
  <2> QED
    BY <1>2, TracedStays
<1>4. \A m \in 1 .. Len(p) : SameCall(N, p, q, o, s, m)
  BY <1>2, CallsKept
<1>5. \A m \in 1 .. (l - 1) : GadgetsOf(N, q, s, m) \in Seq(Gadgets(nv))
  <2> SUFFICES ASSUME NEW m \in 1 .. (l - 1) PROVE GadgetsOf(N, q, s, m) \in Seq(Gadgets(nv))
    OBVIOUS
  <2>1. m \in 1 .. Len(p)
    BY <1>1
  <2>2. GadgetsOf(N, p, o, m) \in Seq(Gadgets(nv))
    BY <2>1, GadgetsOver
  <2> QED
    BY <1>4, <2>1, <2>2 DEF SameCall
<1>6. \A k : UsableAt(N, q, k, l) => UsableAt(N, p, k, l)
  <2> SUFFICES ASSUME NEW k, UsableAt(N, q, k, l) PROVE UsableAt(N, p, k, l)
    OBVIOUS
  <2>1. l - 1 = Len(p)
    BY <1>1
  <2>2. Made(N, q, Len(p)) = Made(N, p, Len(p)) /\ (DeclaredBefore(q, k, l) <=> DeclaredBefore(p, k, l))
    BY DEF AppendsCall, IsDeclared
  <2> HIDE DEF l
  <2> QED
    BY <2>1, <2>2 DEF UsableAt
<1>7. \A k : UsableAt(N, q, k, l) => IsMeta(s[k].constraint, nv)
  <2> SUFFICES ASSUME NEW k, UsableAt(N, q, k, l) PROVE IsMeta(s[k].constraint, nv)
    OBVIOUS
  <2>1. UsableAt(N, p, k, Len(p) + 1)
    BY <1>6
  <2>2. IsMeta(o[k].constraint, nv)
    BY <1>1, <2>1, MetasOver
  <2>3. s[k].constraint = o[k].constraint
    BY <2>1 DEF Keeps, SameTrace
  <2> QED
    BY <2>2, <2>3
<1>8. Layer(N, q, s, l, nv, nx)
  BY <1>5, <1>7 DEF Layer
<1> HIDE DEF l
<1>9. FiledIs(N, q, s, x, l)
  BY DEF l
<1>10. ASSUME NEW n \in 1 .. Len(q)
       PROVE  FiledIs(N, q, s, x, n) /\ \E h \in Nat : Layer(N, q, s, n, h, nx)
  <2>1. CASE n = l
    BY <1>8, <1>9, <2>1
  <2>2. CASE n # l
    BY <1>1, <1>3, <2>2 DEF TracedTo
  <2> QED
    BY <2>1, <2>2
<1> QED
  BY <1>10 DEF Traced, TracedTo

\* A new wire id keeps the calls apart.
LEMMA ApartAppended ==
  ASSUME NEW N \in Nat, NEW p, NEW c, NEW q, AppendsCall(p, q, c), NEW o, NEW s, Apart(p, o),
         \A m \in 1 .. Len(p) : SameCall(N, p, q, o, s, m),
         \A m \in 1 .. Len(p) : Wire(p, o, m) # Wire(q, s, Len(p) + 1)
  PROVE  Apart(q, s)
<1> SUFFICES ASSUME NEW m \in 1 .. Len(q), NEW n \in 1 .. Len(q), Wire(q, s, m) = Wire(q, s, n)
             PROVE  m = n
  BY DEF Apart
<1>1. (m \in 1 .. Len(p) \/ m = Len(p) + 1) /\ (n \in 1 .. Len(p) \/ n = Len(p) + 1)
  BY DEF AppendsCall
<1>2. \A i \in 1 .. Len(p) : Wire(q, s, i) = Wire(p, o, i)
  BY DEF SameCall
<1> QED
  BY <1>1, <1>2 DEF Apart

\* What is filed under another wire id changes nothing that was filed.
LEMMA FiledKept ==
  ASSUME NEW N, NEW p, NEW o, NEW w, NEW nv, CallsOK(N, p, o, w, nv), NEW x, NEW u, Filed(w, x, u),
         \A m \in 1 .. Len(p) : Wire(p, o, m) # u
  PROVE  SameFiled(p, o, w, x)
BY DEF CallsOK, WireOK, Filed, SameFiled

-----------------------------------------------------------------------------
(* All constraints are those of the gadgets of some call                     *)

Complete(N, p, o, cs) ==
  \A e \in cs : \E m \in 1 .. Len(p) : \E i \in 1 .. Len(GadgetsOf(N, p, o, m)) :
    e = MulConstraint(GadgetsOf(N, p, o, m)[i])

\* A call adds those of its own gadgets.
LEMMA CompleteAppended ==
  ASSUME NEW N \in Nat, NEW p, NEW c, NEW q, AppendsCall(p, q, c), NEW o, NEW s, NEW cs,
         \A m \in 1 .. Len(p) : SameCall(N, p, q, o, s, m),
         Complete(N, p, o, cs), NEW g, g = GadgetsOf(N, q, s, Len(p) + 1), DOMAIN g = 1 .. Len(g),
         NEW ct, \A e \in ct : e \in cs \/ \E k \in DOMAIN g : e = MulConstraint(g[k])
  PROVE  Complete(N, q, s, ct)
<1> SUFFICES ASSUME NEW e \in ct
             PROVE  \E m \in 1 .. Len(q) : \E i \in 1 .. Len(GadgetsOf(N, q, s, m)) :
                      e = MulConstraint(GadgetsOf(N, q, s, m)[i])
  BY DEF Complete
<1>1. Len(q) = Len(p) + 1 /\ Len(p) \in Nat
  BY DEF AppendsCall
<1>2. CASE e \in cs
  <2>1. PICK m \in 1 .. Len(p) : \E i \in 1 .. Len(GadgetsOf(N, p, o, m)) :
                                   e = MulConstraint(GadgetsOf(N, p, o, m)[i])
    BY <1>2 DEF Complete
  <2>2. m \in 1 .. Len(q) /\ GadgetsOf(N, q, s, m) = GadgetsOf(N, p, o, m)
    BY <1>1 DEF SameCall
  <2> QED
    BY <2>1, <2>2
<1>3. CASE e \notin cs
  <2>1. PICK k \in 1 .. Len(g) : e = MulConstraint(g[k])
    BY <1>3
  <2>2. Len(p) + 1 \in 1 .. Len(q)
    BY <1>1
  <2> QED
    BY <2>1, <2>2
<1> QED
  BY <1>2, <1>3

-----------------------------------------------------------------------------
(* The output variables are mentioned by no call                             *)

FreeLc(lc, V) == DOMAIN lc \cap V = {}

FreeMeta(m, V) == \A i \in 1 .. NumPolys(m), j \in Limbs : FreeLc(m.lc[i][j], V)

FreeGadgets(g, V) == \A i \in 1 .. Len(g) : /\ FreeLc(g[i].in1, V) /\ FreeLc(g[i].in2, V)
                                            /\ g[i].out \notin V

FreeCall(N, p, o, m, V) == /\ FreeMeta(o[Object(N, p, m)].constraint, V)
                           /\ FreeGadgets(GadgetsOf(N, p, o, m), V)

Free(N, p, o, V) == \A m \in 1 .. Len(p) : FreeCall(N, p, o, m, V)

\* What is over the first n variables mentions no later ones.
LEMMA FreeAfter ==
  ASSUME NEW n \in Nat, NEW V, \A v \in V : v \in Nat /\ v > n
  PROVE  /\ \A m : IsMeta(m, n) => FreeMeta(m, V)
         /\ \A g : g \in Seq(Gadgets(n)) => FreeGadgets(g, V)
<1>1. ASSUME NEW lc \in Lcs(n) PROVE FreeLc(lc, V)
  <2>1. DOMAIN lc \subseteq 0 .. n
    BY LcFacts
  <2>2. \A v \in 0 .. n : v \notin V
    OBVIOUS
  <2> QED
    BY <2>1, <2>2 DEF FreeLc
<1>2. ASSUME NEW m, IsMeta(m, n) PROVE FreeMeta(m, V)
  BY <1>1, <1>2, MetaEntry DEF FreeMeta
<1>3. ASSUME NEW g \in Seq(Gadgets(n)) PROVE FreeGadgets(g, V)
  <2> SUFFICES ASSUME NEW i \in 1 .. Len(g)
               PROVE  FreeLc(g[i].in1, V) /\ FreeLc(g[i].in2, V) /\ g[i].out \notin V
    BY DEF FreeGadgets
  <2>1. g[i] \in Gadgets(n)
    OBVIOUS
  <2>2. g[i].in1 \in Lcs(n) /\ g[i].in2 \in Lcs(n) /\ g[i].out \in 1 .. n
    BY <2>1 DEF Gadgets
  <2>3. \A v \in 1 .. n : v \notin V
    OBVIOUS
  <2> QED
    BY <1>1, <2>2, <2>3
<1> QED
  BY <1>2, <1>3

\* Each polynomial of a product sums up one product or two.
LEMMA SumForms ==
  ASSUME NEW op \in Quadratic, NEW i \in 1 .. 3
  PROVE  \E t, u \in 1 .. Len(Products(op)) : Sums(op)[i] = <<t>> \/ Sums(op)[i] = <<t, u>>
<1>1. i = 1 \/ i = 2 \/ i = 3
  OBVIOUS
<1>2. CASE op = "MultNoRelin"
  <2>1. Len(Products(op)) = 4 /\ Sums(op) = << <<1>>, <<2, 3>>, <<4>> >>
    BY <1>2 DEF Products, Sums
  <2>2. 1 \in 1 .. 4 /\ 2 \in 1 .. 4 /\ 3 \in 1 .. 4 /\ 4 \in 1 .. 4
    OBVIOUS
  <2>3. Sums(op)[1] = <<1>> /\ Sums(op)[2] = <<2, 3>> /\ Sums(op)[3] = <<4>>
    BY <2>1
  <2> QED
    BY <1>1, <2>1, <2>2, <2>3
<1>3. CASE op = "Square"
  <2>1. Len(Products(op)) = 3 /\ Sums(op) = << <<2>>, <<1, 1>>, <<3>> >>
    BY <1>3 DEF Products, Sums
  <2>2. 1 \in 1 .. 3 /\ 2 \in 1 .. 3 /\ 3 \in 1 .. 3
    OBVIOUS
  <2>3. Sums(op)[1] = <<2>> /\ Sums(op)[2] = <<1, 1>> /\ Sums(op)[3] = <<3>>
    BY <2>1
  <2> QED
    BY <1>1, <2>1, <2>2, <2>3
<1> QED
  BY <1>2, <1>3 DEF Quadratic

\* Combinations mention what the combined do.
LEMMA FreeCombine ==
  ASSUME NEW V, NEW a, NEW b, FreeLc(a, V), FreeLc(b, V)
  PROVE  \A s : FreeLc(Combine(a, s, b), V)
<1>1. \A s : DOMAIN Combine(a, s, b) = DOMAIN a \cup DOMAIN b
  BY DEF Combine
<1> QED
  BY <1>1 DEF FreeLc

\* A variable that is allocated later is another one.
LEMMA FreeVar ==
  ASSUME NEW h \in Nat, NEW V, V \subseteq 1 .. h
  PROVE  /\ \A v \in Nat : v > h => FreeLc(Var(v), V)
         /\ \A c : FreeLc(Const(c), V)
         /\ FreeLc(<<>>, V)
<1>1. \A v \in Nat : v > h => v \notin V
  OBVIOUS
<1>2. 0 \notin V
  OBVIOUS
<1>3. \A v : DOMAIN Var(v) = {v}
  BY DEF Var
<1>4. \A c : DOMAIN Const(c) = {0}
  BY DEF Const
<1>5. DOMAIN <<>> = {}
  OBVIOUS
<1>6. FreeLc(<<>>, V)
  BY <1>5 DEF FreeLc
<1>7. \A v \in Nat : v > h => FreeLc(Var(v), V)
  <2> SUFFICES ASSUME NEW v \in Nat, v > h PROVE FreeLc(Var(v), V)
    OBVIOUS
  <2>1. v \notin V /\ DOMAIN Var(v) = {v}
    BY <1>1, <1>3
  <2>2. {v} \cap V = {}
    BY <2>1
  <2> QED
    BY <2>1, <2>2 DEF FreeLc
<1>8. \A c : FreeLc(Const(c), V)
  BY <1>2, <1>4 DEF FreeLc
<1> QED
  BY <1>6, <1>7, <1>8

\* What an addition or subtraction made mentions what its operands mention.
LEMMA LinearFree ==
  ASSUME NEW h \in Nat, NEW V, V \subseteq 1 .. h, NEW op, NEW m1, NEW m2, NEW m,
         NumPolys(m1) = NumPolys(m2), LinearShape(op, m1, m2, m), FreeMeta(m1, V), FreeMeta(m2, V)
  PROVE  FreeMeta(m, V)
<1> SUFFICES ASSUME NEW i \in 1 .. NumPolys(m), NEW j \in Limbs PROVE FreeLc(m.lc[i][j], V)
  BY DEF FreeMeta
<1> DEFINE a == m1.lc[i][j]
           b == m2.lc[i][j]
           k == Const(IF op = "Sub" THEN Q ELSE 0)
<1>1. NumPolys(m) = NumPolys(m1) /\ m.lc[i][j] = Combine(Combine(a, Sign(op), b), 1, k)
  BY DEF LinearShape
<1>2. FreeLc(a, V) /\ FreeLc(b, V)
  BY <1>1 DEF FreeMeta
<1>3. FreeLc(k, V)
  BY FreeVar
<1> HIDE DEF a, b, k
<1> DEFINE ab == Combine(a, Sign(op), b)
<1>4. FreeLc(ab, V)
  BY <1>2, FreeCombine
<1> HIDE DEF ab
<1>5. FreeLc(Combine(ab, 1, k), V)
  BY <1>3, <1>4, FreeCombine
<1> QED
  BY <1>1, <1>5 DEF ab

\* The result of a product mentions the variables of its gadgets only.
LEMMA QuadraticFree ==
  ASSUME NEW h \in Nat, NEW V, V \subseteq 1 .. h, NEW op \in Quadratic, NEW m1, NEW m2, NEW m,
         QuadraticShape(op, m1, m2, h, m)
  PROVE  FreeMeta(m, V)
<1> SUFFICES ASSUME NEW i \in 1 .. 3, NEW j \in Limbs PROVE FreeLc(m.lc[i][j], V)
  BY DEF FreeMeta, QuadraticShape
<1> DEFINE l == Len(Products(op))
           c == l * NumLimbs
<1>1. m.lc[i][j] = SumOfProducts(h, Sums(op)[i], j)
  BY DEF QuadraticShape
<1>2. PICK t \in 1 .. l, u \in 1 .. l : Sums(op)[i] = <<t>> \/ Sums(op)[i] = <<t, u>>
  BY SumForms
<1> DEFINE a == VariableAt(h, t, j)
           b == VariableAt(h, u, j)
           e == <<>>
           va == Var(a)
           vb == Var(b)
           x == Combine(e, 1, va)
           y == Combine(x, 1, vb)
<1>3. l \in Nat
  BY ProductShape
<1>4. c \in Nat /\ a \in (h + 1) .. (h + c) /\ b \in (h + 1) .. (h + c)
  <2> HIDE DEF l
  <2> QED
    BY <1>3, VariablesApart
<1>5. a \in 0 .. (h + c) /\ b \in 0 .. (h + c) /\ h + c \in Nat /\ a \in Nat /\ b \in Nat /\ a > h /\ b > h
  <2> HIDE DEF a, b, c
  <2> QED
    BY <1>4
<1>6. SumOfProducts(h, <<t>>, j) = x /\ SumOfProducts(h, <<t, u>>, j) = y
  <2> DEFINE n == h + c
  <2>1. n \in Nat /\ a \in 0 .. n /\ b \in 0 .. n
    BY <1>5
  <2> HIDE DEF n
  <2> QED
    BY <2>1, ShortSums
<1> HIDE DEF a, b
<1>7. FreeLc(e, V) /\ FreeLc(va, V) /\ FreeLc(vb, V)
  BY <1>5, FreeVar
<1> HIDE DEF e, va, vb
<1>8. FreeLc(x, V)
  BY <1>7, FreeCombine
<1> HIDE DEF x
<1>9. FreeLc(y, V)
  BY <1>7, <1>8, FreeCombine
<1> HIDE DEF y
<1> QED
  BY <1>1, <1>2, <1>6, <1>8, <1>9

\* Its gadgets read what the operands mention and write new variables.
LEMMA ProductGadgetsFree ==
  ASSUME NEW h \in Nat, NEW V, V \subseteq 1 .. h, NEW op \in Quadratic, NEW m1, NEW m2,
         IsMeta(m1, h), IsMeta(m2, h), NumPolys(m1) = 2, NumPolys(m2) = 2, FreeMeta(m1, V), FreeMeta(m2, V)
  PROVE  FreeGadgets(ProductGadgets(Products(op), m1, m2, h), V)
<1> DEFINE prods == Products(op)
           g == ProductGadgets(prods, m1, m2, h)
           l == Len(prods)
           c == l * NumLimbs
<1>1. /\ c \in Nat /\ Len(g) = c
      /\ \A k \in 1 .. c : g[k].out = h + k
  BY ProductGadgetsAre
<1>2. l \in Nat /\ \A t \in 1 .. l : prods[t][1] \in 1 .. 2 /\ prods[t][2] \in 1 .. 2
  BY ProductShape
<1> SUFFICES ASSUME NEW k \in 1 .. Len(g)
             PROVE  FreeLc(g[k].in1, V) /\ FreeLc(g[k].in2, V) /\ g[k].out \notin V
  BY DEF FreeGadgets
<1> DEFINE t == ((k - 1) \div NumLimbs) + 1
           j == ((k - 1) % NumLimbs) + 1
<1>3. k \in 1 .. c
  BY <1>1
<1>4. g[k] = [in1 |-> m1.lc[prods[t][1]][j], in2 |-> m2.lc[prods[t][2]][j], out |-> VariableAt(h, t, j)]
  BY <1>3 DEF ProductGadgets
<1>5. t \in 1 .. l /\ j \in Limbs
  <2>1. l \in Nat /\ k \in 1 .. l * NumLimbs
    BY <1>2, <1>3
  <2> HIDE DEF l
  <2> QED
    BY <2>1, VariableBack
<1>6. g[k].out = h + k
  BY <1>1, <1>3
<1>7. h + k \notin V
  <2>1. k \in Nat /\ k >= 1
    BY <1>1, <1>3
  <2> QED
    BY <2>1
<1> HIDE DEF t, j, g, prods, c, l
<1>8. FreeLc(m1.lc[prods[t][1]][j], V) /\ FreeLc(m2.lc[prods[t][2]][j], V)
  BY <1>2, <1>5 DEF FreeMeta
<1> QED
  BY <1>4, <1>6, <1>7, <1>8

\* So a call mentions nothing it was not given or did not allocate.
LEMMA ShapeFree ==
  ASSUME NEW N \in Nat, NEW p, NEW o, NEW n \in Nat, n >= 1, CallOK(N, p, n),
         NEW h \in Nat, NEW nv \in Nat, NEW V, V \subseteq 1 .. h,
         ShapeOK(N, p, o, n, h, nv),
         ~IsPublic(p, n) => /\ IsMeta(o[ArgOf(p, n, 1)].constraint, h) /\ FreeMeta(o[ArgOf(p, n, 1)].constraint, V)
                            /\ IsMeta(o[ArgOf(p, n, 2)].constraint, h) /\ FreeMeta(o[ArgOf(p, n, 2)].constraint, V)
  PROVE  FreeCall(N, p, o, n, V)
<1> DEFINE m == o[Object(N, p, n)].constraint
<1>1. CASE IsPublic(p, n)
  <2> DEFINE l == Len(o[Object(N, p, n)].content)
  <2>1. DeclaredShape(m, l, h, nv)
    BY <1>1 DEF ShapeOK
  <2> HIDE DEF m, l
  <2>2. l \in Nat /\ NumPolys(m) = l /\ m.witness = WitnessMeta(h + 1, <<>>)
        /\ \A i \in 1 .. l, j \in Limbs : m.lc[i][j] = Var(VariableAt(h, i, j))
    BY <2>1 DEF DeclaredShape
  <2>3. \A i \in 1 .. l, j \in Limbs : VariableAt(h, i, j) \in Nat /\ VariableAt(h, i, j) > h
    <3> DEFINE c == l * NumLimbs
    <3>1. c \in Nat /\ \A i \in 1 .. l, j \in Limbs : VariableAt(h, i, j) \in (h + 1) .. (h + c)
      BY <2>2, VariablesApart
    <3> HIDE DEF c
    <3>2. \A v \in (h + 1) .. (h + c) : v \in Nat /\ v > h
      BY <3>1
    <3> QED
      BY <3>1, <3>2
  <2>4. \A v \in Nat : v > h => FreeLc(Var(v), V)
    BY FreeVar
  <2>5. FreeMeta(m, V)
    BY <2>2, <2>3, <2>4 DEF FreeMeta
  <2>6. m.witness.gadgets = <<>>
    BY <2>2 DEF WitnessMeta
  <2>7. FreeGadgets(<<>>, V)
    BY DEF FreeGadgets
  <2> QED
    BY <2>5, <2>6, <2>7 DEF FreeCall, GadgetsOf, m
<1>2. CASE ~IsPublic(p, n)
  <2> DEFINE m1 == o[ArgOf(p, n, 1)].constraint
             m2 == o[ArgOf(p, n, 2)].constraint
             op == p[n].op
  <2>1. OperatedShape(op, m1, m2, h, nv, m) /\ op \in Linear \cup Quadratic
    BY <1>2 DEF ShapeOK, CallOK, OperationOK
  <2>2. IsMeta(m1, h) /\ IsMeta(m2, h) /\ FreeMeta(m1, V) /\ FreeMeta(m2, V)
    BY <1>2
  <2> HIDE DEF m, m1, m2, op
  <2>3. OperandsFit(op, m1, m2) /\ NumPolys(m1) = NumPolys(m2)
    BY <2>1 DEF OperatedShape, OperandsFit
  <2>4. FreeGadgets(<<>>, V)
    BY DEF FreeGadgets
  <2>5. CASE op \in Linear
    <3>1. LinearShape(op, m1, m2, m) /\ m.witness.gadgets = <<>>
      BY <2>1, <2>5 DEF OperatedShape
    <3>2. FreeMeta(m, V)
      BY <2>2, <2>3, <3>1, LinearFree
    <3> QED
      BY <2>4, <3>1, <3>2 DEF FreeCall, GadgetsOf, m
  <2>6. CASE op \in Quadratic
    <3>1. QuadraticShape(op, m1, m2, h, m) /\ m.witness.gadgets = ProductGadgets(Products(op), m1, m2, h)
      BY <2>1, <2>6 DEF OperatedShape
    <3>2. FreeMeta(m, V)
      BY <2>6, <3>1, QuadraticFree
    <3>3. NumPolys(m1) = 2 /\ NumPolys(m2) = 2
      BY <2>3, <2>6 DEF OperandsFit
    <3>4. FreeGadgets(ProductGadgets(Products(op), m1, m2, h), V)
      BY <2>2, <2>6, <3>3, ProductGadgetsFree
    <3> QED
      BY <3>1, <3>2, <3>4 DEF FreeCall, GadgetsOf, m
  <2> QED
    BY <2>1, <2>5, <2>6
<1> QED
  BY <1>1, <1>2

\* The calls of a longer program mention as little.
LEMMA FreeAppended ==
  ASSUME NEW N \in Nat, NEW p, NEW c, NEW q, AppendsCall(p, q, c), NEW o, NEW s, NEW V,
         \A m \in 1 .. Len(p) : SameCall(N, p, q, o, s, m),
         Free(N, p, o, V), FreeCall(N, q, s, Len(p) + 1, V)
  PROVE  Free(N, q, s, V)
<1> SUFFICES ASSUME NEW m \in 1 .. Len(q) PROVE FreeCall(N, q, s, m, V)
  BY DEF Free
<1>1. m \in 1 .. Len(p) \/ m = Len(p) + 1
  BY DEF AppendsCall
<1>2. m \in 1 .. Len(p) => FreeCall(N, q, s, m, V)
  BY DEF Free, FreeCall, SameCall
<1> QED
  BY <1>1, <1>2

\* The calls mention no variable that comes after those there are.
LEMMA FreeOfNew ==
  ASSUME NEW N \in Nat, NEW p, IsSeq(p), NEW o, NEW w, NEW nv \in Nat, CallsOK(N, p, o, w, nv),
         Traced(N, p, o, w, nv), MetasOK(N, p, o, nv), Len(o) \in Nat, Len(o) >= Made(N, p, Len(p)),
         NEW V, \A v \in V : v \in Nat /\ v > nv
  PROVE  Free(N, p, o, V)
<1> SUFFICES ASSUME NEW m \in 1 .. Len(p) PROVE FreeCall(N, p, o, m, V)
  BY DEF Free
<1>1. Len(p) \in Nat /\ m \in Nat /\ m >= 1 /\ m + 1 \in Nat /\ m + 1 >= 1 /\ m + 1 <= Len(p) + 1
      /\ Len(p) + 1 \in Nat
  BY DEF IsSeq
<1>2. CallOK(N, p, m)
  BY DEF CallsOK
<1>3. UsableAt(N, p, Object(N, p, m), m + 1)
  BY <1>1, <1>2, CallKnows
<1>4. UsableAt(N, p, Object(N, p, m), Len(p) + 1)
  BY <1>1, <1>3, UsableGrow
<1>5. IsMeta(o[Object(N, p, m)].constraint, nv)
  BY <1>1, <1>4, MetasOver
<1>6. GadgetsOf(N, p, o, m) \in Seq(Gadgets(nv))
  BY GadgetsOver
<1> QED
  BY <1>5, <1>6, FreeAfter DEF FreeCall

\* What is usable mentions no more than the calls.
LEMMA FreeUsable ==
  ASSUME NEW N \in Nat, NEW p, NEW o, NEW V, Free(N, p, o, V), Len(p) \in Nat,
         NEW k, UsableAt(N, p, k, Len(p) + 1)
  PROVE  FreeMeta(o[k].constraint, V)
<1>1. PICK m \in 1 .. Len(p) : Object(N, p, m) = k
  BY CallOfObject
<1> QED
  BY <1>1 DEF Free, FreeCall

-----------------------------------------------------------------------------
(* The calls of a replay, one after another                                  *)

\* The gadgets of the first c calls have been run, and nothing they read or
\* wrote has changed since.
Sat(N, p, o, c, val) == \A m \in 1 .. c : Computed(GadgetsOf(N, p, o, m), val)

\* What is recorded of the ciphertexts of generation agrees with the
\* ciphertexts the replay computed so far.
RightFor(o, s, k, r, val) ==
  IsSeq(s[r[k]].content) /\ Agrees(o[k].constraint, s[r[k]].content, val)

Right(N, p, o, r, c, val) == \A k : UsableAt(N, p, k, c + 1) => RightFor(o, o, k, r, val)

\* What agrees still does when only later variables change.
LEMMA AgreesStays ==
  ASSUME NEW n, NEW val, Valuation(val, n), NEW h \in Nat, h <= n, NEW w, SameUpTo(val, w, h),
         NEW m, IsMeta(m, h), NEW x, Agrees(m, x, val)
  PROVE  Agrees(m, x, w)
<1>1. ASSUME NEW i \in 1 .. NumPolys(m), NEW j \in Limbs
      PROVE  Fits(LcVal(m.lc[i][j], w), m.max_value[i][j], x[i][j])
  <2> DEFINE lc == m.lc[i][j]
  <2>1. lc \in Lcs(h)
    BY MetaEntry
  <2> HIDE DEF lc
  <2>2. LcVal(lc, w) = LcVal(lc, val)
    BY <2>1, SameFirst
  <2> QED
    BY <2>2 DEF Agrees, lc
<1> QED
  BY <1>1 DEF Agrees

\* One more call has been replayed.
LEMMA SatNext ==
  ASSUME NEW N, NEW p, NEW o, NEW s, NEW c \in Nat, NEW h \in Nat, NEW nv, Layer(N, p, o, c + 1, h, nv),
         NEW val, Valuation(val, nv), NEW w, SameUpTo(val, w, h),
         \A m \in 1 .. (c + 1) : GadgetsOf(N, p, s, m) = GadgetsOf(N, p, o, m),
         Sat(N, p, o, c, val), Computed(GadgetsOf(N, p, o, c + 1), w)
  PROVE  Sat(N, p, s, c + 1, w)
<1> SUFFICES ASSUME NEW m \in 1 .. (c + 1) PROVE Computed(GadgetsOf(N, p, s, m), w)
  BY DEF Sat
<1>1. GadgetsOf(N, p, s, m) = GadgetsOf(N, p, o, m)
  OBVIOUS
<1>2. CASE m = c + 1
  BY <1>1, <1>2
<1>3. CASE m # c + 1
  <2> DEFINE g == GadgetsOf(N, p, o, m)
  <2>1. m \in 1 .. c /\ m \in 1 .. (c + 1 - 1) /\ h <= nv
    BY <1>3 DEF Layer
  <2>2. g \in Seq(Gadgets(h)) /\ Computed(g, val)
    BY <2>1 DEF Layer, Sat
  <2> HIDE DEF g
  <2>3. \A i \in 1 .. Len(g) : g[i] \in Gadgets(h)
    BY <2>2
  <2>5. Computed(g, w)
    BY <2>1, <2>2, <2>3, StaysComputed
  <2> QED
    BY <1>1, <2>5 DEF g
<1> QED
  BY <1>2, <1>3

\* So has what is recorded of ciphertexts.
LEMMA RightNext ==
  ASSUME NEW N \in Nat, NEW p, NEW o, NEW s, NEW c \in Nat, CallOK(N, p, c + 1),
         NEW h \in Nat, NEW nv, Layer(N, p, o, c + 1, h, nv),
         NEW val, Valuation(val, nv), NEW w, SameUpTo(val, w, h), NEW r, NEW t,
         \A k : UsableAt(N, p, k, c + 1) => /\ s[k].constraint = o[k].constraint
                                            /\ s[t[k]].content = o[r[k]].content,
         Right(N, p, o, r, c, val), RightFor(s, s, Object(N, p, c + 1), t, w)
  PROVE  Right(N, p, s, t, c + 1, w)
<1> SUFFICES ASSUME NEW k, UsableAt(N, p, k, c + 1 + 1) PROVE RightFor(s, s, k, t, w)
  BY DEF Right
<1>1. UsableAt(N, p, k, c + 1) \/ k = Object(N, p, c + 1)
  <2> DEFINE n == c + 1
  <2>1. n \in Nat /\ n >= 1 /\ CallOK(N, p, n) /\ UsableAt(N, p, k, n + 1)
    OBVIOUS
  <2> HIDE DEF n
  <2>2. UsableAt(N, p, k, n) \/ k = Object(N, p, n)
    BY <2>1, CallKnows
  <2> QED
    BY <2>2 DEF n
<1>2. CASE UsableAt(N, p, k, c + 1)
  <2> DEFINE x == o[r[k]].content
             m == o[k].constraint
  <2>1. IsSeq(x) /\ Agrees(m, x, val)
    BY <1>2 DEF Right, RightFor
  <2>2. IsMeta(m, h) /\ h <= nv
    BY <1>2 DEF Layer
  <2>3. s[k].constraint = m /\ s[t[k]].content = x
    BY <1>2
  <2> HIDE DEF x, m
  <2>4. Agrees(m, x, w)
    BY <2>1, <2>2, AgreesStays
  <2> QED
    BY <2>1, <2>3, <2>4 DEF RightFor
<1>3. CASE k = Object(N, p, c + 1)
  BY <1>3
<1> QED
  BY <1>1, <1>2, <1>3

\* Of what was recorded of operands and of a result, when they agree.
ResultAgrees(op, m1, m2, m, val, w) ==
  SubtrahendReduced(op, m2) =>
  \A x, y : /\ IsSeq(x) /\ IsSeq(y) /\ Agrees(m1, x, val) /\ Agrees(m2, y, val)
           /\ (op = "Square" => m1 = m2 /\ x = y)
             => IsSeq(FheEval(op, x, y)) /\ Agrees(m, FheEval(op, x, y), w)

\* An operation, replayed, runs the gadgets of its call, and its result agrees
\* with what was recorded of it if its operands do.
LEMMA OperationRun ==
  ASSUME NEW n, IsBoard(pb, n), NEW h \in Nat, h <= n, NEW op \in Linear \cup Quadratic,
         NEW m1, NEW m2, NEW m, IsMeta(m1, h), IsMeta(m2, h), OperatedShape(op, m1, m2, h, n, m),
         NEW g, g = m.witness.gadgets, NEW w, w = RunGadgets(pb, g).val
  PROVE  /\ Valuation(pb.val, n) /\ Valuation(w, n) /\ SameUpTo(pb.val, w, h) /\ Computed(g, w)
         /\ ResultAgrees(op, m1, m2, m, pb.val, w)
<1>1. OperandsFit(op, m1, m2) /\ n \in Nat /\ pb.val \in [1 .. n -> Int] /\ NumPolys(m1) = NumPolys(m2)
  BY DEF OperatedShape, OperandsFit, IsBoard
<1>2. Valuation(pb.val, n)
  BY <1>1 DEF Valuation
<1>3. Writers(g, h, n)
  <2>1. CASE op \in Linear
    <3>1. g = <<>>
      BY <2>1 DEF OperatedShape
    <3>2. Len(g) = 0 /\ g \in Seq(Gadgets(n))
      BY <3>1, NoGadgets
    <3> QED
      BY <1>1, <3>2 DEF Writers
  <2>2. CASE op \in Quadratic
    <3> DEFINE k == ProductGadgets(Products(op), m1, m2, h)
               c == Len(Products(op)) * NumLimbs
    <3>1. g = k /\ h + c <= n
      BY <2>2 DEF OperatedShape
    <3>2. NumPolys(m1) = 2 /\ NumPolys(m2) = 2
      BY <1>1, <2>2 DEF OperandsFit
    <3>3. /\ c \in Nat /\ Len(k) = c /\ k \in Seq(Gadgets(h + c))
          /\ \A i \in 1 .. c : k[i].in1 \in Lcs(h) /\ k[i].in2 \in Lcs(h) /\ k[i].out = h + i
      BY <2>2, <3>2, ProductGadgetsAre
    <3> HIDE DEF k, c
    <3>4. h + c \in Int /\ n \in Int /\ h + c <= n
      BY <1>1, <3>1, <3>3
    <3>5. Gadgets(h + c) \subseteq Gadgets(n)
      <4> DEFINE b == h + c
      <4>1. b \in Int /\ b <= n /\ n \in Int
        BY <3>4
      <4> HIDE DEF b
      <4>2. Gadgets(b) \subseteq Gadgets(n)
        BY <4>1, Grow
      <4> QED
        BY <4>2 DEF b
    <3>6. k \in Seq(Gadgets(n))
      BY <3>3, <3>5
    <3> QED
      BY <1>1, <3>1, <3>3, <3>6 DEF Writers
  <2> QED
    BY <2>1, <2>2
<1>4. g \in Seq(Gadgets(n))
  BY <1>3 DEF Writers
<1>5. PICK r : Runs(r, n, pb.val, g) /\ RunGadgets(pb, g).val = r[Len(g)]
  BY <1>4, RunBoard
<1>6. Valuation(w, n) /\ Computed(g, w) /\ Untouched(pb.val, w, h, h + Len(g), n)
  <2> DEFINE val == pb.val
  <2>1. Valuation(val, n) /\ Runs(r, n, val, g) /\ w = r[Len(g)]
    BY <1>2, <1>5
  <2> HIDE DEF val
  <2>2. Valuation(w, n) /\ Computed(g, w) /\ Untouched(val, w, h, h + Len(g), n)
    BY <1>3, <2>1, RunComputes
  <2> QED
    BY <2>2 DEF val
<1>7. SameUpTo(pb.val, w, h)
  <2> SUFFICES ASSUME NEW v \in 1 .. h PROVE w[v] = pb.val[v]
    BY DEF SameUpTo
  <2>1. v \in 1 .. n /\ v <= h
    BY <1>1
  <2> QED
    BY <1>6, <2>1 DEF Untouched
<1> DEFINE val == pb.val
<1>8. Valuation(val, n) /\ SameUpTo(val, w, h)
  BY <1>2, <1>7
<1> HIDE DEF val
<1>9. ASSUME SubtrahendReduced(op, m2), NEW x, NEW y, IsSeq(x), IsSeq(y),
             Agrees(m1, x, val), Agrees(m2, y, val), op = "Square" => m1 = m2 /\ x = y
      PROVE  IsSeq(FheEval(op, x, y)) /\ Agrees(m, FheEval(op, x, y), w)
  <2>1. Agrees(m1, x, w) /\ Agrees(m2, y, w)
    BY <1>8, <1>9, AgreesStays
  <2>2. Len(x) = NumPolys(m1) /\ Len(y) = NumPolys(m2) /\ Len(x) \in Nat /\ Len(y) \in Nat
    BY <1>9 DEF Agrees, IsSeq
  <2>3. CASE op \in Linear
    <3>1. LinearShape(op, m1, m2, m) /\ FieldHasRoom(m)
      BY <2>3 DEF OperatedShape
    <3>2. IsMeta(m1, n) /\ IsMeta(m2, n)
      BY <1>1, MetaGrow
    <3>3. Agrees(m, FheLinear(op, x, y), w)
      BY <1>1, <1>6, <1>9, <2>1, <2>3, <3>1, <3>2, LinearAgrees
    <3>4. IsSeq(FheLinear(op, x, y))
      <4> DEFINE f == FheLinear(op, x, y)
      <4>1. f = [i \in 1 .. Len(x) |-> [j \in Limbs |-> (x[i][j] + Sign(op) * y[i][j]) % Q]]
        BY DEF FheLinear, Matrix
      <4>2. DOMAIN f = 1 .. Len(x) /\ f = [i \in 1 .. Len(x) |-> f[i]]
        BY <4>1
      <4> HIDE DEF f
      <4>3. IsSeq(f)
        BY <2>2, <4>2, SeqWhen
      <4> QED
        BY <4>3 DEF f
    <3> QED
      BY <2>3, <3>3, <3>4 DEF FheEval
  <2>4. CASE op \in Quadratic
    <3>1. /\ QuadraticShape(op, m1, m2, h, m) /\ FieldHasRoom(m)
          /\ h + Len(Products(op)) * NumLimbs <= n
          /\ g = ProductGadgets(Products(op), m1, m2, h)
      BY <2>4 DEF OperatedShape
    <3>2. Computed(ProductGadgets(Products(op), m1, m2, h), w)
      BY <1>6, <3>1
    <3>3. Agrees(m, FheProduct(x, y), w)
      BY <1>1, <1>6, <1>9, <2>1, <2>4, <3>1, <3>2, QuadraticAgrees
    <3>4. IsSeq(FheProduct(x, y))
      <4> DEFINE f == FheProduct(x, y)
                 l == Len(x) + Len(y) - 1
      <4>1. DOMAIN f = 1 .. l /\ f = [i \in 1 .. l |-> f[i]]
        BY DEF FheProduct, Matrix
      <4>2. l \in Nat
        <5>1. NumPolys(m1) = 2
          BY <1>1, <2>4 DEF OperandsFit
        <5> QED
          BY <1>1, <2>2, <5>1
      <4> HIDE DEF f, l
      <4>3. IsSeq(f)
        BY <4>1, <4>2, SeqWhen
      <4> QED
        BY <4>3 DEF f
    <3>5. op \notin Linear
      BY <2>4 DEF Linear, Quadratic
    <3> QED
      BY <3>3, <3>4, <3>5 DEF FheEval
  <2> QED
    BY <2>3, <2>4
<1>10. ResultAgrees(op, m1, m2, m, val, w)
  BY <1>9 DEF ResultAgrees
<1> QED
  BY <1>2, <1>6, <1>7, <1>10 DEF val

\* Assigned coefficients are those of the variables of a declaration.
LEMMA AssignedAt ==
  ASSUME NEW h \in Nat, NEW l \in Nat
  PROVE  /\ \A v : (\E a \in Assigned(l) : v = h + 1 + Offset(a[1], a[2], l)) => v > h
         /\ \A a \in Assigned(l) : /\ a[1] \in 1 .. l /\ a[2] \in Limbs
                                   /\ h + 1 + Offset(a[1], a[2], l) = VariableAt(h, a[1], a[2])
         /\ l >= NumLimbs => \A i \in 1 .. l, j \in Limbs : <<i, j>> \in Assigned(l)
<1>1. NumLimbs \in Nat /\ Limbs = 1 .. NumLimbs
  BY SizeFacts
<1>2. \A a \in Assigned(l) : a[1] \in 1 .. l /\ a[2] \in Limbs
  BY DEF Assigned
<1>3. ASSUME NEW i \in 1 .. l, NEW j \in Limbs
      PROVE  h + 1 + Offset(i, j, l) = VariableAt(h, i, j) /\ VariableAt(h, i, j) > h
  <2> DEFINE k == (i - 1) * NumLimbs
             c == l * NumLimbs
  <2>1. k \in Int /\ j \in Int
    BY <1>1
  <2>2. h + 1 + (k + j - 1) = h + k + j
    <3> HIDE DEF k
    <3> QED
      BY <2>1
  <2>3. VariableAt(h, i, j) \in (h + 1) .. (h + c) /\ c \in Nat
    BY VariablesApart
  <2>4. VariableAt(h, i, j) > h
    <3> DEFINE v == VariableAt(h, i, j)
    <3> HIDE DEF c, v
    <3>1. v \in (h + 1) .. (h + c)
      BY <2>3 DEF v
    <3>2. v > h
      BY <2>3, <3>1
    <3> QED
      BY <3>2 DEF v
  <2> QED
    BY <2>2, <2>4 DEF Offset, VariableAt
<1>4. \A a \in Assigned(l) : h + 1 + Offset(a[1], a[2], l) = VariableAt(h, a[1], a[2])
                             /\ VariableAt(h, a[1], a[2]) > h
  BY <1>2, <1>3
<1>5. l >= NumLimbs => \A i \in 1 .. l, j \in Limbs : <<i, j>> \in Assigned(l)
  BY <1>1 DEF Assigned
<1> QED
  BY <1>2, <1>4, <1>5

\* A declaration, replayed, assigns no earlier variable, and the variables of
\* its input get its coefficients if it has a polynomial for each limb.
LEMMA DeclarationRun ==
  ASSUME NEW n, IsBoard(pb, n), NEW h \in Nat, h <= n, NEW m, NEW x, Coefficients(x), Len(x) \in Nat,
         DeclaredShape(m, Len(x), h, n), NEW w, w = PublicInputWitness(x, h + 1).val
  PROVE  /\ Valuation(pb.val, n) /\ Valuation(w, n) /\ SameUpTo(pb.val, w, h)
         /\ Len(x) >= NumLimbs => Agrees(m, x, w)
<1> DEFINE l == Len(x)
           hit(v) == \E a \in Assigned(l) : v = h + 1 + Offset(a[1], a[2], l)
<1>1. n \in Nat /\ pb.val \in [1 .. n -> Int]
  BY DEF IsBoard
<1>2. /\ IsBoard(PublicInputWitness(x, h + 1), n)
      /\ \A v \in 1 .. n :
           /\ ~hit(v) => w[v] = pb.val[v]
           /\ hit(v) => \E a \in Assigned(l) : v = h + 1 + Offset(a[1], a[2], l) /\ w[v] = x[a[1]][a[2]]
  BY AssignBoard
<1>3. Valuation(pb.val, n) /\ Valuation(w, n)
  BY <1>1, <1>2 DEF Valuation, IsBoard
<1>4. /\ \A v : hit(v) => v > h
      /\ \A a \in Assigned(l) : /\ a[1] \in 1 .. l /\ a[2] \in Limbs
                                /\ h + 1 + Offset(a[1], a[2], l) = VariableAt(h, a[1], a[2])
      /\ l >= NumLimbs => \A i \in 1 .. l, j \in Limbs : <<i, j>> \in Assigned(l)
  <2>1. l \in Nat
    OBVIOUS
  <2> HIDE DEF l
  <2> QED
    BY <2>1, AssignedAt
<1>5. SameUpTo(pb.val, w, h)
  <2> SUFFICES ASSUME NEW v \in 1 .. h PROVE w[v] = pb.val[v]
    BY DEF SameUpTo
  <2>1. v \in 1 .. n /\ ~(v > h)
    BY <1>1
  <2>2. ~hit(v)
    BY <1>4, <2>1
  <2> QED
    BY <1>2, <2>1, <2>2
<1>6. ASSUME l >= NumLimbs PROVE Agrees(m, x, w)
  <2>1. /\ NumPolys(m) = l /\ h + l * NumLimbs <= n
        /\ \A i \in 1 .. l, j \in Limbs : m.lc[i][j] = Var(VariableAt(h, i, j)) /\ m.max_value[i][j] = Q - 1
    BY DEF DeclaredShape
  <2>2. Q \in Nat /\ Q > 1 /\ NumLimbs \in Nat
    BY SizeFacts
  <2>3. ASSUME NEW i \in 1 .. l, NEW j \in Limbs
        PROVE  Fits(LcVal(m.lc[i][j], w), m.max_value[i][j], x[i][j])
    <3> DEFINE v == VariableAt(h, i, j)
    <3>1. v \in 1 .. n
      <4> DEFINE c == l * NumLimbs
      <4>1. v \in (h + 1) .. (h + c) /\ c \in Nat /\ h + c <= n
        <5>1. v \in (h + 1) .. (h + c) /\ c \in Nat
          BY VariablesApart
        <5> QED
          BY <2>1, <5>1
      <4> HIDE DEF v, c
      <4> QED
        BY <1>1, <4>1
    <3>2. <<i, j>> \in Assigned(l) /\ v = h + 1 + Offset(<<i, j>>[1], <<i, j>>[2], l)
      BY <1>4, <1>6
    <3>3. hit(v)
      BY <3>2
    <3>4. PICK a \in Assigned(l) : v = h + 1 + Offset(a[1], a[2], l) /\ w[v] = x[a[1]][a[2]]
      BY <1>2, <3>1, <3>3
    <3>5. a[1] \in 1 .. l /\ a[2] \in Limbs /\ VariableAt(h, a[1], a[2]) = VariableAt(h, i, j)
      BY <1>4, <3>4
    <3>6. a[1] = i /\ a[2] = j
      <4> DEFINE a1 == a[1]
                 a2 == a[2]
      <4>1. a1 \in 1 .. l /\ a2 \in Limbs /\ VariableAt(h, a1, a2) = VariableAt(h, i, j) /\ l \in Nat
        BY <3>5
      <4> HIDE DEF a1, a2, l, v
      <4>2. a1 = i /\ a2 = j
        BY <4>1, SameVariable
      <4> QED
        BY <4>2 DEF a1, a2
    <3>7. x[i][j] \in 0 .. (Q - 1)
      <4>1. x[i] \in [Limbs -> 0 .. Q - 1]
        BY DEF Coefficients
      <4> QED
        BY <4>1
    <3>8. LcVal(Var(v), w) = w[v]
      BY <1>3, <3>1, AtomValue
    <3>9. LcVal(m.lc[i][j], w) = x[i][j] /\ m.max_value[i][j] = Q - 1
      BY <2>1, <3>4, <3>6, <3>8
    <3> DEFINE y == x[i][j]
    <3> HIDE DEF y
    <3>10. y \in Nat /\ Q - 1 \in Int /\ y <= Q - 1 /\ y = y % Q
      BY <2>2, <3>7, SMTT(40) DEF y
    <3> QED
      <4>1. Fits(y, Q - 1, y)
        BY <3>10 DEF Fits
      <4> QED
        BY <3>9, <4>1, Zenon DEF y
  <2>4. FieldHasRoom(m)
    <3> SUFFICES ASSUME NEW i \in 1 .. l, NEW j \in Limbs PROVE 4 * m.max_value[i][j] < P
      BY <2>1 DEF FieldHasRoom
    <3>1. m.max_value[i][j] = Q - 1
      BY <2>1
    <3>2. 4 * (Q - 1) < P
      BY <2>2, FieldAssumption
    <3> QED
      BY <3>1, <3>2
  <2> QED
    BY <2>1, <2>3, <2>4 DEF Agrees
<1> QED
  BY <1>3, <1>5, <1>6

-----------------------------------------------------------------------------
(* Finalizing an output after a replay                                       *)

OutSet(ov) == {ov[p[1]][p[2]] : p \in (1 .. Len(ov)) \X Limbs}

OutsApart(ov) == \A a, c \in 1 .. Len(ov), b, d \in Limbs : ov[a][b] = ov[c][d] => a = c /\ b = d

SameBut(val, w, n, V) == \A v \in 1 .. n : v \notin V => w[v] = val[v]

\* What does not mention the variables that change keeps its value.
LEMMA FreeSame ==
  ASSUME NEW n, NEW val, Valuation(val, n), NEW w, NEW V, SameBut(val, w, n, V),
         NEW lc \in Lcs(n), FreeLc(lc, V)
  PROVE  LcVal(lc, w) = LcVal(lc, val)
<1>1. n \in Nat /\ Known(lc, val)
  BY ValueOf DEF Valuation
<1>2. DOMAIN lc \subseteq 0 .. n
  BY LcFacts
<1>3. \A v \in DOMAIN lc \ {0} : w[v] = val[v]
  <2> SUFFICES ASSUME NEW v \in DOMAIN lc \ {0} PROVE w[v] = val[v]
    OBVIOUS
  <2>1. v \in 1 .. n
    BY <1>1, <1>2
  <2>2. v \notin V
    BY DEF FreeLc
  <2> QED
    BY <2>1, <2>2 DEF SameBut
<1> QED
  BY <1>1, <1>3, LcValSame

\* What agrees still does then.
LEMMA FreeAgrees ==
  ASSUME NEW n, NEW val, Valuation(val, n), NEW w, NEW V, SameBut(val, w, n, V),
         NEW m, IsMeta(m, n), FreeMeta(m, V), NEW x, Agrees(m, x, val)
  PROVE  Agrees(m, x, w)
<1>1. ASSUME NEW i \in 1 .. NumPolys(m), NEW j \in Limbs
      PROVE  Fits(LcVal(m.lc[i][j], w), m.max_value[i][j], x[i][j])
  <2> DEFINE lc == m.lc[i][j]
  <2>1. lc \in Lcs(n) /\ FreeLc(lc, V)
    BY MetaEntry DEF FreeMeta
  <2> HIDE DEF lc
  <2>2. LcVal(lc, w) = LcVal(lc, val)
    BY <2>1, FreeSame
  <2> QED
    BY <2>2 DEF Agrees, lc
<1> QED
  BY <1>1 DEF Agrees

\* What gadgets computed stays so too.
LEMMA FreeComputed ==
  ASSUME NEW n, NEW val, Valuation(val, n), NEW w, NEW V, SameBut(val, w, n, V),
         NEW g \in Seq(Gadgets(n)), FreeGadgets(g, V), Computed(g, val)
  PROVE  Computed(g, w)
<1> SUFFICES ASSUME NEW i \in 1 .. Len(g) PROVE w[g[i].out] = ProductOf(g[i], w)
  BY DEF Computed
<1> DEFINE a == g[i].in1
           b == g[i].in2
<1>1. a \in Lcs(n) /\ b \in Lcs(n) /\ g[i].out \in 1 .. n
  <2>1. g[i] \in Gadgets(n)
    OBVIOUS
  <2> QED
    BY <2>1 DEF Gadgets
<1>2. FreeLc(a, V) /\ FreeLc(b, V) /\ g[i].out \notin V
  BY DEF FreeGadgets
<1>3. val[g[i].out] = Wrap(LcVal(a, val) * LcVal(b, val))
  BY DEF Computed, ProductOf
<1>4. w[g[i].out] = val[g[i].out]
  BY <1>1, <1>2 DEF SameBut
<1> HIDE DEF a, b
<1>5. LcVal(a, w) = LcVal(a, val) /\ LcVal(b, w) = LcVal(b, val)
  BY <1>1, <1>2, FreeSame
<1> QED
  BY <1>3, <1>4, <1>5 DEF ProductOf, a, b

Holding(cs, val) == \A e \in cs : (LcVal(e.a, val) * LcVal(e.b, val) - LcVal(e.c, val)) % P = 0

\* A board whose constraints hold is satisfied.
LEMMA HoldingAll ==
  ASSUME NEW b
  PROVE  IsSatisfied(b) <=> Holding(b.constraints, b.val)
BY DEF IsSatisfied, Holding

\* The constraints of gadgets that have been run hold.
LEMMA SatHolds ==
  ASSUME NEW N, NEW p, NEW o, NEW cs, Complete(N, p, o, cs), NEW n,
         \A m \in 1 .. Len(p) : GadgetsOf(N, p, o, m) \in Seq(Gadgets(n)),
         NEW val, Valuation(val, n), Sat(N, p, o, Len(p), val)
  PROVE  Holding(cs, val)
<1> SUFFICES ASSUME NEW e \in cs PROVE (LcVal(e.a, val) * LcVal(e.b, val) - LcVal(e.c, val)) % P = 0
  BY DEF Holding
<1>1. PICK m \in 1 .. Len(p) : \E i \in 1 .. Len(GadgetsOf(N, p, o, m)) :
                                 e = MulConstraint(GadgetsOf(N, p, o, m)[i])
  BY DEF Complete
<1> DEFINE g == GadgetsOf(N, p, o, m)
<1>2. PICK i \in 1 .. Len(g) : e = MulConstraint(g[i])
  BY <1>1
<1>3. g \in Seq(Gadgets(n)) /\ Computed(g, val)
  BY DEF Sat
<1> HIDE DEF g
<1>4. g[i] \in Gadgets(n)
  BY <1>3
<1>5. g[i].out \in 1 .. n /\ g[i].in1 \in Lcs(n) /\ g[i].in2 \in Lcs(n)
  BY <1>4 DEF Gadgets
<1>6. LcVal(Var(g[i].out), val) = val[g[i].out]
  BY <1>5, AtomValue
<1>7. val[g[i].out] = Wrap(LcVal(g[i].in1, val) * LcVal(g[i].in2, val))
  BY <1>3 DEF Computed, ProductOf
<1>8. e.a = g[i].in1 /\ e.b = g[i].in2 /\ e.c = Var(g[i].out)
  BY <1>2 DEF MulConstraint
<1> DEFINE u == LcVal(g[i].in1, val) * LcVal(g[i].in2, val)
<1>9. u \in Int
  <2> DEFINE a == g[i].in1
             b == g[i].in2
  <2>1. a \in Lcs(n) /\ b \in Lcs(n)
    BY <1>5
  <2> HIDE DEF a, b
  <2>2. LcVal(a, val) \in Int /\ LcVal(b, val) \in Int
    BY <2>1, ValueOf
  <2> QED
    BY <2>2 DEF a, b
<1>10. LcVal(e.a, val) * LcVal(e.b, val) = u /\ LcVal(e.c, val) = Wrap(u)
  BY <1>6, <1>7, <1>8
<1> HIDE DEF u
<1>11. (u - Wrap(u)) % P = 0
  BY <1>9, WrapIs
<1> QED
  BY <1>10, <1>11

\* Finalizing changes output variables and allocates new ones.
LEMMA FinalizeKeeps ==
  ASSUME NEW n, IsBoard(pb, n), NEW m, IsMeta(m, n),
         out_vars \in Seq([Limbs -> 1 .. n]), NumPolys(m) >= Len(out_vars),
         NEW q, q = OutputConstraints(m)
  PROVE  /\ Valuation(pb.val, n)
         /\ SameBut(pb.val, q.val, n, OutSet(out_vars))
         /\ \E k \in Nat : /\ Valuation(q.val, n + k)
                           /\ \A p \in OutPending(m) : Quotient(m, p) \in (n + 1) .. (n + k)
                           /\ \A v \in 1 .. (n + k) : q.val[v] = OutValue(m, Allocate(pb, k).val, v)
                           /\ \A v \in 1 .. n : Allocate(pb, k).val[v] = pb.val[v]
<1> DEFINE k == Cardinality(OutPending(m))
<1>1. n \in Nat /\ pb.val \in [1 .. n -> Int]
  BY DEF IsBoard
<1>2. /\ k \in Nat /\ n + k \in Nat
      /\ IsBoard(q, n + k)
      /\ \A v \in 1 .. (n + k) : q.val[v] = OutValue(m, Allocate(pb, k).val, v)
  BY OutputBoard
<1>3. /\ \A p \in OutPositions : p[1] \in 1 .. Len(out_vars) /\ p[2] \in Limbs
      /\ \A p \in OutPending(m) : p \in OutPositions /\ Quotient(m, p) \in (n + 1) .. (n + k)
  BY OutputFacts
<1> HIDE DEF k
<1>4. \A v \in 1 .. n : Allocate(pb, k).val[v] = pb.val[v]
  BY <1>2, AllocateBoard
<1>5. Valuation(pb.val, n) /\ Valuation(q.val, n + k)
  BY <1>1, <1>2 DEF Valuation, IsBoard
<1>6. SameBut(pb.val, q.val, n, OutSet(out_vars))
  <2> SUFFICES ASSUME NEW v \in 1 .. n, v \notin OutSet(out_vars) PROVE q.val[v] = pb.val[v]
    BY DEF SameBut
  <2>1. \A p \in OutPending(m) : v # OutVar(p)
    <3> SUFFICES ASSUME NEW p \in OutPending(m) PROVE v # OutVar(p)
      OBVIOUS
    <3>1. p \in (1 .. Len(out_vars)) \X Limbs
      BY <1>3 DEF OutPositions
    <3>2. out_vars[p[1]][p[2]] \in OutSet(out_vars)
      BY <3>1 DEF OutSet
    <3> QED
      BY <3>2 DEF OutVar
  <2>2. \A p \in OutPending(m) : v # Quotient(m, p)
    <3>1. \A u \in (n + 1) .. (n + k) : u # v
      BY <1>1, <1>2
    <3> QED
      BY <1>3, <3>1
  <2>3. OutValue(m, Allocate(pb, k).val, v) = Allocate(pb, k).val[v]
    BY <2>1, <2>2 DEF OutValue
  <2>4. v \in 1 .. (n + k)
    BY <1>1, <1>2
  <2> QED
    BY <1>2, <1>4, <2>3, <2>4
<1> QED
  BY <1>2, <1>3, <1>4, <1>5, <1>6

\* Every output variable of a pending output gets the remainder of its
\* combination and every quotient what remains, so that the equations hold.
LEMMA FinalizeBinds ==
  ASSUME NEW n, IsBoard(pb, n), NEW m, IsMeta(m, n),
         out_vars \in Seq([Limbs -> 1 .. n]), NumPolys(m) >= Len(out_vars),
         FreeMeta(m, OutSet(out_vars)), OutsApart(out_vars),
         \A i \in 1 .. Len(out_vars), j \in Limbs : m.max_value[i][j] >= Q,
         NEW q, q = OutputConstraints(m), Holding(pb.constraints, q.val)
  PROVE  /\ IsSatisfied(q)
         /\ \A i \in 1 .. Len(out_vars), j \in Limbs :
              q.val[out_vars[i][j]] = Wrap(LcVal(m.lc[i][j], pb.val)) % Q
<1> DEFINE V == OutSet(out_vars)
           val == pb.val
           w == q.val
<1>1. PICK k \in Nat : /\ Valuation(q.val, n + k)
                       /\ \A p \in OutPending(m) : Quotient(m, p) \in (n + 1) .. (n + k)
                       /\ \A v \in 1 .. (n + k) : q.val[v] = OutValue(m, Allocate(pb, k).val, v)
  BY FinalizeKeeps
<1>2. Valuation(val, n) /\ SameBut(val, w, n, V)
  BY FinalizeKeeps
<1>3. n \in Nat /\ n + k \in Nat /\ Q \in Nat /\ Q > 1
  BY <1>2, SizeFacts DEF Valuation
<1>4. /\ \A p \in OutPositions : /\ p[1] \in 1 .. Len(out_vars) /\ p[2] \in Limbs
                                 /\ OutVar(p) \in 1 .. n
                                 /\ OutLc(m, p) \in Lcs(n)
                                 /\ LcVal(OutLc(m, p), pb.val) \in Int
      /\ \A p \in OutPending(m) :
           \A r \in OutPending(m) : Quotient(m, p) = Quotient(m, r) => p = r
  BY OutputFacts
<1>5. \A p \in OutPositions : p \in OutPending(m)
  BY <1>4 DEF OutPending, NeedsReduction
<1>6. \A p, r \in OutPositions : OutVar(p) = OutVar(r) => p = r
  <2> SUFFICES ASSUME NEW p \in OutPositions, NEW r \in OutPositions, OutVar(p) = OutVar(r) PROVE p = r
    OBVIOUS
  <2>3. /\ p[1] \in 1 .. Len(out_vars) /\ p[2] \in Limbs
        /\ r[1] \in 1 .. Len(out_vars) /\ r[2] \in Limbs
    BY <1>4
  <2>4. out_vars[p[1]][p[2]] = out_vars[r[1]][r[2]]
    BY DEF OutVar
  <2>1. p[1] = r[1] /\ p[2] = r[2]
    <3> DEFINE p1 == p[1]
               p2 == p[2]
               r1 == r[1]
               r2 == r[2]
    <3>1. /\ p1 \in 1 .. Len(out_vars) /\ p2 \in Limbs
          /\ r1 \in 1 .. Len(out_vars) /\ r2 \in Limbs
          /\ out_vars[p1][p2] = out_vars[r1][r2]
      BY <2>3, <2>4
    <3> HIDE DEF p1, p2, r1, r2
    <3>2. \A a, c \in 1 .. Len(out_vars), b, d \in Limbs :
            out_vars[a][b] = out_vars[c][d] => a = c /\ b = d
      BY Zenon DEF OutsApart
    <3>3. p1 = r1 /\ p2 = r2
      BY <3>1, <3>2, Zenon
    <3> QED
      BY <3>3 DEF p1, p2, r1, r2
  <2>2. p = <<p[1], p[2]>> /\ r = <<r[1], r[2]>>
    BY DEF OutPositions
  <2> QED
    BY <2>1, <2>2
<1> DEFINE sum(p) == LcVal(OutLc(m, p), pb.val)
           total(p) == Wrap(sum(p))
<1>7. ASSUME NEW p \in OutPositions
      PROVE  w[OutVar(p)] = total(p) % Q /\ w[Quotient(m, p)] = total(p) \div Q
             /\ Quotient(m, p) \in 1 .. (n + k)
  <2> DEFINE v == OutVar(p)
             u == Quotient(m, p)
             al == Allocate(pb, k).val
  <2>1. p \in OutPending(m) /\ v \in 1 .. n /\ u \in (n + 1) .. (n + k)
    BY <1>1, <1>4, <1>5
  <2>2. OutPending(m) \subseteq OutPositions
    BY DEF OutPending
  <2>3. (CHOOSE r \in OutPending(m) : v = OutVar(r)) = p
    BY <1>6, <2>1, <2>2
  <2>4. OutValue(m, al, v) = total(p) % Q
    <3>1. \E r \in OutPending(m) : v = OutVar(r)
      BY <2>1
    <3> HIDE DEF v, al
    <3>3. ~\E r \in OutPending(m) : v = Quotient(m, r)
      <4>1. \A x \in (n + 1) .. (n + k) : x # v
        BY <1>3, <2>1
      <4> QED
        BY <1>1, <4>1
    <3>2. OutValue(m, al, v) = Wrap(LcVal(OutLc(m, CHOOSE r \in OutPending(m) : v = OutVar(r)), pb.val)) % Q
      BY <3>1, <3>3, Zenon DEF OutValue
    <3> QED
      BY <2>3, <3>2, Zenon
  <2>5. ~\E r \in OutPending(m) : u = OutVar(r)
    <3>1. \A x \in 1 .. n : x # u
      <4> HIDE DEF u
      <4> QED
        BY <1>3, <2>1
    <3> QED
      BY <1>4, <2>2, <3>1
  <2>6. (CHOOSE r \in OutPending(m) : u = Quotient(m, r)) = p
    BY <1>4, <2>1
  <2>7. OutValue(m, al, u) = total(p) \div Q
    <3>1. \E r \in OutPending(m) : u = Quotient(m, r)
      BY <2>1
    <3> HIDE DEF u, al
    <3>2. OutValue(m, al, u) = Wrap(LcVal(OutLc(m, CHOOSE r \in OutPending(m) : u = Quotient(m, r)), pb.val)) \div Q
      BY <2>5, <3>1, Zenon DEF OutValue
    <3> QED
      BY <2>6, <3>2, Zenon
  <2>8. v \in 1 .. (n + k) /\ u \in 1 .. (n + k)
    <3> HIDE DEF u, v
    <3> QED
      BY <1>3, <2>1
  <2> QED
    BY <1>1, <2>4, <2>7, <2>8
<1>8. \A p \in OutPositions : LcVal(OutLc(m, p), w) = sum(p)
  <2> SUFFICES ASSUME NEW p \in OutPositions PROVE LcVal(OutLc(m, p), w) = sum(p)
    OBVIOUS
  <2> DEFINE lc == OutLc(m, p)
  <2>1. lc \in Lcs(n)
    BY <1>4
  <2>2. FreeLc(lc, V)
    <3>1. p[1] \in 1 .. Len(out_vars) /\ p[2] \in Limbs
      BY <1>4
    <3>2. p[1] \in 1 .. NumPolys(m)
      <4>1. Len(out_vars) \in Nat /\ NumPolys(m) \in Nat
        BY MetaEntry
      <4> QED
        BY <3>1, <4>1
    <3> QED
      BY <3>1, <3>2 DEF FreeMeta, OutLc
  <2> HIDE DEF lc, V, val, w
  <2>3. LcVal(lc, w) = LcVal(lc, val)
    BY <1>2, <2>1, <2>2, FreeSame
  <2> QED
    BY <2>3 DEF lc, val
<1>9. ASSUME NEW p \in OutPositions
      PROVE  (LcVal(OutEquation(m, p).a, w) * LcVal(OutEquation(m, p).b, w) - LcVal(OutEquation(m, p).c, w)) % P = 0
  <2> DEFINE a == Var(OutVar(p))
             b == Var(Quotient(m, p))
             v == OutVar(p)
             u == Quotient(m, p)
             x == total(p)
             d == sum(p)
  <2>1. OutEquation(m, p) = [a |-> OutLc(m, p), b |-> Const(1), c |-> Combine(a, Q, b)]
    BY <1>5 DEF OutEquation
  <2>2. Valuation(w, n + k) /\ n + k \in Nat
    BY <1>1, <1>3
  <2>3. v \in 1 .. (n + k) /\ u \in 1 .. (n + k)
    <3>1. v \in 1 .. n /\ u \in 1 .. (n + k)
      BY <1>4, <1>7
    <3> HIDE DEF v, u
    <3> QED
      BY <1>3, <3>1
  <2>4. LcVal(a, w) = w[v] /\ LcVal(b, w) = w[u] /\ LcVal(Const(1), w) = 1
    <3> DEFINE N == n + k
    <3>1. Valuation(w, N) /\ v \in 1 .. N /\ u \in 1 .. N /\ 1 \in Int
      BY <2>2, <2>3
    <3> HIDE DEF N, w, v, u
    <3> QED
      BY <3>1, AtomValue DEF v, u
  <2>5. a \in Lcs(n + k) /\ b \in Lcs(n + k)
    <3> DEFINE N == n + k
    <3>1. N \in Nat /\ v \in 0 .. N /\ u \in 0 .. N
      BY <2>2, <2>3
    <3> HIDE DEF N, v, u
    <3>2. Var(v) \in Lcs(N) /\ Var(u) \in Lcs(N)
      BY <3>1, AtomLc
    <3> QED
      BY <3>2 DEF N, v, u
  <2>6. LcVal(Combine(a, Q, b), w) = LcVal(a, w) + Q * LcVal(b, w)
    <3> DEFINE N == n + k
    <3>1. Valuation(w, N) /\ a \in Lcs(N) /\ b \in Lcs(N) /\ Q \in Int
      BY <1>3, <2>2, <2>5
    <3> HIDE DEF N, w, a, b
    <3> QED
      BY <3>1, CombineValue
  <2>13. d \in Int
    BY <1>4
  <2>14. x \in Int /\ (d - x) % P = 0
    <3> HIDE DEF sum
    <3> QED
      BY <2>13, WrapIs
  <2>7. x \in Int /\ w[v] = x % Q /\ w[u] = x \div Q
    BY <1>7, <2>14
  <2>8. LcVal(OutLc(m, p), w) = d
    BY <1>8
  <2> DEFINE c == Combine(a, Q, b)
             y == LcVal(c, w)
             f == w[v]
             g == w[u]
  <2>9. y = f + Q * g
    BY <2>4, <2>6
  <2>10. f = x % Q /\ g = x \div Q
    BY <2>7
  <2>11. LcVal(OutEquation(m, p).a, w) = d /\ LcVal(OutEquation(m, p).b, w) = 1
         /\ LcVal(OutEquation(m, p).c, w) = y
    BY <2>1, <2>4, <2>8
  <2>12. d * 1 - y = d - x
    <3>1. x \in Int
      BY <2>7
    <3>4. d \in Int
      BY <2>13
    <3> HIDE DEF y, f, g, x, d
    <3>2. x = (x % Q) + Q * (x \div Q)
      <4>1. Q \in Nat /\ Q > 0
        BY <1>3
      <4> QED
        BY <3>1, <4>1, DivMod
    <3>3. x = f + Q * g
      BY <2>10, <3>1, <3>2
    <3> QED
      BY <2>9, <3>1, <3>3, <3>4
  <2> QED
    BY <2>11, <2>12, <2>14
<1>10. q.constraints = pb.constraints \cup {OutEquation(m, p) : p \in OutPositions}
  BY OutputBoard
<1>11. Holding(q.constraints, w)
  BY <1>9, <1>10 DEF Holding
<1>12. IsSatisfied(q)
  BY <1>11, HoldingAll
<1>13. \A i \in 1 .. Len(out_vars), j \in Limbs : w[out_vars[i][j]] = Wrap(LcVal(m.lc[i][j], pb.val)) % Q
  <2> SUFFICES ASSUME NEW i \in 1 .. Len(out_vars), NEW j \in Limbs
               PROVE  w[out_vars[i][j]] = Wrap(LcVal(m.lc[i][j], pb.val)) % Q
    OBVIOUS
  <2>1. <<i, j>> \in OutPositions /\ <<i, j>>[1] = i /\ <<i, j>>[2] = j
    BY DEF OutPositions
  <2> QED
    BY <1>7, <2>1 DEF OutVar, OutLc
<1> QED
  BY <1>12, <1>13

-----------------------------------------------------------------------------
(* The inductive invariant                                                   *)

\* An input has at least as many polynomials as limbs, so that a replayed
\* declaration assigns all its coefficients.
Covers == \A x \in Habit.contents : Len(x) >= NumLimbs

\* The differences of a program are those a Debug build accepts.
TrustedFor(p, o) ==
  Debug \/ \A n \in 1 .. Len(p) : p[n].op = "Sub" => SubtrahendReduced("Sub", o[ArgOf(p, n, 2)].constraint)

\* Trusted says this of the calls of the program.
LEMMA TrustedIs == ASSUME IsSeq(program) PROVE Trusted <=> TrustedFor(program, ctxts)
<1>1. DOMAIN program = 1 .. Len(program)
  BY DEF IsSeq
<1> QED
  BY <1>1 DEF Trusted, TrustedFor, ArgOf

\* It depends on the calls and on what is recorded of their operands only.
LEMMA TrustedStays ==
  ASSUME NEW N \in Nat, NEW p, IsSeq(p), NEW o, NEW s, NEW w, NEW nv, CallsOK(N, p, o, w, nv),
         Keeps(N, p, o, s, Len(p) + 1), TrustedFor(p, s)
  PROVE  TrustedFor(p, o)
<1> SUFFICES ASSUME ~Debug, NEW n \in 1 .. Len(p), p[n].op = "Sub"
             PROVE  SubtrahendReduced("Sub", o[ArgOf(p, n, 2)].constraint)
  BY DEF TrustedFor
<1>1. SubtrahendReduced("Sub", s[ArgOf(p, n, 2)].constraint)
  BY DEF TrustedFor
<1>2. Len(p) \in Nat /\ n \in Nat /\ n >= 1 /\ n + 1 \in Nat /\ n + 1 <= Len(p) + 1 /\ Len(p) + 1 \in Nat
  BY DEF IsSeq
<1>3. ~IsPublic(p, n)
  BY DEF IsPublic
<1>4. CallOK(N, p, n)
  BY DEF CallsOK
<1>5. UsableAt(N, p, ArgOf(p, n, 2), n + 1)
  BY <1>2, <1>3, <1>4, CallKnows
<1>6. UsableAt(N, p, ArgOf(p, n, 2), Len(p) + 1)
  BY <1>2, <1>5, UsableGrow
<1>7. s[ArgOf(p, n, 2)].constraint = o[ArgOf(p, n, 2)].constraint
  BY <1>6 DEF Keeps, SameTrace
<1> QED
  BY <1>1, <1>7

Reliable == Covers /\ Trusted

Recorded ==
  /\ Traced(Habit.inputs, program, ctxts, wire_id_to_metadata, NumVariables(pb))
  /\ Free(Habit.inputs, program, ctxts, OutSet(out_vars))
  /\ OutsApart(out_vars)

FromCalls == Complete(Habit.inputs, program, ctxts, pb.constraints)

\* What holds of a replay while its wire-id counter is where generation had it
\* after as many calls.
SoFar ==
  /\ finalize # "generated" => FromCalls
  /\ Sat(Habit.inputs, program, ctxts, pc, pb.val)
  /\ Reliable => Right(Habit.inputs, program, ctxts, replayed, pc, pb.val)

Witnessed ==
  /\ finalize = "never" => IsSatisfied(pb)
  /\ Reliable => Right(Habit.inputs, program, ctxts, replayed, Len(program), pb.val)
  /\ Reliable /\ finalize = "late" /\ Pending => OutputIsResult

WRun ==
  /\ Recorded
  /\ phase = "generate" => Apart(program, ctxts) /\ FromCalls
  /\ phase = "replay" /\ global_wire_id = Pubs(program, pc) => SoFar
  /\ phase = "finished" => Witnessed

WInv == Inv /\ (phase # "start" /\ status = "ok" /\ ~Habit.repeatCalls => WRun)

\* The run before a call, and what the call adds.
Before(N, p, o, w, nv, V, cs) ==
  /\ N \in Nat /\ nv \in Nat /\ IsSeq(p) /\ Len(o) \in Nat /\ Len(o) >= Made(N, p, Len(p))
  /\ CallsOK(N, p, o, w, nv) /\ Traced(N, p, o, w, nv) /\ MetasOK(N, p, o, nv)
  /\ Apart(p, o) /\ V \subseteq 1 .. nv /\ Free(N, p, o, V) /\ Complete(N, p, o, cs)

Fresh(p, o, u) == \A m \in 1 .. Len(p) : Wire(p, o, m) # u

NewCall(N, p, c, q, o, s, nv, nx, u) ==
  /\ AppendsCall(p, q, c) /\ nx \in Nat /\ nv <= nx
  /\ Keeps(N, p, o, s, Len(p) + 1)
  /\ u = Wire(q, s, Len(p) + 1) /\ Fresh(p, o, u)
  /\ CallOK(N, q, Len(p) + 1)
  /\ ShapeOK(N, q, s, Len(p) + 1, nv, nx)

AddsOnly(cs, ct, g) == \A e \in ct : e \in cs \/ \E k \in DOMAIN g : e = MulConstraint(g[k])

After(N, q, s, x, nx, V, ct) ==
  Traced(N, q, s, x, nx) /\ Apart(q, s) /\ Free(N, q, s, V) /\ Complete(N, q, s, ct)

\* A new call leaves all that was recorded of the others, and what it records
\* itself is recorded as it should be.
LEMMA CallAdded ==
  ASSUME NEW N, NEW p, NEW o, NEW w, NEW nv, NEW V, NEW cs, Before(N, p, o, w, nv, V, cs),
         NEW c, NEW q, NEW s, NEW nx, NEW u, NewCall(N, p, c, q, o, s, nv, nx, u),
         NEW x, Filed(w, x, u), FiledIs(N, q, s, x, Len(p) + 1),
         NEW g, g = GadgetsOf(N, q, s, Len(p) + 1), DOMAIN g = 1 .. Len(g),
         NEW ct, AddsOnly(cs, ct, g)
  PROVE  After(N, q, s, x, nx, V, ct)
<1>0. /\ N \in Nat /\ nv \in Nat /\ IsSeq(p) /\ Len(o) \in Nat /\ Len(o) >= Made(N, p, Len(p))
      /\ CallsOK(N, p, o, w, nv) /\ Traced(N, p, o, w, nv) /\ MetasOK(N, p, o, nv)
      /\ Apart(p, o) /\ V \subseteq 1 .. nv /\ Free(N, p, o, V) /\ Complete(N, p, o, cs)
      /\ AppendsCall(p, q, c) /\ nx \in Nat /\ nv <= nx
      /\ Keeps(N, p, o, s, Len(p) + 1)
      /\ u = Wire(q, s, Len(p) + 1)
      /\ CallOK(N, q, Len(p) + 1)
      /\ ShapeOK(N, q, s, Len(p) + 1, nv, nx)
      /\ \A m \in 1 .. Len(p) : Wire(p, o, m) # u
      /\ \A e \in ct : e \in cs \/ \E k \in DOMAIN g : e = MulConstraint(g[k])
  BY DEF Before, NewCall, Fresh, AddsOnly
<1> USE <1>0
<1> DEFINE l == Len(p) + 1
<1>1. Len(p) \in Nat /\ l \in Nat /\ l >= 1 /\ l - 1 = Len(p)
  BY DEF IsSeq
<1>2. SameFiled(p, o, w, x)
  BY FiledKept
<1>3. Traced(N, q, s, x, nx)
  BY <1>2, TraceAppended
<1>4. Begins(p, q, Len(p))
  BY DEF AppendsCall, Begins
<1>5. \A m \in 1 .. Len(p) : SameCall(N, p, q, o, s, m)
  BY <1>4, CallsKept
<1>6. Apart(q, s)
  BY <1>5, ApartAppended
<1>7. Complete(N, q, s, ct)
  BY <1>5, CompleteAppended
<1>8. ASSUME NEW a, UsableAt(N, q, a, l)
      PROVE  IsMeta(s[a].constraint, nv) /\ FreeMeta(s[a].constraint, V)
  <2>1. Made(N, q, Len(p)) = Made(N, p, Len(p)) /\ (DeclaredBefore(q, a, l) <=> DeclaredBefore(p, a, l))
    BY DEF AppendsCall, IsDeclared
  <2> HIDE DEF l
  <2>2. UsableAt(N, p, a, l)
    BY <1>1, <1>8, <2>1 DEF UsableAt
  <2> USE DEF l
  <2>3. UsableAt(N, p, a, Len(p) + 1)
    BY <2>2
  <2>4. IsMeta(o[a].constraint, nv)
    BY <1>1, <2>3, MetasOver
  <2>5. FreeMeta(o[a].constraint, V)
    BY <1>1, <2>3, FreeUsable
  <2>6. s[a].constraint = o[a].constraint
    BY <2>3 DEF Keeps, SameTrace
  <2> QED
    BY <2>4, <2>5, <2>6
<1>9. CallOK(N, q, l) /\ ShapeOK(N, q, s, l, nv, nx)
  OBVIOUS
<1> HIDE DEF l
<1>10. ~IsPublic(q, l) => UsableAt(N, q, ArgOf(q, l, 1), l) /\ UsableAt(N, q, ArgOf(q, l, 2), l)
  BY <1>9 DEF CallOK, OperationOK
<1>11. ~IsPublic(q, l) =>
         /\ IsMeta(s[ArgOf(q, l, 1)].constraint, nv) /\ FreeMeta(s[ArgOf(q, l, 1)].constraint, V)
         /\ IsMeta(s[ArgOf(q, l, 2)].constraint, nv) /\ FreeMeta(s[ArgOf(q, l, 2)].constraint, V)
  BY <1>8, <1>10
<1>12. FreeCall(N, q, s, l, V)
  BY <1>1, <1>9, <1>11, ShapeFree
<1>13. Free(N, q, s, V)
  BY <1>5, <1>12, FreeAppended DEF l
<1> QED
  BY <1>3, <1>6, <1>7, <1>13 DEF After

\* The output variables are variables.
LEMMA OutSetIn ==
  ASSUME NEW n, NEW ov \in Seq([Limbs -> 1 .. n])
  PROVE  OutSet(ov) \subseteq 1 .. n
<1> SUFFICES ASSUME NEW v \in OutSet(ov) PROVE v \in 1 .. n
  OBVIOUS
<1>1. PICK p \in (1 .. Len(ov)) \X Limbs : v = ov[p[1]][p[2]]
  BY DEF OutSet
<1>2. p[1] \in 1 .. Len(ov) /\ p[2] \in Limbs
  BY <1>1
<1>3. ov[p[1]] \in [Limbs -> 1 .. n]
  BY <1>2
<1> QED
  BY <1>1, <1>2, <1>3

\* A call of a run that is as it should be is as it should be.
LEMMA RunCalls ==
  ASSUME Inv', phase' # "start", status' = "ok"
  PROVE  /\ CallsOK(Habit.inputs, program, ctxts, wire_id_to_metadata, NumVariables(pb))'
         /\ phase' \in {"replay", "finished"} =>
              ReplaysFrom(Habit.inputs, program, ctxts, replayed, pc, global_wire_id, Habit.loop)'
<1>1. Run'
  BY DEF Inv
<1> QED
  BY <1>1 DEF Run, RunAt

\* An empty protoboard is that of no calls.
LEMMA StartGenerationRun ==
  ASSUME Inv, StartGeneration
  PROVE  WRun'
<1>1. /\ program' = <<>> /\ out_vars' = <<>> /\ phase' = "generate" /\ pb' = EmptyBoard
      /\ kind' = kind
  BY DEF StartGeneration, SetMode
<1>2. Len(<<>>) = 0 /\ 1 .. 0 = {} /\ pb'.constraints = {}
  BY <1>1 DEF EmptyBoard
<1>3. \A N, o, w, nv : Traced(N, <<>>, o, w, nv)
  BY <1>2 DEF Traced, TracedTo
<1>4. \A N, o, V : Free(N, <<>>, o, V)
  BY <1>2 DEF Free
<1>5. OutsApart(<<>>) /\ \A o : Apart(<<>>, o)
  BY <1>2 DEF OutsApart, Apart
<1>6. \A N, o : Complete(N, <<>>, o, {})
  BY DEF Complete
<1>7. Recorded'
  BY <1>1, <1>3, <1>4, <1>5 DEF Recorded
<1>8. Apart(program', ctxts') /\ FromCalls'
  BY <1>1, <1>2, <1>5, <1>6 DEF FromCalls
<1> QED
  BY <1>1, <1>7, <1>8 DEF WRun

\* What the invariant says in generation.
LEMMA GenerateRun ==
  ASSUME Inv, WRun, phase = "generate", status = "ok"
  PROVE  LET N == Habit.inputs
             n == NumVariables(pb)
         IN  /\ N \in Nat /\ n \in Nat /\ IsSeq(program) /\ IsBoard(pb, n)
             /\ CallsOK(N, program, ctxts, wire_id_to_metadata, n)
             /\ Traced(N, program, ctxts, wire_id_to_metadata, n)
             /\ MetasOK(N, program, ctxts, n)
             /\ Len(ctxts) \in Nat /\ Len(ctxts) >= Made(N, program, Len(program))
             /\ Len(ctxts) = Made(N, program, Len(program))
             /\ global_wire_id = Pubs(program, Len(program))
             /\ Apart(program, ctxts)
             /\ out_vars \in Seq([Limbs -> 1 .. n]) /\ OutsApart(out_vars)
             /\ OutSet(out_vars) \subseteq 1 .. n
             /\ Free(N, program, ctxts, OutSet(out_vars))
             /\ Complete(N, program, ctxts, pb.constraints)
<1> DEFINE N == Habit.inputs
           n == NumVariables(pb)
<1>1. /\ N \in Nat /\ n \in Nat /\ IsSeq(program) /\ IsBoard(pb, n) /\ BoardOK(pb, out_vars)
      /\ Len(ctxts) \in Nat
  BY InvFacts
<1>2. /\ CallsOK(N, program, ctxts, wire_id_to_metadata, n)
      /\ MetasOK(N, program, ctxts, n)
      /\ CallsFrom(N, program, ctxts, global_wire_id)
  BY GenerateFacts
<1>3. Recorded /\ Apart(program, ctxts) /\ FromCalls
  BY DEF WRun
<1>4. out_vars \in Seq([Limbs -> 1 .. n])
  BY <1>1 DEF BoardOK
<1>5. OutSet(out_vars) \subseteq 1 .. n
  BY <1>4, OutSetIn
<1>6. Len(ctxts) = Made(N, program, Len(program)) /\ global_wire_id = Pubs(program, Len(program))
  BY <1>2 DEF CallsFrom
<1>7. Len(ctxts) >= Made(N, program, Len(program))
  BY <1>1, <1>6
<1> QED
  BY <1>1, <1>2, <1>3, <1>4, <1>5, <1>6, <1>7 DEF Recorded, FromCalls

\* What it says after one more call in generation.
LEMMA CallRun ==
  ASSUME phase' = "generate", kind' = kind, OutsApart(out_vars'),
         Traced(Habit.inputs, program', ctxts', wire_id_to_metadata', NumVariables(pb')),
         Apart(program', ctxts'), Free(Habit.inputs, program', ctxts', OutSet(out_vars')),
         Complete(Habit.inputs, program', ctxts', pb'.constraints)
  PROVE  WRun'
<1>1. Habit' = Habit
  BY DEF Habit
<1>2. Recorded' /\ FromCalls'
  BY <1>1 DEF Recorded, FromCalls
<1> QED
  BY <1>2 DEF WRun

\* A declaration is recorded as one.
LEMMA GenPublicInputRun ==
  ASSUME Inv, WRun, NEW k \in Inputs, GenPublicInput(k), Inv'
  PROVE  WRun'
<1> DEFINE N == Habit.inputs
           n == NumVariables(pb)
           x == ctxts[k].content
           gen == PublicInputConstraint(x)
           d == Len(x) * NumLimbs
           wire == PublicWire(global_wire_id)
           e == [ctxts[k] EXCEPT !.wire = wire, !.constraint = gen.meta]
           c == [op |-> "Public", args |-> <<k>>]
           q == Append(program, c)
           l == Len(program) + 1
<1>1. /\ phase = "generate" /\ phase' = phase /\ k \notin Declared /\ PublicInput(k)
      /\ program' = q /\ kind' = kind
  BY DEF GenPublicInput, Generating, Called
<1>2. status = "ok"
  BY <1>1 DEF PublicInput
<1>3. /\ ObjectsOK(N, Habit.contents, ctxts) /\ Inputs = 1 .. N
      /\ k \in 1 .. Len(ctxts) /\ IsObject(ctxts[k]) /\ Len(x) \in Nat
      /\ DOMAIN ctxts = 1 .. Len(ctxts)
  BY InvFacts
<1>4. /\ N \in Nat /\ n \in Nat /\ IsSeq(program) /\ IsBoard(pb, n)
      /\ CallsOK(N, program, ctxts, wire_id_to_metadata, n)
      /\ Traced(N, program, ctxts, wire_id_to_metadata, n)
      /\ MetasOK(N, program, ctxts, n)
      /\ Len(ctxts) \in Nat /\ Len(ctxts) >= Made(N, program, Len(program))
      /\ Len(ctxts) = Made(N, program, Len(program))
      /\ global_wire_id = Pubs(program, Len(program))
      /\ Apart(program, ctxts) /\ OutsApart(out_vars) /\ OutSet(out_vars) \subseteq 1 .. n
      /\ Free(N, program, ctxts, OutSet(out_vars))
      /\ Complete(N, program, ctxts, pb.constraints)
  BY <1>1, <1>2, GenerateRun
<1>5. mode = "CONSTRAINT_GENERATION"
  BY <1>1, <1>2, GenerateFacts
<1>6. /\ ctxts' = [ctxts EXCEPT ![k].wire = wire, ![k].constraint = gen.meta]
      /\ pb' = gen.board /\ File(wire, gen.meta.witness) /\ status' = status /\ out_vars' = out_vars
  BY <1>1, <1>5 DEF PublicInput, PublicWire
<1>7. Holds(e, ctxts[k].content, wire, gen.meta)
  <2> DEFINE meta == gen.meta
  <2> HIDE DEF wire, gen
  <2>1. IsObject(ctxts[k])
    BY <1>3
  <2> HIDE DEF meta
  <2> QED
    BY <2>1, ConstraintSet, Zenon
<1>8. Updated(ctxts, k, e, ctxts')
  <2> HIDE DEF wire, gen
  <2> QED
    BY <1>3, <1>6 DEF Updated
<1>9. /\ d \in Nat /\ n + d \in Nat /\ IsBoard(gen.board, n + d) /\ gen.board.constraints = pb.constraints
      /\ NumPolys(gen.meta) = Len(x)
      /\ \A i \in 1 .. Len(x), j \in Limbs : /\ gen.meta.lc[i][j] = Var(VariableAt(n, i, j))
                                             /\ gen.meta.max_value[i][j] = Q - 1
  <2>1. IsBoard(pb, n) /\ Len(x) \in Nat
    BY <1>3, <1>4
  <2> HIDE DEF n, x
  <2> QED
    BY <2>1, PublicBoard
<1>10. gen.meta.witness = WitnessMeta(n + 1, <<>>)
  <2>1. \A b : PublicInputConstraint(b).meta.witness = WitnessMeta(NumVariables(pb) + 1, <<>>)
    BY DEF PublicInputConstraint, ConstraintMeta, Matrix
  <2>2. gen.meta.witness = WitnessMeta(NumVariables(pb) + 1, <<>>)
    BY <2>1
  <2> QED
    BY <2>2
<1>11. DeclaredShape(gen.meta, Len(x), n, n + d)
  <2>1. n + d <= n + d
    BY <1>9
  <2> HIDE DEF gen
  <2> QED
    BY <1>3, <1>9, <1>10, <2>1 DEF DeclaredShape
<1>12. AppendsCall(program, q, c)
  BY <1>4, CallAppended
<1> HIDE DEF e, gen, d, wire, n, N, q, x
<1>13. /\ Len(ctxts') = Len(ctxts) /\ ctxts'[k] = e
       /\ \A j \in 1 .. Len(ctxts) : j # k => ctxts'[j] = ctxts[j]
  BY <1>3, <1>4, <1>7, <1>8, ObjectChanged DEF Holds, x
<1>14. ~IsDeclared(program, k)
  BY <1>1, <1>4, DeclaredIs
<1>15. Filed(wire_id_to_metadata, wire_id_to_metadata', wire)
       /\ wire_id_to_metadata'[wire] = gen.meta.witness
  BY <1>6 DEF File, Filed
<1>16. NumVariables(pb') = n + d /\ n <= n + d
  <2>1. NumVariables(pb') = n + d
    BY <1>6, <1>9, BoardSize
  <2> QED
    BY <1>4, <1>9, <2>1
<1>17. Len(program) \in Nat /\ l \in Nat /\ l - 1 = Len(program)
  BY <1>4 DEF IsSeq
<1>18. Keeps(N, program, ctxts, ctxts', Len(program) + 1)
  <2> SUFFICES ASSUME NEW j, UsableAt(N, program, j, Len(program) + 1) PROVE SameTrace(ctxts, ctxts', j)
    BY DEF Keeps
  <2>1. j \in 1 .. Len(ctxts) /\ (j \in 1 .. N => IsDeclared(program, j))
    BY <1>4, <1>17 DEF UsableAt, IsDeclared
  <2>2. j # k
    BY <1>3, <1>14, <2>1
  <2> QED
    BY <1>13, <2>1, <2>2 DEF SameTrace
<1>19. /\ IsPublic(q, l) /\ ArgOf(q, l, 1) = k /\ Object(N, q, l) = k
  <2>1. q[l] = c
    BY <1>12 DEF AppendsCall
  <2> QED
    BY <2>1 DEF IsPublic, ArgOf, Object
<1>20. Wire(q, ctxts', l) = wire
  <2>1. Pubs(q, l) = Pubs(program, Len(program)) + 1 /\ Pubs(program, Len(program)) \in Nat
    BY <1>12 DEF AppendsCall
  <2>2. Pubs(q, l) - 1 = global_wire_id
    BY <1>4, <2>1
  <2> QED
    BY <1>19, <2>2 DEF Wire, wire
<1>21. \A m \in 1 .. Len(program) : Wire(program, ctxts, m) # wire
  BY <1>4, DeclarationFresh DEF wire
<1>22. ctxts'[k].constraint = gen.meta /\ ctxts'[k].content = x
  <2>1. e.constraint = gen.meta /\ e.content = ctxts[k].content
    BY <1>7 DEF Holds
  <2> QED
    BY <1>13, <2>1 DEF x
<1>23. FiledIs(N, q, ctxts', wire_id_to_metadata', l)
  BY <1>15, <1>19, <1>20, <1>22 DEF FiledIs
<1>24. ShapeOK(N, q, ctxts', l, n, n + d)
  BY <1>11, <1>19, <1>22 DEF ShapeOK
<1>25. CallOK(N, q, l)
  <2>1. DeclaredBefore(q, k, l) <=> IsDeclared(program, k)
    BY <1>12 DEF AppendsCall
  <2> QED
    BY <1>3, <1>14, <1>19, <2>1 DEF CallOK, DeclarationOK
<1> DEFINE g == <<>>
           V == OutSet(out_vars)
           w == wire_id_to_metadata
           s == ctxts'
           z == wire_id_to_metadata'
           cs == pb.constraints
<1>26. g = GadgetsOf(N, q, s, l) /\ DOMAIN g = 1 .. Len(g)
  BY <1>10, <1>19, <1>22 DEF GadgetsOf, WitnessMeta
<1>27. After(N, q, s, z, n + d, V, cs)
  <2> DEFINE nx == n + d
  <2>1. Fresh(program, ctxts, wire)
    BY <1>21 DEF Fresh
  <2>2. Before(N, program, ctxts, w, n, V, cs)
    BY <1>4 DEF Before
  <2>3. NewCall(N, program, c, q, ctxts, s, n, nx, wire)
    BY <1>9, <1>12, <1>16, <1>18, <1>20, <1>24, <1>25, <2>1 DEF NewCall
  <2>4. AddsOnly(cs, cs, g)
    BY DEF AddsOnly
  <2>5. Filed(w, z, wire) /\ FiledIs(N, q, s, z, Len(program) + 1)
    BY <1>15, <1>23
  <2>6. g = GadgetsOf(N, q, s, Len(program) + 1) /\ DOMAIN g = 1 .. Len(g)
    BY <1>26
  <2> HIDE DEF c, l, g, V, w, s, z, cs, nx
  <2> QED
    BY <2>2, <2>3, <2>4, <2>5, <2>6, CallAdded DEF nx
<1>28. pb'.constraints = cs
  BY <1>6, <1>9
<1> QED
  BY <1>1, <1>4, <1>6, <1>16, <1>27, <1>28, CallRun DEF N, After

\* What an operation records has the shape of its operation, and it adds the
\* constraints of its gadgets.
LEMMA OperationShape ==
  ASSUME NEW op \in Linear \cup Quadratic, NEW n, IsBoard(pb, n), NEW m1, NEW m2,
         IsMeta(m1, n), IsMeta(m2, n), OperandsFit(op, m1, m2), NEW gen, gen = Constraint(op, m1, m2),
         FieldHasRoom(gen.meta)
  PROVE  \E c \in Nat : /\ n + c \in Nat /\ n <= n + c /\ IsBoard(gen.board, n + c)
                        /\ OperatedShape(op, m1, m2, n, n + c, gen.meta)
                        /\ DOMAIN gen.meta.witness.gadgets = 1 .. Len(gen.meta.witness.gadgets)
                        /\ AddsOnly(pb.constraints, gen.board.constraints, gen.meta.witness.gadgets)
<1>1. n \in Nat /\ NumVariables(pb) = n
  BY BoardSize
<1>2. op \in Linear <=> op \notin Quadratic
  BY DEF Linear, Quadratic
<1>3. CASE op \in Linear
  <2>1. gen = LinearConstraint(op, m1, m2)
    BY <1>3 DEF Constraint
  <2>2. /\ gen.board = pb /\ NumPolys(gen.meta) = NumPolys(m1)
        /\ gen.meta.witness = WitnessMeta(0, <<>>)
        /\ LinearShape(op, m1, m2, gen.meta)
    <3> DEFINE z == LinearConstraint(op, m1, m2)
    <3>1. /\ z.board = pb
          /\ NumPolys(z.meta) = NumPolys(m1)
          /\ z.meta.witness = WitnessMeta(0, <<>>)
          /\ \A i \in 1 .. NumPolys(m1), j \in Limbs :
               /\ z.meta.lc[i][j] = Combine(Combine(m1.lc[i][j], Sign(op), m2.lc[i][j]), 1,
                                            Const(IF op = "Sub" THEN Q ELSE 0))
               /\ z.meta.max_value[i][j] = m1.max_value[i][j]
                                             + (IF op = "Sub" THEN Q ELSE m2.max_value[i][j])
      BY <1>1, <1>3, LinearMeta
    <3>2. gen = z
      BY <2>1
    <3> HIDE DEF z
    <3> QED
      BY <3>1, <3>2 DEF LinearShape
  <2>3. gen.meta.witness.gadgets = <<>>
    BY <2>2, NoGadgets
  <2>4. OperatedShape(op, m1, m2, n, n + 0, gen.meta)
    BY <1>2, <1>3, <2>2, <2>3 DEF OperatedShape
  <2>5. DOMAIN gen.meta.witness.gadgets = 1 .. Len(gen.meta.witness.gadgets)
    BY <2>3
  <2>6. AddsOnly(pb.constraints, gen.board.constraints, gen.meta.witness.gadgets)
    BY <2>2 DEF AddsOnly
  <2>7. IsBoard(gen.board, n + 0) /\ n + 0 \in Nat /\ n <= n + 0 /\ 0 \in Nat
    BY <1>1, <2>2
  <2> QED
    BY <2>4, <2>5, <2>6, <2>7
<1>4. CASE op \in Quadratic
  <2> DEFINE z == QuadraticConstraint(op, m1, m2)
             g == ProductGadgets(Products(op), m1, m2, n)
             c == Len(Products(op)) * NumLimbs
  <2>1. gen = z
    BY <1>2, <1>4 DEF Constraint
  <2>2. /\ c \in Nat /\ n + c \in Nat
        /\ IsBoard(z.board, n + c)
        /\ z.board.constraints = pb.constraints \cup {MulConstraint(g[k]) : k \in DOMAIN g}
        /\ NumPolys(z.meta) = 3
        /\ z.meta.witness.gadgets = g
        /\ g \in Seq(Gadgets(n + c))
    BY <1>4, QuadraticMeta
  <2>3. \A i \in 1 .. 3, j \in Limbs :
          /\ z.meta.lc[i][j] = SumOfProducts(n, Sums(op)[i], j)
          /\ z.meta.max_value[i][j] = SumOfBounds(Products(op), m1, m2, Sums(op)[i], j)
    BY <1>1 DEF QuadraticConstraint, ConstraintMeta, Matrix
  <2> HIDE DEF z, g
  <2>4. QuadraticShape(op, m1, m2, n, z.meta)
    BY <2>2, <2>3 DEF QuadraticShape
  <2>5. OperatedShape(op, m1, m2, n, n + c, z.meta)
    <3>1. n + c <= n + c
      BY <2>2
    <3> QED
      BY <1>2, <1>4, <2>1, <2>2, <2>4, <3>1 DEF OperatedShape, g
  <2>6. AddsOnly(pb.constraints, z.board.constraints, z.meta.witness.gadgets)
    BY <2>2 DEF AddsOnly
  <2>7. DOMAIN z.meta.witness.gadgets = 1 .. Len(z.meta.witness.gadgets)
    BY <2>2
  <2>8. n <= n + c
    BY <1>1, <2>2
  <2> HIDE DEF c
  <2> QED
    BY <2>1, <2>2, <2>5, <2>6, <2>7, <2>8
<1> QED
  BY <1>3, <1>4

\* An operation is recorded as one.
LEMMA GenOperationRun ==
  ASSUME Inv, WRun, NEW op \in Habit.operations, NEW k \in DOMAIN ctxts, NEW l \in DOMAIN ctxts,
         GenOperation(op, k, l), ~Habit.repeatCalls, status' = "ok"
  PROVE  WRun'
<1> DEFINE N == Habit.inputs
           n == NumVariables(pb)
           m1 == ctxts[k].constraint
           m2 == ctxts[l].constraint
           gen == Constraint(op, m1, m2)
           wire == WireId(op, k, l)
           content == FheEval(op, ctxts[k].content, ctxts[l].content)
           f == [ctxts[k] EXCEPT !.content = content, !.wire = wire]
           e == [f EXCEPT !.constraint = gen.meta]
           c == [op |-> op, args |-> <<k, l>>]
           q == Append(program, c)
           a == Len(program) + 1
<1>1. /\ phase = "generate" /\ phase' = phase /\ (op = "Square" => k = l) /\ UpToDate(k) /\ UpToDate(l)
      /\ Operation(op, k, l) /\ \A i \in DOMAIN program : program[i] # c
      /\ program' = q /\ kind' = kind
  BY DEF GenOperation, Generating, Called
<1>2. status = "ok" /\ out_vars' = out_vars
  BY <1>1 DEF Operation
<1>3. /\ ObjectsOK(N, Habit.contents, ctxts) /\ Inputs = 1 .. N
      /\ k \in 1 .. Len(ctxts) /\ l \in 1 .. Len(ctxts) /\ IsObject(ctxts[k])
      /\ kind \in DOMAIN Kinds
  BY InvFacts
<1>4. /\ N \in Nat /\ n \in Nat /\ IsSeq(program) /\ IsBoard(pb, n)
      /\ CallsOK(N, program, ctxts, wire_id_to_metadata, n)
      /\ Traced(N, program, ctxts, wire_id_to_metadata, n)
      /\ MetasOK(N, program, ctxts, n)
      /\ Len(ctxts) \in Nat /\ Len(ctxts) >= Made(N, program, Len(program))
      /\ Len(ctxts) = Made(N, program, Len(program))
      /\ Apart(program, ctxts) /\ OutsApart(out_vars) /\ OutSet(out_vars) \subseteq 1 .. n
      /\ Free(N, program, ctxts, OutSet(out_vars))
      /\ Complete(N, program, ctxts, pb.constraints)
  BY <1>1, <1>2, GenerateRun
<1>5. mode = "CONSTRAINT_GENERATION"
  BY <1>1, <1>2, GenerateFacts
<1>6. op \in Linear \cup Quadratic
  BY <1>3, HabitFacts
<1>7. AppendsCall(program, q, c)
  BY <1>4, CallAppended
<1>8. op # "Public"
  BY <1>6, WiresApart
<1>9. /\ m1 # None /\ m2 # None /\ OperandsFit(op, m1, m2) /\ FieldHasRoom(gen.meta)
      /\ ctxts' = Append(ctxts, e) /\ pb' = gen.board /\ File(wire, gen.meta.witness)
  BY <1>1, <1>5 DEF Operation, Stop
<1>10. Usable(N, program, k) /\ Usable(N, program, l)
  <2>1. \A j : UpToDate(j) /\ ctxts[j].constraint # None => Usable(N, program, j)
    BY <1>3, <1>4, DeclaredIs DEF UpToDate, Usable
  <2> QED
    BY <1>1, <1>9, <2>1
<1>11. IsMeta(m1, n) /\ IsMeta(m2, n)
  BY <1>3, <1>4, <1>10 DEF MetasOK
<1>12. Holds(e, content, wire, gen.meta)
  <2> HIDE DEF content, wire, gen
  <2> QED
    BY <1>3, ResultSet, Zenon
<1>13. Extended(ctxts, e, ctxts')
  BY <1>9 DEF Extended
<1>14. PICK v \in Nat : /\ n + v \in Nat /\ n <= n + v /\ IsBoard(gen.board, n + v)
                        /\ OperatedShape(op, m1, m2, n, n + v, gen.meta)
                        /\ DOMAIN gen.meta.witness.gadgets = 1 .. Len(gen.meta.witness.gadgets)
                        /\ AddsOnly(pb.constraints, gen.board.constraints, gen.meta.witness.gadgets)
  <2>1. gen = Constraint(op, m1, m2)
    OBVIOUS
  <2> HIDE DEF m1, m2, n, gen
  <2> QED
    BY <1>4, <1>6, <1>9, <1>11, <2>1, OperationShape
<1>15. wire = OpWire(op, ctxts[k].wire, ctxts[l].wire)
  BY DEF WireId, OpWire
<1>16. Filed(wire_id_to_metadata, wire_id_to_metadata', wire)
       /\ wire_id_to_metadata'[wire] = gen.meta.witness
  <2> HIDE DEF gen, wire
  <2> QED
    BY <1>9 DEF File, Filed
<1> HIDE DEF e, gen, wire, n, N, q, content, f
<1>17. /\ Len(ctxts') = Len(ctxts) + 1 /\ ctxts'[Len(ctxts) + 1] = e
       /\ \A j \in 1 .. Len(ctxts) : ctxts'[j] = ctxts[j]
  BY <1>3, <1>4, <1>12, <1>13, ObjectAppended DEF Holds
<1>18. NumVariables(pb') = n + v
  BY <1>9, <1>14, BoardSize
<1>19. Len(program) \in Nat /\ a \in Nat /\ a >= 1 /\ a - 1 = Len(program) /\ DOMAIN program = 1 .. Len(program)
  BY <1>4 DEF IsSeq
<1>20. UsableAt(N, program, k, a) /\ UsableAt(N, program, l, a)
  BY <1>3, <1>4, <1>10, <1>19 DEF UsableAt, Usable, IsDeclared
<1>21. Keeps(N, program, ctxts, ctxts', a)
  <2> SUFFICES ASSUME NEW j, UsableAt(N, program, j, a) PROVE SameTrace(ctxts, ctxts', j)
    BY DEF Keeps
  <2>1. j \in 1 .. Len(ctxts)
    BY <1>4, <1>19 DEF UsableAt
  <2> QED
    BY <1>17, <2>1 DEF SameTrace
<1>22. Fresh(program, ctxts, wire)
  <2>1. \A i \in 1 .. Len(program) : program[i] # c
    BY <1>1, <1>19
  <2>2. \A m \in 1 .. Len(program) : Wire(program, ctxts, m) # OpWire(op, ctxts[k].wire, ctxts[l].wire)
    BY <1>1, <1>4, <1>6, <1>20, <2>1, OperationFresh
  <2> QED
    BY <1>15, <2>2 DEF Fresh
<1>23. /\ q[a] = c /\ ~IsPublic(q, a) /\ ArgOf(q, a, 1) = k /\ ArgOf(q, a, 2) = l /\ q[a].op = op
  <2>1. q[a] = c
    BY <1>7 DEF AppendsCall
  <2> QED
    BY <1>8, <2>1 DEF IsPublic, ArgOf
<1>24. Object(N, q, a) = Len(ctxts) + 1
  <2>1. Made(N, q, a) = Made(N, program, Len(program)) + 1
    BY <1>4, <1>7, <1>8 DEF AppendsCall
  <2> QED
    BY <1>4, <1>23, <2>1 DEF Object
<1>25. /\ ctxts'[k] = ctxts[k] /\ ctxts'[l] = ctxts[l]
       /\ ctxts'[Object(N, q, a)].constraint = gen.meta
  BY <1>3, <1>12, <1>17, <1>24 DEF Holds
<1>26. Wire(q, ctxts', a) = wire
  BY <1>15, <1>23, <1>25 DEF Wire
<1>27. FiledIs(N, q, ctxts', wire_id_to_metadata', a)
  BY <1>16, <1>25, <1>26 DEF FiledIs
<1>28. ShapeOK(N, q, ctxts', a, n, n + v)
  BY <1>14, <1>23, <1>25 DEF ShapeOK
<1>29. CallOK(N, q, a)
  <2>1. \A j : DeclaredBefore(q, j, a) <=> IsDeclared(program, j)
    BY <1>7 DEF AppendsCall
  <2>2. Made(N, q, a - 1) = Made(N, program, a - 1)
    BY <1>4, <1>7, <1>19 DEF AppendsCall
  <2>3. \A j : UsableAt(N, program, j, a) => UsableAt(N, q, j, a)
    BY <2>1, <2>2 DEF UsableAt, IsDeclared
  <2>4. UsableAt(N, q, k, a) /\ UsableAt(N, q, l, a)
    BY <1>20, <2>3
  <2> QED
    BY <1>1, <1>6, <1>23, <2>4 DEF CallOK, OperationOK
<1> DEFINE g == gen.meta.witness.gadgets
           V == OutSet(out_vars)
           w == wire_id_to_metadata
           s == ctxts'
           z == wire_id_to_metadata'
           cs == pb.constraints
           ct == gen.board.constraints
<1>30. g = GadgetsOf(N, q, s, a) /\ DOMAIN g = 1 .. Len(g)
  BY <1>14, <1>25 DEF GadgetsOf
<1>31. After(N, q, s, z, n + v, V, ct)
  <2> DEFINE nx == n + v
  <2>1. AddsOnly(cs, ct, g)
    BY <1>14
  <2>2. Before(N, program, ctxts, w, n, V, cs)
    BY <1>4 DEF Before
  <2>3. NewCall(N, program, c, q, ctxts, s, n, nx, wire)
    BY <1>7, <1>14, <1>21, <1>22, <1>26, <1>28, <1>29 DEF NewCall
  <2>5. Filed(w, z, wire) /\ FiledIs(N, q, s, z, Len(program) + 1)
    BY <1>16, <1>27
  <2>6. g = GadgetsOf(N, q, s, Len(program) + 1) /\ DOMAIN g = 1 .. Len(g)
    BY <1>30
  <2> HIDE DEF c, a, g, V, w, s, z, cs, ct, nx
  <2> QED
    BY <2>1, <2>2, <2>3, <2>5, <2>6, CallAdded DEF nx
<1> QED
  BY <1>1, <1>2, <1>4, <1>9, <1>18, <1>31, CallRun DEF N, After

\* What is recorded stays so as long as the objects keep their metadata, and
\* with more variables.
LEMMA RunStays ==
  ASSUME NEW N \in Nat, NEW p, IsSeq(p), NEW o, NEW s, NEW w, NEW nv \in Int, NEW nx \in Int, nv <= nx,
         CallsOK(N, p, o, w, nv), Traced(N, p, o, w, nv), Keeps(N, p, o, s, Len(p) + 1)
  PROVE  /\ Traced(N, p, s, w, nx)
         /\ \A V : Free(N, p, o, V) => Free(N, p, s, V)
         /\ \A cs : Complete(N, p, o, cs) => Complete(N, p, s, cs)
<1>1. Begins(p, p, Len(p)) /\ SameFiled(p, o, w, w)
  BY DEF Begins, SameFiled
<1>2. Traced(N, p, s, w, nx)
  BY <1>1, TracedStays DEF Traced
<1>3. \A m \in 1 .. Len(p) : SameCall(N, p, p, o, s, m)
  BY <1>1, CallsKept
<1>4. ASSUME NEW V, Free(N, p, o, V) PROVE Free(N, p, s, V)
  <2> SUFFICES ASSUME NEW m \in 1 .. Len(p) PROVE FreeCall(N, p, s, m, V)
    BY DEF Free
  <2>1. FreeCall(N, p, o, m, V)
    BY <1>4 DEF Free
  <2>2. /\ s[Object(N, p, m)].constraint = o[Object(N, p, m)].constraint
        /\ GadgetsOf(N, p, s, m) = GadgetsOf(N, p, o, m)
    BY <1>3 DEF SameCall
  <2> QED
    BY <2>1, <2>2 DEF FreeCall
<1>5. ASSUME NEW cs, Complete(N, p, o, cs) PROVE Complete(N, p, s, cs)
  <2> SUFFICES ASSUME NEW e \in cs
               PROVE  \E m \in 1 .. Len(p) : \E i \in 1 .. Len(GadgetsOf(N, p, s, m)) :
                        e = MulConstraint(GadgetsOf(N, p, s, m)[i])
    BY DEF Complete
  <2>1. PICK m \in 1 .. Len(p) : \E i \in 1 .. Len(GadgetsOf(N, p, o, m)) :
          e = MulConstraint(GadgetsOf(N, p, o, m)[i])
    BY <1>5 DEF Complete
  <2>2. GadgetsOf(N, p, s, m) = GadgetsOf(N, p, o, m)
    BY <1>3 DEF SameCall
  <2> QED
    BY <2>1, <2>2
<1> QED
  BY <1>2, <1>4, <1>5

\* Objects that stay keep their metadata.
LEMMA KeepsAll ==
  ASSUME NEW N, NEW p, NEW o
  PROVE  Keeps(N, p, o, o, Len(p) + 1)
BY DEF Keeps, SameTrace

\* No call mentions the variables of an output declared after it.
LEMMA GenPublicOutputRun ==
  ASSUME Inv, WRun, NEW i \in {2, 3}, GenPublicOutput(i)
  PROVE  WRun'
<1> DEFINE N == Habit.inputs
           n == NumVariables(pb)
           x == Matrix(i, LAMBDA a, b : 0)
           gen == PublicInputConstraint(x)
           c == Len(x) * NumLimbs
           V == OutSet(out_vars')
<1>1. phase = "generate" /\ ConstrainPublicOutput(x) /\ UNCHANGED clientVars
  BY ZenonT(30) DEF GenPublicOutput
<1>2. /\ status = "ok" /\ pb' = gen.board
      /\ out_vars' = [a \in 1 .. Len(x) |-> [b \in Limbs |-> VariableAt(n, a, b)]]
      /\ wire_id_to_metadata' = wire_id_to_metadata /\ ctxts' = ctxts
  BY <1>1 DEF ConstrainPublicOutput, Matrix
<1>3. /\ N \in Nat /\ n \in Nat /\ IsSeq(program) /\ IsBoard(pb, n)
      /\ CallsOK(N, program, ctxts, wire_id_to_metadata, n)
      /\ Traced(N, program, ctxts, wire_id_to_metadata, n)
      /\ MetasOK(N, program, ctxts, n)
      /\ Len(ctxts) \in Nat /\ Len(ctxts) >= Made(N, program, Len(program))
      /\ Apart(program, ctxts) /\ Complete(N, program, ctxts, pb.constraints)
  <2> HIDE DEF x, V
  <2> QED
    BY <1>1, <1>2, GenerateRun
<1>4. Len(x) = i /\ i \in Nat
  <2>1. x = [a \in 1 .. i |-> [b \in Limbs |-> 0]]
    BY DEF Matrix
  <2> HIDE DEF x
  <2>2. DOMAIN x = 1 .. i /\ x = [a \in 1 .. i |-> x[a]]
    BY <2>1
  <2>3. i \in Nat
    OBVIOUS
  <2> QED
    BY <2>2, <2>3, SeqWhen
<1> HIDE DEF x
<1>5. c \in Nat /\ n + c \in Nat /\ IsBoard(gen.board, n + c) /\ gen.board.constraints = pb.constraints
  BY <1>3, <1>4, PublicBoard
<1>6. /\ \A a \in 1 .. Len(x), b \in Limbs : VariableAt(n, a, b) \in (n + 1) .. (n + c)
      /\ \A a \in 1 .. Len(x), b \in Limbs, u \in 1 .. Len(x), v \in Limbs :
           VariableAt(n, a, b) = VariableAt(n, u, v) => a = u /\ b = v
  <2>1. \A a \in 1 .. Len(x), b \in Limbs : VariableAt(n, a, b) \in (n + 1) .. (n + c)
    BY <1>3, <1>4, VariablesApart
  <2>2. \A a \in 1 .. Len(x), b \in Limbs, u \in 1 .. Len(x), v \in Limbs :
          VariableAt(n, a, b) = VariableAt(n, u, v) => a = u /\ b = v
    <3> DEFINE l == Len(x)
    <3>1. l \in Nat /\ n \in Nat
      BY <1>3, <1>4
    <3> HIDE DEF l, n
    <3>2. \A a \in 1 .. l, b \in Limbs, u \in 1 .. l, v \in Limbs :
            VariableAt(n, a, b) = VariableAt(n, u, v) => a = u /\ b = v
      BY <3>1, SameVariable, ZenonT(60)
    <3> QED
      BY <3>2 DEF l
  <2> QED
    BY <2>1, <2>2
<1> HIDE DEF gen, c, n, N
<1>7. n <= n + c /\ n \in Int /\ n + c \in Int
  BY <1>3, <1>5
<1>8. NumVariables(pb') = n + c
  BY <1>2, <1>5, BoardSize
<1>9. /\ Len(out_vars') = Len(x)
      /\ \A a \in 1 .. Len(x), b \in Limbs : out_vars'[a][b] = VariableAt(n, a, b)
  <2>1. DOMAIN out_vars' = 1 .. Len(x)
    BY <1>2
  <2>2. Len(out_vars') = Len(x)
    <3>1. out_vars' = [a \in 1 .. Len(x) |-> out_vars'[a]]
      BY <1>2
    <3> QED
      BY <1>4, <2>1, <3>1, SeqWhen
  <2> QED
    BY <1>2, <2>2
<1>10. \A v \in V : v \in Nat /\ v > n
  <2> SUFFICES ASSUME NEW v \in V PROVE v \in Nat /\ v > n
    OBVIOUS
  <2>1. PICK p \in (1 .. Len(out_vars')) \X Limbs : v = out_vars'[p[1]][p[2]]
    BY DEF OutSet
  <2>2. p[1] \in 1 .. Len(x) /\ p[2] \in Limbs
    BY <1>9, <2>1
  <2>3. v \in (n + 1) .. (n + c)
    BY <1>6, <1>9, <2>1, <2>2
  <2> QED
    BY <1>3, <1>5, <2>3
<1>11. OutsApart(out_vars')
  <2> SUFFICES ASSUME NEW a \in 1 .. Len(x), NEW u \in 1 .. Len(x), NEW b \in Limbs, NEW v \in Limbs,
                      out_vars'[a][b] = out_vars'[u][v]
               PROVE  a = u /\ b = v
    BY <1>9 DEF OutsApart
  <2>1. VariableAt(n, a, b) = VariableAt(n, u, v)
    BY <1>9
  <2> QED
    BY <1>6, <2>1
<1> HIDE DEF V
<1>12. Free(N, program, ctxts, V)
  BY <1>3, <1>10, FreeOfNew
<1>13. Traced(N, program, ctxts, wire_id_to_metadata, n + c)
  BY <1>3, <1>7, KeepsAll, RunStays
<1>14. kind' = kind /\ phase' = phase /\ program' = program
  BY <1>1 DEF clientVars
<1> QED
  BY <1>1, <1>2, <1>3, <1>5, <1>8, <1>11, <1>12, <1>13, <1>14, CallRun DEF N, V

\* Once an output is finalized, nothing is claimed but what is recorded.
LEMMA GenFinalizeRun ==
  ASSUME Inv, WRun, NEW k \in DOMAIN ctxts, GenFinalize(k), status' = "ok", Inv'
  PROVE  WRun'
<1> DEFINE N == Habit.inputs
           n == NumVariables(pb)
           m == ctxts[k].constraint
<1>1. /\ phase = "generate" /\ UpToDate(k) /\ FinalizeOutputConstraints(k)
      /\ phase' = "finalized" /\ kind' = kind /\ program' = program
  BY DEF GenFinalize
<1>2. status = "ok" /\ out_vars' = out_vars
  BY <1>1 DEF FinalizeOutputConstraints
<1>3. /\ N \in Nat /\ n \in Nat /\ IsSeq(program) /\ BoardOK(pb, out_vars)
      /\ CallsOK(N, program, ctxts, wire_id_to_metadata, n)
      /\ Traced(N, program, ctxts, wire_id_to_metadata, n)
      /\ MetasOK(N, program, ctxts, n)
      /\ OutsApart(out_vars) /\ Free(N, program, ctxts, OutSet(out_vars))
      /\ DOMAIN ctxts = 1 .. Len(ctxts) /\ Inputs = 1 .. N
  BY <1>1, <1>2, GenerateRun, InvFacts
<1>4. /\ m # None /\ NumPolys(m) >= Len(out_vars) /\ pb' = OutputConstraints(m)
      /\ wire_id_to_metadata' = wire_id_to_metadata /\ ctxts' = ctxts
  BY <1>1 DEF FinalizeOutputConstraints, Stop
<1>5. Usable(N, program, k)
  BY <1>1, <1>3, <1>4, DeclaredIs DEF UpToDate, Usable
<1>6. IsMeta(m, n)
  BY <1>3, <1>5 DEF MetasOK
<1>7. n <= Len(pb'.val) /\ Len(pb'.val) \in Nat
  <2> HIDE DEF m
  <2> QED
    BY <1>2, <1>3, <1>4, <1>6, Finalized
<1> HIDE DEF m, n, N
<1>8. Traced(N, program, ctxts, wire_id_to_metadata, Len(pb'.val))
  BY <1>3, <1>7, KeepsAll, RunStays
<1>9. NumVariables(pb') = Len(pb'.val)
  BY DEF NumVariables
<1>10. Habit' = Habit
  BY <1>1 DEF Habit
<1>11. Recorded'
  BY <1>1, <1>2, <1>3, <1>4, <1>8, <1>9, <1>10 DEF Recorded, N
<1> QED
  BY <1>1, <1>11 DEF WRun

\* Before its first call a replay has run no gadgets and computed nothing.
LEMMA NothingYet ==
  ASSUME NEW N \in Nat, NEW p
  PROVE  \A o, r, val : Sat(N, p, o, 0, val) /\ Right(N, p, o, r, 0, val)
<1>1. 1 .. 0 = {} /\ Made(N, p, 0) = N /\ 0 + 1 = 1 /\ 1 - 1 = 0
  BY OpsCount DEF Made
<1>2. \A k : ~DeclaredBefore(p, k, 1)
  BY <1>1 DEF DeclaredBefore
<1>3. \A k : ~UsableAt(N, p, k, 0 + 1)
  BY <1>1, <1>2 DEF UsableAt
<1>4. \A o, r, val : Right(N, p, o, r, 0, val)
  BY <1>3 DEF Right
<1>5. \A o, val : Sat(N, p, o, 0, val)
  BY <1>1 DEF Sat
<1> QED
  BY <1>4, <1>5

\* The replay starts on other contents of as many polynomials.
LEMMA StartReplayRun ==
  ASSUME Inv, WRun, StartReplay
  PROVE  WRun'
<1> DEFINE N == Habit.inputs
           n == NumVariables(pb)
<1>1. /\ status = "ok" /\ phase \in {"generate", "finalized"}
      /\ finalize # "generated" => phase = "generate"
      /\ pb' = pb /\ wire_id_to_metadata' = wire_id_to_metadata
      /\ phase' = "replay" /\ out_vars' = out_vars /\ kind' = kind /\ finalize' = finalize
      /\ program' = program /\ pc' = pc
  BY DEF StartReplay, SetMode
<1>2. /\ IsSeq(program) /\ n \in Nat /\ N \in Nat /\ Inputs = 1 .. N /\ DOMAIN ctxts = 1 .. Len(ctxts)
      /\ Len(ctxts) \in Nat /\ \A k \in 1 .. Len(ctxts) : IsObject(ctxts[k])
  BY InvFacts
<1>3. /\ CallsOK(N, program, ctxts, wire_id_to_metadata, n)
      /\ CallsFrom(N, program, ctxts, global_wire_id) /\ pc = 0
  BY <1>1, GenerateFacts
<1>4. /\ Traced(N, program, ctxts, wire_id_to_metadata, n)
      /\ Free(N, program, ctxts, OutSet(out_vars)) /\ OutsApart(out_vars)
      /\ finalize # "generated" => Complete(N, program, ctxts, pb.constraints)
  BY <1>1 DEF WRun, Recorded, FromCalls
<1>5. PICK c \in [1 .. N -> Habit.contents] :
        /\ \A k \in 1 .. N : Len(c[k]) = Len(ctxts[k].content)
        /\ ctxts' = [k \in DOMAIN ctxts |-> IF k \in 1 .. N THEN [ctxts[k] EXCEPT !.content = c[k]] ELSE ctxts[k]]
  <2>1. \E c \in [Inputs -> Habit.contents] :
          /\ \A k \in Inputs : Len(c[k]) = Len(ctxts[k].content)
          /\ ctxts' = [k \in DOMAIN ctxts |-> IF k \in Inputs THEN [ctxts[k] EXCEPT !.content = c[k]] ELSE ctxts[k]]
    BY DEF StartReplay
  <2> QED
    BY <1>2, <2>1, ZenonT(30)
<1> HIDE DEF N, n
<1>6. ASSUME NEW k \in 1 .. Len(ctxts) PROVE SameTrace(ctxts, ctxts', k)
  <2>1. CASE k \in 1 .. N
    <3>1. ctxts'[k] = [ctxts[k] EXCEPT !.content = c[k]] /\ Len(c[k]) = Len(ctxts[k].content)
      BY <1>2, <1>5, <2>1
    <3>2. Holds([ctxts[k] EXCEPT !.content = c[k]], c[k], ctxts[k].wire, ctxts[k].constraint)
      BY <1>2, ContentSet
    <3> QED
      BY <3>1, <3>2 DEF Holds, SameTrace
  <2>2. CASE k \notin 1 .. N
    <3>1. ctxts'[k] = ctxts[k]
      BY <1>2, <1>5, <2>2
    <3> QED
      BY <3>1 DEF SameTrace
  <2> QED
    BY <2>1, <2>2
<1>7. Keeps(N, program, ctxts, ctxts', Len(program) + 1)
  <2> SUFFICES ASSUME NEW k, UsableAt(N, program, k, Len(program) + 1) PROVE SameTrace(ctxts, ctxts', k)
    BY DEF Keeps
  <2>1. Len(program) + 1 - 1 = Len(program) /\ Len(ctxts) = Made(N, program, Len(program))
    BY <1>2, <1>3 DEF IsSeq, CallsFrom
  <2>2. k \in 1 .. Len(ctxts)
    BY <2>1 DEF UsableAt
  <2> QED
    BY <1>6, <2>2
<1>8. /\ Traced(N, program, ctxts', wire_id_to_metadata, n)
      /\ Free(N, program, ctxts', OutSet(out_vars))
      /\ finalize # "generated" => Complete(N, program, ctxts', pb.constraints)
  <2>1. n <= n /\ n \in Int
    BY <1>2
  <2> QED
    BY <1>2, <1>3, <1>4, <1>7, <2>1, RunStays
<1>9. Habit' = Habit
  BY <1>1 DEF Habit
<1>10. NumVariables(pb') = n
  BY <1>1 DEF n
<1>11. Recorded'
  BY <1>1, <1>4, <1>8, <1>9, <1>10 DEF Recorded, N
<1>12. Sat(N, program, ctxts', 0, pb.val) /\ Right(N, program, ctxts', replayed', 0, pb.val)
  BY <1>2, NothingYet
<1>13. SoFar'
  BY <1>1, <1>3, <1>8, <1>9, <1>12 DEF SoFar, FromCalls, N
<1> QED
  BY <1>1, <1>11, <1>13 DEF WRun

\* What the invariant says of the next call of a replay.
LEMMA ReplayingRun ==
  ASSUME Inv, WRun, phase = "replay", status = "ok", pc < Len(program)
  PROVE  LET N == Habit.inputs
             n == NumVariables(pb)
             c == pc + 1
         IN  /\ N \in Nat /\ n \in Nat /\ IsSeq(program) /\ IsBoard(pb, n) /\ pc \in Nat /\ Len(program) \in Nat
             /\ c \in Nat /\ c >= 1 /\ c - 1 = pc /\ c \in 1 .. Len(program)
             /\ CallsOK(N, program, ctxts, wire_id_to_metadata, n)
             /\ Traced(N, program, ctxts, wire_id_to_metadata, n)
             /\ Free(N, program, ctxts, OutSet(out_vars)) /\ OutsApart(out_vars)
             /\ ReplaysFrom(N, program, ctxts, replayed, pc, global_wire_id, Habit.loop)
             /\ CallOK(N, program, c) /\ WireOK(N, program, ctxts, wire_id_to_metadata, n, c)
             /\ FiledIs(N, program, ctxts, wire_id_to_metadata, c)
             /\ \E h \in Nat : Layer(N, program, ctxts, c, h, n)
             /\ Len(ctxts) \in Nat /\ Made(N, program, Len(program)) \in Nat
             /\ Made(N, program, Len(program)) <= Len(ctxts)
             /\ Made(N, program, c) \in Nat /\ Made(N, program, c) <= Made(N, program, Len(program))
             /\ Made(N, program, pc) \in Nat /\ Made(N, program, pc) <= Made(N, program, Len(program))
             /\ N <= Made(N, program, pc)
<1> DEFINE N == Habit.inputs
           n == NumVariables(pb)
           c == pc + 1
<1>1. /\ N \in Nat /\ n \in Nat /\ IsSeq(program) /\ IsBoard(pb, n) /\ pc \in Nat /\ Len(ctxts) \in Nat
  BY InvFacts
<1>2. /\ CallsOK(N, program, ctxts, wire_id_to_metadata, n)
      /\ ReplaysFrom(N, program, ctxts, replayed, pc, global_wire_id, Habit.loop)
  BY ReplayFacts
<1>3. /\ Len(program) \in Nat /\ c \in Nat /\ c >= 1 /\ c - 1 = pc /\ c \in 1 .. Len(program)
      /\ c \in 0 .. Len(program) /\ pc \in 0 .. Len(program)
  BY <1>1 DEF IsSeq
<1>4. /\ Traced(N, program, ctxts, wire_id_to_metadata, n)
      /\ Free(N, program, ctxts, OutSet(out_vars)) /\ OutsApart(out_vars)
  BY DEF WRun, Recorded
<1> HIDE DEF N, n, c
<1>5. CallOK(N, program, c) /\ WireOK(N, program, ctxts, wire_id_to_metadata, n, c)
  BY <1>2, <1>3 DEF CallsOK
<1>6. FiledIs(N, program, ctxts, wire_id_to_metadata, c) /\ \E h \in Nat : Layer(N, program, ctxts, c, h, n)
  BY <1>3, <1>4 DEF Traced, TracedTo
<1>7. /\ Made(N, program, Len(program)) \in Nat /\ Made(N, program, c) \in Nat /\ Made(N, program, pc) \in Nat
      /\ Made(N, program, c) <= Made(N, program, Len(program))
      /\ Made(N, program, pc) <= Made(N, program, Len(program)) /\ N <= Made(N, program, pc)
  BY <1>1, <1>3, MadeGrow
<1>8. Made(N, program, Len(program)) <= Len(ctxts)
  BY <1>1, <1>2, <1>7 DEF ReplaysFrom
<1> QED
  BY <1>1, <1>2, <1>3, <1>4, <1>5, <1>6, <1>7, <1>8 DEF N, n, c

SameContents(N, p, o, s, r, t, n) ==
  \A k : UsableAt(N, p, k, n) => s[t[k]].content = o[r[k]].content

\* One more call of a replay.
LEMMA ReplayCallRun ==
  ASSUME Inv, WRun, phase = "replay", status = "ok", pc < Len(program),
         global_wire_id = Pubs(program, pc), pc' = pc + 1, phase' = "replay",
         kind' = kind, finalize' = finalize, program' = program, out_vars' = out_vars,
         wire_id_to_metadata' = wire_id_to_metadata,
         pb'.constraints = pb.constraints, NumVariables(pb') = NumVariables(pb),
         Keeps(Habit.inputs, program, ctxts, ctxts', Len(program) + 1),
         NEW h \in Nat, Layer(Habit.inputs, program, ctxts, pc + 1, h, NumVariables(pb)),
         SameUpTo(pb.val, pb'.val, h),
         Computed(GadgetsOf(Habit.inputs, program, ctxts, pc + 1), pb'.val),
         SameContents(Habit.inputs, program, ctxts, ctxts', replayed, replayed', pc + 1),
         Reliable => RightFor(ctxts', ctxts', Object(Habit.inputs, program, pc + 1), replayed', pb'.val)
  PROVE  WRun'
<1> DEFINE N == Habit.inputs
           n == NumVariables(pb)
           c == pc + 1
           w == pb'.val
<1>1. /\ N \in Nat /\ n \in Nat /\ IsSeq(program) /\ IsBoard(pb, n) /\ pc \in Nat /\ Len(program) \in Nat
      /\ c \in Nat /\ c >= 1 /\ c - 1 = pc /\ c \in 1 .. Len(program)
      /\ CallsOK(N, program, ctxts, wire_id_to_metadata, n)
      /\ Traced(N, program, ctxts, wire_id_to_metadata, n)
      /\ Free(N, program, ctxts, OutSet(out_vars)) /\ OutsApart(out_vars)
      /\ CallOK(N, program, c)
  BY ReplayingRun
<1>2. /\ finalize # "generated" => Complete(N, program, ctxts, pb.constraints)
      /\ Sat(N, program, ctxts, pc, pb.val)
      /\ Reliable => Right(N, program, ctxts, replayed, pc, pb.val)
  BY DEF WRun, SoFar, FromCalls
<1>3. /\ Layer(N, program, ctxts, c, h, n) /\ SameUpTo(pb.val, w, h)
      /\ Computed(GadgetsOf(N, program, ctxts, c), w)
      /\ SameContents(N, program, ctxts, ctxts', replayed, replayed', c)
      /\ Keeps(N, program, ctxts, ctxts', Len(program) + 1)
      /\ Reliable => RightFor(ctxts', ctxts', Object(N, program, c), replayed', w)
  OBVIOUS
<1>4. Habit' = Habit /\ Covers' = Covers
  BY DEF Habit, Covers
<1>12. ASSUME Reliable' PROVE Reliable
  <2>1. IsSeq(program) => (Trusted <=> TrustedFor(program, ctxts))
    BY TrustedIs
  <2>2. TrustedFor(program, ctxts')
    <3>1. DOMAIN program = 1 .. Len(program)
      BY <1>1 DEF IsSeq
    <3> QED
      BY <1>12, <3>1 DEF Reliable, Trusted, TrustedFor, ArgOf
  <2>3. TrustedFor(program, ctxts)
    <3> HIDE DEF N, n
    <3> QED
      BY <1>1, <1>3, <2>2, TrustedStays
  <2> QED
    BY <1>1, <1>4, <1>12, <2>1, <2>3 DEF Reliable
<1> HIDE DEF N, n, w
<1>5. /\ Traced(N, program, ctxts', wire_id_to_metadata, n)
      /\ Free(N, program, ctxts', OutSet(out_vars))
      /\ finalize # "generated" => Complete(N, program, ctxts', pb.constraints)
  <2>1. n <= n /\ n \in Int
    BY <1>1
  <2> QED
    BY <1>1, <1>2, <1>3, <2>1, RunStays
<1>6. \A m \in 1 .. c : GadgetsOf(N, program, ctxts', m) = GadgetsOf(N, program, ctxts, m)
  <2>1. Begins(program, program, Len(program))
    BY DEF Begins
  <2>2. \A m \in 1 .. Len(program) : SameCall(N, program, program, ctxts, ctxts', m)
    BY <1>1, <1>3, <2>1, CallsKept
  <2>3. \A m \in 1 .. c : m \in 1 .. Len(program)
    BY <1>1
  <2> QED
    BY <2>2, <2>3 DEF SameCall
<1>7. Valuation(pb.val, n)
  BY <1>1 DEF Valuation, IsBoard
<1>8. Sat(N, program, ctxts', c, w)
  <2> DEFINE val == pb.val
             s == ctxts'
             o == ctxts
  <2>1. /\ Layer(N, program, o, pc + 1, h, n) /\ Valuation(val, n) /\ SameUpTo(val, w, h)
        /\ Sat(N, program, o, pc, val) /\ Computed(GadgetsOf(N, program, o, pc + 1), w)
    BY <1>2, <1>3, <1>7
  <2>2. \A m \in 1 .. (pc + 1) : GadgetsOf(N, program, s, m) = GadgetsOf(N, program, o, m)
    BY <1>6
  <2> HIDE DEF val, s, o
  <2> QED
    BY <1>1, <2>1, <2>2, SatNext DEF s
<1>9. ASSUME Reliable PROVE Right(N, program, ctxts', replayed', c, w)
  <2> DEFINE val == pb.val
             s == ctxts'
             t == replayed'
  <2>1. /\ Layer(N, program, ctxts, pc + 1, h, n) /\ Valuation(val, n) /\ SameUpTo(val, w, h)
        /\ Right(N, program, ctxts, replayed, pc, val) /\ CallOK(N, program, pc + 1)
        /\ RightFor(s, s, Object(N, program, pc + 1), t, w)
    BY <1>1, <1>2, <1>3, <1>7, <1>9
  <2>2. \A k : UsableAt(N, program, k, pc + 1) => /\ s[k].constraint = ctxts[k].constraint
                                                 /\ s[t[k]].content = ctxts[replayed[k]].content
    <3> SUFFICES ASSUME NEW k, UsableAt(N, program, k, c)
                 PROVE  s[k].constraint = ctxts[k].constraint /\ s[t[k]].content = ctxts[replayed[k]].content
      OBVIOUS
    <3>1. UsableAt(N, program, k, Len(program) + 1)
      <4>1. c <= Len(program) + 1 /\ Len(program) + 1 \in Nat
        BY <1>1
      <4> QED
        BY <1>1, <4>1, UsableGrow
    <3>2. s[k].constraint = ctxts[k].constraint
      BY <1>3, <3>1 DEF Keeps, SameTrace
    <3>3. s[t[k]].content = ctxts[replayed[k]].content
      BY <1>3 DEF SameContents
    <3> QED
      BY <3>2, <3>3
  <2> HIDE DEF val, s, t
  <2> QED
    BY <1>1, <2>1, <2>2, RightNext DEF s, t
<1>10. Recorded'
  BY <1>1, <1>4, <1>5 DEF Recorded, N, n
<1>11. SoFar'
  BY <1>4, <1>5, <1>8, <1>9, <1>12 DEF SoFar, FromCalls, N, w
<1> QED
  BY <1>10, <1>11 DEF WRun

\* What a replayed declaration assigns is the input.
LEMMA ReplayPublicInputRun ==
  ASSUME Inv, WRun, ReplayPublicInput, status' = "ok", Inv'
  PROVE  WRun'
<1> DEFINE N == Habit.inputs
           n == NumVariables(pb)
           c == pc + 1
           k == ArgOf(program, c, 1)
           x == ctxts[k].content
           m == ctxts[k].constraint
           wire == PublicWire(global_wire_id)
           e == [ctxts[k] EXCEPT !.wire = wire, !.witness = wire_id_to_metadata[wire]]
<1>1. /\ phase = "replay" /\ pc < Len(program) /\ program[c].op = "Public" /\ pc' = c
      /\ kind' = kind /\ finalize' = finalize /\ program' = program /\ phase' = phase
      /\ replayed' = replayed /\ PublicInput(replayed[k])
  BY DEF ReplayPublicInput, Replaying, Call, Arg, ArgOf
<1>2. status = "ok" /\ global_wire_id' = global_wire_id + 1 /\ out_vars' = out_vars
  BY <1>1 DEF PublicInput
<1>3. /\ N \in Nat /\ n \in Nat /\ IsSeq(program) /\ IsBoard(pb, n) /\ pc \in Nat /\ Len(program) \in Nat
      /\ c \in Nat /\ c >= 1 /\ c - 1 = pc /\ c \in 1 .. Len(program)
      /\ CallsOK(N, program, ctxts, wire_id_to_metadata, n)
      /\ ReplaysFrom(N, program, ctxts, replayed, pc, global_wire_id, Habit.loop)
      /\ CallOK(N, program, c) /\ WireOK(N, program, ctxts, wire_id_to_metadata, n, c)
      /\ FiledIs(N, program, ctxts, wire_id_to_metadata, c)
      /\ \E h \in Nat : Layer(N, program, ctxts, c, h, n)
      /\ Len(ctxts) \in Nat /\ Made(N, program, Len(program)) \in Nat
      /\ Made(N, program, Len(program)) <= Len(ctxts)
      /\ Made(N, program, pc) \in Nat /\ Made(N, program, pc) <= Made(N, program, Len(program))
      /\ N <= Made(N, program, pc)
  BY <1>1, <1>2, ReplayingRun
<1>4. mode = "WITNESS_GENERATION"
  BY <1>1, <1>2, ReplayFacts
<1> HIDE DEF k, c
<1>5. IsPublic(program, c)
  BY <1>1 DEF IsPublic
<1>6. k \in 1 .. N
  BY <1>3, <1>5 DEF CallOK, DeclarationOK, k
<1>7. replayed[k] = k
  <2>1. k \in 1 .. Made(N, program, pc)
    BY <1>3, <1>6
  <2> QED
    BY <1>3, <1>6, <2>1 DEF ReplaysFrom, Mirrors
<1>8. /\ k \in 1 .. Len(ctxts) /\ IsObject(ctxts[k]) /\ Coefficients(x) /\ Len(x) \in Nat
      /\ x \in Habit.contents /\ ObjectsOK(N, Habit.contents, ctxts) /\ DOMAIN ctxts = 1 .. Len(ctxts)
      /\ global_wire_id \in Nat
  BY <1>6, InvFacts
<1>9. /\ ctxts' = [ctxts EXCEPT ![k].wire = wire, ![k].witness = wire_id_to_metadata[wire]]
      /\ pb' = PublicInputWitness(x, wire_id_to_metadata[wire].index_start)
      /\ wire_id_to_metadata' = wire_id_to_metadata
  BY <1>1, <1>4, <1>7 DEF PublicInput, PublicWire, Stop
<1>10. global_wire_id = Pubs(program, pc)
  <2>1. ReplaysFrom(N, program, ctxts, replayed, pc, global_wire_id, Habit.loop)'
    <3>1. phase' # "start" /\ phase' \in {"replay", "finished"}
      BY <1>1
    <3> QED
      BY <3>1, RunCalls
  <2>2. WireCount(program, c, global_wire_id + 1, Habit'.loop)
    BY <1>1, <1>2, <2>1 DEF ReplaysFrom
  <2>3. c # 0
    BY <1>3
  <2>4. global_wire_id + 1 = Pubs(program, c)
    BY <2>2, <2>3 DEF WireCount
  <2>5. Ops(program, pc) \in Nat /\ Ops(program, c) = Ops(program, pc)
    <3>1. program[pc + 1].op = "Public" /\ pc \in Nat
      BY <1>1, <1>3 DEF c
    <3> QED
      BY <3>1, OpsCount DEF c
  <2>6. Pubs(program, c) = Pubs(program, pc) + 1 /\ Pubs(program, pc) \in Int
    <3>1. pc \in Nat
      BY <1>3
    <3> QED
      BY <2>5, <3>1 DEF Pubs, c
  <2> QED
    BY <1>8, <2>4, <2>6
<1>11. Wire(program, ctxts, c) = wire /\ Object(N, program, c) = k
  <2>1. Ops(program, pc) \in Nat /\ Ops(program, c) = Ops(program, pc)
    <3>1. program[pc + 1].op = "Public" /\ pc \in Nat
      BY <1>1, <1>3 DEF c
    <3> QED
      BY <3>1, OpsCount DEF c
  <2>2. Pubs(program, c) - 1 = Pubs(program, pc)
    <3>1. pc \in Nat
      BY <1>3
    <3> QED
      BY <2>1, <3>1 DEF Pubs, c
  <2> QED
    BY <1>5, <1>10, <2>2 DEF Wire, Object, k
<1>12. PICK h \in Nat : Layer(N, program, ctxts, c, h, n)
  BY <1>3
<1>13. h <= n /\ DeclaredShape(m, Len(x), h, n)
  BY <1>5, <1>11, <1>12 DEF Layer, ShapeOK
<1>14. wire_id_to_metadata[wire] = m.witness /\ ctxts[k].wire = wire
  BY <1>3, <1>11 DEF FiledIs, WireOK
<1>15. m.witness = WitnessMeta(h + 1, <<>>)
  BY <1>13 DEF DeclaredShape
<1>16. pb' = PublicInputWitness(x, h + 1)
  <2>1. wire_id_to_metadata[wire].index_start = h + 1
    BY <1>14, <1>15 DEF WitnessMeta
  <2> QED
    BY <1>9, <2>1
<1>17. Holds(e, ctxts[k].content, wire, ctxts[k].constraint)
  <2> HIDE DEF wire
  <2> QED
    BY <1>8, WitnessSet, Zenon
<1>18. Updated(ctxts, k, e, ctxts')
  <2> HIDE DEF wire
  <2> QED
    BY <1>8, <1>9 DEF Updated
<1> HIDE DEF e, wire, N, n, m, x
<1>19. ctxts'[k] = e /\ \A j \in 1 .. Len(ctxts) : j # k => ctxts'[j] = ctxts[j]
  BY <1>3, <1>8, <1>17, <1>18, ObjectChanged, SMTT(40) DEF Holds
<1>20. ASSUME NEW j \in 1 .. Len(ctxts)
       PROVE  SameTrace(ctxts, ctxts', j) /\ ctxts'[j].content = ctxts[j].content
  <2>1. CASE j = k
    BY <1>14, <1>17, <1>19, <2>1 DEF Holds, SameTrace
  <2>2. CASE j # k
    BY <1>19, <2>2 DEF SameTrace
  <2> QED
    BY <2>1, <2>2
<1>21. Keeps(N, program, ctxts, ctxts', Len(program) + 1)
  <2> SUFFICES ASSUME NEW j, UsableAt(N, program, j, Len(program) + 1) PROVE SameTrace(ctxts, ctxts', j)
    BY DEF Keeps
  <2>1. Len(program) + 1 - 1 = Len(program)
    BY <1>3
  <2>2. j \in 1 .. Len(ctxts)
    BY <1>3, <2>1 DEF UsableAt
  <2> QED
    BY <1>20, <2>2
<1>22. SameContents(N, program, ctxts, ctxts', replayed, replayed', c)
  <2> SUFFICES ASSUME NEW j, UsableAt(N, program, j, c) PROVE ctxts'[replayed[j]].content = ctxts[replayed[j]].content
    BY <1>1 DEF SameContents
  <2>1. j \in 1 .. Made(N, program, pc)
    BY <1>3 DEF UsableAt
  <2>2. IF j \in 1 .. N THEN replayed[j] = j ELSE replayed[j] \in (N + 1) .. Len(ctxts)
    BY <1>3, <2>1 DEF ReplaysFrom, Mirrors
  <2>3. replayed[j] \in 1 .. Len(ctxts)
    <3>1. \A i \in (N + 1) .. Len(ctxts) : i \in 1 .. Len(ctxts)
      BY <1>3
    <3>2. j \in 1 .. Len(ctxts)
      BY <1>3, <2>1
    <3> QED
      BY <2>2, <3>1, <3>2
  <2> QED
    BY <1>20, <2>3
<1> DEFINE w == pb'.val
<1>23. Valuation(pb.val, n) /\ SameUpTo(pb.val, w, h) /\ (Len(x) >= NumLimbs => Agrees(m, x, w))
  <2>1. w = PublicInputWitness(x, h + 1).val
    BY <1>16
  <2> HIDE DEF w
  <2> QED
    BY <1>3, <1>8, <1>13, <2>1, DeclarationRun
<1>24. /\ pb'.constraints = pb.constraints /\ NumVariables(pb') = n
  BY ReplayPublicInputInv DEF KeepsSystem, n
<1>25. Computed(GadgetsOf(N, program, ctxts, c), w)
  <2>1. GadgetsOf(N, program, ctxts, c) = <<>>
    BY <1>11, <1>15 DEF GadgetsOf, WitnessMeta, m
  <2>2. Len(<<>>) = 0 /\ 1 .. 0 = {}
    OBVIOUS
  <2> QED
    BY <2>1, <2>2 DEF Computed
<1>26. ASSUME Covers PROVE RightFor(ctxts', ctxts', Object(N, program, c), replayed', w)
  <2>1. Len(x) >= NumLimbs
    BY <1>8, <1>26 DEF Covers
  <2>2. Agrees(m, x, w)
    BY <1>23, <2>1
  <2>3. ctxts'[k].content = x /\ ctxts'[k].constraint = m
    BY <1>17, <1>19 DEF Holds, x, m
  <2>4. IsSeq(x)
    <3>1. x = [i \in 1 .. Len(x) |-> x[i]]
      BY <1>8 DEF Coefficients
    <3> QED
      BY <1>8, <3>1 DEF IsSeq
  <2> QED
    BY <1>1, <1>7, <1>11, <2>2, <2>3, <2>4 DEF RightFor
<1> HIDE DEF w
<1>27. /\ Layer(Habit.inputs, program, ctxts, pc + 1, h, NumVariables(pb))
       /\ Keeps(Habit.inputs, program, ctxts, ctxts', Len(program) + 1)
       /\ Computed(GadgetsOf(Habit.inputs, program, ctxts, pc + 1), pb'.val)
       /\ SameContents(Habit.inputs, program, ctxts, ctxts', replayed, replayed', pc + 1)
       /\ SameUpTo(pb.val, pb'.val, h)
       /\ Reliable => RightFor(ctxts', ctxts', Object(Habit.inputs, program, pc + 1), replayed', pb'.val)
  BY <1>12, <1>21, <1>22, <1>23, <1>25, <1>26 DEF N, n, c, w, Reliable
<1>28. /\ pc' = pc + 1 /\ phase' = "replay" /\ NumVariables(pb') = NumVariables(pb)
  BY <1>1, <1>24 DEF c, n
<1> QED
  BY <1>1, <1>2, <1>9, <1>10, <1>12, <1>24, <1>27, <1>28, ReplayCallRun

\* What a replayed operation computes is congruent to its result.
LEMMA ReplayOperationRun ==
  ASSUME Inv, WRun, NEW op \in Habit.operations, ReplayOperation(op), Inv'
  PROVE  WRun'
<1> DEFINE N == Habit.inputs
           n == NumVariables(pb)
           c == pc + 1
           a == ArgOf(program, c, 1)
           b == ArgOf(program, c, 2)
           k == replayed[a]
           l == replayed[b]
           wire == WireId(op, k, l)
           meta == wire_id_to_metadata[wire]
           content == FheEval(op, ctxts[k].content, ctxts[l].content)
           f == [ctxts[k] EXCEPT !.content = content, !.wire = wire]
           e == [f EXCEPT !.witness = meta]
           made == Made(N, program, pc)
<1>1. /\ phase = "replay" /\ pc < Len(program) /\ program[c].op = op /\ pc' = c
      /\ kind' = kind /\ finalize' = finalize /\ program' = program /\ phase' = phase
      /\ replayed' = Append(replayed, Len(ctxts) + 1) /\ Operation(op, k, l)
  BY DEF ReplayOperation, Replaying, Call, Arg, ArgOf
<1>2. status = "ok" /\ global_wire_id' = global_wire_id /\ out_vars' = out_vars
  BY <1>1 DEF Operation
<1>3. /\ N \in Nat /\ n \in Nat /\ IsSeq(program) /\ IsBoard(pb, n) /\ pc \in Nat /\ Len(program) \in Nat
      /\ c \in Nat /\ c >= 1 /\ c - 1 = pc /\ c \in 1 .. Len(program)
      /\ CallsOK(N, program, ctxts, wire_id_to_metadata, n)
      /\ ReplaysFrom(N, program, ctxts, replayed, pc, global_wire_id, Habit.loop)
      /\ CallOK(N, program, c) /\ WireOK(N, program, ctxts, wire_id_to_metadata, n, c)
      /\ FiledIs(N, program, ctxts, wire_id_to_metadata, c)
      /\ \E h \in Nat : Layer(N, program, ctxts, c, h, n)
      /\ Len(ctxts) \in Nat /\ Made(N, program, Len(program)) \in Nat
      /\ Made(N, program, Len(program)) <= Len(ctxts)
      /\ Made(N, program, c) \in Nat /\ Made(N, program, c) <= Made(N, program, Len(program))
      /\ Made(N, program, pc) \in Nat /\ Made(N, program, pc) <= Made(N, program, Len(program))
      /\ N <= Made(N, program, pc)
  <2> HIDE DEF k, l, wire
  <2> QED
    BY <1>1, <1>2, ReplayingRun
<1>4. /\ mode = "WITNESS_GENERATION" /\ kind \in DOMAIN Kinds
      /\ \A j \in 1 .. Len(ctxts) : IsObject(ctxts[j])
      /\ ObjectsOK(N, Habit.contents, ctxts)
  BY <1>1, <1>2, ReplayFacts, InvFacts
<1>5. op \in Linear \cup Quadratic /\ op # "Public"
  BY <1>4, HabitFacts, WiresApart
<1>6. status' = "ok" /\ pb'.constraints = pb.constraints /\ NumVariables(pb') = n
  BY ReplayOperationInv DEF KeepsSystem, n
<1> HIDE DEF c, a, b, N, n
<1>7. /\ ~IsPublic(program, c) /\ (op = "Square" => a = b)
      /\ UsableAt(N, program, a, c) /\ UsableAt(N, program, b, c)
  <2>1. ~IsPublic(program, c)
    BY <1>1, <1>5 DEF IsPublic
  <2> QED
    BY <1>1, <1>3, <2>1 DEF CallOK, OperationOK, a, b
<1>8. /\ Len(ctxts) \in Nat /\ made \in Nat /\ made <= Len(ctxts) /\ N \in Nat /\ c - 1 = pc
  BY <1>3
<1> HIDE DEF made
<1>9. ASSUME NEW j, UsableAt(N, program, j, c)
      PROVE  /\ j \in 1 .. Len(ctxts) /\ j \in 1 .. made /\ replayed[j] \in 1 .. Len(ctxts)
             /\ ctxts[replayed[j]].wire = ctxts[j].wire
  <2>1. j \in 1 .. made
    BY <1>8, <1>9 DEF UsableAt, made
  <2>2. j \in 1 .. Len(ctxts)
    BY <1>8, <2>1
  <2>3. IF j \in 1 .. N THEN replayed[j] = j
        ELSE replayed[j] \in (N + 1) .. Len(ctxts) /\ ctxts[replayed[j]].wire = ctxts[j].wire
    BY <1>3, <2>1 DEF ReplaysFrom, Mirrors, made
  <2>4. \A i \in (N + 1) .. Len(ctxts) : i \in 1 .. Len(ctxts)
    BY <1>8
  <2> QED
    BY <2>1, <2>2, <2>3, <2>4
<1>10. /\ k \in 1 .. Len(ctxts) /\ l \in 1 .. Len(ctxts) /\ IsObject(ctxts[k])
      /\ ctxts[k].wire = ctxts[a].wire /\ ctxts[l].wire = ctxts[b].wire
  BY <1>4, <1>7, <1>9
<1>11. wire = Wire(program, ctxts, c)
  BY <1>1, <1>7, <1>10 DEF WireId, OpWire, Wire, a, b
<1>12. wire \in DOMAIN wire_id_to_metadata
  BY <1>3, <1>11 DEF WireOK
<1>13. /\ ctxts' = Append(ctxts, e) /\ pb' = RunGadgets(pb, meta.gadgets)
       /\ wire_id_to_metadata' = wire_id_to_metadata
  <2>1. ctxts[k].wire # None /\ ctxts[l].wire # None
    BY <1>3, <1>7, <1>10 DEF WireOK, a, b
  <2> QED
    BY <1>1, <1>4, <1>12, <2>1 DEF Operation
<1>14. Holds(e, content, wire, ctxts[k].constraint)
  <2> HIDE DEF content, wire, meta
  <2> QED
    BY <1>10, ResultSet, Zenon
<1>15. Extended(ctxts, e, ctxts')
  BY <1>13 DEF Extended
<1> DEFINE m1 == ctxts[a].constraint
           m2 == ctxts[b].constraint
           obj == Object(N, program, c)
           m == ctxts[obj].constraint
           g == GadgetsOf(N, program, ctxts, c)
           w == pb'.val
           s == ctxts'
           t == replayed'
<1>16. g = m.witness.gadgets /\ meta = m.witness
  BY <1>3, <1>11 DEF FiledIs, GadgetsOf
<1>17. w = RunGadgets(pb, g).val
  BY <1>13, <1>16
<1>18. PICK h \in Nat : Layer(N, program, ctxts, c, h, n)
  BY <1>3
<1>19. h <= n /\ IsMeta(m1, h) /\ IsMeta(m2, h) /\ OperatedShape(op, m1, m2, h, n, m)
  BY <1>1, <1>7, <1>18 DEF Layer, ShapeOK, a, b
<1> HIDE DEF e, k, l, content, wire, f, meta, m1, m2, m, g, w, obj
<1>20. /\ Valuation(pb.val, n) /\ SameUpTo(pb.val, w, h) /\ Computed(g, w)
       /\ ResultAgrees(op, m1, m2, m, pb.val, w)
  BY <1>3, <1>5, <1>16, <1>17, <1>19, OperationRun
<1>21. s[Len(ctxts) + 1] = e /\ \A j \in 1 .. Len(ctxts) : s[j] = ctxts[j]
  <2> DEFINE H == Habit.contents
  <2>1. ObjectsOK(N, H, ctxts) /\ IsObject(e)
    BY <1>4, <1>14 DEF Holds
  <2>2. N \in Nat
    BY <1>8
  <2> HIDE DEF H, s
  <2>3. Extended(ctxts, e, s)
    BY <1>15 DEF s
  <2> QED
    BY <2>1, <2>2, <2>3, ObjectAppended, SMTT(40)
<1>22. Keeps(N, program, ctxts, s, Len(program) + 1)
  <2> SUFFICES ASSUME NEW j, UsableAt(N, program, j, Len(program) + 1) PROVE SameTrace(ctxts, s, j)
    BY DEF Keeps
  <2>1. Len(program) + 1 - 1 = Len(program)
    BY <1>3
  <2>2. j \in 1 .. Len(ctxts)
    BY <1>3, <2>1 DEF UsableAt
  <2> QED
    BY <1>21, <2>2 DEF SameTrace
<1>23. /\ \A j \in 1 .. made : t[j] = replayed[j]
       /\ t[made + 1] = Len(ctxts) + 1
  BY <1>1, <1>3, Appended DEF ReplaysFrom, made
<1>24. obj = made + 1 /\ obj \in 1 .. Len(ctxts) /\ Pubs(program, c) = Pubs(program, pc)
  <2>1. Ops(program, pc) \in Nat /\ Ops(program, c) = Ops(program, pc) + 1
    <3>1. program[pc + 1].op # "Public"
      BY <1>1, <1>5 DEF c
    <3>2. pc \in Nat
      BY <1>3
    <3> QED
      BY <3>1, <3>2, OpsCount DEF c
  <2>2. Pubs(program, c) = Pubs(program, pc) /\ Made(N, program, c) = made + 1
    <3>1. N \in Nat /\ pc \in Nat
      BY <1>3
    <3> QED
      BY <2>1, <3>1 DEF Pubs, Made, c, made
  <2>3. obj = Made(N, program, c)
    BY <1>7 DEF obj, Object
  <2> QED
    BY <1>3, <2>2, <2>3 DEF made
<1>25. global_wire_id = Pubs(program, pc)
  <2>1. ReplaysFrom(N, program, ctxts, replayed, pc, global_wire_id, Habit.loop)'
    <3>1. phase' # "start" /\ phase' \in {"replay", "finished"}
      BY <1>1
    <3> QED
      BY <1>6, <3>1, RunCalls DEF N
  <2>2. WireCount(program, c, global_wire_id, Habit'.loop)
    BY <1>1, <1>2, <2>1 DEF ReplaysFrom
  <2>3. c # 0
    BY <1>3
  <2> QED
    BY <1>24, <2>2, <2>3 DEF WireCount
<1>26. SameContents(N, program, ctxts, s, replayed, t, c)
  <2> SUFFICES ASSUME NEW j, UsableAt(N, program, j, c) PROVE s[t[j]].content = ctxts[replayed[j]].content
    BY DEF SameContents
  <2> QED
    BY <1>9, <1>21, <1>23
<1>30. ASSUME Trusted PROVE SubtrahendReduced(op, m2)
  <2>1. CASE Debug
    BY <1>19, <2>1 DEF OperatedShape, OperandsFit
  <2>2. CASE ~Debug
    <3>1. TrustedFor(program, ctxts)
      BY <1>3, <1>30, TrustedIs
    <3>2. op = "Sub" => SubtrahendReduced("Sub", ctxts[b].constraint)
      BY <1>1, <1>3, <2>2, <3>1 DEF TrustedFor, b
    <3> QED
      BY <3>2 DEF SubtrahendReduced, m2
  <2> QED
    BY <2>1, <2>2
<1>27. ASSUME Reliable PROVE RightFor(s, s, obj, t, w)
  <2>1. Right(N, program, ctxts, replayed, pc, pb.val)
    BY <1>1, <1>25, <1>27 DEF WRun, SoFar, N
  <2>2. RightFor(ctxts, ctxts, a, replayed, pb.val) /\ RightFor(ctxts, ctxts, b, replayed, pb.val)
    BY <1>7, <2>1 DEF Right, c
  <2> DEFINE x == ctxts[k].content
             y == ctxts[l].content
  <2>3. IsSeq(x) /\ IsSeq(y) /\ Agrees(m1, x, pb.val) /\ Agrees(m2, y, pb.val)
    BY <2>2 DEF RightFor, k, l, m1, m2
  <2>4. op = "Square" => m1 = m2 /\ x = y
    BY <1>7 DEF k, l, m1, m2
  <2> HIDE DEF x, y
  <2>5. IsSeq(FheEval(op, x, y)) /\ Agrees(m, FheEval(op, x, y), w)
    BY <1>20, <1>27, <1>30, <2>3, <2>4 DEF ResultAgrees, Reliable
  <2>6. s[t[obj]].content = FheEval(op, x, y)
    BY <1>14, <1>21, <1>23, <1>24 DEF Holds, content, x, y
  <2>7. s[obj].constraint = m
    BY <1>21, <1>24 DEF m
  <2> QED
    BY <2>5, <2>6, <2>7 DEF RightFor
<1>28. /\ Layer(Habit.inputs, program, ctxts, pc + 1, h, NumVariables(pb))
       /\ Keeps(Habit.inputs, program, ctxts, ctxts', Len(program) + 1)
       /\ Computed(GadgetsOf(Habit.inputs, program, ctxts, pc + 1), pb'.val)
       /\ SameContents(Habit.inputs, program, ctxts, ctxts', replayed, replayed', pc + 1)
       /\ SameUpTo(pb.val, pb'.val, h)
       /\ Reliable => RightFor(ctxts', ctxts', Object(Habit.inputs, program, pc + 1), replayed', pb'.val)
  BY <1>18, <1>20, <1>22, <1>26, <1>27 DEF N, n, c, w, g, obj
<1>29. /\ pc' = pc + 1 /\ phase' = "replay" /\ NumVariables(pb') = NumVariables(pb)
  BY <1>1, <1>6 DEF c, n
<1> QED
  BY <1>1, <1>2, <1>6, <1>13, <1>18, <1>25, <1>28, <1>29, ReplayCallRun

\* What the invariant says after the last call of a replay.
LEMMA ReplayedRun ==
  ASSUME Inv, WRun, phase = "replay", status = "ok", pc = Len(program)
  PROVE  LET N == Habit.inputs
             n == NumVariables(pb)
         IN  /\ N \in Nat /\ n \in Nat /\ IsSeq(program) /\ IsBoard(pb, n) /\ Len(program) \in Nat
             /\ BoardOK(pb, out_vars) /\ out_vars \in Seq([Limbs -> 1 .. n])
             /\ Len(ctxts) \in Nat /\ Len(ctxts) >= Made(N, program, Len(program))
             /\ CallsOK(N, program, ctxts, wire_id_to_metadata, n)
             /\ MetasOK(N, program, ctxts, n)
             /\ Traced(N, program, ctxts, wire_id_to_metadata, n)
             /\ Free(N, program, ctxts, OutSet(out_vars)) /\ OutsApart(out_vars)
             /\ finalize # "generated" => Complete(N, program, ctxts, pb.constraints)
             /\ Sat(N, program, ctxts, Len(program), pb.val)
             /\ Reliable => Right(N, program, ctxts, replayed, Len(program), pb.val)
             /\ \A m \in 1 .. Len(program) : GadgetsOf(N, program, ctxts, m) \in Seq(Gadgets(n))
             /\ finalize \in {"late", "replayed"} => OutputOK(N, program, ctxts, output)
<1> DEFINE N == Habit.inputs
           n == NumVariables(pb)
<1>1. /\ N \in Nat /\ n \in Nat /\ IsSeq(program) /\ IsBoard(pb, n) /\ BoardOK(pb, out_vars)
      /\ Len(ctxts) \in Nat
  BY InvFacts
<1>2. /\ CallsOK(N, program, ctxts, wire_id_to_metadata, n)
      /\ MetasOK(N, program, ctxts, n)
      /\ ReplaysFrom(N, program, ctxts, replayed, pc, global_wire_id, Habit.loop)
      /\ finalize \in {"late", "replayed"} => OutputOK(N, program, ctxts, output)
  BY ReplayFacts
<1>3. /\ Len(program) > 0 /\ Len(ctxts) >= Made(N, program, Len(program))
      /\ WireCount(program, pc, global_wire_id, Habit.loop)
  BY <1>2 DEF ReplaysFrom
<1>4. global_wire_id = Pubs(program, pc)
  BY <1>3 DEF WireCount
<1>5. /\ Traced(N, program, ctxts, wire_id_to_metadata, n)
      /\ Free(N, program, ctxts, OutSet(out_vars)) /\ OutsApart(out_vars)
      /\ finalize # "generated" => Complete(N, program, ctxts, pb.constraints)
      /\ Sat(N, program, ctxts, Len(program), pb.val)
      /\ Reliable => Right(N, program, ctxts, replayed, Len(program), pb.val)
  BY <1>4 DEF WRun, Recorded, SoFar, FromCalls
<1>6. out_vars \in Seq([Limbs -> 1 .. n])
  BY <1>1 DEF BoardOK
<1> HIDE DEF N, n
<1>7. \A m \in 1 .. Len(program) : GadgetsOf(N, program, ctxts, m) \in Seq(Gadgets(n))
  BY <1>1, <1>2, <1>5, GadgetsOver
<1>8. Len(program) \in Nat
  BY <1>1 DEF IsSeq
<1> QED
  BY <1>1, <1>2, <1>3, <1>5, <1>6, <1>7, <1>8 DEF N, n

\* Finalizing the output changes its variables, and adds some.
LEMMA FinalizeRun ==
  ASSUME Inv, WRun, phase = "replay", pc = Len(program), NEW k \in 1 .. Len(ctxts),
         Usable(Habit.inputs, program, k) \/ ctxts[k].constraint = None,
         FinalizeOutputConstraints(k), status' = "ok",
         NEW m, m = ctxts[k].constraint
  PROVE  LET N == Habit.inputs
         IN  /\ status = "ok" /\ ctxts' = ctxts /\ out_vars' = out_vars
             /\ pb' = OutputConstraints(m)
             /\ IsMeta(m, NumVariables(pb)) /\ NumPolys(m) >= Len(out_vars)
             /\ Len(ctxts[k].content) = Len(out_vars)
             /\ Traced(N, program, ctxts, wire_id_to_metadata', NumVariables(pb'))
             /\ Sat(N, program, ctxts, Len(program), pb'.val)
             /\ Reliable => Right(N, program, ctxts, replayed, Len(program), pb'.val)
             /\ finalize # "generated" => Holding(pb.constraints, pb'.val)
<1> DEFINE N == Habit.inputs
           n == NumVariables(pb)
           V == OutSet(out_vars)
           l == Len(program)
           val == pb.val
           w == pb'.val
<1>1. status = "ok" /\ out_vars' = out_vars
  BY DEF FinalizeOutputConstraints
<1>2. /\ N \in Nat /\ n \in Nat /\ IsSeq(program) /\ IsBoard(pb, n) /\ l \in Nat
      /\ BoardOK(pb, out_vars) /\ out_vars \in Seq([Limbs -> 1 .. n])
      /\ Len(ctxts) \in Nat /\ Len(ctxts) >= Made(N, program, l)
      /\ CallsOK(N, program, ctxts, wire_id_to_metadata, n)
      /\ MetasOK(N, program, ctxts, n)
      /\ Traced(N, program, ctxts, wire_id_to_metadata, n)
      /\ Free(N, program, ctxts, V)
      /\ finalize # "generated" => Complete(N, program, ctxts, pb.constraints)
      /\ Sat(N, program, ctxts, l, val)
      /\ Reliable => Right(N, program, ctxts, replayed, l, val)
      /\ \A c \in 1 .. l : GadgetsOf(N, program, ctxts, c) \in Seq(Gadgets(n))
  BY <1>1, ReplayedRun
<1>3. /\ m # None /\ NumPolys(m) >= Len(out_vars) /\ pb' = OutputConstraints(m)
      /\ Len(ctxts[k].content) = Len(out_vars)
      /\ wire_id_to_metadata' = wire_id_to_metadata /\ ctxts' = ctxts
  BY DEF FinalizeOutputConstraints, Stop
<1>4. IsMeta(m, n)
  BY <1>2, <1>3 DEF MetasOK
<1>5. n <= Len(w) /\ Len(w) \in Nat /\ NumVariables(pb') = Len(w)
  BY <1>1, <1>2, <1>3, <1>4, Finalized DEF NumVariables
<1>6. /\ Valuation(val, n) /\ SameBut(val, w, n, V)
      /\ \E a \in Nat : Valuation(w, n + a)
  BY <1>2, <1>3, <1>4, FinalizeKeeps
<1> HIDE DEF N, n, V, l, val, w
<1>7. Traced(N, program, ctxts, wire_id_to_metadata, Len(w))
  BY <1>2, <1>5, KeepsAll, RunStays DEF l
<1>8. Sat(N, program, ctxts, l, w)
  <2> SUFFICES ASSUME NEW c \in 1 .. l PROVE Computed(GadgetsOf(N, program, ctxts, c), w)
    BY DEF Sat
  <2> DEFINE g == GadgetsOf(N, program, ctxts, c)
  <2>1. FreeGadgets(g, V)
    BY <1>2 DEF Free, FreeCall, l
  <2>2. Computed(g, val) /\ g \in Seq(Gadgets(n))
    BY <1>2 DEF Sat
  <2> HIDE DEF g
  <2>3. Computed(g, w)
    BY <1>6, <2>1, <2>2, FreeComputed
  <2> QED
    BY <2>3 DEF g
<1>9. ASSUME Reliable PROVE Right(N, program, ctxts, replayed, l, w)
  <2> SUFFICES ASSUME NEW c, UsableAt(N, program, c, l + 1)
               PROVE  RightFor(ctxts, ctxts, c, replayed, w)
    BY DEF Right
  <2> DEFINE mc == ctxts[c].constraint
             x == ctxts[replayed[c]].content
  <2>1. IsSeq(x) /\ Agrees(mc, x, val)
    BY <1>2, <1>9 DEF Right, RightFor
  <2>2. IsMeta(mc, n)
    BY <1>2, MetasOver DEF l
  <2>3. FreeMeta(mc, V)
    BY <1>2, FreeUsable DEF l
  <2> HIDE DEF mc, x
  <2>4. Agrees(mc, x, w)
    BY <1>6, <2>1, <2>2, <2>3, FreeAgrees
  <2> QED
    BY <2>1, <2>4 DEF RightFor, mc, x
<1>10. ASSUME finalize # "generated" PROVE Holding(pb.constraints, w)
  <2>1. PICK a \in Nat : Valuation(w, n + a)
    BY <1>6
  <2>2. Complete(N, program, ctxts, pb.constraints)
    BY <1>2, <1>10
  <2>3. n <= n + a /\ n \in Int /\ n + a \in Int
    BY <1>2
  <2>4. Gadgets(n) \subseteq Gadgets(n + a)
    BY <2>3, Grow
  <2>5. \A c \in 1 .. l : GadgetsOf(N, program, ctxts, c) \in Seq(Gadgets(n + a))
    <3>1. \A S, T : S \subseteq T => \A g \in Seq(S) : g \in Seq(T)
      OBVIOUS
    <3> QED
      BY <1>2, <2>4, <3>1
  <2> QED
    BY <1>8, <2>1, <2>2, <2>5, SatHolds DEF l
<1> QED
  BY <1>1, <1>3, <1>4, <1>5, <1>7, <1>8, <1>9, <1>10 DEF N, n, l, w

\* The output of generation, finalized after the replay.
LEMMA LateBound ==
  ASSUME Inv, WRun, phase = "replay", pc = Len(program), finalize = "late",
         FinalizeOutputConstraints(output), status' = "ok", output \in 1 .. Len(ctxts),
         Usable(Habit.inputs, program, output) \/ ctxts[output].constraint = None,
         Reliable, Pending, output' = output, replayed' = replayed
  PROVE  OutputIsResult'
<1> DEFINE N == Habit.inputs
           n == NumVariables(pb)
           V == OutSet(out_vars)
           l == Len(program)
           m == ctxts[output].constraint
           x == ctxts[replayed[output]].content
           q == pb'
<1>1. /\ status = "ok" /\ ctxts' = ctxts /\ out_vars' = out_vars
      /\ q = OutputConstraints(m)
      /\ IsMeta(m, n) /\ NumPolys(m) >= Len(out_vars)
      /\ Holding(pb.constraints, q.val)
  BY FinalizeRun
<1>2. /\ IsBoard(pb, n) /\ out_vars \in Seq([Limbs -> 1 .. n]) /\ l \in Nat
      /\ N \in Nat
      /\ Free(N, program, ctxts, V) /\ OutsApart(out_vars)
      /\ Right(N, program, ctxts, replayed, l, pb.val)
      /\ OutputOK(N, program, ctxts, output)
  BY <1>1, ReplayedRun
<1>3. m # None
  BY <1>1 DEF FinalizeOutputConstraints, Stop
<1>4. UsableAt(N, program, output, l + 1)
  <2>1. l + 1 - 1 = l
    BY <1>2
  <2>2. Usable(N, program, output)
    BY <1>3
  <2> QED
    BY <1>2, <2>1, <2>2 DEF OutputOK, UsableAt, Usable, IsDeclared
<1>5. FreeMeta(m, V)
  BY <1>2, <1>4, FreeUsable
<1>6. Agrees(m, x, pb.val)
  BY <1>2, <1>4 DEF Right, RightFor
<1>7. \A i \in 1 .. Len(out_vars), j \in Limbs : m.max_value[i][j] >= Q
  <2>1. DOMAIN out_vars = 1 .. Len(out_vars)
    BY <1>2
  <2> QED
    BY <2>1, Zenon DEF Pending
<1>8. NumPolys(m) \in Nat
  BY <1>1, MetaEntry
<1> HIDE DEF N, n, V, l, m, x, q
<1>9. /\ IsSatisfied(q)
      /\ \A i \in 1 .. Len(out_vars), j \in Limbs :
           q.val[out_vars[i][j]] = Wrap(LcVal(m.lc[i][j], pb.val)) % Q
  <2>1. IsBoard(pb, n) /\ out_vars \in Seq([Limbs -> 1 .. n]) /\ OutsApart(out_vars)
    BY <1>2
  <2>2. /\ IsMeta(m, n) /\ NumPolys(m) >= Len(out_vars)
        /\ q = OutputConstraints(m) /\ Holding(pb.constraints, q.val)
    BY <1>1
  <2>3. FreeMeta(m, OutSet(out_vars))
    BY <1>5 DEF V
  <2> QED
    BY <1>7, <2>1, <2>2, <2>3, FinalizeBinds, SMTT(60)
<1>10. ASSUME NEW i \in 1 .. Len(out_vars), NEW j \in Limbs
       PROVE  q.val[out_vars[i][j]] = x[i][j]
  <2>1. i \in 1 .. NumPolys(m)
    <3>1. Len(out_vars) \in Nat
      BY <1>2
    <3> QED
      BY <1>1, <1>8, <3>1
  <2>2. x[i][j] = Wrap(LcVal(m.lc[i][j], pb.val)) % Q
    BY <1>6, <2>1, AgreesInField DEF Fits
  <2> QED
    BY <1>9, <2>2
<1>11. DOMAIN out_vars = 1 .. Len(out_vars)
  BY <1>2
<1> QED
  BY <1>1, <1>9, <1>10, <1>11 DEF OutputIsResult, q, x

\* After the replay all that was claimed of it holds.
LEMMA FinishRun ==
  ASSUME Inv, WRun, Finish, status' = "ok"
  PROVE  WRun'
<1> DEFINE N == Habit.inputs
           n == NumVariables(pb)
           l == Len(program)
<1>1. /\ phase = "replay" /\ pc = Len(program) /\ phase' = "finished"
      /\ kind' = kind /\ finalize' = finalize /\ program' = program /\ replayed' = replayed
      /\ output' = output
  BY DEF Finish
<1>2. Habit' = Habit /\ Covers' = Covers
  BY <1>1 DEF Habit, Covers
<1>7. ctxts' = ctxts => (Reliable' <=> Reliable)
  BY <1>1, <1>2 DEF Reliable, Trusted
<1>3. CASE UNCHANGED psVars /\ finalize \in {"never", "generated"}
  <2>1. /\ wire_id_to_metadata' = wire_id_to_metadata /\ status = "ok"
        /\ pb' = pb /\ ctxts' = ctxts /\ out_vars' = out_vars
    BY <1>3 DEF psVars
  <2>2. /\ IsBoard(pb, n) /\ N \in Nat
        /\ finalize # "generated" => Complete(N, program, ctxts, pb.constraints)
        /\ Sat(N, program, ctxts, l, pb.val)
        /\ Reliable => Right(N, program, ctxts, replayed, l, pb.val)
        /\ \A m \in 1 .. l : GadgetsOf(N, program, ctxts, m) \in Seq(Gadgets(n))
    BY <1>1, <2>1, ReplayedRun
  <2>3. finalize = "never" => IsSatisfied(pb)
    <3> SUFFICES ASSUME finalize = "never" PROVE IsSatisfied(pb)
      OBVIOUS
    <3>1. Complete(N, program, ctxts, pb.constraints)
      BY <2>2
    <3>2. Valuation(pb.val, n)
      BY <2>2 DEF Valuation, IsBoard
    <3> HIDE DEF N, n
    <3>3. Holding(pb.constraints, pb.val)
      BY <2>2, <3>1, <3>2, SatHolds
    <3> QED
      BY <3>3, HoldingAll
  <2>4. Recorded /\ Recorded' = Recorded
    BY <1>1, <1>2, <2>1 DEF WRun, Recorded, NumVariables
  <2>5. Witnessed'
    <3>1. finalize' # "late"
      BY <1>1, <1>3
    <3>2. finalize' = "never" => IsSatisfied(pb')
      BY <1>1, <2>1, <2>3
    <3>3. Reliable' => Right(Habit'.inputs, program', ctxts', replayed', Len(program'), pb'.val)
      BY <1>1, <1>2, <1>7, <2>1, <2>2
    <3> QED
      BY <3>1, <3>2, <3>3 DEF Witnessed
  <2> QED
    BY <1>1, <2>4, <2>5 DEF WRun
<1>4. ASSUME NEW k \in 1 .. Len(ctxts), FinalizeOutputConstraints(k), finalize \in {"late", "replayed"},
             Usable(N, program, k) \/ ctxts[k].constraint = None, finalize = "late" => k = output
      PROVE  WRun'
  <2> DEFINE m == ctxts[k].constraint
  <2>1. /\ status = "ok" /\ ctxts' = ctxts /\ out_vars' = out_vars
        /\ Traced(N, program, ctxts, wire_id_to_metadata', NumVariables(pb'))
        /\ Reliable => Right(N, program, ctxts, replayed, l, pb'.val)
    BY <1>1, <1>4, FinalizeRun
  <2>2. Recorded'
    <3>1. Free(N, program, ctxts, OutSet(out_vars)) /\ OutsApart(out_vars)
      BY DEF WRun, Recorded
    <3> QED
      BY <1>1, <1>2, <2>1, <3>1 DEF Recorded
  <2>3. ASSUME Reliable, finalize = "late", Pending PROVE OutputIsResult'
    BY <1>1, <1>4, <2>3, LateBound
  <2>4. Pending' = Pending
    BY <1>1, <2>1 DEF Pending
  <2>5. Witnessed'
    <3>1. finalize' # "never"
      BY <1>1, <1>4
    <3>2. Reliable' => Right(Habit'.inputs, program', ctxts', replayed', Len(program'), pb'.val)
      BY <1>1, <1>2, <1>7, <2>1
    <3>3. Reliable' /\ finalize' = "late" /\ Pending' => OutputIsResult'
      BY <1>1, <1>2, <1>7, <2>1, <2>3, <2>4
    <3> QED
      BY <3>1, <3>2, <3>3 DEF Witnessed
  <2> QED
    BY <1>1, <2>2, <2>5 DEF WRun
<1>5. CASE finalize = "late" /\ FinalizeOutputConstraints(output)
  <2>1. status = "ok"
    BY <1>5 DEF FinalizeOutputConstraints
  <2>2. /\ output \in 1 .. Len(ctxts)
        /\ Usable(N, program, output) \/ ctxts[output].constraint = None
    BY <1>1, <1>5, <2>1, OutputThere
  <2> QED
    BY <1>4, <1>5, <2>2
<1>6. CASE finalize = "replayed" /\ FinalizeOutputConstraints(replayed[output])
  <2>1. status = "ok"
    BY <1>6 DEF FinalizeOutputConstraints
  <2>2. /\ replayed[output] \in 1 .. Len(ctxts)
        /\ Usable(N, program, replayed[output]) \/ ctxts[replayed[output]].constraint = None
    BY <1>1, <1>6, <2>1, OutputThere
  <2> QED
    BY <1>4, <1>6, <2>2
<1> QED
  BY <1>3, <1>5, <1>6 DEF Finish

\* When the calls are replayed again the counter is where the replay left it,
\* and nothing is claimed.
LEMMA ReplayAgainRun ==
  ASSUME Inv, WRun, ReplayAgain
  PROVE  WRun'
<1> DEFINE N == Habit.inputs
           l == Len(program)
<1>1. /\ phase = "finished" /\ status = "ok" /\ phase' = "replay" /\ pc' = 0
      /\ kind' = kind /\ finalize' = finalize /\ program' = program
      /\ global_wire_id' = global_wire_id /\ wire_id_to_metadata' = wire_id_to_metadata
      /\ pb' = pb /\ ctxts' = ctxts /\ out_vars' = out_vars
  BY DEF ReplayAgain, psVars
<1>2. /\ N \in Nat /\ IsSeq(program)
      /\ CallsOK(N, program, ctxts, wire_id_to_metadata, NumVariables(pb))
      /\ ReplaysFrom(N, program, ctxts, replayed, pc, global_wire_id, Habit.loop)
      /\ pc = l
  BY <1>1, InvFacts, ReplayFacts
<1>3. l \in Nat /\ l > 0 /\ 1 \in 1 .. l /\ 1 \in 0 .. l /\ 0 \in 0 .. 1
  BY <1>2 DEF IsSeq, ReplaysFrom
<1>4. global_wire_id = Pubs(program, l)
  BY <1>2 DEF ReplaysFrom, WireCount
<1>5. Pubs(program, 0) = 0 /\ Ops(program, 0) = 0
  BY OpsCount DEF Pubs
<1>6. IsPublic(program, 1)
  <2> SUFFICES ASSUME ~IsPublic(program, 1) PROVE FALSE
    OBVIOUS
  <2>1. CallOK(N, program, 1)
    BY <1>2, <1>3 DEF CallsOK
  <2>2. UsableAt(N, program, ArgOf(program, 1, 1), 1)
    BY <2>1 DEF CallOK, OperationOK
  <2>3. 1 .. 0 = {} /\ 1 - 1 = 0 /\ Made(N, program, 0) = N
    BY <1>2, <1>5 DEF Made
  <2>4. DeclaredBefore(program, ArgOf(program, 1, 1), 1)
    BY <2>2, <2>3 DEF UsableAt
  <2> QED
    BY <2>3, <2>4 DEF DeclaredBefore
<1>7. Pubs(program, 1) = 1
  <2>1. Ops(program, 0 + 1) = 0
    BY <1>5, <1>6, OpsCount DEF IsPublic
  <2> QED
    BY <2>1 DEF Pubs
<1>8. Pubs(program, l) # 0
  <2>1. Pubs(program, 1) <= Pubs(program, l)
    BY <1>3, OpsGrow
  <2>2. ~(1 <= 0)
    OBVIOUS
  <2> QED
    BY <1>7, <2>1, <2>2
<1>9. Recorded' = Recorded /\ Recorded
  BY <1>1 DEF WRun, Recorded, Habit, NumVariables
<1>10. global_wire_id' # Pubs(program', pc')
  BY <1>1, <1>4, <1>5, <1>8
<1> QED
  BY <1>1, <1>9, <1>10 DEF WRun

\* A program stays of its kind.
LEMMA KindStays ==
  ASSUME [Next]_vars
  PROVE  kind' = kind
<1>1. ASSUME UNCHANGED clientVars PROVE kind' = kind
  BY <1>1 DEF clientVars
<1>2. UNCHANGED vars => UNCHANGED clientVars
  BY DEF vars
<1>3. ASSUME NEW i \in {2, 3}, GenPublicOutput(i) PROVE UNCHANGED clientVars
  BY <1>3, ZenonT(30) DEF GenPublicOutput
<1>4. \A k, op, l : EvaluatePublicInput(k) \/ EvaluateOperation(op, k, l) => UNCHANGED clientVars
  BY Zenon DEF EvaluatePublicInput, EvaluateOperation
<1>5. StartGeneration \/ StartReplay \/ Finish \/ ReplayAgain => kind' = kind
  BY DEF StartGeneration, StartReplay, Finish, ReplayAgain
<1>6. \A k, op, l : GenPublicInput(k) \/ GenOperation(op, k, l) \/ GenFinalize(k) => kind' = kind
  BY DEF GenPublicInput, GenOperation, GenFinalize, Called
<1>7. \A op : ReplayPublicInput \/ ReplayOperation(op) => kind' = kind
  BY DEF ReplayPublicInput, ReplayOperation, Replaying
<1> QED
  BY <1>1, <1>2, <1>3, <1>4, <1>5, <1>6, <1>7, Zenon DEF Next

\* Every step preserves the invariant.
LEMMA NextWitness ==
  ASSUME WInv, [Next]_vars
  PROVE  WInv'
<1>1. Inv /\ Inv'
  BY NextInv DEF WInv
<1> SUFFICES ASSUME phase' # "start", status' = "ok", ~Habit'.repeatCalls PROVE WRun'
  BY <1>1 DEF WInv
<1>2. kind' = kind
  BY KindStays
<1>3. ~Habit.repeatCalls
  BY <1>2 DEF Habit
<1>4. phase # "start" /\ status = "ok" => WRun
  BY <1>3 DEF WInv
<1>5. ASSUME NEW k \in Inputs, EvaluatePublicInput(k) PROVE FALSE
  BY <1>5 DEF EvaluatePublicInput, clientVars
<1>6. ASSUME NEW op \in Habit.operations, NEW k \in DOMAIN ctxts, NEW l \in DOMAIN ctxts,
             EvaluateOperation(op, k, l)
      PROVE  FALSE
  BY <1>6 DEF EvaluateOperation, clientVars
<1>7. CASE StartGeneration
  BY <1>1, <1>7, StartGenerationRun
<1>8. ASSUME NEW k \in Inputs, GenPublicInput(k) PROVE WRun'
  <2>1. phase = "generate" /\ status = "ok"
    BY <1>8 DEF GenPublicInput, Generating, PublicInput
  <2> QED
    BY <1>1, <1>4, <1>8, <2>1, GenPublicInputRun
<1>9. ASSUME NEW op \in Habit.operations, NEW k \in DOMAIN ctxts, NEW l \in DOMAIN ctxts,
             GenOperation(op, k, l)
      PROVE  WRun'
  <2>1. phase = "generate" /\ status = "ok"
    BY <1>9 DEF GenOperation, Generating, Operation
  <2> QED
    BY <1>1, <1>3, <1>4, <1>9, <2>1, GenOperationRun
<1>10. ASSUME NEW i \in {2, 3}, GenPublicOutput(i) PROVE WRun'
  <2>1. phase = "generate" /\ status = "ok"
    <3> DEFINE x == Matrix(i, LAMBDA a, b : 0)
    <3>1. phase = "generate" /\ ConstrainPublicOutput(x)
      BY <1>10, ZenonT(30) DEF GenPublicOutput
    <3> HIDE DEF x
    <3> QED
      BY <3>1 DEF ConstrainPublicOutput, Matrix
  <2> QED
    BY <1>1, <1>4, <1>10, <2>1, GenPublicOutputRun
<1>11. ASSUME NEW k \in DOMAIN ctxts, GenFinalize(k) PROVE WRun'
  <2>1. phase = "generate" /\ status = "ok"
    BY <1>11 DEF GenFinalize, FinalizeOutputConstraints
  <2> QED
    BY <1>1, <1>4, <1>11, <2>1, GenFinalizeRun
<1>12. CASE StartReplay
  <2>1. phase # "start" /\ status = "ok"
    BY <1>12 DEF StartReplay
  <2> QED
    BY <1>1, <1>4, <1>12, <2>1, StartReplayRun
<1>13. CASE ReplayPublicInput
  <2>1. phase = "replay" /\ status = "ok"
    BY <1>13 DEF ReplayPublicInput, Replaying, PublicInput
  <2> QED
    BY <1>1, <1>4, <1>13, <2>1, ReplayPublicInputRun
<1>14. ASSUME NEW op \in Habit.operations, ReplayOperation(op) PROVE WRun'
  <2>1. phase = "replay" /\ status = "ok"
    BY <1>14 DEF ReplayOperation, Replaying, Operation
  <2> QED
    BY <1>1, <1>4, <1>14, <2>1, ReplayOperationRun
<1>15. CASE Finish
  <2>1. phase = "replay"
    BY <1>15 DEF Finish
  <2>2. status = "ok"
    BY <1>15 DEF Finish, psVars, FinalizeOutputConstraints
  <2> QED
    BY <1>1, <1>4, <1>15, <2>1, <2>2, FinishRun
<1>16. CASE ReplayAgain
  <2>1. phase = "finished" /\ status = "ok"
    BY <1>16 DEF ReplayAgain
  <2> QED
    BY <1>1, <1>4, <1>16, <2>1, ReplayAgainRun
<1>17. CASE UNCHANGED vars
  <2>1. /\ UNCHANGED <<mode, global_wire_id, wire_id_to_metadata, pb, ctxts, out_vars, status>>
        /\ UNCHANGED <<kind, finalize, program, pc, replayed, output, phase>>
    BY <1>17 DEF vars, psVars, clientVars
  <2>2. WRun
    BY <1>4, <2>1
  <2> QED
    BY <2>1, <2>2 DEF WRun, Recorded, SoFar, FromCalls, Covers, Reliable, Trusted, Witnessed, Habit,
       NumVariables, IsSatisfied, Pending, OutputIsResult
<1> QED
  BY <1>5, <1>6, <1>7, <1>8, <1>9, <1>10, <1>11, <1>12, <1>13, <1>14, <1>15, <1>16, <1>17 DEF Next

-----------------------------------------------------------------------------
(* What follows for programs that do not repeat a call                       *)

\* The invariant holds of every state.
LEMMA WitnessInvariance == Spec => []WInv
<1>1. Init => WInv
  BY InitInv DEF Init, WInv
<1>2. WInv /\ [Next]_vars => WInv'
  BY NextWitness
<1> QED
  BY <1>1, <1>2, PTL DEF Spec

\* The replay of a program that neither repeats a call nor has outputs assigns
\* values that satisfy all constraints, on any data.
THEOREM ReplayWitnesses == Spec => [](~Habit.repeatCalls => ReplaySatisfied)
<1>1. WInv => (~Habit.repeatCalls => ReplaySatisfied)
  BY DEF WInv, WRun, Witnessed, ReplaySatisfied, Replayed
<1> QED
  BY <1>1, WitnessInvariance, PTL

\* What the replay computed agrees with what generation recorded.
LEMMA RightIsEqualMod ==
  ASSUME WInv, ~Habit.repeatCalls, Reliable, Replayed
  PROVE  \A k \in Declared \cup ((Habit.inputs + 1) .. Len(replayed)) :
           Agrees(ctxts[k].constraint, ctxts[replayed[k]].content, pb.val)
<1> DEFINE N == Habit.inputs
           l == Len(program)
<1>1. Inv /\ phase = "finished" /\ status = "ok" /\ Right(N, program, ctxts, replayed, l, pb.val)
  BY DEF WInv, WRun, Witnessed, Replayed
<1>2. /\ N \in Nat /\ IsSeq(program) /\ pc = l
      /\ ReplaysFrom(N, program, ctxts, replayed, pc, global_wire_id, Habit.loop)
      /\ CallsOK(N, program, ctxts, wire_id_to_metadata, NumVariables(pb))
  BY <1>1, InvFacts, ReplayFacts
<1>3. l \in Nat /\ l + 1 - 1 = l /\ l \in 0 .. l /\ 0 \in 0 .. l
  BY <1>2 DEF IsSeq
<1>4. Len(replayed) = Made(N, program, l) /\ Made(N, program, l) \in Nat /\ N <= Made(N, program, l)
  BY <1>2, <1>3, MadeGrow DEF ReplaysFrom
<1> SUFFICES ASSUME NEW k \in Declared \cup ((N + 1) .. Len(replayed))
             PROVE  Agrees(ctxts[k].constraint, ctxts[replayed[k]].content, pb.val)
  OBVIOUS
<1>5. UsableAt(N, program, k, l + 1)
  <2>1. CASE k \in Declared
    <3>1. IsDeclared(program, k)
      BY <1>2, <2>1, DeclaredIs
    <3>2. PICK m \in 1 .. l : IsPublic(program, m) /\ ArgOf(program, m, 1) = k
      BY <1>3, <3>1 DEF IsDeclared, DeclaredBefore
    <3>3. k \in 1 .. N
      BY <1>2, <3>2 DEF CallsOK, CallOK, DeclarationOK
    <3> HIDE DEF N, l
    <3>4. k \in 1 .. Made(N, program, l)
      BY <1>2, <1>4, <3>3
    <3> QED
      BY <1>3, <3>1, <3>4 DEF UsableAt, IsDeclared, l
  <2>2. CASE k \in (N + 1) .. Len(replayed)
    <3> HIDE DEF N, l
    <3>1. k \in 1 .. Made(N, program, l) /\ k \notin 1 .. N
      BY <1>2, <1>4, <2>2
    <3> QED
      BY <1>3, <3>1 DEF UsableAt
  <2> QED
    BY <2>1, <2>2
<1> QED
  BY <1>1, <1>5 DEF Right, RightFor

\* For programs that do not repeat a call and whose inputs have a polynomial
\* for each limb, what is recorded of each ciphertext is congruent to the
\* ciphertext the replay computed, and within its bounds.
THEOREM ReplayAgrees == Spec => [](~Habit.repeatCalls /\ Covers => ReplayEqualMod)
<1>1. ASSUME WInv, ~Habit.repeatCalls, Covers PROVE ReplayEqualMod
  <2> SUFFICES ASSUME Replayed, Trusted, NEW k \in Declared \cup ((Habit.inputs + 1) .. Len(replayed)),
                      NEW i \in 1 .. NumPolys(ctxts[k].constraint), NEW j \in Limbs
               PROVE  LET v == Wrap(LcVal(ctxts[k].constraint.lc[i][j], pb.val))
                      IN  /\ v % Q = ctxts[replayed[k]].content[i][j]
                          /\ v <= ctxts[k].constraint.max_value[i][j]
    BY DEF ReplayEqualMod
  <2>1. Agrees(ctxts[k].constraint, ctxts[replayed[k]].content, pb.val)
    BY <1>1, RightIsEqualMod DEF Reliable
  <2> QED
    BY <2>1, AgreesInField DEF Fits
<1> QED
  BY <1>1, WitnessInvariance, PTL

\* For the same programs, an output finalized after the replay while all its
\* reductions are pending is bound to the result the replay computed.
THEOREM LateOutputIsBound == Spec => [](~Habit.repeatCalls /\ Covers => LateOutputBound)
<1>1. WInv => (~Habit.repeatCalls /\ Covers => LateOutputBound)
  BY DEF WInv, WRun, Witnessed, Reliable, LateOutputBound, Replayed
<1> QED
  BY <1>1, WitnessInvariance, PTL
=============================================================================
