-------------------------- MODULE ProofClientProofs --------------------------
(****************************************************************************)
(* For every modulus, number of limbs and kind of program: the protoboard,  *)
(* the linear combinations recorded for ciphertexts and the gadgets filed   *)
(* under wire ids keep their types, a replay finds the gadgets its calls    *)
(* filed, and running them satisfies all constraints.                       *)
(****************************************************************************)
EXTENDS ProofClient, ArithmeticTheorems, TLAPS

\* The modulus and the limbs.
LEMMA SizeFacts ==
  /\ Q \in Nat /\ Q > 1
  /\ NumLimbs \in Nat /\ NumLimbs >= 1
  /\ Limbs = 1 .. NumLimbs
BY SizeAssumption DEF Limbs

\* An integer in the field is between 0 and the order, is itself if it is below
\* the order, and differs from itself by a multiple of the order.
LEMMA WrapIs ==
  ASSUME NEW x \in Int
  PROVE  /\ P \in Nat /\ P > 0 /\ 4 * Q < P
         /\ Wrap(x) \in Int /\ Wrap(x) \in 0 .. (P - 1)
         /\ 0 <= x /\ x < P => Wrap(x) = x
         /\ (x - Wrap(x)) % P = 0
<1>1. P \in Nat /\ P > 0 /\ 4 * Q < P
  BY FieldAssumption, SizeFacts
<1>2. Wrap(x) \in Int /\ Wrap(x) \in 0 .. (P - 1)
  BY <1>1, ModRange DEF Wrap
<1>3. 0 <= x /\ x < P => Wrap(x) = x
  <2>1. 0 <= x /\ x < P => x \in 0 .. (P - 1)
    BY <1>1
  <2> QED
    BY <1>1, <2>1, ModSmall DEF Wrap
<1>4. (x - Wrap(x)) % P = 0
  <2> DEFINE r == x % P
             d == x \div P
  <2>1. x = r + P * d /\ d \in Int /\ r \in Int
    BY <1>1, DivMod
  <2> HIDE DEF r, d
  <2>2. P * d \in Int
    BY <1>1, <2>1
  <2>3. x - r = P * d + 0
    BY <2>1, <2>2
  <2>4. (P * d + 0) % P = 0
    BY <1>1, <2>1, ModUnique
  <2> QED
    BY <2>3, <2>4 DEF Wrap, r
<1> QED
  BY <1>1, <1>2, <1>3, <1>4

-----------------------------------------------------------------------------
(* Linear combinations over the first n variables                            *)

Lcs(n) == UNION {[S -> Int] : S \in SUBSET (0 .. n)}

\* A linear combination is a function from its variables to integers.
LEMMA LcFacts ==
  ASSUME NEW n, NEW lc
  PROVE  lc \in Lcs(n) <=> DOMAIN lc \subseteq 0 .. n /\ lc \in [DOMAIN lc -> Int]
BY DEF Lcs

\* A linear combination over some variables is one over more.
LEMMA LcGrow ==
  ASSUME NEW m \in Int, NEW n \in Int, m <= n, NEW lc \in Lcs(m)
  PROVE  lc \in Lcs(n)
<1>1. 0 .. m \subseteq 0 .. n
  OBVIOUS
<1> QED
  BY <1>1, LcFacts

\* A variable, a constant and nothing are linear combinations.
LEMMA AtomLc ==
  ASSUME NEW n \in Nat
  PROVE  /\ \A v \in 0 .. n : Var(v) \in Lcs(n)
         /\ \A c \in Int : Const(c) \in Lcs(n)
         /\ <<>> \in Lcs(n)
<1>1. ASSUME NEW v \in 0 .. n PROVE Var(v) \in Lcs(n)
  <2>1. DOMAIN Var(v) = {v} /\ Var(v) \in [{v} -> Int]
    BY DEF Var
  <2> QED
    BY <2>1, LcFacts
<1>2. ASSUME NEW c \in Int PROVE Const(c) \in Lcs(n)
  <2>1. DOMAIN Const(c) = {0} /\ Const(c) \in [{0} -> Int]
    BY DEF Const
  <2> QED
    BY <2>1, LcFacts
<1>3. <<>> \in Lcs(n)
  <2>1. DOMAIN <<>> = {} /\ <<>> \in [{} -> Int]
    OBVIOUS
  <2> QED
    BY <2>1, LcFacts
<1> QED
  BY <1>1, <1>2, <1>3

\* Linear combinations can be combined.
LEMMA CombineLc ==
  ASSUME NEW n \in Nat, NEW a \in Lcs(n), NEW b \in Lcs(n), NEW s \in Int
  PROVE  Combine(a, s, b) \in Lcs(n)
<1>1. /\ DOMAIN a \subseteq 0 .. n /\ a \in [DOMAIN a -> Int]
      /\ DOMAIN b \subseteq 0 .. n /\ b \in [DOMAIN b -> Int]
  BY LcFacts
<1>2. \A v : Coefficient(a, v) \in Int /\ Coefficient(b, v) \in Int
  BY <1>1 DEF Coefficient
<1>3. \A v : Coefficient(a, v) + s * Coefficient(b, v) \in Int
  BY <1>2
<1>4. /\ DOMAIN Combine(a, s, b) = DOMAIN a \cup DOMAIN b
      /\ Combine(a, s, b) \in [DOMAIN a \cup DOMAIN b -> Int]
  BY <1>3 DEF Combine
<1> QED
  BY <1>1, <1>4, LcFacts

Term(lc, val, v) == lc[v] * (IF v = 0 THEN 1 ELSE val[v])

Terms(lc, val) == [v \in DOMAIN lc |-> Term(lc, val, v)]

Known(lc, val) == \A v \in DOMAIN lc \ {0} : val[v] \in Int

\* The terms of a linear combination are integers.
LEMMA TermsInt ==
  ASSUME NEW n \in Nat, NEW lc \in Lcs(n), NEW val, Known(lc, val)
  PROVE  /\ IsFiniteSet(DOMAIN lc)
         /\ \A v \in DOMAIN lc : Terms(lc, val)[v] \in Int /\ Terms(lc, val)[v] = Term(lc, val, v)
<1>1. DOMAIN lc \subseteq 0 .. n /\ lc \in [DOMAIN lc -> Int]
  BY LcFacts
<1>2. IsFiniteSet(DOMAIN lc)
  BY <1>1, FS_Interval, FS_Subset
<1>3. ASSUME NEW v \in DOMAIN lc PROVE Term(lc, val, v) \in Int
  <2>1. lc[v] \in Int /\ (IF v = 0 THEN 1 ELSE val[v]) \in Int
    BY <1>1 DEF Known
  <2> QED
    BY <2>1 DEF Term
<1> QED
  BY <1>2, <1>3 DEF Terms

\* The value of a linear combination is the sum of its terms.
LEMMA LcValTotal ==
  ASSUME NEW n \in Nat, NEW lc \in Lcs(n), NEW val, Known(lc, val)
  PROVE  /\ LcVal(lc, val) = Total(Terms(lc, val), DOMAIN lc)
         /\ LcVal(lc, val) \in Int
<1> DEFINE D == DOMAIN lc
           f == Terms(lc, val)
<1>1. IsFiniteSet(D) /\ \A v \in D : f[v] \in Int /\ f[v] = Term(lc, val, v)
  BY TermsInt
<1>2. PICK h : SumsTo(h, f, D)
  BY <1>1, SumExists
<1>3. AddsUp(h, f, D)
  BY <1>2, SumsUp
<1> DEFINE Body(g) == [s \in SUBSET D |->
                         IF s = {} THEN 0
                         ELSE LET x == CHOOSE x \in s : TRUE
                              IN  lc[x] * (IF x = 0 THEN 1 ELSE val[x]) + g[s \ {x}]]
           iter == CHOOSE g : g = Body(g)
<1>4. LcVal(lc, val) = iter[D]
  BY DEF LcVal, MapThenSumSet, MapThenFoldSet
<1>5. h = Body(h)
  <2>1. \A s \in SUBSET D : s # {} =>
          AnElement(s) \in s /\ h[s] = f[AnElement(s)] + h[s \ {AnElement(s)}]
    BY <1>3 DEF AddsUp
  <2>2. ASSUME NEW s \in SUBSET D, s # {}
        PROVE  h[s] = lc[AnElement(s)] * (IF AnElement(s) = 0 THEN 1 ELSE val[AnElement(s)])
                        + h[s \ {AnElement(s)}]
    <3> DEFINE x == AnElement(s)
    <3>1. x \in D /\ h[s] = f[x] + h[s \ {x}]
      BY <2>1, <2>2
    <3>2. f[x] = Term(lc, val, x)
      BY <1>1, <3>1
    <3> HIDE DEF x, f, D
    <3>3. f[x] = lc[x] * (IF x = 0 THEN 1 ELSE val[x])
      BY <3>2 DEF Term
    <3>4. h[s] = lc[x] * (IF x = 0 THEN 1 ELSE val[x]) + h[s \ {x}]
      BY <3>1, <3>3
    <3> QED
      BY <3>4 DEF x
  <2>3. h \in [SUBSET D -> Int] /\ h[{}] = 0
    BY <1>3 DEF AddsUp
  <2> HIDE DEF D, f
  <2> QED
    BY <2>2, <2>3 DEF AnElement
<1>6. iter = Body(iter)
  <2> HIDE DEF Body
  <2> QED
    BY <1>5
<1> DEFINE G == {s \in SUBSET D : iter[s] = h[s]}
<1>7. Inherits(G, D)
  <2> HIDE DEF iter
  <2>1. {} \in G
    BY <1>3, <1>6 DEF AddsUp
  <2>2. ASSUME NEW s \in SUBSET D, s # {} PROVE \E x \in s : s \ {x} \in G => s \in G
    <3> DEFINE x == AnElement(s)
    <3>1. x \in s
      BY <2>2 DEF AnElement
    <3>2. h[s] = lc[x] * (IF x = 0 THEN 1 ELSE val[x]) + h[s \ {x}]
      BY <1>5, <2>2 DEF AnElement
    <3>3. iter[s] = lc[x] * (IF x = 0 THEN 1 ELSE val[x]) + iter[s \ {x}]
      BY <1>6, <2>2 DEF AnElement
    <3> HIDE DEF x
    <3>4. s \ {x} \in G => s \in G
      BY <3>2, <3>3
    <3> QED
      BY <3>1, <3>4
  <2> QED
    BY <2>1, <2>2 DEF Inherits
<1>8. D \in G
  <2> HIDE DEF G
  <2>1. D \in SUBSET D
    OBVIOUS
  <2> QED
    BY <1>1, <1>7, <2>1, FoldInduction
<1>9. Total(f, D) = h[D]
  BY <1>1, <1>2, SumUnique
<1>10. h[D] \in Int
  BY <1>3 DEF AddsUp
<1> HIDE DEF iter, f
<1>11. LcVal(lc, val) = Total(f, D)
  BY <1>4, <1>8, <1>9
<1> QED
  BY <1>9, <1>10, <1>11 DEF f

\* The value of a linear combination depends on the variables it mentions.
LEMMA LcValSame ==
  ASSUME NEW n \in Nat, NEW lc \in Lcs(n), NEW val, NEW w, Known(lc, val),
         \A v \in DOMAIN lc \ {0} : w[v] = val[v]
  PROVE  LcVal(lc, w) = LcVal(lc, val)
<1>1. Known(lc, w)
  BY DEF Known
<1>2. IsFiniteSet(DOMAIN lc) /\ \A v \in DOMAIN lc : Terms(lc, val)[v] \in Int
  BY TermsInt
<1>3. ASSUME NEW v \in DOMAIN lc PROVE Terms(lc, w)[v] = Terms(lc, val)[v]
  <2>1. (IF v = 0 THEN 1 ELSE w[v]) = (IF v = 0 THEN 1 ELSE val[v])
    OBVIOUS
  <2> QED
    BY <2>1 DEF Terms, Term
<1>4. Total(Terms(lc, w), DOMAIN lc) = Total(Terms(lc, val), DOMAIN lc)
  <2> DEFINE D == DOMAIN lc
             f == Terms(lc, val)
             h == Terms(lc, w)
  <2>1. IsFiniteSet(D) /\ \A v \in D : f[v] \in Int /\ h[v] = f[v]
    BY <1>2, <1>3
  <2> HIDE DEF D, f, h
  <2>2. Total(h, D) = Total(f, D)
    BY <2>1, TotalSame
  <2> QED
    BY <2>2 DEF D, f, h
<1>5. LcVal(lc, w) = Total(Terms(lc, w), DOMAIN lc)
  BY <1>1, LcValTotal
<1>6. LcVal(lc, val) = Total(Terms(lc, val), DOMAIN lc)
  BY LcValTotal
<1> QED
  BY <1>4, <1>5, <1>6

\* The values of the first n variables are those of the combinations over them.
LEMMA KnownFirst ==
  ASSUME NEW n \in Nat, NEW lc \in Lcs(n), NEW val, \A v \in 1 .. n : val[v] \in Int
  PROVE  Known(lc, val)
BY LcFacts DEF Known

-----------------------------------------------------------------------------
(* Gadgets over the first n variables                                        *)

Gadgets(n) == [in1 : Lcs(n), in2 : Lcs(n), out : 1 .. n]

\* The last element of a set of positions is one of them.
LEMMA LastIsThere ==
  ASSUME NEW m \in Nat
  PROVE  /\ \A T \in SUBSET (1 .. m) : T # {} => Max(T) \in T
         /\ \A k \in 1 .. m : Max(1 .. k) = k
<1>1. ASSUME NEW T \in SUBSET (1 .. m), T # {} PROVE Max(T) \in T
  <2> DEFINE D == {m - k : k \in T}
  <2>1. D \in SUBSET Nat /\ D # {}
    <3>1. \A k \in T : m - k \in Nat
      OBVIOUS
    <3>2. \E k \in T : m - k \in D
      BY <1>1
    <3> QED
      BY <3>1, <3>2
  <2>2. PICK d \in D : \A e \in D : d <= e
    <3> HIDE DEF D
    <3> QED
      BY <2>1, LeastNat
  <2>3. PICK k \in T : d = m - k
    BY <2>2
  <2>4. \A l \in T : k >= l
    <3> TAKE l \in T
    <3>1. m - l \in D /\ k \in Int /\ l \in Int
      BY <2>3
    <3>2. m - k <= m - l
      BY <2>2, <2>3, <3>1
    <3> QED
      BY <3>1, <3>2
  <2> QED
    BY <2>4 DEF Max
<1>2. ASSUME NEW k \in 1 .. m PROVE Max(1 .. k) = k
  <2>1. k \in 1 .. k /\ \A l \in 1 .. k : k >= l
    OBVIOUS
  <2>2. Max(1 .. k) \in 1 .. k /\ \A l \in 1 .. k : Max(1 .. k) >= l
    BY <2>1 DEF Max
  <2> QED
    BY <2>1, <2>2
<1> QED
  BY <1>1, <1>2

LeftBody(g, n, base, F) ==
  [s \in SUBSET (1 .. n) |-> IF s = {} THEN base ELSE F[<<Max(s), g[s \ {Max(s)}]>>]]

FoldsLeft(h, n, V, base, F) ==
  h \in [SUBSET (1 .. n) -> V] /\ h = LeftBody(h, n, base, F)

\* There is a fold of a sequence.
LEMMA FoldHas ==
  ASSUME NEW n \in Nat, NEW V, NEW base \in V, NEW F, IsStep(F, 1 .. n, V)
  PROVE  \E h : FoldsLeft(h, n, V, base, F)
<1> DEFINE pick == [T \in SUBSET (1 .. n) |-> Max(T)]
<1>1. \A T \in SUBSET (1 .. n) : pick[T] = Max(T)
  OBVIOUS
<1> HIDE DEF pick
<1>2. IsPick(pick, 1 .. n)
  BY <1>1, LastIsThere DEF IsPick
<1>3. IsFiniteSet(1 .. n)
  BY FS_Interval
<1>4. PICK h : FoldsTo(h, 1 .. n, V, base, F, pick)
  BY <1>2, <1>3, FoldExists
<1>5. h \in [SUBSET (1 .. n) -> V]
  BY <1>4 DEF FoldsTo
<1>6. \A T \in SUBSET (1 .. n) :
        h[T] = IF T = {} THEN base ELSE F[<<Max(T), h[T \ {Max(T)}]>>]
  BY <1>1, <1>4 DEF FoldsTo
<1> QED
  BY <1>5, <1>6 DEF FoldsLeft, LeftBody

Unfolds(g, n, V, base, F) ==
  /\ g[{}] = base
  /\ \A s \in SUBSET (1 .. n) :
       s # {} /\ g[s \ {Max(s)}] \in V => g[s] = F[<<Max(s), g[s \ {Max(s)}]>>]

\* What unfolds like a fold of a sequence from its end is a recurrence.
LEMMA FoldIs ==
  ASSUME NEW n \in Nat, NEW V, NEW base \in V, NEW F, IsStep(F, 1 .. n, V), NEW g,
         Unfolds(g, n, V, base, F)
  PROVE  Recurs([k \in 0 .. n |-> g[1 .. k]], n, V, base, F)
<1>0. /\ g[{}] = base
      /\ \A s \in SUBSET (1 .. n) :
           s # {} /\ g[s \ {Max(s)}] \in V => g[s] = F[<<Max(s), g[s \ {Max(s)}]>>]
  BY DEF Unfolds
<1> DEFINE G == {s \in SUBSET (1 .. n) : g[s] \in V}
<1>1. Inherits(G, 1 .. n)
  <2>1. {} \in G
    BY <1>0
  <2>2. ASSUME NEW s \in SUBSET (1 .. n), s # {} PROVE \E x \in s : s \ {x} \in G => s \in G
    <3> DEFINE x == Max(s)
    <3>1. x \in s
      BY <2>2, LastIsThere
    <3>2. ASSUME s \ {x} \in G PROVE s \in G
      <4>1. g[s \ {x}] \in V
        BY <3>2
      <4>2. g[s] = F[<<x, g[s \ {x}]>>]
        BY <1>0, <2>2, <4>1
      <4> HIDE DEF x
      <4>3. x \in 1 .. n
        BY <3>1
      <4>4. F[<<x, g[s \ {x}]>>] \in V
        BY <4>1, <4>3 DEF IsStep
      <4> QED
        BY <4>2, <4>4
    <3> HIDE DEF x, G
    <3> QED
      BY <3>1, <3>2
  <2> QED
    BY <2>1, <2>2 DEF Inherits
<1>2. \A s \in SUBSET (1 .. n) : g[s] \in V
  <2> HIDE DEF G
  <2>1. IsFiniteSet(1 .. n)
    BY FS_Interval
  <2>2. \A s \in SUBSET (1 .. n) : s \in G
    BY <1>1, <2>1, FoldInduction
  <2> QED
    BY <2>2 DEF G
<1> DEFINE pick == [T \in SUBSET (1 .. n) |-> Max(T)]
           h == [T \in SUBSET (1 .. n) |-> g[T]]
<1>3. /\ \A T \in SUBSET (1 .. n) : pick[T] = Max(T) /\ h[T] = g[T]
      /\ \A k \in 0 .. n : 1 .. k \in SUBSET (1 .. n)
  OBVIOUS
<1>4. h \in [SUBSET (1 .. n) -> V]
  BY <1>2
<1> HIDE DEF pick, h
<1>5. ASSUME NEW T \in SUBSET (1 .. n)
      PROVE  h[T] = IF T = {} THEN base ELSE F[<<pick[T], h[T \ {pick[T]}]>>]
  <2>1. CASE T = {}
    <3>1. h[T] = g[{}]
      BY <1>3, <2>1
    <3> QED
      BY <1>0, <2>1, <3>1
  <2>2. CASE T # {}
    <3>1. Max(T) \in T
      BY <2>2, LastIsThere
    <3>2. T \ {Max(T)} \in SUBSET (1 .. n)
      OBVIOUS
    <3>3. h[T] = g[T] /\ h[T \ {Max(T)}] = g[T \ {Max(T)}] /\ pick[T] = Max(T)
      BY <1>3, <3>2
    <3>4. g[T] = F[<<Max(T), g[T \ {Max(T)}]>>]
      BY <1>0, <1>2, <2>2, <3>2
    <3> QED
      BY <2>2, <3>3, <3>4
  <2> QED
    BY <2>1, <2>2
<1>6. FoldsTo(h, 1 .. n, V, base, F, pick)
  BY <1>4, <1>5 DEF FoldsTo
<1>7. \A k \in 1 .. n : pick[1 .. k] = k
  <2> TAKE k \in 1 .. n
  <2>1. pick[1 .. k] = Max(1 .. k)
    BY <1>3
  <2>2. Max(1 .. k) = k
    BY LastIsThere
  <2> QED
    BY <2>1, <2>2
<1>8. Recurs([k \in 0 .. n |-> h[1 .. k]], n, V, base, F)
  BY <1>6, <1>7, LeftFold
<1>9. [k \in 0 .. n |-> h[1 .. k]] = [k \in 0 .. n |-> g[1 .. k]]
  BY <1>3
<1> QED
  BY <1>8, <1>9

\* A gadget sets its output and no other variable.
LEMMA RunOne ==
  ASSUME NEW n \in Nat, NEW val \in [1 .. n -> Int], NEW g \in Gadgets(n)
  PROVE  /\ RunGadget(val, g) \in [1 .. n -> Int]
         /\ RunGadget(val, g)[g.out] = Wrap(LcVal(g.in1, val) * LcVal(g.in2, val))
         /\ \A v \in 1 .. n : v # g.out => RunGadget(val, g)[v] = val[v]
<1>1. g.in1 \in Lcs(n) /\ g.in2 \in Lcs(n) /\ g.out \in 1 .. n
  BY DEF Gadgets
<1>2. Known(g.in1, val) /\ Known(g.in2, val)
  BY <1>1, KnownFirst
<1>3. LcVal(g.in1, val) \in Int /\ LcVal(g.in2, val) \in Int
  BY <1>1, <1>2, LcValTotal
<1> DEFINE x == Wrap(LcVal(g.in1, val) * LcVal(g.in2, val))
<1>4. x \in Int
  BY <1>3, WrapIs
<1>5. RunGadget(val, g) = [val EXCEPT ![g.out] = x]
  BY DEF RunGadget
<1> HIDE DEF x
<1>6. /\ RunGadget(val, g) \in [1 .. n -> Int]
      /\ RunGadget(val, g)[g.out] = x
      /\ \A v \in 1 .. n : v # g.out => RunGadget(val, g)[v] = val[v]
  BY <1>1, <1>4, <1>5
<1> QED
  BY <1>6 DEF x

Runs(r, n, val, gadgets) ==
  /\ r \in [0 .. Len(gadgets) -> [1 .. n -> Int]]
  /\ r[0] = val
  /\ \A k \in 1 .. Len(gadgets) : r[k] = RunGadget(r[k - 1], gadgets[k])
  /\ FoldLeft(RunGadget, val, gadgets) = r[Len(gadgets)]

\* Gadgets are run one after another.
LEMMA RunInOrder ==
  ASSUME NEW n \in Nat, NEW val \in [1 .. n -> Int], NEW gadgets \in Seq(Gadgets(n))
  PROVE  \E r : Runs(r, n, val, gadgets)
<1> DEFINE m == Len(gadgets)
           V == [1 .. n -> Int]
           F == [p \in (1 .. m) \X V |-> RunGadget(p[2], gadgets[p[1]])]
<1>1. m \in Nat /\ DOMAIN gadgets = 1 .. m /\ \A k \in 1 .. m : gadgets[k] \in Gadgets(n)
  OBVIOUS
<1> HIDE DEF m
<1>2. \A k \in 1 .. m, w \in V : RunGadget(w, gadgets[k]) \in V /\ F[<<k, w>>] = RunGadget(w, gadgets[k])
  BY <1>1, RunOne
<1>3. IsStep(F, 1 .. m, V)
  <2> HIDE DEF V
  <2> QED
    BY <1>2 DEF IsStep
<1> HIDE DEF V, F
<1>4. val \in V
  BY DEF V
<1>0. m \in Nat
  BY <1>1
<1>5. PICK h : FoldsLeft(h, m, V, val, F)
  BY <1>0, <1>3, <1>4, FoldHas
<1> DEFINE Body(g) == [s \in SUBSET DOMAIN gadgets |->
                         IF s = {} THEN val
                         ELSE LET x == Max(s)
                              IN  RunGadget(g[s \ {x}], gadgets[x])]
           iter == CHOOSE g : g = Body(g)
           r == [k \in 0 .. m |-> iter[1 .. k]]
<1>6. FoldLeft(RunGadget, val, gadgets) = iter[DOMAIN gadgets]
  BY DEF FoldLeft, MapThenFoldSet
<1>7. ASSUME NEW s \in SUBSET (1 .. m), s # {}
      PROVE  Max(s) \in 1 .. m /\ s \ {Max(s)} \in SUBSET (1 .. m)
  <2>1. Max(s) \in s
    BY <1>1, <1>7, LastIsThere
  <2> QED
    BY <2>1
<1>8. h = Body(h)
  <2>1. ASSUME NEW s \in SUBSET (1 .. m), s # {}
        PROVE  h[s] = RunGadget(h[s \ {Max(s)}], gadgets[Max(s)])
    <3>1. h[s \ {Max(s)}] \in V /\ Max(s) \in 1 .. m
      BY <1>5, <1>7, <2>1 DEF FoldsLeft
    <3>2. h[s] = F[<<Max(s), h[s \ {Max(s)}]>>]
      BY <1>5, <2>1 DEF FoldsLeft, LeftBody
    <3> QED
      BY <1>2, <3>1, <3>2
  <2>2. h[{}] = val
    BY <1>5 DEF FoldsLeft, LeftBody
  <2>3. h = [s \in SUBSET (1 .. m) |-> h[s]]
    BY <1>5 DEF FoldsLeft
  <2> QED
    BY <1>1, <2>1, <2>2, <2>3
<1>9. iter = Body(iter)
  <2> HIDE DEF Body
  <2> QED
    BY <1>8
<1> HIDE DEF iter
<1>10. Recurs(r, m, V, val, F)
  <2>1. iter[{}] = val
    BY <1>9
  <2>2. ASSUME NEW s \in SUBSET (1 .. m), s # {}, iter[s \ {Max(s)}] \in V
        PROVE  iter[s] = F[<<Max(s), iter[s \ {Max(s)}]>>]
    <3>1. iter[s] = RunGadget(iter[s \ {Max(s)}], gadgets[Max(s)])
      BY <1>1, <1>9, <2>2
    <3> HIDE DEF Body
    <3>2. Max(s) \in 1 .. m
      BY <1>7, <2>2
    <3> QED
      BY <1>2, <2>2, <3>1, <3>2
  <2> HIDE DEF Body
  <2>3. Unfolds(iter, m, V, val, F)
    BY <2>1, <2>2 DEF Unfolds
  <2> QED
    BY <1>0, <1>3, <1>4, <2>3, FoldIs
<1>11. FoldLeft(RunGadget, val, gadgets) = r[m]
  BY <1>1, <1>6
<1> HIDE DEF r
<1>12. r \in [0 .. m -> V] /\ r[0] = val /\ \A k \in 1 .. m : r[k] = F[<<k, r[k - 1]>>] /\ r[k - 1] \in V
  BY <1>1, <1>10 DEF Recurs
<1>13. \A k \in 1 .. m : r[k] = RunGadget(r[k - 1], gadgets[k])
  BY <1>2, <1>12
<1>14. Runs(r, n, val, gadgets)
  BY <1>11, <1>12, <1>13 DEF Runs, V, m
<1> QED
  BY <1>14

-----------------------------------------------------------------------------
(* Sequences, whatever their elements are                                    *)

IsSeq(s) == Len(s) \in Nat /\ s = [k \in 1 .. Len(s) |-> s[k]]

\* Functions on the first naturals are sequences.
LEMMA SeqWhen ==
  ASSUME NEW n \in Nat, NEW s, DOMAIN s = 1 .. n, s = [k \in 1 .. n |-> s[k]]
  PROVE  IsSeq(s) /\ Len(s) = n
<1> DEFINE S == {s[k] : k \in 1 .. n}
<1>1. s \in [1 .. n -> S]
  OBVIOUS
<1> HIDE DEF S
<1>2. s \in Seq(S) /\ Len(s) = n
  BY <1>1
<1> QED
  BY <1>2 DEF IsSeq

\* An element can be appended.
LEMMA Appended ==
  ASSUME NEW s, IsSeq(s), NEW e
  PROVE  /\ IsSeq(Append(s, e))
         /\ Len(Append(s, e)) = Len(s) + 1
         /\ \A k \in 1 .. Len(s) : Append(s, e)[k] = s[k]
         /\ Append(s, e)[Len(s) + 1] = e
<1> DEFINE n == Len(s)
           S == {s[k] : k \in 1 .. n} \cup {e}
<1>1. n \in Nat /\ s = [k \in 1 .. n |-> s[k]]
  BY DEF IsSeq
<1> HIDE DEF n
<1>2. s \in [1 .. n -> S] /\ e \in S
  BY <1>1
<1> HIDE DEF S
<1>3. s \in Seq(S) /\ Append(s, e) \in Seq(S)
  BY <1>1, <1>2
<1>4. Len(Append(s, e)) = n + 1 /\ Append(s, e)[n + 1] = e /\ \A k \in 1 .. n : Append(s, e)[k] = s[k]
  BY <1>1, <1>2, <1>3 DEF n
<1> DEFINE t == Append(s, e)
<1>5. t \in Seq(S) /\ Len(t) = n + 1
  BY <1>3, <1>4
<1> HIDE DEF t
<1>7. DOMAIN t = 1 .. (n + 1) /\ t = [k \in 1 .. (n + 1) |-> t[k]] /\ n + 1 \in Nat
  BY <1>1, <1>5
<1>6. IsSeq(t)
  BY <1>7, SeqWhen
<1> QED
  BY <1>4, <1>6 DEF n, t

\* A sequence can be cut.
LEMMA Cut ==
  ASSUME NEW s, IsSeq(s), NEW m \in Nat, m <= Len(s)
  PROVE  /\ IsSeq(SubSeq(s, 1, m))
         /\ Len(SubSeq(s, 1, m)) = m
         /\ \A k \in 1 .. m : SubSeq(s, 1, m)[k] = s[k]
<1> DEFINE t == [k \in 1 .. m |-> s[k]]
<1>1. SubSeq(s, 1, m) = t
  <2> DEFINE n == Len(s)
             S == {s[k] : k \in 1 .. n}
  <2>1. n \in Nat /\ s = [k \in 1 .. n |-> s[k]]
    BY DEF IsSeq
  <2> HIDE DEF n
  <2>2. s \in [1 .. n -> S]
    BY <2>1
  <2> HIDE DEF S
  <2>3. s \in Seq(S)
    BY <2>1, <2>2
  <2>4. SubSeq(s, 1, m) \in Seq(S) /\ Len(SubSeq(s, 1, m)) = m
    BY <2>1, <2>3 DEF n
  <2>5. \A k \in 1 .. m : SubSeq(s, 1, m)[k] = s[k]
    BY <2>1, <2>3, <2>4 DEF n
  <2> QED
    BY <2>4, <2>5
<1>2. DOMAIN t = 1 .. m /\ t = [k \in 1 .. m |-> t[k]] /\ \A k \in 1 .. m : t[k] = s[k]
  OBVIOUS
<1> HIDE DEF t
<1>3. IsSeq(t) /\ Len(t) = m
  BY <1>2, SeqWhen
<1> QED
  BY <1>1, <1>2, <1>3

\* What is defined for the positions of a sequence is one of its length.
LEMMA Mapped ==
  ASSUME NEW s, IsSeq(s), NEW t, DOMAIN t = DOMAIN s, t = [k \in DOMAIN s |-> t[k]]
  PROVE  IsSeq(t) /\ Len(t) = Len(s) /\ DOMAIN t = 1 .. Len(s)
<1>1. Len(s) \in Nat /\ DOMAIN s = 1 .. Len(s)
  BY DEF IsSeq
<1> QED
  BY <1>1, SeqWhen

-----------------------------------------------------------------------------
(* Calls: operations each make an object, the others declare an input        *)

Ops(p, n) == Cardinality({m \in 1 .. n : p[m].op # "Public"})

Pubs(p, n) == n - Ops(p, n)

\* The operations among the calls are counted one by one.
LEMMA OpsCount ==
  ASSUME NEW p
  PROVE  /\ Ops(p, 0) = 0
         /\ \A n \in Nat : /\ Ops(p, n) \in Nat
                           /\ Ops(p, n + 1) = IF p[n + 1].op # "Public" THEN Ops(p, n) + 1 ELSE Ops(p, n)
<1> DEFINE S(n) == {m \in 1 .. n : p[m].op # "Public"}
<1>1. S(0) = {}
  OBVIOUS
<1>2. Ops(p, 0) = 0
  BY <1>1, FS_EmptySet DEF Ops
<1>3. ASSUME NEW n \in Nat
      PROVE  /\ Ops(p, n) \in Nat
             /\ Ops(p, n + 1) = IF p[n + 1].op # "Public" THEN Ops(p, n) + 1 ELSE Ops(p, n)
  <2>1. S(n) \subseteq 1 .. n /\ IsFiniteSet(1 .. n) /\ n + 1 \notin S(n)
    BY FS_Interval
  <2>2. IsFiniteSet(S(n))
    BY <2>1, FS_Subset
  <2>3. Cardinality(S(n)) \in Nat
    BY <2>2, FS_CardinalityType
  <2>4. S(n + 1) = IF p[n + 1].op # "Public" THEN S(n) \cup {n + 1} ELSE S(n)
    <3>1. ASSUME NEW m PROVE m \in 1 .. (n + 1) <=> m \in 1 .. n \/ m = n + 1
      OBVIOUS
    <3> QED
      BY <3>1
  <2>5. Ops(p, n) = Cardinality(S(n)) /\ Ops(p, n + 1) = Cardinality(S(n + 1))
    BY DEF Ops
  <2> HIDE DEF S
  <2>6. Cardinality(S(n) \cup {n + 1}) = Cardinality(S(n)) + 1
    BY <2>1, <2>2, FS_AddElement
  <2> QED
    BY <2>3, <2>4, <2>5, <2>6
<1> QED
  BY <1>2, <1>3

\* The counts depend on the calls before only, and grow with them.
LEMMA OpsGrow ==
  ASSUME NEW p, NEW n \in Nat, NEW m \in 0 .. n
  PROVE  /\ Ops(p, m) \in 0 .. m /\ Ops(p, n) \in 0 .. n
         /\ Ops(p, m) <= Ops(p, n)
         /\ Pubs(p, m) \in Nat /\ Pubs(p, m) <= Pubs(p, n)
<1> DEFINE S == {k \in 0 .. n : /\ Ops(p, k) \in 0 .. k
                                /\ \A l \in 0 .. k : Ops(p, l) \in Nat /\ Ops(p, l) <= Ops(p, k) /\ Ops(p, k) - Ops(p, l) <= k - l}
<1>1. 0 \in S
  <2>1. Ops(p, 0) = 0
    BY OpsCount
  <2>2. \A l \in 0 .. 0 : l = 0
    OBVIOUS
  <2> QED
    BY <2>1, <2>2
<1>2. ASSUME NEW k \in 0 .. (n - 1), k \in S PROVE k + 1 \in S
  <2>1. k \in Nat
    OBVIOUS
  <2>2. Ops(p, k) \in 0 .. k /\ (Ops(p, k + 1) = Ops(p, k) \/ Ops(p, k + 1) = Ops(p, k) + 1)
    BY <1>2, <2>1, OpsCount
  <2>3. Ops(p, k + 1) \in 0 .. (k + 1)
    BY <2>1, <2>2
  <2>4. ASSUME NEW l \in 0 .. (k + 1)
        PROVE  Ops(p, l) \in Nat /\ Ops(p, l) <= Ops(p, k + 1) /\ Ops(p, k + 1) - Ops(p, l) <= k + 1 - l
    <3>1. CASE l = k + 1
      BY <2>3, <3>1
    <3>2. CASE l # k + 1
      <4>1. l \in 0 .. k
        BY <2>1, <3>2
      <4>2. Ops(p, l) \in Nat /\ Ops(p, l) <= Ops(p, k) /\ Ops(p, k) - Ops(p, l) <= k - l
        BY <1>2, <4>1
      <4> QED
        BY <2>1, <2>2, <4>1, <4>2
    <3> QED
      BY <3>1, <3>2
  <2> QED
    BY <2>1, <2>3, <2>4
<1>3. \A k \in 0 .. n : k \in S
  <2> HIDE DEF S
  <2> QED
    BY <1>1, <1>2, UpTo
<1>4. m \in S /\ n \in S
  BY <1>3
<1>5. Ops(p, m) \in 0 .. m /\ Ops(p, n) \in 0 .. n /\ Ops(p, m) <= Ops(p, n) /\ Ops(p, n) - Ops(p, m) <= n - m
  BY <1>4
<1> HIDE DEF S
<1> QED
  BY <1>5 DEF Pubs

\* Calls that agree have the same counts.
LEMMA OpsSame ==
  ASSUME NEW p, NEW q, NEW n \in Nat, \A m \in 1 .. n : p[m] = q[m]
  PROVE  \A m \in 0 .. n : Ops(p, m) = Ops(q, m) /\ Pubs(p, m) = Pubs(q, m)
<1> TAKE m \in 0 .. n
<1>1. {k \in 1 .. m : p[k].op # "Public"} = {k \in 1 .. m : q[k].op # "Public"}
  OBVIOUS
<1> QED
  BY <1>1 DEF Ops, Pubs

-----------------------------------------------------------------------------
(* The protoboard with n variables                                           *)

Equations(n) == [a : Lcs(n), b : Lcs(n), c : Lcs(n)]

BoardFields == {"val", "inputs", "constraints", "public"}

IsBoard(p, n) ==
  /\ n \in Nat
  /\ DOMAIN p = BoardFields
  /\ p = [f \in BoardFields |-> p[f]]
  /\ p.val \in [1 .. n -> Int]
  /\ p.inputs \in 0 .. n
  /\ p.public \subseteq 1 .. n
  /\ p.constraints \subseteq Equations(n)

\* What is over some variables is over more.
LEMMA Grow ==
  ASSUME NEW m \in Int, NEW n \in Int, m <= n
  PROVE  Lcs(m) \subseteq Lcs(n) /\ Equations(m) \subseteq Equations(n)
         /\ Gadgets(m) \subseteq Gadgets(n)
<1>1. Lcs(m) \subseteq Lcs(n)
  BY LcGrow
<1>2. 1 .. m \subseteq 1 .. n
  OBVIOUS
<1> QED
  BY <1>1, <1>2 DEF Equations, Gadgets

\* The number of variables.
LEMMA BoardSize ==
  ASSUME NEW p, NEW n, IsBoard(p, n)
  PROVE  NumVariables(p) = n /\ n \in Nat /\ p.val \in Seq(Int)
<1>1. n \in Nat /\ p.val \in [1 .. n -> Int]
  BY DEF IsBoard
<1> QED
  BY <1>1 DEF NumVariables

\* There is nothing on an empty board.
LEMMA EmptyIsBoard == IsBoard(EmptyBoard, 0)
<1>1. <<>> \in [1 .. 0 -> Int]
  <2>1. 1 .. 0 = {}
    OBVIOUS
  <2>2. <<>> \in [{} -> Int]
    OBVIOUS
  <2> QED
    BY <2>1, <2>2
<1> QED
  BY <1>1 DEF EmptyBoard, IsBoard, BoardFields

\* Allocated variables come after the others, and are zero.
LEMMA AllocateBoard ==
  ASSUME NEW p, NEW n, IsBoard(p, n), NEW k \in Nat
  PROVE  /\ IsBoard(Allocate(p, k), n + k)
         /\ Allocate(p, k).constraints = p.constraints
         /\ Allocate(p, k).inputs = p.inputs
         /\ Allocate(p, k).public = p.public
         /\ \A v \in 1 .. n : Allocate(p, k).val[v] = p.val[v]
<1> DEFINE z == [l \in 1 .. k |-> 0]
           w == p.val \o z
<1>1. n \in Nat /\ p.val \in [1 .. n -> Int] /\ p.val \in Seq(Int) /\ Len(p.val) = n
  BY BoardSize DEF IsBoard, NumVariables
<1>2. z \in Seq(Int) /\ Len(z) = k
  <2>1. z \in [1 .. k -> Int]
    OBVIOUS
  <2> HIDE DEF z
  <2> QED
    BY <2>1
<1> HIDE DEF z
<1>3. w \in Seq(Int) /\ Len(w) = n + k /\ \A v \in 1 .. n : w[v] = p.val[v]
  <2> DEFINE y == p.val
  <2>1. n \in Nat /\ y \in Seq(Int) /\ Len(y) = n
    BY <1>1
  <2> HIDE DEF y
  <2>2. y \o z \in Seq(Int) /\ Len(y \o z) = n + k
    BY <1>2, <2>1
  <2>3. \A v \in 1 .. n : (y \o z)[v] = y[v]
    BY <1>2, <2>1
  <2> QED
    BY <2>2, <2>3 DEF y
<1>5. Allocate(p, k) = [p EXCEPT !.val = w]
  BY DEF Allocate, z
<1> HIDE DEF w
<1>4. w \in [1 .. (n + k) -> Int]
  BY <1>1, <1>3
<1> DEFINE q == Allocate(p, k)
<1>6. /\ DOMAIN q = BoardFields /\ q = [f \in BoardFields |-> q[f]]
      /\ q.val = w /\ q.inputs = p.inputs /\ q.public = p.public /\ q.constraints = p.constraints
  BY <1>5 DEF IsBoard, BoardFields
<1> HIDE DEF q
<1>7. n + k \in Nat /\ n <= n + k /\ 0 .. n \subseteq 0 .. (n + k) /\ 1 .. n \subseteq 1 .. (n + k)
  BY <1>1
<1>8. Equations(n) \subseteq Equations(n + k)
  BY <1>1, <1>7, Grow
<1>9. IsBoard(q, n + k)
  BY <1>4, <1>6, <1>7, <1>8 DEF IsBoard
<1> QED
  BY <1>3, <1>6, <1>9 DEF q

\* Running gadgets changes values only.
LEMMA RunBoard ==
  ASSUME NEW p, NEW n, IsBoard(p, n), NEW gadgets \in Seq(Gadgets(n))
  PROVE  /\ IsBoard(RunGadgets(p, gadgets), n)
         /\ RunGadgets(p, gadgets).constraints = p.constraints
         /\ RunGadgets(p, gadgets).inputs = p.inputs
         /\ RunGadgets(p, gadgets).public = p.public
         /\ \E r : Runs(r, n, p.val, gadgets) /\ RunGadgets(p, gadgets).val = r[Len(gadgets)]
<1>1. n \in Nat /\ p.val \in [1 .. n -> Int]
  BY DEF IsBoard
<1>2. PICK r : Runs(r, n, p.val, gadgets)
  BY <1>1, RunInOrder
<1> DEFINE w == FoldLeft(RunGadget, p.val, gadgets)
           q == RunGadgets(p, gadgets)
<1>3. w = r[Len(gadgets)] /\ w \in [1 .. n -> Int]
  BY <1>2 DEF Runs
<1>4. q = [p EXCEPT !.val = w]
  BY DEF RunGadgets
<1> HIDE DEF w
<1>5. /\ DOMAIN q = BoardFields /\ q = [f \in BoardFields |-> q[f]]
      /\ q.val = w /\ q.inputs = p.inputs /\ q.public = p.public /\ q.constraints = p.constraints
  BY <1>4 DEF IsBoard, BoardFields
<1> HIDE DEF q
<1>6. IsBoard(q, n)
  BY <1>3, <1>5 DEF IsBoard
<1> QED
  BY <1>2, <1>3, <1>5, <1>6 DEF q

-----------------------------------------------------------------------------
(* Positions                                                                 *)

\* Variables allocated polynomial by polynomial and limb by limb are different.
LEMMA VariablesApart ==
  ASSUME NEW base \in Nat, NEW n \in Nat
  PROVE  /\ n * NumLimbs \in Nat
         /\ \A i \in 1 .. n, j \in Limbs :
              /\ VariableAt(base, i, j) \in (base + 1) .. (base + n * NumLimbs)
              /\ \A k \in 1 .. n, l \in Limbs :
                   VariableAt(base, i, j) = VariableAt(base, k, l) => i = k /\ j = l
<1>1. NumLimbs \in Nat /\ NumLimbs >= 1 /\ Limbs = 1 .. NumLimbs /\ n * NumLimbs \in Nat
  BY SizeFacts
<1>2. ASSUME NEW i \in 1 .. n, NEW j \in Limbs
      PROVE  VariableAt(base, i, j) \in (base + 1) .. (base + n * NumLimbs)
  <2>1. i - 1 \in Nat /\ j \in 1 .. NumLimbs
    BY <1>1
  <2>2. (i - 1) * NumLimbs \in Nat /\ i * NumLimbs = (i - 1) * NumLimbs + NumLimbs
    BY <1>1, <2>1
  <2>3. i * NumLimbs <= n * NumLimbs
    <3>1. i \in Nat /\ i <= n
      OBVIOUS
    <3> QED
      BY <1>1, <3>1, ProductMonotone
  <2> DEFINE a == (i - 1) * NumLimbs
             b == i * NumLimbs
             c == n * NumLimbs
  <2>4. VariableAt(base, i, j) = base + a + j
    BY DEF VariableAt
  <2>5. a \in Nat /\ b = a + NumLimbs /\ b <= c /\ c \in Nat
    BY <1>1, <2>2, <2>3
  <2> HIDE DEF a, b, c
  <2>6. base + a + j \in (base + 1) .. (base + c)
    BY <1>1, <2>1, <2>5
  <2> QED
    BY <2>4, <2>6 DEF c
<1>3. ASSUME NEW i \in 1 .. n, NEW j \in Limbs, NEW k \in 1 .. n, NEW l \in Limbs, i < k
      PROVE  VariableAt(base, i, j) # VariableAt(base, k, l)
  <2> DEFINE a == (i - 1) * NumLimbs
             b == (k - 1) * NumLimbs
  <2>1. a \in Nat /\ b \in Nat /\ i * NumLimbs = a + NumLimbs
    BY <1>1
  <2>2. i * NumLimbs <= b
    <3>1. i \in Nat /\ k - 1 \in Nat /\ i <= k - 1
      BY <1>3
    <3> QED
      BY <1>1, <3>1, ProductMonotone
  <2>3. VariableAt(base, i, j) = base + a + j /\ VariableAt(base, k, l) = base + b + l
    BY DEF VariableAt
  <2> DEFINE c == i * NumLimbs
  <2>4. c = a + NumLimbs /\ c <= b
    BY <2>1, <2>2
  <2> HIDE DEF a, b, c
  <2>5. j \in 1 .. NumLimbs /\ l \in 1 .. NumLimbs
    BY <1>1
  <2> QED
    BY <1>1, <2>1, <2>3, <2>4, <2>5
<1>4. ASSUME NEW i \in 1 .. n, NEW j \in Limbs, NEW k \in 1 .. n, NEW l \in Limbs,
             VariableAt(base, i, j) = VariableAt(base, k, l)
      PROVE  i = k /\ j = l
  <2>1. i = k
    <3>1. i < k \/ k < i \/ i = k
      OBVIOUS
    <3> QED
      BY <1>3, <1>4, <3>1
  <2> DEFINE a == (i - 1) * NumLimbs
  <2>2. base + a + j = base + a + l
    BY <1>4, <2>1 DEF VariableAt
  <2>3. a \in Int /\ j \in Int /\ l \in Int
    BY <1>1
  <2> HIDE DEF a
  <2> QED
    BY <2>1, <2>2, <2>3
<1> QED
  BY <1>1, <1>2, <1>4

\* The k-th of them belongs to one polynomial and limb.
LEMMA VariableBack ==
  ASSUME NEW base \in Nat, NEW n \in Nat, NEW k \in 1 .. n * NumLimbs
  PROVE  /\ ((k - 1) \div NumLimbs) + 1 \in 1 .. n
         /\ ((k - 1) % NumLimbs) + 1 \in Limbs
         /\ VariableAt(base, ((k - 1) \div NumLimbs) + 1, ((k - 1) % NumLimbs) + 1) = base + k
<1>1. NumLimbs \in Nat /\ NumLimbs >= 1 /\ Limbs = 1 .. NumLimbs /\ n * NumLimbs \in Nat
  BY SizeFacts
<1> DEFINE d == (k - 1) \div NumLimbs
           r == (k - 1) % NumLimbs
           c == n * NumLimbs
<1>2. c \in Nat /\ k \in 1 .. c
  BY <1>1
<1>3. d \in Int /\ r \in 0 .. (NumLimbs - 1) /\ k - 1 = NumLimbs * d + r
  <2> HIDE DEF c
  <2>1. k - 1 \in Nat
    BY <1>2
  <2> QED
    BY <1>1, <2>1
<1> HIDE DEF d, r
<1>4. d >= 0
  <2>1. SUFFICES ASSUME d <= -1 PROVE FALSE
    BY <1>3
  <2> DEFINE e == -d
  <2>2. e \in Nat /\ 1 <= e
    BY <1>3, <2>1
  <2>3. NumLimbs * 1 <= NumLimbs * e
    BY <1>1, <2>2, ProductMonotone
  <2>4. NumLimbs * e = -(NumLimbs * d)
    BY <1>1, <1>3
  <2> DEFINE x == NumLimbs * d
             y == NumLimbs * e
  <2>5. y = -x /\ NumLimbs <= y /\ k - 1 = x + r
    BY <1>1, <1>3, <2>3, <2>4
  <2>6. x \in Int
    BY <1>1, <1>3
  <2> HIDE DEF x, y, e, c
  <2> QED
    BY <1>1, <1>2, <1>3, <2>5, <2>6
<1>5. d <= n - 1
  <2>1. SUFFICES ASSUME d >= n PROVE FALSE
    BY <1>3
  <2>2. NumLimbs * n <= NumLimbs * d
    <3>1. d \in Nat /\ n <= d
      BY <1>3, <1>4, <2>1
    <3> QED
      BY <1>1, <3>1, ProductMonotone
  <2> DEFINE x == NumLimbs * d
  <2>3. c <= x /\ k - 1 = x + r /\ x \in Int
    BY <1>1, <1>3, <2>2
  <2> HIDE DEF x, c
  <2> QED
    BY <1>1, <1>2, <1>3, <2>3
<1>6. VariableAt(base, d + 1, r + 1) = base + k
  <2>1. VariableAt(base, d + 1, r + 1) = base + ((d + 1) - 1) * NumLimbs + (r + 1)
    BY DEF VariableAt
  <2>2. ((d + 1) - 1) * NumLimbs = NumLimbs * d
    BY <1>1, <1>3
  <2> DEFINE x == NumLimbs * d
  <2>3. VariableAt(base, d + 1, r + 1) = base + x + (r + 1) /\ k - 1 = x + r /\ x \in Int
    BY <1>1, <1>3, <2>1, <2>2
  <2> HIDE DEF x, c
  <2> QED
    BY <1>2, <1>3, <2>3
<1>7. d + 1 \in 1 .. n /\ r + 1 \in 1 .. NumLimbs
  BY <1>1, <1>3, <1>4, <1>5
<1> QED
  BY <1>1, <1>6, <1>7 DEF d, r

-----------------------------------------------------------------------------
(* Metadata                                                                  *)

IsMeta(m, n) ==
  /\ m.lc \in Seq([Limbs -> Lcs(n)])
  /\ m.max_value \in Seq([Limbs -> Int])
  /\ Len(m.max_value) = Len(m.lc)

\* Metadata over some variables are metadata over more.
LEMMA MetaGrow ==
  ASSUME NEW k \in Int, NEW n \in Int, k <= n, NEW m, IsMeta(m, k)
  PROVE  IsMeta(m, n)
<1>1. [Limbs -> Lcs(k)] \subseteq [Limbs -> Lcs(n)]
  BY Grow
<1> DEFINE A == [Limbs -> Lcs(k)]
           B == [Limbs -> Lcs(n)]
<1>2. m.lc \in Seq(A) /\ A \subseteq B
  BY <1>1 DEF IsMeta
<1> HIDE DEF A, B
<1>3. m.lc \in Seq(B)
  BY <1>2
<1> QED
  BY <1>3 DEF IsMeta, B

\* The entries of metadata.
LEMMA MetaEntry ==
  ASSUME NEW m, NEW n, IsMeta(m, n)
  PROVE  /\ NumPolys(m) \in Nat
         /\ NumPolys(m) = Len(m.lc)
         /\ \A i \in 1 .. NumPolys(m), j \in Limbs :
              m.lc[i][j] \in Lcs(n) /\ m.max_value[i][j] \in Int
<1> DEFINE A == [Limbs -> Lcs(n)]
           B == [Limbs -> Int]
<1>1. m.lc \in Seq(A) /\ m.max_value \in Seq(B) /\ Len(m.max_value) = Len(m.lc)
  BY DEF IsMeta
<1>2. Len(m.lc) \in Nat /\ \A i \in 1 .. Len(m.lc) : m.lc[i] \in A /\ m.max_value[i] \in B
  <2> HIDE DEF A, B
  <2> QED
    BY <1>1
<1> QED
  BY <1>2 DEF NumPolys

\* Matrices of linear combinations and of bounds are metadata.
LEMMA MetaOf ==
  ASSUME NEW n, NEW k \in Nat, NEW lc, NEW max, NEW w,
         lc \in [1 .. k -> [Limbs -> Lcs(n)]], max \in [1 .. k -> [Limbs -> Int]]
  PROVE  /\ IsMeta(ConstraintMeta(lc, max, w), n)
         /\ NumPolys(ConstraintMeta(lc, max, w)) = k
<1> DEFINE A == [Limbs -> Lcs(n)]
           B == [Limbs -> Int]
<1>1. lc \in Seq(A) /\ max \in Seq(B) /\ Len(max) = Len(lc) /\ Len(lc) = k
  <2>1. lc \in [1 .. k -> A] /\ max \in [1 .. k -> B]
    OBVIOUS
  <2> HIDE DEF A, B
  <2> QED
    BY <2>1
<1>2. ConstraintMeta(lc, max, w).lc = lc /\ ConstraintMeta(lc, max, w).max_value = max
  BY DEF ConstraintMeta
<1> QED
  BY <1>1, <1>2 DEF IsMeta, NumPolys

\* The sum of two bounds or one, and of their linear combinations: of an
\* addition or subtraction.
LEMMA LinearMeta ==
  ASSUME NEW n \in Nat, NEW op \in Linear, NEW m1, NEW m2, IsMeta(m1, n), IsMeta(m2, n),
         OperandsFit(op, m1, m2)
  PROVE  LET c == LinearConstraint(op, m1, m2)
         IN  /\ c.board = pb
             /\ IsMeta(c.meta, n)
             /\ NumPolys(c.meta) = NumPolys(m1)
             /\ c.meta.witness = WitnessMeta(0, <<>>)
             /\ \A i \in 1 .. NumPolys(m1), j \in Limbs :
                  /\ c.meta.lc[i][j] = Combine(Combine(m1.lc[i][j], Sign(op), m2.lc[i][j]), 1,
                                               Const(IF op = "Sub" THEN Q ELSE 0))
                  /\ c.meta.max_value[i][j] = m1.max_value[i][j]
                                                + (IF op = "Sub" THEN Q ELSE m2.max_value[i][j])
<1> DEFINE c == LinearConstraint(op, m1, m2)
           k == NumPolys(m1)
           offset == IF op = "Sub" THEN Q ELSE 0
           lc(i, j) == Combine(Combine(m1.lc[i][j], Sign(op), m2.lc[i][j]), 1, Const(offset))
           max(i, j) == m1.max_value[i][j] + (IF op = "Sub" THEN Q ELSE m2.max_value[i][j])
           lcs == [i \in 1 .. k |-> [j \in Limbs |-> lc(i, j)]]
           maxes == [i \in 1 .. k |-> [j \in Limbs |-> max(i, j)]]
<1>1. c = [board |-> pb, meta |-> ConstraintMeta(lcs, maxes, WitnessMeta(0, <<>>))]
  BY DEF LinearConstraint, Matrix
<1>2. k \in Nat /\ NumPolys(m2) = k
  BY MetaEntry DEF OperandsFit
<1>3. ASSUME NEW i \in 1 .. k, NEW j \in Limbs PROVE lc(i, j) \in Lcs(n) /\ max(i, j) \in Int
  <2>1. m1.lc[i][j] \in Lcs(n) /\ m1.max_value[i][j] \in Int
    BY MetaEntry
  <2>2. m2.lc[i][j] \in Lcs(n) /\ m2.max_value[i][j] \in Int
    BY <1>2, MetaEntry
  <2>3. Sign(op) \in Int /\ offset \in Int /\ 1 \in Int
    BY SizeFacts DEF Sign
  <2>4. Combine(m1.lc[i][j], Sign(op), m2.lc[i][j]) \in Lcs(n)
    BY <2>1, <2>2, <2>3, CombineLc
  <2>5. Const(offset) \in Lcs(n)
    BY <2>3, AtomLc
  <2>6. lc(i, j) \in Lcs(n)
    BY <2>3, <2>4, <2>5, CombineLc
  <2>7. max(i, j) \in Int
    BY <2>1, <2>2, SizeFacts
  <2> QED
    BY <2>6, <2>7
<1> HIDE DEF lc, max
<1>4. lcs \in [1 .. k -> [Limbs -> Lcs(n)]] /\ maxes \in [1 .. k -> [Limbs -> Int]]
  BY <1>3
<1>5. \A i \in 1 .. k, j \in Limbs : lcs[i][j] = lc(i, j) /\ maxes[i][j] = max(i, j)
  OBVIOUS
<1> DEFINE w == WitnessMeta(0, <<>>)
           meta == ConstraintMeta(lcs, maxes, w)
<1> HIDE DEF lcs, maxes, w
<1>6. IsMeta(meta, n) /\ NumPolys(meta) = k
  <2> HIDE DEF c, k
  <2>1. k \in Nat
    BY <1>2
  <2>2. IsMeta(ConstraintMeta(lcs, maxes, w), n) /\ NumPolys(ConstraintMeta(lcs, maxes, w)) = k
    <3> HIDE DEF meta
    <3> QED
      BY <1>4, <2>1, MetaOf
  <2> QED
    BY <2>2
<1>7. meta.lc = lcs /\ meta.max_value = maxes /\ meta.witness = w
  <2>1. meta = [lc |-> lcs, max_value |-> maxes, witness |-> w]
    BY DEF ConstraintMeta
  <2> HIDE DEF meta
  <2> QED
    BY <2>1
<1>8. c.board = pb /\ c.meta = meta
  BY <1>1 DEF w
<1> HIDE DEF c, meta, k
<1> QED
  BY <1>5, <1>6, <1>7, <1>8 DEF c, lc, max, k, offset, w

\* Nothing is filed for it to run.
LEMMA NoGadgets ==
  /\ WitnessMeta(0, <<>>).gadgets = <<>>
  /\ \A n : <<>> \in Seq(Gadgets(n))
BY DEF WitnessMeta

-----------------------------------------------------------------------------
(* Products                                                                  *)

LcSums(r, n, base, ts, j) ==
  /\ r \in [0 .. Len(ts) -> Lcs(n)]
  /\ r[0] = <<>>
  /\ \A k \in 1 .. Len(ts) : r[k] = Combine(r[k - 1], 1, Var(VariableAt(base, ts[k], j)))
  /\ SumOfProducts(base, ts, j) = r[Len(ts)]

\* Products are summed up one after another.
LEMMA SumOfProductsIs ==
  ASSUME NEW n \in Nat, NEW base, NEW j, NEW S, NEW ts \in Seq(S),
         \A t \in S : VariableAt(base, t, j) \in 0 .. n
  PROVE  \E r : LcSums(r, n, base, ts, j)
<1> DEFINE m == Len(ts)
           V == Lcs(n)
           Step(lc, t) == Combine(lc, 1, Var(VariableAt(base, t, j)))
           F == [p \in (1 .. m) \X V |-> Step(p[2], ts[p[1]])]
<1>0. m \in Nat /\ DOMAIN ts = 1 .. m
  OBVIOUS
<1>1. \A k \in 1 .. m : ts[k] \in S
  OBVIOUS
<1> HIDE DEF m
<1>2. ASSUME NEW k \in 1 .. m, NEW lc \in V
      PROVE  Step(lc, ts[k]) \in V /\ F[<<k, lc>>] = Step(lc, ts[k])
  <2>1. Var(VariableAt(base, ts[k], j)) \in Lcs(n) /\ 1 \in Int
    BY <1>1, AtomLc
  <2> DEFINE v == Var(VariableAt(base, ts[k], j))
  <2> HIDE DEF v
  <2>3. v \in Lcs(n) /\ 1 \in Int
    BY <2>1 DEF v
  <2>2. Combine(lc, 1, v) \in Lcs(n)
    BY <2>3, CombineLc
  <2> QED
    BY <2>2 DEF v
<1>3. IsStep(F, 1 .. m, V)
  <2> HIDE DEF V, Step
  <2> QED
    BY <1>2 DEF IsStep
<1> HIDE DEF F
<1>4. <<>> \in V
  BY AtomLc
<1> HIDE DEF V
<1>5. PICK h : FoldsLeft(h, m, V, <<>>, F)
  BY <1>0, <1>3, <1>4, FoldHas
<1> DEFINE Body(g) == [s \in SUBSET DOMAIN ts |->
                         IF s = {} THEN <<>>
                         ELSE LET x == Max(s)
                              IN  Combine(g[s \ {x}], 1, Var(VariableAt(base, ts[x], j)))]
           iter == CHOOSE g : g = Body(g)
           r == [k \in 0 .. m |-> iter[1 .. k]]
<1>6. SumOfProducts(base, ts, j) = iter[DOMAIN ts]
  BY DEF SumOfProducts, FoldLeft, MapThenFoldSet
<1>7. ASSUME NEW s \in SUBSET (1 .. m), s # {}
      PROVE  Max(s) \in 1 .. m /\ s \ {Max(s)} \in SUBSET (1 .. m)
  <2>1. Max(s) \in s
    BY <1>0, <1>7, LastIsThere
  <2> QED
    BY <2>1
<1>8. h = Body(h)
  <2>1. ASSUME NEW s \in SUBSET (1 .. m), s # {}
        PROVE  h[s] = Step(h[s \ {Max(s)}], ts[Max(s)])
    <3>1. h[s \ {Max(s)}] \in V /\ Max(s) \in 1 .. m
      BY <1>5, <1>7, <2>1 DEF FoldsLeft
    <3>2. h[s] = F[<<Max(s), h[s \ {Max(s)}]>>]
      BY <1>5, <2>1 DEF FoldsLeft, LeftBody
    <3> HIDE DEF Step
    <3> QED
      BY <1>2, <3>1, <3>2
  <2>2. h[{}] = <<>>
    BY <1>5 DEF FoldsLeft, LeftBody
  <2>3. h = [s \in SUBSET (1 .. m) |-> h[s]]
    BY <1>5 DEF FoldsLeft
  <2> QED
    BY <1>0, <2>1, <2>2, <2>3
<1>9. iter = Body(iter)
  <2> HIDE DEF Body
  <2> QED
    BY <1>8
<1> HIDE DEF iter
<1>10. Recurs(r, m, V, <<>>, F)
  <2>1. iter[{}] = <<>>
    BY <1>9
  <2>2. ASSUME NEW s \in SUBSET (1 .. m), s # {}, iter[s \ {Max(s)}] \in V
        PROVE  iter[s] = F[<<Max(s), iter[s \ {Max(s)}]>>]
    <3>1. iter[s] = Step(iter[s \ {Max(s)}], ts[Max(s)])
      BY <1>0, <1>9, <2>2
    <3> HIDE DEF Body, Step
    <3>2. Max(s) \in 1 .. m
      BY <1>7, <2>2
    <3> QED
      BY <1>2, <2>2, <3>1, <3>2
  <2> HIDE DEF Body
  <2>3. Unfolds(iter, m, V, <<>>, F)
    BY <2>1, <2>2 DEF Unfolds
  <2> QED
    BY <1>0, <1>3, <1>4, <2>3, FoldIs
<1>11. SumOfProducts(base, ts, j) = r[m]
  BY <1>0, <1>6
<1> HIDE DEF r
<1>12. r \in [0 .. m -> V] /\ r[0] = <<>> /\ \A k \in 1 .. m : r[k] = F[<<k, r[k - 1]>>] /\ r[k - 1] \in V
  BY <1>0, <1>10 DEF Recurs
<1>13. \A k \in 1 .. m : r[k] = Step(r[k - 1], ts[k])
  <2> HIDE DEF Step
  <2> QED
    BY <1>2, <1>12
<1>14. LcSums(r, n, base, ts, j)
  BY <1>11, <1>12, <1>13 DEF LcSums, V, m
<1> QED
  BY <1>14

Bound(prods, m1, m2, t, j) == m1.max_value[prods[t][1]][j] * m2.max_value[prods[t][2]][j]

BoundSums(r, prods, m1, m2, ts, j) ==
  /\ r \in [0 .. Len(ts) -> Int]
  /\ r[0] = 0
  /\ \A k \in 1 .. Len(ts) : r[k] = r[k - 1] + Bound(prods, m1, m2, ts[k], j)
  /\ SumOfBounds(prods, m1, m2, ts, j) = r[Len(ts)]

\* Bounds are summed up one after another.
LEMMA SumOfBoundsIs ==
  ASSUME NEW prods, NEW m1, NEW m2, NEW j, NEW S, NEW ts \in Seq(S),
         \A t \in S : Bound(prods, m1, m2, t, j) \in Int
  PROVE  \E r : BoundSums(r, prods, m1, m2, ts, j)
<1> DEFINE m == Len(ts)
           V == Int
           Step(b, t) == b + Bound(prods, m1, m2, t, j)
           F == [p \in (1 .. m) \X V |-> Step(p[2], ts[p[1]])]
<1>0. m \in Nat /\ DOMAIN ts = 1 .. m
  OBVIOUS
<1>1. \A k \in 1 .. m : ts[k] \in S
  OBVIOUS
<1> HIDE DEF m
<1>2. ASSUME NEW k \in 1 .. m, NEW b \in V
      PROVE  Step(b, ts[k]) \in V /\ F[<<k, b>>] = Step(b, ts[k])
  <2>1. Bound(prods, m1, m2, ts[k], j) \in Int
    BY <1>1
  <2> QED
    BY <2>1
<1>3. IsStep(F, 1 .. m, V)
  <2> HIDE DEF V, Step
  <2> QED
    BY <1>2 DEF IsStep
<1> HIDE DEF F
<1>4. 0 \in V
  OBVIOUS
<1> HIDE DEF V
<1>5. PICK h : FoldsLeft(h, m, V, 0, F)
  BY <1>0, <1>3, <1>4, FoldHas
<1> DEFINE Body(g) == [s \in SUBSET DOMAIN ts |->
                         IF s = {} THEN 0
                         ELSE LET x == Max(s)
                              IN  g[s \ {x}] + m1.max_value[prods[ts[x]][1]][j]
                                                 * m2.max_value[prods[ts[x]][2]][j]]
           iter == CHOOSE g : g = Body(g)
           r == [k \in 0 .. m |-> iter[1 .. k]]
<1>6. SumOfBounds(prods, m1, m2, ts, j) = iter[DOMAIN ts]
  BY DEF SumOfBounds, FoldLeft, MapThenFoldSet
<1>7. ASSUME NEW s \in SUBSET (1 .. m), s # {}
      PROVE  Max(s) \in 1 .. m /\ s \ {Max(s)} \in SUBSET (1 .. m)
  <2>1. Max(s) \in s
    BY <1>0, <1>7, LastIsThere
  <2> QED
    BY <2>1
<1>8. h = Body(h)
  <2>1. ASSUME NEW s \in SUBSET (1 .. m), s # {}
        PROVE  h[s] = Step(h[s \ {Max(s)}], ts[Max(s)])
    <3>1. h[s \ {Max(s)}] \in V /\ Max(s) \in 1 .. m
      BY <1>5, <1>7, <2>1 DEF FoldsLeft
    <3>2. h[s] = F[<<Max(s), h[s \ {Max(s)}]>>]
      BY <1>5, <2>1 DEF FoldsLeft, LeftBody
    <3> HIDE DEF Step
    <3> QED
      BY <1>2, <3>1, <3>2
  <2>2. h[{}] = 0
    BY <1>5 DEF FoldsLeft, LeftBody
  <2>3. h = [s \in SUBSET (1 .. m) |-> h[s]]
    BY <1>5 DEF FoldsLeft
  <2> QED
    BY <1>0, <2>1, <2>2, <2>3 DEF Bound
<1>9. iter = Body(iter)
  <2> HIDE DEF Body
  <2> QED
    BY <1>8
<1> HIDE DEF iter
<1>10. Recurs(r, m, V, 0, F)
  <2>1. iter[{}] = 0
    BY <1>9
  <2>2. ASSUME NEW s \in SUBSET (1 .. m), s # {}, iter[s \ {Max(s)}] \in V
        PROVE  iter[s] = F[<<Max(s), iter[s \ {Max(s)}]>>]
    <3>1. iter[s] = Step(iter[s \ {Max(s)}], ts[Max(s)])
      BY <1>0, <1>9, <2>2 DEF Bound
    <3> HIDE DEF Body, Step
    <3>2. Max(s) \in 1 .. m
      BY <1>7, <2>2
    <3> QED
      BY <1>2, <2>2, <3>1, <3>2
  <2> HIDE DEF Body
  <2>3. Unfolds(iter, m, V, 0, F)
    BY <2>1, <2>2 DEF Unfolds
  <2> QED
    BY <1>0, <1>3, <1>4, <2>3, FoldIs
<1>11. SumOfBounds(prods, m1, m2, ts, j) = r[m]
  BY <1>0, <1>6
<1> HIDE DEF r
<1>12. r \in [0 .. m -> V] /\ r[0] = 0 /\ \A k \in 1 .. m : r[k] = F[<<k, r[k - 1]>>] /\ r[k - 1] \in V
  BY <1>0, <1>10 DEF Recurs
<1>13. \A k \in 1 .. m : r[k] = Step(r[k - 1], ts[k])
  <2> HIDE DEF Step
  <2> QED
    BY <1>2, <1>12
<1>14. BoundSums(r, prods, m1, m2, ts, j)
  BY <1>11, <1>12, <1>13 DEF BoundSums, V, m
<1> QED
  BY <1>14

\* Short sequences.
LEMMA OneTwo ==
  ASSUME NEW n \in Nat
  PROVE  \A a, b \in 1 .. n : <<a>> \in Seq(1 .. n) /\ <<a, b>> \in Seq(1 .. n)
<1> DEFINE S == 1 .. n
<1>1. \A a, b \in S : <<a>> \in Seq(S) /\ <<a, b>> \in Seq(S)
  <2> HIDE DEF S
  <2> QED
    OBVIOUS
<1> QED
  BY <1>1

\* The products of an operation are of two polynomials each, and summed up
\* into three.
LEMMA ProductShape ==
  ASSUME NEW op \in Quadratic
  PROVE  /\ Len(Products(op)) \in Nat
         /\ \A t \in 1 .. Len(Products(op)) : Products(op)[t][1] \in 1 .. 2 /\ Products(op)[t][2] \in 1 .. 2
         /\ \A i \in 1 .. 3 : Sums(op)[i] \in Seq(1 .. Len(Products(op)))
<1>1. CASE op = "MultNoRelin"
  <2>1. Products(op) = << <<1, 1>>, <<1, 2>>, <<2, 1>>, <<2, 2>> >>
    BY <1>1 DEF Products
  <2>2. Sums(op) = << <<1>>, <<2, 3>>, <<4>> >>
    BY <1>1 DEF Sums
  <2>3. Len(Products(op)) = 4
    BY <2>1
  <2>4. \A t \in 1 .. 4 : Products(op)[t][1] \in 1 .. 2 /\ Products(op)[t][2] \in 1 .. 2
    <3> TAKE t \in 1 .. 4
    <3>1. t = 1 \/ t = 2 \/ t = 3 \/ t = 4
      OBVIOUS
    <3> QED
      BY <2>1, <3>1
  <2>5. \A i \in 1 .. 3 : Sums(op)[i] \in Seq(1 .. 4)
    <3>1. <<1>> \in Seq(1 .. 4) /\ <<2, 3>> \in Seq(1 .. 4) /\ <<4>> \in Seq(1 .. 4)
      BY OneTwo
    <3>2. Sums(op)[1] = <<1>> /\ Sums(op)[2] = <<2, 3>> /\ Sums(op)[3] = <<4>>
      BY <2>2
    <3>3. \A i \in 1 .. 3 : i = 1 \/ i = 2 \/ i = 3
      OBVIOUS
    <3> QED
      BY <3>1, <3>2, <3>3
  <2> QED
    BY <2>3, <2>4, <2>5
<1>2. CASE op = "Square"
  <2>1. Products(op) = << <<1, 2>>, <<1, 1>>, <<2, 2>> >>
    BY <1>2 DEF Products
  <2>2. Sums(op) = << <<2>>, <<1, 1>>, <<3>> >>
    BY <1>2 DEF Sums
  <2>3. Len(Products(op)) = 3
    BY <2>1
  <2>4. \A t \in 1 .. 3 : Products(op)[t][1] \in 1 .. 2 /\ Products(op)[t][2] \in 1 .. 2
    <3> TAKE t \in 1 .. 3
    <3>1. t = 1 \/ t = 2 \/ t = 3
      OBVIOUS
    <3> QED
      BY <2>1, <3>1
  <2>5. \A i \in 1 .. 3 : Sums(op)[i] \in Seq(1 .. 3)
    <3>1. <<2>> \in Seq(1 .. 3) /\ <<1, 1>> \in Seq(1 .. 3) /\ <<3>> \in Seq(1 .. 3)
      BY OneTwo
    <3>2. Sums(op)[1] = <<2>> /\ Sums(op)[2] = <<1, 1>> /\ Sums(op)[3] = <<3>>
      BY <2>2
    <3>3. \A i \in 1 .. 3 : i = 1 \/ i = 2 \/ i = 3
      OBVIOUS
    <3> QED
      BY <3>1, <3>2, <3>3
  <2> QED
    BY <2>3, <2>4, <2>5
<1> QED
  BY <1>1, <1>2 DEF Quadratic

\* The gadgets of an operation read what the operands mention, and write
\* variables after those there were, one each.
LEMMA ProductGadgetsAre ==
  ASSUME NEW op \in Quadratic, NEW n \in Nat, NEW m1, NEW m2, IsMeta(m1, n), IsMeta(m2, n),
         NumPolys(m1) = 2, NumPolys(m2) = 2
  PROVE  LET g == ProductGadgets(Products(op), m1, m2, n)
             c == Len(Products(op)) * NumLimbs
         IN  /\ c \in Nat /\ Len(g) = c
             /\ g \in Seq(Gadgets(n + c))
             /\ \A k \in 1 .. c : g[k].in1 \in Lcs(n) /\ g[k].in2 \in Lcs(n) /\ g[k].out = n + k
<1> DEFINE p == Products(op)
           q == Len(p)
           c == q * NumLimbs
           T(k) == ((k - 1) \div NumLimbs) + 1
           J(k) == ((k - 1) % NumLimbs) + 1
           g == ProductGadgets(p, m1, m2, n)
<1>1. q \in Nat /\ \A t \in 1 .. q : p[t][1] \in 1 .. 2 /\ p[t][2] \in 1 .. 2
  BY ProductShape
<1> HIDE DEF p, q
<1>2. c \in Nat
  BY <1>1, VariablesApart
<1>3. \A k \in 1 .. c : T(k) \in 1 .. q /\ J(k) \in Limbs /\ VariableAt(n, T(k), J(k)) = n + k
  BY <1>1, VariableBack
<1>4. g = [k \in 1 .. c |-> [in1 |-> m1.lc[p[T(k)][1]][J(k)], in2 |-> m2.lc[p[T(k)][2]][J(k)],
                             out |-> VariableAt(n, T(k), J(k))]]
  BY DEF ProductGadgets, q
<1> HIDE DEF T, J, g
<1>5. ASSUME NEW k \in 1 .. c
      PROVE  /\ g[k] = [in1 |-> m1.lc[p[T(k)][1]][J(k)], in2 |-> m2.lc[p[T(k)][2]][J(k)], out |-> n + k]
             /\ m1.lc[p[T(k)][1]][J(k)] \in Lcs(n) /\ m2.lc[p[T(k)][2]][J(k)] \in Lcs(n)
             /\ n + k \in 1 .. (n + c)
  <2>1. T(k) \in 1 .. q /\ J(k) \in Limbs /\ VariableAt(n, T(k), J(k)) = n + k
    BY <1>3
  <2>2. p[T(k)][1] \in 1 .. 2 /\ p[T(k)][2] \in 1 .. 2
    BY <1>1, <2>1
  <2>3. m1.lc[p[T(k)][1]][J(k)] \in Lcs(n) /\ m2.lc[p[T(k)][2]][J(k)] \in Lcs(n)
    BY <2>1, <2>2, MetaEntry
  <2> HIDE DEF c
  <2>4. n + k \in 1 .. (n + c)
    BY <1>2
  <2> QED
    BY <1>4, <2>1, <2>3, <2>4
<1> HIDE DEF c
<1>6. Lcs(n) \subseteq Lcs(n + c)
  BY <1>2, Grow
<1>7. ASSUME NEW k \in 1 .. c PROVE g[k] \in Gadgets(n + c)
  <2> DEFINE a == m1.lc[p[T(k)][1]][J(k)]
             b == m2.lc[p[T(k)][2]][J(k)]
             L == Lcs(n + c)
             N == 1 .. (n + c)
  <2>1. g[k] = [in1 |-> a, in2 |-> b, out |-> n + k] /\ a \in L /\ b \in L /\ n + k \in N
    BY <1>5, <1>6
  <2>2. Gadgets(n + c) = [in1 : L, in2 : L, out : N]
    BY DEF Gadgets
  <2> HIDE DEF a, b, L, N
  <2> QED
    BY <2>1, <2>2
<1> DEFINE G == Gadgets(n + c)
<1>8. g = [k \in 1 .. c |-> g[k]] /\ \A k \in 1 .. c : g[k] \in G
  BY <1>4, <1>7
<1> HIDE DEF G
<1>11. g \in [1 .. c -> G]
  BY <1>8
<1>9. g \in Seq(G) /\ Len(g) = c
  BY <1>2, <1>11
<1>10. ASSUME NEW k \in 1 .. c
       PROVE  g[k].in1 \in Lcs(n) /\ g[k].in2 \in Lcs(n) /\ g[k].out = n + k
  <2> DEFINE a == m1.lc[p[T(k)][1]][J(k)]
             b == m2.lc[p[T(k)][2]][J(k)]
  <2>1. g[k] = [in1 |-> a, in2 |-> b, out |-> n + k] /\ a \in Lcs(n) /\ b \in Lcs(n)
    BY <1>5
  <2> HIDE DEF a, b
  <2> QED
    BY <2>1
<1> QED
  BY <1>2, <1>9, <1>10 DEF c, g, p, q, G


\* A quadratic operation allocates a variable for each gadget, adds their
\* constraints, and runs them; its result is over the new variables.
LEMMA QuadraticMeta ==
  ASSUME NEW op \in Quadratic, NEW n, IsBoard(pb, n), NEW m1, NEW m2,
         IsMeta(m1, n), IsMeta(m2, n), OperandsFit(op, m1, m2)
  PROVE  LET q == QuadraticConstraint(op, m1, m2)
             g == ProductGadgets(Products(op), m1, m2, n)
             c == Len(Products(op)) * NumLimbs
         IN  /\ c \in Nat /\ n + c \in Nat
             /\ IsBoard(q.board, n + c)
             /\ q.board.constraints = pb.constraints \cup {MulConstraint(g[k]) : k \in DOMAIN g}
             /\ q.board.inputs = pb.inputs
             /\ q.board.public = pb.public
             /\ IsMeta(q.meta, n + c) /\ NumPolys(q.meta) = 3
             /\ q.meta.witness.gadgets = g
             /\ g \in Seq(Gadgets(n + c))
<1> DEFINE q == QuadraticConstraint(op, m1, m2)
           p == Products(op)
           g == ProductGadgets(p, m1, m2, n)
           c == Len(p) * NumLimbs
           E == {MulConstraint(g[k]) : k \in DOMAIN g}
           lcs == [i \in 1 .. 3 |-> [j \in Limbs |-> SumOfProducts(n, Sums(op)[i], j)]]
           maxes == [i \in 1 .. 3 |-> [j \in Limbs |-> SumOfBounds(p, m1, m2, Sums(op)[i], j)]]
           w == WitnessMeta(0, g)
           board == [Allocate(pb, Len(g)) EXCEPT !.constraints = @ \cup E]
<1>1. n \in Nat /\ NumVariables(pb) = n
  BY BoardSize
<1>2. NumPolys(m1) = 2 /\ NumPolys(m2) = 2
  BY DEF OperandsFit
<1>3. /\ c \in Nat /\ Len(g) = c /\ g \in Seq(Gadgets(n + c))
      /\ \A k \in 1 .. c : g[k].in1 \in Lcs(n) /\ g[k].in2 \in Lcs(n) /\ g[k].out = n + k
  BY <1>1, <1>2, ProductGadgetsAre
<1>4. q = [board |-> RunGadgets(board, g), meta |-> ConstraintMeta(lcs, maxes, w)]
  BY <1>1 DEF QuadraticConstraint, Matrix
<1>5. Len(p) \in Nat /\ \A i \in 1 .. 3 : Sums(op)[i] \in Seq(1 .. Len(p))
  BY ProductShape
<1>6. \A t \in 1 .. Len(p), j \in Limbs : VariableAt(n, t, j) \in 1 .. (n + c)
  <2>1. ASSUME NEW t \in 1 .. Len(p), NEW j \in Limbs PROVE VariableAt(n, t, j) \in (n + 1) .. (n + c)
    BY <1>1, <1>5, VariablesApart
  <2> HIDE DEF c, p
  <2>2. ASSUME NEW v \in (n + 1) .. (n + c) PROVE v \in 1 .. (n + c)
    BY <1>1, <1>3
  <2> QED
    BY <2>1, <2>2
<1>7. \A t \in 1 .. Len(p), j \in Limbs : Bound(p, m1, m2, t, j) \in Int
  <2> TAKE t \in 1 .. Len(p), j \in Limbs
  <2>1. p[t][1] \in 1 .. 2 /\ p[t][2] \in 1 .. 2
    BY ProductShape
  <2>2. m1.max_value[p[t][1]][j] \in Int /\ m2.max_value[p[t][2]][j] \in Int
    BY <1>2, <2>1, MetaEntry
  <2> QED
    BY <2>2 DEF Bound
<1> HIDE DEF g, c, p
<1>8. n + c \in Nat
  BY <1>1, <1>3
<1>9. ASSUME NEW i \in 1 .. 3, NEW j \in Limbs
      PROVE  /\ SumOfProducts(n, Sums(op)[i], j) \in Lcs(n + c)
             /\ SumOfBounds(p, m1, m2, Sums(op)[i], j) \in Int
  <2> DEFINE ts == Sums(op)[i]
             S == 1 .. Len(p)
  <2>1. ts \in Seq(S)
    BY <1>5
  <2>2. \A t \in S : VariableAt(n, t, j) \in 1 .. (n + c) /\ Bound(p, m1, m2, t, j) \in Int
    BY <1>6, <1>7
  <2>3. \A v \in 1 .. (n + c) : v \in 0 .. (n + c)
    BY <1>8
  <2>4. \A t \in S : VariableAt(n, t, j) \in 0 .. (n + c)
    BY <2>2, <2>3
  <2> HIDE DEF ts, S
  <2>5. Len(ts) \in Nat
    BY <2>1
  <2>6. PICK r : LcSums(r, n + c, n, ts, j)
    BY <1>8, <2>1, <2>4, SumOfProductsIs
  <2>7. PICK b : BoundSums(b, p, m1, m2, ts, j)
    BY <2>1, <2>2, SumOfBoundsIs
  <2>8. Len(ts) \in 0 .. Len(ts)
    BY <2>5
  <2>9. SumOfProducts(n, ts, j) \in Lcs(n + c)
    BY <2>6, <2>8 DEF LcSums
  <2>10. SumOfBounds(p, m1, m2, ts, j) \in Int
    BY <2>7, <2>8 DEF BoundSums
  <2> QED
    BY <2>9, <2>10 DEF ts
<1>10. lcs \in [1 .. 3 -> [Limbs -> Lcs(n + c)]] /\ maxes \in [1 .. 3 -> [Limbs -> Int]]
  BY <1>9
<1>11. IsBoard(Allocate(pb, c), n + c) /\ Allocate(pb, c).constraints = pb.constraints
       /\ Allocate(pb, c).inputs = pb.inputs /\ Allocate(pb, c).public = pb.public
  BY <1>3, AllocateBoard
<1>12. E \subseteq Equations(n + c)
  <2>1. DOMAIN g = 1 .. c
    BY <1>3
  <2>2. ASSUME NEW k \in 1 .. c PROVE MulConstraint(g[k]) \in Equations(n + c)
    <3>1. g[k].in1 \in Lcs(n) /\ g[k].in2 \in Lcs(n) /\ g[k].out = n + k
      BY <1>3
    <3>2. Lcs(n) \subseteq Lcs(n + c)
      BY <1>1, <1>3, <1>8, Grow
    <3>3. n + k \in 0 .. (n + c)
      BY <1>1, <1>3
    <3>4. Var(n + k) \in Lcs(n + c)
      BY <1>8, <3>3, AtomLc
    <3>5. MulConstraint(g[k]) = [a |-> g[k].in1, b |-> g[k].in2, c |-> Var(n + k)]
      BY <3>1 DEF MulConstraint
    <3> DEFINE LL == Lcs(n + c)
    <3>6. Equations(n + c) = [a : LL, b : LL, c : LL]
      BY DEF Equations
    <3>7. g[k].in1 \in LL /\ g[k].in2 \in LL /\ Var(n + k) \in LL
      BY <3>1, <3>2, <3>4
    <3> HIDE DEF LL
    <3> QED
      BY <3>5, <3>6, <3>7
  <2> QED
    BY <2>1, <2>2
<1> HIDE DEF E
<1>13. /\ IsBoard(board, n + c) /\ board.constraints = pb.constraints \cup E
       /\ board.inputs = pb.inputs /\ board.public = pb.public
  <2> DEFINE al == Allocate(pb, c)
  <2>1. board = [al EXCEPT !.constraints = @ \cup E]
    BY <1>3
  <2>2. /\ DOMAIN al = BoardFields /\ al = [f \in BoardFields |-> al[f]] /\ al.val \in [1 .. (n + c) -> Int]
        /\ al.inputs \in 0 .. (n + c) /\ al.public \subseteq 1 .. (n + c) /\ al.constraints \subseteq Equations(n + c)
    BY <1>11 DEF IsBoard
  <2> HIDE DEF al, board
  <2>3. /\ DOMAIN board = BoardFields /\ board = [f \in BoardFields |-> board[f]] /\ board.val = al.val
        /\ board.inputs = al.inputs /\ board.public = al.public /\ board.constraints = al.constraints \cup E
    BY <2>1, <2>2 DEF BoardFields
  <2> QED
    BY <1>8, <1>11, <1>12, <2>2, <2>3 DEF IsBoard, al
<1> HIDE DEF board
<1>14. /\ IsBoard(RunGadgets(board, g), n + c) /\ RunGadgets(board, g).constraints = board.constraints
       /\ RunGadgets(board, g).inputs = board.inputs /\ RunGadgets(board, g).public = board.public
  BY <1>3, <1>13, RunBoard
<1> HIDE DEF lcs, maxes
<1> DEFINE meta == ConstraintMeta(lcs, maxes, w)
<1>15. IsMeta(meta, n + c) /\ NumPolys(meta) = 3
  BY <1>10, MetaOf
<1>16. meta.witness.gadgets = g
  BY DEF ConstraintMeta, WitnessMeta
<1>17. q.board = RunGadgets(board, g) /\ q.meta = meta
  BY <1>4
<1> HIDE DEF q, meta
<1> QED
  BY <1>3, <1>8, <1>13, <1>14, <1>15, <1>16, <1>17 DEF q, g, c, p, E

\* What a constraint does for any of the operations.
LEMMA ConstraintIs ==
  ASSUME NEW op \in Linear \cup Quadratic, NEW n, IsBoard(pb, n), NEW m1, NEW m2,
         IsMeta(m1, n), IsMeta(m2, n), OperandsFit(op, m1, m2)
  PROVE  \E c \in Nat :
           /\ IsBoard(Constraint(op, m1, m2).board, n + c)
           /\ Constraint(op, m1, m2).board.inputs = pb.inputs
           /\ Constraint(op, m1, m2).board.public = pb.public
           /\ IsMeta(Constraint(op, m1, m2).meta, n + c)
           /\ Constraint(op, m1, m2).meta.witness.gadgets \in Seq(Gadgets(n + c))
<1>0. n \in Nat
  BY BoardSize
<1>1. CASE op \in Linear
  <2>1. Constraint(op, m1, m2) = LinearConstraint(op, m1, m2)
    BY <1>1 DEF Constraint
  <2> DEFINE r == Constraint(op, m1, m2)
  <2>2. r.board = pb /\ IsMeta(r.meta, n) /\ r.meta.witness = WitnessMeta(0, <<>>)
    BY <1>0, <1>1, <2>1, LinearMeta
  <2>3. r.meta.witness.gadgets \in Seq(Gadgets(n))
    BY <2>2, NoGadgets
  <2> HIDE DEF r
  <2>4. 0 \in Nat /\ n + 0 = n
    BY <1>0
  <2>5. /\ IsBoard(r.board, n + 0) /\ r.board.inputs = pb.inputs /\ r.board.public = pb.public
        /\ IsMeta(r.meta, n + 0) /\ r.meta.witness.gadgets \in Seq(Gadgets(n + 0))
    BY <2>2, <2>3, <2>4
  <2> QED
    BY <2>4, <2>5 DEF r
<1>2. CASE op \in Quadratic
  <2>1. Constraint(op, m1, m2) = QuadraticConstraint(op, m1, m2)
    BY <1>2 DEF Constraint, Linear, Quadratic
  <2> DEFINE r == Constraint(op, m1, m2)
             c == Len(Products(op)) * NumLimbs
  <2>2. /\ c \in Nat /\ IsBoard(r.board, n + c) /\ r.board.inputs = pb.inputs
        /\ r.board.public = pb.public /\ IsMeta(r.meta, n + c)
        /\ r.meta.witness.gadgets \in Seq(Gadgets(n + c))
    BY <1>2, <2>1, QuadraticMeta
  <2> HIDE DEF r, c
  <2> QED
    BY <2>2 DEF r
<1> QED
  BY <1>1, <1>2

\* Declaring an input allocates a variable for each coefficient at the end and
\* extends the primary input by as many.
LEMMA PublicBoard ==
  ASSUME NEW n, IsBoard(pb, n), NEW x, Len(x) \in Nat
  PROVE  LET g == PublicInputConstraint(x)
             c == Len(x) * NumLimbs
         IN  /\ c \in Nat /\ n + c \in Nat
             /\ IsBoard(g.board, n + c)
             /\ g.board.constraints = pb.constraints
             /\ g.board.inputs = pb.inputs + c
             /\ g.board.public = pb.public \cup ((n + 1) .. (n + c))
             /\ \A v \in 1 .. n : g.board.val[v] = pb.val[v]
             /\ IsMeta(g.meta, n + c) /\ NumPolys(g.meta) = Len(x)
             /\ g.meta.witness.index_start = n + 1
             /\ \A i \in 1 .. Len(x), j \in Limbs :
                  /\ g.meta.lc[i][j] = Var(VariableAt(n, i, j))
                  /\ g.meta.max_value[i][j] = Q - 1
<1> DEFINE g == PublicInputConstraint(x)
           l == Len(x)
           c == l * NumLimbs
           al == Allocate(pb, c)
           lcs == [i \in 1 .. l |-> [j \in Limbs |-> Var(VariableAt(n, i, j))]]
           maxes == [i \in 1 .. l |-> [j \in Limbs |-> Q - 1]]
           w == WitnessMeta(n + 1, <<>>)
           meta == ConstraintMeta(lcs, maxes, w)
<1>1. n \in Nat /\ NumVariables(pb) = n
  BY BoardSize
<1>2. c \in Nat /\ \A i \in 1 .. l, j \in Limbs : VariableAt(n, i, j) \in (n + 1) .. (n + c)
  BY <1>1, VariablesApart
<1>3. g = [board |-> [al EXCEPT !.inputs = ExtendedInput(@, c),
                                !.public = @ \cup ((n + 1) .. (n + c))],
           meta |-> meta]
  BY <1>1 DEF PublicInputConstraint, Matrix
<1> HIDE DEF c
<1>4. n + c \in Nat /\ (n + 1) .. (n + c) \subseteq 1 .. (n + c) /\ (n + 1) .. (n + c) \subseteq 0 .. (n + c)
  BY <1>1, <1>2
<1>5. /\ IsBoard(al, n + c) /\ al.constraints = pb.constraints /\ al.inputs = pb.inputs
      /\ al.public = pb.public /\ \A v \in 1 .. n : al.val[v] = pb.val[v]
  BY <1>2, AllocateBoard
<1>6. pb.inputs \in 0 .. n /\ pb.inputs + c \in 0 .. (n + c)
  BY <1>1, <1>2 DEF IsBoard
<1> DEFINE board == [al EXCEPT !.inputs = ExtendedInput(@, c),
                               !.public = @ \cup ((n + 1) .. (n + c))]
<1>7. /\ DOMAIN al = BoardFields /\ al = [f \in BoardFields |-> al[f]] /\ al.val \in [1 .. (n + c) -> Int]
      /\ al.public \subseteq 1 .. (n + c) /\ al.constraints \subseteq Equations(n + c)
  BY <1>5 DEF IsBoard
<1>8. /\ DOMAIN board = BoardFields /\ board = [f \in BoardFields |-> board[f]] /\ board.val = al.val
      /\ board.inputs = al.inputs + c /\ board.constraints = al.constraints
      /\ board.public = al.public \cup ((n + 1) .. (n + c))
  <2> HIDE DEF al
  <2> QED
    BY <1>7 DEF BoardFields, ExtendedInput
<1> HIDE DEF al, board
<1>9. /\ IsBoard(board, n + c) /\ board.constraints = pb.constraints /\ board.inputs = pb.inputs + c
      /\ board.public = pb.public \cup ((n + 1) .. (n + c)) /\ \A v \in 1 .. n : board.val[v] = pb.val[v]
  BY <1>4, <1>5, <1>6, <1>7, <1>8 DEF IsBoard
<1>10. lcs \in [1 .. l -> [Limbs -> Lcs(n + c)]]
  <2>1. ASSUME NEW i \in 1 .. l, NEW j \in Limbs PROVE Var(VariableAt(n, i, j)) \in Lcs(n + c)
    <3>1. VariableAt(n, i, j) \in 0 .. (n + c)
      BY <1>2, <1>4
    <3> QED
      BY <1>4, <3>1, AtomLc
  <2> QED
    BY <2>1
<1>11. maxes \in [1 .. l -> [Limbs -> Int]]
  BY SizeFacts
<1>12. \A i \in 1 .. l, j \in Limbs : lcs[i][j] = Var(VariableAt(n, i, j)) /\ maxes[i][j] = Q - 1
  OBVIOUS
<1> HIDE DEF lcs, maxes
<1>13. IsMeta(meta, n + c) /\ NumPolys(meta) = l
  <2>1. l \in Nat
    OBVIOUS
  <2> HIDE DEF l, w
  <2> QED
    BY <1>10, <1>11, <2>1, MetaOf
<1>14. meta.lc = lcs /\ meta.max_value = maxes /\ meta.witness.index_start = n + 1
  BY DEF ConstraintMeta, WitnessMeta
<1>15. g.board = board /\ g.meta = meta
  BY <1>3 DEF board
<1> HIDE DEF g, meta
<1> QED
  BY <1>2, <1>4, <1>9, <1>12, <1>13, <1>14, <1>15 DEF g, c

Coefficients(x) == x \in Seq([Limbs -> 0 .. Q - 1])

\* Assigning an input changes values only.
LEMMA AssignBoard ==
  ASSUME NEW n, IsBoard(pb, n), NEW x, Coefficients(x), NEW start
  PROVE  LET q == PublicInputWitness(x, start)
             hit(v) == \E p \in Assigned(Len(x)) : v = start + Offset(p[1], p[2], Len(x))
         IN  /\ IsBoard(q, n)
             /\ q.constraints = pb.constraints
             /\ q.inputs = pb.inputs
             /\ q.public = pb.public
             /\ \A v \in 1 .. n :
                  /\ ~hit(v) => q.val[v] = pb.val[v]
                  /\ hit(v) => \E p \in Assigned(Len(x)) :
                                 v = start + Offset(p[1], p[2], Len(x)) /\ q.val[v] = x[p[1]][p[2]]
<1> DEFINE q == PublicInputWitness(x, start)
           at(v) == {p \in Assigned(Len(x)) : v = start + Offset(p[1], p[2], Len(x))}
           new(v) == IF at(v) = {} THEN pb.val[v]
                     ELSE LET p == CHOOSE p \in at(v) : TRUE IN x[p[1]][p[2]]
           w == [v \in 1 .. n |-> new(v)]
<1>1. n \in Nat /\ pb.val \in [1 .. n -> Int]
  BY DEF IsBoard
<1>2. q = [pb EXCEPT !.val = w]
  BY <1>1 DEF PublicInputWitness
<1>3. Len(x) \in Nat /\ \A i \in 1 .. Len(x), j \in Limbs : x[i][j] \in Int
  <2> DEFINE F == [Limbs -> 0 .. Q - 1]
  <2>1. x \in Seq(F)
    BY DEF Coefficients
  <2>2. Len(x) \in Nat /\ \A i \in 1 .. Len(x) : x[i] \in F
    <3> HIDE DEF F
    <3> QED
      BY <2>1
  <2> QED
    BY <2>2
<1>4. ASSUME NEW v \in 1 .. n, at(v) # {}
      PROVE  \E p \in Assigned(Len(x)) :
               v = start + Offset(p[1], p[2], Len(x)) /\ new(v) = x[p[1]][p[2]]
  <2> DEFINE p == CHOOSE p \in at(v) : TRUE
  <2>1. p \in at(v)
    BY <1>4
  <2>2. new(v) = x[p[1]][p[2]]
    BY <1>4
  <2> HIDE DEF p
  <2> QED
    BY <2>1, <2>2
<1>5. ASSUME NEW v \in 1 .. n PROVE new(v) \in Int
  <2>1. CASE at(v) = {}
    BY <1>1, <2>1
  <2>2. CASE at(v) # {}
    <3>1. PICK p \in Assigned(Len(x)) : new(v) = x[p[1]][p[2]]
      BY <1>4, <2>2
    <3>2. p[1] \in 1 .. Len(x) /\ p[2] \in Limbs
      BY DEF Assigned
    <3> HIDE DEF new
    <3> QED
      BY <1>3, <3>1, <3>2
  <2> QED
    BY <2>1, <2>2
<1>6. \A v \in 1 .. n : at(v) = {} => new(v) = pb.val[v]
  OBVIOUS
<1> HIDE DEF new
<1>7. w \in [1 .. n -> Int] /\ \A v \in 1 .. n : w[v] = new(v)
  BY <1>5
<1> HIDE DEF w, q
<1>8. /\ DOMAIN q = BoardFields /\ q = [f \in BoardFields |-> q[f]] /\ q.val = w
      /\ q.inputs = pb.inputs /\ q.public = pb.public /\ q.constraints = pb.constraints
  BY <1>2 DEF IsBoard, BoardFields
<1>9. IsBoard(q, n)
  BY <1>7, <1>8 DEF IsBoard
<1>10. ASSUME NEW v \in 1 .. n
       PROVE  /\ at(v) = {} => q.val[v] = pb.val[v]
              /\ at(v) # {} => \E p \in Assigned(Len(x)) :
                   v = start + Offset(p[1], p[2], Len(x)) /\ q.val[v] = x[p[1]][p[2]]
  <2>1. q.val[v] = new(v)
    BY <1>7, <1>8
  <2> QED
    BY <1>4, <1>6, <2>1
<1> QED
  BY <1>8, <1>9, <1>10 DEF q

-----------------------------------------------------------------------------
(* The output                                                                *)

OutPositions == (1 .. Len(out_vars)) \X Limbs

OutPending(m) == {p \in OutPositions : NeedsReduction(m.max_value[p[1]][p[2]])}

UpToPosition(S, p) == {r \in S : r[1] < p[1] \/ (r[1] = p[1] /\ r[2] <= p[2])}

\* Positions are ordered by the number of those before them.
LEMMA RanksApart ==
  ASSUME NEW l \in Nat, NEW S, S \subseteq (1 .. l) \X Limbs
  PROVE  /\ IsFiniteSet(S) /\ Cardinality(S) \in Nat
         /\ \A p \in S : Cardinality(UpToPosition(S, p)) \in 1 .. Cardinality(S)
         /\ \A p, r \in S : Cardinality(UpToPosition(S, p)) = Cardinality(UpToPosition(S, r)) => p = r
<1>1. IsFiniteSet(S)
  <2>1. IsFiniteSet(1 .. l) /\ IsFiniteSet(Limbs)
    BY SizeFacts, FS_Interval
  <2>2. IsFiniteSet((1 .. l) \X Limbs)
    BY <2>1, FS_Product
  <2> QED
    BY <2>2, FS_Subset
<1>2. \A T \in SUBSET S : IsFiniteSet(T) /\ Cardinality(T) \in Nat /\ Cardinality(T) <= Cardinality(S)
                          /\ (Cardinality(T) = Cardinality(S) => T = S)
  BY <1>1, FS_Subset, FS_CardinalityType
<1>3. \A p \in S : p \in (1 .. l) \X Limbs /\ p = <<p[1], p[2]>> /\ p[1] \in Int /\ p[2] \in Int
  BY SizeFacts
<1>4. ASSUME NEW p \in S PROVE Cardinality(UpToPosition(S, p)) \in 1 .. Cardinality(S)
  <2> DEFINE T == UpToPosition(S, p)
  <2>1. T \in SUBSET S /\ p \in T
    BY <1>3 DEF UpToPosition
  <2> HIDE DEF T
  <2>2. IsFiniteSet(T) /\ Cardinality(T) \in Nat /\ Cardinality(T) <= Cardinality(S)
    BY <1>2, <2>1
  <2>3. Cardinality(T) # 0
    BY <2>1, <2>2, FS_EmptySet
  <2> QED
    BY <1>1, <2>2, <2>3, FS_CardinalityType DEF T
<1>5. ASSUME NEW p \in S, NEW r \in S, p[1] < r[1] \/ (p[1] = r[1] /\ p[2] < r[2])
      PROVE  Cardinality(UpToPosition(S, p)) < Cardinality(UpToPosition(S, r))
  <2> DEFINE T == UpToPosition(S, p)
             U == UpToPosition(S, r)
  <2>1. p[1] \in Int /\ p[2] \in Int /\ r[1] \in Int /\ r[2] \in Int
    BY <1>3
  <2>2. T \subseteq U
    <3> SUFFICES ASSUME NEW s \in T PROVE s \in U
      OBVIOUS
    <3>1. s \in S /\ s[1] \in Int /\ s[2] \in Int
      BY <1>3 DEF UpToPosition
    <3>2. s[1] < p[1] \/ (s[1] = p[1] /\ s[2] <= p[2])
      BY DEF UpToPosition
    <3>3. s[1] < r[1] \/ (s[1] = r[1] /\ s[2] <= r[2])
      BY <1>5, <2>1, <3>1, <3>2
    <3> QED
      BY <3>1, <3>3 DEF UpToPosition
  <2>3. r \in U /\ r \notin T
    BY <1>5, <2>1 DEF UpToPosition
  <2>4. U \subseteq S
    BY DEF UpToPosition
  <2> HIDE DEF T, U
  <2>5. IsFiniteSet(U) /\ Cardinality(U) \in Nat /\ Cardinality(T) \in Nat
    BY <1>2, <2>2, <2>4
  <2>6. Cardinality(T) <= Cardinality(U) /\ (Cardinality(T) = Cardinality(U) => T = U)
    BY <2>2, <2>5, FS_Subset
  <2> QED
    BY <2>3, <2>5, <2>6 DEF T, U
<1>6. ASSUME NEW p \in S, NEW r \in S, Cardinality(UpToPosition(S, p)) = Cardinality(UpToPosition(S, r))
      PROVE  p = r
  <2>1. p[1] \in Int /\ p[2] \in Int /\ r[1] \in Int /\ r[2] \in Int
    BY <1>3
  <2>2. ~(p[1] < r[1] \/ (p[1] = r[1] /\ p[2] < r[2])) /\ ~(r[1] < p[1] \/ (r[1] = p[1] /\ r[2] < p[2]))
    <3>1. Cardinality(UpToPosition(S, p)) \in Int /\ Cardinality(UpToPosition(S, r)) \in Int
      BY <1>4
    <3> DEFINE a == Cardinality(UpToPosition(S, p))
               b == Cardinality(UpToPosition(S, r))
    <3>2. a \in Int /\ b \in Int /\ a = b
      BY <1>6, <3>1
    <3> HIDE DEF a, b
    <3>3. ~(a < b) /\ ~(b < a)
      BY <3>2
    <3> QED
      BY <1>5, <3>3 DEF a, b
  <2>3. p[1] = r[1] /\ p[2] = r[2]
    BY <2>1, <2>2
  <2> QED
    BY <1>3, <2>3
<1> QED
  BY <1>1, <1>2, <1>4, <1>6, FS_CardinalityType

Quotient(m, p) == NumVariables(pb) + Cardinality(UpToPosition(OutPending(m), p))

OutVar(p) == out_vars[p[1]][p[2]]

OutLc(m, p) == m.lc[p[1]][p[2]]

OutEquation(m, p) ==
  [a |-> OutLc(m, p), b |-> Const(1),
   c |-> IF p \in OutPending(m) THEN Combine(Var(OutVar(p)), Q, Var(Quotient(m, p)))
         ELSE Var(OutVar(p))]

OutValue(m, val, v) ==
  CASE \E p \in OutPending(m) : v = OutVar(p) ->
         Wrap(LcVal(OutLc(m, CHOOSE p \in OutPending(m) : v = OutVar(p)), pb.val)) % Q
    [] \E p \in OutPending(m) : v = Quotient(m, p) ->
         Wrap(LcVal(OutLc(m, CHOOSE p \in OutPending(m) : v = Quotient(m, p)), pb.val)) \div Q
    [] OTHER -> val[v]

\* The output variables and the quotients of an output.
LEMMA OutputFacts ==
  ASSUME NEW n, IsBoard(pb, n), NEW m, IsMeta(m, n),
         out_vars \in Seq([Limbs -> 1 .. n]), NumPolys(m) >= Len(out_vars)
  PROVE  /\ Cardinality(OutPending(m)) \in Nat
         /\ \A p \in OutPositions : /\ p[1] \in 1 .. Len(out_vars) /\ p[2] \in Limbs
                                    /\ OutVar(p) \in 1 .. n
                                    /\ OutLc(m, p) \in Lcs(n)
                                    /\ LcVal(OutLc(m, p), pb.val) \in Int
         /\ \A p \in OutPending(m) :
              /\ p \in OutPositions
              /\ Quotient(m, p) \in (n + 1) .. (n + Cardinality(OutPending(m)))
              /\ \A r \in OutPending(m) : Quotient(m, p) = Quotient(m, r) => p = r
<1> DEFINE S == OutPending(m)
           k == Cardinality(S)
           l == Len(out_vars)
           F == [Limbs -> 1 .. n]
<1>1. n \in Nat /\ NumVariables(pb) = n /\ pb.val \in [1 .. n -> Int]
  BY BoardSize DEF IsBoard
<1>2. l \in Nat /\ \A i \in 1 .. l, j \in Limbs : out_vars[i][j] \in 1 .. n
  <2>1. out_vars \in Seq(F)
    OBVIOUS
  <2>2. l \in Nat /\ \A i \in 1 .. l : out_vars[i] \in F
    <3> HIDE DEF F
    <3> QED
      BY <2>1
  <2> QED
    BY <2>2
<1>3. S \subseteq (1 .. l) \X Limbs /\ S \subseteq OutPositions
  BY DEF OutPending, OutPositions
<1>4. ASSUME NEW p \in OutPositions
      PROVE  /\ p[1] \in 1 .. l /\ p[2] \in Limbs /\ OutVar(p) \in 1 .. n
             /\ OutLc(m, p) \in Lcs(n) /\ LcVal(OutLc(m, p), pb.val) \in Int
  <2>1. p[1] \in 1 .. l /\ p[2] \in Limbs
    BY DEF OutPositions
  <2>2. OutVar(p) \in 1 .. n
    BY <1>2, <2>1 DEF OutVar
  <2>3. p[1] \in 1 .. NumPolys(m)
    <3>1. NumPolys(m) \in Nat
      BY MetaEntry
    <3> QED
      BY <1>2, <2>1, <3>1
  <2>4. OutLc(m, p) \in Lcs(n)
    BY <2>1, <2>3, MetaEntry DEF OutLc
  <2>5. Known(OutLc(m, p), pb.val)
    BY <1>1, <2>4, KnownFirst
  <2>6. LcVal(OutLc(m, p), pb.val) \in Int
    BY <1>1, <2>4, <2>5, LcValTotal
  <2> QED
    BY <2>1, <2>2, <2>4, <2>6
<1> HIDE DEF S
<1>5. /\ k \in Nat
      /\ \A p \in S : Cardinality(UpToPosition(S, p)) \in 1 .. k
      /\ \A p, r \in S : Cardinality(UpToPosition(S, p)) = Cardinality(UpToPosition(S, r)) => p = r
  BY <1>2, <1>3, RanksApart
<1> HIDE DEF k, l
<1>6. ASSUME NEW p \in S, NEW r \in S
      PROVE  /\ Quotient(m, p) \in (n + 1) .. (n + k)
             /\ Quotient(m, p) = Quotient(m, r) => p = r
  <2> DEFINE a == Cardinality(UpToPosition(S, p))
             b == Cardinality(UpToPosition(S, r))
  <2>1. a \in 1 .. k /\ b \in 1 .. k /\ (a = b => p = r)
    BY <1>5
  <2>2. Quotient(m, p) = n + a /\ Quotient(m, r) = n + b
    BY <1>1 DEF Quotient, S
  <2> HIDE DEF a, b
  <2> QED
    BY <1>1, <1>5, <2>1, <2>2
<1> QED
  BY <1>3, <1>4, <1>5, <1>6 DEF S, k, l

\* The output constraints allocate the quotients at the end and add equations.
LEMMA OutputBoard ==
  ASSUME NEW n, IsBoard(pb, n), NEW m, IsMeta(m, n),
         out_vars \in Seq([Limbs -> 1 .. n]), NumPolys(m) >= Len(out_vars)
  PROVE  LET q == OutputConstraints(m)
             k == Cardinality(OutPending(m))
         IN  /\ k \in Nat /\ n + k \in Nat
             /\ IsBoard(q, n + k)
             /\ q.inputs = pb.inputs
             /\ q.public = pb.public
             /\ q.constraints = pb.constraints \cup {OutEquation(m, p) : p \in OutPositions}
             /\ \A v \in 1 .. (n + k) : q.val[v] = OutValue(m, Allocate(pb, k).val, v)
<1> DEFINE q == OutputConstraints(m)
           S == OutPending(m)
           k == Cardinality(S)
           al == Allocate(pb, k)
           E == {OutEquation(m, p) : p \in OutPositions}
           w == [v \in DOMAIN al.val |-> OutValue(m, al.val, v)]
<1>1. n \in Nat /\ NumVariables(pb) = n /\ pb.val \in [1 .. n -> Int]
  BY BoardSize DEF IsBoard
<1>2. /\ k \in Nat
      /\ \A p \in OutPositions : /\ OutVar(p) \in 1 .. n /\ OutLc(m, p) \in Lcs(n)
                                 /\ LcVal(OutLc(m, p), pb.val) \in Int
      /\ \A p \in S : /\ p \in OutPositions
                      /\ Quotient(m, p) \in (n + 1) .. (n + k)
  BY OutputFacts
<1>3. q = [al EXCEPT !.constraints = @ \cup E, !.val = w]
  BY DEF OutputConstraints, OutPending, OutPositions, OutEquation, OutValue, OutLc, OutVar,
         Quotient, UpToPosition
<1> HIDE DEF k
<1>4. n + k \in Nat /\ n <= n + k /\ 1 .. n \subseteq 0 .. (n + k) /\ (n + 1) .. (n + k) \subseteq 0 .. (n + k)
  BY <1>1, <1>2
<1>5. /\ IsBoard(al, n + k) /\ al.constraints = pb.constraints /\ al.inputs = pb.inputs
      /\ al.public = pb.public
  BY <1>2, AllocateBoard
<1>6. /\ DOMAIN al = BoardFields /\ al = [f \in BoardFields |-> al[f]] /\ al.val \in [1 .. (n + k) -> Int]
      /\ al.inputs \in 0 .. (n + k) /\ al.public \subseteq 1 .. (n + k) /\ al.constraints \subseteq Equations(n + k)
  BY <1>5 DEF IsBoard
<1> HIDE DEF al
<1>7. E \subseteq Equations(n + k)
  <2> DEFINE LL == Lcs(n + k)
  <2>1. ASSUME NEW p \in OutPositions PROVE OutEquation(m, p) \in [a : LL, b : LL, c : LL]
    <3>1. OutLc(m, p) \in LL
      BY <1>1, <1>2, <1>4, Grow
    <3>2. Const(1) \in LL
      BY <1>4, AtomLc
    <3>3. Var(OutVar(p)) \in LL
      <4>1. OutVar(p) \in 0 .. (n + k)
        BY <1>2, <1>4
      <4> QED
        BY <1>4, <4>1, AtomLc
    <3>4. ASSUME p \in S PROVE Combine(Var(OutVar(p)), Q, Var(Quotient(m, p))) \in LL
      <4>1. Quotient(m, p) \in 0 .. (n + k)
        BY <1>2, <1>4, <3>4
      <4>2. Var(Quotient(m, p)) \in Lcs(n + k)
        BY <1>4, <4>1, AtomLc
      <4> DEFINE a == Var(OutVar(p))
                 b == Var(Quotient(m, p))
      <4>3. a \in Lcs(n + k) /\ b \in Lcs(n + k) /\ Q \in Int
        BY <3>3, <4>2, SizeFacts
      <4> HIDE DEF a, b
      <4>4. Combine(a, Q, b) \in Lcs(n + k)
        BY <1>4, <4>3, CombineLc
      <4> QED
        BY <4>4 DEF a, b
    <3> DEFINE x == OutLc(m, p)
               y == Const(1)
               z == IF p \in S THEN Combine(Var(OutVar(p)), Q, Var(Quotient(m, p)))
                    ELSE Var(OutVar(p))
    <3>5. x \in LL /\ y \in LL /\ z \in LL
      BY <3>1, <3>2, <3>3, <3>4
    <3>6. OutEquation(m, p) = [a |-> x, b |-> y, c |-> z]
      BY DEF OutEquation
    <3> HIDE DEF x, y, z, LL
    <3> QED
      BY <3>5, <3>6
  <2>2. Equations(n + k) = [a : LL, b : LL, c : LL]
    BY DEF Equations
  <2> HIDE DEF LL
  <2> QED
    BY <2>1, <2>2
<1>14. \A p, r \in S : OutVar(p) # Quotient(m, r)
  <2> TAKE p, r \in S
  <2>1. OutVar(p) \in 1 .. n /\ Quotient(m, r) \in (n + 1) .. (n + k)
    BY <1>2
  <2> QED
    BY <1>1, <1>2, <2>1
<1>8. ASSUME NEW v \in 1 .. (n + k) PROVE OutValue(m, al.val, v) \in Int
  <2>1. CASE \E p \in S : v = OutVar(p)
    <3> DEFINE p == CHOOSE p \in S : v = OutVar(p)
    <3>1. p \in S
      BY <2>1
    <3>4. ~(\E r \in S : v = Quotient(m, r))
      BY <1>14, <2>1
    <3>2. OutValue(m, al.val, v) = Wrap(LcVal(OutLc(m, p), pb.val)) % Q
      BY <2>1, <3>4 DEF OutValue
    <3> HIDE DEF p
    <3>3. Wrap(LcVal(OutLc(m, p), pb.val)) \in Int
      BY <1>2, <3>1, WrapIs
    <3> QED
      BY <3>2, <3>3, SizeFacts
  <2>2. CASE ~(\E p \in S : v = OutVar(p)) /\ \E p \in S : v = Quotient(m, p)
    <3> DEFINE p == CHOOSE p \in S : v = Quotient(m, p)
    <3>1. p \in S
      BY <2>2
    <3>2. OutValue(m, al.val, v) = Wrap(LcVal(OutLc(m, p), pb.val)) \div Q
      BY <2>2 DEF OutValue
    <3> HIDE DEF p
    <3>3. Wrap(LcVal(OutLc(m, p), pb.val)) \in Int
      BY <1>2, <3>1, WrapIs
    <3> QED
      BY <3>2, <3>3, SizeFacts
  <2>3. CASE ~(\E p \in S : v = OutVar(p)) /\ ~(\E p \in S : v = Quotient(m, p))
    <3>1. OutValue(m, al.val, v) = al.val[v]
      BY <2>3 DEF OutValue
    <3> QED
      BY <1>6, <3>1
  <2> QED
    BY <2>1, <2>2, <2>3
<1> HIDE DEF E, S
<1>9. w \in [1 .. (n + k) -> Int] /\ \A v \in 1 .. (n + k) : w[v] = OutValue(m, al.val, v)
  BY <1>6, <1>8
<1> HIDE DEF w, q
<1>10. /\ DOMAIN q = BoardFields /\ q = [f \in BoardFields |-> q[f]] /\ q.val = w
       /\ q.inputs = al.inputs /\ q.public = al.public /\ q.constraints = al.constraints \cup E
  BY <1>3, <1>6 DEF BoardFields
<1>11. IsBoard(q, n + k)
  BY <1>4, <1>6, <1>7, <1>9, <1>10 DEF IsBoard
<1> QED
  BY <1>2, <1>4, <1>5, <1>9, <1>10, <1>11 DEF q, k, S, E, al

-----------------------------------------------------------------------------
(* The calls p of a generation on N inputs, the objects o and the wire ids w  *)
(* they left, and nv variables                                                *)

IsPublic(p, n) == p[n].op = "Public"

ArgOf(p, n, a) == p[n].args[a]

\* The objects there are after a call of generation.
Made(N, p, n) == N + Ops(p, n)

DeclaredBefore(p, k, n) == \E m \in 1 .. (n - 1) : IsPublic(p, m) /\ ArgOf(p, m, 1) = k

UsableAt(N, p, k, n) == k \in 1 .. Made(N, p, n - 1) /\ (k \in 1 .. N => DeclaredBefore(p, k, n))

\* A call declares an input that was not declared, or is an operation on
\* declared inputs and earlier results.
DeclarationOK(N, p, n) == ArgOf(p, n, 1) \in 1 .. N /\ ~DeclaredBefore(p, ArgOf(p, n, 1), n)

OperationOK(N, p, n) ==
  /\ p[n] = [op |-> p[n].op, args |-> <<ArgOf(p, n, 1), ArgOf(p, n, 2)>>]
  /\ p[n].op \in Linear \cup Quadratic
  /\ p[n].op = "Square" => ArgOf(p, n, 1) = ArgOf(p, n, 2)
  /\ UsableAt(N, p, ArgOf(p, n, 1), n) /\ UsableAt(N, p, ArgOf(p, n, 2), n)

CallOK(N, p, n) == IF IsPublic(p, n) THEN DeclarationOK(N, p, n) ELSE OperationOK(N, p, n)

PublicWire(i) == <<"PublicCtxt", i>>

OpWire(op, u, v) == IF op = "Square" THEN <<op, u>> ELSE <<op, u, v>>

Wire(p, o, n) == IF IsPublic(p, n) THEN PublicWire(Pubs(p, n) - 1)
                 ELSE OpWire(p[n].op, o[ArgOf(p, n, 1)].wire, o[ArgOf(p, n, 2)].wire)

Object(N, p, n) == IF IsPublic(p, n) THEN ArgOf(p, n, 1) ELSE Made(N, p, n)

\* The object a call was about has the wire id under which the call filed
\* gadgets over the variables there are.
FiledOK(w, wire, nv) == w[wire].gadgets \in Seq(Gadgets(nv))

WireOK(N, p, o, w, nv, n) ==
  /\ o[Object(N, p, n)].wire = Wire(p, o, n)
  /\ Wire(p, o, n) \in DOMAIN w
  /\ ~IsPublic(p, n) => /\ o[ArgOf(p, n, 1)].wire # None /\ o[ArgOf(p, n, 2)].wire # None
                        /\ FiledOK(w, Wire(p, o, n), nv)

CallsOK(N, p, o, w, nv) ==
  \A n \in 1 .. Len(p) : CallOK(N, p, n) /\ WireOK(N, p, o, w, nv, n)

IsDeclared(p, k) == DeclaredBefore(p, k, Len(p) + 1)

\* Objects that later calls may use: all but undeclared inputs, which may have
\* metadata of an earlier generation.
Usable(N, p, k) == k \in 1 .. N => IsDeclared(p, k)

SameWire(o, s, k) == s[k].wire = o[k].wire

\* The wire ids of declarations and of operations are different.
LEMMA WiresApart ==
  ASSUME NEW op \in Linear \cup Quadratic
  PROVE  /\ op # "Public"
         /\ \A i, u, v : OpWire(op, u, v) # PublicWire(i)
BY DEF Linear, Quadratic, OpWire, PublicWire

\* What a call needs depends on the calls before.
LEMMA CallSame ==
  ASSUME NEW N, NEW p, NEW q, NEW n \in Nat, n >= 1, \A m \in 1 .. n : q[m] = p[m]
  PROVE  /\ CallOK(N, p, n) <=> CallOK(N, q, n)
         /\ \A k : DeclaredBefore(p, k, n) <=> DeclaredBefore(q, k, n)
         /\ \A k : DeclaredBefore(p, k, n + 1) <=> DeclaredBefore(q, k, n + 1)
         /\ \A k : UsableAt(N, p, k, n) <=> UsableAt(N, q, k, n)
         /\ Made(N, p, n) = Made(N, q, n) /\ Made(N, p, n - 1) = Made(N, q, n - 1)
         /\ Pubs(p, n) = Pubs(q, n) /\ Pubs(p, n - 1) = Pubs(q, n - 1)
<1>1. \A m \in 0 .. n : Ops(p, m) = Ops(q, m) /\ Pubs(p, m) = Pubs(q, m)
  BY OpsSame
<1>2. n \in 0 .. n /\ n - 1 \in 0 .. n /\ n \in 1 .. n
  OBVIOUS
<1>3. /\ Made(N, p, n) = Made(N, q, n) /\ Made(N, p, n - 1) = Made(N, q, n - 1)
      /\ Pubs(p, n) = Pubs(q, n) /\ Pubs(p, n - 1) = Pubs(q, n - 1)
  BY <1>1, <1>2 DEF Made
<1>4. \A m \in 1 .. n : IsPublic(p, m) = IsPublic(q, m) /\ ArgOf(p, m, 1) = ArgOf(q, m, 1) /\ ArgOf(p, m, 2) = ArgOf(q, m, 2)
  BY DEF IsPublic, ArgOf
<1>5. \A m \in 1 .. (n - 1) : m \in 1 .. n
  OBVIOUS
<1>6. \A k : DeclaredBefore(p, k, n) <=> DeclaredBefore(q, k, n)
  BY <1>4, <1>5 DEF DeclaredBefore
<1>7. \A k : DeclaredBefore(p, k, n + 1) <=> DeclaredBefore(q, k, n + 1)
  <2>1. n + 1 - 1 = n
    OBVIOUS
  <2> QED
    BY <1>4, <2>1 DEF DeclaredBefore
<1>8. \A k : UsableAt(N, p, k, n) <=> UsableAt(N, q, k, n)
  BY <1>3, <1>6 DEF UsableAt
<1>9. CallOK(N, p, n) <=> CallOK(N, q, n)
  <2>1. p[n] = q[n] /\ ArgOf(p, n, 1) = ArgOf(q, n, 1) /\ ArgOf(p, n, 2) = ArgOf(q, n, 2)
        /\ IsPublic(p, n) = IsPublic(q, n)
    BY <1>2, <1>4
  <2>2. DeclarationOK(N, p, n) <=> DeclarationOK(N, q, n)
    BY <1>6, <2>1 DEF DeclarationOK
  <2>3. OperationOK(N, p, n) <=> OperationOK(N, q, n)
    BY <1>8, <2>1 DEF OperationOK
  <2> QED
    BY <2>1, <2>2, <2>3 DEF CallOK
<1> QED
  BY <1>3, <1>6, <1>7, <1>8, <1>9

\* A call stays right when the objects it knew keep their wire ids and what is
\* filed under them is as good.
LEMMA CallStays ==
  ASSUME NEW N \in Nat, NEW p, NEW q, NEW o, NEW s, NEW w, NEW x, NEW nv, NEW nx, NEW n \in Nat,
         n >= 1, \A m \in 1 .. n : q[m] = p[m],
         CallOK(N, p, n), WireOK(N, p, o, w, nv, n),
         \A k \in 1 .. Made(N, p, n) : (k \in 1 .. N => DeclaredBefore(p, k, n + 1)) => SameWire(o, s, k),
         Wire(p, o, n) \in DOMAIN x,
         ~IsPublic(p, n) /\ FiledOK(w, Wire(p, o, n), nv) => FiledOK(x, Wire(p, o, n), nx)
  PROVE  CallOK(N, q, n) /\ WireOK(N, q, s, x, nx, n) /\ Wire(q, s, n) = Wire(p, o, n)
         /\ Object(N, q, n) = Object(N, p, n)
<1>1. n \in 1 .. n /\ n - 1 \in Nat /\ n = (n - 1) + 1 /\ q[n] = p[n]
  OBVIOUS
<1>2. /\ IsPublic(p, n) = IsPublic(q, n) /\ ArgOf(p, n, 1) = ArgOf(q, n, 1)
      /\ ArgOf(p, n, 2) = ArgOf(q, n, 2)
  BY <1>1 DEF IsPublic, ArgOf
<1>3. Made(N, p, n) = Made(N, q, n) /\ Pubs(p, n) = Pubs(q, n) /\ CallOK(N, q, n)
  BY CallSame
<1>4. Object(N, q, n) = Object(N, p, n)
  BY <1>2, <1>3 DEF Object
<1>5. /\ Ops(p, n) \in Nat /\ Ops(p, n - 1) \in Nat
      /\ Ops(p, n) = IF p[n].op # "Public" THEN Ops(p, n - 1) + 1 ELSE Ops(p, n - 1)
  <2> DEFINE l == n - 1
  <2>1. l \in Nat /\ l + 1 = n
    BY <1>1
  <2> HIDE DEF l
  <2>2. Ops(p, l) \in Nat /\ Ops(p, l + 1) = IF p[l + 1].op # "Public" THEN Ops(p, l) + 1 ELSE Ops(p, l)
    BY <2>1, OpsCount
  <2> QED
    BY <2>1, <2>2, OpsCount DEF l
<1>6. CASE IsPublic(p, n)
  <2>1. Object(N, p, n) = ArgOf(p, n, 1) /\ ArgOf(p, n, 1) \in 1 .. N
    BY <1>6 DEF Object, CallOK, DeclarationOK
  <2>2. DeclaredBefore(p, ArgOf(p, n, 1), n + 1)
    <3>1. n \in 1 .. (n + 1 - 1)
      BY <1>1
    <3> QED
      BY <1>6, <3>1 DEF DeclaredBefore
  <2>3. ArgOf(p, n, 1) \in 1 .. Made(N, p, n)
    BY <1>5, <2>1 DEF Made
  <2>4. SameWire(o, s, ArgOf(p, n, 1))
    BY <2>2, <2>3
  <2>5. Wire(q, s, n) = Wire(p, o, n)
    BY <1>2, <1>3, <1>6 DEF Wire
  <2> QED
    BY <1>2, <1>3, <1>4, <1>6, <2>1, <2>4, <2>5 DEF WireOK, SameWire
<1>7. CASE ~IsPublic(p, n)
  <2>1. UsableAt(N, p, ArgOf(p, n, 1), n) /\ UsableAt(N, p, ArgOf(p, n, 2), n)
    BY <1>7 DEF CallOK, OperationOK
  <2>2. Ops(p, n) = Ops(p, n - 1) + 1
    BY <1>5, <1>7 DEF IsPublic
  <2>3. ASSUME NEW k, UsableAt(N, p, k, n) PROVE SameWire(o, s, k)
    <3>1. k \in 1 .. Made(N, p, n)
      BY <1>5, <2>2, <2>3 DEF UsableAt, Made
    <3>2. k \in 1 .. N => DeclaredBefore(p, k, n + 1)
      <4>1. \A m \in 1 .. (n - 1) : m \in 1 .. (n + 1 - 1)
        OBVIOUS
      <4> QED
        BY <2>3, <4>1 DEF UsableAt, DeclaredBefore
    <3> QED
      BY <3>1, <3>2
  <2>4. SameWire(o, s, ArgOf(p, n, 1)) /\ SameWire(o, s, ArgOf(p, n, 2))
    BY <2>1, <2>3
  <2>5. SameWire(o, s, Object(N, p, n))
    <3>1. Object(N, p, n) = N + Ops(p, n)
      BY <1>7 DEF Object, Made
    <3>2. N + Ops(p, n) \in 1 .. Made(N, p, n) /\ N + Ops(p, n) \notin 1 .. N
      BY <1>5, <2>2 DEF Made
    <3> QED
      BY <3>1, <3>2
  <2>6. Wire(q, s, n) = Wire(p, o, n)
    BY <1>1, <1>2, <1>7, <2>4 DEF Wire, SameWire
  <2> QED
    BY <1>2, <1>3, <1>4, <1>7, <2>4, <2>5, <2>6 DEF WireOK, SameWire
<1> QED
  BY <1>6, <1>7

CallsFrom(N, p, o, g) == IsSeq(p) /\ IsSeq(o) /\ Len(o) = Made(N, p, Len(p)) /\ g = Pubs(p, Len(p))

LoopFiled(p, w) == \A i : PublicWire(i) \in DOMAIN w => i \in 0 .. (Pubs(p, Len(p)) - 1)

Filed(w, x, wire) == /\ DOMAIN x = DOMAIN w \cup {wire}
                     /\ \A u \in DOMAIN w : u # wire => x[u] = w[u]

\* Gadgets over some variables are gadgets over more.
LEMMA FiledGrow ==
  ASSUME NEW n \in Int, NEW m \in Int, n <= m, NEW w, NEW u, FiledOK(w, u, n)
  PROVE  FiledOK(w, u, m)
<1> DEFINE A == Gadgets(n)
           B == Gadgets(m)
           s == w[u].gadgets
<1>1. s \in Seq(A) /\ A \subseteq B
  BY Grow DEF FiledOK
<1> HIDE DEF A, B, s
<1>2. s \in Seq(B)
  BY <1>1
<1> QED
  BY <1>2 DEF FiledOK, B, s

\* Objects are only added.
LEMMA MadeGrow ==
  ASSUME NEW N \in Nat, NEW p, NEW l \in Nat, NEW n \in 0 .. l
  PROVE  Made(N, p, n) \in Nat /\ Made(N, p, l) \in Nat /\ Made(N, p, n) <= Made(N, p, l)
         /\ N <= Made(N, p, n)
<1>1. Ops(p, n) \in 0 .. n /\ Ops(p, l) \in 0 .. l /\ Ops(p, n) <= Ops(p, l)
  BY OpsGrow
<1> DEFINE a == Ops(p, n)
           b == Ops(p, l)
<1>2. a \in Nat /\ b \in Nat /\ a <= b /\ Made(N, p, n) = N + a /\ Made(N, p, l) = N + b
  BY <1>1 DEF Made
<1> HIDE DEF a, b
<1> QED
  BY <1>2

AppendsCall(p, q, c) ==
  LET l == Len(p) + 1
  IN  /\ IsSeq(q) /\ Len(q) = l /\ q[l] = c /\ l \in Nat /\ Len(p) \in Nat
      /\ \A n \in 1 .. Len(p) : q[n] = p[n] /\ n \in Nat /\ n >= 1 /\ \A m \in 1 .. n : q[m] = p[m]
      /\ \A n \in 1 .. l : n \in 1 .. Len(p) \/ n = l
      /\ \A N \in Nat : /\ Made(N, q, l) = IF c.op # "Public" THEN Made(N, p, Len(p)) + 1 ELSE Made(N, p, Len(p))
                        /\ Made(N, q, Len(p)) = Made(N, p, Len(p)) /\ Made(N, p, Len(p)) \in Nat
      /\ Pubs(p, Len(p)) \in Nat
      /\ Pubs(q, l) = IF c.op # "Public" THEN Pubs(p, Len(p)) ELSE Pubs(p, Len(p)) + 1
      /\ \A k : DeclaredBefore(q, k, l) <=> IsDeclared(p, k)
      /\ \A k : IsDeclared(q, k) <=> IsDeclared(p, k) \/ (c.op = "Public" /\ c.args[1] = k)

\* A call that is appended.
LEMMA CallAppended ==
  ASSUME NEW p, IsSeq(p), NEW c
  PROVE  AppendsCall(p, Append(p, c), c)
<1> DEFINE q == Append(p, c)
           L == Len(p)
           l == L + 1
<1>1. IsSeq(q) /\ Len(q) = l /\ q[l] = c /\ L \in Nat /\ \A m \in 1 .. L : q[m] = p[m]
  BY Appended DEF IsSeq
<1> HIDE DEF q, L
<1>2. l \in Nat /\ \A n \in 1 .. l : n \in 1 .. L \/ n = l
  BY <1>1
<1>3. \A n \in 1 .. L : q[n] = p[n] /\ n \in Nat /\ n >= 1 /\ \A m \in 1 .. n : q[m] = p[m]
  BY <1>1
<1>4. Ops(p, L) = Ops(q, L) /\ Ops(p, L) \in 0 .. L
  <2>1. \A m \in 0 .. L : Ops(p, m) = Ops(q, m)
    BY <1>1, OpsSame
  <2>2. L \in 0 .. L
    BY <1>1
  <2>3. Ops(p, L) \in 0 .. L
    BY <1>1, <2>2, OpsGrow
  <2> QED
    BY <2>1, <2>2, <2>3
<1>5. Ops(q, l) = IF c.op # "Public" THEN Ops(p, L) + 1 ELSE Ops(p, L)
  BY <1>1, <1>4, OpsCount
<1>6. ASSUME NEW N \in Nat
      PROVE  /\ Made(N, q, l) = IF c.op # "Public" THEN Made(N, p, L) + 1 ELSE Made(N, p, L)
             /\ Made(N, q, L) = Made(N, p, L) /\ Made(N, p, L) \in Nat
  BY <1>4, <1>5 DEF Made
<1>7. Pubs(p, L) \in Nat /\ Pubs(q, l) = IF c.op # "Public" THEN Pubs(p, L) ELSE Pubs(p, L) + 1
  BY <1>1, <1>4, <1>5 DEF Pubs
<1>8. \A m \in 1 .. L : IsPublic(p, m) = IsPublic(q, m) /\ ArgOf(p, m, 1) = ArgOf(q, m, 1)
  BY <1>1 DEF IsPublic, ArgOf
<1>9. l - 1 = L /\ L + 1 - 1 = L /\ l + 1 - 1 = l /\ l \in 1 .. l /\ \A m \in 1 .. L : m \in 1 .. l
  BY <1>1
<1>10. \A k : DeclaredBefore(q, k, l) <=> IsDeclared(p, k)
  BY <1>8, <1>9 DEF DeclaredBefore, IsDeclared, L
<1>11. IsPublic(q, l) = (c.op = "Public") /\ ArgOf(q, l, 1) = c.args[1]
  BY <1>1 DEF IsPublic, ArgOf
<1>12. \A k : IsDeclared(q, k) <=> DeclaredBefore(q, k, l) \/ (IsPublic(q, l) /\ ArgOf(q, l, 1) = k)
  BY <1>1, <1>2, <1>9 DEF DeclaredBefore, IsDeclared
<1> QED
  BY <1>1, <1>2, <1>3, <1>6, <1>7, <1>10, <1>11, <1>12 DEF q, L, AppendsCall

\* What is right for the calls there were is right with one more.
LEMMA DeclareCall ==
  ASSUME NEW N \in Nat, NEW p, NEW o, NEW w, NEW nv \in Int, NEW g,
         CallsOK(N, p, o, w, nv), CallsFrom(N, p, o, g),
         NEW k \in 1 .. N, ~IsDeclared(p, k), NEW nx \in Int, nv <= nx,
         NEW s, IsSeq(s), Len(s) = Len(o), \A j \in 1 .. Len(o) : j # k => s[j] = o[j],
         s[k].wire = PublicWire(g),
         NEW x, Filed(w, x, PublicWire(g))
  PROVE  LET q == Append(p, [op |-> "Public", args |-> <<k>>])
         IN  /\ CallsOK(N, q, s, x, nx) /\ CallsFrom(N, q, s, g + 1)
             /\ LoopFiled(p, w) => LoopFiled(q, x)
<1> DEFINE c == [op |-> "Public", args |-> <<k>>]
           q == Append(p, c)
           L == Len(p)
           l == L + 1
<1>0. c.op = "Public" /\ c.args[1] = k
  OBVIOUS
<1>1. IsSeq(p) /\ IsSeq(o) /\ Len(o) = Made(N, p, L) /\ g = Pubs(p, L)
  BY DEF CallsFrom
<1>2. /\ IsSeq(q) /\ Len(q) = l /\ q[l] = c /\ l \in Nat /\ L \in Nat
      /\ \A n \in 1 .. L : n \in Nat /\ n >= 1 /\ \A m \in 1 .. n : q[m] = p[m]
      /\ \A n \in 1 .. l : n \in 1 .. L \/ n = l
      /\ Made(N, q, l) = Made(N, p, L) /\ Made(N, p, L) \in Nat
      /\ g \in Nat /\ Pubs(q, l) = g + 1
      /\ \A j : DeclaredBefore(q, j, l) <=> IsDeclared(p, j)
  <2>1. AppendsCall(p, q, c)
    BY <1>1, CallAppended
  <2> HIDE DEF c, q
  <2> QED
    BY <1>0, <1>1, <2>1 DEF AppendsCall
<1> HIDE DEF q
<1>3. ASSUME NEW n \in 1 .. L PROVE CallOK(N, q, n) /\ WireOK(N, q, s, x, nx, n)
  <2>1. CallOK(N, p, n) /\ WireOK(N, p, o, w, nv, n)
    BY DEF CallsOK
  <2>2. \A j \in 1 .. Made(N, p, n) : (j \in 1 .. N => DeclaredBefore(p, j, n + 1)) => SameWire(o, s, j)
    <3> TAKE j \in 1 .. Made(N, p, n)
    <3> HAVE j \in 1 .. N => DeclaredBefore(p, j, n + 1)
    <3>1. j # k
      <4>1. \A m \in 1 .. (n + 1 - 1) : m \in 1 .. (L + 1 - 1)
        BY <1>2
      <4> QED
        BY <4>1 DEF DeclaredBefore, IsDeclared
    <3>2. Made(N, p, n) <= Made(N, p, L) /\ Made(N, p, n) \in Nat
      <4>1. n \in 0 .. L
        BY <1>2
      <4> QED
        BY <1>2, <4>1, MadeGrow
    <3>3. j \in 1 .. Len(o)
      BY <1>1, <1>2, <3>2
    <3> QED
      BY <3>1, <3>3 DEF SameWire
  <2>3. Wire(p, o, n) \in DOMAIN w
    BY <2>1 DEF WireOK
  <2>4. Wire(p, o, n) \in DOMAIN x
    BY <2>3 DEF Filed
  <2>5. ~IsPublic(p, n) /\ FiledOK(w, Wire(p, o, n), nv) => FiledOK(x, Wire(p, o, n), nx)
    <3> SUFFICES ASSUME ~IsPublic(p, n), FiledOK(w, Wire(p, o, n), nv) PROVE FiledOK(x, Wire(p, o, n), nx)
      OBVIOUS
    <3>1. Wire(p, o, n) # PublicWire(g)
      <4>1. p[n].op \in Linear \cup Quadratic
        BY <2>1 DEF CallOK, OperationOK
      <4> QED
        BY <4>1, WiresApart DEF Wire
    <3>2. x[Wire(p, o, n)] = w[Wire(p, o, n)]
      BY <2>3, <3>1 DEF Filed
    <3>3. FiledOK(w, Wire(p, o, n), nx)
      BY FiledGrow
    <3> QED
      BY <3>2, <3>3 DEF FiledOK
  <2>6. n \in Nat /\ n >= 1 /\ \A m \in 1 .. n : q[m] = p[m]
    BY <1>2
  <2> QED
    BY <2>1, <2>2, <2>4, <2>5, <2>6, CallStays
<1>4. IsPublic(q, l) /\ ArgOf(q, l, 1) = k
  BY <1>0, <1>2 DEF IsPublic, ArgOf
<1>5. CallOK(N, q, l)
  BY <1>2, <1>4 DEF CallOK, DeclarationOK
<1>6. WireOK(N, q, s, x, nx, l)
  <2>1. Object(N, q, l) = k
    BY <1>4 DEF Object
  <2>2. Wire(q, s, l) = PublicWire(g)
    BY <1>2, <1>4 DEF Wire
  <2>3. PublicWire(g) \in DOMAIN x
    BY DEF Filed
  <2> QED
    BY <1>4, <2>1, <2>2, <2>3 DEF WireOK
<1>7. CallsOK(N, q, s, x, nx)
  BY <1>2, <1>3, <1>5, <1>6 DEF CallsOK
<1>8. CallsFrom(N, q, s, g + 1)
  BY <1>1, <1>2 DEF CallsFrom
<1>9. ASSUME LoopFiled(p, w) PROVE LoopFiled(q, x)
  <2> SUFFICES ASSUME NEW i, PublicWire(i) \in DOMAIN x PROVE i \in 0 .. ((g + 1) - 1)
    BY <1>2 DEF LoopFiled
  <2>1. PublicWire(i) = PublicWire(g) => i = g
    BY DEF PublicWire
  <2>2. CASE PublicWire(i) \in DOMAIN w
    <3>1. i \in 0 .. (g - 1)
      BY <1>1, <1>9, <2>2 DEF LoopFiled
    <3> QED
      BY <1>2, <3>1
  <2>3. CASE PublicWire(i) = PublicWire(g)
    BY <1>2, <2>1, <2>3
  <2> QED
    BY <2>2, <2>3 DEF Filed
<1> QED
  BY <1>7, <1>8, <1>9 DEF q, c

\* The same for an operation.
LEMMA OperateCall ==
  ASSUME NEW N \in Nat, NEW p, NEW o, NEW w, NEW nv \in Int, NEW g,
         CallsOK(N, p, o, w, nv), CallsFrom(N, p, o, g),
         NEW op \in Linear \cup Quadratic, NEW k, NEW j, k \in 1 .. Len(o), j \in 1 .. Len(o),
         Usable(N, p, k), Usable(N, p, j), op = "Square" => k = j,
         o[k].wire # None, o[j].wire # None,
         NEW nx \in Int, nv <= nx,
         NEW e, e.wire = OpWire(op, o[k].wire, o[j].wire),
         NEW x, Filed(w, x, e.wire), FiledOK(x, e.wire, nx)
  PROVE  LET q == Append(p, [op |-> op, args |-> <<k, j>>])
             s == Append(o, e)
         IN  /\ CallsOK(N, q, s, x, nx) /\ CallsFrom(N, q, s, g)
             /\ LoopFiled(p, w) => LoopFiled(q, x)
<1> DEFINE c == [op |-> op, args |-> <<k, j>>]
           q == Append(p, c)
           s == Append(o, e)
           L == Len(p)
           l == L + 1
<1>0. c.op = op /\ c.args[1] = k /\ c.args[2] = j /\ op # "Public"
  BY WiresApart
<1>1. IsSeq(p) /\ IsSeq(o) /\ Len(o) = Made(N, p, L) /\ g = Pubs(p, L)
  BY DEF CallsFrom
<1>2. /\ IsSeq(q) /\ Len(q) = l /\ q[l] = c /\ l \in Nat /\ L \in Nat
      /\ \A n \in 1 .. L : n \in Nat /\ n >= 1 /\ \A m \in 1 .. n : q[m] = p[m]
      /\ \A n \in 1 .. l : n \in 1 .. L \/ n = l
      /\ Made(N, q, l) = Made(N, p, L) + 1 /\ Made(N, q, L) = Made(N, p, L) /\ Made(N, p, L) \in Nat
      /\ g \in Nat /\ Pubs(q, l) = g
      /\ \A i : DeclaredBefore(q, i, l) <=> IsDeclared(p, i)
  <2>1. AppendsCall(p, q, c)
    BY <1>1, CallAppended
  <2> HIDE DEF c, q
  <2> QED
    BY <1>0, <1>1, <2>1 DEF AppendsCall
<1> HIDE DEF q
<1>10. /\ IsSeq(s) /\ Len(s) = Len(o) + 1 /\ s[Len(o) + 1] = e
       /\ \A i \in 1 .. Len(o) : s[i] = o[i]
  BY <1>1, Appended
<1> HIDE DEF s
<1>3. ASSUME NEW n \in 1 .. L PROVE CallOK(N, q, n) /\ WireOK(N, q, s, x, nx, n)
  <2>1. CallOK(N, p, n) /\ WireOK(N, p, o, w, nv, n)
    BY DEF CallsOK
  <2>2. \A i \in 1 .. Made(N, p, n) : (i \in 1 .. N => DeclaredBefore(p, i, n + 1)) => SameWire(o, s, i)
    <3> TAKE i \in 1 .. Made(N, p, n)
    <3> HAVE i \in 1 .. N => DeclaredBefore(p, i, n + 1)
    <3>2. Made(N, p, n) <= Made(N, p, L) /\ Made(N, p, n) \in Nat
      <4>1. n \in 0 .. L
        BY <1>2
      <4> QED
        BY <1>2, <4>1, MadeGrow
    <3>3. i \in 1 .. Len(o)
      BY <1>1, <1>2, <3>2
    <3> QED
      BY <1>10, <3>3 DEF SameWire
  <2>3. Wire(p, o, n) \in DOMAIN w
    BY <2>1 DEF WireOK
  <2>4. Wire(p, o, n) \in DOMAIN x
    BY <2>3 DEF Filed
  <2>5. ~IsPublic(p, n) /\ FiledOK(w, Wire(p, o, n), nv) => FiledOK(x, Wire(p, o, n), nx)
    <3> SUFFICES ASSUME ~IsPublic(p, n), FiledOK(w, Wire(p, o, n), nv) PROVE FiledOK(x, Wire(p, o, n), nx)
      OBVIOUS
    <3>1. CASE Wire(p, o, n) = e.wire
      BY <3>1
    <3>2. CASE Wire(p, o, n) # e.wire
      <4>1. x[Wire(p, o, n)] = w[Wire(p, o, n)]
        BY <2>3, <3>2 DEF Filed
      <4>2. FiledOK(w, Wire(p, o, n), nx)
        BY FiledGrow
      <4> QED
        BY <4>1, <4>2 DEF FiledOK
    <3> QED
      BY <3>1, <3>2
  <2>6. n \in Nat /\ n >= 1 /\ \A m \in 1 .. n : q[m] = p[m]
    BY <1>2
  <2> QED
    BY <2>1, <2>2, <2>4, <2>5, <2>6, CallStays
<1>4. ~IsPublic(q, l) /\ ArgOf(q, l, 1) = k /\ ArgOf(q, l, 2) = j /\ q[l].op = op
  BY <1>0, <1>2 DEF IsPublic, ArgOf
<1>5. CallOK(N, q, l)
  <2>1. \A i : i \in 1 .. Len(o) /\ Usable(N, p, i) => UsableAt(N, q, i, l)
    <3>1. l - 1 = L
      BY <1>2
    <3> QED
      BY <1>1, <1>2, <3>1 DEF Usable, UsableAt
  <2>2. OperationOK(N, q, l)
    BY <1>2, <1>4, <2>1 DEF OperationOK
  <2> QED
    BY <1>4, <2>2 DEF CallOK
<1>6. WireOK(N, q, s, x, nx, l)
  <2>1. Object(N, q, l) = Len(o) + 1
    BY <1>1, <1>2, <1>4 DEF Object
  <2>2. s[k] = o[k] /\ s[j] = o[j] /\ s[Object(N, q, l)] = e
    BY <1>10, <2>1
  <2>3. Wire(q, s, l) = e.wire
    BY <1>4, <2>2 DEF Wire
  <2>4. e.wire \in DOMAIN x
    BY DEF Filed
  <2> QED
    BY <1>4, <2>2, <2>3, <2>4 DEF WireOK
<1>7. CallsOK(N, q, s, x, nx)
  BY <1>2, <1>3, <1>5, <1>6 DEF CallsOK
<1>8. CallsFrom(N, q, s, g)
  BY <1>1, <1>2, <1>10 DEF CallsFrom
<1>9. ASSUME LoopFiled(p, w) PROVE LoopFiled(q, x)
  <2> SUFFICES ASSUME NEW i, PublicWire(i) \in DOMAIN x PROVE i \in 0 .. (g - 1)
    BY <1>2 DEF LoopFiled
  <2>1. PublicWire(i) # e.wire
    BY WiresApart
  <2> QED
    BY <1>1, <1>9, <2>1 DEF Filed, LoopFiled
<1> QED
  BY <1>7, <1>8, <1>9 DEF q, c, s

\* The calls stay right when more variables and objects are made.
LEMMA SameCalls ==
  ASSUME NEW N \in Nat, NEW p, IsSeq(p), NEW o, NEW w, NEW nv \in Int, CallsOK(N, p, o, w, nv),
         NEW nx \in Int, nv <= nx, NEW s,
         \A k \in 1 .. Made(N, p, Len(p)) : Usable(N, p, k) => SameWire(o, s, k)
  PROVE  CallsOK(N, p, s, w, nx)
<1>1. SUFFICES ASSUME NEW n \in 1 .. Len(p) PROVE CallOK(N, p, n) /\ WireOK(N, p, s, w, nx, n)
  BY DEF CallsOK
<1> DEFINE L == Len(p)
<1>2. L \in Nat /\ n \in Nat /\ n >= 1 /\ n <= L /\ n \in 0 .. L
  BY DEF IsSeq
<1>3. CallOK(N, p, n) /\ WireOK(N, p, o, w, nv, n)
  BY DEF CallsOK
<1>4. \A k \in 1 .. Made(N, p, n) : (k \in 1 .. N => DeclaredBefore(p, k, n + 1)) => SameWire(o, s, k)
  <2> TAKE k \in 1 .. Made(N, p, n)
  <2> HAVE k \in 1 .. N => DeclaredBefore(p, k, n + 1)
  <2>1. Usable(N, p, k)
    <3>1. \A m \in 1 .. (n + 1 - 1) : m \in 1 .. (Len(p) + 1 - 1)
      BY <1>2
    <3> QED
      BY <3>1 DEF Usable, IsDeclared, DeclaredBefore
  <2>2. k \in 1 .. Made(N, p, Len(p))
    <3>1. Made(N, p, n) \in Nat /\ Made(N, p, L) \in Nat /\ Made(N, p, n) <= Made(N, p, L)
      BY <1>2, MadeGrow
    <3> QED
      BY <1>2, <3>1
  <2> QED
    BY <2>1, <2>2
<1>5. Wire(p, o, n) \in DOMAIN w
  BY <1>3 DEF WireOK
<1>6. ~IsPublic(p, n) /\ FiledOK(w, Wire(p, o, n), nv) => FiledOK(w, Wire(p, o, n), nx)
  BY FiledGrow
<1>7. \A m \in 1 .. n : p[m] = p[m]
  OBVIOUS
<1> QED
  BY <1>2, <1>3, <1>4, <1>5, <1>6, <1>7, CallStays

-----------------------------------------------------------------------------
(* The inductive invariant                                                   *)

ObjectFields == {"content", "wire", "constraint", "witness"}

IsObject(o) == DOMAIN o = ObjectFields /\ o = [f \in ObjectFields |-> o[f]]

ObjectsOK(N, H, o) ==
  /\ IsSeq(o) /\ Len(o) >= N
  /\ \A k \in 1 .. Len(o) : IsObject(o[k])
  /\ \A k \in 1 .. N : o[k].content \in H

BoardOK(p, ov) == IsBoard(p, NumVariables(p)) /\ ov \in Seq([Limbs -> 1 .. NumVariables(p)])

\* All metadata but those of an earlier generation are over the variables
\* there are.
MetasOK(N, p, o, nv) ==
  \A k \in 1 .. Len(o) : Usable(N, p, k) => IsMeta(o[k].constraint, nv)

\* The replay r of c calls made as many objects as generation by the same
\* calls, with the same wire ids; if the mode was not set before it, the first
\* call will ask for one nothing is filed under.
Mirrors(N, p, o, r, c) ==
  \A k \in 1 .. Made(N, p, c) :
    IF k \in 1 .. N THEN r[k] = k
    ELSE r[k] \in (N + 1) .. Len(o) /\ o[r[k]].wire = o[k].wire

WireCount(p, c, g, loop) ==
  g = Pubs(p, c) \/ (loop /\ c = 0 /\ g = Pubs(p, Len(p)))

ReplaysFrom(N, p, o, r, c, g, loop) ==
  /\ c \in 0 .. Len(p) /\ Len(p) > 0
  /\ Len(o) >= Made(N, p, Len(p))
  /\ IsSeq(r) /\ Len(r) = Made(N, p, c)
  /\ Mirrors(N, p, o, r, c)
  /\ WireCount(p, c, g, loop)

OutputOK(N, p, o, k) ==
  k \in 1 .. Made(N, p, Len(p)) /\ (Usable(N, p, k) \/ o[k].constraint = None)

Phases == {<<"start", "EVALUATION">>,
           <<"generate", "CONSTRAINT_GENERATION">>, <<"finalized", "CONSTRAINT_GENERATION">>,
           <<"replay", "WITNESS_GENERATION">>, <<"finished", "WITNESS_GENERATION">>}

Statuses == {"ok", "threw", "aborted", "undefined"}

Control ==
  /\ kind \in DOMAIN Kinds
  /\ finalize \in Habit.finalizations
  /\ status \in Statuses
  /\ <<phase, mode>> \in Phases
  /\ global_wire_id \in Nat /\ pc \in Nat
  /\ phase = "start" => wire_id_to_metadata = <<>>
  /\ IsSeq(program)
  /\ output \in 0 .. Len(ctxts)

Types == /\ Control
         /\ ObjectsOK(Habit.inputs, Habit.contents, ctxts)
         /\ BoardOK(pb, out_vars)

\* Until the first operation there are no variables but declared ones.
PrimaryAt(p, first) == p.public = 1 .. p.inputs /\ (first => NumVariables(p) = p.inputs)

PrimaryFirst == Habit.publicFirst => PrimaryAt(pb, phase = "generate" /\ OnlyDeclarations)

RunAt(N, loop, f, ph, p, o, w, nv, g, r, c, k) ==
  /\ CallsOK(N, p, o, w, nv)
  /\ MetasOK(N, p, o, nv)
  /\ ph \in {"generate", "finalized"} => CallsFrom(N, p, o, g) /\ c = 0
  /\ ph \in {"replay", "finished"} => ReplaysFrom(N, p, o, r, c, g, loop)
  /\ ph = "finished" => c = Len(p)
  /\ ph \in {"replay", "finished"} /\ f \in {"late", "replayed"} => OutputOK(N, p, o, k)
  /\ loop => LoopFiled(p, w)

Run == RunAt(Habit.inputs, Habit.loop, finalize, phase, program, ctxts, wire_id_to_metadata,
             NumVariables(pb), global_wire_id, replayed, pc, output)

Inv == Types /\ PrimaryFirst /\ (phase # "start" /\ status = "ok" => Run)

\* What is assumed of a program.
LEMMA HabitFacts ==
  ASSUME kind \in DOMAIN Kinds
  PROVE  /\ Habit.inputs \in Nat /\ Habit.inputs >= 1 /\ Inputs = 1 .. Habit.inputs
         /\ Habit.contents \subseteq Seq([Limbs -> 0 .. Q - 1]) \ {<<>>}
         /\ Habit.operations \subseteq Linear \cup Quadratic
         /\ Habit.finalizations \subseteq {"never", "generated", "late", "replayed"}
<1>1. Habit = Kinds[kind]
  BY DEF Habit
<1> QED
  BY <1>1, ClientAssumption DEF Inputs

\* A content is a sequence of polynomials.
LEMMA ContentFacts ==
  ASSUME kind \in DOMAIN Kinds, NEW x \in Habit.contents
  PROVE  Coefficients(x) /\ Len(x) \in Nat
<1> DEFINE F == [Limbs -> 0 .. Q - 1]
<1>1. x \in Seq(F)
  BY HabitFacts
<1>2. Len(x) \in Nat
  <2> HIDE DEF F
  <2> QED
    BY <1>1
<1> QED
  BY <1>1, <1>2 DEF Coefficients

\* The mode belongs to the phase.
LEMMA PhaseMode ==
  ASSUME Control
  PROVE  /\ phase \in {"start", "generate", "finalized", "replay", "finished"}
         /\ phase = "start" <=> mode = "EVALUATION"
         /\ phase \in {"generate", "finalized"} <=> mode = "CONSTRAINT_GENERATION"
         /\ phase \in {"replay", "finished"} <=> mode = "WITNESS_GENERATION"
BY DEF Control, Phases

\* The declared inputs.
LEMMA DeclaredIs ==
  ASSUME IsSeq(program)
  PROVE  \A k : k \in Declared <=> IsDeclared(program, k)
<1> DEFINE L == Len(program)
<1>1. DOMAIN program = 1 .. L /\ L \in Nat /\ L + 1 - 1 = L
  BY DEF IsSeq
<1> QED
  BY <1>1 DEF Declared, IsDeclared, DeclaredBefore, IsPublic, ArgOf

\* A program makes declarations only if it did before its last call.
LEMMA OnlyAppended ==
  ASSUME NEW p, IsSeq(p), NEW c
  PROVE  (\A n \in DOMAIN Append(p, c) : Append(p, c)[n].op = "Public") =>
           c.op = "Public" /\ \A n \in DOMAIN p : p[n].op = "Public"
<1> DEFINE q == Append(p, c)
<1>1. AppendsCall(p, q, c)
  BY CallAppended
<1>2. DOMAIN p = 1 .. Len(p)
  BY DEF IsSeq
<1> HIDE DEF q
<1>3. /\ Len(q) = Len(p) + 1 /\ q[Len(p) + 1] = c /\ Len(p) \in Nat /\ DOMAIN q = 1 .. Len(q)
      /\ \A n \in 1 .. Len(p) : q[n] = p[n]
  BY <1>1 DEF AppendsCall, IsSeq
<1>4. Len(p) + 1 \in DOMAIN q /\ \A n \in 1 .. Len(p) : n \in DOMAIN q
  BY <1>3
<1> QED
  BY <1>2, <1>3, <1>4 DEF q

Updated(o, k, e, s) == s = [o EXCEPT ![k] = e]

Extended(o, e, s) == s = Append(o, e)

\* Objects stay objects when other fields of one are set.
LEMMA ObjectChanged ==
  ASSUME NEW N \in Nat, NEW H, NEW o, ObjectsOK(N, H, o), NEW k \in 1 .. Len(o),
         NEW e, IsObject(e), e.content = o[k].content, NEW s, Updated(o, k, e, s)
  PROVE  /\ ObjectsOK(N, H, s) /\ Len(s) = Len(o)
         /\ s[k] = e /\ \A j \in 1 .. Len(o) : j # k => s[j] = o[j]
<1>1. /\ IsSeq(o) /\ Len(o) \in Nat /\ DOMAIN o = 1 .. Len(o) /\ Len(o) >= N
      /\ \A j \in 1 .. Len(o) : IsObject(o[j])
      /\ \A j \in 1 .. N : o[j].content \in H
  BY DEF ObjectsOK, IsSeq
<1>2. DOMAIN s = DOMAIN o /\ s = [j \in DOMAIN o |-> s[j]] /\ s[k] = e /\ \A j \in 1 .. Len(o) : j # k => s[j] = o[j]
  BY <1>1 DEF Updated
<1>3. IsSeq(s) /\ Len(s) = Len(o)
  BY <1>1, <1>2, Mapped
<1>4. \A j \in 1 .. Len(s) : IsObject(s[j])
  BY <1>1, <1>2, <1>3
<1>5. \A j \in 1 .. N : s[j].content \in H
  <2> TAKE j \in 1 .. N
  <2>1. j \in 1 .. Len(o)
    BY <1>1
  <2>2. CASE j = k
    BY <1>1, <1>2, <2>2
  <2>3. CASE j # k
    <3>1. s[j] = o[j]
      BY <1>2, <2>1, <2>3
    <3> QED
      BY <1>1, <3>1
  <2> QED
    BY <2>2, <2>3
<1>6. ObjectsOK(N, H, s)
  BY <1>1, <1>3, <1>4, <1>5 DEF ObjectsOK
<1> QED
  BY <1>2, <1>3, <1>6

\* An object can be added.
LEMMA ObjectAppended ==
  ASSUME NEW N \in Nat, NEW H, NEW o, ObjectsOK(N, H, o), NEW e, IsObject(e),
         NEW s, Extended(o, e, s)
  PROVE  /\ ObjectsOK(N, H, s) /\ Len(s) = Len(o) + 1 /\ Len(o) \in Nat
         /\ s[Len(o) + 1] = e /\ \A j \in 1 .. Len(o) : s[j] = o[j]
<1>1. IsSeq(o) /\ Len(o) \in Nat /\ Len(o) >= N /\ (\A j \in 1 .. Len(o) : IsObject(o[j]))
      /\ \A j \in 1 .. N : o[j].content \in H
  BY DEF ObjectsOK, IsSeq
<1>2. IsSeq(s) /\ Len(s) = Len(o) + 1 /\ (\A j \in 1 .. Len(o) : s[j] = o[j]) /\ s[Len(o) + 1] = e
  BY <1>1, Appended DEF Extended
<1>3. \A j \in 1 .. Len(s) : j \in 1 .. Len(o) \/ j = Len(o) + 1
  BY <1>1, <1>2
<1>4. \A j \in 1 .. Len(s) : IsObject(s[j])
  BY <1>1, <1>2, <1>3
<1>5. \A j \in 1 .. N : s[j].content \in H
  <2> TAKE j \in 1 .. N
  <2>1. j \in 1 .. Len(o)
    BY <1>1
  <2> QED
    BY <1>1, <1>2, <2>1
<1>6. ObjectsOK(N, H, s)
  BY <1>1, <1>2, <1>4, <1>5 DEF ObjectsOK
<1> QED
  BY <1>1, <1>2, <1>6

Holds(e, content, wire, constraint) ==
  IsObject(e) /\ e.content = content /\ e.wire = wire /\ e.constraint = constraint

\* Fields of an object can be set.
LEMMA WireSet ==
  ASSUME NEW o, IsObject(o), NEW wire
  PROVE  Holds([o EXCEPT !.wire = wire], o.content, wire, o.constraint)
BY DEF IsObject, ObjectFields, Holds

\* The same, with constraint metadata.
LEMMA ConstraintSet ==
  ASSUME NEW o, IsObject(o), NEW wire, NEW meta
  PROVE  Holds([o EXCEPT !.wire = wire, !.constraint = meta], o.content, wire, meta)
BY DEF IsObject, ObjectFields, Holds

\* The same, with witness metadata.
LEMMA WitnessSet ==
  ASSUME NEW o, IsObject(o), NEW wire, NEW meta
  PROVE  Holds([o EXCEPT !.wire = wire, !.witness = meta], o.content, wire, o.constraint)
BY DEF IsObject, ObjectFields, Holds

\* The same, with a content.
LEMMA ContentSet ==
  ASSUME NEW o, IsObject(o), NEW content
  PROVE  Holds([o EXCEPT !.content = content], content, o.wire, o.constraint)
BY DEF IsObject, ObjectFields, Holds

\* What an operation makes of its first operand.
LEMMA ResultSet ==
  ASSUME NEW o, IsObject(o), NEW content, NEW wire
  PROVE  LET e == [o EXCEPT !.content = content, !.wire = wire]
         IN  /\ Holds(e, content, wire, o.constraint)
             /\ \A meta : /\ Holds([e EXCEPT !.constraint = meta], content, wire, meta)
                          /\ Holds([e EXCEPT !.witness = meta], content, wire, o.constraint)
BY DEF IsObject, ObjectFields, Holds

\* Metadata stay over the variables there are when more are allocated.
LEMMA MetasGrow ==
  ASSUME NEW N, NEW p, NEW o, NEW nv \in Int, NEW nx \in Int, nv <= nx, MetasOK(N, p, o, nv)
  PROVE  MetasOK(N, p, o, nx)
BY MetaGrow DEF MetasOK

\* Output variables are variables when more are allocated.
LEMMA BoardGrow ==
  ASSUME NEW p, NEW ov, BoardOK(p, ov), NEW nx \in Nat, NumVariables(p) <= nx
  PROVE  ov \in Seq([Limbs -> 1 .. nx])
<1> DEFINE n == NumVariables(p)
           A == [Limbs -> 1 .. n]
           B == [Limbs -> 1 .. nx]
<1>1. n \in Nat /\ n <= nx
  BY DEF BoardOK, IsBoard
<1>2. 1 .. n \subseteq 1 .. nx
  <2> HIDE DEF n
  <2> QED
    BY <1>1
<1>3. ov \in Seq(A) /\ A \subseteq B
  BY <1>2 DEF BoardOK
<1> HIDE DEF A, B
<1>4. ov \in Seq(B)
  BY <1>3
<1> QED
  BY <1>4 DEF B

\* The parts of the invariant make it up.
LEMMA Assemble ==
  ASSUME kind \in DOMAIN Kinds, finalize \in Habit.finalizations,
         kind' = kind, finalize' = finalize,
         status' \in Statuses, <<phase', mode'>> \in Phases,
         global_wire_id' \in Nat, pc' \in Nat, IsSeq(program'), output' \in 0 .. Len(ctxts'),
         phase' = "start" => wire_id_to_metadata' = <<>>,
         ObjectsOK(Habit.inputs, Habit.contents, ctxts'), BoardOK(pb', out_vars'),
         Habit.publicFirst => PrimaryAt(pb', phase' = "generate" /\ OnlyDeclarations'),
         phase' # "start" /\ status' = "ok" =>
           RunAt(Habit.inputs, Habit.loop, finalize, phase', program', ctxts', wire_id_to_metadata',
                 Len(pb'.val), global_wire_id', replayed', pc', output')
  PROVE  Inv'
<1>1. Habit' = Habit
  BY DEF Habit
<1>2. Control'
  BY <1>1 DEF Control
<1>3. Types'
  BY <1>1, <1>2 DEF Types
<1>4. PrimaryFirst'
  BY <1>1 DEF PrimaryFirst
<1>5. (phase # "start" /\ status = "ok" => Run)'
  BY <1>1 DEF Run, NumVariables
<1> QED
  BY <1>3, <1>4, <1>5 DEF Inv

\* What the invariant says of every state.
LEMMA InvFacts ==
  ASSUME Inv
  PROVE  /\ kind \in DOMAIN Kinds /\ finalize \in Habit.finalizations /\ status \in Statuses
         /\ <<phase, mode>> \in Phases /\ global_wire_id \in Nat /\ pc \in Nat
         /\ IsSeq(program) /\ output \in 0 .. Len(ctxts)
         /\ Control
         /\ ObjectsOK(Habit.inputs, Habit.contents, ctxts)
         /\ BoardOK(pb, out_vars)
         /\ IsBoard(pb, NumVariables(pb)) /\ NumVariables(pb) \in Nat
         /\ Habit.inputs \in Nat /\ Habit.inputs >= 1 /\ Inputs = 1 .. Habit.inputs
         /\ DOMAIN ctxts = 1 .. Len(ctxts) /\ Len(ctxts) \in Nat /\ Len(ctxts) >= Habit.inputs
         /\ \A k \in 1 .. Len(ctxts) : IsObject(ctxts[k])
         /\ \A k \in Inputs : /\ k \in 1 .. Len(ctxts) /\ ctxts[k].content \in Habit.contents
                              /\ Coefficients(ctxts[k].content) /\ Len(ctxts[k].content) \in Nat
<1>1. Control /\ ObjectsOK(Habit.inputs, Habit.contents, ctxts) /\ BoardOK(pb, out_vars)
  BY DEF Inv, Types
<1>2. kind \in DOMAIN Kinds
  BY <1>1 DEF Control
<1>3. IsBoard(pb, NumVariables(pb)) /\ NumVariables(pb) \in Nat
  BY <1>1, BoardSize DEF BoardOK
<1>4. Habit.inputs \in Nat /\ Habit.inputs >= 1 /\ Inputs = 1 .. Habit.inputs
  BY <1>2, HabitFacts
<1>5. /\ DOMAIN ctxts = 1 .. Len(ctxts) /\ Len(ctxts) \in Nat /\ Len(ctxts) >= Habit.inputs
      /\ \A k \in 1 .. Len(ctxts) : IsObject(ctxts[k])
      /\ \A k \in 1 .. Habit.inputs : ctxts[k].content \in Habit.contents
  BY <1>1 DEF ObjectsOK, IsSeq
<1>6. ASSUME NEW k \in Inputs
      PROVE  /\ k \in 1 .. Len(ctxts) /\ ctxts[k].content \in Habit.contents
             /\ Coefficients(ctxts[k].content) /\ Len(ctxts[k].content) \in Nat
  <2>1. k \in 1 .. Len(ctxts) /\ ctxts[k].content \in Habit.contents
    BY <1>4, <1>5
  <2> QED
    BY <1>2, <2>1, ContentFacts
<1> QED
  BY <1>1, <1>2, <1>3, <1>4, <1>5, <1>6 DEF Control

\* A program that stops leaves the objects and the protoboard as they were.
LEMMA Stopped ==
  ASSUME Inv, kind' = kind, finalize' = finalize, status' \in Statuses \ {"ok"},
         wire_id_to_metadata' = wire_id_to_metadata, pb' = pb, ctxts' = ctxts, out_vars' = out_vars,
         <<phase', mode'>> \in Phases, phase' = "start" => phase = "start",
         global_wire_id' \in Nat, pc' \in Nat, IsSeq(program'), output' \in 0 .. Len(ctxts),
         phase' = "generate" => phase = "generate" /\ (OnlyDeclarations' => OnlyDeclarations)
  PROVE  Inv'
<1>1. /\ kind \in DOMAIN Kinds /\ finalize \in Habit.finalizations /\ Control
      /\ ObjectsOK(Habit.inputs, Habit.contents, ctxts) /\ BoardOK(pb, out_vars)
  BY InvFacts
<1>2. phase' = "start" => wire_id_to_metadata' = <<>>
  BY <1>1 DEF Control
<1>3. Habit.publicFirst => PrimaryAt(pb', phase' = "generate" /\ OnlyDeclarations')
  BY DEF Inv, PrimaryFirst, PrimaryAt
<1>4. ObjectsOK(Habit.inputs, Habit.contents, ctxts') /\ BoardOK(pb', out_vars')
  BY <1>1
<1>5. output' \in 0 .. Len(ctxts')
  OBVIOUS
<1>6. status' \in Statuses /\ status' # "ok"
  OBVIOUS
<1> QED
  BY <1>1, <1>2, <1>3, <1>4, <1>5, <1>6, Assemble

\* A program starts with nothing but its inputs.
LEMMA InitInv == Init => Inv
<1> SUFFICES ASSUME Init PROVE Inv
  OBVIOUS
<1>1. kind \in DOMAIN Kinds /\ finalize \in Habit.finalizations /\ phase = "start" /\ mode = "EVALUATION"
      /\ status = "ok" /\ wire_id_to_metadata = <<>> /\ program = <<>> /\ pc = 0 /\ output = 0
      /\ global_wire_id = 0 /\ pb = EmptyBoard /\ out_vars = <<>>
  BY DEF Init
<1>2. Habit.inputs \in Nat /\ Habit.inputs >= 1 /\ Inputs = 1 .. Habit.inputs
  BY <1>1, HabitFacts
<1> DEFINE N == Habit.inputs
<1>3. PICK c \in [Inputs -> Habit.contents] : ctxts = [k \in Inputs |-> Ciphertext(c[k])]
  BY DEF Init
<1>4. DOMAIN ctxts = 1 .. N /\ ctxts = [k \in 1 .. N |-> ctxts[k]]
      /\ \A k \in 1 .. N : IsObject(ctxts[k]) /\ ctxts[k].content \in Habit.contents
  <2>1. \A k \in 1 .. N : ctxts[k] = Ciphertext(c[k]) /\ c[k] \in Habit.contents
    BY <1>2, <1>3
  <2>2. \A x : IsObject(Ciphertext(x)) /\ Ciphertext(x).content = x
    BY DEF Ciphertext, IsObject, ObjectFields
  <2> QED
    BY <1>2, <1>3, <2>1, <2>2
<1>5. IsSeq(ctxts) /\ Len(ctxts) = N
  BY <1>2, <1>4, SeqWhen
<1>6. ObjectsOK(N, Habit.contents, ctxts)
  <2> HIDE DEF N
  <2>1. N \in Nat /\ Len(ctxts) = N /\ Len(ctxts) >= N
    BY <1>2, <1>5 DEF N
  <2> QED
    BY <1>4, <1>5, <2>1 DEF ObjectsOK
<1>7. IsBoard(pb, 0) /\ NumVariables(pb) = 0
  BY <1>1, EmptyIsBoard, BoardSize
<1>8. BoardOK(pb, out_vars)
  <2>1. out_vars \in Seq([Limbs -> 1 .. 0])
    BY <1>1
  <2> QED
    BY <1>7, <2>1 DEF BoardOK
<1>9. IsSeq(program)
  BY <1>1 DEF IsSeq
<1>10. Control
  BY <1>1, <1>2, <1>5, <1>9 DEF Control, Phases, Statuses
<1>11. PrimaryFirst
  BY <1>1 DEF PrimaryFirst, PrimaryAt, EmptyBoard
<1> QED
  BY <1>1, <1>6, <1>8, <1>10, <1>11 DEF Inv, Types

\* In evaluation mode there is no generation yet.
LEMMA EvaluateInv ==
  ASSUME Inv, UNCHANGED clientVars, phase = "start", mode' = mode, wire_id_to_metadata' = wire_id_to_metadata,
         pb' = pb, out_vars' = out_vars, status' = status, global_wire_id' \in Nat,
         ObjectsOK(Habit.inputs, Habit.contents, ctxts'), Len(ctxts') >= Len(ctxts)
  PROVE  Inv'
<1>1. /\ kind \in DOMAIN Kinds /\ finalize \in Habit.finalizations /\ status \in Statuses
      /\ <<phase, mode>> \in Phases /\ pc \in Nat /\ IsSeq(program) /\ output \in 0 .. Len(ctxts)
      /\ Control /\ BoardOK(pb, out_vars) /\ Len(ctxts) \in Nat
  BY InvFacts
<1>2. /\ kind' = kind /\ finalize' = finalize /\ phase' = phase /\ pc' = pc /\ program' = program
      /\ output' = output
  BY DEF clientVars
<1>3. output' \in 0 .. Len(ctxts')
  <2>1. Len(ctxts') \in Nat
    BY DEF ObjectsOK, IsSeq
  <2> QED
    BY <1>1, <1>2, <2>1
<1>4. Habit.publicFirst => PrimaryAt(pb', phase' = "generate" /\ OnlyDeclarations')
  BY <1>2 DEF Inv, PrimaryFirst, PrimaryAt
<1>5. phase' = "start" => wire_id_to_metadata' = <<>>
  BY <1>1 DEF Control
<1>6. status' \in Statuses /\ <<phase', mode'>> \in Phases /\ pc' \in Nat /\ IsSeq(program')
      /\ BoardOK(pb', out_vars') /\ phase' = "start"
  BY <1>1, <1>2
<1> QED
  BY <1>1, <1>2, <1>3, <1>4, <1>5, <1>6, Assemble

\* A plain evaluation gives an input a wire id.
LEMMA EvaluatePublicInputInv ==
  ASSUME Inv, NEW k \in Inputs, EvaluatePublicInput(k)
  PROVE  Inv'
<1>1. phase = "start" /\ PublicInput(k) /\ UNCHANGED clientVars
  BY DEF EvaluatePublicInput
<1>2. mode = "EVALUATION"
  BY <1>1, InvFacts, PhaseMode
<1>3. /\ ObjectsOK(Habit.inputs, Habit.contents, ctxts) /\ k \in 1 .. Len(ctxts) /\ IsObject(ctxts[k])
      /\ Habit.inputs \in Nat /\ global_wire_id \in Nat /\ Len(ctxts) \in Nat
  BY InvFacts
<1> DEFINE wire == <<"PublicCtxt", global_wire_id>>
           e == [ctxts[k] EXCEPT !.wire = wire]
<1>4. /\ ctxts' = [ctxts EXCEPT ![k] = e] /\ mode' = mode /\ wire_id_to_metadata' = wire_id_to_metadata
      /\ pb' = pb /\ out_vars' = out_vars /\ status' = status /\ global_wire_id' = global_wire_id + 1
  BY <1>1, <1>2 DEF PublicInput
<1>5. IsObject(e) /\ e.content = ctxts[k].content
  <2> HIDE DEF wire
  <2> QED
    BY <1>3, WireSet DEF Holds
<1> HIDE DEF e
<1>6. ObjectsOK(Habit.inputs, Habit.contents, ctxts') /\ Len(ctxts') = Len(ctxts)
  <2>1. Updated(ctxts, k, e, ctxts')
    BY <1>4 DEF Updated
  <2> QED
    BY <1>3, <1>5, <2>1, ObjectChanged
<1>7. Len(ctxts') >= Len(ctxts) /\ global_wire_id' \in Nat
  BY <1>3, <1>4, <1>6
<1> QED
  BY <1>1, <1>4, <1>6, <1>7, EvaluateInv

\* A plain evaluation adds an object, or throws.
LEMMA EvaluateOperationInv ==
  ASSUME Inv, NEW op, NEW k \in DOMAIN ctxts, NEW l \in DOMAIN ctxts, EvaluateOperation(op, k, l)
  PROVE  Inv'
<1>1. phase = "start" /\ Operation(op, k, l) /\ UNCHANGED clientVars
  BY DEF EvaluateOperation
<1>2. mode = "EVALUATION"
  BY <1>1, InvFacts, PhaseMode
<1>3. /\ ObjectsOK(Habit.inputs, Habit.contents, ctxts) /\ k \in 1 .. Len(ctxts) /\ IsObject(ctxts[k])
      /\ Habit.inputs \in Nat /\ global_wire_id \in Nat /\ Len(ctxts) \in Nat
      /\ pc \in Nat /\ IsSeq(program) /\ output \in 0 .. Len(ctxts) /\ <<phase, mode>> \in Phases
  BY InvFacts
<1> DEFINE wire == WireId(op, k, l)
           content == FheEval(op, ctxts[k].content, ctxts[l].content)
           e == [ctxts[k] EXCEPT !.content = content, !.wire = wire]
<1>4. mode' = mode /\ out_vars' = out_vars /\ global_wire_id' = global_wire_id
  BY <1>1 DEF Operation
<1>5. CASE Stop("threw")
  <2>1. /\ status' = "threw" /\ wire_id_to_metadata' = wire_id_to_metadata /\ pb' = pb
        /\ ctxts' = ctxts
    BY <1>5 DEF Stop
  <2>2. /\ kind' = kind /\ finalize' = finalize /\ phase' = phase /\ pc' = pc /\ program' = program
        /\ output' = output
    BY <1>1 DEF clientVars
  <2>3. status' \in Statuses \ {"ok"} /\ <<phase', mode'>> \in Phases /\ phase' = "start" /\ phase' # "generate"
    BY <1>1, <1>3, <1>4, <2>1, <2>2 DEF Statuses
  <2>4. global_wire_id' \in Nat /\ pc' \in Nat /\ IsSeq(program') /\ output' \in 0 .. Len(ctxts)
    BY <1>3, <1>4, <2>2
  <2> QED
    BY <1>1, <1>4, <2>1, <2>2, <2>3, <2>4, Stopped
<1>6. CASE ~Stop("threw")
  <2>1. /\ ctxts' = Append(ctxts, e) /\ wire_id_to_metadata' = wire_id_to_metadata /\ pb' = pb
        /\ status' = status
    BY <1>1, <1>2, <1>6 DEF Operation
  <2>2. IsObject(e)
    <3> HIDE DEF wire, content
    <3> QED
      BY <1>3, ResultSet DEF Holds
  <2> HIDE DEF e
  <2>3. ObjectsOK(Habit.inputs, Habit.contents, ctxts') /\ Len(ctxts') = Len(ctxts) + 1
    <3>1. Extended(ctxts, e, ctxts')
      BY <2>1 DEF Extended
    <3> QED
      BY <1>3, <2>2, <3>1, ObjectAppended
  <2>4. Len(ctxts') >= Len(ctxts) /\ global_wire_id' \in Nat
    BY <1>3, <1>4, <2>3
  <2> QED
    BY <1>1, <1>4, <2>1, <2>3, <2>4, EvaluateInv
<1> QED
  BY <1>5, <1>6

\* Generation starts with the inputs and an empty protoboard.
LEMMA StartGenerationInv ==
  ASSUME Inv, StartGeneration
  PROVE  Inv'
<1> DEFINE N == Habit.inputs
           o == SubSeq(ctxts, 1, N)
<1>1. /\ kind \in DOMAIN Kinds /\ finalize \in Habit.finalizations /\ Control
      /\ ObjectsOK(N, Habit.contents, ctxts) /\ N \in Nat
  BY InvFacts
<1>2. /\ kind' = kind /\ finalize' = finalize /\ ctxts' = o /\ program' = <<>> /\ pc' = 0
      /\ output' = 0 /\ out_vars' = <<>> /\ phase' = "generate" /\ mode' = "CONSTRAINT_GENERATION"
      /\ global_wire_id' = 0 /\ pb' = EmptyBoard /\ wire_id_to_metadata' = wire_id_to_metadata
      /\ status' = status /\ status = "ok"
      /\ phase \in {"start", "finished"} /\ (phase = "finished" => ~Habit.loop)
  BY DEF StartGeneration, SetMode
<1>3. IsSeq(o) /\ Len(o) = N /\ \A k \in 1 .. N : o[k] = ctxts[k]
  BY <1>1, Cut DEF ObjectsOK
<1> HIDE DEF o, N
<1>4. ObjectsOK(N, Habit.contents, ctxts')
  <2>1. Len(ctxts) \in Nat /\ Len(ctxts) >= N
    BY <1>1 DEF ObjectsOK, IsSeq
  <2>2. \A k \in 1 .. N : k \in 1 .. Len(ctxts)
    BY <1>1, <2>1
  <2>3. \A k \in 1 .. N : IsObject(o[k]) /\ o[k].content \in Habit.contents
    BY <1>1, <1>3, <2>2 DEF ObjectsOK
  <2> QED
    BY <1>1, <1>2, <1>3, <2>3 DEF ObjectsOK
<1>5. IsBoard(EmptyBoard, 0) /\ NumVariables(EmptyBoard) = 0
  BY EmptyIsBoard, BoardSize
<1>6. BoardOK(pb', out_vars')
  <2>1. <<>> \in Seq([Limbs -> 1 .. 0])
    OBVIOUS
  <2> QED
    BY <1>2, <1>5, <2>1 DEF BoardOK
<1>7. PrimaryAt(pb', phase' = "generate" /\ OnlyDeclarations')
  <2>1. EmptyBoard.public = {} /\ EmptyBoard.inputs = 0 /\ 1 .. 0 = {}
    BY DEF EmptyBoard
  <2> QED
    BY <1>2, <1>5, <2>1 DEF PrimaryAt
<1>8. Len(<<>>) = 0 /\ Ops(<<>>, 0) = 0 /\ IsSeq(<<>>) /\ Len(pb'.val) = 0
  <2>1. Len(EmptyBoard.val) = 0
    BY DEF EmptyBoard
  <2> QED
    BY <1>2, <2>1, OpsCount DEF IsSeq
<1>9. CallsOK(N, <<>>, o, wire_id_to_metadata, 0)
  BY <1>8 DEF CallsOK
<1>10. MetasOK(N, <<>>, o, 0)
  BY <1>3, <1>8 DEF MetasOK, Usable, IsDeclared, DeclaredBefore
<1>11. CallsFrom(N, <<>>, o, 0)
  BY <1>1, <1>3, <1>8 DEF CallsFrom, Made, Pubs
<1>12. Habit.loop => LoopFiled(<<>>, wire_id_to_metadata)
  <2> SUFFICES ASSUME Habit.loop PROVE LoopFiled(<<>>, wire_id_to_metadata)
    OBVIOUS
  <2>1. wire_id_to_metadata = <<>>
    BY <1>1, <1>2 DEF Control
  <2>2. DOMAIN wire_id_to_metadata = {}
    BY <2>1
  <2> QED
    BY <2>2 DEF LoopFiled
<1>13. RunAt(N, Habit.loop, finalize, phase', program', ctxts', wire_id_to_metadata', Len(pb'.val),
             global_wire_id', replayed', pc', output')
  BY <1>2, <1>8, <1>9, <1>10, <1>11, <1>12 DEF RunAt
<1>14. status' \in Statuses /\ <<phase', mode'>> \in Phases /\ global_wire_id' \in Nat /\ pc' \in Nat
       /\ IsSeq(program') /\ phase' # "start"
  BY <1>1, <1>2, <1>8 DEF Statuses, Phases
<1>15. output' \in 0 .. Len(ctxts')
  BY <1>1, <1>2, <1>3
<1> QED
  BY <1>1, <1>2, <1>4, <1>6, <1>7, <1>13, <1>14, <1>15, Assemble DEF N

\* What the invariant says in generation.
LEMMA GenerateFacts ==
  ASSUME Inv, phase \in {"generate", "finalized"}, status = "ok"
  PROVE  /\ mode = "CONSTRAINT_GENERATION"
         /\ CallsOK(Habit.inputs, program, ctxts, wire_id_to_metadata, NumVariables(pb))
         /\ MetasOK(Habit.inputs, program, ctxts, NumVariables(pb))
         /\ CallsFrom(Habit.inputs, program, ctxts, global_wire_id) /\ pc = 0
         /\ Habit.loop => LoopFiled(program, wire_id_to_metadata)
<1>1. Run
  BY DEF Inv
<1>2. mode = "CONSTRAINT_GENERATION"
  BY InvFacts, PhaseMode
<1> QED
  BY <1>1, <1>2 DEF Run, RunAt

\* A declaration adds a call, variables and metadata.
LEMMA GenPublicInputInv ==
  ASSUME Inv, NEW k \in Inputs, GenPublicInput(k)
  PROVE  Inv'
<1> DEFINE N == Habit.inputs
           n == NumVariables(pb)
           x == ctxts[k].content
           gen == PublicInputConstraint(x)
           c == Len(x) * NumLimbs
           wire == PublicWire(global_wire_id)
           e == [ctxts[k] EXCEPT !.wire = wire, !.constraint = gen.meta]
           q == Append(program, [op |-> "Public", args |-> <<k>>])
<1>1. /\ phase = "generate" /\ k \notin Declared /\ PublicInput(k) /\ (Habit.publicFirst => OnlyDeclarations)
      /\ program' = q /\ output' = output
      /\ kind' = kind /\ finalize' = finalize /\ pc' = pc /\ replayed' = replayed /\ phase' = phase
  BY DEF GenPublicInput, Generating, Called
<1>2. status = "ok"
  BY <1>1 DEF PublicInput
<1>3. /\ kind \in DOMAIN Kinds /\ finalize \in Habit.finalizations /\ status \in Statuses
      /\ <<phase, mode>> \in Phases /\ global_wire_id \in Nat /\ pc \in Nat
      /\ IsSeq(program) /\ output \in 0 .. Len(ctxts)
      /\ ObjectsOK(N, Habit.contents, ctxts) /\ BoardOK(pb, out_vars)
      /\ IsBoard(pb, n) /\ n \in Nat /\ N \in Nat /\ Inputs = 1 .. N
      /\ k \in 1 .. Len(ctxts) /\ IsObject(ctxts[k]) /\ Len(x) \in Nat /\ Len(ctxts) \in Nat
      /\ DOMAIN ctxts = 1 .. Len(ctxts)
  BY InvFacts
<1>4. /\ mode = "CONSTRAINT_GENERATION"
      /\ CallsOK(N, program, ctxts, wire_id_to_metadata, n)
      /\ MetasOK(N, program, ctxts, n)
      /\ CallsFrom(N, program, ctxts, global_wire_id) /\ pc = 0
      /\ Habit.loop => LoopFiled(program, wire_id_to_metadata)
  BY <1>1, <1>2, GenerateFacts
<1>5. /\ ctxts' = [ctxts EXCEPT ![k].wire = wire, ![k].constraint = gen.meta]
      /\ pb' = gen.board /\ File(wire, gen.meta.witness) /\ status' = status
      /\ global_wire_id' = global_wire_id + 1 /\ mode' = mode /\ out_vars' = out_vars
  BY <1>1, <1>4 DEF PublicInput, PublicWire
<1>6. Holds(e, ctxts[k].content, wire, gen.meta)
  <2> HIDE DEF wire, gen
  <2> QED
    BY <1>3, ConstraintSet
<1>7. Updated(ctxts, k, e, ctxts')
  <2> HIDE DEF wire, gen
  <2> QED
    BY <1>3, <1>5 DEF Updated
<1>8. /\ c \in Nat /\ n + c \in Nat /\ IsBoard(gen.board, n + c)
      /\ gen.board.inputs = pb.inputs + c /\ gen.board.public = pb.public \cup ((n + 1) .. (n + c))
      /\ IsMeta(gen.meta, n + c)
  <2>1. IsBoard(pb, n) /\ Len(x) \in Nat
    BY <1>3
  <2> HIDE DEF n, x
  <2> QED
    BY <2>1, PublicBoard
<1> HIDE DEF e, gen, c, wire, n, N, q
<1>9. /\ ObjectsOK(N, Habit.contents, ctxts') /\ Len(ctxts') = Len(ctxts) /\ ctxts'[k] = e
      /\ \A j \in 1 .. Len(ctxts) : j # k => ctxts'[j] = ctxts[j]
  BY <1>3, <1>6, <1>7, ObjectChanged DEF Holds
<1>10. ~IsDeclared(program, k)
  BY <1>1, <1>3, DeclaredIs
<1>11. Filed(wire_id_to_metadata, wire_id_to_metadata', wire)
  <2> HIDE DEF gen
  <2> QED
    BY <1>5 DEF File, Filed
<1>12. Len(pb'.val) = n + c /\ n <= n + c /\ n \in Int /\ n + c \in Int
  <2>1. NumVariables(pb') = n + c
    BY <1>5, <1>8, BoardSize
  <2> QED
    BY <1>3, <1>8, <2>1 DEF NumVariables
<1>13. /\ CallsOK(N, q, ctxts', wire_id_to_metadata', n + c)
       /\ CallsFrom(N, q, ctxts', global_wire_id + 1)
       /\ LoopFiled(program, wire_id_to_metadata) => LoopFiled(q, wire_id_to_metadata')
  <2>1. IsSeq(ctxts') /\ ctxts'[k].wire = PublicWire(global_wire_id) /\ k \in 1 .. N
    BY <1>3, <1>6, <1>9 DEF ObjectsOK, Holds, wire
  <2>2. Filed(wire_id_to_metadata, wire_id_to_metadata', PublicWire(global_wire_id))
    BY <1>11 DEF wire
  <2> QED
    BY <1>3, <1>4, <1>9, <1>10, <1>12, <2>1, <2>2, DeclareCall DEF q
<1>14. AppendsCall(program, q, [op |-> "Public", args |-> <<k>>])
  BY <1>3, CallAppended DEF q
<1>15. MetasOK(N, q, ctxts', n + c)
  <2> SUFFICES ASSUME NEW j \in 1 .. Len(ctxts), Usable(N, q, j) PROVE IsMeta(ctxts'[j].constraint, n + c)
    BY <1>9 DEF MetasOK
  <2>1. CASE j = k
    BY <1>6, <1>8, <1>9, <2>1 DEF Holds
  <2>2. CASE j # k
    <3>1. IsDeclared(q, j) => IsDeclared(program, j)
      BY <1>14, <2>2 DEF AppendsCall
    <3>2. Usable(N, program, j)
      BY <3>1 DEF Usable
    <3>3. IsMeta(ctxts[j].constraint, n)
      BY <1>4, <3>2 DEF MetasOK
    <3>4. IsMeta(ctxts[j].constraint, n + c)
      BY <1>12, <3>3, MetaGrow
    <3> QED
      BY <1>9, <2>2, <3>4
  <2> QED
    BY <2>1, <2>2
<1>16. RunAt(N, Habit.loop, finalize, phase', program', ctxts', wire_id_to_metadata', Len(pb'.val),
             global_wire_id', replayed', pc', output')
  BY <1>1, <1>4, <1>5, <1>12, <1>13, <1>15 DEF RunAt
<1>17. BoardOK(pb', out_vars')
  <2>1. NumVariables(pb') = n + c
    BY <1>12 DEF NumVariables
  <2>2. out_vars \in Seq([Limbs -> 1 .. (n + c)])
    BY <1>3, <1>8, <1>12, BoardGrow DEF n
  <2> QED
    BY <1>5, <1>8, <2>1, <2>2 DEF BoardOK
<1>18. Habit.publicFirst => PrimaryAt(pb', phase' = "generate" /\ OnlyDeclarations')
  <2> SUFFICES ASSUME Habit.publicFirst PROVE PrimaryAt(pb', TRUE)
    BY DEF PrimaryAt
  <2>1. pb.public = 1 .. pb.inputs /\ n = pb.inputs
    BY <1>1 DEF Inv, PrimaryFirst, PrimaryAt, n
  <2>2. pb'.public = 1 .. n \cup ((n + 1) .. (n + c)) /\ pb'.inputs = n + c
    BY <1>5, <1>8, <2>1
  <2>3. 1 .. n \cup ((n + 1) .. (n + c)) = 1 .. (n + c)
    BY <1>3, <1>8
  <2>4. NumVariables(pb') = n + c
    BY <1>12 DEF NumVariables
  <2> QED
    BY <2>2, <2>3, <2>4 DEF PrimaryAt
<1>19. /\ status' \in Statuses /\ <<phase', mode'>> \in Phases /\ global_wire_id' \in Nat /\ pc' \in Nat
       /\ output' \in 0 .. Len(ctxts') /\ phase' # "start"
  BY <1>1, <1>3, <1>5, <1>9
<1>20. IsSeq(program')
  BY <1>1, <1>14 DEF AppendsCall
<1> QED
  BY <1>1, <1>3, <1>9, <1>16, <1>17, <1>18, <1>19, <1>20, Assemble DEF N

\* An operation adds a call, an object, and what its gadgets need; or the
\* program stops.
LEMMA GenOperationInv ==
  ASSUME Inv, NEW op \in Habit.operations, NEW k \in DOMAIN ctxts, NEW l \in DOMAIN ctxts,
         GenOperation(op, k, l)
  PROVE  Inv'
<1> DEFINE N == Habit.inputs
           n == NumVariables(pb)
           m1 == ctxts[k].constraint
           m2 == ctxts[l].constraint
           gen == Constraint(op, m1, m2)
           wire == WireId(op, k, l)
           content == FheEval(op, ctxts[k].content, ctxts[l].content)
           f == [ctxts[k] EXCEPT !.content = content, !.wire = wire]
           e == [f EXCEPT !.constraint = gen.meta]
           q == Append(program, [op |-> op, args |-> <<k, l>>])
<1>1. /\ phase = "generate" /\ (op = "Square" => k = l) /\ UpToDate(k) /\ UpToDate(l)
      /\ Operation(op, k, l)
      /\ program' = q /\ output' = output
      /\ kind' = kind /\ finalize' = finalize /\ pc' = pc /\ replayed' = replayed /\ phase' = phase
  BY DEF GenOperation, Generating, Called
<1>2. status = "ok" /\ mode' = mode /\ global_wire_id' = global_wire_id /\ out_vars' = out_vars
  BY <1>1 DEF Operation
<1>3. /\ kind \in DOMAIN Kinds /\ finalize \in Habit.finalizations /\ status \in Statuses
      /\ <<phase, mode>> \in Phases /\ global_wire_id \in Nat /\ pc \in Nat
      /\ IsSeq(program) /\ output \in 0 .. Len(ctxts)
      /\ ObjectsOK(N, Habit.contents, ctxts) /\ BoardOK(pb, out_vars)
      /\ IsBoard(pb, n) /\ n \in Nat /\ N \in Nat /\ Inputs = 1 .. N
      /\ k \in 1 .. Len(ctxts) /\ l \in 1 .. Len(ctxts) /\ IsObject(ctxts[k]) /\ Len(ctxts) \in Nat
      /\ Len(ctxts) >= N /\ DOMAIN ctxts = 1 .. Len(ctxts)
  BY InvFacts
<1>4. /\ mode = "CONSTRAINT_GENERATION"
      /\ CallsOK(N, program, ctxts, wire_id_to_metadata, n)
      /\ MetasOK(N, program, ctxts, n)
      /\ CallsFrom(N, program, ctxts, global_wire_id) /\ pc = 0
      /\ Habit.loop => LoopFiled(program, wire_id_to_metadata)
  BY <1>1, <1>2, GenerateFacts
<1>5. op \in Linear \cup Quadratic
  BY <1>3, HabitFacts
<1>6. AppendsCall(program, q, [op |-> op, args |-> <<k, l>>])
  BY <1>3, CallAppended
<1>7. OnlyDeclarations' => OnlyDeclarations /\ op = "Public"
  <2> DEFINE h == [op |-> op, args |-> <<k, l>>]
  <2>1. program' = Append(program, h) /\ h.op = op
    BY <1>1
  <2> HIDE DEF h
  <2>2. (\A m \in DOMAIN Append(program, h) : Append(program, h)[m].op = "Public") =>
          h.op = "Public" /\ \A m \in DOMAIN program : program[m].op = "Public"
    BY <1>3, OnlyAppended
  <2> HIDE DEF q
  <2> QED
    BY <2>1, <2>2 DEF OnlyDeclarations
<1>8. op # "Public"
  BY <1>5, WiresApart
<1>9. IsSeq(program')
  BY <1>1, <1>6 DEF AppendsCall
<1>10. CASE Stop("threw") \/ Stop("aborted")
  <2>1. /\ status' \in Statuses \ {"ok"} /\ wire_id_to_metadata' = wire_id_to_metadata /\ pb' = pb
        /\ ctxts' = ctxts
    BY <1>10 DEF Stop, Statuses
  <2>2. /\ <<phase', mode'>> \in Phases /\ phase' # "start" /\ (phase' = "generate" => phase = "generate")
        /\ global_wire_id' \in Nat /\ pc' \in Nat /\ output' \in 0 .. Len(ctxts)
    BY <1>1, <1>2, <1>3
  <2> QED
    BY <1>1, <1>2, <1>7, <1>9, <2>1, <2>2, Stopped
<1>11. CASE ~(Stop("threw") \/ Stop("aborted"))
  <2>1. /\ ctxts[k].wire # None /\ ctxts[l].wire # None
        /\ m1 # None /\ m2 # None /\ OperandsFit(op, m1, m2)
        /\ ctxts' = Append(ctxts, e) /\ pb' = gen.board /\ File(wire, gen.meta.witness)
        /\ status' = status
    BY <1>1, <1>4, <1>11 DEF Operation
  <2>2. Usable(N, program, k) /\ Usable(N, program, l)
    <3>1. \A j : UpToDate(j) /\ ctxts[j].constraint # None => Usable(N, program, j)
      BY <1>3, DeclaredIs DEF UpToDate, Usable
    <3> QED
      BY <1>1, <2>1, <3>1
  <2>3. IsMeta(m1, n) /\ IsMeta(m2, n)
    BY <1>3, <1>4, <2>2 DEF MetasOK
  <2>4. Holds(e, content, wire, gen.meta)
    <3> HIDE DEF content, wire, gen
    <3> QED
      BY <1>3, ResultSet
  <2>5. Extended(ctxts, e, ctxts')
    BY <2>1 DEF Extended
  <2>6. PICK c \in Nat : /\ IsBoard(gen.board, n + c)
                         /\ gen.board.inputs = pb.inputs /\ gen.board.public = pb.public
                         /\ IsMeta(gen.meta, n + c)
                         /\ gen.meta.witness.gadgets \in Seq(Gadgets(n + c))
    <3> HIDE DEF m1, m2, n
    <3> QED
      BY <1>3, <1>5, <2>1, <2>3, ConstraintIs
  <2>7. wire = OpWire(op, ctxts[k].wire, ctxts[l].wire)
    BY DEF WireId, OpWire
  <2>8. Filed(wire_id_to_metadata, wire_id_to_metadata', wire)
        /\ wire_id_to_metadata'[wire] = gen.meta.witness
    <3> HIDE DEF gen, wire
    <3> QED
      BY <2>1 DEF File, Filed
  <2> HIDE DEF e, gen, wire, n, N, q, content, f, m1, m2
  <2>9. FiledOK(wire_id_to_metadata', wire, n + c)
    BY <2>6, <2>8 DEF FiledOK
  <2>10. /\ ObjectsOK(N, Habit.contents, ctxts') /\ Len(ctxts') = Len(ctxts) + 1
         /\ ctxts'[Len(ctxts) + 1] = e /\ \A j \in 1 .. Len(ctxts) : ctxts'[j] = ctxts[j]
    BY <1>3, <2>4, <2>5, ObjectAppended DEF Holds
  <2>11. n <= n + c /\ n \in Int /\ n + c \in Int /\ n + c \in Nat
    BY <1>3
  <2>12. Len(pb'.val) = n + c
    <3>1. NumVariables(pb') = n + c
      BY <2>1, <2>6, BoardSize
    <3> QED
      BY <3>1 DEF NumVariables
  <2>13. /\ CallsOK(N, q, ctxts', wire_id_to_metadata', n + c)
         /\ CallsFrom(N, q, ctxts', global_wire_id)
         /\ LoopFiled(program, wire_id_to_metadata) => LoopFiled(q, wire_id_to_metadata')
    <3>1. ctxts' = Append(ctxts, e) /\ e.wire = wire
      BY <2>1, <2>4 DEF Holds
    <3>2. /\ e.wire = OpWire(op, ctxts[k].wire, ctxts[l].wire)
          /\ Filed(wire_id_to_metadata, wire_id_to_metadata', e.wire)
          /\ FiledOK(wire_id_to_metadata', e.wire, n + c)
      BY <2>7, <2>8, <2>9, <3>1
    <3> DEFINE s == Append(ctxts, e)
    <3>3. /\ CallsOK(N, q, s, wire_id_to_metadata', n + c) /\ CallsFrom(N, q, s, global_wire_id)
          /\ LoopFiled(program, wire_id_to_metadata) => LoopFiled(q, wire_id_to_metadata')
      <4> DEFINE w == wire_id_to_metadata
                 x == wire_id_to_metadata'
                 nx == n + c
      <4>1. /\ CallsOK(N, program, ctxts, w, n) /\ CallsFrom(N, program, ctxts, global_wire_id)
            /\ k \in 1 .. Len(ctxts) /\ l \in 1 .. Len(ctxts) /\ op = "Square" => k = l
            /\ N \in Nat /\ n \in Int /\ nx \in Int /\ n <= nx
        BY <1>1, <1>3, <1>4, <2>11
      <4>2. /\ Usable(N, program, k) /\ Usable(N, program, l)
            /\ ctxts[k].wire # None /\ ctxts[l].wire # None
        BY <2>1, <2>2
      <4>3. Filed(w, x, e.wire) /\ FiledOK(x, e.wire, nx)
        BY <3>2
      <4> HIDE DEF w, x, nx
      <4> HIDE DEF s
      <4>5. e.wire = OpWire(op, ctxts[k].wire, ctxts[l].wire)
        BY <3>2
      <4>4. /\ CallsOK(N, Append(program, [op |-> op, args |-> <<k, l>>]), Append(ctxts, e), x, nx)
            /\ CallsFrom(N, Append(program, [op |-> op, args |-> <<k, l>>]), Append(ctxts, e), global_wire_id)
            /\ LoopFiled(program, w) => LoopFiled(Append(program, [op |-> op, args |-> <<k, l>>]), x)
        BY <1>5, <4>1, <4>2, <4>3, <4>5, OperateCall
      <4> USE DEF s
      <4> QED
        BY <4>4 DEF q, w, x, nx
    <3> QED
      BY <3>1, <3>3
  <2>14. MetasOK(N, q, ctxts', n + c)
    <3> SUFFICES ASSUME NEW j \in 1 .. (Len(ctxts) + 1), Usable(N, q, j)
                 PROVE  IsMeta(ctxts'[j].constraint, n + c)
      BY <2>10 DEF MetasOK
    <3>1. CASE j = Len(ctxts) + 1
      BY <2>4, <2>6, <2>10, <3>1 DEF Holds
    <3>2. CASE j # Len(ctxts) + 1
      <4>1. j \in 1 .. Len(ctxts)
        BY <1>3, <3>2
      <4>2. IsDeclared(q, j) => IsDeclared(program, j)
        BY <1>6, <1>8 DEF AppendsCall, q
      <4>3. Usable(N, program, j)
        BY <4>2 DEF Usable
      <4>4. IsMeta(ctxts[j].constraint, n)
        BY <1>4, <4>1, <4>3 DEF MetasOK
      <4>5. IsMeta(ctxts[j].constraint, n + c)
        BY <2>11, <4>4, MetaGrow
      <4> QED
        BY <2>10, <4>1, <4>5
    <3> QED
      BY <3>1, <3>2
  <2>15. RunAt(N, Habit.loop, finalize, phase', program', ctxts', wire_id_to_metadata', Len(pb'.val),
               global_wire_id', replayed', pc', output')
    BY <1>1, <1>2, <1>4, <2>12, <2>13, <2>14 DEF RunAt
  <2>16. BoardOK(pb', out_vars')
    <3>1. NumVariables(pb') = n + c
      BY <2>12 DEF NumVariables
    <3>2. out_vars \in Seq([Limbs -> 1 .. (n + c)])
      BY <1>3, <2>11, BoardGrow DEF n
    <3> QED
      BY <1>2, <2>1, <2>6, <3>1, <3>2 DEF BoardOK
  <2>17. Habit.publicFirst => PrimaryAt(pb', phase' = "generate" /\ OnlyDeclarations')
    BY <1>7, <1>8, <2>1, <2>6 DEF Inv, PrimaryFirst, PrimaryAt
  <2>18. /\ status' \in Statuses /\ <<phase', mode'>> \in Phases /\ global_wire_id' \in Nat /\ pc' \in Nat
         /\ output' \in 0 .. Len(ctxts') /\ phase' # "start"
    BY <1>1, <1>2, <1>3, <2>1, <2>10
  <2> QED
    BY <1>1, <1>3, <1>9, <2>10, <2>15, <2>16, <2>17, <2>18, Assemble DEF N
<1> QED
  BY <1>10, <1>11

\* A declared output adds variables only.
LEMMA GenPublicOutputInv ==
  ASSUME Inv, NEW i \in {2, 3}, GenPublicOutput(i)
  PROVE  Inv'
<1> DEFINE N == Habit.inputs
           n == NumVariables(pb)
           x == Matrix(i, LAMBDA a, b : 0)
           gen == PublicInputConstraint(x)
           c == Len(x) * NumLimbs
<1>1. /\ phase = "generate" /\ (Habit.publicFirst => OnlyDeclarations)
      /\ ConstrainPublicOutput(x) /\ UNCHANGED clientVars
  BY DEF GenPublicOutput
<1>2. /\ status = "ok" /\ pb' = gen.board
      /\ out_vars' = [a \in 1 .. Len(x) |-> [b \in Limbs |-> VariableAt(n, a, b)]]
      /\ mode' = mode /\ global_wire_id' = global_wire_id
      /\ wire_id_to_metadata' = wire_id_to_metadata /\ ctxts' = ctxts /\ status' = status
  BY <1>1 DEF ConstrainPublicOutput, Matrix
<1>3. /\ kind \in DOMAIN Kinds /\ finalize \in Habit.finalizations /\ status \in Statuses
      /\ <<phase, mode>> \in Phases /\ global_wire_id \in Nat /\ pc \in Nat
      /\ IsSeq(program) /\ output \in 0 .. Len(ctxts)
      /\ ObjectsOK(N, Habit.contents, ctxts) /\ BoardOK(pb, out_vars)
      /\ IsBoard(pb, n) /\ n \in Nat /\ N \in Nat
  BY InvFacts
<1>4. /\ CallsOK(N, program, ctxts, wire_id_to_metadata, n)
      /\ MetasOK(N, program, ctxts, n)
      /\ CallsFrom(N, program, ctxts, global_wire_id) /\ pc = 0
      /\ Habit.loop => LoopFiled(program, wire_id_to_metadata)
  BY <1>1, <1>2, GenerateFacts
<1>5. Len(x) = i /\ i \in Nat
  <2>1. x = [a \in 1 .. i |-> [b \in Limbs |-> 0]]
    BY DEF Matrix
  <2> HIDE DEF x
  <2>2. DOMAIN x = 1 .. i /\ x = [a \in 1 .. i |-> x[a]]
    BY <2>1
  <2>3. i \in Nat
    OBVIOUS
  <2> QED
    BY <2>2, <2>3, SeqWhen
<1> HIDE DEF x
<1>6. /\ c \in Nat /\ n + c \in Nat /\ IsBoard(gen.board, n + c)
      /\ gen.board.inputs = pb.inputs + c /\ gen.board.public = pb.public \cup ((n + 1) .. (n + c))
  BY <1>3, <1>5, PublicBoard
<1>7. \A a \in 1 .. Len(x), b \in Limbs : VariableAt(n, a, b) \in 1 .. (n + c)
  <2>1. \A a \in 1 .. Len(x), b \in Limbs : VariableAt(n, a, b) \in (n + 1) .. (n + c)
    BY <1>3, <1>5, VariablesApart
  <2> HIDE DEF c
  <2>2. \A v \in (n + 1) .. (n + c) : v \in 1 .. (n + c)
    BY <1>3, <1>6
  <2> QED
    BY <2>1, <2>2
<1> HIDE DEF gen, c, n, N
<1>8. n <= n + c /\ n \in Int /\ n + c \in Int
  BY <1>3, <1>6
<1>9. NumVariables(pb') = n + c /\ Len(pb'.val) = n + c
  <2>1. NumVariables(pb') = n + c
    BY <1>2, <1>6, BoardSize
  <2> QED
    BY <2>1 DEF NumVariables
<1>10. BoardOK(pb', out_vars')
  <2> DEFINE F == [Limbs -> 1 .. (n + c)]
             l == Len(x)
  <2>1. out_vars' \in [1 .. l -> F]
    BY <1>2, <1>7
  <2>2. l \in Nat
    BY <1>5
  <2> HIDE DEF F, l
  <2>3. out_vars' \in Seq(F)
    BY <2>1, <2>2
  <2> QED
    BY <1>2, <1>6, <1>9, <2>3 DEF BoardOK, F
<1>11. /\ kind' = kind /\ finalize' = finalize /\ phase' = phase /\ pc' = pc /\ program' = program
       /\ output' = output /\ replayed' = replayed
  BY <1>1 DEF clientVars
<1>12. CallsOK(N, program, ctxts, wire_id_to_metadata, n + c)
  <2>1. \A k \in 1 .. Made(N, program, Len(program)) : Usable(N, program, k) => SameWire(ctxts, ctxts, k)
    BY DEF SameWire
  <2> QED
    BY <1>3, <1>4, <1>8, <2>1, SameCalls
<1>13. MetasOK(N, program, ctxts, n + c)
  BY <1>4, <1>8, MetasGrow
<1>14. RunAt(N, Habit.loop, finalize, phase', program', ctxts', wire_id_to_metadata', Len(pb'.val),
             global_wire_id', replayed', pc', output')
  BY <1>1, <1>2, <1>4, <1>9, <1>11, <1>12, <1>13 DEF RunAt
<1>15. Habit.publicFirst => PrimaryAt(pb', phase' = "generate" /\ OnlyDeclarations')
  <2> SUFFICES ASSUME Habit.publicFirst PROVE PrimaryAt(pb', TRUE)
    BY DEF PrimaryAt
  <2>1. pb.public = 1 .. pb.inputs /\ n = pb.inputs
    BY <1>1 DEF Inv, PrimaryFirst, PrimaryAt, n
  <2>2. pb'.public = 1 .. n \cup ((n + 1) .. (n + c)) /\ pb'.inputs = n + c
    BY <1>2, <1>6, <2>1
  <2>3. 1 .. n \cup ((n + 1) .. (n + c)) = 1 .. (n + c)
    BY <1>3, <1>6
  <2> QED
    BY <1>9, <2>2, <2>3 DEF PrimaryAt
<1>16. /\ status' \in Statuses /\ <<phase', mode'>> \in Phases /\ global_wire_id' \in Nat /\ pc' \in Nat
       /\ IsSeq(program') /\ output' \in 0 .. Len(ctxts') /\ phase' # "start"
       /\ ObjectsOK(N, Habit.contents, ctxts')
  BY <1>1, <1>2, <1>3, <1>11
<1> QED
  BY <1>1, <1>3, <1>10, <1>11, <1>14, <1>15, <1>16, Assemble DEF N

\* What the invariant says in the replay.
LEMMA ReplayFacts ==
  ASSUME Inv, phase \in {"replay", "finished"}, status = "ok"
  PROVE  /\ mode = "WITNESS_GENERATION"
         /\ CallsOK(Habit.inputs, program, ctxts, wire_id_to_metadata, NumVariables(pb))
         /\ MetasOK(Habit.inputs, program, ctxts, NumVariables(pb))
         /\ ReplaysFrom(Habit.inputs, program, ctxts, replayed, pc, global_wire_id, Habit.loop)
         /\ phase = "finished" => pc = Len(program)
         /\ finalize \in {"late", "replayed"} => OutputOK(Habit.inputs, program, ctxts, output)
         /\ Habit.loop => LoopFiled(program, wire_id_to_metadata)
<1>1. Run
  BY DEF Inv
<1>2. mode = "WITNESS_GENERATION"
  BY InvFacts, PhaseMode
<1> QED
  BY <1>1, <1>2 DEF Run, RunAt

\* Finalizing an output adds quotients and constraints.
LEMMA Finalized ==
  ASSUME NEW m, IsMeta(m, NumVariables(pb)), BoardOK(pb, out_vars),
         NumPolys(m) >= Len(out_vars), pb' = OutputConstraints(m), out_vars' = out_vars
  PROVE  /\ BoardOK(pb', out_vars') /\ NumVariables(pb) <= Len(pb'.val) /\ Len(pb'.val) \in Nat
         /\ pb'.inputs = pb.inputs /\ pb'.public = pb.public
<1> DEFINE n == NumVariables(pb)
           k == Cardinality(OutPending(m))
<1>1. IsBoard(pb, n) /\ n \in Nat /\ out_vars \in Seq([Limbs -> 1 .. n])
  BY BoardSize DEF BoardOK
<1> HIDE DEF n
<1>2. /\ k \in Nat /\ n + k \in Nat /\ IsBoard(pb', n + k)
      /\ pb'.inputs = pb.inputs /\ pb'.public = pb.public
  BY <1>1, OutputBoard DEF n
<1> HIDE DEF k
<1>3. NumVariables(pb') = n + k /\ Len(pb'.val) = n + k
  <2>1. NumVariables(pb') = n + k
    BY <1>2, BoardSize
  <2> QED
    BY <2>1 DEF NumVariables
<1>4. n <= n + k
  BY <1>1, <1>2
<1>5. out_vars \in Seq([Limbs -> 1 .. (n + k)])
  BY <1>2, <1>4, BoardGrow DEF n
<1>6. BoardOK(pb', out_vars')
  BY <1>2, <1>3, <1>5 DEF BoardOK
<1> QED
  BY <1>2, <1>3, <1>4, <1>6 DEF n

\* The calls and the metadata stay right then.
LEMMA RunGrow ==
  ASSUME NEW N \in Nat, NEW p, IsSeq(p), NEW o, NEW w, NEW nv \in Int, NEW nx \in Int, nv <= nx,
         CallsOK(N, p, o, w, nv), MetasOK(N, p, o, nv)
  PROVE  CallsOK(N, p, o, w, nx) /\ MetasOK(N, p, o, nx)
<1>1. \A k \in 1 .. Made(N, p, Len(p)) : Usable(N, p, k) => SameWire(o, o, k)
  BY DEF SameWire
<1> QED
  BY <1>1, SameCalls, MetasGrow

\* At the end of generation.
LEMMA GenFinalizeInv ==
  ASSUME Inv, NEW k \in DOMAIN ctxts, GenFinalize(k)
  PROVE  Inv'
<1> DEFINE N == Habit.inputs
           n == NumVariables(pb)
           m == ctxts[k].constraint
<1>1. /\ phase = "generate" /\ UpToDate(k) /\ FinalizeOutputConstraints(k) /\ output' = k
      /\ phase' = "finalized" /\ kind' = kind /\ finalize' = finalize /\ program' = program
      /\ pc' = pc /\ replayed' = replayed
  BY DEF GenFinalize
<1>2. status = "ok" /\ mode' = mode /\ global_wire_id' = global_wire_id /\ out_vars' = out_vars
  BY <1>1 DEF FinalizeOutputConstraints
<1>3. /\ kind \in DOMAIN Kinds /\ finalize \in Habit.finalizations /\ status \in Statuses
      /\ <<phase, mode>> \in Phases /\ global_wire_id \in Nat /\ pc \in Nat /\ IsSeq(program)
      /\ ObjectsOK(N, Habit.contents, ctxts) /\ BoardOK(pb, out_vars) /\ n \in Nat /\ N \in Nat
      /\ Inputs = 1 .. N /\ DOMAIN ctxts = 1 .. Len(ctxts) /\ Len(ctxts) \in Nat
  BY InvFacts
<1>4. /\ mode = "CONSTRAINT_GENERATION"
      /\ CallsOK(N, program, ctxts, wire_id_to_metadata, n)
      /\ MetasOK(N, program, ctxts, n)
      /\ CallsFrom(N, program, ctxts, global_wire_id) /\ pc = 0
      /\ Habit.loop => LoopFiled(program, wire_id_to_metadata)
  BY <1>1, <1>2, GenerateFacts
<1>5. k \in 0 .. Len(ctxts) /\ <<phase', mode'>> \in Phases
  BY <1>1, <1>2, <1>3, <1>4 DEF Phases
<1>6. CASE Stop("threw") \/ Stop("aborted") \/ Stop("undefined")
  <2>1. /\ status' \in Statuses \ {"ok"} /\ wire_id_to_metadata' = wire_id_to_metadata /\ pb' = pb
        /\ ctxts' = ctxts
    BY <1>6 DEF Stop, Statuses
  <2>2. phase' # "start" /\ phase' # "generate"
    BY <1>1
  <2> QED
    BY <1>1, <1>2, <1>3, <1>5, <2>1, <2>2, Stopped
<1>7. CASE ~(Stop("threw") \/ Stop("aborted") \/ Stop("undefined"))
  <2>1. /\ m # None /\ NumPolys(m) >= Len(out_vars) /\ pb' = OutputConstraints(m)
        /\ wire_id_to_metadata' = wire_id_to_metadata /\ ctxts' = ctxts /\ status' = status
    BY <1>1, <1>7 DEF FinalizeOutputConstraints
  <2>2. Usable(N, program, k)
    BY <1>1, <1>3, <2>1, DeclaredIs DEF UpToDate, Usable
  <2>3. IsMeta(m, n)
    BY <1>3, <1>4, <2>2 DEF MetasOK
  <2>4. /\ BoardOK(pb', out_vars') /\ n <= Len(pb'.val) /\ Len(pb'.val) \in Nat
        /\ pb'.inputs = pb.inputs /\ pb'.public = pb.public
    <3> HIDE DEF m
    <3> QED
      BY <1>2, <1>3, <2>1, <2>3, Finalized
  <2> HIDE DEF m, n, N
  <2>5. CallsOK(N, program, ctxts, wire_id_to_metadata, Len(pb'.val))
        /\ MetasOK(N, program, ctxts, Len(pb'.val))
    BY <1>3, <1>4, <2>4, RunGrow
  <2>6. RunAt(N, Habit.loop, finalize, phase', program', ctxts', wire_id_to_metadata', Len(pb'.val),
              global_wire_id', replayed', pc', output')
    BY <1>1, <1>2, <1>4, <2>1, <2>5 DEF RunAt
  <2>7. Habit.publicFirst => PrimaryAt(pb', phase' = "generate" /\ OnlyDeclarations')
    BY <1>1, <2>4 DEF Inv, PrimaryFirst, PrimaryAt
  <2>8. /\ phase' # "start" /\ status' \in Statuses /\ global_wire_id' \in Nat /\ pc' \in Nat
        /\ IsSeq(program') /\ output' \in 0 .. Len(ctxts') /\ ObjectsOK(N, Habit.contents, ctxts')
    BY <1>1, <1>2, <1>3, <1>5, <2>1
  <2> QED
    BY <1>1, <1>3, <1>5, <2>4, <2>6, <2>7, <2>8, Assemble DEF N
<1> QED
  BY <1>6, <1>7

\* Before its first call a replay has the inputs.
LEMMA ReplayStarts ==
  ASSUME NEW N \in Nat, NEW p, NEW o, NEW g, NEW loop,
         Len(p) \in Nat, Len(p) > 0, Len(o) >= Made(N, p, Len(p)), WireCount(p, 0, g, loop)
  PROVE  ReplaysFrom(N, p, o, [k \in 1 .. N |-> k], 0, g, loop)
<1> DEFINE r == [k \in 1 .. N |-> k]
<1>1. Made(N, p, 0) = N
  BY OpsCount DEF Made
<1>2. IsSeq(r) /\ Len(r) = N /\ \A k \in 1 .. N : r[k] = k
  BY SeqWhen
<1> HIDE DEF r
<1>3. Mirrors(N, p, o, r, 0)
  BY <1>1, <1>2 DEF Mirrors
<1>4. 0 \in 0 .. Len(p)
  OBVIOUS
<1>5. ReplaysFrom(N, p, o, r, 0, g, loop)
  BY <1>1, <1>2, <1>3, <1>4 DEF ReplaysFrom
<1> QED
  BY <1>5 DEF r

\* The replay starts with other contents of the inputs.
LEMMA StartReplayInv ==
  ASSUME Inv, StartReplay
  PROVE  Inv'
<1> DEFINE N == Habit.inputs
           n == NumVariables(pb)
           r == [k \in 1 .. N |-> k]
<1>1. /\ status = "ok" /\ phase \in {"generate", "finalized"} /\ program # <<>>
      /\ mode' = "WITNESS_GENERATION" /\ global_wire_id' = 0 /\ pb' = pb
      /\ wire_id_to_metadata' = wire_id_to_metadata /\ status' = status
      /\ phase' = "replay" /\ out_vars' = out_vars /\ kind' = kind /\ finalize' = finalize
      /\ program' = program /\ pc' = pc
  BY DEF StartReplay, SetMode
<1>2. /\ kind \in DOMAIN Kinds /\ finalize \in Habit.finalizations /\ status \in Statuses
      /\ pc \in Nat /\ IsSeq(program) /\ output \in 0 .. Len(ctxts)
      /\ ObjectsOK(N, Habit.contents, ctxts) /\ BoardOK(pb, out_vars) /\ n \in Nat /\ N \in Nat
      /\ Inputs = 1 .. N /\ DOMAIN ctxts = 1 .. Len(ctxts) /\ Len(ctxts) \in Nat /\ Len(ctxts) >= N
      /\ \A k \in 1 .. Len(ctxts) : IsObject(ctxts[k])
  BY <1>1, InvFacts
<1>3. /\ CallsOK(N, program, ctxts, wire_id_to_metadata, n)
      /\ MetasOK(N, program, ctxts, n)
      /\ CallsFrom(N, program, ctxts, global_wire_id) /\ pc = 0
      /\ Habit.loop => LoopFiled(program, wire_id_to_metadata)
  BY <1>1, GenerateFacts
<1>4. PICK c \in [1 .. N -> Habit.contents] :
        ctxts' = [k \in DOMAIN ctxts |-> IF k \in 1 .. N THEN [ctxts[k] EXCEPT !.content = c[k]] ELSE ctxts[k]]
  <2>1. \E c \in [Inputs -> Habit.contents] :
          ctxts' = [k \in DOMAIN ctxts |-> IF k \in Inputs THEN [ctxts[k] EXCEPT !.content = c[k]] ELSE ctxts[k]]
    BY DEF StartReplay
  <2> QED
    BY <1>2, <2>1, ZenonT(30)
<1>5. /\ replayed' = r
      /\ finalize \in {"late", "replayed"} => output' \in 1 .. Len(ctxts) /\ UpToDate(output')
      /\ finalize \notin {"late", "replayed"} => output' = output
  BY <1>2 DEF StartReplay
<1> HIDE DEF N, n
<1>6. ASSUME NEW k \in 1 .. Len(ctxts)
      PROVE  /\ IsObject(ctxts'[k]) /\ ctxts'[k].wire = ctxts[k].wire
             /\ ctxts'[k].constraint = ctxts[k].constraint
             /\ k \in 1 .. N => ctxts'[k].content \in Habit.contents
  <2>1. CASE k \in 1 .. N
    <3>1. ctxts'[k] = [ctxts[k] EXCEPT !.content = c[k]] /\ c[k] \in Habit.contents
      BY <1>2, <1>4, <2>1
    <3>2. Holds([ctxts[k] EXCEPT !.content = c[k]], c[k], ctxts[k].wire, ctxts[k].constraint)
      BY <1>2, ContentSet
    <3> QED
      BY <3>1, <3>2 DEF Holds
  <2>2. CASE k \notin 1 .. N
    <3>1. ctxts'[k] = ctxts[k]
      BY <1>2, <1>4, <2>2
    <3> QED
      BY <1>2, <2>2, <3>1
  <2> QED
    BY <2>1, <2>2
<1>7. IsSeq(ctxts') /\ Len(ctxts') = Len(ctxts)
  <2>1. DOMAIN ctxts' = DOMAIN ctxts /\ ctxts' = [k \in DOMAIN ctxts |-> ctxts'[k]]
    BY <1>4
  <2> QED
    BY <1>2, <2>1, Mapped DEF ObjectsOK
<1>8. ObjectsOK(N, Habit.contents, ctxts')
  <2>1. \A k \in 1 .. N : k \in 1 .. Len(ctxts)
    BY <1>2
  <2> QED
    BY <1>2, <1>6, <1>7, <2>1 DEF ObjectsOK
<1>9. CallsOK(N, program, ctxts', wire_id_to_metadata, n)
  <2>1. \A k \in 1 .. Made(N, program, Len(program)) : Usable(N, program, k) => SameWire(ctxts, ctxts', k)
    BY <1>3, <1>6 DEF SameWire, CallsFrom
  <2> QED
    BY <1>2, <1>3, <2>1, SameCalls
<1>10. MetasOK(N, program, ctxts', n)
  BY <1>3, <1>6, <1>7 DEF MetasOK
<1>11. Len(program) \in Nat /\ Len(program) > 0
  <2>1. Len(program) \in Nat /\ program = [k \in 1 .. Len(program) |-> program[k]]
    BY <1>2 DEF IsSeq
  <2>2. Len(program) = 0 => program = <<>>
    <3> SUFFICES ASSUME Len(program) = 0 PROVE program = <<>>
      OBVIOUS
    <3>1. program = [k \in 1 .. 0 |-> program[k]] /\ 1 .. 0 = {}
      BY <2>1
    <3>2. DOMAIN program = {}
      BY <3>1
    <3> QED
      BY <3>1, <3>2
  <2> QED
    BY <1>1, <2>1, <2>2
<1>12. ReplaysFrom(N, program, ctxts', r, 0, 0, Habit.loop)
  <2>1. Len(ctxts') >= Made(N, program, Len(program))
    BY <1>2, <1>3, <1>7 DEF CallsFrom
  <2>2. WireCount(program, 0, 0, Habit.loop)
    BY OpsCount DEF WireCount, Pubs
  <2> QED
    BY <1>2, <1>11, <2>1, <2>2, ReplayStarts
<1> HIDE DEF r
<1>15. ASSUME finalize \in {"late", "replayed"} PROVE OutputOK(N, program, ctxts', output')
  <2>1. output' \in 1 .. Len(ctxts) /\ UpToDate(output')
    BY <1>5, <1>15
  <2>2. Usable(N, program, output') \/ ctxts[output'].constraint = None
    <3> DEFINE k == output'
    <3> HIDE DEF k
    <3>1. UpToDate(k) => Usable(N, program, k) \/ ctxts[k].constraint = None
      BY <1>2, DeclaredIs DEF UpToDate, Usable
    <3> QED
      BY <2>1, <3>1 DEF k
  <2>3. output' \in 1 .. Made(N, program, Len(program))
    BY <1>3, <2>1 DEF CallsFrom
  <2> QED
    BY <1>6, <2>1, <2>2, <2>3 DEF OutputOK
<1>16. Len(pb'.val) = n
  BY <1>1 DEF n, NumVariables
<1>17. RunAt(N, Habit.loop, finalize, phase', program', ctxts', wire_id_to_metadata', Len(pb'.val),
             global_wire_id', replayed', pc', output')
  BY <1>1, <1>3, <1>5, <1>9, <1>10, <1>12, <1>15, <1>16 DEF RunAt
<1>18. Habit.publicFirst => PrimaryAt(pb', phase' = "generate" /\ OnlyDeclarations')
  BY <1>1 DEF Inv, PrimaryFirst, PrimaryAt
<1>19. output' \in 0 .. Len(ctxts')
  BY <1>2, <1>5, <1>7
<1>20. /\ phase' # "start" /\ status' \in Statuses /\ global_wire_id' \in Nat /\ pc' \in Nat
       /\ IsSeq(program') /\ <<phase', mode'>> \in Phases /\ BoardOK(pb', out_vars')
  BY <1>1, <1>2 DEF Phases
<1> QED
  BY <1>1, <1>2, <1>8, <1>17, <1>18, <1>19, <1>20, Assemble DEF N

\* What a replayed call may not do to the constraint system.
KeepsSystem == /\ pb'.constraints = pb.constraints
               /\ NumVariables(pb') = NumVariables(pb)
               /\ pb'.inputs = pb.inputs

ContentsFit == \A x \in Habit.contents : Len(x) <= NumLimbs

\* A replayed declaration assigns an input its own variables, if it has no more
\* polynomials than limbs and the mode was set before the replay.
LEMMA ReplayPublicInputInv ==
  ASSUME Inv, ReplayPublicInput
  PROVE  /\ Inv' /\ KeepsSystem
         /\ ~Habit.loop /\ ContentsFit => status' = "ok"
<1> DEFINE N == Habit.inputs
           n == NumVariables(pb)
           c == pc + 1
           k == ArgOf(program, c, 1)
           x == ctxts[k].content
           wire == PublicWire(global_wire_id)
           e == [ctxts[k] EXCEPT !.wire = wire, !.witness = wire_id_to_metadata[wire]]
<1>1. /\ phase = "replay" /\ pc < Len(program) /\ program[c].op = "Public" /\ pc' = c
      /\ kind' = kind /\ finalize' = finalize /\ program' = program /\ output' = output /\ phase' = phase
      /\ replayed' = replayed /\ PublicInput(replayed[k])
  BY DEF ReplayPublicInput, Replaying, Call, Arg, ArgOf
<1>2. status = "ok" /\ mode' = mode /\ global_wire_id' = global_wire_id + 1 /\ out_vars' = out_vars
  BY <1>1 DEF PublicInput
<1>3. /\ kind \in DOMAIN Kinds /\ finalize \in Habit.finalizations /\ status \in Statuses
      /\ <<phase, mode>> \in Phases /\ global_wire_id \in Nat /\ pc \in Nat /\ IsSeq(program)
      /\ output \in 0 .. Len(ctxts)
      /\ ObjectsOK(N, Habit.contents, ctxts) /\ BoardOK(pb, out_vars) /\ IsBoard(pb, n) /\ n \in Nat
      /\ N \in Nat /\ Inputs = 1 .. N /\ DOMAIN ctxts = 1 .. Len(ctxts) /\ Len(ctxts) \in Nat
      /\ Len(ctxts) >= N
  BY InvFacts
<1>4. /\ mode = "WITNESS_GENERATION"
      /\ CallsOK(N, program, ctxts, wire_id_to_metadata, n)
      /\ MetasOK(N, program, ctxts, n)
      /\ ReplaysFrom(N, program, ctxts, replayed, pc, global_wire_id, Habit.loop)
      /\ finalize \in {"late", "replayed"} => OutputOK(N, program, ctxts, output)
      /\ Habit.loop => LoopFiled(program, wire_id_to_metadata)
  BY <1>1, <1>2, ReplayFacts
<1>5. c \in 1 .. Len(program) /\ c \in Nat /\ Len(program) \in Nat /\ pc \in 0 .. Len(program)
  BY <1>1, <1>3 DEF IsSeq
<1>6. k \in 1 .. N /\ replayed[k] = k
  <2>1. CallOK(N, program, c) /\ IsPublic(program, c)
    BY <1>1, <1>4, <1>5 DEF CallsOK, IsPublic
  <2>2. k \in 1 .. N
    BY <2>1 DEF CallOK, DeclarationOK
  <2> HIDE DEF k
  <2>3. k \in 1 .. Made(N, program, pc)
    <3>1. Made(N, program, pc) \in Nat /\ N <= Made(N, program, pc)
      BY <1>3, <1>5, MadeGrow
    <3> QED
      BY <1>3, <2>2, <3>1
  <2> QED
    BY <1>4, <2>2, <2>3 DEF ReplaysFrom, Mirrors
<1> HIDE DEF k, c
<1>7. k \in 1 .. Len(ctxts) /\ IsObject(ctxts[k]) /\ Coefficients(x)
  BY <1>3, <1>6, InvFacts
<1>8. <<phase', mode'>> \in Phases /\ global_wire_id' \in Nat /\ pc' \in Nat /\ IsSeq(program')
      /\ phase' # "start" /\ phase' # "generate"
  BY <1>1, <1>2, <1>3, <1>5
<1>9. /\ ctxts[k].wire = PublicWire(Pubs(program, pc))
       /\ PublicWire(Pubs(program, pc)) \in DOMAIN wire_id_to_metadata
       /\ Pubs(program, c) = Pubs(program, pc) + 1 /\ Pubs(program, pc) \in Nat
       /\ Made(N, program, c) = Made(N, program, pc)
  <2>1. WireOK(N, program, ctxts, wire_id_to_metadata, n, c) /\ IsPublic(program, c)
    BY <1>1, <1>4, <1>5 DEF CallsOK, IsPublic
  <2>2. Pubs(program, pc) \in Nat
    BY <1>5, OpsGrow
  <2>3. Ops(program, pc) \in Nat /\ Ops(program, c) = Ops(program, pc)
    <3>1. program[pc + 1].op = "Public" /\ pc \in Nat
      BY <1>1, <1>3 DEF c
    <3> QED
      BY <3>1, OpsCount DEF c
  <2>4. Pubs(program, c) = Pubs(program, pc) + 1 /\ Made(N, program, c) = Made(N, program, pc)
    <3>1. pc \in Nat /\ N \in Nat
      BY <1>3
    <3> QED
      BY <2>3, <3>1 DEF Pubs, Made, c
  <2>5. Wire(program, ctxts, c) = PublicWire(Pubs(program, c) - 1) /\ Object(N, program, c) = k
    BY <2>1 DEF Object, Wire, k
  <2>6. Pubs(program, c) - 1 = Pubs(program, pc)
    BY <2>2, <2>4
  <2> QED
    BY <2>1, <2>2, <2>4, <2>5, <2>6 DEF WireOK
<1>10. ASSUME ~Habit.loop, ContentsFit PROVE status' = "ok"
  <2>1. wire \in DOMAIN wire_id_to_metadata
    BY <1>4, <1>9, <1>10 DEF ReplaysFrom, WireCount
  <2>2. Len(x) <= NumLimbs /\ Len(x) \in Nat
    BY <1>6, <1>3, <1>10, InvFacts DEF ContentsFit
  <2>3. ~(Len(x) > NumLimbs)
    BY <2>2, SizeFacts
  <2> QED
    BY <1>1, <1>2, <1>4, <1>6, <2>1, <2>3 DEF PublicInput, PublicWire
<1>11. CASE Stop("threw") \/ Stop("undefined")
  <2>1. /\ status' \in Statuses \ {"ok"} /\ wire_id_to_metadata' = wire_id_to_metadata /\ pb' = pb
        /\ ctxts' = ctxts
    BY <1>11 DEF Stop, Statuses
  <2>2. output' \in 0 .. Len(ctxts)
    BY <1>1, <1>3
  <2>3. KeepsSystem
    BY <2>1 DEF KeepsSystem
  <2>4. Inv'
    BY <1>1, <1>2, <1>8, <2>1, <2>2, Stopped
  <2> QED
    BY <1>10, <2>3, <2>4
<1>12. CASE ~(Stop("threw") \/ Stop("undefined"))
  <2>1. /\ wire \in DOMAIN wire_id_to_metadata
        /\ ctxts' = [ctxts EXCEPT ![k].wire = wire, ![k].witness = wire_id_to_metadata[wire]]
        /\ pb' = PublicInputWitness(x, wire_id_to_metadata[wire].index_start)
        /\ wire_id_to_metadata' = wire_id_to_metadata /\ status' = status
    BY <1>1, <1>4, <1>6, <1>12 DEF PublicInput, PublicWire
  <2>2. Holds(e, x, wire, ctxts[k].constraint)
    <3> HIDE DEF wire
    <3> QED
      BY <1>7, WitnessSet
  <2>3. Updated(ctxts, k, e, ctxts')
    <3> HIDE DEF wire
    <3> QED
      BY <1>3, <1>7, <2>1 DEF Updated
  <2>4. /\ IsBoard(pb', n) /\ pb'.constraints = pb.constraints /\ pb'.inputs = pb.inputs
        /\ pb'.public = pb.public
    <3> DEFINE start == wire_id_to_metadata[wire].index_start
    <3> HIDE DEF start, x
    <3> QED
      BY <1>3, <1>7, <2>1, AssignBoard DEF start
  <2>5. NumVariables(pb') = n /\ Len(pb'.val) = n
    <3>1. NumVariables(pb') = n
      BY <2>4, BoardSize
    <3> QED
      BY <3>1 DEF NumVariables
  <2> HIDE DEF e, n, N, x
  <2>6. /\ ObjectsOK(N, Habit.contents, ctxts') /\ Len(ctxts') = Len(ctxts) /\ ctxts'[k] = e
        /\ \A j \in 1 .. Len(ctxts) : j # k => ctxts'[j] = ctxts[j]
    BY <1>3, <1>7, <2>2, <2>3, ObjectChanged DEF Holds, x
  <2>7. global_wire_id = Pubs(program, pc)
    <3>1. CASE Habit.loop /\ global_wire_id = Pubs(program, Len(program))
      <4>1. global_wire_id \in 0 .. (global_wire_id - 1)
        BY <1>4, <2>1, <3>1 DEF LoopFiled
      <4> QED
        BY <1>3, <4>1
    <3> QED
      BY <1>4, <3>1 DEF ReplaysFrom, WireCount
  <2>8. ctxts[k].wire = wire
    BY <1>9, <2>7
  <2>9. ASSUME NEW j \in 1 .. Len(ctxts)
        PROVE  ctxts'[j].wire = ctxts[j].wire /\ ctxts'[j].constraint = ctxts[j].constraint
    <3>1. CASE j = k
      BY <2>2, <2>6, <2>8, <3>1 DEF Holds
    <3>2. CASE j # k
      BY <2>6, <3>2
    <3> QED
      BY <3>1, <3>2
  <2>10. Made(N, program, Len(program)) <= Len(ctxts) /\ Made(N, program, Len(program)) \in Nat
         /\ Made(N, program, pc) <= Made(N, program, Len(program)) /\ Made(N, program, pc) \in Nat
    BY <1>3, <1>4, <1>5, MadeGrow DEF ReplaysFrom
  <2>11. CallsOK(N, program, ctxts', wire_id_to_metadata, n)
    <3>1. \A j \in 1 .. Made(N, program, Len(program)) : j \in 1 .. Len(ctxts)
      BY <1>3, <2>10
    <3>2. \A j \in 1 .. Made(N, program, Len(program)) : Usable(N, program, j) => SameWire(ctxts, ctxts', j)
      BY <2>9, <3>1 DEF SameWire
    <3> QED
      BY <1>3, <1>4, <3>2, SameCalls
  <2>12. MetasOK(N, program, ctxts', n)
    BY <1>4, <2>6, <2>9 DEF MetasOK
  <2>13. ReplaysFrom(N, program, ctxts', replayed, c, global_wire_id', Habit.loop)
    <3>1. Mirrors(N, program, ctxts', replayed, c)
      <4> SUFFICES ASSUME NEW j \in 1 .. Made(N, program, pc)
                   PROVE  IF j \in 1 .. N THEN replayed[j] = j
                          ELSE replayed[j] \in (N + 1) .. Len(ctxts') /\ ctxts'[replayed[j]].wire = ctxts'[j].wire
        BY <1>9 DEF Mirrors
      <4>1. IF j \in 1 .. N THEN replayed[j] = j
            ELSE replayed[j] \in (N + 1) .. Len(ctxts) /\ ctxts[replayed[j]].wire = ctxts[j].wire
        BY <1>4 DEF ReplaysFrom, Mirrors
      <4>2. j \in 1 .. Len(ctxts) /\ \A i \in (N + 1) .. Len(ctxts) : i \in 1 .. Len(ctxts)
        BY <1>3, <2>10
      <4> QED
        BY <2>6, <2>9, <4>1, <4>2
    <3>2. WireCount(program, c, global_wire_id', Habit.loop)
      BY <1>2, <1>9, <2>7 DEF WireCount
    <3>3. c \in 0 .. Len(program)
      BY <1>5
    <3> QED
      BY <1>4, <1>9, <2>6, <3>1, <3>2, <3>3 DEF ReplaysFrom
  <2>14. finalize \in {"late", "replayed"} => OutputOK(N, program, ctxts', output)
    <3> SUFFICES ASSUME OutputOK(N, program, ctxts, output) PROVE OutputOK(N, program, ctxts', output)
      BY <1>4
    <3>1. output \in 1 .. Len(ctxts)
      BY <1>3, <2>10 DEF OutputOK
    <3> QED
      BY <2>9, <3>1 DEF OutputOK
  <2>15. RunAt(N, Habit.loop, finalize, phase', program', ctxts', wire_id_to_metadata', Len(pb'.val),
              global_wire_id', replayed', pc', output')
    BY <1>1, <1>4, <2>1, <2>5, <2>11, <2>12, <2>13, <2>14 DEF RunAt
  <2>16. BoardOK(pb', out_vars')
    BY <1>2, <1>3, <2>4, <2>5 DEF BoardOK, n
  <2>17. Habit.publicFirst => PrimaryAt(pb', phase' = "generate" /\ OnlyDeclarations')
    BY <1>8, <2>4 DEF Inv, PrimaryFirst, PrimaryAt
  <2>18. status' \in Statuses /\ output' \in 0 .. Len(ctxts')
    BY <1>1, <1>3, <2>1, <2>6
  <2>19. KeepsSystem
    BY <2>4, <2>5 DEF KeepsSystem, n
  <2>20. Inv'
    BY <1>1, <1>3, <1>8, <2>6, <2>15, <2>16, <2>17, <2>18, Assemble DEF N
  <2> QED
    BY <1>10, <2>19, <2>20
<1> QED
  BY <1>11, <1>12

\* A replayed operation finds the gadgets of the call it repeats and runs them.
LEMMA ReplayOperationInv ==
  ASSUME Inv, NEW op \in Habit.operations, ReplayOperation(op)
  PROVE  Inv' /\ KeepsSystem /\ status' = "ok"
<1> DEFINE N == Habit.inputs
           n == NumVariables(pb)
           c == pc + 1
           a == ArgOf(program, c, 1)
           b == ArgOf(program, c, 2)
           k == replayed[a]
           l == replayed[b]
           wire == WireId(op, k, l)
           meta == wire_id_to_metadata[wire]
           content == FheEval(op, ctxts[k].content, ctxts[l].content)
           f == [ctxts[k] EXCEPT !.content = content, !.wire = wire]
           e == [f EXCEPT !.witness = meta]
<1>1. /\ phase = "replay" /\ pc < Len(program) /\ program[c].op = op /\ pc' = c
      /\ kind' = kind /\ finalize' = finalize /\ program' = program /\ output' = output /\ phase' = phase
      /\ replayed' = Append(replayed, Len(ctxts) + 1) /\ Operation(op, k, l)
  BY DEF ReplayOperation, Replaying, Call, Arg, ArgOf
<1>2. status = "ok" /\ mode' = mode /\ global_wire_id' = global_wire_id /\ out_vars' = out_vars
  BY <1>1 DEF Operation
<1>3. /\ kind \in DOMAIN Kinds /\ finalize \in Habit.finalizations /\ status \in Statuses
      /\ <<phase, mode>> \in Phases /\ global_wire_id \in Nat /\ pc \in Nat /\ IsSeq(program)
      /\ output \in 0 .. Len(ctxts)
      /\ ObjectsOK(N, Habit.contents, ctxts) /\ BoardOK(pb, out_vars) /\ IsBoard(pb, n) /\ n \in Nat
      /\ N \in Nat /\ Len(ctxts) \in Nat /\ Len(ctxts) >= N
      /\ \A j \in 1 .. Len(ctxts) : IsObject(ctxts[j])
  BY InvFacts
<1>4. /\ mode = "WITNESS_GENERATION"
      /\ CallsOK(N, program, ctxts, wire_id_to_metadata, n)
      /\ MetasOK(N, program, ctxts, n)
      /\ ReplaysFrom(N, program, ctxts, replayed, pc, global_wire_id, Habit.loop)
      /\ finalize \in {"late", "replayed"} => OutputOK(N, program, ctxts, output)
      /\ Habit.loop => LoopFiled(program, wire_id_to_metadata)
  BY <1>1, <1>2, ReplayFacts
<1>5. /\ c \in 1 .. Len(program) /\ c \in Nat /\ c - 1 = pc /\ Len(program) \in Nat
      /\ pc \in 0 .. Len(program) /\ c \in 0 .. Len(program)
  BY <1>1, <1>3 DEF IsSeq
<1>6. op \in Linear \cup Quadratic /\ op # "Public"
  BY <1>3, HabitFacts, WiresApart
<1>7. /\ ~IsPublic(program, c) /\ (op = "Square" => a = b)
      /\ UsableAt(N, program, a, c) /\ UsableAt(N, program, b, c)
      /\ WireOK(N, program, ctxts, wire_id_to_metadata, n, c)
  <2>1. CallOK(N, program, c) /\ WireOK(N, program, ctxts, wire_id_to_metadata, n, c)
    BY <1>4, <1>5 DEF CallsOK
  <2>2. ~IsPublic(program, c)
    BY <1>1, <1>6 DEF IsPublic
  <2> QED
    BY <1>1, <2>1, <2>2 DEF CallOK, OperationOK
<1> HIDE DEF c, a, b, N, n
<1>8. /\ Made(N, program, Len(program)) <= Len(ctxts) /\ Made(N, program, Len(program)) \in Nat
      /\ Made(N, program, pc) <= Made(N, program, Len(program)) /\ Made(N, program, pc) \in Nat
  BY <1>3, <1>4, <1>5, MadeGrow DEF ReplaysFrom
<1>9. ASSUME NEW j, UsableAt(N, program, j, c)
      PROVE  /\ j \in 1 .. Len(ctxts) /\ replayed[j] \in 1 .. Len(ctxts)
             /\ ctxts[replayed[j]].wire = ctxts[j].wire /\ Usable(N, program, replayed[j])
             /\ j \in 1 .. Made(N, program, pc)
  <2>1. j \in 1 .. Made(N, program, pc) /\ (j \in 1 .. N => DeclaredBefore(program, j, c))
    BY <1>5, <1>9 DEF UsableAt
  <2>2. j \in 1 .. Len(ctxts)
    BY <1>3, <1>8, <2>1
  <2>3. IF j \in 1 .. N THEN replayed[j] = j
        ELSE replayed[j] \in (N + 1) .. Len(ctxts) /\ ctxts[replayed[j]].wire = ctxts[j].wire
    BY <1>4, <2>1 DEF ReplaysFrom, Mirrors
  <2>4. CASE j \in 1 .. N
    <3>1. \A m \in 1 .. (c - 1) : m \in 1 .. (Len(program) + 1 - 1)
      BY <1>5
    <3>2. IsDeclared(program, j)
      BY <2>1, <2>4, <3>1 DEF IsDeclared, DeclaredBefore
    <3> QED
      BY <2>1, <2>2, <2>3, <2>4, <3>2 DEF Usable
  <2>5. CASE j \notin 1 .. N
    <3>1. \A i \in (N + 1) .. Len(ctxts) : i \in 1 .. Len(ctxts) /\ i \notin 1 .. N
      BY <1>3
    <3> QED
      BY <2>1, <2>2, <2>3, <2>5, <3>1 DEF Usable
  <2> QED
    BY <2>4, <2>5
<1>10. /\ k \in 1 .. Len(ctxts) /\ l \in 1 .. Len(ctxts) /\ IsObject(ctxts[k]) /\ Usable(N, program, k)
       /\ ctxts[k].wire = ctxts[a].wire /\ ctxts[l].wire = ctxts[b].wire
  BY <1>3, <1>7, <1>9
<1>11. wire = Wire(program, ctxts, c)
  BY <1>1, <1>7, <1>10 DEF WireId, OpWire, Wire, a, b
<1>12. wire \in DOMAIN wire_id_to_metadata /\ FiledOK(wire_id_to_metadata, wire, n)
  BY <1>7, <1>11 DEF WireOK
<1>13. <<phase', mode'>> \in Phases /\ global_wire_id' \in Nat /\ pc' \in Nat /\ IsSeq(program')
      /\ phase' # "start" /\ phase' # "generate"
  BY <1>1, <1>2, <1>3, <1>5
<1>14. /\ ctxts' = Append(ctxts, e) /\ pb' = RunGadgets(pb, meta.gadgets)
       /\ wire_id_to_metadata' = wire_id_to_metadata /\ status' = status
  <2>1. ctxts[k].wire # None /\ ctxts[l].wire # None
    BY <1>7, <1>10 DEF WireOK, a, b
  <2> QED
    BY <1>1, <1>4, <1>12, <2>1 DEF Operation
<1>15. Holds(e, content, wire, ctxts[k].constraint)
  <2> HIDE DEF content, wire, meta
  <2> QED
    BY <1>10, ResultSet
<1>16. Extended(ctxts, e, ctxts')
  BY <1>14 DEF Extended
<1>17. /\ IsBoard(pb', n) /\ pb'.constraints = pb.constraints /\ pb'.inputs = pb.inputs
      /\ pb'.public = pb.public
  <2> DEFINE gadgets == meta.gadgets
  <2>1. gadgets \in Seq(Gadgets(n))
    BY <1>12 DEF FiledOK
  <2> HIDE DEF gadgets
  <2> QED
    BY <1>3, <1>14, <2>1, RunBoard DEF gadgets
<1>18. NumVariables(pb') = n /\ Len(pb'.val) = n
  <2>1. NumVariables(pb') = n
    BY <1>17, BoardSize
  <2> QED
    BY <2>1 DEF NumVariables
<1> HIDE DEF e, k, l, content, wire, f
<1>19. /\ ObjectsOK(N, Habit.contents, ctxts') /\ Len(ctxts') = Len(ctxts) + 1
      /\ ctxts'[Len(ctxts) + 1] = e /\ \A j \in 1 .. Len(ctxts) : ctxts'[j] = ctxts[j]
  BY <1>3, <1>15, <1>16, ObjectAppended DEF Holds
<1>20. /\ Pubs(program, c) = Pubs(program, pc) /\ Made(N, program, c) = Made(N, program, pc) + 1
      /\ global_wire_id = Pubs(program, pc)
  <2>1. Ops(program, pc) \in Nat /\ Ops(program, c) = Ops(program, pc) + 1
    <3>1. program[pc + 1].op # "Public"
      BY <1>1, <1>6 DEF c
    <3>2. pc \in Nat
      BY <1>3
    <3> QED
      BY <3>1, <3>2, OpsCount DEF c
  <2>2. Pubs(program, c) = Pubs(program, pc) /\ Made(N, program, c) = Made(N, program, pc) + 1
    <3>1. N \in Nat /\ pc \in Nat
      BY <1>3
    <3> QED
      BY <2>1, <3>1 DEF Pubs, Made, c
  <2>3. pc # 0
    <3> SUFFICES ASSUME pc = 0 PROVE FALSE
      OBVIOUS
    <3>1. Made(N, program, 0) = N
      BY <1>3, OpsCount DEF Made
    <3>2. a \in 1 .. N /\ DeclaredBefore(program, a, c)
      BY <1>5, <1>7, <3>1 DEF UsableAt
    <3>3. 1 .. (c - 1) = {}
      BY <1>5
    <3> QED
      BY <3>2, <3>3 DEF DeclaredBefore
  <2> QED
    BY <1>4, <2>2, <2>3 DEF ReplaysFrom, WireCount
<1>21. ASSUME NEW j \in 1 .. Made(N, program, Len(program))
      PROVE  j \in 1 .. Len(ctxts) /\ ctxts'[j] = ctxts[j]
  BY <1>3, <1>8, <1>19
<1>22. CallsOK(N, program, ctxts', wire_id_to_metadata, n)
  <2>1. \A j \in 1 .. Made(N, program, Len(program)) : Usable(N, program, j) => SameWire(ctxts, ctxts', j)
    BY <1>21 DEF SameWire
  <2> QED
    BY <1>3, <1>4, <2>1, SameCalls
<1>23. MetasOK(N, program, ctxts', n)
  <2> SUFFICES ASSUME NEW j \in 1 .. (Len(ctxts) + 1), Usable(N, program, j)
               PROVE  IsMeta(ctxts'[j].constraint, n)
    BY <1>19 DEF MetasOK
  <2>1. CASE j = Len(ctxts) + 1
    <3>1. IsMeta(ctxts[k].constraint, n)
      BY <1>4, <1>10 DEF MetasOK
    <3> QED
      BY <1>15, <1>19, <2>1, <3>1 DEF Holds
  <2>2. CASE j # Len(ctxts) + 1
    <3>1. j \in 1 .. Len(ctxts)
      BY <1>3, <2>2
    <3> QED
      BY <1>4, <1>19, <3>1 DEF MetasOK
  <2> QED
    BY <2>1, <2>2
<1>24. /\ IsSeq(replayed') /\ Len(replayed') = Made(N, program, pc) + 1
       /\ \A j \in 1 .. Made(N, program, pc) : replayed'[j] = replayed[j]
       /\ replayed'[Made(N, program, pc) + 1] = Len(ctxts) + 1
  BY <1>1, <1>4, Appended DEF ReplaysFrom
<1>25. ctxts[Made(N, program, c)].wire = wire /\ Made(N, program, c) \in 1 .. Made(N, program, Len(program))
  <2>1. ctxts[Made(N, program, c)].wire = wire
    BY <1>7, <1>11 DEF WireOK, Object
  <2>2. Made(N, program, c) <= Made(N, program, Len(program)) /\ Made(N, program, c) \in Nat
    BY <1>3, <1>5, MadeGrow
  <2> QED
    BY <1>8, <1>20, <2>1, <2>2
<1>26. Mirrors(N, program, ctxts', replayed', c)
  <2> SUFFICES ASSUME NEW j \in 1 .. (Made(N, program, pc) + 1)
               PROVE  IF j \in 1 .. N THEN replayed'[j] = j
                      ELSE replayed'[j] \in (N + 1) .. Len(ctxts') /\ ctxts'[replayed'[j]].wire = ctxts'[j].wire
    BY <1>20 DEF Mirrors
  <2>1. CASE j = Made(N, program, pc) + 1
    <3>1. replayed'[j] = Len(ctxts) + 1 /\ ctxts'[Len(ctxts) + 1].wire = wire
      BY <1>15, <1>19, <1>24, <2>1 DEF Holds
    <3>2. ctxts'[j].wire = wire
      BY <1>20, <1>21, <1>25, <2>1
    <3>3. j \notin 1 .. N /\ Len(ctxts) + 1 \in (N + 1) .. (Len(ctxts) + 1)
      <4>1. N <= Made(N, program, pc)
        BY <1>3, <1>5, MadeGrow
      <4> QED
        BY <1>3, <1>8, <2>1, <4>1
    <3> QED
      BY <1>19, <3>1, <3>2, <3>3
  <2>2. CASE j # Made(N, program, pc) + 1
    <3>1. j \in 1 .. Made(N, program, pc) /\ j \in 1 .. Made(N, program, Len(program))
      BY <1>8, <2>2
    <3>2. IF j \in 1 .. N THEN replayed[j] = j
          ELSE replayed[j] \in (N + 1) .. Len(ctxts) /\ ctxts[replayed[j]].wire = ctxts[j].wire
      BY <1>4, <3>1 DEF ReplaysFrom, Mirrors
    <3>3. replayed'[j] = replayed[j] /\ ctxts'[j] = ctxts[j]
      BY <1>21, <1>24, <3>1
    <3>4. \A i \in (N + 1) .. Len(ctxts) : i \in (N + 1) .. Len(ctxts') /\ ctxts'[i] = ctxts[i]
      BY <1>3, <1>19
    <3> QED
      BY <3>2, <3>3, <3>4
  <2> QED
    BY <2>1, <2>2
<1>27. ReplaysFrom(N, program, ctxts', replayed', c, global_wire_id', Habit.loop)
  <2>1. WireCount(program, c, global_wire_id', Habit.loop)
    BY <1>2, <1>20 DEF WireCount
  <2>2. Len(ctxts') >= Made(N, program, Len(program))
    BY <1>3, <1>8, <1>19
  <2> QED
    BY <1>4, <1>5, <1>20, <1>24, <1>26, <2>1, <2>2 DEF ReplaysFrom
<1>28. finalize \in {"late", "replayed"} => OutputOK(N, program, ctxts', output)
  BY <1>4, <1>21 DEF OutputOK
<1>29. RunAt(N, Habit.loop, finalize, phase', program', ctxts', wire_id_to_metadata', Len(pb'.val),
            global_wire_id', replayed', pc', output')
  BY <1>1, <1>4, <1>14, <1>18, <1>22, <1>23, <1>27, <1>28 DEF RunAt
<1>30. BoardOK(pb', out_vars')
  BY <1>2, <1>3, <1>17, <1>18 DEF BoardOK, n
<1>31. Habit.publicFirst => PrimaryAt(pb', phase' = "generate" /\ OnlyDeclarations')
  BY <1>13, <1>17 DEF Inv, PrimaryFirst, PrimaryAt
<1>32. status' \in Statuses /\ output' \in 0 .. Len(ctxts')
  BY <1>1, <1>3, <1>14, <1>19
<1>33. Inv'
  BY <1>1, <1>3, <1>13, <1>19, <1>29, <1>30, <1>31, <1>32, Assemble DEF N
<1>34. KeepsSystem
  BY <1>17, <1>18 DEF KeepsSystem, n
<1> QED
  BY <1>2, <1>14, <1>33, <1>34


\* Finalizing after the replay.
LEMMA FinishWith ==
  ASSUME Inv, phase = "replay", pc = Len(program), NEW k \in 1 .. Len(ctxts),
         Usable(Habit.inputs, program, k) \/ ctxts[k].constraint = None,
         FinalizeOutputConstraints(k), phase' = "finished",
         UNCHANGED <<kind, finalize, program, pc, replayed, output, passes, calls>>
  PROVE  Inv'
<1> DEFINE N == Habit.inputs
           n == NumVariables(pb)
           m == ctxts[k].constraint
<1>1. /\ kind' = kind /\ finalize' = finalize /\ program' = program /\ pc' = pc
      /\ replayed' = replayed /\ output' = output
  OBVIOUS
<1>2. status = "ok" /\ mode' = mode /\ global_wire_id' = global_wire_id /\ out_vars' = out_vars
  BY DEF FinalizeOutputConstraints
<1>3. /\ kind \in DOMAIN Kinds /\ finalize \in Habit.finalizations /\ status \in Statuses
      /\ global_wire_id \in Nat /\ pc \in Nat /\ IsSeq(program) /\ output \in 0 .. Len(ctxts)
      /\ ObjectsOK(N, Habit.contents, ctxts) /\ BoardOK(pb, out_vars) /\ n \in Nat /\ N \in Nat
  BY InvFacts
<1>4. /\ mode = "WITNESS_GENERATION"
      /\ CallsOK(N, program, ctxts, wire_id_to_metadata, n)
      /\ MetasOK(N, program, ctxts, n)
      /\ ReplaysFrom(N, program, ctxts, replayed, pc, global_wire_id, Habit.loop)
      /\ finalize \in {"late", "replayed"} => OutputOK(N, program, ctxts, output)
      /\ Habit.loop => LoopFiled(program, wire_id_to_metadata)
  BY <1>2, ReplayFacts
<1>5. /\ <<phase', mode'>> \in Phases /\ phase' # "start" /\ phase' # "generate"
      /\ output' \in 0 .. Len(ctxts) /\ global_wire_id' \in Nat /\ pc' \in Nat /\ IsSeq(program')
  BY <1>1, <1>2, <1>3, <1>4 DEF Phases
<1>6. CASE Stop("threw") \/ Stop("aborted") \/ Stop("undefined")
  <2>1. /\ status' \in Statuses \ {"ok"} /\ wire_id_to_metadata' = wire_id_to_metadata /\ pb' = pb
        /\ ctxts' = ctxts
    BY <1>6 DEF Stop, Statuses
  <2> QED
    BY <1>1, <1>2, <1>5, <2>1, Stopped
<1>7. CASE ~(Stop("threw") \/ Stop("aborted") \/ Stop("undefined"))
  <2>1. /\ m # None /\ NumPolys(m) >= Len(out_vars) /\ pb' = OutputConstraints(m)
        /\ wire_id_to_metadata' = wire_id_to_metadata /\ ctxts' = ctxts /\ status' = status
    BY <1>7 DEF FinalizeOutputConstraints
  <2>2. IsMeta(m, n)
    BY <1>4, <2>1 DEF MetasOK
  <2>3. /\ BoardOK(pb', out_vars') /\ n <= Len(pb'.val) /\ Len(pb'.val) \in Nat
        /\ pb'.inputs = pb.inputs /\ pb'.public = pb.public
    <3> HIDE DEF m
    <3> QED
      BY <1>2, <1>3, <2>1, <2>2, Finalized
  <2> HIDE DEF m, n, N
  <2>4. CallsOK(N, program, ctxts, wire_id_to_metadata, Len(pb'.val))
        /\ MetasOK(N, program, ctxts, Len(pb'.val))
    <3> DEFINE nx == Len(pb'.val)
    <3>1. n \in Int /\ nx \in Int /\ n <= nx
      BY <1>3, <2>3
    <3>2. /\ CallsOK(N, program, ctxts, wire_id_to_metadata, n)
          /\ MetasOK(N, program, ctxts, n) /\ IsSeq(program) /\ N \in Nat
      BY <1>3, <1>4
    <3> HIDE DEF nx
    <3> QED
      BY <3>1, <3>2, RunGrow DEF nx
  <2>5. RunAt(N, Habit.loop, finalize, phase', program', ctxts', wire_id_to_metadata', Len(pb'.val),
              global_wire_id', replayed', pc', output')
    BY <1>1, <1>2, <1>4, <2>1, <2>4 DEF RunAt
  <2>6. Habit.publicFirst => PrimaryAt(pb', phase' = "generate" /\ OnlyDeclarations')
    BY <1>5, <2>3 DEF Inv, PrimaryFirst, PrimaryAt
  <2>7. status' \in Statuses /\ output' \in 0 .. Len(ctxts') /\ ObjectsOK(N, Habit.contents, ctxts')
    BY <1>3, <1>5, <2>1
  <2> QED
    BY <1>1, <1>3, <1>5, <2>3, <2>5, <2>6, <2>7, Assemble DEF N
<1> QED
  BY <1>6, <1>7

\* The output, and what the replay computed for it, may be used.
LEMMA OutputThere ==
  ASSUME Inv, phase = "replay", pc = Len(program), status = "ok", finalize \in {"late", "replayed"}
  PROVE  /\ output \in 1 .. Len(ctxts) /\ replayed[output] \in 1 .. Len(ctxts)
         /\ Usable(Habit.inputs, program, output) \/ ctxts[output].constraint = None
         /\ Usable(Habit.inputs, program, replayed[output]) \/ ctxts[replayed[output]].constraint = None
<1> DEFINE N == Habit.inputs
<1>1. /\ N \in Nat /\ IsSeq(program) /\ Len(ctxts) \in Nat
      /\ OutputOK(N, program, ctxts, output)
      /\ ReplaysFrom(N, program, ctxts, replayed, pc, global_wire_id, Habit.loop)
  BY InvFacts, ReplayFacts
<1> HIDE DEF N
<1>2. output \in 1 .. Made(N, program, Len(program)) /\ Made(N, program, Len(program)) <= Len(ctxts)
      /\ Made(N, program, Len(program)) \in Nat
  <2>1. Len(program) \in Nat /\ Len(program) \in 0 .. Len(program)
    BY <1>1 DEF IsSeq
  <2>2. Made(N, program, Len(program)) \in Nat
    BY <1>1, <2>1, MadeGrow
  <2> QED
    BY <1>1, <2>2 DEF OutputOK, ReplaysFrom
<1>3. output \in 1 .. Len(ctxts)
  BY <1>1, <1>2
<1>4. IF output \in 1 .. N THEN replayed[output] = output
      ELSE replayed[output] \in (N + 1) .. Len(ctxts)
  BY <1>1, <1>2 DEF ReplaysFrom, Mirrors
<1>5. Usable(N, program, output) \/ ctxts[output].constraint = None
  BY <1>1 DEF OutputOK
<1>6. CASE output \in 1 .. N
  BY <1>3, <1>4, <1>5, <1>6 DEF N
<1>7. CASE output \notin 1 .. N
  <2>1. \A i \in (N + 1) .. Len(ctxts) : i \in 1 .. Len(ctxts) /\ i \notin 1 .. N
    BY <1>1
  <2> QED
    BY <1>3, <1>4, <1>5, <1>7, <2>1 DEF Usable, N
<1> QED
  BY <1>6, <1>7

\* At the end of the replay.
LEMMA FinishInv ==
  ASSUME Inv, Finish
  PROVE  Inv'
<1> DEFINE N == Habit.inputs
<1>1. /\ phase = "replay" /\ pc = Len(program) /\ phase' = "finished"
      /\ UNCHANGED <<kind, finalize, program, pc, replayed, output, passes, calls>>
  BY DEF Finish
<1>2. /\ kind \in DOMAIN Kinds /\ finalize \in Habit.finalizations /\ status \in Statuses
      /\ <<phase, mode>> \in Phases
      /\ global_wire_id \in Nat /\ pc \in Nat /\ IsSeq(program) /\ output \in 0 .. Len(ctxts)
      /\ ObjectsOK(N, Habit.contents, ctxts) /\ BoardOK(pb, out_vars) /\ N \in Nat
      /\ Len(ctxts) \in Nat /\ Len(ctxts) >= N /\ Control
  BY InvFacts
<1>3. CASE UNCHANGED psVars
  <2>1. /\ mode' = mode /\ global_wire_id' = global_wire_id /\ wire_id_to_metadata' = wire_id_to_metadata
        /\ pb' = pb /\ ctxts' = ctxts /\ out_vars' = out_vars /\ status' = status
    BY <1>3 DEF psVars
  <2>2. ASSUME status = "ok"
        PROVE  RunAt(N, Habit.loop, finalize, phase', program', ctxts', wire_id_to_metadata', Len(pb'.val),
                     global_wire_id', replayed', pc', output')
    <3>1. RunAt(N, Habit.loop, finalize, phase, program, ctxts, wire_id_to_metadata, Len(pb.val),
                global_wire_id, replayed, pc, output)
      BY <1>1, <2>2 DEF Inv, Run, NumVariables
    <3> HIDE DEF N
    <3> QED
      BY <1>1, <2>1, <3>1 DEF RunAt
  <2>3. Habit.publicFirst => PrimaryAt(pb', phase' = "generate" /\ OnlyDeclarations')
    BY <1>1, <2>1 DEF Inv, PrimaryFirst, PrimaryAt
  <2>4. <<phase', mode'>> \in Phases
    BY <1>1, <1>2, <2>1, PhaseMode DEF Phases
  <2>5. /\ phase' # "start" /\ status' \in Statuses /\ output' \in 0 .. Len(ctxts')
        /\ global_wire_id' \in Nat /\ pc' \in Nat /\ IsSeq(program') /\ kind' = kind /\ finalize' = finalize
        /\ ObjectsOK(N, Habit.contents, ctxts') /\ BoardOK(pb', out_vars')
    BY <1>1, <1>2, <2>1
  <2> QED
    BY <1>2, <2>1, <2>2, <2>3, <2>4, <2>5, Assemble
<1>4. ASSUME status = "ok", finalize \in {"late", "replayed"}
      PROVE  /\ output \in 1 .. Len(ctxts) /\ replayed[output] \in 1 .. Len(ctxts)
             /\ Usable(N, program, output) \/ ctxts[output].constraint = None
             /\ Usable(N, program, replayed[output]) \/ ctxts[replayed[output]].constraint = None
  BY <1>1, <1>4, OutputThere
<1>5. CASE finalize = "late" /\ FinalizeOutputConstraints(output)
  <2>1. status = "ok"
    BY <1>5 DEF FinalizeOutputConstraints
  <2> QED
    BY <1>1, <1>4, <1>5, <2>1, FinishWith
<1>6. CASE finalize = "replayed" /\ FinalizeOutputConstraints(replayed[output])
  <2>1. status = "ok"
    BY <1>6 DEF FinalizeOutputConstraints
  <2> DEFINE k == replayed[output]
  <2>2. /\ k \in 1 .. Len(ctxts) /\ FinalizeOutputConstraints(k)
        /\ Usable(N, program, k) \/ ctxts[k].constraint = None
    BY <1>4, <1>6, <2>1
  <2> HIDE DEF k
  <2> QED
    BY <1>1, <2>2, FinishWith
<1> QED
  BY <1>3, <1>5, <1>6 DEF Finish

\* The benchmark's loop goes back to the first call.
LEMMA ReplayAgainInv ==
  ASSUME Inv, ReplayAgain
  PROVE  Inv'
<1> DEFINE N == Habit.inputs
           n == NumVariables(pb)
<1>1. /\ phase = "finished" /\ status = "ok" /\ phase' = "replay" /\ pc' = 0 /\ Habit.loop
      /\ kind' = kind /\ finalize' = finalize /\ program' = program /\ output' = output
      /\ mode' = mode /\ global_wire_id' = global_wire_id /\ wire_id_to_metadata' = wire_id_to_metadata
      /\ pb' = pb /\ ctxts' = ctxts /\ out_vars' = out_vars /\ status' = status
  BY DEF ReplayAgain, psVars
<1>2. /\ kind \in DOMAIN Kinds /\ finalize \in Habit.finalizations /\ status \in Statuses
      /\ global_wire_id \in Nat /\ IsSeq(program) /\ output \in 0 .. Len(ctxts)
      /\ ObjectsOK(N, Habit.contents, ctxts) /\ BoardOK(pb, out_vars) /\ N \in Nat /\ Inputs = 1 .. N
  BY InvFacts
<1>3. /\ mode = "WITNESS_GENERATION"
      /\ CallsOK(N, program, ctxts, wire_id_to_metadata, n)
      /\ MetasOK(N, program, ctxts, n)
      /\ ReplaysFrom(N, program, ctxts, replayed, pc, global_wire_id, Habit.loop)
      /\ pc = Len(program)
      /\ finalize \in {"late", "replayed"} => OutputOK(N, program, ctxts, output)
      /\ Habit.loop => LoopFiled(program, wire_id_to_metadata)
  BY <1>1, ReplayFacts
<1>4. replayed' = [k \in 1 .. N |-> k]
  BY <1>2 DEF ReplayAgain
<1> HIDE DEF N, n
<1>5. ReplaysFrom(N, program, ctxts, [k \in 1 .. N |-> k], 0, global_wire_id, Habit.loop)
  <2>1. /\ WireCount(program, 0, global_wire_id, Habit.loop) /\ Len(program) \in Nat
        /\ Len(program) > 0 /\ Len(ctxts) >= Made(N, program, Len(program))
    BY <1>1, <1>2, <1>3 DEF ReplaysFrom, WireCount, IsSeq
  <2> QED
    BY <1>2, <2>1, ReplayStarts
<1>6. Len(pb'.val) = n
  BY <1>1 DEF n, NumVariables
<1>7. RunAt(N, Habit.loop, finalize, phase', program', ctxts', wire_id_to_metadata', Len(pb'.val),
            global_wire_id', replayed', pc', output')
  BY <1>1, <1>3, <1>4, <1>5, <1>6 DEF RunAt
<1>8. Habit.publicFirst => PrimaryAt(pb', phase' = "generate" /\ OnlyDeclarations')
  BY <1>1 DEF Inv, PrimaryFirst, PrimaryAt
<1>9. /\ <<phase', mode'>> \in Phases /\ phase' # "start" /\ status' \in Statuses /\ output' \in 0 .. Len(ctxts')
      /\ global_wire_id' \in Nat /\ pc' \in Nat /\ IsSeq(program')
      /\ ObjectsOK(N, Habit.contents, ctxts') /\ BoardOK(pb', out_vars')
  BY <1>1, <1>2, <1>3 DEF Phases
<1> QED
  BY <1>1, <1>2, <1>7, <1>8, <1>9, Assemble DEF N

\* A step that changes nothing.
LEMMA StutterInv ==
  ASSUME Inv, UNCHANGED vars
  PROVE  Inv'
<1> USE DEF vars, psVars, clientVars
<1>1. Habit' = Habit
  BY DEF Habit
<1>2. Types' /\ PrimaryFirst'
  BY <1>1 DEF Inv, Types, Control, PrimaryFirst, OnlyDeclarations
<1>3. (phase # "start" /\ status = "ok" => Run)'
  BY <1>1 DEF Inv, Run
<1> QED
  BY <1>2, <1>3 DEF Inv

\* Every step preserves the invariant.
LEMMA NextInv ==
  ASSUME Inv, [Next]_vars
  PROVE  Inv'
<1>1. ASSUME NEW k \in Inputs, EvaluatePublicInput(k) PROVE Inv'
  BY <1>1, EvaluatePublicInputInv
<1>2. ASSUME NEW op \in Habit.operations, NEW k \in DOMAIN ctxts, NEW l \in DOMAIN ctxts,
             EvaluateOperation(op, k, l)
      PROVE  Inv'
  BY <1>2, EvaluateOperationInv
<1>3. CASE StartGeneration
  BY <1>3, StartGenerationInv
<1>4. ASSUME NEW k \in Inputs, GenPublicInput(k) PROVE Inv'
  BY <1>4, GenPublicInputInv
<1>5. ASSUME NEW op \in Habit.operations, NEW k \in DOMAIN ctxts, NEW l \in DOMAIN ctxts,
             GenOperation(op, k, l)
      PROVE  Inv'
  BY <1>5, GenOperationInv
<1>6. ASSUME NEW n \in {2, 3}, GenPublicOutput(n) PROVE Inv'
  BY <1>6, GenPublicOutputInv
<1>7. ASSUME NEW k \in DOMAIN ctxts, GenFinalize(k) PROVE Inv'
  BY <1>7, GenFinalizeInv
<1>8. CASE StartReplay
  BY <1>8, StartReplayInv
<1>9. CASE ReplayPublicInput
  BY <1>9, ReplayPublicInputInv
<1>10. ASSUME NEW op \in Habit.operations, ReplayOperation(op) PROVE Inv'
  BY <1>10, ReplayOperationInv
<1>11. CASE Finish
  BY <1>11, FinishInv
<1>12. CASE ReplayAgain
  BY <1>12, ReplayAgainInv
<1>13. CASE UNCHANGED vars
  BY <1>13, StutterInv
<1> QED
  BY <1>1, <1>2, <1>3, <1>4, <1>5, <1>6, <1>7, <1>8, <1>9, <1>10, <1>11, <1>12, <1>13 DEF Next

-----------------------------------------------------------------------------
(* What follows for programs of any kind                                     *)

\* The invariant holds of every state.
LEMMA Invariance == Spec => []Inv
<1>1. Init => Inv
  BY InitInv
<1>2. Inv /\ [Next]_vars => Inv'
  BY NextInv
<1> QED
  BY <1>1, <1>2, PTL DEF Spec

\* Types of the variables, the indices of the protoboard's variables among them.
LEMMA InvTypes == Inv => TypeOK
<1> SUFFICES ASSUME Inv PROVE TypeOK
  OBVIOUS
<1> DEFINE n == NumVariables(pb)
<1>1. /\ status \in Statuses /\ <<phase, mode>> \in Phases /\ global_wire_id \in Nat
      /\ output \in 0 .. Len(ctxts) /\ IsBoard(pb, n) /\ n \in Nat
  BY InvFacts
<1>2. mode \in Modes /\ phase \in {"start", "generate", "finalized", "replay", "finished"}
      /\ status \in {"ok", "threw", "aborted", "undefined"}
  BY <1>1 DEF Phases, Modes, Statuses
<1>3. pb.inputs \in 0 .. n /\ pb.public \subseteq 1 .. n /\ pb.constraints \subseteq Equations(n)
  BY <1>1 DEF IsBoard
<1>4. ASSUME NEW g \in pb.constraints
      PROVE  (DOMAIN g.a \cup DOMAIN g.b \cup DOMAIN g.c) \subseteq 1 .. n \cup {0}
  <2>1. 0 .. n = 1 .. n \cup {0}
    BY <1>1
  <2>2. g \in Equations(n)
    BY <1>3
  <2> HIDE DEF n
  <2>3. g.a \in Lcs(n) /\ g.b \in Lcs(n) /\ g.c \in Lcs(n)
    BY <2>2 DEF Equations
  <2>4. \A lc \in Lcs(n) : DOMAIN lc \subseteq 0 .. n
    BY DEF Lcs
  <2> QED
    BY <2>1, <2>3, <2>4
<1> QED
  BY <1>1, <1>2, <1>3, <1>4 DEF TypeOK, Index

\* In every state the wire-id counter counts, the primary input and the public
\* variables are variables of the protoboard, and so are all its constraints
\* mention.
THEOREM TypeCorrect == Spec => []TypeOK
BY Invariance, InvTypes, PTL

\* For programs of any kind that declare inputs and outputs before any
\* operation, the variables declared public are the ones libsnark takes as the
\* primary input.
THEOREM DeclaredArePrimary == Spec => []DeclaredFirstIsPrimary
<1>1. Inv => DeclaredFirstIsPrimary
  BY DEF Inv, PrimaryFirst, PrimaryAt, DeclaredFirstIsPrimary
<1> QED
  BY <1>1, Invariance, PTL

\* Where pc moves on in a replay, a call is replayed.
LEMMA ReplayStep ==
  ASSUME Inv, [Next]_vars, phase = "replay", pc' > pc
  PROVE  ReplayPublicInput \/ \E op \in Habit.operations : ReplayOperation(op)
<1>1. pc \in Nat /\ ~(pc > pc)
  BY InvFacts
<1>2. pc' # pc
  BY <1>1
<1>3. ~UNCHANGED clientVars
  BY <1>2 DEF clientVars
<1>4. ~Finish
  BY <1>2 DEF Finish
<1> QED
  BY <1>3, <1>4 DEF Next, vars, EvaluatePublicInput, EvaluateOperation, StartGeneration, GenPublicInput,
     GenOperation, Generating, GenPublicOutput, GenFinalize, StartReplay, ReplayAgain

\* Whatever the inputs are in the replay, and however often it is run, the
\* constraint system stays the one the keys were generated for.
THEOREM ConstraintsAreKept == Spec => ReplayKeepsConstraints
<1> DEFINE A == phase = "replay" /\ pc' > pc => KeepsSystem
<1>1. Inv /\ [Next]_vars => [A]_vars
  <2> SUFFICES ASSUME Inv, [Next]_vars, phase = "replay", pc' > pc PROVE KeepsSystem
    OBVIOUS
  <2>1. CASE ReplayPublicInput
    BY <2>1, ReplayPublicInputInv
  <2>2. ASSUME NEW op \in Habit.operations, ReplayOperation(op) PROVE KeepsSystem
    BY <2>2, ReplayOperationInv
  <2> QED
    BY <2>1, <2>2, ReplayStep
<1>2. A <=> (phase = "replay" /\ pc' > pc =>
               /\ pb'.constraints = pb.constraints
               /\ NumVariables(pb') = NumVariables(pb)
               /\ pb'.inputs = pb.inputs)
  BY DEF KeepsSystem
<1> HIDE DEF A
<1>3. Spec => [][A]_vars
  BY <1>1, Invariance, PTL DEF Spec
<1> QED
  BY <1>2, <1>3, PTL DEF ReplayKeepsConstraints

\* A program of a kind whose contents have no more polynomials than limbs.
FitsKinds == \A n \in DOMAIN Kinds : ~Kinds[n].loop =>
               \A x \in Kinds[n].contents : Len(x) <= NumLimbs

\* A replay that has not stopped does not stop.
LEMMA NeverStopsStep ==
  ASSUME FitsKinds, Inv, ReplayNeverStops, [Next]_vars
  PROVE  ReplayNeverStops'
<1> SUFFICES ASSUME phase' = "replay", ~Habit.loop' PROVE status' = "ok"
  BY DEF ReplayNeverStops
<1>1. kind \in DOMAIN Kinds /\ phase = "replay" => phase # "start"
  BY InvFacts
<1>2. CASE UNCHANGED vars
  BY <1>2 DEF vars, psVars, clientVars, ReplayNeverStops, Habit
<1>3. CASE StartReplay
  BY <1>3 DEF StartReplay, SetMode
<1>4. CASE ReplayPublicInput
  <2>1. kind' = kind
    BY <1>4 DEF ReplayPublicInput, Replaying
  <2>2. ~Habit.loop /\ ContentsFit
    BY <2>1, InvFacts DEF FitsKinds, ContentsFit, Habit
  <2> QED
    BY <1>4, <2>2, ReplayPublicInputInv
<1>5. ASSUME NEW op \in Habit.operations, ReplayOperation(op) PROVE status' = "ok"
  BY <1>5, ReplayOperationInv
<1>6. CASE ReplayAgain
  BY <1>6 DEF ReplayAgain, psVars
<1> QED
  BY <1>2, <1>3, <1>4, <1>5, <1>6 DEF Next, EvaluatePublicInput, EvaluateOperation, StartGeneration,
     GenPublicInput, GenOperation, Generating, Called, GenPublicOutput, GenFinalize, Finish, clientVars

\* For programs that set the mode before each replay and whose inputs have no
\* more polynomials than limbs, the replay finds every wire id it asks for
\* under which the same call of generation filed its gadgets, on any data.
THEOREM ReplaysNeverStop ==
  ASSUME FitsKinds
  PROVE  Spec => []ReplayNeverStops
<1>1. Init => ReplayNeverStops
  BY DEF Init, ReplayNeverStops
<1>2. Inv /\ ReplayNeverStops /\ [Next]_vars => ReplayNeverStops'
  BY NeverStopsStep
<1> QED
  BY <1>1, <1>2, Invariance, PTL DEF Spec
=============================================================================
