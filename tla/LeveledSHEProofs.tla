-------------------------- MODULE LeveledSHEProofs --------------------------
(****************************************************************************)
(* For every plaintext modulus, number of moduli, set of variables and      *)
(* messages: levels count towers, the automatic techniques spend one level  *)
(* for each multiplication in sequence, operands meet at one level and      *)
(* depth, and within the multiplicative depth of the parameters no product  *)
(* throws.  The scaling factors are the products the code computes them as, *)
(* so ciphertexts decrypt to their messages.                                *)
(****************************************************************************)
EXTENDS LeveledSHE, ArithmeticTheorems, TLAPS

\* The plaintext modulus and the residues.
LEMMA ModulusFacts ==
  /\ T \in Nat /\ T > 1
  /\ L \in Nat /\ L >= 2
  /\ 1 \in Residues /\ 0 \in Residues
  /\ \A x \in Residues : x \in Int /\ x >= 0 /\ x < T
BY LevelAssumption DEF Residues

Fields == {"towers", "level", "deg", "sf", "phase", "depth"}

Shaped(c) ==
  /\ DOMAIN c = Fields
  /\ c.towers \in Int /\ c.level \in Int /\ c.deg \in Int /\ c.depth \in Int

\* Towers, level, degree and depth are integers.
LEMMA ShapedInt ==
  ASSUME NEW c, Shaped(c)
  PROVE  c.towers \in Int /\ c.level \in Int /\ c.deg \in Int /\ c.depth \in Int
BY DEF Shaped

\* A modulus reduction turns towers and degree into levels.
LEMMA ModReduceShape ==
  ASSUME NEW c, Shaped(c), NEW n \in Int
  PROVE  /\ Shaped(ModReduceInternal(c, n))
         /\ ModReduceInternal(c, n).towers = c.towers - n
         /\ ModReduceInternal(c, n).level = c.level + n
         /\ ModReduceInternal(c, n).deg = c.deg - n
         /\ ModReduceInternal(c, n).depth = c.depth
BY DEF Shaped, ModReduceInternal, Fields

\* A level reduction turns towers into levels.
LEMMA LevelReduceShape ==
  ASSUME NEW c, Shaped(c), NEW n \in Int
  PROVE  /\ Shaped(LevelReduceInternal(c, n))
         /\ LevelReduceInternal(c, n).towers = c.towers - n
         /\ LevelReduceInternal(c, n).level = c.level + n
         /\ LevelReduceInternal(c, n).deg = c.deg
         /\ LevelReduceInternal(c, n).depth = c.depth
BY DEF Shaped, LevelReduceInternal, Fields

\* A product with a constant has one degree more.
LEMMA MultConstShape ==
  ASSUME NEW c, Shaped(c), NEW k
  PROVE  /\ Shaped(EvalMultConst(c, k))
         /\ EvalMultConst(c, k).towers = c.towers
         /\ EvalMultConst(c, k).level = c.level
         /\ EvalMultConst(c, k).deg = c.deg + 1
         /\ EvalMultConst(c, k).depth = c.depth
BY DEF Shaped, EvalMultConst, Fields

-----------------------------------------------------------------------------
(* What one ciphertext satisfies *)

Good(c) ==
  /\ Shaped(c)
  /\ c.towers >= 1
  /\ c.level >= 0
  /\ c.level + c.towers = L
  /\ Automatic => /\ c.deg \in {1, 2}
             /\ c.level + c.deg = c.depth + 1 + Ext

\* The extra level of FLEXIBLEAUTOEXT.
LEMMA ExtType == Ext \in {0, 1}
BY DEF Ext

\* A fresh ciphertext is good.
LEMMA FreshGood ==
  ASSUME NEW m, NEW deg \in {1, 2}, scalTech \in Techniques
  PROVE  Good(Fresh(m, deg))
BY ExtType, ModulusFacts DEF Fresh, Good, Shaped, Fields, Automatic, Ext

\* Declaring another's scaling factor changes nothing else.
LEMMA AdoptShape ==
  ASSUME NEW c, Shaped(c), NEW o
  PROVE  /\ Shaped(Adopt(c, o))
         /\ Adopt(c, o).towers = c.towers
         /\ Adopt(c, o).level = c.level
         /\ Adopt(c, o).deg = c.deg
         /\ Adopt(c, o).depth = c.depth
BY DEF Shaped, Adopt, Fields

\* A product with a constant, reduced, is one level down.
LEMMA ScaledShape ==
  ASSUME NEW c, Shaped(c), NEW k
  PROVE  /\ Shaped(Scaled(c, k))
         /\ Scaled(c, k).towers = c.towers - 1
         /\ Scaled(c, k).level = c.level + 1
         /\ Scaled(c, k).deg = c.deg
         /\ Scaled(c, k).depth = c.depth
<1> DEFINE e == EvalMultConst(c, k % T)
<1>1. /\ Shaped(e)
      /\ e.towers = c.towers /\ e.level = c.level
      /\ e.deg = c.deg + 1 /\ e.depth = c.depth
  BY MultConstShape
<1> HIDE DEF e
<1>2. /\ Shaped(ModReduceInternal(e, 1))
      /\ ModReduceInternal(e, 1).towers = e.towers - 1
      /\ ModReduceInternal(e, 1).level = e.level + 1
      /\ ModReduceInternal(e, 1).deg = e.deg - 1
      /\ ModReduceInternal(e, 1).depth = e.depth
  BY <1>1, ModReduceShape
<1>3. Scaled(c, k) = ModReduceInternal(e, 1)
  BY DEF Scaled, e
<1> QED
  BY <1>1, <1>2, <1>3, ShapedInt

\* A ciphertext with the level, depth and towers of another.
Meets(d, c, o) ==
  /\ Shaped(d)
  /\ d.level = o.level
  /\ d.deg = o.deg
  /\ d.towers = o.towers
  /\ d.depth = c.depth

\* So a ciphertext that meets another still does.
LEMMA AdoptMeets ==
  ASSUME NEW d, NEW c, NEW o, Meets(d, c, o)
  PROVE  Meets(Adopt(d, o), c, o)
BY AdoptShape DEF Meets

\* An operand of a lower level takes the level and the depth of the other.
LEMMA LowerMeets ==
  ASSUME Automatic, NEW c, Good(c), NEW o, Good(o), c.level < o.level
  PROVE  Meets(Lower(c, o), c, o)
<1>0. /\ L \in Int
      /\ Shaped(c)
      /\ Shaped(o)
      /\ c.deg \in {1, 2}
      /\ o.deg \in {1, 2}
      /\ c.level + c.towers = L
      /\ o.level + o.towers = L
  BY ModulusFacts DEF Good
<1>g. /\ o.level - c.level \in Int
      /\ c.level \in Int /\ c.towers \in Int
      /\ o.level \in Int /\ o.towers \in Int
  BY <1>0, ShapedInt
<1>r. ASSUME NEW d, Shaped(d), NEW n \in Int,
             d.deg = o.deg, d.level + n = o.level, d.towers - n = o.towers, d.depth = c.depth
      PROVE  Meets(LevelReduceInternal(d, n), c, o)
  BY <1>r, LevelReduceShape DEF Meets
<1>m. ASSUME NEW d, Shaped(d), d.deg = o.deg + 1, d.level + 1 = o.level,
             d.towers - 1 = o.towers, d.depth = c.depth
      PROVE  Meets(ModReduceInternal(d, 1), c, o)
  <2>1. d.deg \in Int /\ d.deg - 1 = o.deg
    BY <1>0, <1>m, ShapedInt
  <2>2. d.level + 1 = o.level /\ d.towers - 1 = o.towers /\ d.depth = c.depth
    BY <1>m
  <2>3. /\ Shaped(ModReduceInternal(d, 1))
        /\ ModReduceInternal(d, 1).towers = d.towers - 1
        /\ ModReduceInternal(d, 1).level = d.level + 1
        /\ ModReduceInternal(d, 1).deg = d.deg - 1
        /\ ModReduceInternal(d, 1).depth = d.depth
    BY <1>m, ModReduceShape
  <2> QED
    BY <2>1, <2>2, <2>3 DEF Meets
<1>1. CASE c.deg = 2 /\ o.deg = 2
  <2> DEFINE k == o.sf * ModInverse(c.sf) * ModReduceFactorInt(c.towers - 1)
  <2>1. Lower(c, o) = Adopt(LevelReduceInternal(Scaled(c, k), (o.level - c.level) - 1), o)
    BY <1>1 DEF Lower
  <2> HIDE DEF k
  <2>2. Shaped(Scaled(c, k)) /\ Scaled(c, k).towers = c.towers - 1
        /\ Scaled(c, k).level = c.level + 1 /\ Scaled(c, k).deg = 2 /\ Scaled(c, k).depth = c.depth
    BY <1>0, <1>1, ScaledShape
  <2> DEFINE e == Scaled(c, k)
             n == (o.level - c.level) - 1
  <2>a. n \in Int /\ e.level + n = o.level /\ e.towers - n = o.towers /\ e.deg = o.deg
    BY <1>0, <1>1, <1>g, <2>2
  <2>b. Shaped(e) /\ e.depth = c.depth
    BY <2>2
  <2> HIDE DEF e, n
  <2>c. Meets(LevelReduceInternal(e, n), c, o)
    BY <1>r, <2>a, <2>b
  <2>3. Meets(LevelReduceInternal(Scaled(c, k), (o.level - c.level) - 1), c, o)
    BY <2>c DEF e, n
  <2> QED
    BY <2>1, <2>3, AdoptMeets
<1>2. CASE c.deg = 2 /\ o.deg # 2 /\ o.level - c.level = 1
  <2>1. Lower(c, o) = ModReduceInternal(c, 1)
    BY <1>2 DEF Lower
  <2>2. o.deg = 1 /\ c.level + 1 = o.level /\ c.towers - 1 = o.towers
    BY <1>0, <1>2, ShapedInt
  <2> QED
    BY <1>0, <1>2, <1>m, <2>1, <2>2
<1>3. CASE c.deg = 2 /\ o.deg # 2 /\ o.level - c.level # 1
  <2> DEFINE k == GetScalingFactorIntBig(o.level - 1) * ModInverse(c.sf) * ModReduceFactorInt(c.towers - 1)
  <2>1. Lower(c, o) =
          Adopt(ModReduceInternal(
                  LevelReduceInternal(Scaled(c, k), (o.level - c.level) - 2), 1), o)
    BY <1>3 DEF Lower
  <2> HIDE DEF k
  <2>2. Shaped(Scaled(c, k)) /\ Scaled(c, k).towers = c.towers - 1
        /\ Scaled(c, k).level = c.level + 1 /\ Scaled(c, k).deg = 2 /\ Scaled(c, k).depth = c.depth
    BY <1>0, <1>3, ScaledShape
  <2> DEFINE e == Scaled(c, k)
             n == (o.level - c.level) - 2
             d == LevelReduceInternal(e, n)
  <2>a. n \in Int /\ e.towers - n = o.towers + 1 /\ (e.level + n) + 1 = o.level
    BY <1>0, <1>g, <2>2
  <2>b. Shaped(e) /\ e.deg = 2 /\ e.depth = c.depth
    BY <2>2
  <2> HIDE DEF e, n
  <2>3. Shaped(d) /\ d.towers = o.towers + 1 /\ d.level + 1 = o.level /\ d.deg = 2
        /\ d.depth = c.depth
    BY <2>a, <2>b, LevelReduceShape
  <2> HIDE DEF d
  <2>4. o.deg = 1 /\ d.towers - 1 = o.towers
    BY <1>0, <1>3, <2>3, ShapedInt
  <2>5. Meets(ModReduceInternal(d, 1), c, o)
    BY <1>m, <2>3, <2>4
  <2> QED
    BY <2>1, <2>5, AdoptMeets DEF d, e, n
<1>4. CASE c.deg # 2 /\ o.deg = 2
  <2> DEFINE k == (o.sf * ModInverse(c.sf)) % T
  <2>1. Lower(c, o) = Adopt(LevelReduceInternal(EvalMultConst(c, k), o.level - c.level), o)
    BY <1>4 DEF Lower
  <2> HIDE DEF k
  <2>2. Shaped(EvalMultConst(c, k)) /\ EvalMultConst(c, k).towers = c.towers
        /\ EvalMultConst(c, k).level = c.level /\ EvalMultConst(c, k).deg = 2
        /\ EvalMultConst(c, k).depth = c.depth
    BY <1>0, <1>4, MultConstShape
  <2>3. Meets(LevelReduceInternal(EvalMultConst(c, k), o.level - c.level), c, o)
    BY <1>0, <1>4, <1>g, <1>r, <2>2, ShapedInt
  <2> QED
    BY <2>1, <2>3, AdoptMeets
<1>5. CASE c.deg # 2 /\ o.deg # 2
  <2> DEFINE k == (GetScalingFactorIntBig(o.level - 1) * ModInverse(c.sf)) % T
  <2>1. Lower(c, o) =
          Adopt(ModReduceInternal(
                  LevelReduceInternal(EvalMultConst(c, k), (o.level - c.level) - 1), 1), o)
    BY <1>5 DEF Lower
  <2> HIDE DEF k
  <2>2. Shaped(EvalMultConst(c, k)) /\ EvalMultConst(c, k).towers = c.towers
        /\ EvalMultConst(c, k).level = c.level /\ EvalMultConst(c, k).deg = 2
        /\ EvalMultConst(c, k).depth = c.depth
    BY <1>0, <1>5, MultConstShape
  <2> DEFINE e == EvalMultConst(c, k)
             n == (o.level - c.level) - 1
             d == LevelReduceInternal(e, n)
  <2>a. n \in Int /\ e.towers - n = o.towers + 1 /\ (e.level + n) + 1 = o.level
    BY <1>0, <1>5, <1>g, <2>2
  <2>b. Shaped(e) /\ e.deg = 2 /\ e.depth = c.depth
    BY <2>2
  <2> HIDE DEF e, n
  <2>3. Shaped(d) /\ d.towers = o.towers + 1 /\ d.level + 1 = o.level /\ d.deg = 2
        /\ d.depth = c.depth
    BY <2>a, <2>b, LevelReduceShape
  <2> HIDE DEF d
  <2>4. o.deg = 1 /\ d.towers - 1 = o.towers
    BY <1>0, <1>5, <2>3, ShapedInt
  <2>5. Meets(ModReduceInternal(d, 1), c, o)
    BY <1>m, <2>3, <2>4
  <2> QED
    BY <2>1, <2>5, AdoptMeets DEF d, e, n
<1> QED
  BY <1>1, <1>2, <1>3, <1>4, <1>5

\* An adjusted operand has the depth of the deeper one.
LEMMA JoinedShape ==
  ASSUME NEW c, Shaped(c), NEW o, Shaped(o)
  PROVE  /\ Shaped(Joined(c, o))
         /\ Joined(c, o).towers = c.towers
         /\ Joined(c, o).level = c.level
         /\ Joined(c, o).deg = c.deg
         /\ Joined(c, o).depth = IF c.depth < o.depth THEN o.depth ELSE c.depth
BY DEF Shaped, Joined, Fields

\* An operand that is changed meets its partner in depth as well.
Behind(c, o) == c.level < o.level \/ (c.level = o.level /\ c.deg < o.deg)

\* An operand that meets the other is good with its depth.
LEMMA JoinedGood ==
  ASSUME Automatic, NEW c, Good(c), NEW o, Good(o), Behind(c, o), NEW d, Meets(d, c, o)
  PROVE  /\ Good(Joined(d, o))
         /\ Joined(d, o).level = o.level
         /\ Joined(d, o).deg = o.deg
         /\ Joined(d, o).depth = o.depth
<1>1. /\ Shaped(c) /\ Shaped(o) /\ Shaped(d)
      /\ c.deg \in {1, 2} /\ o.deg \in {1, 2}
      /\ c.level + c.deg = c.depth + 1 + Ext
      /\ o.level + o.deg = o.depth + 1 + Ext
      /\ d.level = o.level /\ d.deg = o.deg /\ d.towers = o.towers /\ d.depth = c.depth
  BY DEF Good, Meets
<1>2. /\ c.level \in Int /\ c.deg \in Int /\ c.depth \in Int
      /\ o.level \in Int /\ o.deg \in Int /\ o.depth \in Int
      /\ Ext \in Int
  BY <1>1, ShapedInt, ExtType
<1>3. c.depth <= o.depth
  <2>1. CASE c.level < o.level
    BY <1>1, <1>2, <2>1
  <2>2. CASE c.level = o.level /\ c.deg < o.deg
    BY <1>1, <1>2, <2>2
  <2> QED
    BY <2>1, <2>2 DEF Behind
<1>4. (IF d.depth < o.depth THEN o.depth ELSE d.depth) = o.depth
  BY <1>1, <1>2, <1>3
<1>5. /\ Shaped(Joined(d, o))
      /\ Joined(d, o).towers = o.towers /\ Joined(d, o).level = o.level
      /\ Joined(d, o).deg = o.deg /\ Joined(d, o).depth = o.depth
  BY <1>1, <1>4, JoinedShape
<1> QED
  BY <1>5 DEF Good

\* The operands of a sum are good after their adjustment.
LEMMA AdjustGood ==
  ASSUME NEW c, Good(c), NEW o, Good(o)
  PROVE  /\ Good(AdjustForAddOrSub(c, o))
         /\ Automatic =>
              IF Behind(c, o)
              THEN /\ AdjustForAddOrSub(c, o).level = o.level
                   /\ AdjustForAddOrSub(c, o).deg = o.deg
                   /\ AdjustForAddOrSub(c, o).depth = o.depth
              ELSE AdjustForAddOrSub(c, o) = c
<1>1. CASE ~Automatic
  <2>1. CASE c.towers > o.towers
    <3>1. /\ Shaped(c) /\ c.towers \in Int /\ c.level \in Int /\ o.towers \in Int
          /\ o.towers >= 1 /\ c.level >= 0 /\ c.level + c.towers = L /\ L \in Int
      BY ShapedInt, ModulusFacts DEF Good
    <3> DEFINE n == c.towers - o.towers
    <3>2. n \in Int /\ c.towers - n = o.towers /\ c.level + n >= 0
          /\ (c.level + n) + (c.towers - n) = L
      BY <2>1, <3>1
    <3>3. AdjustForAddOrSub(c, o) = LevelReduceInternal(c, n)
      BY <1>1, <2>1 DEF AdjustForAddOrSub, AdjustLevels
    <3> HIDE DEF n
    <3>4. Good(LevelReduceInternal(c, n))
      BY <1>1, <3>1, <3>2, LevelReduceShape DEF Good
    <3> QED
      BY <1>1, <3>3, <3>4
  <2>2. CASE ~(c.towers > o.towers)
    BY <1>1, <2>2 DEF AdjustForAddOrSub, AdjustLevels
  <2> QED
    BY <2>1, <2>2
<1>2. CASE Automatic /\ c.level < o.level
  <2>1. AdjustForAddOrSub(c, o) = Joined(Lower(c, o), o)
    BY <1>2 DEF AdjustForAddOrSub, AdjustLevelsAndDepth
  <2>2. Meets(Lower(c, o), c, o) /\ Behind(c, o)
    BY <1>2, LowerMeets DEF Behind
  <2> QED
    BY <1>2, <2>1, <2>2, JoinedGood
<1>3. CASE Automatic /\ ~(c.level < o.level) /\ c.level = o.level /\ c.deg < o.deg
  <2>1. AdjustForAddOrSub(c, o) = Joined(EvalMultConst(c, c.sf), o)
    BY <1>3 DEF AdjustForAddOrSub, AdjustLevelsAndDepth
  <2>2. Shaped(c) /\ c.deg = 1 /\ o.deg = 2
    BY <1>3 DEF Good
  <2>a. /\ c.level \in Int /\ c.towers \in Int /\ o.level \in Int /\ o.towers \in Int
        /\ c.level + c.towers = L /\ o.level + o.towers = L /\ c.level = o.level
    BY <1>3, ShapedInt DEF Good
  <2>3. c.towers = o.towers
    BY <2>a, ModulusFacts
  <2>4. Meets(EvalMultConst(c, c.sf), c, o) /\ Behind(c, o)
    BY <1>3, <2>2, <2>3, MultConstShape DEF Meets, Behind
  <2> QED
    BY <1>3, <2>1, <2>4, JoinedGood
<1>4. CASE Automatic /\ ~(c.level < o.level) /\ ~(c.level = o.level /\ c.deg < o.deg)
  BY <1>4 DEF AdjustForAddOrSub, AdjustLevelsAndDepth, Behind
<1> QED
  BY <1>1, <1>2, <1>3, <1>4

\* Two operands agree in level, depth and towers once adjusted.
LEMMA AdjustAgree ==
  ASSUME Automatic, NEW c, Good(c), NEW o, Good(o),
         NEW a, a = AdjustForAddOrSub(c, o), NEW b, b = AdjustForAddOrSub(o, c)
  PROVE  /\ a.level = b.level
         /\ a.deg = b.deg
         /\ a.towers = b.towers
         /\ a.depth = b.depth
         /\ a.depth \in {c.depth, o.depth}
<1>1. /\ c.level \in Int /\ c.deg \in Int /\ c.towers \in Int /\ c.depth \in Int
      /\ o.level \in Int /\ o.deg \in Int /\ o.towers \in Int /\ o.depth \in Int
      /\ L \in Int /\ Ext \in Int
  BY ShapedInt, ModulusFacts, ExtType DEF Good
<1>2. Good(a) /\ Good(b)
  BY AdjustGood
<1>3. /\ a.level \in Int /\ a.deg \in Int /\ a.towers \in Int /\ a.depth \in Int
      /\ b.level \in Int /\ b.deg \in Int /\ b.towers \in Int /\ b.depth \in Int
      /\ a.level + a.towers = L /\ b.level + b.towers = L
      /\ a.level + a.deg = a.depth + 1 + Ext
      /\ b.level + b.deg = b.depth + 1 + Ext
  BY <1>2, ShapedInt DEF Good
<1>4. ~(Behind(c, o) /\ Behind(o, c))
  BY <1>1 DEF Behind
<1>5. CASE Behind(c, o)
  <2>1. a.level = o.level /\ a.deg = o.deg /\ a.depth = o.depth /\ b = o
    BY <1>4, <1>5, AdjustGood
  <2> QED
    BY <1>1, <1>3, <2>1, SMTT(30)
<1>6. CASE Behind(o, c)
  <2>1. /\ b.level = c.level /\ b.deg = c.deg /\ b.depth = c.depth
        /\ a.level = c.level /\ a.deg = c.deg /\ a.depth = c.depth
    BY <1>4, <1>6, AdjustGood
  <2> QED
    BY <1>1, <1>3, <2>1
<1>7. CASE ~Behind(c, o) /\ ~Behind(o, c)
  <2>1. /\ a.level = c.level /\ a.deg = c.deg /\ a.depth = c.depth
        /\ b.level = o.level /\ b.deg = o.deg /\ b.depth = o.depth
    BY <1>7, AdjustGood
  <2>2. c.level = o.level /\ c.deg = o.deg
    BY <1>1, <1>7 DEF Behind
  <2>3. a.level = b.level /\ a.deg = b.deg
    BY <2>1, <2>2
  <2>a. a.towers = b.towers
    BY <1>1, <1>3, <2>3
  <2>b. a.depth = b.depth
    <3>1. a.level + a.deg = b.level + b.deg
      BY <2>3
    <3>2. /\ a.depth \in Int /\ b.depth \in Int
          /\ (a.depth + 1) + Ext = (b.depth + 1) + Ext
      BY <1>3, <3>1
    <3>3. Ext \in Int
      BY <1>1
    <3> QED
      BY <3>2, <3>3
  <2>4. a.towers = b.towers /\ a.depth = b.depth
    BY <2>a, <2>b
  <2> QED
    BY <2>1, <2>3, <2>4
<1> QED
  BY <1>5, <1>6, <1>7

\* The reduction before a product leaves a good operand.
LEMMA ReduceGood ==
  ASSUME Automatic, NEW c, Good(c), c.deg = 2, c.towers # 1
  PROVE  /\ Good(ModReduceInternal(c, 1))
         /\ ModReduceInternal(c, 1).deg = 1
         /\ ModReduceInternal(c, 1).level = c.level + 1
         /\ ModReduceInternal(c, 1).depth = c.depth
<1>1. /\ Shaped(c) /\ c.towers \in Int /\ c.level \in Int /\ c.depth \in Int
      /\ c.towers >= 1 /\ c.level >= 0 /\ c.level + c.towers = L
      /\ c.level + c.deg = c.depth + 1 + Ext
      /\ L \in Int /\ Ext \in Int
  BY ShapedInt, ModulusFacts, ExtType DEF Good
<1> DEFINE d == ModReduceInternal(c, 1)
<1>2. /\ Shaped(d)
      /\ d.towers = c.towers - 1
      /\ d.level = c.level + 1
      /\ d.deg = c.deg - 1
      /\ d.depth = c.depth
  <2>1. Shaped(c)
    BY <1>1
  <2> QED
    BY <2>1, ModReduceShape
<1> HIDE DEF d
<1>3. /\ c.towers - 1 >= 1 /\ c.level + 1 >= 0
      /\ (c.level + 1) + (c.towers - 1) = L
      /\ c.deg - 1 = 1
      /\ (c.level + 1) + 1 = c.depth + 1 + Ext
  BY <1>1
<1>4. /\ d.towers >= 1
      /\ d.level >= 0
      /\ d.level + d.towers = L
      /\ d.deg = 1
      /\ d.level + 1 = d.depth + 1 + Ext
  BY <1>2, <1>3
<1>5. Good(d)
  BY <1>2, <1>4 DEF Good
<1>6. d.deg = 1 /\ d.level = c.level + 1 /\ d.depth = c.depth
  BY <1>2, <1>4
<1> QED
  BY <1>5, <1>6 DEF d

-----------------------------------------------------------------------------
(* Products *)

\* The operands of a product are good, and of degree one if it goes on.
LEMMA AdjustMultGood ==
  ASSUME NEW c, Good(c), NEW o, Good(o), NEW adj, adj = AdjustForMult(c, o)
  PROVE  /\ Good(adj.fst)
         /\ Good(adj.snd)
         /\ (Automatic /\ adj.ok) =>
              adj.fst.deg = 1 /\ adj.snd.deg = 1 /\ adj.fst.depth = adj.snd.depth
<1> DEFINE a == AdjustForAddOrSub(c, o)
           b == AdjustForAddOrSub(o, c)
<1>1. Good(a) /\ Good(b)
  BY AdjustGood
<1>2. Automatic => a.towers = b.towers /\ a.deg = b.deg /\ a.depth = b.depth
  BY AdjustAgree
<1>3. adj = IF ~Automatic \/ a.deg # 2 THEN [fst |-> a, snd |-> b, ok |-> TRUE]
            ELSE IF a.towers = 1 THEN [fst |-> a, snd |-> b, ok |-> FALSE]
            ELSE IF b.towers = 1 THEN [fst |-> ModReduceInternal(a, 1), snd |-> b, ok |-> FALSE]
            ELSE [fst |-> ModReduceInternal(a, 1), snd |-> ModReduceInternal(b, 1), ok |-> TRUE]
  BY DEF AdjustForMult, ToDepthOne
<1> HIDE DEF a, b
<1>4. CASE ~Automatic
  BY <1>1, <1>3, <1>4
<1>5. CASE Automatic /\ a.deg # 2
  <2>1. adj = [fst |-> a, snd |-> b, ok |-> TRUE]
    BY <1>3, <1>5
  <2>2. a.deg = 1 /\ b.deg = 1
    BY <1>1, <1>2, <1>5 DEF Good
  <2> QED
    BY <1>1, <1>2, <1>5, <2>1, <2>2
<1>6. CASE Automatic /\ a.deg = 2 /\ a.towers = 1
  <2>1. adj = [fst |-> a, snd |-> b, ok |-> FALSE]
    BY <1>3, <1>6
  <2> QED
    BY <1>1, <2>1
<1>7. CASE Automatic /\ a.deg = 2 /\ a.towers # 1
  <2>1. b.towers # 1 /\ b.deg = 2
    BY <1>2, <1>7
  <2>2. adj = [fst |-> ModReduceInternal(a, 1), snd |-> ModReduceInternal(b, 1), ok |-> TRUE]
    BY <1>3, <1>7, <2>1
  <2>3. /\ Good(ModReduceInternal(a, 1)) /\ ModReduceInternal(a, 1).deg = 1
        /\ ModReduceInternal(a, 1).depth = a.depth
    BY <1>1, <1>7, ReduceGood
  <2>4. /\ Good(ModReduceInternal(b, 1)) /\ ModReduceInternal(b, 1).deg = 1
        /\ ModReduceInternal(b, 1).depth = b.depth
    BY <1>1, <1>7, <2>1, ReduceGood
  <2> QED
    BY <1>2, <1>7, <2>2, <2>3, <2>4
<1> QED
  BY <1>4, <1>5, <1>6, <1>7

\* The sum of operands of one depth is good.
LEMMA AddCoreGood ==
  ASSUME NEW c, Good(c), NEW o, Good(o), Automatic => c.depth = o.depth, NEW s
  PROVE  Good(EvalAddCore(c, o, s))
<1> DEFINE d == EvalAddCore(c, o, s)
<1>1. /\ Shaped(c) /\ Shaped(o)
      /\ c.depth \in Int /\ o.depth \in Int
  BY ShapedInt DEF Good
<1>2. /\ Shaped(d) /\ d.towers = c.towers /\ d.level = c.level /\ d.deg = c.deg
      /\ d.depth = IF c.depth < o.depth THEN o.depth ELSE c.depth
  BY <1>1 DEF EvalAddCore, Shaped, Fields
<1>3. Automatic => d.depth = c.depth
  BY <1>1, <1>2
<1> HIDE DEF d
<1>4. Good(d)
  BY <1>2, <1>3 DEF Good
<1> QED
  BY <1>4 DEF d

\* The product of operands of degree one is good.
LEMMA MultCoreGood ==
  ASSUME NEW c, Good(c), NEW o, Good(o),
         Automatic => c.deg = 1 /\ o.deg = 1 /\ c.depth = o.depth
  PROVE  Good(EvalMultCore(c, o))
<1> DEFINE d == EvalMultCore(c, o)
<1>1. /\ Shaped(c) /\ Shaped(o)
      /\ c.depth \in Int /\ o.depth \in Int /\ c.deg \in Int /\ o.deg \in Int
      /\ c.level \in Int /\ Ext \in Int
  BY ShapedInt, ExtType DEF Good
<1>2. /\ Shaped(d) /\ d.towers = c.towers /\ d.level = c.level /\ d.deg = c.deg + o.deg
      /\ d.depth = IF ~Automatic THEN 0 ELSE 1 + (IF c.depth < o.depth THEN o.depth ELSE c.depth)
  BY <1>1 DEF EvalMultCore, Shaped, Fields
<1> HIDE DEF d
<1>3. ASSUME Automatic PROVE d.deg = 2 /\ d.level + d.deg = d.depth + 1 + Ext
  <2>1. d.deg = 2 /\ d.depth = 1 + c.depth /\ d.level = c.level
    BY <1>1, <1>2, <1>3
  <2>2. c.level + 1 = c.depth + 1 + Ext
    BY <1>3 DEF Good
  <2> QED
    BY <1>1, <2>1, <2>2
<1>4. Good(d)
  BY <1>2, <1>3 DEF Good
<1> QED
  BY <1>4 DEF d

\* The operand of a square is good.
LEMMA ReducedGood ==
  ASSUME NEW c, Good(c), SquareReduces(c) => c.towers > 1
  PROVE  Good(Reduced(c)) /\ (Automatic => Reduced(c).deg = 1)
<1>1. CASE SquareReduces(c)
  <2>1. Automatic /\ c.deg = 2
    BY <1>1 DEF SquareReduces, Good
  <2>2. c.towers # 1
    BY <1>1, ShapedInt DEF Good
  <2> QED
    BY <1>1, <2>1, <2>2, ReduceGood DEF Reduced
<1>2. CASE ~SquareReduces(c)
  BY <1>2 DEF Reduced, SquareReduces
<1> QED
  BY <1>1, <1>2

-----------------------------------------------------------------------------
(* The inductive invariant: every ciphertext is Good                         *)

IInv ==
  /\ scalTech \in Techniques
  /\ DOMAIN ct = Handles
  /\ \A h \in Held : Good(ct[h])

\* Ciphertexts that stay or become good keep the invariant.
LEMMA ChangedGood ==
  ASSUME IInv, UNCHANGED scalTech, DOMAIN ct' = Handles,
         \A g \in Handles : ct'[g] = ct[g] \/ Good(ct'[g])
  PROVE  IInv'
<1>1. ASSUME NEW g \in Held' PROVE Good(ct[g])'
  <2>1. g \in Handles /\ ct'[g] # Null
    BY <1>1 DEF Held
  <2>2. Good(ct'[g])
    BY <2>1 DEF IInv, Held
  <2> QED
    BY <2>2 DEF Good, Automatic, Ext
<1> QED
  BY <1>1 DEF IInv

\* Storing adjusted operands and a result keeps the invariant.
LEMMA StoreWithGood ==
  ASSUME IInv, UNCHANGED scalTech,
         NEW a \in Handles, NEW c1, Good(c1), NEW b \in Handles, NEW c2, Good(c2),
         NEW h \in Handles, NEW c, Good(c),
         ct' = [ct EXCEPT ![a] = c1, ![b] = c2, ![h] = c]
  PROVE  IInv'
<1>1. DOMAIN ct' = Handles
  BY DEF IInv
<1>2. ASSUME NEW g \in Handles PROVE ct'[g] = ct[g] \/ Good(ct'[g])
  <2>1. ct'[g] \in {c, c1, c2} \/ ct'[g] = ct[g]
    BY DEF IInv
  <2> QED
    BY <2>1
<1> QED
  BY <1>1, <1>2, ChangedGood

\* Storing a result keeps the invariant.
LEMMA StoreGood ==
  ASSUME IInv, UNCHANGED scalTech, NEW h \in Handles, NEW c, Good(c), NEW m, Store(h, c, m)
  PROVE  IInv'
<1>1. ct' = [ct EXCEPT ![h] = c]
  BY DEF Store
<1>2. DOMAIN ct' = Handles /\ \A g \in Handles : ct'[g] = ct[g] \/ ct'[g] = c
  BY <1>1 DEF IInv
<1>3. \A g \in Handles : ct'[g] = ct[g] \/ Good(ct'[g])
  BY <1>2
<1> QED
  BY <1>2, <1>3, ChangedGood

\* At the start all ciphertexts are good.
LEMMA InitGood == Init => IInv
BY DEF Init, IInv, Held

\* Every operation leaves good ciphertexts.
LEMMA StepGood == IInv /\ [NextStep]_vars => IInv'
<1> SUFFICES ASSUME IInv, [NextStep]_vars PROVE IInv'
  OBVIOUS
<1>1. CASE UNCHANGED vars
  BY <1>1 DEF vars, IInv, Held, Good, Automatic, Ext
<1>2. CASE NextStep
  <2> USE <1>2
  <2>0. UNCHANGED scalTech
    BY DEF NextStep
  <2>1. scalTech \in Techniques
    BY DEF IInv
  <2>2. ASSUME NEW m, NEW deg \in {1, 2} PROVE Good(Fresh(m, deg))
    BY <2>1, FreshGood
  <2>3. ASSUME NEW g \in Held PROVE g \in Handles /\ Good(ct[g])
    BY DEF Held, IInv
  <2>4. ASSUME NEW c, Good(c), NEW o, Good(o), NEW s
        PROVE  /\ Good(AdjustForAddOrSub(c, o))
               /\ Good(EvalAddCore(AdjustForAddOrSub(c, o), AdjustForAddOrSub(o, c), s))
    <3>1. Good(AdjustForAddOrSub(c, o)) /\ Good(AdjustForAddOrSub(o, c))
      BY <2>4, AdjustGood
    <3>2. Automatic => AdjustForAddOrSub(c, o).depth = AdjustForAddOrSub(o, c).depth
      BY <2>4, AdjustAgree
    <3> QED
      BY <3>1, <3>2, AddCoreGood
  <2>5. ASSUME NEW c, Good(c), NEW o, Good(o)
        PROVE  /\ Good(AdjustForMult(c, o).fst)
               /\ Good(AdjustForMult(c, o).snd)
               /\ AdjustForMult(c, o).ok
                    => Good(EvalMultCore(AdjustForMult(c, o).fst, AdjustForMult(c, o).snd))
    <3> DEFINE adj == AdjustForMult(c, o)
    <3>1. /\ Good(adj.fst) /\ Good(adj.snd)
          /\ (Automatic /\ adj.ok) =>
               adj.fst.deg = 1 /\ adj.snd.deg = 1 /\ adj.fst.depth = adj.snd.depth
      BY <2>5, AdjustMultGood
    <3> HIDE DEF adj
    <3>2. adj.ok => Good(EvalMultCore(adj.fst, adj.snd))
      BY <3>1, MultCoreGood
    <3> QED
      BY <3>1, <3>2 DEF adj
  <2>6. ASSUME NEW g \in Held, SquareReduces(ct[g]) => ct[g].towers > 1
        PROVE  Good(Reduced(ct[g])) /\ Good(EvalMultCore(Reduced(ct[g]), Reduced(ct[g])))
    <3>1. Good(ct[g])
      BY <2>3
    <3>2. Good(Reduced(ct[g])) /\ (Automatic => Reduced(ct[g]).deg = 1)
      BY <2>6, <3>1, ReducedGood
    <3> QED
      BY <3>2, MultCoreGood
  <2>a. ASSUME NEW h \in Handles, NEW m \in Messages, NEW deg \in {1, 2}, Encrypt(h, m, deg)
        PROVE  IInv'
    BY <2>0, <2>2, <2>a, StoreGood DEF Encrypt
  <2>b. ASSUME NEW h \in Handles, NEW a \in Held, NEW b \in Held, NEW s \in Signs,
               EvalAdd(a, b, h, s)
        PROVE  IInv'
    BY <2>0, <2>3, <2>4, <2>b, StoreGood DEF EvalAdd
  <2>c. ASSUME NEW h \in Handles, NEW a \in Held, NEW b \in Held, NEW s \in Signs,
               EvalAddMutable(a, b, h, s)
        PROVE  IInv'
    BY <2>0, <2>3, <2>4, <2>c, StoreWithGood DEF EvalAddMutable, StoreWith
  <2>d. ASSUME NEW h \in Handles, NEW a \in Held, NEW b \in Held, EvalMult(a, b, h)
        PROVE  IInv'
    BY <2>0, <2>3, <2>5, <2>d, StoreGood DEF EvalMult
  <2>e. ASSUME NEW h \in Handles, NEW a \in Held, NEW b \in Held, EvalMultMutable(a, b, h)
        PROVE  IInv'
    BY <2>0, <2>3, <2>5, <2>e, StoreWithGood DEF EvalMultMutable, StoreWith
  <2>f. ASSUME NEW a \in Held, NEW b \in Held, EvalMultMutableThrows(a, b)
        PROVE  IInv'
    <3> DEFINE adj == AdjustForMult(ct[a], ct[b])
    <3>1. ct' = [ct EXCEPT ![a] = adj.fst, ![b] = adj.snd] /\ Good(adj.fst) /\ Good(adj.snd)
      BY <2>3, <2>5, <2>f DEF EvalMultMutableThrows
    <3> HIDE DEF adj
    <3>2. DOMAIN ct' = Handles /\ \A g \in Handles : ct'[g] \in {ct[g], adj.fst, adj.snd}
      BY <2>3, <3>1 DEF IInv
    <3>3. \A g \in Handles : ct'[g] = ct[g] \/ Good(ct'[g])
      BY <3>1, <3>2
    <3> QED
      BY <2>0, <3>2, <3>3, ChangedGood
  <2>g. ASSUME NEW h \in Handles, NEW a \in Held, NEW m \in Messages, NEW deg \in {1, 2},
               NEW s \in Signs, EvalAddPlain(a, h, m, deg, s)
        PROVE  IInv'
    BY <2>0, <2>2, <2>3, <2>4, <2>g, StoreGood DEF EvalAddPlain
  <2>h. ASSUME NEW h \in Handles, NEW a \in Held, NEW m \in Messages, NEW deg \in {1, 2},
               NEW s \in Signs, EvalAddPlainMutable(a, h, m, deg, s)
        PROVE  IInv'
    BY <2>0, <2>2, <2>3, <2>4, <2>h, StoreWithGood DEF EvalAddPlainMutable, StoreWith
  <2>i. ASSUME NEW h \in Handles, NEW a \in Held, NEW m \in Messages, NEW deg \in {1, 2},
               EvalMultPlain(a, h, m, deg)
        PROVE  IInv'
    BY <2>0, <2>2, <2>3, <2>5, <2>i, StoreGood DEF EvalMultPlain
  <2>j. ASSUME NEW h \in Handles, NEW a \in Held, NEW m \in Messages, NEW deg \in {1, 2},
               EvalMultPlainMutable(a, h, m, deg)
        PROVE  IInv'
    <3> DEFINE adj == AdjustForMult(ct[a], Fresh(m, deg))
               c == IF adj.ok THEN EvalMultCore(adj.fst, adj.snd) ELSE adj.fst
    <3>1. Good(adj.fst) /\ Good(c)
      BY <2>2, <2>3, <2>5
    <3>2. ct' = [ct EXCEPT ![a] = adj.fst, ![a] = adj.fst, ![h] = c]
          \/ ct' = [ct EXCEPT ![a] = adj.fst, ![a] = adj.fst, ![a] = c]
      BY <2>j DEF EvalMultPlainMutable, StoreWith
    <3> HIDE DEF adj, c
    <3>3. DOMAIN ct' = Handles /\ \A g \in Handles : ct'[g] \in {ct[g], adj.fst, c}
      BY <2>3, <3>2 DEF IInv
    <3>4. \A g \in Handles : ct'[g] = ct[g] \/ Good(ct'[g])
      BY <3>1, <3>3
    <3> QED
      BY <2>0, <3>3, <3>4, ChangedGood
  <2>k. ASSUME NEW h \in Handles, NEW a \in Held, EvalSquare(a, h)
        PROVE  IInv'
    BY <2>0, <2>6, <2>k, StoreGood DEF EvalSquare
  <2>l. ASSUME NEW h \in Handles, NEW a \in Held, EvalSquareMutable(a, h)
        PROVE  IInv'
    BY <2>0, <2>3, <2>6, <2>l, StoreWithGood DEF EvalSquareMutable, StoreWith
  <2>m. ASSUME NEW h \in Handles, NEW a \in Held, EvalNegate(a, h)
        PROVE  IInv'
    <3> DEFINE c == [ct[a] EXCEPT !.phase = (T - @) % T]
    <3>1. Good(ct[a])
      BY <2>3
    <3>2. Good(c)
      BY <3>1 DEF Good, Shaped, Fields
    <3> HIDE DEF c
    <3>3. Store(h, c, (T - plain[a]) % T)
      BY <2>m DEF EvalNegate, c
    <3> QED
      BY <2>0, <3>2, <3>3, StoreGood
  <2>n. ASSUME NEW h \in Handles, NEW a \in Held, NEW n \in 1 .. L, ModReduce(a, h, n)
        PROVE  IInv'
    <3>1. /\ Good(ct[a]) /\ ~Automatic /\ ct[a].towers > n
      BY <2>3, <2>n DEF ModReduce
    <3>2. Good(ModReduceInternal(ct[a], n))
      <4> DEFINE c == ct[a]
                 d == ModReduceInternal(c, n)
      <4>1. /\ Shaped(c) /\ c.towers \in Int /\ c.level \in Int /\ L \in Int /\ n \in Int
            /\ c.level >= 0 /\ c.level + c.towers = L /\ n >= 1 /\ c.towers > n
        BY <3>1, ShapedInt, ModulusFacts DEF Good
      <4>2. Shaped(d) /\ d.towers = c.towers - n /\ d.level = c.level + n
        BY <4>1, ModReduceShape
      <4> HIDE DEF c, d
      <4>3. d.towers >= 1 /\ d.level >= 0 /\ d.level + d.towers = L
        BY <4>1, <4>2
      <4> QED
        BY <3>1, <4>2, <4>3 DEF Good, c, d
    <3> QED
      BY <2>0, <2>n, <3>2, StoreGood DEF ModReduce
  <2>o. ASSUME NEW h \in Handles, NEW a \in Held, NEW n \in 1 .. L, LevelReduce(a, h, n)
        PROVE  IInv'
    <3>1. /\ Good(ct[a]) /\ ~Automatic /\ ct[a].towers > n
      BY <2>3, <2>o DEF LevelReduce
    <3>2. Good(LevelReduceInternal(ct[a], n))
      <4> DEFINE c == ct[a]
                 d == LevelReduceInternal(c, n)
      <4>1. /\ Shaped(c) /\ c.towers \in Int /\ c.level \in Int /\ L \in Int /\ n \in Int
            /\ c.level >= 0 /\ c.level + c.towers = L /\ n >= 1 /\ c.towers > n
        BY <3>1, ShapedInt, ModulusFacts DEF Good
      <4>2. Shaped(d) /\ d.towers = c.towers - n /\ d.level = c.level + n
        BY <4>1, LevelReduceShape
      <4> HIDE DEF c, d
      <4>3. d.towers >= 1 /\ d.level >= 0 /\ d.level + d.towers = L
        BY <4>1, <4>2
      <4> QED
        BY <3>1, <4>2, <4>3 DEF Good, c, d
    <3> QED
      BY <2>0, <2>o, <3>2, StoreGood DEF LevelReduce
  <2> QED
    BY <2>a, <2>b, <2>c, <2>d, <2>e, <2>f, <2>g, <2>h, <2>i, <2>j, <2>k, <2>l, <2>m,
       <2>n, <2>o DEF NextStep, Next
<1> QED
  BY <1>1, <1>2 DEF NextStep

\* Ciphertexts are good always.
LEMMA InvGood == Spec => []IInv
<1> QED
  BY InitGood, StepGood, PTL DEF Spec

-----------------------------------------------------------------------------
(* Theorems                                                                  *)

\* Levels count dropped towers, and the automatic techniques spend exactly
\* one level for each multiplication in sequence.
THEOREM LevelsCountMultiplications == Spec => []LevelInv
<1>1. IInv => LevelInv
  BY DEF IInv, Good, LevelInv
<1> QED
  BY <1>1, InvGood, PTL

\* No product of ciphertexts within the multiplicative depth of the
\* parameters throws for want of towers.
THEOREM DepthIsEnough == Spec => []DepthSuffices
<1>1. IInv => DepthSuffices
  <2> SUFFICES ASSUME IInv, NEW g \in Held, NEW h \in Held, Automatic,
                      ct[g].depth <= MultiplicativeDepth, ct[h].depth <= MultiplicativeDepth
               PROVE  AdjustForMult(ct[g], ct[h]).ok
    BY DEF DepthSuffices
  <2> DEFINE c == ct[g]
             o == ct[h]
             a == AdjustForAddOrSub(c, o)
             b == AdjustForAddOrSub(o, c)
  <2>1. Good(c) /\ Good(o)
    BY DEF IInv
  <2>2. Good(a) /\ Good(b)
    BY <2>1, AdjustGood
  <2>3. a.towers = b.towers /\ a.depth \in {c.depth, o.depth}
    BY <2>1, AdjustAgree
  <2>4. ASSUME a.deg = 2 PROVE a.towers # 1 /\ b.towers # 1
    <3>1. /\ a.level \in Int /\ a.towers \in Int /\ a.depth \in Int /\ L \in Int /\ Ext \in Int
          /\ a.level + a.towers = L /\ a.level + a.deg = a.depth + 1 + Ext
      BY <2>2, ShapedInt, ExtType, ModulusFacts DEF Good
    <3>2. a.depth <= L - 1 - Ext
      BY <2>3 DEF MultiplicativeDepth
    <3> HIDE DEF a
    <3>3. a.level + 2 = a.depth + 1 + Ext
      BY <2>4, <3>1
    <3>4. a.towers # 1
      BY <3>1, <3>2, <3>3
    <3> QED
      BY <2>3, <3>4
  <2>5. AdjustForMult(c, o).ok
    BY <2>4 DEF AdjustForMult, ToDepthOne
  <2> QED
    BY <2>5
<1> QED
  BY <1>1, InvGood, PTL

-----------------------------------------------------------------------------
Times(a, b) == (a * b) % T

Units == {x \in Residues : \E y \in Residues : Times(x, y) = 1}

\* Products of residues form a commutative monoid.
LEMMA TimesFacts ==
  ASSUME NEW a \in Int, NEW b \in Int
  PROVE  /\ Times(a, b) \in Residues
         /\ Times(a, b) \in Int
         /\ Times(a, b) = Times(b, a)
         /\ Times(a % T, b) = Times(a, b)
         /\ Times(a, b % T) = Times(a, b)
<1>1. T \in Nat /\ T > 0
  BY ModulusFacts
<1>2. a * b \in Int /\ a * b = b * a
  OBVIOUS
<1>3. (a * b) % T \in 0 .. (T - 1)
  BY <1>1, <1>2, ModRange
<1>4. Times(a % T, b) = Times(a, b) /\ Times(a, b % T) = Times(a, b)
  BY <1>1, ModAbsorb DEF Times
<1> QED
  BY <1>1, <1>2, <1>3, <1>4 DEF Times, Residues

\* Products of three residues do not depend on their order.
LEMMA TimesAssoc ==
  ASSUME NEW a \in Int, NEW b \in Int, NEW c \in Int
  PROVE  /\ Times(Times(a, b), c) = Times(a, Times(b, c))
         /\ Times(Times(a, b), c) = Times(Times(a, c), b)
         /\ Times(Times(a, b), c) = (a * b * c) % T
<1>1. T \in Nat /\ T > 0
  BY ModulusFacts
<1> DEFINE ab == a * b
           bc == b * c
           ac == a * c
<1>2. ab \in Int /\ bc \in Int /\ ac \in Int
  OBVIOUS
<1>3. ab * c = a * bc /\ ab * c = ac * b
  OBVIOUS
<1> HIDE DEF ab, bc, ac
<1>4. ((ab % T) * c) % T = (ab * c) % T /\ (a * (bc % T)) % T = (a * bc) % T
      /\ ((ac % T) * b) % T = (ac * b) % T
  BY <1>1, <1>2, ModAbsorb
<1> QED
  BY <1>3, <1>4 DEF Times, ab, bc, ac

\* One is neutral.
LEMMA TimesOne ==
  ASSUME NEW a \in Residues
  PROVE  Times(a, 1) = a /\ Times(1, a) = a
<1>1. T \in Nat /\ T > 0 /\ a \in 0 .. (T - 1) /\ a * 1 = a /\ 1 * a = a
  BY ModulusFacts DEF Residues
<1> QED
  BY <1>1, ModSmall DEF Times

\* A unit has an inverse, which is a unit.
LEMMA UnitInverse ==
  ASSUME NEW u \in Units
  PROVE  /\ u \in Residues /\ u \in Int
         /\ ModInverse(u) \in Units /\ ModInverse(u) \in Residues /\ ModInverse(u) \in Int
         /\ Times(u, ModInverse(u)) = 1
<1>1. u \in Residues /\ \E y \in Residues : (u * y) % T = 1
  BY DEF Units, Times
<1>2. ModInverse(u) \in Residues /\ (u * ModInverse(u)) % T = 1
  BY <1>1 DEF ModInverse
<1>3. u \in Int /\ ModInverse(u) \in Int
  BY <1>1, <1>2, ModulusFacts
<1>4. Times(ModInverse(u), u) = 1
  BY <1>2, <1>3, TimesFacts DEF Times
<1> QED
  BY <1>1, <1>2, <1>3, <1>4 DEF Units, Times

\* Dividing by a unit undoes multiplying by it.
LEMMA Cancel ==
  ASSUME NEW a \in Residues, NEW u \in Units
  PROVE  /\ Times(Times(a, u), ModInverse(u)) = a
         /\ Times(Times(a, ModInverse(u)), u) = a
<1> DEFINE v == ModInverse(u)
<1>1. u \in Int /\ v \in Int /\ a \in Int /\ Times(u, v) = 1
  BY UnitInverse, ModulusFacts
<1> HIDE DEF v
<1>2. Times(v, u) = 1
  BY <1>1, TimesFacts
<1>3. Times(Times(a, u), v) = Times(a, 1) /\ Times(Times(a, v), u) = Times(a, 1)
  BY <1>1, <1>2, TimesAssoc
<1> QED
  BY <1>3, TimesOne DEF v

\* Products of units are units.
LEMMA UnitProduct ==
  ASSUME NEW u \in Units, NEW v \in Units
  PROVE  Times(u, v) \in Units
<1> DEFINE x == ModInverse(u)
           y == ModInverse(v)
           w == Times(u, v)
<1>1. /\ u \in Int /\ v \in Int /\ x \in Int /\ y \in Int /\ u \in Residues
      /\ Times(u, x) = 1 /\ Times(v, y) = 1
  BY UnitInverse
<1>2. w \in Residues /\ w \in Int /\ Times(y, x) \in Residues
  BY <1>1, TimesFacts
<1>3. Times(w, y) = u
  BY Cancel, <1>1
<1> HIDE DEF x, y, w
<1>4. Times(w, Times(y, x)) = Times(Times(w, y), x)
  BY <1>1, <1>2, TimesAssoc
<1>5. Times(w, Times(y, x)) = 1
  BY <1>1, <1>3, <1>4
<1> QED
  BY <1>2, <1>5 DEF Units, w

\* One is a unit, its own inverse.
LEMMA OneIsUnit == 1 \in Units /\ ModInverse(1) = 1
<1>1. 1 \in Residues /\ Times(1, 1) = 1
  BY ModulusFacts, TimesOne
<1>2. 1 \in Units
  BY <1>1 DEF Units
<1>3. ModInverse(1) \in Residues /\ Times(1, ModInverse(1)) = 1
  BY <1>2, UnitInverse
<1> QED
  BY <1>2, <1>3, TimesOne

\* The moduli are units.
LEMMA FactorIsUnit ==
  ASSUME NEW i \in 0 .. L - 1
  PROVE  ModReduceFactorInt(i) \in Units /\ QModT[i] \in Units
<1>1. QModT[i] \in Units
  <2>1. QModT[i] \in Residues
    BY LevelAssumption, SMTT(30) DEF Residues
  <2>2. \E y \in 0 .. T - 1 : (QModT[i] * y) % T = 1
    BY LevelAssumption
  <2> QED
    BY <2>1, <2>2 DEF Units, Times, Residues
<1> QED
  BY <1>1, OneIsUnit DEF ModReduceFactorInt

-----------------------------------------------------------------------------
(* The product of the last moduli *)

Multiplies(g, S) ==
  \A s \in SUBSET S :
    g[s] = IF s = {} THEN 1
           ELSE Times(ModReduceFactorInt(CHOOSE x \in s : TRUE), g[s \ {CHOOSE x \in s : TRUE}])

\* The fold that LastModuli is.
LEMMA LastModuliFold ==
  ASSUME NEW towers, NEW n, NEW S, S = (towers - n) .. (towers - 1), IsFiniteSet(S),
         S \subseteq 0 .. L - 1
  PROVE  \E g : LastModuli(towers, n) = g[S] /\ Multiplies(g, S)
<1> DEFINE IsFold(g) == g = [s \in SUBSET S |->
                IF s = {} THEN 1
                ELSE (ModReduceFactorInt(CHOOSE x \in s : TRUE) * g[s \ {CHOOSE x \in s : TRUE}]) % T]
<1>1. LastModuli(towers, n) = (CHOOSE g : IsFold(g))[S]
  BY DEF LastModuli, FoldSet, MapThenFoldSet
<1> DEFINE F == [p \in S \X Residues |-> Times(ModReduceFactorInt(p[1]), p[2])]
           pick == [s \in SUBSET S |-> CHOOSE x \in s : TRUE]
<1>2. F \in [S \X Residues -> Residues]
  BY FactorIsUnit, UnitInverse, TimesFacts, ModulusFacts
<1>3. 1 \in Residues /\ \A s \in SUBSET S : s # {} => pick[s] \in s
  BY ModulusFacts
<1>4. PICK h : FoldsTo(h, S, Residues, 1, F, pick)
  <2>1. IsStep(F, S, Residues) /\ IsPick(pick, S)
    BY <1>2, <1>3 DEF IsStep, IsPick
  <2> HIDE DEF F, pick
  <2> QED
    BY <1>3, <2>1, FoldExists
<1>5. IsFold(h)
  <2>1. ASSUME NEW s \in SUBSET S, s # {}
        PROVE  h[s] = (ModReduceFactorInt(CHOOSE x \in s : TRUE) * h[s \ {CHOOSE x \in s : TRUE}]) % T
    <3>1. pick[s] = (CHOOSE x \in s : TRUE) /\ pick[s] \in S /\ h[s \ {pick[s]}] \in Residues
      BY <1>3, <1>4, <2>1 DEF FoldsTo
    <3>2. h[s] = F[<<pick[s], h[s \ {pick[s]}]>>]
      BY <1>4, <2>1 DEF FoldsTo
    <3> HIDE DEF pick
    <3>3. h[s] = Times(ModReduceFactorInt(pick[s]), h[s \ {pick[s]}])
      BY <3>1, <3>2
    <3> QED
      BY <3>1, <3>3 DEF Times
  <2>2. \A s \in SUBSET S : s = {} => h[s] = 1
    BY <1>4 DEF FoldsTo
  <2>3. h = [s \in SUBSET S |-> h[s]]
    BY <1>4 DEF FoldsTo
  <2> HIDE DEF F, pick
  <2> QED
    BY <2>1, <2>2, <2>3
<1>6. IsFold(CHOOSE g : IsFold(g))
  <2> HIDE DEF IsFold
  <2> QED
    BY <1>5
<1> DEFINE g == CHOOSE g : IsFold(g)
<1>7. Multiplies(g, S)
  <2>1. g = [s \in SUBSET S |->
                IF s = {} THEN 1
                ELSE (ModReduceFactorInt(CHOOSE x \in s : TRUE) * g[s \ {CHOOSE x \in s : TRUE}]) % T]
    BY <1>6
  <2> HIDE DEF g
  <2> QED
    BY <2>1 DEF Times, Multiplies
<1> QED
  BY <1>1, <1>7

\* A set of residues closed under products with moduli holds the product of
\* the last ones.
LEMMA LastModuliIn ==
  ASSUME NEW towers \in 1 .. L, NEW n \in 0 .. towers, NEW G, 1 \in G,
         \A i \in 0 .. L - 1, v \in G : Times(ModReduceFactorInt(i), v) \in G
  PROVE  LastModuli(towers, n) \in G
<1> DEFINE S == (towers - n) .. (towers - 1)
<1>1. IsFiniteSet(S) /\ S \subseteq 0 .. L - 1
  <2>1. towers \in Int /\ n \in Int /\ towers - n \in Int /\ towers - 1 \in Int
        /\ towers - n >= 0 /\ towers - 1 <= L - 1 /\ L \in Int
    BY LevelAssumption
  <2> QED
    BY <2>1, FS_Interval
<1>2. PICK g : LastModuli(towers, n) = g[S] /\ Multiplies(g, S)
  BY <1>1, LastModuliFold
<1> HIDE DEF S
<1> DEFINE H == {s \in SUBSET S : g[s] \in G}
<1>3. {} \in H
  BY <1>2 DEF Multiplies
<1>4. ASSUME NEW s \in SUBSET S, s # {} PROVE \E x \in s : s \ {x} \in H => s \in H
  <2> DEFINE x == CHOOSE x \in s : TRUE
  <2>1. x \in s /\ x \in 0 .. L - 1
    BY <1>1, <1>4
  <2>2. g[s] = Times(ModReduceFactorInt(x), g[s \ {x}])
    BY <1>2, <1>4 DEF Multiplies
  <2> HIDE DEF x
  <2>3. s \ {x} \in H => s \in H
    BY <2>1, <2>2
  <2> QED
    BY <2>1, <2>3
<1> HIDE DEF H
<1>5. Inherits(H, S)
  BY <1>3, <1>4 DEF Inherits
<1>6. S \in H
  BY <1>1, <1>5, FoldInduction
<1> QED
  BY <1>2, <1>6 DEF H

\* The product of the last moduli is a unit, and one without FLEXIBLE
\* techniques.
LEMMA LastModuliUnit ==
  ASSUME NEW towers \in 1 .. L, NEW n \in 0 .. towers
  PROVE  /\ LastModuli(towers, n) \in Units
         /\ scalTech \notin Flexible => LastModuli(towers, n) = 1
<1>1. LastModuli(towers, n) \in Units
  <2>1. 1 \in Units /\ \A i \in 0 .. L - 1, v \in Units : Times(ModReduceFactorInt(i), v) \in Units
    BY OneIsUnit, FactorIsUnit, UnitProduct
  <2> QED
    BY <2>1, LastModuliIn
<1>2. ASSUME scalTech \notin Flexible PROVE LastModuli(towers, n) \in {1}
  <2>1. \A i \in 0 .. L - 1, v \in {1} : Times(ModReduceFactorInt(i), v) \in {1}
    BY <1>2, TimesOne, ModulusFacts DEF ModReduceFactorInt
  <2> QED
    BY <2>1, LastModuliIn
<1> QED
  BY <1>1, <1>2

\* The last modulus alone.
LEMMA LastModulusIs ==
  ASSUME NEW towers \in 1 .. L
  PROVE  LastModuli(towers, 1) = ModReduceFactorInt(towers - 1)
<1> DEFINE S == (towers - 1) .. (towers - 1)
           f == ModReduceFactorInt(towers - 1)
<1>1. towers - 1 \in 0 .. L - 1 /\ S = {towers - 1}
  BY LevelAssumption
<1>2. IsFiniteSet(S) /\ S \subseteq 0 .. L - 1
  BY <1>1, FS_Singleton
<1>3. PICK g : LastModuli(towers, 1) = g[S] /\ Multiplies(g, S)
  BY <1>2, LastModuliFold
<1>4. (CHOOSE x \in S : TRUE) = towers - 1 /\ S \ {towers - 1} = {} /\ S # {}
  BY <1>1
<1> HIDE DEF S
<1>5. g[S] = Times(f, g[{}]) /\ g[{}] = 1
  BY <1>3, <1>4 DEF Multiplies
<1>6. f \in Residues
  BY <1>1, FactorIsUnit, UnitInverse
<1> HIDE DEF f
<1>7. g[S] = f
  BY <1>5, <1>6, TimesOne
<1> QED
  BY <1>3, <1>7 DEF f

-----------------------------------------------------------------------------
(* The tables of scaling factors *)

ExtOf(tech) == IF tech = "FLEXIBLEAUTOEXT" THEN 1 ELSE 0

\* The tables satisfy the recurrence they are computed with.
LEMMA TableEquations ==
  ASSUME NEW tech \in Flexible, NEW k \in 0 .. L - 1
  PROVE  LET sf == ScalingFactorsInt[tech]
         IN  /\ sf[k] \in Residues
             /\ k <= ExtOf(tech) => sf[k] = QModT[L - 1 - k]
             /\ (k > ExtOf(tech) /\ k < L - ExtOf(tech)) =>
                  /\ sf[k - 1] \in Residues
                  /\ sf[k] = Times(Times(sf[k - 1], sf[k - 1]), ModInverse(QModT[L - k]))
<1> DEFINE ext == ExtOf(tech)
           n == L - 1
           Later(v, j) == IF j <= ext THEN QModT[L - 1 - j]
                          ELSE IF j < L - ext THEN (v * v * ModInverse(QModT[L - j])) % T
                          ELSE 0
           IsTable(f) == f = [j \in 0 .. n |-> Later(f[j - 1], j)]
           F == [p \in (1 .. n) \X Residues |-> Later(p[2], p[1])]
<1>1. ScalingFactorsInt[tech] = CHOOSE f : IsTable(f)
  BY DEF ScalingFactorsInt, ExtOf
<1>2. n \in Nat /\ n >= 1 /\ ext \in {0, 1}
  BY ModulusFacts DEF ExtOf
<1>3. ASSUME NEW j \in 1 .. n, NEW v \in Residues
      PROVE  /\ Later(v, j) \in Residues
             /\ (j > ext /\ j < L - ext) =>
                  Later(v, j) = Times(Times(v, v), ModInverse(QModT[L - j]))
  <2>1. L - j \in 0 .. L - 1 /\ L - 1 - j \in 0 .. L - 1 /\ v \in Int
    BY <1>2, ModulusFacts
  <2>2. /\ QModT[L - j] \in Units /\ QModT[L - 1 - j] \in Residues
        /\ ModInverse(QModT[L - j]) \in Int
    BY <2>1, FactorIsUnit, UnitInverse
  <2> DEFINE i == ModInverse(QModT[L - j])
  <2>3. (v * v * i) % T = Times(Times(v, v), i) /\ Times(Times(v, v), i) \in Residues
    <3>1. i \in Int
      BY <2>2
    <3> HIDE DEF i
    <3> QED
      <4>1. Times(Times(v, v), i) = (v * v * i) % T
        BY <2>1, <3>1, TimesAssoc
      <4>2. Times(v, v) \in Int
        BY <2>1, TimesFacts
      <4> DEFINE y == Times(v, v)
      <4> HIDE DEF y
      <4>3. Times(y, i) \in Residues
        BY <3>1, <4>2, TimesFacts DEF y
      <4> QED
        BY <4>1, <4>3 DEF y
  <2>4. (j > ext /\ j < L - ext) => ~(j <= ext)
    BY <1>2
  <2> HIDE DEF ext
  <2> QED
    BY <2>2, <2>3, <2>4, ModulusFacts
<1>4. QModT[L - 1] \in Residues
  BY <1>2, FactorIsUnit, UnitInverse, ModulusFacts
<1>5. IsStep(F, 1 .. n, Residues)
  <2> HIDE DEF Later, n
  <2> QED
    BY <1>3 DEF IsStep
<1>6. PICK f : Recurs(f, n, Residues, QModT[L - 1], F)
  <2> HIDE DEF F, n
  <2> QED
    BY <1>2, <1>4, <1>5, RecursionExists
<1>7. IsTable(f)
  <2>1. f = [j \in 0 .. n |-> f[j]]
    BY <1>6 DEF Recurs
  <2>2. f[0] = Later(f[0 - 1], 0)
    <3>1. 0 <= ext /\ L - 1 - 0 = L - 1
      BY <1>2, ModulusFacts
    <3> QED
      BY <1>6, <3>1 DEF Recurs
  <2>3. ASSUME NEW j \in 1 .. n PROVE f[j] = Later(f[j - 1], j)
    <3>1. f[j] = F[<<j, f[j - 1]>>] /\ f[j - 1] \in Residues
      <4>1. j - 1 \in 0 .. n
        BY <1>2
      <4> QED
        BY <1>6, <4>1 DEF Recurs
    <3> HIDE DEF Later, n
    <3> QED
      BY <3>1
  <2> HIDE DEF Later
  <2>4. \A j \in 0 .. n : f[j] = Later(f[j - 1], j)
    <3>1. \A j \in 0 .. n : j = 0 \/ j \in 1 .. n
      BY <1>2
    <3> QED
      BY <2>2, <2>3, <3>1
  <2> HIDE DEF n
  <2> QED
    BY <2>1, <2>4
<1> DEFINE sf == CHOOSE g : IsTable(g)
<1>8. IsTable(sf)
  <2> HIDE DEF IsTable
  <2> QED
    BY <1>7
<1> HIDE DEF sf
<1>9. \A j \in 0 .. n : sf[j] = Later(sf[j - 1], j)
  <2> HIDE DEF Later
  <2> QED
    BY <1>8
<1>10. \A j \in 0 .. n : sf[j] \in Residues
  <2> DEFINE G == {j \in 0 .. n : sf[j] \in Residues}
  <2>1. 0 \in G
    <3>1. 0 <= ext /\ L - 1 - 0 = L - 1 /\ 0 \in 0 .. n
      BY <1>2, ModulusFacts
    <3> QED
      BY <1>4, <1>9, <3>1
  <2>2. ASSUME NEW j \in 0 .. (n - 1), j \in G PROVE j + 1 \in G
    <3>1. j + 1 \in 1 .. n /\ j + 1 \in 0 .. n /\ (j + 1) - 1 = j
      BY <1>2
    <3>2. sf[j + 1] = Later(sf[j], j + 1)
      <4> HIDE DEF Later
      <4> QED
        BY <1>9, <3>1
    <3> HIDE DEF Later, n
    <3> QED
      BY <1>3, <2>2, <3>1, <3>2
  <2> HIDE DEF G, n
  <2>3. \A j \in 0 .. n : j \in G
    BY <1>2, <2>1, <2>2, UpTo
  <2> QED
    BY <2>3 DEF G
<1>11. sf[k] \in Residues
  BY <1>10
<1>12. k <= ext => sf[k] = QModT[L - 1 - k]
  BY <1>9
<1>13. ASSUME k > ext, k < L - ext
       PROVE  /\ sf[k - 1] \in Residues
              /\ sf[k] = Times(Times(sf[k - 1], sf[k - 1]), ModInverse(QModT[L - k]))
  <2>1. k \in 1 .. n /\ k \in 0 .. n /\ k - 1 \in 0 .. n
    BY <1>2, <1>13
  <2>2. sf[k - 1] \in Residues
    BY <1>10, <2>1
  <2>3. sf[k] = Later(sf[k - 1], k)
    <3> HIDE DEF Later, n
    <3> QED
      BY <1>9, <2>1
  <2> HIDE DEF Later, n
  <2> QED
    BY <1>3, <1>13, <2>1, <2>2, <2>3
<1> QED
  BY <1>1, <1>11, <1>12, <1>13 DEF sf

\* The factors a table holds are units.
LEMMA TableUnits ==
  ASSUME NEW tech \in Flexible, NEW k \in 0 .. L - 1,
         k < L - ExtOf(tech) \/ k <= ExtOf(tech)
  PROVE  ScalingFactorsInt[tech][k] \in Units
<1> DEFINE sf == ScalingFactorsInt[tech]
           ext == ExtOf(tech)
           G == {j \in 0 .. (L - 1) : (j < L - ext \/ j <= ext) => sf[j] \in Units}
<1>1. L - 1 \in Nat /\ ext \in {0, 1}
  BY ModulusFacts DEF ExtOf
<1>2. ASSUME NEW j \in 0 .. L - 1, j <= ext PROVE sf[j] \in Units
  <2>1. sf[j] = QModT[L - 1 - j] /\ L - 1 - j \in 0 .. L - 1
    BY <1>1, <1>2, TableEquations
  <2> QED
    BY <2>1, FactorIsUnit
<1>3. 0 \in G
  BY <1>1, <1>2
<1>4. ASSUME NEW j \in 0 .. (L - 1) - 1, j \in G PROVE j + 1 \in G
  <2>1. j + 1 \in 0 .. L - 1 /\ j \in 0 .. L - 1 /\ (j + 1) - 1 = j /\ L - (j + 1) \in 0 .. L - 1
    BY <1>1, ModulusFacts
  <2>2. CASE j + 1 <= ext
    BY <1>2, <2>1, <2>2
  <2>3. CASE j + 1 > ext /\ j + 1 < L - ext
    <3>1. sf[j] \in Units
      <4>1. j < L - ext
        BY <1>1, <2>3, ModulusFacts
      <4> HIDE DEF sf, ext
      <4> QED
        BY <1>4, <4>1
    <3>2. sf[j + 1] = Times(Times(sf[j], sf[j]), ModInverse(QModT[L - (j + 1)]))
      BY <2>1, <2>3, TableEquations
    <3> HIDE DEF sf
    <3>3. Times(sf[j], sf[j]) \in Units /\ ModInverse(QModT[L - (j + 1)]) \in Units
      BY <2>1, <3>1, UnitProduct, FactorIsUnit, UnitInverse
    <3>4. sf[j + 1] \in Units
      BY <3>2, <3>3, UnitProduct
    <3> QED
      BY <2>1, <3>4
  <2>4. CASE ~(j + 1 <= ext) /\ ~(j + 1 < L - ext)
    BY <2>1, <2>4
  <2> QED
    BY <1>1, <2>1, <2>2, <2>3, <2>4
<1> HIDE DEF G
<1>5. \A j \in 0 .. (L - 1) : j \in G
  BY <1>1, <1>3, <1>4, UpTo
<1> QED
  BY <1>5 DEF G

\* The factor of a level and a degree.
Canon(l, d) ==
  IF d = 2 /\ l = 0 THEN
       IF scalTech = "FLEXIBLEAUTOEXT" THEN GetScalingFactorIntBig(0)
       ELSE Times(LevelFactor(0), LevelFactor(0))
  ELSE IF d = 2 THEN Times(LevelFactor(l), LevelFactor(l))
  ELSE LevelFactor(l)

\* The second table holds the factors of degree two.
LEMMA BigIsCanon ==
  ASSUME NEW l \in 0 .. L - 2
  PROVE  GetScalingFactorIntBig(l) = Canon(l, 2)
<1>1. L - 2 \in Nat /\ l # L - 1 /\ 0 # L - 1
  BY ModulusFacts
<1>2. CASE scalTech \in Flexible
  <2>1. GetScalingFactorIntBig(l) = ScalingFactorsIntBig[scalTech][l]
        /\ GetScalingFactorInt(l) = ScalingFactorsInt[scalTech][l]
        /\ GetScalingFactorInt(0) = ScalingFactorsInt[scalTech][0]
    BY <1>2 DEF GetScalingFactorIntBig, GetScalingFactorInt
  <2>2. LevelFactor(l) = GetScalingFactorInt(l) /\ LevelFactor(0) = GetScalingFactorInt(0)
    BY <1>1 DEF LevelFactor
  <2>3. ScalingFactorsIntBig[scalTech][l] =
          IF l = 0 /\ scalTech = "FLEXIBLEAUTOEXT"
          THEN (ScalingFactorsInt[scalTech][0] * ScalingFactorsInt[scalTech][1]) % T
          ELSE (ScalingFactorsInt[scalTech][l] * ScalingFactorsInt[scalTech][l]) % T
    BY <1>2 DEF ScalingFactorsIntBig
  <2> QED
    BY <2>1, <2>2, <2>3 DEF Canon, Times
<1>3. CASE scalTech \notin Flexible
  <2>1. GetScalingFactorIntBig(l) = 1 /\ LevelFactor(0) = 1 /\ LevelFactor(l) = 1
        /\ scalTech # "FLEXIBLEAUTOEXT"
    BY <1>3 DEF GetScalingFactorIntBig, LevelFactor, GetScalingFactorInt, Flexible
  <2>2. Times(1, 1) = 1
    BY TimesOne, ModulusFacts
  <2> QED
    BY <2>1, <2>2 DEF Canon
<1> QED
  BY <1>2, <1>3

\* Factors of levels are units.
LEMMA LevelFactorUnit ==
  ASSUME NEW l \in 0 .. L - 1
  PROVE  LevelFactor(l) \in Units
<1>1. CASE scalTech \notin Flexible
  BY <1>1, OneIsUnit DEF LevelFactor, GetScalingFactorInt, Flexible
<1>2. CASE scalTech \in Flexible /\ ~(l = L - 1 /\ scalTech = "FLEXIBLEAUTOEXT")
  <2>1. LevelFactor(l) = ScalingFactorsInt[scalTech][l]
    BY <1>2 DEF LevelFactor, GetScalingFactorInt
  <2>2. l < L - ExtOf(scalTech)
    BY <1>2, ModulusFacts DEF ExtOf
  <2> QED
    BY <1>2, <2>1, <2>2, TableUnits
<1>3. CASE l = L - 1 /\ scalTech = "FLEXIBLEAUTOEXT"
  <2>1. /\ L - 2 \in 0 .. L - 1 /\ L - 2 \in 0 .. L - 2 /\ L - 2 < L - 1 /\ 1 \in 0 .. L - 1
        /\ 0 \in 0 .. L - 1 /\ l - 1 = L - 2 /\ 1 <= 1 /\ 0 <= 1
    BY <1>3, ModulusFacts
  <2> DEFINE sf == ScalingFactorsInt[scalTech]
  <2>2. scalTech \in Flexible /\ ExtOf(scalTech) = 1
    BY <1>3 DEF Flexible, ExtOf
  <2>3. sf[L - 2] \in Units /\ sf[0] \in Units /\ sf[1] \in Units
    BY <2>1, <2>2, TableUnits
  <2>4. GetScalingFactorIntBig(L - 2) =
          IF L - 2 = 0 /\ scalTech = "FLEXIBLEAUTOEXT" THEN (sf[0] * sf[1]) % T
          ELSE (sf[L - 2] * sf[L - 2]) % T
    BY <2>1, <2>2 DEF GetScalingFactorIntBig, ScalingFactorsIntBig
  <2> HIDE DEF sf
  <2>5. GetScalingFactorIntBig(L - 2) \in Units
    BY <2>3, <2>4, UnitProduct DEF Times
  <2>6. ModInverse(QModT[1]) \in Units
    BY <2>1, FactorIsUnit, UnitInverse
  <2>7. LevelFactor(l) = Times(GetScalingFactorIntBig(L - 2), ModInverse(QModT[1]))
    BY <1>3, <2>1 DEF LevelFactor, Times
  <2> QED
    BY <2>5, <2>6, <2>7, UnitProduct
<1> QED
  BY <1>1, <1>2, <1>3

\* ... and so are those of a level and a degree.
LEMMA CanonUnit ==
  ASSUME NEW l \in 0 .. L - 1, NEW d
  PROVE  Canon(l, d) \in Units
<1>1. LevelFactor(l) \in Units /\ Times(LevelFactor(l), LevelFactor(l)) \in Units
  BY LevelFactorUnit, UnitProduct
<1>2. CASE d = 2 /\ l = 0 /\ scalTech = "FLEXIBLEAUTOEXT"
  <2> DEFINE sf == ScalingFactorsInt[scalTech]
  <2>1. scalTech \in Flexible /\ ExtOf(scalTech) = 1 /\ 0 \in 0 .. L - 1 /\ 1 \in 0 .. L - 1
        /\ 0 <= 1 /\ 1 <= 1 /\ 0 \in 0 .. L - 2
    BY <1>2, ModulusFacts DEF Flexible, ExtOf
  <2>2. sf[0] \in Units /\ sf[1] \in Units
    BY <2>1, TableUnits
  <2>3. GetScalingFactorIntBig(0) = Times(sf[0], sf[1])
    BY <1>2, <2>1 DEF GetScalingFactorIntBig, ScalingFactorsIntBig, Times
  <2> HIDE DEF sf
  <2> QED
    BY <1>2, <2>2, <2>3, UnitProduct DEF Canon
<1> QED
  BY <1>1, <1>2 DEF Canon

\* Without FLEXIBLE techniques all factors are one.
LEMMA CanonFixed ==
  ASSUME scalTech \notin Flexible, NEW l, NEW d
  PROVE  Canon(l, d) = 1
<1>1. LevelFactor(0) = 1 /\ LevelFactor(l) = 1 /\ scalTech # "FLEXIBLEAUTOEXT"
  BY DEF LevelFactor, GetScalingFactorInt, Flexible
<1>2. Times(1, 1) = 1
  BY TimesOne, ModulusFacts
<1> QED
  BY <1>1, <1>2 DEF Canon

\* The square of the factor of degree one is that of degree two.
LEMMA SquareCanon ==
  ASSUME NEW l \in 0 .. L - 1, l = 0 => scalTech # "FLEXIBLEAUTOEXT"
  PROVE  Canon(l, 2) = Times(Canon(l, 1), Canon(l, 1))
BY DEF Canon

\* Dropping a modulus takes the factor of degree two to that of degree one of
\* the next level.
LEMMA ReduceCanon ==
  ASSUME NEW l \in 0 .. L - 2
  PROVE  Times(Canon(l, 2), ModInverse(ModReduceFactorInt(L - 1 - l))) = Canon(l + 1, 1)
<1>1. CASE scalTech \notin Flexible
  <2>1. Canon(l, 2) = 1 /\ Canon(l + 1, 1) = 1 /\ ModReduceFactorInt(L - 1 - l) = 1
    BY <1>1, CanonFixed DEF ModReduceFactorInt
  <2> QED
    BY <2>1, OneIsUnit, TimesOne, ModulusFacts
<1>2. CASE scalTech \in Flexible
  <2> DEFINE k == l + 1
             sf == ScalingFactorsInt[scalTech]
             inv == ModInverse(QModT[L - k])
             big == GetScalingFactorIntBig(l)
  <2>1. /\ k \in 1 .. L - 1 /\ k \in 0 .. L - 1 /\ k - 1 = l /\ L - k = L - 1 - l
        /\ L - k \in 0 .. L - 1 /\ 0 \in 0 .. L - 1 /\ l \in 0 .. L - 1 /\ l # L - 1 /\ 1 \in 0 .. L - 1
    BY ModulusFacts
  <2>2. ModReduceFactorInt(L - 1 - l) = QModT[L - k] /\ Canon(l, 2) = big
    BY <1>2, <2>1, BigIsCanon DEF ModReduceFactorInt
  <2>3. Canon(k, 1) = LevelFactor(k)
    BY <2>1 DEF Canon
  <2>4. big = IF l = 0 /\ scalTech = "FLEXIBLEAUTOEXT" THEN Times(sf[0], sf[1])
              ELSE Times(sf[l], sf[l])
    BY <1>2 DEF GetScalingFactorIntBig, ScalingFactorsIntBig, Times
  <2>5. CASE k = L - 1 /\ scalTech = "FLEXIBLEAUTOEXT"
    <3>1. L - k = 1
      BY <2>1, <2>5, ModulusFacts
    <3>2. LevelFactor(k) = Times(big, ModInverse(QModT[1]))
      BY <2>1, <2>5 DEF LevelFactor, Times
    <3> QED
      BY <2>2, <2>3, <3>1, <3>2
  <2>6. CASE ~(k = L - 1 /\ scalTech = "FLEXIBLEAUTOEXT") /\ k <= ExtOf(scalTech)
    <3>1. k = 1 /\ l = 0 /\ scalTech = "FLEXIBLEAUTOEXT" /\ ExtOf(scalTech) = 1 /\ 0 <= 1 /\ L - k = L - 1 - 0
      BY <2>1, <2>6 DEF ExtOf
    <3>2. sf[0] = QModT[L - k] /\ sf[1] \in Residues /\ sf[0] \in Residues
      BY <1>2, <2>1, <3>1, TableEquations
    <3>3. LevelFactor(k) = sf[1]
      BY <1>2, <2>1, <2>6, <3>1 DEF LevelFactor, GetScalingFactorInt
    <3>4. big = Times(sf[1], QModT[L - k])
      <4>1. big = Times(sf[0], sf[1])
        BY <2>4, <3>1
      <4>2. sf[0] \in Int /\ sf[1] \in Int
        BY <3>2, ModulusFacts
      <4> HIDE DEF big, sf
      <4>3. Times(sf[0], sf[1]) = Times(sf[1], sf[0])
        BY <4>2, TimesFacts
      <4> QED
        BY <3>2, <4>1, <4>3
    <3>5. QModT[L - k] \in Units
      BY <2>1, FactorIsUnit
    <3> HIDE DEF sf, big
    <3>6. Times(big, inv) = sf[1]
      BY <3>2, <3>4, <3>5, Cancel
    <3> QED
      BY <2>2, <2>3, <3>3, <3>6
  <2>7. CASE ~(k = L - 1 /\ scalTech = "FLEXIBLEAUTOEXT") /\ ~(k <= ExtOf(scalTech))
    <3>1. k > ExtOf(scalTech) /\ k < L - ExtOf(scalTech) /\ ~(l = 0 /\ scalTech = "FLEXIBLEAUTOEXT")
      BY <2>1, <2>7, ModulusFacts DEF ExtOf
    <3>2. sf[k] = Times(Times(sf[l], sf[l]), inv)
      BY <1>2, <2>1, <3>1, TableEquations
    <3>3. LevelFactor(k) = sf[k]
      BY <1>2, <2>7 DEF LevelFactor, GetScalingFactorInt
    <3> QED
      BY <2>2, <2>3, <2>4, <3>1, <3>2, <3>3
  <2> QED
    BY <2>5, <2>6, <2>7
<1> QED
  BY <1>1, <1>2

-----------------------------------------------------------------------------
(* What a ciphertext decrypts to *)

\* The phase is the message times the factor, and the factor can be divided by.
Encodes(c, m) ==
  /\ m \in Residues
  /\ c.sf \in Units
  /\ c.phase = Times(m, c.sf)

Record == [towers : Int, level : Int, deg : Int, sf : Residues, phase : Residues, depth : Int]

\* Records of this shape.
LEMMA RecordFacts ==
  ASSUME NEW c \in Record
  PROVE  /\ Shaped(c)
         /\ c.towers \in Int /\ c.level \in Int /\ c.deg \in Int /\ c.depth \in Int
         /\ c.sf \in Residues /\ c.sf \in Int
         /\ c.phase \in Residues /\ c.phase \in Int
<1>1. Shaped(c) /\ c.sf \in Residues /\ c.phase \in Residues
  BY DEF Record, Shaped, Fields
<1> QED
  BY <1>1, ModulusFacts DEF Shaped

\* Dividing message times factor divides the factor.
LEMMA ScaledCode ==
  ASSUME NEW m \in Residues, NEW u \in Units, NEW v \in Units
  PROVE  /\ Times(Times(m, u), v) = Times(m, Times(u, v))
         /\ Times(u, v) \in Units
<1>1. m \in Int /\ u \in Int /\ v \in Int
  BY UnitInverse, ModulusFacts
<1> QED
  BY <1>1, TimesAssoc, UnitProduct

\* A modulus reduction divides phase and factor.
LEMMA ModReduceValue ==
  ASSUME NEW c \in Record, c.towers \in 1 .. L, NEW n \in 0 .. c.towers, NEW m, Encodes(c, m)
  PROVE  /\ ModReduceInternal(c, n) \in Record
         /\ Encodes(ModReduceInternal(c, n), m)
         /\ ModReduceInternal(c, n).sf = Times(c.sf, ModInverse(LastModuli(c.towers, n)))
<1> DEFINE inv == ModInverse(LastModuli(c.towers, n))
           d == ModReduceInternal(c, n)
<1>1. inv \in Units /\ inv \in Int
  BY LastModuliUnit, UnitInverse
<1>2. d = [c EXCEPT !.towers = @ - n, !.level = @ + n, !.deg = @ - n,
                    !.phase = Times(@, inv), !.sf = Times(@, inv)]
  BY DEF ModReduceInternal, Times
<1> DEFINE tw == c.towers - n
           lv == c.level + n
           dg == c.deg - n
           ph == Times(c.phase, inv)
           sf == Times(c.sf, inv)
<1>3. tw \in Int /\ lv \in Int /\ dg \in Int
  BY RecordFacts
<1> HIDE DEF inv
<1>4. ph \in Residues /\ sf \in Residues
  BY <1>1, RecordFacts, TimesFacts
<1>a. d = [c EXCEPT !.towers = tw, !.level = lv, !.deg = dg, !.phase = ph, !.sf = sf]
  BY <1>2
<1> HIDE DEF d, tw, lv, dg, ph, sf
<1>5. d \in Record /\ d.phase = ph /\ d.sf = sf
  BY <1>3, <1>4, <1>a DEF Record
<1>6. Encodes(d, m)
  <2>1. m \in Residues /\ c.sf \in Units /\ c.phase = Times(m, c.sf)
    BY DEF Encodes
  <2>2. Times(Times(m, c.sf), inv) = Times(m, Times(c.sf, inv)) /\ Times(c.sf, inv) \in Units
    BY <1>1, <2>1, ScaledCode
  <2> QED
    BY <1>5, <2>1, <2>2 DEF Encodes, ph, sf
<1> QED
  BY <1>5, <1>6 DEF inv, d, sf

\* A level reduction keeps them.
LEMMA LevelReduceValue ==
  ASSUME NEW c \in Record, NEW n \in Int, NEW m, Encodes(c, m)
  PROVE  /\ LevelReduceInternal(c, n) \in Record
         /\ Encodes(LevelReduceInternal(c, n), m)
         /\ LevelReduceInternal(c, n).sf = c.sf
<1> DEFINE d == LevelReduceInternal(c, n)
           tw == c.towers - n
           lv == c.level + n
<1>a. tw \in Int /\ lv \in Int
  BY RecordFacts
<1>b. d = [c EXCEPT !.towers = tw, !.level = lv]
  BY DEF LevelReduceInternal
<1> HIDE DEF d, tw, lv
<1>1. d \in Record /\ d.sf = c.sf /\ d.phase = c.phase
  BY <1>a, <1>b DEF Record
<1> QED
  BY <1>1 DEF Encodes, d

\* A constant that can be multiplied with: a unit, and one without FLEXIBLE.
IsScale(k) == k \in Units /\ (scalTech \notin Flexible => k = 1)

\* A product with a constant multiplies them.
LEMMA MultConstValue ==
  ASSUME NEW c \in Record, NEW k, IsScale(k), NEW m, Encodes(c, m)
  PROVE  /\ EvalMultConst(c, k) \in Record
         /\ Encodes(EvalMultConst(c, k), m)
         /\ EvalMultConst(c, k).sf = Times(c.sf, k)
<1> DEFINE d == EvalMultConst(c, k)
<1>1. k \in Units /\ k \in Int /\ (scalTech \notin Flexible => k = 1)
  BY UnitInverse DEF IsScale
<1>2. Times(c.phase, k) \in Residues /\ Times(c.sf, k) \in Residues
      /\ (scalTech \notin Flexible => Times(c.sf, k) = c.sf)
  BY <1>1, RecordFacts, TimesFacts, TimesOne
<1> DEFINE dg == c.deg + 1
           ph == Times(c.phase, k)
           sf == Times(c.sf, k)
<1>a. dg \in Int
  BY RecordFacts
<1>b. ph \in Residues /\ sf \in Residues
  BY <1>2
<1>3. d = [c EXCEPT !.deg = dg, !.phase = ph, !.sf = sf]
  BY <1>2 DEF EvalMultConst, Times
<1> HIDE DEF d, dg, ph, sf
<1>4. d \in Record /\ d.phase = ph /\ d.sf = sf
  BY <1>a, <1>b, <1>3 DEF Record
<1>5. Encodes(d, m)
  <2>1. m \in Residues /\ c.sf \in Units /\ c.phase = Times(m, c.sf)
    BY DEF Encodes
  <2>2. Times(Times(m, c.sf), k) = Times(m, Times(c.sf, k)) /\ Times(c.sf, k) \in Units
    BY <1>1, <2>1, ScaledCode
  <2> QED
    BY <1>4, <2>1, <2>2 DEF Encodes, ph, sf
<1> QED
  BY <1>4, <1>5 DEF d, sf

\* Declaring the factor it has changes nothing.
LEMMA AdoptValue ==
  ASSUME NEW c \in Record, NEW o, o.sf = c.sf, NEW m, Encodes(c, m)
  PROVE  /\ Adopt(c, o) \in Record
         /\ Encodes(Adopt(c, o), m)
         /\ Adopt(c, o).sf = o.sf
<1>1. Adopt(c, o) \in Record /\ Adopt(c, o).sf = o.sf /\ Adopt(c, o).phase = c.phase
  BY RecordFacts DEF Adopt, Record
<1> QED
  BY <1>1 DEF Encodes

\* Multiplied by the quotient of two factors, a ciphertext has the other.
LEMMA RescaledValue ==
  ASSUME NEW c \in Record, NEW m, Encodes(c, m), NEW x \in Units,
         scalTech \notin Flexible => x = 1 /\ c.sf = 1
  PROVE  LET d == EvalMultConst(c, (x * ModInverse(c.sf)) % T)
         IN  d \in Record /\ Encodes(d, m) /\ d.sf = x
<1> DEFINE inv == ModInverse(c.sf)
           k == Times(x, inv)
<1>1. c.sf \in Units /\ x \in Residues
  BY UnitInverse DEF Encodes
<1>2. inv \in Units /\ inv \in Int /\ x \in Int /\ c.sf \in Int
  BY <1>1, UnitInverse
<1>3. IsScale(k)
  <2>1. k \in Units
    BY <1>2, UnitProduct
  <2>2. ASSUME scalTech \notin Flexible PROVE k = 1
    BY <2>2, OneIsUnit, TimesOne, ModulusFacts
  <2> QED
    BY <2>1, <2>2 DEF IsScale
<1>4. Times(c.sf, k) = x
  <2>1. Times(Times(x, inv), c.sf) = x
    BY <1>1, Cancel
  <2> HIDE DEF inv
  <2>2. k \in Int /\ Times(c.sf, k) = Times(k, c.sf)
    BY <1>2, TimesFacts
  <2> QED
    BY <2>1, <2>2
<1> HIDE DEF inv, k
<1>5. EvalMultConst(c, k) \in Record /\ Encodes(EvalMultConst(c, k), m)
      /\ EvalMultConst(c, k).sf = x
  BY <1>3, <1>4, MultConstValue
<1> QED
  BY <1>5 DEF k, inv, Times

\* ... also when the last modulus is dropped with it.
LEMMA RescaledDown ==
  ASSUME NEW c \in Record, c.towers \in 1 .. L, NEW m, Encodes(c, m), NEW x \in Units,
         scalTech \notin Flexible => x = 1 /\ c.sf = 1
  PROVE  LET d == Scaled(c, x * ModInverse(c.sf) * ModReduceFactorInt(c.towers - 1))
         IN  d \in Record /\ Encodes(d, m) /\ d.sf = x
<1> DEFINE inv == ModInverse(c.sf)
           last == ModReduceFactorInt(c.towers - 1)
           y == Times(x, last)
           k == (x * inv * last) % T
<1>1. c.sf \in Units /\ c.sf \in Int /\ inv \in Units /\ inv \in Int /\ x \in Int /\ x \in Residues
  BY UnitInverse DEF Encodes
<1>2. c.towers - 1 \in 0 .. L - 1 /\ c.towers \in Int /\ 1 \in 0 .. c.towers
  BY ModulusFacts
<1>3. last \in Units /\ last \in Int /\ (scalTech \notin Flexible => last = 1)
  <2>1. last \in Units
    BY <1>2, FactorIsUnit
  <2> QED
    BY <2>1, UnitInverse DEF ModReduceFactorInt
<1>4. y \in Units /\ (scalTech \notin Flexible => y = 1)
  BY <1>1, <1>3, UnitProduct, TimesOne, ModulusFacts
<1>5. k = (y * inv) % T
  <2>1. k = Times(Times(x, inv), last) /\ Times(Times(x, inv), last) = Times(Times(x, last), inv)
    <3> HIDE DEF inv, last
    <3> QED
      BY <1>1, <1>3, TimesAssoc
  <2> QED
    BY <2>1 DEF Times
<1> DEFINE e == EvalMultConst(c, k)
<1>6. e \in Record /\ Encodes(e, m) /\ e.sf = y
  BY <1>4, <1>5, RescaledValue
<1>7. e.towers = c.towers
  BY RecordFacts, MultConstShape
<1> DEFINE d == ModReduceInternal(e, 1)
<1>8. d = Scaled(c, x * inv * last)
  BY DEF Scaled
<1> HIDE DEF e
<1>9. d \in Record /\ Encodes(d, m) /\ d.sf = Times(y, ModInverse(LastModuli(c.towers, 1)))
  <2>1. e.towers \in 1 .. L /\ 1 \in 0 .. e.towers
    BY <1>2, <1>7
  <2> QED
    BY <1>6, <1>7, <2>1, ModReduceValue
<1>10. Times(y, ModInverse(last)) = x
  BY <1>1, <1>3, Cancel
<1>11. LastModuli(c.towers, 1) = last
  BY LastModulusIs
<1> QED
  BY <1>8, <1>9, <1>10, <1>11

-----------------------------------------------------------------------------
(* Right: a ciphertext encodes its message with the factor of the tables *)

Right(c, m) ==
  /\ c \in Record
  /\ c.sf = Canon(c.level, c.deg)
  /\ Encodes(c, m)

\* From the factor of degree two, one level above, to that of degree one.
LEMMA StepDown ==
  ASSUME NEW o, o.level \in 1 .. L - 1, o.level + o.towers = L, o.towers \in Int,
         NEW d \in Record, d.towers = o.towers + 1, d.sf = Canon(o.level - 1, 2),
         NEW m, Encodes(d, m)
  PROVE  /\ ModReduceInternal(d, 1) \in Record
         /\ Encodes(ModReduceInternal(d, 1), m)
         /\ ModReduceInternal(d, 1).sf = Canon(o.level, 1)
<1> DEFINE l == o.level - 1
<1>1. /\ l \in 0 .. L - 2 /\ l + 1 = o.level /\ L - 1 - l = d.towers - 1
      /\ d.towers \in 1 .. L /\ 1 \in 0 .. d.towers
  BY ModulusFacts
<1>2. /\ ModReduceInternal(d, 1) \in Record
      /\ Encodes(ModReduceInternal(d, 1), m)
      /\ ModReduceInternal(d, 1).sf = Times(d.sf, ModInverse(LastModuli(d.towers, 1)))
  BY <1>1, ModReduceValue
<1>3. LastModuli(d.towers, 1) = ModReduceFactorInt(L - 1 - l)
  BY <1>1, LastModulusIs
<1>4. Times(Canon(l, 2), ModInverse(ModReduceFactorInt(L - 1 - l))) = Canon(l + 1, 1)
  BY <1>1, ReduceCanon
<1> QED
  BY <1>1, <1>2, <1>3, <1>4

\* An operand of a lower level takes the factor of the other and keeps its
\* message.
LEMMA LowerRight ==
  ASSUME Automatic, NEW c, Good(c), NEW o, Good(o), c.level < o.level,
         NEW m, Right(c, m), NEW n, Right(o, n)
  PROVE  /\ Lower(c, o) \in Record
         /\ Encodes(Lower(c, o), m)
         /\ Lower(c, o).sf = o.sf
<1>0. /\ c \in Record /\ o \in Record /\ Encodes(c, m) /\ Encodes(o, n)
      /\ c.sf = Canon(c.level, c.deg) /\ o.sf = Canon(o.level, o.deg)
      /\ o.sf \in Units /\ c.sf \in Units
  BY DEF Right, Encodes
<1>1. /\ c.deg \in {1, 2} /\ o.deg \in {1, 2} /\ Shaped(c) /\ Shaped(o)
      /\ c.level \in Int /\ o.level \in Int /\ c.towers \in Int /\ o.towers \in Int
      /\ c.level >= 0 /\ c.towers >= 1 /\ o.towers >= 1
      /\ c.level + c.towers = L /\ o.level + o.towers = L
  BY ShapedInt DEF Good
<1>2. /\ c.towers \in 1 .. L /\ o.level \in 1 .. L - 1 /\ o.level - 1 \in 0 .. L - 2
      /\ o.level - 1 \in 0 .. L - 1 /\ o.level - c.level \in Int
      /\ o.level - c.level - 1 \in Int /\ o.level - c.level - 2 \in Int
  BY <1>1, ModulusFacts
<1> DEFINE big == GetScalingFactorIntBig(o.level - 1)
           gap == o.level - c.level
<1>3. big = Canon(o.level - 1, 2) /\ big \in Units
  BY <1>2, BigIsCanon, CanonUnit
<1>4. ASSUME scalTech \notin Flexible PROVE big = 1 /\ c.sf = 1 /\ o.sf = 1
  BY <1>0, <1>3, <1>4, CanonFixed
<1>a. ASSUME NEW d \in Record, Encodes(d, m), d.sf = o.sf
      PROVE  Adopt(d, o) \in Record /\ Encodes(Adopt(d, o), m) /\ Adopt(d, o).sf = o.sf
  BY <1>a, AdoptValue
<1> HIDE DEF big
<1>5. CASE c.deg = 2 /\ o.deg = 2
  <2> DEFINE e == Scaled(c, o.sf * ModInverse(c.sf) * ModReduceFactorInt(c.towers - 1))
             d == LevelReduceInternal(e, gap - 1)
  <2>1. Lower(c, o) = Adopt(d, o)
    BY <1>5 DEF Lower
  <2>2. e \in Record /\ Encodes(e, m) /\ e.sf = o.sf
    BY <1>0, <1>2, <1>4, RescaledDown
  <2> HIDE DEF e
  <2>3. d \in Record /\ Encodes(d, m) /\ d.sf = o.sf
    BY <1>2, <2>2, LevelReduceValue
  <2> HIDE DEF d
  <2> QED
    BY <1>a, <2>1, <2>3
<1>6. CASE c.deg = 2 /\ o.deg # 2 /\ gap = 1
  <2>1. Lower(c, o) = ModReduceInternal(c, 1)
    BY <1>6 DEF Lower
  <2>2. o.deg = 1 /\ c.level = o.level - 1 /\ c.towers = o.towers + 1
    BY <1>1, <1>6
  <2>3. c.sf = Canon(o.level - 1, 2)
    BY <1>0, <1>6, <2>2
  <2>4. /\ ModReduceInternal(c, 1) \in Record
        /\ Encodes(ModReduceInternal(c, 1), m)
        /\ ModReduceInternal(c, 1).sf = Canon(o.level, 1)
    BY <1>0, <1>1, <1>2, <2>2, <2>3, StepDown
  <2> QED
    BY <1>0, <2>1, <2>2, <2>4
<1>7. CASE c.deg = 2 /\ o.deg # 2 /\ gap # 1
  <2> DEFINE e == Scaled(c, big * ModInverse(c.sf) * ModReduceFactorInt(c.towers - 1))
             f == LevelReduceInternal(e, gap - 2)
             d == ModReduceInternal(f, 1)
  <2>1. Lower(c, o) = Adopt(d, o)
    BY <1>7 DEF Lower, big
  <2>2. e \in Record /\ Encodes(e, m) /\ e.sf = big
    BY <1>0, <1>2, <1>3, <1>4, RescaledDown
  <2>3. e.towers = c.towers - 1 /\ Shaped(e)
    BY <1>1, ScaledShape
  <2> HIDE DEF e
  <2>4. f \in Record /\ Encodes(f, m) /\ f.sf = big /\ f.towers = e.towers - (gap - 2)
    BY <1>2, <2>2, <2>3, LevelReduceValue, LevelReduceShape, ZenonT(30)
  <2>5. f.towers = o.towers + 1
    BY <1>1, <2>3, <2>4
  <2> HIDE DEF f
  <2>6. d \in Record /\ Encodes(d, m) /\ d.sf = Canon(o.level, 1)
    BY <1>1, <1>2, <1>3, <2>4, <2>5, StepDown
  <2>7. d.sf = o.sf
    BY <1>0, <1>1, <1>7, <2>6
  <2> HIDE DEF d
  <2> QED
    BY <1>a, <2>1, <2>6, <2>7
<1>8. CASE c.deg # 2 /\ o.deg = 2
  <2> DEFINE e == EvalMultConst(c, (o.sf * ModInverse(c.sf)) % T)
             d == LevelReduceInternal(e, gap)
  <2>1. Lower(c, o) = Adopt(d, o)
    BY <1>8 DEF Lower
  <2>2. e \in Record /\ Encodes(e, m) /\ e.sf = o.sf
    BY <1>0, <1>4, RescaledValue
  <2> HIDE DEF e
  <2>3. d \in Record /\ Encodes(d, m) /\ d.sf = o.sf
    BY <1>2, <2>2, LevelReduceValue
  <2> HIDE DEF d
  <2> QED
    BY <1>a, <2>1, <2>3
<1>9. CASE c.deg # 2 /\ o.deg # 2
  <2> DEFINE e == EvalMultConst(c, (big * ModInverse(c.sf)) % T)
             f == LevelReduceInternal(e, gap - 1)
             d == ModReduceInternal(f, 1)
  <2>1. Lower(c, o) = Adopt(d, o)
    BY <1>9 DEF Lower, big
  <2>2. e \in Record /\ Encodes(e, m) /\ e.sf = big
    BY <1>0, <1>3, <1>4, RescaledValue
  <2>3. e.towers = c.towers /\ Shaped(e)
    BY <1>1, MultConstShape
  <2> HIDE DEF e
  <2>4. f \in Record /\ Encodes(f, m) /\ f.sf = big /\ f.towers = e.towers - (gap - 1)
    BY <1>2, <2>2, <2>3, LevelReduceValue, LevelReduceShape
  <2>5. f.towers = o.towers + 1
    BY <1>1, <2>3, <2>4
  <2> HIDE DEF f
  <2>6. d \in Record /\ Encodes(d, m) /\ d.sf = Canon(o.level, 1)
    BY <1>1, <1>2, <1>3, <2>4, <2>5, StepDown
  <2>7. d.sf = o.sf
    BY <1>0, <1>1, <1>9, <2>6
  <2> HIDE DEF d
  <2> QED
    BY <1>a, <2>1, <2>6, <2>7
<1> QED
  BY <1>5, <1>6, <1>7, <1>8, <1>9

-----------------------------------------------------------------------------
(* Kept: good, right, and of a depth that counts from zero *)

Kept(c, m) ==
  /\ Good(c)
  /\ Right(c, m)
  /\ c.depth >= 0

\* What there is to say of a kept ciphertext.
LEMMA KeptFacts ==
  ASSUME NEW c, NEW m, Kept(c, m)
  PROVE  /\ Good(c) /\ Right(c, m) /\ c \in Record /\ Encodes(c, m) /\ Shaped(c)
         /\ c.towers \in Int /\ c.level \in Int /\ c.deg \in Int /\ c.depth \in Int
         /\ c.towers \in 1 .. L /\ c.level \in 0 .. L - 1 /\ c.level + c.towers = L
         /\ c.depth >= 0
         /\ m \in Residues /\ m \in Int
         /\ c.sf = Canon(c.level, c.deg)
         /\ c.sf \in Units /\ c.sf \in Residues /\ c.sf \in Int
         /\ c.phase = Times(m, c.sf)
         /\ Automatic => c.deg \in {1, 2} /\ c.level + c.deg = c.depth + 1 + Ext
<1>1. Good(c) /\ Right(c, m) /\ c \in Record /\ Encodes(c, m) /\ Shaped(c)
      /\ m \in Residues /\ c.sf \in Units /\ c.depth >= 0
  BY DEF Kept, Right, Encodes, Good
<1>2. /\ c.towers \in Int /\ c.level \in Int /\ c.deg \in Int /\ c.depth \in Int
      /\ c.towers >= 1 /\ c.level >= 0 /\ c.level + c.towers = L
      /\ Automatic => c.deg \in {1, 2} /\ c.level + c.deg = c.depth + 1 + Ext
  BY <1>1, ShapedInt DEF Good
<1>3. c.towers \in 1 .. L /\ c.level \in 0 .. L - 1
  BY <1>2, ModulusFacts
<1>4. c.sf \in Residues /\ c.sf \in Int /\ m \in Int
  BY <1>1, UnitInverse, ModulusFacts
<1>5. c.sf = Canon(c.level, c.deg) /\ c.phase = Times(m, c.sf)
  BY <1>1 DEF Right, Encodes
<1> QED
  BY <1>1, <1>2, <1>3, <1>4, <1>5

\* A good ciphertext with the right factor and phase is kept.
LEMMA KeptIntro ==
  ASSUME NEW c, Good(c), c \in Record, c.depth >= 0,
         c.sf = Canon(c.level, c.deg), NEW m, Encodes(c, m)
  PROVE  Kept(c, m)
BY DEF Kept, Right

\* A fresh ciphertext is kept.
LEMMA FreshKept ==
  ASSUME NEW m \in Messages, NEW deg \in {1, 2}, scalTech \in Techniques
  PROVE  Kept(Fresh(m, deg), m)
<1> DEFINE c == Fresh(m, deg)
           d == IF scalTech = "FLEXIBLEAUTOEXT" THEN 2
                ELSE IF scalTech = "FLEXIBLEAUTO" THEN deg ELSE 1
           sf == IF scalTech = "FLEXIBLEAUTOEXT" THEN GetScalingFactorIntBig(0)
                 ELSE IF d = 2 THEN (GetScalingFactorInt(0) * GetScalingFactorInt(0)) % T
                 ELSE GetScalingFactorInt(0)
           ph == (m * sf) % T
           dp == d - 1 - Ext
<1>1. c = [towers |-> L, level |-> 0, deg |-> d, sf |-> sf, phase |-> ph, depth |-> dp]
  BY DEF Fresh
<1>2. d \in Int /\ d >= 0 /\ dp \in Int /\ dp >= 0
  BY DEF Ext
<1>3. sf = Canon(0, d)
  <2>1. LevelFactor(0) = GetScalingFactorInt(0)
    BY ModulusFacts DEF LevelFactor
  <2> QED
    BY <2>1 DEF Canon, Times
<1>4. sf \in Units /\ sf \in Residues /\ sf \in Int
  <2> HIDE DEF d, sf
  <2>1. sf \in Units
    BY <1>3, ModulusFacts, CanonUnit
  <2> QED
    BY <2>1, UnitInverse
<1>5. Good(c)
  BY FreshGood
<1>6. m \in Residues /\ m \in Int
  BY LevelAssumption, ModulusFacts DEF Residues
<1>7. ph = Times(m, sf) /\ ph \in Residues
  <2> HIDE DEF sf
  <2> QED
    BY <1>4, <1>6, TimesFacts DEF Times
<1> HIDE DEF c, d, sf, ph, dp
<1>8. L \in Int /\ 0 \in Int
  BY ModulusFacts
<1>9. c \in Record
  BY <1>1, <1>2, <1>4, <1>7, <1>8 DEF Record
<1>10. c.depth >= 0 /\ c.sf = Canon(c.level, c.deg) /\ Encodes(c, m)
  BY <1>1, <1>2, <1>3, <1>4, <1>6, <1>7 DEF Encodes
<1> QED
  BY <1>5, <1>9, <1>10, KeptIntro DEF c

\* The depth of an adjusted operand changes nothing else.
LEMMA JoinedRight ==
  ASSUME NEW c \in Record, NEW o \in Record, NEW m, Encodes(c, m)
  PROVE  Joined(c, o) \in Record /\ Encodes(Joined(c, o), m) /\ Joined(c, o).sf = c.sf
<1> DEFINE dp == IF c.depth < o.depth THEN o.depth ELSE c.depth
<1>1. dp \in Int
  BY RecordFacts
<1>2. Joined(c, o) = [c EXCEPT !.depth = dp]
  BY DEF Joined
<1> HIDE DEF dp
<1>3. Joined(c, o) \in Record /\ Joined(c, o).sf = c.sf /\ Joined(c, o).phase = c.phase
  BY <1>1, <1>2 DEF Record
<1> QED
  BY <1>3 DEF Encodes

\* An adjusted operand is kept.
LEMMA AdjustKept ==
  ASSUME NEW c, NEW m, Kept(c, m), NEW o, NEW n, Kept(o, n)
  PROVE  Kept(AdjustForAddOrSub(c, o), m)
<1> DEFINE a == AdjustForAddOrSub(c, o)
<1>0. /\ Good(c) /\ Good(o) /\ Right(c, m) /\ Right(o, n) /\ c \in Record /\ o \in Record
      /\ Encodes(c, m) /\ Shaped(c) /\ Shaped(o)
      /\ c.level \in Int /\ o.level \in Int /\ c.towers \in Int /\ o.towers \in Int
      /\ c.deg \in Int /\ o.deg \in Int
      /\ c.depth >= 0 /\ o.depth >= 0
      /\ c.sf = Canon(c.level, c.deg) /\ o.sf = Canon(o.level, o.deg)
      /\ c.sf \in Units
  BY KeptFacts
<1>1. /\ Good(a)
      /\ Automatic => IF Behind(c, o)
                      THEN a.level = o.level /\ a.deg = o.deg /\ a.depth = o.depth
                      ELSE a = c
  BY <1>0, AdjustGood
<1>2. CASE ~Automatic
  <2>1. scalTech \notin Flexible
    BY <1>2 DEF Automatic, Flexible
  <2>2. CASE c.towers > o.towers
    <3> DEFINE k == c.towers - o.towers
    <3>1. a = LevelReduceInternal(c, k) /\ k \in Int
      BY <1>0, <1>2, <2>2 DEF AdjustForAddOrSub, AdjustLevels
    <3> HIDE DEF k
    <3>2. a \in Record /\ Encodes(a, m) /\ a.sf = c.sf
      BY <1>0, <3>1, LevelReduceValue
    <3>3. a.deg = c.deg /\ a.depth = c.depth
      <4>1. Shaped(c)
        BY <1>0
      <4> QED
        BY <3>1, <4>1, LevelReduceShape
    <3>4. a.sf = Canon(a.level, a.deg)
      BY <1>0, <2>1, <3>2, CanonFixed
    <3> HIDE DEF a
    <3>5. Kept(a, m)
      BY <1>0, <1>1, <3>2, <3>3, <3>4, KeptIntro
    <3> QED
      BY <3>5 DEF a
  <2>3. CASE ~(c.towers > o.towers)
    BY <1>2, <2>3 DEF AdjustForAddOrSub, AdjustLevels
  <2> QED
    BY <2>2, <2>3
<1>3. CASE Automatic /\ Behind(c, o)
  <2>1. a.level = o.level /\ a.deg = o.deg /\ a.depth = o.depth
    BY <1>1, <1>3
  <2>2. a \in Record /\ Encodes(a, m) /\ a.sf = o.sf
    <3>1. CASE c.level < o.level
      <4> DEFINE d == Lower(c, o)
      <4>1. a = Joined(d, o)
        BY <1>3, <3>1 DEF AdjustForAddOrSub, AdjustLevelsAndDepth
      <4>2. d \in Record /\ Encodes(d, m) /\ d.sf = o.sf
        BY <1>0, <1>3, <3>1, LowerRight
      <4> HIDE DEF d
      <4> QED
        BY <1>0, <4>1, <4>2, JoinedRight
    <3>2. CASE ~(c.level < o.level)
      <4> DEFINE d == EvalMultConst(c, c.sf)
                 l == c.level
      <4>1. l = o.level /\ c.deg < o.deg /\ a = Joined(d, o)
        BY <1>3, <3>2 DEF AdjustForAddOrSub, AdjustLevelsAndDepth, Behind
      <4>2. c.deg = 1 /\ o.deg = 2 /\ l \in 0 .. L - 1
        BY <1>3, <4>1, KeptFacts
      <4>3. l = 0 => scalTech # "FLEXIBLEAUTOEXT"
        BY <1>3, <4>2, KeptFacts DEF Ext
      <4>4. IsScale(c.sf)
        BY <1>0, CanonFixed DEF IsScale
      <4>5. d \in Record /\ Encodes(d, m) /\ d.sf = Times(c.sf, c.sf)
        BY <1>0, <4>4, MultConstValue
      <4>6. Times(c.sf, c.sf) = o.sf
        BY <1>0, <4>1, <4>2, <4>3, SquareCanon
      <4> HIDE DEF d
      <4> QED
        BY <1>0, <4>1, <4>5, <4>6, JoinedRight
    <3> QED
      BY <3>1, <3>2
  <2> HIDE DEF a
  <2>3. Kept(a, m)
    BY <1>0, <1>1, <2>1, <2>2, KeptIntro
  <2> QED
    BY <2>3 DEF a
<1>4. CASE Automatic /\ ~Behind(c, o)
  BY <1>1, <1>4
<1> QED
  BY <1>2, <1>3, <1>4

-----------------------------------------------------------------------------
(* The core operations on residues *)

\* The sum of two encoded messages is their encoded sum.
LEMMA SumEncodes ==
  ASSUME NEW m \in Int, NEW n \in Int, NEW s \in Int, NEW g \in Int
  PROVE  (Times(m, s) + g * Times(n, s)) % T = Times((m + g * n) % T, s)
<1> DEFINE A == m * s
           B == n * s
           y == g * (B % T)
           z == m + g * n
<1>1. T \in Nat /\ T > 0 /\ A \in Int /\ B \in Int /\ g * B \in Int /\ z \in Int
  BY ModulusFacts
<1>2. z * s = A + g * B
  <2> DEFINE gn == g * n
  <2>1. gn \in Int /\ gn * s = g * B
    OBVIOUS
  <2> HIDE DEF gn
  <2>2. (m + gn) * s = m * s + gn * s
    BY <2>1
  <2>3. z = m + gn
    BY DEF gn
  <2> QED
    BY <2>1, <2>2, <2>3
<1> HIDE DEF A, B, z
<1>3. B % T \in Int /\ y \in Int /\ y % T = (g * B) % T
  <2>1. B % T \in Int
    BY <1>1
  <2>2. y \in Int
    BY <2>1
  <2>3. (g * (B % T)) % T = (g * B) % T
    BY <1>1, ModAbsorb
  <2> QED
    BY <2>1, <2>2, <2>3
<1> HIDE DEF y
<1>4. ((A % T) + y) % T = (A + y) % T /\ (A + y) % T = (A + (y % T)) % T
      /\ (A + ((g * B) % T)) % T = (A + g * B) % T
  BY <1>1, <1>3, ModAbsorb, ZenonT(30)
<1>5. Times(z % T, s) = (z * s) % T
  BY <1>1, TimesFacts DEF Times
<1>6. ((A % T) + y) % T = Times(z % T, s)
  BY <1>2, <1>3, <1>4, <1>5
<1> QED
  BY <1>6 DEF A, B, y, z, Times

\* The product of two encoded messages is their encoded product.
LEMMA ProductEncodes ==
  ASSUME NEW m \in Int, NEW n \in Int, NEW s \in Int, NEW t \in Int
  PROVE  Times(Times(m, s), Times(n, t)) = Times(Times(m, n), Times(s, t))
<1> DEFINE nt == Times(n, t)
           st == Times(s, t)
           mn == Times(m, n)
<1>1. nt \in Int /\ st \in Int /\ mn \in Int /\ Times(n, s) \in Int
  BY TimesFacts
<1>2. Times(Times(m, s), nt) = Times(m, Times(s, nt))
  BY <1>1, TimesAssoc
<1>3. Times(s, nt) = Times(n, st)
  <2>1. Times(Times(n, s), t) = Times(n, st) /\ Times(Times(s, n), t) = Times(s, nt)
    BY TimesAssoc
  <2>2. Times(s, n) = Times(n, s)
    BY TimesFacts
  <2> QED
    BY <2>1, <2>2
<1>4. Times(mn, st) = Times(m, Times(n, st))
  BY <1>1, TimesAssoc
<1> QED
  BY <1>2, <1>3, <1>4

\* The negative of an encoded message is its encoded negative.
LEMMA NegativeEncodes ==
  ASSUME NEW m \in Int, NEW s \in Int
  PROVE  (T - Times(m, s)) % T = Times((T - m) % T, s)
<1> DEFINE A == m * s
           z == T - m
           b == 0 - A
<1>1. T \in Nat /\ T > 0 /\ T \in Int /\ A \in Int /\ z \in Int /\ b \in Int
  BY ModulusFacts
<1>2. z * s = b + T * s
  <2>1. z * s = T * s - m * s
    BY <1>1
  <2> QED
    BY <1>1, <2>1
<1> HIDE DEF A, z
<1>3. Times(z % T, s) = (z * s) % T
  BY <1>1, TimesFacts DEF Times
<1>4. PICK k \in Int : A = (A % T) + T * k
  BY <1>1, ModSplit
<1>5. T - (A % T) = b + T * (k + 1) /\ k + 1 \in Int
  BY <1>1, <1>4
<1>6. (b + T * (k + 1)) % T = b % T /\ (b + T * s) % T = b % T
  <2> HIDE DEF b
  <2>1. k + 1 \in Int
    BY <1>4
  <2> QED
    BY <1>1, <2>1, ModShift
<1>7. (T - (A % T)) % T = Times(z % T, s)
  BY <1>2, <1>3, <1>5, <1>6
<1> QED
  BY <1>7 DEF A, z, Times

\* The sum of operands that agree is kept.
LEMMA AddCoreKept ==
  ASSUME NEW c, NEW m, Kept(c, m), NEW o, NEW n, Kept(o, n), NEW g \in Signs,
         Automatic => c.level = o.level /\ c.deg = o.deg /\ c.depth = o.depth
  PROVE  Kept(EvalAddCore(c, o, g), (m + g * n) % T)
<1> DEFINE d == EvalAddCore(c, o, g)
           ph == (c.phase + g * o.phase) % T
           dp == IF c.depth < o.depth THEN o.depth ELSE c.depth
           r == (m + g * n) % T
<1>0. /\ Good(c) /\ Good(o) /\ c \in Record /\ m \in Int /\ n \in Int /\ g \in Int
      /\ c.level \in Int /\ c.deg \in Int
      /\ c.depth \in Int /\ c.depth >= 0 /\ o.depth \in Int /\ o.depth >= 0
      /\ c.sf \in Units /\ c.sf \in Int /\ c.sf = Canon(c.level, c.deg) /\ o.sf = Canon(o.level, o.deg)
      /\ c.phase = Times(m, c.sf) /\ o.phase = Times(n, o.sf)
  BY KeptFacts DEF Signs
<1>1. o.sf = c.sf
  <2>1. CASE Automatic
    BY <1>0, <2>1
  <2>2. CASE ~Automatic
    <3>1. scalTech \notin Flexible
      BY <2>2 DEF Automatic, Flexible
    <3> QED
      BY <1>0, <3>1, CanonFixed
  <2> QED
    BY <2>1, <2>2
<1>2. Good(d)
  BY <1>0, AddCoreGood
<1>3. ph = Times(r, c.sf)
  <2> DEFINE s == c.sf
  <2>1. m \in Int /\ n \in Int /\ s \in Int /\ g \in Int
    BY <1>0
  <2> HIDE DEF s
  <2>2. (Times(m, s) + g * Times(n, s)) % T = Times((m + g * n) % T, s)
    BY <2>1, SumEncodes
  <2>3. c.phase = Times(m, s) /\ o.phase = Times(n, s)
    BY <1>0, <1>1 DEF s
  <2> QED
    BY <2>2, <2>3 DEF s
<1>4. r \in Residues /\ r \in Int
  <2>1. T \in Nat /\ T > 0 /\ m + g * n \in Int
    BY <1>0, ModulusFacts
  <2>2. r \in 0 .. (T - 1)
    BY <2>1, ModRange
  <2> QED
    BY <2>2 DEF Residues
<1>5. ph \in Residues
  BY <1>0, <1>3, <1>4, TimesFacts
<1>6. dp \in Int /\ dp >= 0
  BY <1>0
<1>7. d = [c EXCEPT !.phase = ph, !.depth = dp]
  BY DEF EvalAddCore
<1> HIDE DEF d, ph, dp, r
<1>8. d \in Record /\ d.level = c.level /\ d.deg = c.deg /\ d.sf = c.sf /\ d.phase = ph
      /\ d.depth = dp
  BY <1>0, <1>5, <1>6, <1>7 DEF Record
<1>9. Encodes(d, r)
  BY <1>0, <1>3, <1>4, <1>8 DEF Encodes
<1>10. Kept(d, r)
  BY <1>0, <1>2, <1>6, <1>8, <1>9, KeptIntro
<1> QED
  BY <1>10 DEF d, r

\* The product of operands of degree one and one level is kept.
LEMMA MultCoreKept ==
  ASSUME NEW c, NEW m, Kept(c, m), NEW o, NEW n, Kept(o, n),
         Automatic => c.deg = 1 /\ o.deg = 1 /\ c.depth = o.depth
  PROVE  Kept(EvalMultCore(c, o), (m * n) % T)
<1> DEFINE d == EvalMultCore(c, o)
           ph == Times(c.phase, o.phase)
           dg == c.deg + o.deg
           sf == Times(c.sf, o.sf)
           dp == IF ~Automatic THEN 0 ELSE 1 + (IF c.depth < o.depth THEN o.depth ELSE c.depth)
           r == Times(m, n)
<1>0. /\ Good(c) /\ Good(o) /\ c \in Record /\ m \in Int /\ n \in Int
      /\ c.level \in Int /\ o.level \in Int /\ c.level \in 0 .. L - 1
      /\ c.deg \in Int /\ o.deg \in Int
      /\ c.depth \in Int /\ c.depth >= 0 /\ o.depth \in Int /\ o.depth >= 0
      /\ c.sf \in Units /\ o.sf \in Units /\ c.sf \in Int /\ o.sf \in Int
      /\ c.sf = Canon(c.level, c.deg) /\ o.sf = Canon(o.level, o.deg)
      /\ c.phase = Times(m, c.sf) /\ o.phase = Times(n, o.sf)
  BY KeptFacts
<1>1. sf \in Units /\ sf \in Residues /\ sf \in Int
  <2>1. sf \in Units
    BY <1>0, UnitProduct
  <2> QED
    BY <2>1, UnitInverse
<1>2. Good(d)
  BY <1>0, MultCoreGood
<1>3. ph = Times(r, sf)
  BY <1>0, ProductEncodes
<1>4. r \in Residues /\ r \in Int
  BY <1>0, TimesFacts
<1>5. ph \in Residues
  <2> HIDE DEF r, sf, ph
  <2> QED
    BY <1>1, <1>3, <1>4, TimesFacts
<1>6. dg \in Int /\ dp \in Int /\ dp >= 0
  BY <1>0
<1>7. sf = Canon(c.level, dg)
  <2>1. CASE ~Automatic
    <3>1. scalTech \notin Flexible
      BY <2>1 DEF Automatic, Flexible
    <3>2. c.sf = 1 /\ o.sf = 1 /\ Canon(c.level, dg) = 1
      BY <1>0, <3>1, CanonFixed
    <3> QED
      BY <3>2, TimesOne, ModulusFacts
  <2>2. CASE Automatic
    <3>1. c.deg = 1 /\ o.deg = 1 /\ c.depth = o.depth /\ dg = 2
      BY <2>2
    <3>2. /\ c.level + c.deg = c.depth + 1 + Ext /\ o.level + o.deg = o.depth + 1 + Ext
          /\ Ext \in Int
      BY <2>2, KeptFacts, ExtType
    <3>3. o.level = c.level
      BY <1>0, <3>1, <3>2
    <3>4. c.level = 0 => scalTech # "FLEXIBLEAUTOEXT"
      BY <1>0, <3>1, <3>2 DEF Ext
    <3> QED
      BY <1>0, <3>1, <3>3, <3>4, SquareCanon
  <2> QED
    BY <2>1, <2>2
<1>8. d = [c EXCEPT !.phase = ph, !.deg = dg, !.sf = sf, !.depth = dp]
  BY DEF EvalMultCore, Times
<1> HIDE DEF d, ph, dg, sf, dp, r
<1>9. d \in Record /\ d.level = c.level /\ d.deg = dg /\ d.sf = sf /\ d.phase = ph
      /\ d.depth = dp
  BY <1>0, <1>1, <1>5, <1>6, <1>8 DEF Record
<1>10. Encodes(d, r)
  BY <1>1, <1>3, <1>4, <1>9 DEF Encodes
<1>11. Kept(d, r)
  BY <1>2, <1>6, <1>7, <1>9, <1>10, KeptIntro
<1> QED
  BY <1>11 DEF d, r, Times

\* The negative of a kept ciphertext is kept.
LEMMA NegateKept ==
  ASSUME NEW c, NEW m, Kept(c, m)
  PROVE  Kept([c EXCEPT !.phase = (T - @) % T], (T - m) % T)
<1> DEFINE d == [c EXCEPT !.phase = (T - @) % T]
           ph == (T - c.phase) % T
           r == (T - m) % T
<1>0. /\ Good(c) /\ Shaped(c) /\ c \in Record /\ m \in Int /\ c.depth >= 0
      /\ c.sf \in Units /\ c.sf \in Int /\ c.sf = Canon(c.level, c.deg)
      /\ c.phase = Times(m, c.sf)
  BY KeptFacts
<1>1. ph = Times(r, c.sf)
  BY <1>0, NegativeEncodes
<1>2. r \in Residues /\ r \in Int
  <2>1. T \in Nat /\ T > 0 /\ T - m \in Int
    BY <1>0, ModulusFacts
  <2>2. r \in 0 .. (T - 1)
    BY <2>1, ModRange
  <2> QED
    BY <2>2 DEF Residues
<1>3. ph \in Residues
  <2> HIDE DEF r, ph
  <2> QED
    BY <1>0, <1>1, <1>2, TimesFacts
<1>4. d = [c EXCEPT !.phase = ph]
  OBVIOUS
<1> HIDE DEF d, ph, r
<1>5. /\ d \in Record /\ d.level = c.level /\ d.deg = c.deg /\ d.sf = c.sf /\ d.phase = ph
      /\ d.depth = c.depth /\ d.towers = c.towers
  BY <1>0, <1>3, <1>4 DEF Record
<1>6. Good(d)
  <2>1. Shaped(d)
    BY <1>5, RecordFacts
  <2> QED
    BY <1>0, <1>5, <2>1 DEF Good
<1>7. Encodes(d, r)
  BY <1>0, <1>1, <1>2, <1>5 DEF Encodes
<1>8. Kept(d, r)
  BY <1>0, <1>5, <1>6, <1>7, KeptIntro
<1> QED
  BY <1>8 DEF d, r

\* The reduction of a ciphertext of degree two is kept.
LEMMA ReduceKept ==
  ASSUME Automatic, NEW c, NEW m, Kept(c, m), c.deg = 2, c.towers # 1
  PROVE  Kept(ModReduceInternal(c, 1), m)
<1> DEFINE d == ModReduceInternal(c, 1)
           l == c.level
<1>0. /\ Good(c) /\ c \in Record /\ Encodes(c, m) /\ c.depth >= 0
      /\ c.towers \in Int /\ c.level \in Int /\ c.towers \in 1 .. L /\ c.level + c.towers = L
      /\ c.level >= 0 /\ c.sf = Canon(c.level, c.deg)
  BY KeptFacts DEF Good
<1>1. l \in 0 .. L - 2 /\ c.towers - 1 = L - 1 - l /\ 1 \in 0 .. c.towers
  BY <1>0, ModulusFacts
<1>2. Good(d) /\ d.deg = 1 /\ d.level = l + 1 /\ d.depth = c.depth
  BY <1>0, ReduceGood
<1>3. /\ d \in Record /\ Encodes(d, m)
      /\ d.sf = Times(c.sf, ModInverse(LastModuli(c.towers, 1)))
  BY <1>0, <1>1, ModReduceValue
<1>4. LastModuli(c.towers, 1) = ModReduceFactorInt(L - 1 - l)
  BY <1>0, <1>1, LastModulusIs
<1>5. Times(Canon(l, 2), ModInverse(ModReduceFactorInt(L - 1 - l))) = Canon(l + 1, 1)
  BY <1>1, ReduceCanon
<1>6. d.sf = Canon(d.level, d.deg)
  BY <1>0, <1>2, <1>3, <1>4, <1>5
<1> HIDE DEF d
<1>7. Kept(d, m)
  BY <1>0, <1>2, <1>3, <1>6, KeptIntro
<1> QED
  BY <1>7 DEF d

\* The reductions a program asks for in FIXEDMANUAL are kept.
LEMMA ManualKept ==
  ASSUME ~Automatic, NEW c, NEW m, Kept(c, m), NEW n \in 1 .. L, c.towers > n
  PROVE  /\ Kept(ModReduceInternal(c, n), m)
         /\ Kept(LevelReduceInternal(c, n), m)
<1>0. /\ Good(c) /\ c \in Record /\ Encodes(c, m) /\ c.depth >= 0 /\ Shaped(c)
      /\ c.towers \in Int /\ c.level \in Int /\ c.towers \in 1 .. L /\ c.level + c.towers = L
      /\ c.level >= 0 /\ c.deg \in Int
      /\ c.sf \in Units /\ c.sf = Canon(c.level, c.deg)
  BY KeptFacts DEF Good
<1>1. scalTech \notin Flexible
  BY DEF Automatic, Flexible
<1>2. n \in Int /\ n \in 0 .. c.towers /\ n >= 1 /\ c.towers - n >= 1 /\ c.level + n >= 0
      /\ (c.level + n) + (c.towers - n) = L
  BY <1>0, ModulusFacts
<1>3. Kept(ModReduceInternal(c, n), m)
  <2> DEFINE d == ModReduceInternal(c, n)
  <2>1. /\ Shaped(d) /\ d.towers = c.towers - n /\ d.level = c.level + n
        /\ d.deg = c.deg - n /\ d.depth = c.depth
    <3>1. Shaped(c) /\ n \in Int
      BY <1>0, <1>2
    <3> QED
      BY <3>1, ModReduceShape
  <2>2. /\ d \in Record /\ Encodes(d, m)
        /\ d.sf = Times(c.sf, ModInverse(LastModuli(c.towers, n)))
    BY <1>0, <1>2, ModReduceValue
  <2>3. LastModuli(c.towers, n) = 1
    BY <1>0, <1>1, <1>2, LastModuliUnit
  <2>4. d.sf = 1
    <3>1. c.sf = 1
      BY <1>0, <1>1, CanonFixed
    <3> QED
      BY <2>2, <2>3, <3>1, OneIsUnit, TimesOne, ModulusFacts
  <2> HIDE DEF d
  <2>5. d.sf = Canon(d.level, d.deg)
    BY <1>1, <2>4, CanonFixed
  <2>6. Good(d)
    BY <1>2, <2>1 DEF Good
  <2>7. d.depth >= 0
    BY <1>0, <2>1
  <2>8. Kept(d, m)
    BY <2>2, <2>5, <2>6, <2>7, KeptIntro
  <2> QED
    BY <2>8 DEF d
<1>4. Kept(LevelReduceInternal(c, n), m)
  <2> DEFINE d == LevelReduceInternal(c, n)
  <2>1. /\ Shaped(d) /\ d.towers = c.towers - n /\ d.level = c.level + n
        /\ d.deg = c.deg /\ d.depth = c.depth
    <3>1. Shaped(c) /\ n \in Int
      BY <1>0, <1>2
    <3> QED
      BY <3>1, LevelReduceShape
  <2>2. d \in Record /\ Encodes(d, m) /\ d.sf = c.sf
    BY <1>0, <1>2, LevelReduceValue
  <2>3. Canon(d.level, d.deg) = 1 /\ Canon(c.level, c.deg) = 1
    BY <1>1, CanonFixed
  <2> HIDE DEF d
  <2>4. d.sf = Canon(d.level, d.deg)
    BY <1>0, <2>2, <2>3
  <2>5. Good(d)
    BY <1>2, <2>1 DEF Good
  <2>6. Kept(d, m)
    BY <1>0, <2>1, <2>2, <2>4, <2>5, KeptIntro
  <2> QED
    BY <2>6 DEF d
<1> QED
  BY <1>3, <1>4

\* The operands of a product are kept.
LEMMA AdjustMultKept ==
  ASSUME NEW c, NEW m, Kept(c, m), NEW o, NEW n, Kept(o, n),
         NEW adj, adj = AdjustForMult(c, o)
  PROVE  Kept(adj.fst, m) /\ Kept(adj.snd, n)
<1> DEFINE a == AdjustForAddOrSub(c, o)
           b == AdjustForAddOrSub(o, c)
<1>0. Good(c) /\ Good(o)
  BY KeptFacts
<1>1. Kept(a, m) /\ Kept(b, n)
  BY AdjustKept
<1>2. Automatic => a.deg = b.deg
  BY <1>0, AdjustAgree
<1>3. adj = IF ~Automatic \/ a.deg # 2 THEN [fst |-> a, snd |-> b, ok |-> TRUE]
            ELSE IF a.towers = 1 THEN [fst |-> a, snd |-> b, ok |-> FALSE]
            ELSE IF b.towers = 1 THEN [fst |-> ModReduceInternal(a, 1), snd |-> b, ok |-> FALSE]
            ELSE [fst |-> ModReduceInternal(a, 1), snd |-> ModReduceInternal(b, 1), ok |-> TRUE]
  BY DEF AdjustForMult, ToDepthOne
<1> HIDE DEF a, b
<1>4. CASE ~Automatic \/ a.deg # 2
  BY <1>1, <1>3, <1>4
<1>5. CASE Automatic /\ a.deg = 2
  <2>1. a.towers # 1 => Kept(ModReduceInternal(a, 1), m)
    BY <1>1, <1>5, ReduceKept
  <2>2. b.towers # 1 => Kept(ModReduceInternal(b, 1), n)
    BY <1>1, <1>2, <1>5, ReduceKept
  <2> QED
    BY <1>1, <1>3, <1>5, <2>1, <2>2
<1> QED
  BY <1>4, <1>5

\* The operand of a square is kept.
LEMMA ReducedKept ==
  ASSUME NEW c, NEW m, Kept(c, m), SquareReduces(c) => c.towers > 1
  PROVE  Kept(Reduced(c), m)
<1>1. CASE SquareReduces(c)
  <2>1. Automatic /\ c.deg = 2 /\ c.towers # 1
    BY <1>1, KeptFacts DEF SquareReduces
  <2> QED
    BY <1>1, <2>1, ReduceKept DEF Reduced
<1>2. CASE ~SquareReduces(c)
  BY <1>2 DEF Reduced
<1> QED
  BY <1>1, <1>2

-----------------------------------------------------------------------------
(* The inductive invariant: every ciphertext is kept *)

VInv ==
  /\ TypeOK
  /\ \A h \in Held : Kept(ct[h], plain[h])

\* A kept ciphertext is one of the type.
LEMMA KeptType ==
  ASSUME NEW c, NEW m, Kept(c, m)
  PROVE  c \in Ciphertexts /\ m \in Residues
<1>1. /\ c \in Record /\ c.towers \in 1 .. L /\ c.level \in 0 .. L - 1 /\ m \in Residues
      /\ c.deg \in Int /\ c.depth \in Int /\ c.depth >= 0
      /\ c.sf \in Residues /\ c.phase \in Residues
  BY KeptFacts, RecordFacts
<1>2. c.depth \in Nat
  BY <1>1
<1> QED
  BY <1>1, <1>2 DEF Record, Ciphertexts

\* Ciphertexts that stay or become kept keep the invariant.
LEMMA ChangedKept ==
  ASSUME VInv, UNCHANGED scalTech,
         ct' = [h \in Handles |-> ct'[h]], plain' = [h \in Handles |-> plain'[h]],
         \A g \in Handles : \/ ct'[g] = ct[g] /\ plain'[g] = plain[g]
                            \/ Kept(ct'[g], plain'[g])
  PROVE  VInv'
<1>1. ASSUME NEW g \in Handles, ct'[g] # Null PROVE Kept(ct'[g], plain'[g])
  BY <1>1 DEF VInv, Held
<1>2. ASSUME NEW g \in Handles
      PROVE  ct'[g] \in Ciphertexts \cup {Null} /\ plain'[g] \in Residues
  <2>1. CASE ct'[g] = ct[g] /\ plain'[g] = plain[g]
    BY <2>1 DEF VInv, TypeOK
  <2>2. CASE Kept(ct'[g], plain'[g])
    BY <2>2, KeptType
  <2> QED
    BY <2>1, <2>2
<1>3. TypeOK'
  <2>1. ct' \in [Handles -> Ciphertexts \cup {Null}] /\ plain' \in [Handles -> Residues]
    BY <1>2
  <2> QED
    BY <2>1 DEF VInv, TypeOK, Ciphertexts, Residues
<1>4. ASSUME NEW g \in Held' PROVE Kept(ct[g], plain[g])'
  <2>1. Kept(ct'[g], plain'[g])
    BY <1>1, <1>4 DEF Held
  <2> QED
    BY <2>1 DEF Kept, Right, Record, Good, Automatic, Ext, Encodes, Canon, LevelFactor,
                GetScalingFactorInt, GetScalingFactorIntBig, Flexible
<1> QED
  BY <1>3, <1>4 DEF VInv

\* Storing adjusted operands and a result keeps the invariant.
LEMMA StoreWithKept ==
  ASSUME VInv, UNCHANGED scalTech,
         NEW a \in Handles, NEW c1, Kept(c1, plain[a]),
         NEW b \in Handles, NEW c2, Kept(c2, plain[b]),
         NEW h \in Handles, NEW c, NEW m, Kept(c, m),
         ct' = [ct EXCEPT ![a] = c1, ![b] = c2, ![h] = c],
         plain' = [plain EXCEPT ![h] = m]
  PROVE  VInv'
<1>0. ct \in [Handles -> Ciphertexts \cup {Null}] /\ plain \in [Handles -> Residues]
  BY DEF VInv, TypeOK
<1>1. ct' = [g \in Handles |-> ct'[g]] /\ plain' = [g \in Handles |-> plain'[g]]
  BY <1>0
<1>2. ASSUME NEW g \in Handles
      PROVE  \/ ct'[g] = ct[g] /\ plain'[g] = plain[g]
             \/ Kept(ct'[g], plain'[g])
  <2>1. CASE g = h
    BY <1>0, <2>1
  <2>2. CASE g # h /\ g = b
    BY <1>0, <2>2
  <2>3. CASE g # h /\ g # b /\ g = a
    BY <1>0, <2>3
  <2>4. CASE g # h /\ g # b /\ g # a
    BY <1>0, <2>4
  <2> QED
    BY <2>1, <2>2, <2>3, <2>4
<1> QED
  BY <1>1, <1>2, ChangedKept

\* Storing a result keeps the invariant.
LEMMA StoreKept ==
  ASSUME VInv, UNCHANGED scalTech, NEW h \in Handles, NEW c, NEW m, Kept(c, m), Store(h, c, m)
  PROVE  VInv'
<1>0. ct \in [Handles -> Ciphertexts \cup {Null}] /\ plain \in [Handles -> Residues]
      /\ ct' = [ct EXCEPT ![h] = c] /\ plain' = [plain EXCEPT ![h] = m]
  BY DEF VInv, TypeOK, Store
<1>1. ct' = [g \in Handles |-> ct'[g]] /\ plain' = [g \in Handles |-> plain'[g]]
  BY <1>0
<1>2. ASSUME NEW g \in Handles
      PROVE  \/ ct'[g] = ct[g] /\ plain'[g] = plain[g]
             \/ Kept(ct'[g], plain'[g])
  BY <1>0
<1> QED
  BY <1>1, <1>2, ChangedKept

\* At the start no ciphertext is held.
LEMMA InitKept == Init => VInv
<1> SUFFICES ASSUME Init PROVE VInv
  OBVIOUS
<1>1. ct = [h \in Handles |-> Null] /\ plain = [h \in Handles |-> 0] /\ scalTech \in Techniques
  BY DEF Init
<1> QED
  BY <1>1, ModulusFacts DEF VInv, TypeOK, Held

\* Every operation leaves kept ciphertexts.
LEMMA StepKept == VInv /\ [NextStep]_vars => VInv'
<1> SUFFICES ASSUME VInv, [NextStep]_vars PROVE VInv'
  OBVIOUS
<1>1. CASE UNCHANGED vars
  <2>1. ct' = ct /\ plain' = plain /\ UNCHANGED scalTech
    BY <1>1 DEF vars
  <2>2. ct' = [h \in Handles |-> ct'[h]] /\ plain' = [h \in Handles |-> plain'[h]]
    BY <2>1 DEF VInv, TypeOK
  <2> QED
    BY <2>1, <2>2, ChangedKept
<1>2. CASE NextStep
  <2> USE <1>2
  <2>0. UNCHANGED scalTech
    BY DEF NextStep
  <2>1. scalTech \in Techniques
    BY DEF VInv, TypeOK
  <2>2. ASSUME NEW m \in Messages, NEW deg \in {1, 2} PROVE Kept(Fresh(m, deg), m)
    BY <2>1, FreshKept
  <2>3. ASSUME NEW g \in Held PROVE g \in Handles /\ Kept(ct[g], plain[g])
    BY DEF Held, VInv
  <2>4. ASSUME NEW c, NEW m, Kept(c, m), NEW o, NEW n, Kept(o, n), NEW s \in Signs
        PROVE  /\ Kept(AdjustForAddOrSub(c, o), m)
               /\ Kept(AdjustForAddOrSub(o, c), n)
               /\ Kept(EvalAddCore(AdjustForAddOrSub(c, o), AdjustForAddOrSub(o, c), s),
                       (m + s * n) % T)
    <3> DEFINE a == AdjustForAddOrSub(c, o)
               b == AdjustForAddOrSub(o, c)
    <3>1. Kept(a, m) /\ Kept(b, n)
      BY <2>4, AdjustKept
    <3>2. Automatic => a.level = b.level /\ a.deg = b.deg /\ a.depth = b.depth
      BY <2>4, KeptFacts, AdjustAgree
    <3> HIDE DEF a, b
    <3>3. Kept(EvalAddCore(a, b, s), (m + s * n) % T)
      BY <3>1, <3>2, AddCoreKept
    <3> QED
      BY <3>1, <3>3 DEF a, b
  <2>5. ASSUME NEW c, NEW m, Kept(c, m), NEW o, NEW n, Kept(o, n)
        PROVE  /\ Kept(AdjustForMult(c, o).fst, m)
               /\ Kept(AdjustForMult(c, o).snd, n)
               /\ AdjustForMult(c, o).ok
                    => Kept(EvalMultCore(AdjustForMult(c, o).fst, AdjustForMult(c, o).snd),
                            (m * n) % T)
    <3> DEFINE adj == AdjustForMult(c, o)
    <3>0. Good(c) /\ Good(o)
      BY <2>5, KeptFacts
    <3>1. Kept(adj.fst, m) /\ Kept(adj.snd, n)
      BY <2>5, AdjustMultKept
    <3>2. (Automatic /\ adj.ok) =>
             adj.fst.deg = 1 /\ adj.snd.deg = 1 /\ adj.fst.depth = adj.snd.depth
      BY <3>0, AdjustMultGood
    <3> HIDE DEF adj
    <3>3. adj.ok => Kept(EvalMultCore(adj.fst, adj.snd), (m * n) % T)
      BY <3>1, <3>2, MultCoreKept
    <3> QED
      BY <3>1, <3>3 DEF adj
  <2>6. ASSUME NEW g \in Held, SquareReduces(ct[g]) => ct[g].towers > 1
        PROVE  /\ Kept(Reduced(ct[g]), plain[g])
               /\ Kept(EvalMultCore(Reduced(ct[g]), Reduced(ct[g])), (plain[g] * plain[g]) % T)
    <3>1. Kept(ct[g], plain[g])
      BY <2>3
    <3>2. Kept(Reduced(ct[g]), plain[g])
      BY <2>6, <3>1, ReducedKept
    <3>3. Automatic => Reduced(ct[g]).deg = 1
      BY <2>6, <3>1, KeptFacts, ReducedGood
    <3> QED
      BY <3>2, <3>3, MultCoreKept
  <2>a. ASSUME NEW h \in Handles, NEW m \in Messages, NEW deg \in {1, 2}, Encrypt(h, m, deg)
        PROVE  VInv'
    BY <2>0, <2>2, <2>a, StoreKept DEF Encrypt
  <2>b. ASSUME NEW h \in Handles, NEW a \in Held, NEW b \in Held, NEW s \in Signs,
               EvalAdd(a, b, h, s)
        PROVE  VInv'
    <3> DEFINE c1 == AdjustForAddOrSub(ct[a], ct[b])
               c2 == AdjustForAddOrSub(ct[b], ct[a])
               c  == EvalAddCore(c1, c2, s)
               r  == (plain[a] + s * plain[b]) % T
    <3>1. Kept(ct[a], plain[a]) /\ Kept(ct[b], plain[b]) /\ a \in Handles /\ b \in Handles
      BY <2>3
    <3>2. Kept(c, r)
      BY <3>1, <2>4
    <3>3. Store(h, c, r)
      BY <2>b DEF EvalAdd
    <3> HIDE DEF c, r, c1, c2
    <3> QED
      BY <2>0, <3>1, <3>2, <3>3, StoreKept
  <2>c. ASSUME NEW h \in Handles, NEW a \in Held, NEW b \in Held, NEW s \in Signs,
               EvalAddMutable(a, b, h, s)
        PROVE  VInv'
    <3> DEFINE c1 == AdjustForAddOrSub(ct[a], ct[b])
               c2 == AdjustForAddOrSub(ct[b], ct[a])
               c  == EvalAddCore(c1, c2, s)
               r  == (plain[a] + s * plain[b]) % T
    <3>1. Kept(ct[a], plain[a]) /\ Kept(ct[b], plain[b]) /\ a \in Handles /\ b \in Handles
      BY <2>3
    <3>2. Kept(c1, plain[a]) /\ Kept(c2, plain[b]) /\ Kept(c, r)
      BY <3>1, <2>4
    <3>3. StoreWith(a, c1, b, c2, h, c, r)
      BY <2>c DEF EvalAddMutable
    <3> HIDE DEF c, r, c1, c2
    <3> QED
      BY <2>0, <3>1, <3>2, <3>3, StoreWithKept DEF StoreWith
  <2>d. ASSUME NEW h \in Handles, NEW a \in Held, NEW b \in Held, EvalMult(a, b, h)
        PROVE  VInv'
    <3> DEFINE adj == AdjustForMult(ct[a], ct[b])
               c == EvalMultCore(adj.fst, adj.snd)
               r == (plain[a] * plain[b]) % T
    <3>1. Kept(ct[a], plain[a]) /\ Kept(ct[b], plain[b]) /\ a \in Handles /\ b \in Handles
      BY <2>3
    <3>2. adj.ok => Kept(c, r)
      BY <3>1, <2>5
    <3>3. adj.ok /\ Store(h, c, r)
      BY <2>d DEF EvalMult
    <3> HIDE DEF adj, c, r
    <3> QED
      BY <2>0, <3>1, <3>2, <3>3, StoreKept
  <2>e. ASSUME NEW h \in Handles, NEW a \in Held, NEW b \in Held, EvalMultMutable(a, b, h)
        PROVE  VInv'
    <3> DEFINE adj == AdjustForMult(ct[a], ct[b])
               c == EvalMultCore(adj.fst, adj.snd)
               r == (plain[a] * plain[b]) % T
    <3>1. Kept(ct[a], plain[a]) /\ Kept(ct[b], plain[b]) /\ a \in Handles /\ b \in Handles
      BY <2>3
    <3>2. Kept(adj.fst, plain[a]) /\ Kept(adj.snd, plain[b]) /\ (adj.ok => Kept(c, r))
      BY <3>1, <2>5
    <3>3. adj.ok /\ StoreWith(a, adj.fst, b, adj.snd, h, c, r)
      BY <2>e DEF EvalMultMutable
    <3> HIDE DEF adj, c, r
    <3> QED
      BY <2>0, <3>1, <3>2, <3>3, StoreWithKept DEF StoreWith
  <2>f. ASSUME NEW a \in Held, NEW b \in Held, EvalMultMutableThrows(a, b)
        PROVE  VInv'
    <3> DEFINE adj == AdjustForMult(ct[a], ct[b])
    <3>1. /\ a \in Handles /\ b \in Handles
          /\ ct' = [ct EXCEPT ![a] = adj.fst, ![b] = adj.snd] /\ plain' = plain
          /\ Kept(adj.fst, plain[a]) /\ Kept(adj.snd, plain[b])
      BY <2>3, <2>5, <2>f DEF EvalMultMutableThrows
    <3>2. ct \in [Handles -> Ciphertexts \cup {Null}] /\ plain \in [Handles -> Residues]
      BY DEF VInv, TypeOK
    <3> HIDE DEF adj
    <3>3. ct' = [h \in Handles |-> ct'[h]] /\ plain' = [h \in Handles |-> plain'[h]]
      BY <3>1, <3>2
    <3>4. ASSUME NEW g \in Handles
          PROVE  \/ ct'[g] = ct[g] /\ plain'[g] = plain[g]
                 \/ Kept(ct'[g], plain'[g])
      BY <3>1, <3>2
    <3> QED
      BY <2>0, <3>3, <3>4, ChangedKept
  <2>g. ASSUME NEW h \in Handles, NEW a \in Held, NEW m \in Messages, NEW deg \in {1, 2},
               NEW s \in Signs, EvalAddPlain(a, h, m, deg, s)
        PROVE  VInv'
    <3> DEFINE c1 == AdjustForAddOrSub(ct[a], Fresh(m, deg))
               c2 == AdjustForAddOrSub(Fresh(m, deg), ct[a])
               c  == EvalAddCore(c1, c2, s)
               r  == (plain[a] + s * m) % T
    <3>1. Kept(ct[a], plain[a]) /\ Kept(Fresh(m, deg), m) /\ a \in Handles
      BY <2>2, <2>3
    <3>2. Kept(c, r)
      BY <3>1, <2>4
    <3>3. Store(h, c, r)
      BY <2>g DEF EvalAddPlain
    <3> HIDE DEF c, r, c1, c2
    <3> QED
      BY <2>0, <3>1, <3>2, <3>3, StoreKept
  <2>h. ASSUME NEW h \in Handles, NEW a \in Held, NEW m \in Messages, NEW deg \in {1, 2},
               NEW s \in Signs, EvalAddPlainMutable(a, h, m, deg, s)
        PROVE  VInv'
    <3> DEFINE c1 == AdjustForAddOrSub(ct[a], Fresh(m, deg))
               c2 == AdjustForAddOrSub(Fresh(m, deg), ct[a])
               c  == EvalAddCore(c1, c2, s)
               r  == (plain[a] + s * m) % T
    <3>1. Kept(ct[a], plain[a]) /\ Kept(Fresh(m, deg), m) /\ a \in Handles
      BY <2>2, <2>3
    <3>2. Kept(c1, plain[a]) /\ Kept(c, r)
      BY <3>1, <2>4
    <3>3. StoreWith(a, c1, a, c1, h, c, r)
      BY <2>h DEF EvalAddPlainMutable
    <3> HIDE DEF c, r, c1, c2
    <3> QED
      BY <2>0, <3>1, <3>2, <3>3, StoreWithKept DEF StoreWith
  <2>i. ASSUME NEW h \in Handles, NEW a \in Held, NEW m \in Messages, NEW deg \in {1, 2},
               EvalMultPlain(a, h, m, deg)
        PROVE  VInv'
    <3> DEFINE adj == AdjustForMult(ct[a], Fresh(m, deg))
               c == EvalMultCore(adj.fst, adj.snd)
               r == (plain[a] * m) % T
    <3>1. Kept(ct[a], plain[a]) /\ Kept(Fresh(m, deg), m) /\ a \in Handles
      BY <2>2, <2>3
    <3>2. adj.ok => Kept(c, r)
      BY <3>1, <2>5
    <3>3. adj.ok /\ Store(h, c, r)
      BY <2>i DEF EvalMultPlain
    <3> HIDE DEF adj, c, r
    <3> QED
      BY <2>0, <3>1, <3>2, <3>3, StoreKept
  <2>j. ASSUME NEW h \in Handles, NEW a \in Held, NEW m \in Messages, NEW deg \in {1, 2},
               EvalMultPlainMutable(a, h, m, deg)
        PROVE  VInv'
    <3> DEFINE adj == AdjustForMult(ct[a], Fresh(m, deg))
               c == EvalMultCore(adj.fst, adj.snd)
               r == (plain[a] * m) % T
    <3>1. a \in Handles /\ Kept(adj.fst, plain[a]) /\ (adj.ok => Kept(c, r))
      BY <2>2, <2>3, <2>5
    <3>2. IF adj.ok THEN StoreWith(a, adj.fst, a, adj.fst, h, c, r)
          ELSE StoreWith(a, adj.fst, a, adj.fst, a, adj.fst, plain[a])
      BY <2>j DEF EvalMultPlainMutable
    <3> HIDE DEF adj, c, r
    <3> QED
      BY <2>0, <3>1, <3>2, StoreWithKept DEF StoreWith
  <2>k. ASSUME NEW h \in Handles, NEW a \in Held, EvalSquare(a, h)
        PROVE  VInv'
    BY <2>0, <2>6, <2>k, StoreKept DEF EvalSquare
  <2>l. ASSUME NEW h \in Handles, NEW a \in Held, EvalSquareMutable(a, h)
        PROVE  VInv'
    BY <2>0, <2>3, <2>6, <2>l, StoreWithKept DEF EvalSquareMutable, StoreWith
  <2>m. ASSUME NEW h \in Handles, NEW a \in Held, EvalNegate(a, h)
        PROVE  VInv'
    BY <2>0, <2>3, <2>m, NegateKept, StoreKept DEF EvalNegate
  <2>n. ASSUME NEW h \in Handles, NEW a \in Held, NEW n \in 1 .. L, ModReduce(a, h, n)
        PROVE  VInv'
    <3>1. Kept(ct[a], plain[a]) /\ ~Automatic /\ ct[a].towers > n
      BY <2>3, <2>n DEF ModReduce
    <3> QED
      BY <2>0, <2>n, <3>1, ManualKept, StoreKept DEF ModReduce
  <2>o. ASSUME NEW h \in Handles, NEW a \in Held, NEW n \in 1 .. L, LevelReduce(a, h, n)
        PROVE  VInv'
    <3>1. Kept(ct[a], plain[a]) /\ ~Automatic /\ ct[a].towers > n
      BY <2>3, <2>o DEF LevelReduce
    <3> QED
      BY <2>0, <2>o, <3>1, ManualKept, StoreKept DEF LevelReduce
  <2> QED
    BY <2>a, <2>b, <2>c, <2>d, <2>e, <2>f, <2>g, <2>h, <2>i, <2>j, <2>k, <2>l, <2>m,
       <2>n, <2>o DEF NextStep, Next
<1> QED
  BY <1>1, <1>2

\* Ciphertexts are kept always.
LEMMA InvKept == Spec => []VInv
BY InitKept, StepKept, PTL DEF Spec

-----------------------------------------------------------------------------
(* What a ciphertext decrypts to *)

\* A ciphertext that encodes a message decrypts to it.
LEMMA DecryptValue ==
  ASSUME NEW c \in Record, c.towers \in 1 .. L, NEW m, Encodes(c, m)
  PROVE  Decrypt(c) = m
<1> DEFINE n == c.towers - 1
           one == ModReduceInternal(c, n)
<1>1. n \in 0 .. c.towers
  BY ModulusFacts
<1>2. Encodes(one, m)
  BY <1>1, ModReduceValue
<1>3. Decrypt(c) = Times(one.phase, ModInverse(one.sf))
  BY DEF Decrypt, Times
<1> HIDE DEF one
<1>4. m \in Residues /\ one.sf \in Units /\ one.phase = Times(m, one.sf)
  BY <1>2 DEF Encodes
<1> QED
  BY <1>3, <1>4, Cancel

\* A compressed ciphertext decrypts to the same message.
LEMMA CompressValue ==
  ASSUME NEW c, NEW m, Kept(c, m), NEW n \in 1 .. L, ~CompressThrows(c)
  PROVE  Decrypt(Compress(c, n)) = m
<1> DEFINE k == c.deg - 1
           d == IF c.deg > 1 THEN ModReduceInternal(c, k) ELSE c
           e == IF n < d.towers THEN LevelReduceInternal(d, d.towers - n) ELSE d
<1>0. /\ c \in Record /\ Encodes(c, m) /\ Shaped(c) /\ c.towers \in 1 .. L /\ c.towers \in Int
      /\ c.deg \in Int /\ n \in Int /\ n >= 1
  BY KeptFacts, ModulusFacts
<1>1. d \in Record /\ Encodes(d, m) /\ d.towers \in 1 .. L
  <2>1. CASE c.deg > 1
    <3>1. k \in Int /\ k \in 0 .. c.towers /\ c.towers - k \in 1 .. L
      BY <1>0, <2>1, ModulusFacts DEF CompressThrows
    <3>2. d = ModReduceInternal(c, k)
      BY <2>1
    <3> HIDE DEF d, k
    <3>3. d \in Record /\ Encodes(d, m)
      BY <1>0, <3>1, <3>2, ModReduceValue
    <3>4. d.towers = c.towers - k
      <4>1. Shaped(c) /\ k \in Int
        BY <1>0, <3>1
      <4> QED
        BY <3>2, <4>1, ModReduceShape
    <3> QED
      BY <3>1, <3>3, <3>4
  <2>2. CASE ~(c.deg > 1)
    BY <1>0, <2>2
  <2> QED
    BY <2>1, <2>2
<1>2. Compress(c, n) = e
  BY DEF Compress
<1> HIDE DEF d
<1>3. e \in Record /\ Encodes(e, m) /\ e.towers \in 1 .. L
  <2>1. CASE n < d.towers
    <3> DEFINE j == d.towers - n
    <3>1. j \in Int /\ d.towers - j = n /\ Shaped(d)
      BY <1>0, <1>1, RecordFacts
    <3>2. e = LevelReduceInternal(d, j)
      BY <2>1
    <3> HIDE DEF e, j
    <3>3. e \in Record /\ Encodes(e, m)
      BY <1>1, <3>1, <3>2, LevelReduceValue
    <3>4. e.towers = d.towers - j
      BY <3>1, <3>2, LevelReduceShape
    <3> QED
      BY <3>1, <3>3, <3>4
  <2>2. CASE ~(n < d.towers)
    BY <1>1, <2>2
  <2> QED
    BY <2>1, <2>2
<1> HIDE DEF e
<1> QED
  BY <1>2, <1>3, DecryptValue

\* In FIXEDMANUAL the operand with more towers gives up the difference.
LEMMA ManualTowers ==
  ASSUME ~Automatic, NEW c, Shaped(c), NEW o, Shaped(o)
  PROVE  AdjustForAddOrSub(c, o).towers = IF c.towers > o.towers THEN o.towers ELSE c.towers
<1> DEFINE n == c.towers - o.towers
<1>1. c.towers \in Int /\ o.towers \in Int /\ n \in Int /\ c.towers - n = o.towers
  BY ShapedInt
<1>2. AdjustForAddOrSub(c, o) = IF c.towers > o.towers THEN LevelReduceInternal(c, n) ELSE c
  BY DEF AdjustForAddOrSub, AdjustLevels
<1> HIDE DEF n
<1>3. LevelReduceInternal(c, n).towers = c.towers - n
  BY <1>1, LevelReduceShape
<1> QED
  BY <1>1, <1>2, <1>3

-----------------------------------------------------------------------------
(* Theorems *)

\* Ciphertexts have their types, with residues for factor and phase.
THEOREM TypeCorrect == Spec => []TypeOK
<1>1. VInv => TypeOK
  BY DEF VInv
<1> QED
  BY <1>1, InvKept, PTL

\* Whatever operations a program performs, every ciphertext decrypts to what
\* the same operations make of the messages.
THEOREM DecryptionRight == Spec => []DecryptsRight
<1>1. VInv => DecryptsRight
  BY KeptFacts, DecryptValue DEF VInv, DecryptsRight
<1> QED
  BY <1>1, InvKept, PTL

\* Compressing a ciphertext before it is decrypted keeps its message.
THEOREM CompressionRight == Spec => []CompressKeepsMessage
<1>1. VInv => CompressKeepsMessage
  BY CompressValue DEF VInv, CompressKeepsMessage
<1> QED
  BY <1>1, InvKept, PTL

\* The scaling factor of a ciphertext is a function of its level and degree,
\* the one the tables hold.
THEOREM FactorsCanonical == Spec => []CanonicalFactor
<1>1. VInv => CanonicalFactor
  <2> SUFFICES ASSUME VInv, NEW h \in Held
               PROVE  ct[h].sf = Canon(ct[h].level, ct[h].deg)
    BY DEF CanonicalFactor, Canon, Times
  <2> QED
    BY KeptFacts DEF VInv
<1> QED
  BY <1>1, InvKept, PTL

\* Any two ciphertexts of a program agree once adjusted, in their scaling
\* factor too.
THEOREM AdjustmentAgrees == Spec => []OperandsAgree
<1>1. VInv => OperandsAgree
  <2> SUFFICES ASSUME VInv, NEW g \in Held, NEW h \in Held,
                      NEW c, c = AdjustForAddOrSub(ct[g], ct[h]),
                      NEW o, o = AdjustForAddOrSub(ct[h], ct[g])
               PROVE  /\ c.towers = o.towers
                      /\ c.level = o.level
                      /\ Automatic => c.deg = o.deg /\ c.sf = o.sf
    BY DEF OperandsAgree
  <2>1. Kept(ct[g], plain[g]) /\ Kept(ct[h], plain[h])
    BY DEF VInv
  <2>2. Good(ct[g]) /\ Good(ct[h])
    BY <2>1, KeptFacts
  <2>3. Kept(c, plain[g]) /\ Kept(o, plain[h])
    BY <2>1, AdjustKept
  <2>4. CASE Automatic
    <3>1. c.level = o.level /\ c.deg = o.deg /\ c.towers = o.towers
      BY <2>2, <2>4, AdjustAgree
    <3> QED
      BY <2>3, <3>1, KeptFacts
  <2>5. CASE ~Automatic
    <3>1. c.towers = o.towers
      <4>1. /\ Shaped(ct[g]) /\ Shaped(ct[h]) /\ ct[g].towers \in Int /\ ct[h].towers \in Int
        BY <2>1, KeptFacts
      <4>2. /\ c.towers = IF ct[g].towers > ct[h].towers THEN ct[h].towers ELSE ct[g].towers
            /\ o.towers = IF ct[h].towers > ct[g].towers THEN ct[g].towers ELSE ct[h].towers
        BY <2>5, <4>1, ManualTowers
      <4> QED
        BY <4>1, <4>2
    <3>2. /\ c.level \in Int /\ c.towers \in Int /\ o.level \in Int /\ o.towers \in Int
          /\ c.level + c.towers = L /\ o.level + o.towers = L
      BY <2>3, KeptFacts
    <3> QED
      BY <2>5, <3>1, <3>2, ModulusFacts
  <2> QED
    BY <2>4, <2>5
<1> QED
  BY <1>1, InvKept, PTL

=============================================================================
