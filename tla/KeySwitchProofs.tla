--------------------------- MODULE KeySwitchProofs ---------------------------
(****************************************************************************)
(* For every chain of moduli, number of digits and of special primes, all   *)
(* secrets and all draws of the generators:                                 *)
(*   - at every level the towers of a digit have the moduli of the towers   *)
(*     of the key they are multiplied with;                                 *)
(*   - every key, made by one party or by two, switches between the secrets *)
(*     it is meant for, with small errors;                                  *)
(*   - a digit is a small integer that agrees with its residues in every    *)
(*     tower, after towers were dropped too;                                *)
(*   - a ciphertext carries its message, within its noise, through every    *)
(*     squaring, key switching and rescaling, and decrypts to it.           *)
(****************************************************************************)
EXTENDS KeySwitch, ArithmeticTheorems, FiniteSetTheorems, TLAPS

\* A ciphertext has the first moduli, as many as it has towers.
Basis ==
  ct # None =>
    /\ ct = [key |-> ct.key, elems |-> ct.elems]
    /\ DOMAIN ct.elems \in {1 .. 2, 1 .. 3}
    /\ \E l \in 1 .. SizeQ : \A i \in DOMAIN ct.elems : ct.elems[i].mod = BasisQ(l)

Params ==
  /\ setting \in Settings
  /\ SizeP \in Nat
  /\ ~Hybrid => SizeP = 0

\* Digits had some number of towers, and match the key at that number.
DigitInv == digits # None => digits.towers \in 1 .. SizeQ /\ TowersMatch

Inv == Params /\ Basis /\ DigitInv

-----------------------------------------------------------------------------
(* Digits *)

\* The parameters are natural numbers, and in HYBRID there are towers in each digit.
LEMMA Sizes ==
  ASSUME Params
  PROVE  /\ SizeQ \in Nat \ {0} /\ setting.digits \in Nat
         /\ Hybrid => setting.digits > 0 /\ Alpha \in Nat \ {0}
<1>1. SizeQ \in Nat \ {0} /\ setting.digits \in Nat /\ (Hybrid => setting.digits > 0)
  BY KeySwitchAssumption DEF Params, SizeQ, Hybrid
<1>2. ASSUME Hybrid PROVE Alpha \in Nat \ {0}
  <2>1. SizeQ + setting.digits - 1 \in Nat /\ setting.digits \in Nat \ {0}
    BY <1>1, <1>2
  <2>2. ~(SizeQ + setting.digits - 1 < setting.digits * 1)
    BY <1>1, <1>2
  <2>3. ~((SizeQ + setting.digits - 1) \div setting.digits < 1)
    BY <2>1, <2>2, DivisionBound
  <2>4. Alpha = (SizeQ + setting.digits - 1) \div setting.digits
    BY DEF Alpha, TowersPerPart, CeilDiv, SizeQ
  <2>5. (SizeQ + setting.digits - 1) \div setting.digits \in Nat
    BY <2>1, Division
  <2> QED BY <2>3, <2>4, <2>5
<1> QED BY <1>1, <1>2

\* Every digit begins below the number of towers, and all but the last have
\* their towers below it.
LEMMA PartsOfTowers ==
  ASSUME Params, Hybrid, NEW l \in 1 .. SizeQ, NEW n \in 0 .. (NumParts(l) - 1)
  PROVE  /\ n \in Nat /\ Alpha * n \in Nat /\ Alpha * n < l
         /\ SizePart(l, n) \in Nat
         /\ Alpha * n + SizePart(l, n) <= l
         /\ Alpha * n + SizePart(l, n) < l => SizePart(l, n) = Alpha
<1>1. l \in Nat \ {0} /\ Alpha \in Nat \ {0} /\ l + Alpha - 1 \in Nat
  BY Sizes
<1>2. NumParts(l) = (l + Alpha - 1) \div Alpha /\ NumParts(l) \in Nat
  BY <1>1, Division DEF NumParts, CeilDiv
<1>3. n \in Nat /\ n < NumParts(l)
  BY <1>2
<1>4. ASSUME NEW m \in Nat, m < NumParts(l) PROVE Alpha * m \in Nat /\ Alpha * m < l
  <2>1. m + 1 \in Nat /\ ~(NumParts(l) < m + 1)
    BY <1>2, <1>4
  <2>2. ~(l + Alpha - 1 < Alpha * (m + 1))
    BY <1>1, <1>2, <2>1, DivisionBound
  <2>3. Alpha * (m + 1) = Alpha * m + Alpha /\ Alpha * m \in Nat
    BY <1>1
  <2> QED BY <1>1, <2>2, <2>3
<1>5. CASE n = NumParts(l) - 1
  <2>1. SizePart(l, n) = l - Alpha * n
    BY <1>5 DEF SizePart
  <2> QED BY <1>1, <1>3, <1>4, <2>1
<1>6. CASE n # NumParts(l) - 1
  <2>1. SizePart(l, n) = Alpha
    BY <1>6 DEF SizePart
  <2>2. n + 1 \in Nat /\ n + 1 < NumParts(l)
    BY <1>2, <1>3, <1>6
  <2>3. Alpha * (n + 1) < l /\ Alpha * n < l /\ Alpha * n \in Nat
    BY <1>3, <1>4, <2>2
  <2>4. Alpha * (n + 1) = Alpha * n + Alpha
    BY <1>1, <1>3
  <2> QED BY <1>1, <1>3, <2>1, <2>3, <2>4
<1> QED BY <1>5, <1>6

\* The moduli a digit is switched to are the others of the ciphertext in their
\* order, then the special primes.
LEMMA Complement ==
  ASSUME Params, Hybrid, NEW l \in 1 .. SizeQ, NEW n \in 0 .. (NumParts(l) - 1),
         NEW k \in 0 .. (l - SizePart(l, n) + SizeP - 1)
  PROVE  ComplPartQ(l, n)[k] =
           IF k >= l - SizePart(l, n) THEN special[k - (l - SizePart(l, n)) + 1]
           ELSE IF k < Alpha * n THEN Q(k) ELSE Q(k + SizePart(l, n))
<1> DEFINE rest == l - SizePart(l, n)
<1>1. /\ n \in Nat /\ Alpha * n \in Nat /\ SizePart(l, n) \in Nat
      /\ Alpha * n + SizePart(l, n) <= l
      /\ Alpha * n + SizePart(l, n) < l => SizePart(l, n) = Alpha
      /\ Alpha \in Nat \ {0} /\ SizeP \in Nat /\ k \in Nat
  BY PartsOfTowers, Sizes DEF Params
<1>2. k \in 0 .. (rest + SizeP - 1)
  OBVIOUS
<1>3. CASE k >= rest
  BY <1>2, <1>3 DEF ComplPartQ
<1>4. CASE k < rest
  <2>1. /\ k \div Alpha \in Nat /\ k % Alpha \in 0 .. (Alpha - 1)
        /\ k = Alpha * (k \div Alpha) + (k % Alpha)
        /\ k < Alpha * n <=> k \div Alpha < n
    BY <1>1, Division, DivisionBound
  <2>2. ~(k >= rest)
    BY <1>1, <1>4
  <2>3. ComplPartQ(l, n)[k] =
          Q(Alpha * (IF k \div Alpha >= n THEN k \div Alpha + 1 ELSE k \div Alpha) + (k % Alpha))
    BY <1>2, <2>2 DEF ComplPartQ
  <2>4. CASE k < Alpha * n
    <3>1. ~(k \div Alpha >= n)
      BY <1>1, <2>1, <2>4
    <3> QED BY <2>1, <2>2, <2>3, <2>4, <3>1
  <2>5. CASE ~(k < Alpha * n)
    <3>1. k \div Alpha >= n
      BY <1>1, <2>1, <2>5
    <3>2. SizePart(l, n) = Alpha
      BY <1>1, <1>4, <2>5
    <3>3. Alpha * (k \div Alpha + 1) = Alpha * (k \div Alpha) + Alpha
      BY <1>1, <2>1
    <3>4. Alpha * (k \div Alpha + 1) + (k % Alpha) = k + Alpha
      <4> DEFINE d == k \div Alpha
                 r == k % Alpha
                 p == Alpha * d
                 p1 == Alpha * (d + 1)
      <4>1. p \in Nat /\ r \in Nat /\ k = p + r /\ p1 = p + Alpha
        BY <1>1, <2>1, <3>3
      <4> HIDE DEF p, p1, r
      <4>2. p1 + r = k + Alpha
        BY <1>1, <4>1
      <4> QED BY <4>2 DEF p1, r, d
    <3> QED BY <2>2, <2>3, <2>5, <3>1, <3>2, <3>4
  <2> QED BY <2>4, <2>5
<1> QED BY <1>1, <1>3, <1>4

\* The moduli of digit n of an element of l towers are those of the key.
Matches(d, l) ==
  /\ DOMAIN d.mod = 0 .. (l + SizeP - 1)
  /\ \A i \in DOMAIN d.mod : d.mod[i] = KeyBasis[KeyTower(i, l)]

\* A digit of HYBRID key switching has the moduli of the key's towers it meets.
LEMMA HybridDigitMatches ==
  ASSUME Params, Hybrid, NEW l \in 1 .. SizeQ, NEW n \in 0 .. (NumParts(l) - 1), NEW c, Size(c) = l
  PROVE  Matches(HybridDigit(c, n), l)
<1> DEFINE m == HybridDigit(c, n).mod
           start == Alpha * n
           size == SizePart(l, n)
           rest == l - size
           compl == ComplPartQ(l, n)
<1>1. /\ n \in Nat /\ start \in Nat /\ start < l /\ size \in Nat /\ start + size <= l
      /\ l \in Nat /\ l <= SizeQ /\ SizeQ \in Nat /\ SizeP \in Nat
  BY PartsOfTowers, Sizes DEF Params
<1>2. m = [i \in 0 .. (l + SizeP - 1) |->
             IF i < start THEN compl[i]
             ELSE IF i < start + size THEN ParamsPartQ(n, size)[i - start] ELSE compl[i - size]]
  BY DEF HybridDigit, ApproxSwitchCRTBasis
<1>3. ASSUME NEW i \in 0 .. (l + SizeP - 1)
      PROVE  m[i] = KeyBasis[KeyTower(i, l)]
  <2>1. i \in Nat /\ i < l + SizeP
    BY <1>1
  <2>2. /\ KeyTower(i, l) \in 0 .. (SizeQ + SizeP - 1)
        /\ KeyTower(i, l) = IF i < l THEN i ELSE SizeQ + i - l
    BY <1>1, <2>1 DEF KeyTower
  <2>3. KeyBasis[KeyTower(i, l)] = IF i < l THEN Q(i) ELSE special[i - l + 1]
    <3>1. KeyBasis[KeyTower(i, l)] =
            IF KeyTower(i, l) < SizeQ THEN Q(KeyTower(i, l)) ELSE special[KeyTower(i, l) - SizeQ + 1]
      BY <2>2 DEF KeyBasis, BasisQP
    <3>2. CASE i < l
      BY <1>1, <2>1, <2>2, <3>1, <3>2
    <3>3. CASE ~(i < l)
      <4>1. KeyTower(i, l) = SizeQ + i - l
        BY <2>2, <3>3
      <4>2. ~(KeyTower(i, l) < SizeQ) /\ KeyTower(i, l) - SizeQ + 1 = i - l + 1
        BY <1>1, <2>1, <3>3, <4>1
      <4>3. KeyBasis[KeyTower(i, l)] = special[KeyTower(i, l) - SizeQ + 1]
        BY <3>1, <4>2
      <4> QED BY <3>3, <4>2, <4>3
    <3> QED BY <3>2, <3>3
  <2>4. CASE i < start
    <3>1. i \in 0 .. (l - SizePart(l, n) + SizeP - 1) /\ ~(i >= l - SizePart(l, n)) /\ i < l
      BY <1>1, <2>1, <2>4
    <3>2. compl[i] = Q(i)
      BY <2>4, <3>1, Complement
    <3> QED BY <1>2, <2>3, <2>4, <3>1, <3>2
  <2>5. CASE ~(i < start) /\ i < start + size
    <3>1. i < l /\ i - start \in 0 .. (size - 1)
      BY <1>1, <2>1, <2>5
    <3>2. ParamsPartQ(n, size)[i - start] = Q(Alpha * n + (i - start))
      BY <3>1 DEF ParamsPartQ
    <3>3. Alpha * n + (i - start) = i
      BY <1>1, <2>1
    <3> QED BY <1>2, <2>3, <2>5, <3>1, <3>2, <3>3
  <2>6. CASE ~(i < start) /\ ~(i < start + size)
    <3>1. /\ i - size \in 0 .. (l - SizePart(l, n) + SizeP - 1)
          /\ ~(i - size < start)
          /\ (i - size >= l - SizePart(l, n)) <=> ~(i < l)
          /\ i - size - (l - SizePart(l, n)) + 1 = i - l + 1
          /\ i - size + SizePart(l, n) = i
      BY <1>1, <2>1, <2>6
    <3>2. compl[i - size] = IF i < l THEN Q(i) ELSE special[i - l + 1]
      BY <3>1, Complement
    <3> QED BY <1>2, <2>3, <2>6, <3>2
  <2> QED BY <2>4, <2>5, <2>6
<1>4. DOMAIN m = 0 .. (l + SizeP - 1)
  BY <1>2
<1> QED BY <1>3, <1>4 DEF Matches

\* A digit of BV key switching has the ciphertext's moduli, which are the key's first.
LEMMA CRTDecomposeMatches ==
  ASSUME Params, ~Hybrid, NEW l \in 1 .. SizeQ, NEW c, c.mod = BasisQ(l), NEW n
  PROVE  Matches(CRTDecompose(c, n), l)
<1>1. CRTDecompose(c, n).mod = BasisQ(l)
  BY DEF CRTDecompose
<1>2. SizeP = 0 /\ SizeQ \in Nat /\ l \in Nat /\ l <= SizeQ
  BY Sizes DEF Params
<1>3. DOMAIN BasisQ(l) = 0 .. (l + SizeP - 1)
  BY <1>2 DEF BasisQ
<1>4. ASSUME NEW i \in 0 .. (l - 1) PROVE BasisQ(l)[i] = KeyBasis[KeyTower(i, l)]
  <2>1. KeyTower(i, l) = i /\ i \in 0 .. (SizeQ - 1)
    BY <1>2 DEF KeyTower
  <2> QED BY <2>1 DEF BasisQ, KeyBasis
<1> QED BY <1>1, <1>3, <1>4 DEF Matches, BasisQ

-----------------------------------------------------------------------------
(* The invariant *)

\* Init establishes the invariant, in both techniques.
LEMMA Start == Init => Inv
<1> SUFFICES ASSUME Init PROVE Inv
  OBVIOUS
<1>1. setting \in Settings /\ ct = None /\ digits = None
  BY DEF Init
<1>2. CASE Hybrid
  <2>1. setting.technique = "HYBRID" /\ NumSpecial(setting) \in Nat
    BY <1>1, <1>2, SpecialAssumption DEF Hybrid
  <2>2. special = SpecialPrimes(setting)
    BY <1>2 DEF Init
  <2>3. special \in Seq({special[n] : n \in 1 .. NumSpecial(setting)})
    <3>1. DOMAIN special = 1 .. NumSpecial(setting)
      BY <2>2 DEF SpecialPrimes
    <3>2. special = [n \in 1 .. NumSpecial(setting) |-> special[n]]
      BY <2>2, <3>1 DEF SpecialPrimes
    <3> QED BY <2>1, <3>2
  <2>4. Len(special) \in Nat
    BY <2>3
  <2> QED BY <1>1, <1>2, <2>4 DEF Inv, Params, Basis, DigitInv, SizeP
<1>3. CASE ~Hybrid
  <2>1. special = <<>>
    BY <1>3 DEF Init
  <2>2. SizeP = 0
    BY <2>1 DEF SizeP
  <2> QED BY <1>1, <1>3, <2>2 DEF Inv, Params, Basis, DigitInv
<1> QED BY <1>2, <1>3

\* What does not depend on what a step changes.
LEMMA Frame ==
  ASSUME UNCHANGED parameters
  PROVE  /\ Params => Params' /\ SizeQ' = SizeQ /\ Hybrid' = Hybrid
         /\ \A l : BasisQ(l)' = BasisQ(l)
         /\ Basis /\ UNCHANGED ct => Basis'
         /\ DigitInv /\ (digits' = digits \/ digits' = None) => DigitInv'
<1>1. setting' = setting /\ special' = special
  BY DEF parameters
<1>2. SizeQ' = SizeQ /\ Hybrid' = Hybrid /\ SizeP' = SizeP /\ KeyBasis' = KeyBasis
  BY <1>1 DEF SizeQ, SizeP, Hybrid, KeyBasis, BasisQP, BasisQ, Q
<1>3. \A l : BasisQ(l)' = BasisQ(l)
  BY <1>1 DEF BasisQ, Q
<1>4. \A i, l : KeyTower(i, l)' = KeyTower(i, l)
  BY <1>2 DEF KeyTower
<1>5. Params => Params'
  BY <1>1, <1>2 DEF Params
<1>6. Basis /\ UNCHANGED ct => Basis'
  BY <1>2, <1>3 DEF Basis
<1>7. DigitInv /\ digits' = digits => DigitInv'
  BY <1>2, <1>4 DEF DigitInv, TowersMatch
<1>8. digits' = None => DigitInv'
  BY DEF DigitInv
<1> QED BY <1>2, <1>3, <1>5, <1>6, <1>7, <1>8

\* The number of towers of a ciphertext, and the moduli it has.
LEMMA LevelIsSize ==
  ASSUME Params, Basis, ct # None
  PROVE  /\ ct = [key |-> ct.key, elems |-> ct.elems]
         /\ DOMAIN ct.elems \in {1 .. 2, 1 .. 3}
         /\ Level \in 1 .. SizeQ
         /\ \A i \in DOMAIN ct.elems : ct.elems[i].mod = BasisQ(Level) /\ Size(ct.elems[i]) = Level
<1>1. PICK l \in 1 .. SizeQ : \A i \in DOMAIN ct.elems : ct.elems[i].mod = BasisQ(l)
  BY DEF Basis
<1>2. DOMAIN BasisQ(l) = 0 .. (l - 1) /\ l \in Nat
  BY Sizes DEF BasisQ
<1>3. Cardinality(DOMAIN BasisQ(l)) = l
  BY <1>2, SizeOfInterval
<1>4. \A i \in DOMAIN ct.elems : Size(ct.elems[i]) = l
  BY <1>1, <1>3 DEF Size
<1>5. 1 \in DOMAIN ct.elems
  BY DEF Basis
<1>6. Level = l
  BY <1>4, <1>5 DEF Level
<1> QED BY <1>1, <1>4, <1>6 DEF Basis

\* A ciphertext whose elements have the first l moduli keeps Basis.
LEMMA NewCiphertext ==
  ASSUME Params, UNCHANGED parameters,
         NEW key, NEW elems, ct' = [key |-> key, elems |-> elems],
         DOMAIN elems \in {1 .. 2, 1 .. 3},
         NEW l \in 1 .. SizeQ, \A i \in DOMAIN elems : elems[i].mod = BasisQ(l)
  PROVE  Basis'
<1>1. SizeQ' = SizeQ /\ BasisQ(l)' = BasisQ(l)
  BY Frame
<1>2. ct'.key = key /\ ct'.elems = elems
  OBVIOUS
<1>3. ct' = [key |-> ct'.key, elems |-> ct'.elems] /\ DOMAIN ct'.elems \in {1 .. 2, 1 .. 3}
  BY <1>2
<1>4. l \in 1 .. SizeQ' /\ \A i \in DOMAIN ct'.elems : ct'.elems[i].mod = BasisQ(l)'
  BY <1>1, <1>2
<1> QED BY <1>3, <1>4 DEF Basis

\* The inner product of digits and key comes back to the ciphertext's moduli.
LEMMA FastKeySwitchBasis ==
  ASSUME NEW digs, NEW key, NEW l
  PROVE  \A i \in {1, 2} : EvalFastKeySwitchCore(digs, key, l)[i].mod = BasisQ(l)
<1> DEFINE basis == IF Hybrid THEN BasisQP(l) ELSE BasisQ(l)
           inner(k) == [mod |-> basis,
                        val |-> [i \in DOMAIN basis |->
                                   SumFunction([n \in DOMAIN digs |->
                                                  digs[n].val[i] * k[n].val[KeyTower(i, l)]])
                                     % basis[i]]]
           down(x) == IF Hybrid THEN ApproxModDown(x, l) ELSE x
<1>1. ASSUME NEW x PROVE ApproxModDown(x, l).mod = BasisQ(l)
  BY DEF ApproxModDown
<1>2. ASSUME NEW k PROVE down(inner(k)).mod = BasisQ(l)
  <2>1. inner(k).mod = basis
    OBVIOUS
  <2> HIDE DEF inner
  <2> QED BY <1>1, <2>1
<1>3. EvalFastKeySwitchCore(digs, key, l) = <<down(inner(key.b)), down(inner(key.a))>>
  BY DEF EvalFastKeySwitchCore
<1> HIDE DEF inner, down
<1> QED BY <1>2, <1>3

\* Arithmetic keeps the moduli of its first operand.
LEMMA SameBasis ==
  ASSUME NEW x, NEW y, NEW n
  PROVE  Plus(x, y).mod = x.mod /\ Times(x, y).mod = x.mod /\ TimesInt(x, n).mod = x.mod
  BY DEF Plus, Times, TimesInt

\* Rescaling and dropping a tower both drop the last modulus.
LEMMA ModReduceBasis ==
  ASSUME NEW l \in Nat, l > 1, NEW x, x.mod = BasisQ(l), Size(x) = l, NEW t
  PROVE  /\ ModReduce(x, t).mod = BasisQ(l - 1)
         /\ DropLastElements(x, 1).mod = BasisQ(l - 1)
<1>1. First(BasisQ(l), l - 1) = BasisQ(l - 1)
  BY DEF First, BasisQ
<1> QED BY <1>1 DEF ModReduce, DropLastElements

\* Making keys leaves parameters, ciphertext and digits alone.
LEMMA KeysKeepInv ==
  ASSUME Inv,
         \/ EvalMultKeyGen \/ EvalAutomorphismKeyGen \/ ReKeyGen
         \/ \E p \in {1, 2} : MultiKeySwitchGen(p) \/ MultiplyByShare(p)
         \/ AddShares \/ AddProducts \/ UNCHANGED vars
  PROVE  Inv'
<1>1. UNCHANGED parameters /\ ct' = ct /\ digits' = digits
  BY DEF EvalMultKeyGen, EvalAutomorphismKeyGen, ReKeyGen, MultiKeySwitchGen, MultiplyByShare,
         AddShares, AddProducts, vars
<1> QED BY <1>1, Frame DEF Inv

\* A switched ciphertext has the moduli it had.
LEMMA SwitchedKeepsInv ==
  ASSUME Inv, ct # None, NEW ba, ba[2].mod = BasisQ(Level), NEW l, Switched(ba, l)
  PROVE  Inv'
<1>1. UNCHANGED parameters /\ digits' = None
  BY DEF Switched
<1> DEFINE e == <<Plus(ct.elems[1], ba[1]), ba[2]>>
<1>2. ct' = [key |-> "z", elems |-> e]
  BY DEF Switched
<1>3. /\ Level \in 1 .. SizeQ /\ Params
      /\ ct.elems[1].mod = BasisQ(Level)
  BY LevelIsSize DEF Inv
<1>4. DOMAIN e = 1 .. 2 /\ \A i \in DOMAIN e : e[i].mod = BasisQ(Level)
  BY <1>3 DEF Plus
<1> HIDE DEF e
<1>5. Basis'
  BY <1>1, <1>2, <1>3, <1>4, NewCiphertext
<1> QED BY <1>1, <1>5, Frame DEF Inv

\* Every step keeps the invariant.
LEMMA StepKeepsInv == Inv /\ [Next]_vars => Inv'
<1> SUFFICES ASSUME Inv, [Next]_vars PROVE Inv'
  OBVIOUS
<1> USE DEF Inv
<1>1. ASSUME \/ EvalMultKeyGen \/ EvalAutomorphismKeyGen \/ ReKeyGen
             \/ \E p \in {1, 2} : MultiKeySwitchGen(p) \/ MultiplyByShare(p)
             \/ AddShares \/ AddProducts \/ UNCHANGED vars
      PROVE  Inv'
  BY <1>1, KeysKeepInv
<1>2. ASSUME Encrypt PROVE Inv'
  <2>1. UNCHANGED parameters /\ digits' = digits
    BY <1>2 DEF Encrypt
  <2>2. PICK x, v, d :
          ct' = [key |-> "s",
                 elems |-> <<Plus(InQ(Centered(x, T) + T * v), TimesInt(Times(InQ(d[1]), InQ(S)), -1)),
                             InQ(d[1])>>]
    BY <1>2 DEF Encrypt
  <2> DEFINE e == <<Plus(InQ(Centered(x, T) + T * v), TimesInt(Times(InQ(d[1]), InQ(S)), -1)), InQ(d[1])>>
  <2>3. DOMAIN e = 1 .. 2 /\ \A i \in DOMAIN e : e[i].mod = BasisQ(SizeQ)
    <3> DEFINE c == InQ(d[1])
               b == InQ(Centered(x, T) + T * v)
               a == TimesInt(Times(c, InQ(S)), -1)
    <3>1. b.mod = BasisQ(SizeQ) /\ c.mod = BasisQ(SizeQ)
      BY DEF InQ, Element
    <3>2. Plus(b, a).mod = b.mod
      <4> HIDE DEF a, b
      <4> QED
        BY DEF Plus, Element
    <3>3. e = <<Plus(b, a), c>>
      OBVIOUS
    <3> HIDE DEF a, b, c, e
    <3> QED
      BY <3>1, <3>2, <3>3
  <2>4. SizeQ \in 1 .. SizeQ
    BY Sizes
  <2> HIDE DEF e
  <2>5. ct' = [key |-> "s", elems |-> e]
    BY <2>2 DEF e
  <2>6. Basis'
    BY <2>1, <2>3, <2>4, <2>5, NewCiphertext
  <2> QED BY <2>1, <2>6, Frame
<1>3. ASSUME EvalSquare PROVE Inv'
  <2>1. UNCHANGED parameters /\ digits' = None /\ ct # None
    BY <1>3 DEF EvalSquare
  <2> DEFINE c == ct.elems
             e == <<Times(c[1], c[1]), TimesInt(Times(c[1], c[2]), 2), Times(c[2], c[2])>>
  <2>2. /\ ct = [key |-> ct.key, elems |-> c] /\ Level \in 1 .. SizeQ
        /\ c[1].mod = BasisQ(Level) /\ c[2].mod = BasisQ(Level)
    BY <2>1, LevelIsSize
  <2>3. ct' = [ct EXCEPT !.elems = e]
    BY <1>3 DEF EvalSquare
  <2>4. DOMAIN e = 1 .. 3 /\ \A i \in DOMAIN e : e[i].mod = BasisQ(Level)
    <3> DEFINE e1 == Times(c[1], c[1])
               e2 == TimesInt(Times(c[1], c[2]), 2)
               e3 == Times(c[2], c[2])
    <3>1. e1.mod = BasisQ(Level) /\ e2.mod = BasisQ(Level) /\ e3.mod = BasisQ(Level)
      <4>1. Times(c[1], c[1]).mod = BasisQ(Level) /\ Times(c[1], c[2]).mod = BasisQ(Level)
        BY <2>2, SameBasis
      <4>2. Times(c[2], c[2]).mod = BasisQ(Level)
        BY <2>2, SameBasis
      <4>3. TimesInt(Times(c[1], c[2]), 2).mod = Times(c[1], c[2]).mod
        BY SameBasis
      <4> QED BY <4>1, <4>2, <4>3
    <3>2. e = <<e1, e2, e3>>
      OBVIOUS
    <3> HIDE DEF e, e1, e2, e3
    <3> QED BY <3>1, <3>2
  <2> HIDE DEF e
  <2>5. ct' = [key |-> ct.key, elems |-> e]
    BY <2>2, <2>3
  <2>6. Basis'
    BY <2>1, <2>2, <2>4, <2>5, NewCiphertext
  <2> QED BY <2>1, <2>6, Frame
<1>4. ASSUME Relinearize PROVE Inv'
  <2>1. UNCHANGED parameters /\ digits' = digits /\ ct # None
    BY <1>4 DEF Relinearize
  <2> DEFINE ba == KeySwitchCore(ct.elems[3], evalKey)
             e == <<Plus(ct.elems[1], ba[1]), Plus(ct.elems[2], ba[2])>>
  <2>2. /\ ct = [key |-> ct.key, elems |-> ct.elems] /\ Level \in 1 .. SizeQ
        /\ ct.elems[1].mod = BasisQ(Level) /\ ct.elems[2].mod = BasisQ(Level)
    BY <2>1, LevelIsSize
  <2>3. ct' = [ct EXCEPT !.elems = e]
    BY <1>4, <2>2 DEF Relinearize
  <2>4. DOMAIN e = 1 .. 2 /\ \A i \in DOMAIN e : e[i].mod = BasisQ(Level)
    <3> DEFINE e1 == Plus(ct.elems[1], ba[1])
               e2 == Plus(ct.elems[2], ba[2])
    <3>1. e1.mod = BasisQ(Level) /\ e2.mod = BasisQ(Level)
      BY <2>2, SameBasis
    <3>2. e = <<e1, e2>>
      OBVIOUS
    <3> HIDE DEF e, e1, e2
    <3> QED BY <3>1, <3>2
  <2> HIDE DEF e
  <2>5. ct' = [key |-> ct.key, elems |-> e]
    BY <2>2, <2>3
  <2>6. Basis'
    BY <2>1, <2>2, <2>4, <2>5, NewCiphertext
  <2> QED BY <2>1, <2>6, Frame
<1>5. ASSUME KeySwitchInPlace PROVE Inv'
  <2>1. ct # None /\ Switched(KeySwitchCore(ct.elems[2], evalKey), Level)
    BY <1>5 DEF KeySwitchInPlace, Switchable
  <2>2. Size(ct.elems[2]) = Level
    BY <2>1, LevelIsSize
  <2>3. KeySwitchCore(ct.elems[2], evalKey)[2].mod = BasisQ(Level)
    BY <2>2, FastKeySwitchBasis DEF KeySwitchCore
  <2> QED BY <2>1, <2>3, SwitchedKeepsInv
<1>6. ASSUME EvalFastRotationPrecompute PROVE Inv'
  <2>1. /\ UNCHANGED parameters /\ ct' = ct /\ ct # None
        /\ digits' = [towers |-> Level, elems |-> EvalKeySwitchPrecomputeCore(ct.elems[2])]
    BY <1>6 DEF EvalFastRotationPrecompute
  <2>2. /\ Level \in 1 .. SizeQ
        /\ ct.elems[2].mod = BasisQ(Level) /\ Size(ct.elems[2]) = Level
    BY <2>1, LevelIsSize
  <2>3. ASSUME NEW n \in DOMAIN digits'.elems PROVE Matches(digits'.elems[n], Level)
    <3>1. n \in 0 .. (NumDigits(Level) - 1)
      BY <2>1, <2>2, <2>3 DEF EvalKeySwitchPrecomputeCore
    <3>2. CASE Hybrid
      <4>1. digits'.elems[n] = HybridDigit(ct.elems[2], n) /\ n \in 0 .. (NumParts(Level) - 1)
        BY <2>1, <2>2, <3>1, <3>2 DEF EvalKeySwitchPrecomputeCore, NumDigits
      <4> QED BY <2>2, <3>2, <4>1, HybridDigitMatches
    <3>3. CASE ~Hybrid
      <4>1. digits'.elems[n] = CRTDecompose(ct.elems[2], n)
        BY <2>1, <2>2, <3>1, <3>3 DEF EvalKeySwitchPrecomputeCore
      <4> QED BY <2>2, <3>3, <4>1, CRTDecomposeMatches
    <3> QED BY <3>2, <3>3
  <2>4. digits'.towers = Level
    BY <2>1
  <2>5. setting' = setting /\ special' = special
    BY <2>1 DEF parameters
  <2>6. SizeP' = SizeP /\ KeyBasis' = KeyBasis /\ \A i, l : KeyTower(i, l)' = KeyTower(i, l)
    BY <2>5 DEF SizeP, KeyBasis, KeyTower, SizeQ, BasisQP, BasisQ, Q, Hybrid
  <2>7. TowersMatch'
    BY <2>3, <2>4, <2>6 DEF TowersMatch, Matches
  <2>8. SizeQ' = SizeQ
    BY <2>1, Frame
  <2>9. DigitInv'
    BY <2>2, <2>4, <2>7, <2>8 DEF DigitInv
  <2> QED BY <2>1, <2>9, Frame
<1>7. ASSUME EvalFastRotation PROVE Inv'
  <2>1. ct # None /\ Switched(EvalFastKeySwitchCore(digits.elems, evalKey, Level), digits.towers)
    BY <1>7 DEF EvalFastRotation, Switchable
  <2> QED BY <2>1, FastKeySwitchBasis, SwitchedKeepsInv
<1>8. ASSUME LevelReduce PROVE Inv'
  <2>1. UNCHANGED parameters /\ digits' = digits /\ ct # None /\ Level > 1
    BY <1>8 DEF LevelReduce
  <2> DEFINE e == [i \in DOMAIN ct.elems |-> DropLastElements(ct.elems[i], 1)]
  <2>2. /\ ct = [key |-> ct.key, elems |-> ct.elems] /\ Level \in 1 .. SizeQ
        /\ DOMAIN ct.elems \in {1 .. 2, 1 .. 3}
        /\ \A i \in DOMAIN ct.elems : ct.elems[i].mod = BasisQ(Level) /\ Size(ct.elems[i]) = Level
    BY <2>1, LevelIsSize
  <2>3. ct' = [ct EXCEPT !.elems = e]
    BY <1>8, <2>2 DEF LevelReduce
  <2>4. Level \in Nat /\ Level - 1 \in 1 .. SizeQ
    BY <2>1, <2>2, Sizes
  <2>5. DOMAIN e \in {1 .. 2, 1 .. 3} /\ \A i \in DOMAIN e : e[i].mod = BasisQ(Level - 1)
    BY <2>1, <2>2, <2>4, ModReduceBasis
  <2> HIDE DEF e
  <2>6. ct' = [key |-> ct.key, elems |-> e]
    BY <2>2, <2>3
  <2>7. Basis'
    BY <2>1, <2>4, <2>5, <2>6, NewCiphertext
  <2> QED BY <2>1, <2>7, Frame
<1>9. ASSUME ModReduceInPlace PROVE Inv'
  <2>1. UNCHANGED parameters /\ digits' = None /\ ct # None /\ Level > 1
    BY <1>9 DEF ModReduceInPlace
  <2> DEFINE e == [i \in DOMAIN ct.elems |-> ModReduce(ct.elems[i], T)]
  <2>2. /\ ct = [key |-> ct.key, elems |-> ct.elems] /\ Level \in 1 .. SizeQ
        /\ DOMAIN ct.elems \in {1 .. 2, 1 .. 3}
        /\ \A i \in DOMAIN ct.elems : ct.elems[i].mod = BasisQ(Level) /\ Size(ct.elems[i]) = Level
    BY <2>1, LevelIsSize
  <2>3. ct' = [ct EXCEPT !.elems = e]
    BY <1>9, <2>2 DEF ModReduceInPlace
  <2>4. Level \in Nat /\ Level - 1 \in 1 .. SizeQ
    BY <2>1, <2>2, Sizes
  <2>5. DOMAIN e \in {1 .. 2, 1 .. 3} /\ \A i \in DOMAIN e : e[i].mod = BasisQ(Level - 1)
    BY <2>1, <2>2, <2>4, ModReduceBasis
  <2> HIDE DEF e
  <2>6. ct' = [key |-> ct.key, elems |-> e]
    BY <2>2, <2>3
  <2>7. Basis'
    BY <2>1, <2>4, <2>5, <2>6, NewCiphertext
  <2> QED BY <2>1, <2>7, Frame
<1> QED BY <1>1, <1>2, <1>3, <1>4, <1>5, <1>6, <1>7, <1>8, <1>9 DEF Next

\* However many towers a ciphertext has left, and however the towers are
\* distributed over digits, the digits made from it meet towers of the key
\* with the same moduli: EvalFastKeySwitchCore multiplies them without error.
THEOREM TowersAlwaysMatch == Spec => []TowersMatch
<1>1. Inv => TowersMatch
  BY DEF Inv, DigitInv, TowersMatch
<1> QED BY Start, StepKeepsInv, <1>1, PTL DEF Spec

-----------------------------------------------------------------------------
(* Sums and products over towers, digits and parties *)

\* The library's sum is the sum over the domain.
LEMMA SumIsTotal ==
  ASSUME NEW f, IsFiniteSet(DOMAIN f), \A x \in DOMAIN f : f[x] \in Int
  PROVE  SumFunction(f) = Total(f, DOMAIN f) /\ SumFunction(f) \in Int
<1> DEFINE D == DOMAIN f
<1>2. PICK h : SumsTo(h, f, D)
  BY SumExists
<1>3. AddsUp(h, f, D)
  BY <1>2, SumsUp
<1> DEFINE Body(g) == [s \in SUBSET D |->
                         IF s = {} THEN 0
                         ELSE LET x == CHOOSE x \in s : TRUE
                              IN  f[x] + g[s \ {x}]]
           iter == CHOOSE g : g = Body(g)
<1>4. SumFunction(f) = iter[D]
  BY DEF SumFunction, SumFunctionOnSet, FoldFunctionOnSet, MapThenFoldSet
<1>5. h = Body(h)
  <2>1. \A s \in SUBSET D : s # {} =>
          AnElement(s) \in s /\ h[s] = f[AnElement(s)] + h[s \ {AnElement(s)}]
    BY <1>3 DEF AddsUp
  <2>2. h \in [SUBSET D -> Int] /\ h[{}] = 0
    BY <1>3 DEF AddsUp
  <2> HIDE DEF D
  <2> QED
    BY <2>1, <2>2 DEF AnElement
<1>6. iter = Body(iter)
  <2> HIDE DEF Body
  <2> QED
    BY <1>5
<1> DEFINE G == {s \in SUBSET D : iter[s] = h[s]}
<1>7. Inherits(G, D)
  <2> HIDE DEF iter
  <2>1. {} \in G
    BY <1>3, <1>6 DEF AddsUp
  <2>2. ASSUME NEW s \in SUBSET D, s # {} PROVE \E x \in s : s \ {x} \in G => s \in G
    <3> DEFINE x == AnElement(s)
    <3>1. x \in s
      BY <2>2 DEF AnElement
    <3>2. h[s] = f[x] + h[s \ {x}]
      BY <1>5, <2>2 DEF AnElement
    <3>3. iter[s] = f[x] + iter[s \ {x}]
      BY <1>6, <2>2 DEF AnElement
    <3> HIDE DEF x
    <3>4. s \ {x} \in G => s \in G
      BY <3>2, <3>3
    <3> QED
      BY <3>1, <3>4
  <2> QED
    BY <2>1, <2>2 DEF Inherits
<1>8. D \in G
  <2> HIDE DEF G
  <2>1. D \in SUBSET D
    OBVIOUS
  <2> QED
    BY <1>7, <2>1, FoldInduction
<1>9. Total(f, D) = h[D]
  BY <1>2, SumUnique
<1>10. h[D] \in Int
  BY <1>3 DEF AddsUp
<1> HIDE DEF iter
<1> QED
  BY <1>4, <1>8, <1>9, <1>10

\* A sum of naturals is one.
LEMMA SumNat ==
  ASSUME NEW f, IsFiniteSet(DOMAIN f), \A x \in DOMAIN f : f[x] \in Nat
  PROVE  SumFunction(f) \in Nat
<1> DEFINE D == DOMAIN f
           G == {s \in SUBSET D : Total(f, s) \in Nat}
<1>1. \A x \in D : f[x] \in Int
  OBVIOUS
<1>2. SumFunction(f) = Total(f, D)
  BY <1>1, SumIsTotal
<1>3. Inherits(G, D)
  <2>1. {} \in G
    BY <1>1, TotalSplit
  <2>2. ASSUME NEW s \in SUBSET D, s # {} PROVE \E x \in s : s \ {x} \in G => s \in G
    <3>1. PICK x : x \in s
      BY <2>2
    <3>2. Total(f, s) = f[x] + Total(f, s \ {x})
      BY <1>1, <3>1, TotalInduction
    <3>3. f[x] \in Nat
      BY <3>1
    <3> QED
      BY <3>1, <3>2, <3>3
  <2> QED
    BY <2>1, <2>2 DEF Inherits
<1>4. D \in G
  <2> HIDE DEF G
  <2> QED
    BY <1>3, FoldInduction
<1> QED
  BY <1>2, <1>4

Positive == Nat \ {0}

Multiplies(f, D) == [p \in D \X Positive |-> f[p[1]] * p[2]]

\* A product of positive numbers is one.
LEMMA ProductPositive ==
  ASSUME NEW f, IsFiniteSet(DOMAIN f), \A x \in DOMAIN f : f[x] \in Positive
  PROVE  Product(f) \in Positive
<1> DEFINE D == DOMAIN f
           F == Multiplies(f, D)
           pick == AnyOf(D)
<1>1. IsStep(F, D, Positive)
  <2>1. \A x, y \in Positive : x * y \in Positive
    BY DEF Positive
  <2> QED
    BY <2>1 DEF IsStep, Multiplies
<1>2. IsPick(pick, D)
  <2>1. \A s \in SUBSET D : s # {} => AnElement(s) \in s
    BY DEF AnElement
  <2> QED
    BY <2>1 DEF IsPick, AnyOf
<1>3. PICK h : FoldsTo(h, D, Positive, 1, F, pick)
  <2>1. 1 \in Positive
    BY DEF Positive
  <2> QED
    BY <1>1, <1>2, <2>1, FoldExists
<1> DEFINE Body(g) == [s \in SUBSET D |->
                         IF s = {} THEN 1
                         ELSE LET x == CHOOSE x \in s : TRUE
                              IN  f[x] * g[s \ {x}]]
           iter == CHOOSE g : g = Body(g)
<1>4. Product(f) = iter[D]
  BY DEF Product, FoldFunction, FoldFunctionOnSet, MapThenFoldSet
<1>5. h = Body(h)
  <2>1. h \in [SUBSET D -> Positive] /\ h[{}] = 1
    BY <1>3 DEF FoldsTo
  <2>2. ASSUME NEW s \in SUBSET D, s # {} PROVE h[s] = f[AnElement(s)] * h[s \ {AnElement(s)}]
    <3> DEFINE x == AnElement(s)
    <3>1. x \in s /\ pick[s] = x
      BY <2>2 DEF AnyOf, AnElement
    <3> HIDE DEF x
    <3>2. h[s] = F[<<x, h[s \ {x}]>>]
      BY <1>3, <2>2, <3>1 DEF FoldsTo
    <3>3. h[s \ {x}] \in Positive /\ x \in D
      BY <2>1, <3>1
    <3>4. F[<<x, h[s \ {x}]>>] = f[x] * h[s \ {x}]
      BY <3>3 DEF Multiplies
    <3> QED
      BY <3>2, <3>4 DEF x
  <2> HIDE DEF D
  <2> QED
    BY <2>1, <2>2 DEF AnElement
<1>6. iter = Body(iter)
  <2> HIDE DEF Body
  <2> QED
    BY <1>5
<1> DEFINE G == {s \in SUBSET D : iter[s] \in Positive}
<1>7. Inherits(G, D)
  <2> HIDE DEF iter
  <2>1. {} \in G
    BY <1>6 DEF Positive
  <2>2. ASSUME NEW s \in SUBSET D, s # {} PROVE \E x \in s : s \ {x} \in G => s \in G
    <3> DEFINE x == AnElement(s)
    <3>1. x \in s
      BY <2>2 DEF AnElement
    <3>2. iter[s] = f[x] * iter[s \ {x}]
      BY <1>6, <2>2 DEF AnElement
    <3> HIDE DEF x
    <3>3. f[x] \in Positive
      BY <3>1
    <3>4. \A a, b \in Positive : a * b \in Positive
      BY DEF Positive
    <3>5. s \ {x} \in G => s \in G
      BY <3>2, <3>3, <3>4
    <3> QED
      BY <3>1, <3>5
  <2> QED
    BY <2>1, <2>2 DEF Inherits
<1>8. D \in G
  <2> HIDE DEF G
  <2>1. D \in SUBSET D
    OBVIOUS
  <2> QED
    BY <1>7, <2>1, FoldInduction
<1> QED
  BY <1>4, <1>8

-----------------------------------------------------------------------------
(* The special primes *)

Below(P, b) == {k \in P : k < b}

Largest(P, b) == CHOOSE m \in P : m < b /\ \A k \in P : k < b => k <= m

\* Of finitely many numbers below a bound one is the largest.
LEMMA LargestBelow ==
  ASSUME NEW P, P \subseteq Int, NEW b \in Int, Below(P, b) # {}
  PROVE  /\ Largest(P, b) \in P /\ Largest(P, b) < b
         /\ \A k \in P : k < b => k <= Largest(P, b)
<1> DEFINE D == {b - k : k \in Below(P, b)}
<1>1. D \in SUBSET Nat /\ D # {}
  <2>1. \A k \in Below(P, b) : k \in Int /\ k < b
    BY DEF Below
  <2>2. \A k \in Below(P, b) : b - k \in Nat
    BY <2>1
  <2> QED
    BY <2>2
<1>2. PICK d \in D : \A c \in D : d <= c
  BY <1>1, LeastNat
<1>3. PICK m \in Below(P, b) : d = b - m
  OBVIOUS
<1>4. \A k \in Below(P, b) : k <= m
  <2> TAKE k \in Below(P, b)
  <2>1. d <= b - k
    BY <1>2
  <2>2. k \in Int /\ m \in Int
    BY <1>3 DEF Below
  <2> QED
    BY <1>3, <2>1, <2>2
<1>5. m \in P /\ m < b /\ \A k \in P : k < b => k <= m
  BY <1>4 DEF Below
<1> QED
  BY <1>5 DEF Largest

\* Taking the largest number left as often as there are numbers finds one
\* each time.
LEMMA LargestLeft ==
  ASSUME NEW P, P \subseteq Int, IsFiniteSet(P), NEW n \in Nat, n <= Cardinality(P),
         NEW top \in Int, \A k \in P : k < top,
         NEW h, h[0] = top,
         \A k \in 1 .. n : h[k - 1] \in Int /\ Below(P, h[k - 1]) # {} => h[k] = Largest(P, h[k - 1])
  PROVE  \A k \in 1 .. n : h[k - 1] \in Int /\ Below(P, h[k - 1]) # {} /\ h[k] \in P
<1> DEFINE c == Cardinality(P)
           left(k) == Cardinality(Below(P, h[k]))
           G == {k \in 0 .. n : h[k] \in Int /\ left(k) >= c - k}
<1>1. /\ c \in Nat
      /\ \A b : /\ IsFiniteSet(Below(P, b)) /\ Cardinality(Below(P, b)) \in Nat
                /\ Cardinality(Below(P, b)) = 0 <=> Below(P, b) = {}
  BY FS_CardinalityType, FS_Subset, FS_EmptySet DEF Below
<1>2. 0 \in G
  <2>1. Below(P, h[0]) = P
    BY DEF Below
  <2> QED
    BY <1>1, <2>1
<1>3. ASSUME NEW k \in 0 .. (n - 1), k \in G
      PROVE  /\ Below(P, h[k]) # {} /\ h[k + 1] \in P /\ k + 1 \in G
  <2> DEFINE b == h[k]
             m == h[k + 1]
  <2>1. b \in Int /\ left(k) >= c - k /\ k \in Nat /\ k + 1 \in 1 .. n /\ (k + 1) - 1 = k
    BY <1>3
  <2>2. left(k) >= 1
    BY <1>1, <2>1
  <2>3. Below(P, b) # {}
    BY <1>1, <2>2
  <2>4. m = Largest(P, b)
    BY <2>1, <2>3
  <2>5. m \in P /\ m < b /\ \A j \in P : j < b => j <= m
    BY <2>1, <2>3, <2>4, LargestBelow
  <2>6. Below(P, m) = Below(P, b) \ {m} /\ m \in Below(P, b)
    <3> HIDE DEF b, m
    <3>1. \A j \in P : j \in Int
      OBVIOUS
    <3>2. m \in Below(P, b)
      BY <2>5 DEF Below
    <3>3. \A j : j \in Below(P, m) => j \in Below(P, b) \ {m}
      BY <2>1, <2>5, <3>1 DEF Below
    <3>4. \A j : j \in Below(P, b) \ {m} => j \in Below(P, m)
      BY <2>5, <3>1 DEF Below
    <3> QED
      BY <3>2, <3>3, <3>4
  <2>7. left(k + 1) = left(k) - 1
    <3> DEFINE B == Below(P, b)
    <3>1. IsFiniteSet(B) /\ m \in B
      BY <1>1, <2>6
    <3> HIDE DEF B, m
    <3>2. Cardinality(B \ {m}) = Cardinality(B) - 1
      BY <3>1, FS_RemoveElement
    <3> QED
      BY <2>6, <3>2 DEF B, m
  <2>8. left(k + 1) >= c - (k + 1)
    BY <1>1, <2>1, <2>7
  <2>9. k + 1 \in 0 .. n /\ m \in Int
    <3> HIDE DEF m
    <3>1. m \in Int
      BY <2>5
    <3> QED
      BY <2>1, <3>1
  <2> QED
    BY <2>3, <2>5, <2>8, <2>9
<1> HIDE DEF G
<1>4. \A k \in 0 .. n : k \in G
  BY <1>2, <1>3, UpTo
<1> TAKE k \in 1 .. n
<1>5. k - 1 \in 0 .. (n - 1) /\ k - 1 \in 0 .. n /\ (k - 1) + 1 = k
  OBVIOUS
<1>6. k - 1 \in G
  BY <1>4, <1>5
<1>7. h[k - 1] \in Int
  BY <1>6 DEF G
<1> QED
  BY <1>3, <1>5, <1>6, <1>7

\* Accepted parameters have all the special primes they need.
LEMMA SpecialPrimesFound ==
  ASSUME NEW x \in Settings, x.technique = "HYBRID", Accepted(x)
  PROVE  /\ \A n \in 1 .. NumSpecial(x) : /\ SpecialPrimes(x)[n] \in Positive
                                         /\ SpecialPrimes(x)[n] \in Candidates(x)
                                         /\ IsPrime(SpecialPrimes(x)[n])
         /\ \A m, n \in 1 .. NumSpecial(x) : m < n => SpecialPrimes(x)[n] < SpecialPrimes(x)[m]
<1> DEFINE P == {n \in Candidates(x) : IsPrime(n)}
           N == NumSpecial(x)
           top == 2^x.auxBits
           Body(g) == [n \in 0 .. N |->
                         IF n = 0 THEN top
                         ELSE CHOOSE m \in P : m < g[n - 1] /\ \A k \in P : k < g[n - 1] => k <= m]
           p == CHOOSE g : g = Body(g)
           F == [q \in (1 .. N) \X Int |-> IF Below(P, q[2]) # {} THEN Largest(P, q[2]) ELSE 0]
<1>1. N \in Nat /\ top \in Int /\ N <= Cardinality(P)
  <2>1. x.auxBits \in Nat
    BY KeySwitchAssumption
  <2>2. top \in Int
    BY <2>1
  <2> QED
    BY <2>2, SpecialAssumption DEF Accepted
<1>2. P \subseteq 2 .. (top - 1) /\ P \subseteq Int /\ (\A k \in P : k < top) /\ IsFiniteSet(P)
  <2>1. P \subseteq 2 .. (top - 1)
    BY DEF Candidates
  <2>2. IsFiniteSet(2 .. (top - 1))
    <3>1. top - 1 \in Int /\ 2 \in Int
      BY <1>1
    <3> HIDE DEF top
    <3> QED
      BY <3>1, FS_Interval
  <2> HIDE DEF P, top
  <2>3. IsFiniteSet(P)
    BY <2>1, <2>2, FS_Subset
  <2> QED
    BY <1>1, <2>1, <2>3
<1>3. SpecialPrimes(x) = [n \in 1 .. N |-> p[n]]
  BY DEF SpecialPrimes
<1> HIDE DEF P, N, top
<1>4. IsStep(F, 1 .. N, Int)
  <2>1. \A b \in Int : Below(P, b) # {} => Largest(P, b) \in Int
    BY <1>2, LargestBelow
  <2> QED
    BY <2>1 DEF IsStep
<1>5. PICK f : Recurs(f, N, Int, top, F)
  BY <1>1, <1>4, RecursionExists
<1>6. f[0] = top /\ f \in [0 .. N -> Int] /\ \A k \in 1 .. N : f[k] = F[<<k, f[k - 1]>>]
  BY <1>5 DEF Recurs
<1>7. \A k \in 1 .. N : f[k - 1] \in Int /\ (Below(P, f[k - 1]) # {} => f[k] = Largest(P, f[k - 1]))
  <2> TAKE k \in 1 .. N
  <2>1. k - 1 \in 0 .. N
    BY <1>1
  <2>2. f[k - 1] \in Int
    BY <1>6, <2>1
  <2> QED
    BY <1>6, <2>2
<1>8. \A k \in 1 .. N : Below(P, f[k - 1]) # {}
  <2>1. \A k \in 1 .. N : f[k - 1] \in Int /\ Below(P, f[k - 1]) # {} => f[k] = Largest(P, f[k - 1])
    BY <1>7
  <2>2. N \in Nat /\ N <= Cardinality(P) /\ top \in Int /\ f[0] = top
    BY <1>1, <1>6
  <2>3. \A k \in 1 .. N : f[k - 1] \in Int /\ Below(P, f[k - 1]) # {} /\ f[k] \in P
    BY <1>2, <2>1, <2>2, LargestLeft
  <2> QED
    BY <2>3
<1>9. f = Body(f)
  <2>1. \A n \in 0 .. N : f[n] = IF n = 0 THEN top ELSE Largest(P, f[n - 1])
    <3> TAKE n \in 0 .. N
    <3>1. n # 0 => n \in 1 .. N
      BY <1>1
    <3> QED
      BY <1>6, <1>7, <1>8, <3>1
  <2> QED
    BY <1>6, <2>1 DEF Largest
<1>10. p = Body(p)
  <2> HIDE DEF Body
  <2> QED
    BY <1>9
<1>11. p[0] = top /\ \A k \in 1 .. N : p[k] = Largest(P, p[k - 1])
  <2> HIDE DEF p
  <2>1. 0 \in 0 .. N /\ \A k \in 1 .. N : k \in 0 .. N /\ k # 0
    BY <1>1
  <2> QED
    BY <1>10, <2>1 DEF Largest
<1> HIDE DEF p
<1>12. \A k \in 1 .. N : p[k - 1] \in Int /\ Below(P, p[k - 1]) # {} /\ p[k] \in P
  BY <1>1, <1>2, <1>11, LargestLeft
<1>13. \A k \in P : k \in Positive /\ k \in Int /\ k \in Candidates(x) /\ IsPrime(k)
  BY <1>1, <1>2 DEF Positive, P
<1>14. \A k \in 1 .. N : p[k - 1] \in Int /\ Below(P, p[k - 1]) # {}
  BY <1>12
<1>15. \A k \in 1 .. N : p[k] < p[k - 1]
  BY <1>2, <1>11, <1>14, LargestBelow
<1> DEFINE G == {k \in 0 .. N : \A j \in 0 .. (k - 1) : p[k] < p[j]}
<1>16. 0 \in G
  BY <1>1
<1>17. ASSUME NEW k \in 0 .. (N - 1), k \in G PROVE k + 1 \in G
  <2>1. k + 1 \in 1 .. N /\ k + 1 \in 0 .. N /\ (k + 1) - 1 = k
    BY <1>1
  <2>2. p[k + 1] < p[k] /\ p[k + 1] \in Int
    BY <1>12, <1>13, <1>15, <2>1
  <2>3. ASSUME NEW j \in 0 .. k PROVE p[k + 1] < p[j]
    <3>1. CASE j = k
      BY <2>2, <3>1
    <3>2. CASE j # k
      <4>1. p[k] < p[j]
        BY <1>17, <2>1, <3>2
      <4>2. j + 1 \in 1 .. N /\ (j + 1) - 1 = j /\ k \in 1 .. N
        BY <1>1, <3>2
      <4>3. p[j] \in Int /\ p[k] \in Int
        BY <1>12, <1>13, <1>14, <4>2
      <4> QED
        BY <2>2, <4>1, <4>3
    <3> QED
      BY <3>1, <3>2
  <2> QED
    BY <2>1, <2>3
<1>18. \A k \in 0 .. N : k \in G
  <2> HIDE DEF G
  <2> QED
    BY <1>1, <1>16, <1>17, UpTo
<1>19. \A m, n \in 1 .. N : m < n => p[n] < p[m]
  BY <1>1, <1>18
<1> QED
  BY <1>3, <1>12, <1>13, <1>19 DEF N

-----------------------------------------------------------------------------
(* The towers of keys *)

Primes == \A j \in 1 .. SizeP : special[j] \in Positive

Towers == DOMAIN KeyBasis

\* Moduli are positive, and those of the ciphertext come first.
LEMMA KeyTowers ==
  ASSUME Params, Primes
  PROVE  /\ SizeQ \in Nat \ {0} /\ SizeP \in Nat
         /\ Towers = 0 .. (SizeQ + SizeP - 1) /\ 0 \in Towers
         /\ \A i \in Towers : KeyBasis[i] \in Nat /\ KeyBasis[i] > 0
         /\ \A i \in 0 .. (SizeQ - 1) : /\ i \in Towers /\ KeyBasis[i] = Q(i)
                                        /\ Q(i) \in Nat /\ Q(i) > 1
         /\ ~Hybrid => SizeP = 0
<1>1. SizeQ \in Nat \ {0} /\ SizeP \in Nat /\ (~Hybrid => SizeP = 0)
  BY Sizes DEF Params
<1>2. \A i \in 0 .. (SizeQ - 1) : Q(i) \in Nat /\ Q(i) > 1
  <2> TAKE i \in 0 .. (SizeQ - 1)
  <2>1. i + 1 \in 1 .. Len(setting.q)
    BY <1>1 DEF SizeQ
  <2>2. setting.q \in Seq(Nat \ {0, 1})
    BY KeySwitchAssumption DEF Params
  <2>3. setting.q[i + 1] \in Nat \ {0, 1}
    BY <2>1, <2>2
  <2> QED
    BY <2>3 DEF Q
<1>3. KeyBasis = [i \in 0 .. (SizeQ + SizeP - 1) |-> IF i < SizeQ THEN Q(i) ELSE special[i - SizeQ + 1]]
  <2>1. CASE Hybrid
    BY <2>1 DEF KeyBasis, BasisQP
  <2>2. CASE ~Hybrid
    <3>1. KeyBasis = [i \in 0 .. (SizeQ - 1) |-> Q(i)] /\ SizeQ + SizeP - 1 = SizeQ - 1
      BY <1>1, <2>2 DEF KeyBasis, BasisQ
    <3>2. \A i \in 0 .. (SizeQ - 1) : i < SizeQ
      BY <1>1
    <3> QED
      BY <3>1, <3>2
  <2> QED
    BY <2>1, <2>2
<1>4. \A i \in 0 .. (SizeQ + SizeP - 1) : KeyBasis[i] \in Nat /\ KeyBasis[i] > 0
  <2> TAKE i \in 0 .. (SizeQ + SizeP - 1)
  <2>1. CASE i < SizeQ
    <3>1. i \in 0 .. (SizeQ - 1)
      BY <1>1, <2>1
    <3>2. Q(i) \in Nat /\ Q(i) > 0
      BY <1>2, <3>1
    <3> QED
      BY <1>3, <2>1, <3>2
  <2>2. CASE ~(i < SizeQ)
    <3>1. i - SizeQ + 1 \in 1 .. SizeP
      BY <1>1, <2>2
    <3>2. special[i - SizeQ + 1] \in Nat /\ special[i - SizeQ + 1] > 0
      BY <3>1 DEF Primes, Positive
    <3> QED
      BY <1>3, <2>2, <3>2
  <2> QED
    BY <2>1, <2>2
<1>5. \A i \in 0 .. (SizeQ - 1) : i \in 0 .. (SizeQ + SizeP - 1) /\ KeyBasis[i] = Q(i)
  BY <1>1, <1>3
<1>6. Towers = 0 .. (SizeQ + SizeP - 1) /\ 0 \in 0 .. (SizeQ + SizeP - 1)
  BY <1>1, <1>3 DEF Towers
<1> QED
  BY <1>1, <1>2, <1>4, <1>5, <1>6

\* The product of the special primes is positive.
LEMMA ModulusPPositive ==
  ASSUME Params, Primes
  PROVE  ModulusP \in Positive
<1>1. SizeP \in Nat
  BY DEF Params
<1>2. DOMAIN BasisP = 0 .. (SizeP - 1) /\ IsFiniteSet(0 .. (SizeP - 1))
  <2>1. SizeP - 1 \in Int /\ 0 \in Int
    BY <1>1
  <2> QED
    BY <2>1, FS_Interval DEF BasisP
<1>3. \A j \in 0 .. (SizeP - 1) : BasisP[j] \in Positive
  <2> TAKE j \in 0 .. (SizeP - 1)
  <2>1. j + 1 \in 1 .. SizeP
    BY <1>1
  <2> QED
    BY <2>1 DEF BasisP, Primes
<1> QED
  BY <1>2, <1>3, ProductPositive DEF ModulusP

-----------------------------------------------------------------------------
(* The windows of BV *)

\* Every tower has a number of windows, and they follow each other.
LEMMA Windows ==
  ASSUME Params, ~Hybrid
  PROVE  /\ FirstWindow(0) = 0
         /\ \A i \in 0 .. (SizeQ - 1) : /\ NumWindows(i) \in Nat /\ FirstWindow(i) \in Int
                                        /\ FirstWindow(i + 1) \in Int
                                        /\ FirstWindow(i + 1) = FirstWindow(i) + NumWindows(i)
<1> DEFINE W == [k \in 0 .. (SizeQ - 1) |-> NumWindows(k)]
<1>1. SizeQ \in Nat \ {0} /\ setting.digits \in Nat /\ setting \in Settings
  BY Sizes DEF Params
<1>2. \A i \in 0 .. (SizeQ - 1) : NumWindows(i) \in Nat
  <2> TAKE i \in 0 .. (SizeQ - 1)
  <2> DEFINE b == Length2(Q(i))
             d == setting.digits
  <2>1. b \in Nat
    <3>1. i + 1 \in 1 .. Len(setting.q)
      BY <1>1 DEF SizeQ
    <3>2. DOMAIN setting.q = 1 .. Len(setting.q)
      BY <1>1, KeySwitchAssumption
    <3>3. i + 1 \in DOMAIN setting.q
      BY <3>1, <3>2
    <3> QED
      BY <1>1, <3>3, BitsAssumption DEF Q
  <2> HIDE DEF b
  <2>2. CASE d = 0
    BY <2>2 DEF NumWindows
  <2>3. CASE d # 0
    <3>1. d \in Nat \ {0} /\ b + d - 1 \in Nat
      BY <1>1, <2>1, <2>3
    <3>2. (b + d - 1) \div d \in Nat
      BY <3>1, Division
    <3> QED
      BY <2>3, <3>2 DEF NumWindows, CeilDiv, b
  <2> QED
    BY <2>2, <2>3
<1>3. ASSUME NEW i \in 0 .. SizeQ
      PROVE  /\ FirstWindow(i) = Total(W, 0 .. (i - 1)) /\ FirstWindow(i) \in Int
             /\ 0 .. (i - 1) \in SUBSET (0 .. (SizeQ - 1))
  <2> DEFINE f == [k \in 0 .. (i - 1) |-> NumWindows(k)]
             D == 0 .. (i - 1)
  <2>1. D \in SUBSET (0 .. (SizeQ - 1)) /\ i - 1 \in Int /\ 0 \in Int
    BY <1>1
  <2>2. IsFiniteSet(D)
    BY <2>1, FS_Interval
  <2>3. \A k \in D : W[k] \in Int /\ f[k] = W[k]
    BY <1>2, <2>1
  <2>4. DOMAIN f = D /\ \A k \in D : f[k] \in Int
    BY <2>3
  <2>5. FirstWindow(i) = SumFunction(f)
    BY DEF FirstWindow
  <2> HIDE DEF f, D, W
  <2>6. SumFunction(f) = Total(f, D) /\ SumFunction(f) \in Int
    BY <2>2, <2>4, SumIsTotal
  <2>7. Total(f, D) = Total(W, D)
    BY <2>2, <2>3, TotalSame
  <2> QED
    BY <2>1, <2>5, <2>6, <2>7 DEF D
<1>4. IsFiniteSet(0 .. (SizeQ - 1)) /\ \A k \in 0 .. (SizeQ - 1) : W[k] \in Int /\ W[k] = NumWindows(k)
  <2>1. SizeQ - 1 \in Int /\ 0 \in Int
    BY <1>1
  <2>2. IsFiniteSet(0 .. (SizeQ - 1))
    BY <2>1, FS_Interval
  <2> QED
    BY <1>2, <2>2
<1> HIDE DEF W
<1>5. FirstWindow(0) = 0
  <2>1. 0 .. (0 - 1) = {} /\ 0 \in 0 .. SizeQ
    BY <1>1
  <2>2. Total(W, {}) = 0
    BY <1>4, TotalSplit
  <2> QED
    BY <1>3, <2>1, <2>2
<1>6. ASSUME NEW i \in 0 .. (SizeQ - 1)
      PROVE  FirstWindow(i + 1) = FirstWindow(i) + NumWindows(i) /\ FirstWindow(i + 1) \in Int
  <2>1. /\ i \in 0 .. SizeQ /\ i + 1 \in 0 .. SizeQ /\ (i + 1) - 1 = i
        /\ i \in 0 .. i /\ (0 .. i) \ {i} = 0 .. (i - 1)
    BY <1>1
  <2>2. FirstWindow(i + 1) = Total(W, 0 .. i) /\ FirstWindow(i + 1) \in Int
        /\ 0 .. i \in SUBSET (0 .. (SizeQ - 1))
    BY <1>3, <2>1
  <2>3. Total(W, 0 .. i) = W[i] + Total(W, (0 .. i) \ {i}) /\ Total(W, (0 .. i) \ {i}) \in Int
    <3> DEFINE D == 0 .. i
    <3>1. D \subseteq 0 .. (SizeQ - 1) /\ i \in D
      BY <2>1, <2>2
    <3>2. IsFiniteSet(D) /\ \A k \in D : W[k] \in Int
      BY <1>4, <3>1, FS_Subset
    <3>3. IsFiniteSet(D \ {i}) /\ \A k \in D \ {i} : W[k] \in Int
      BY <3>2, FS_RemoveElement
    <3> HIDE DEF D
    <3>4. Total(W, D) = W[i] + Total(W, D \ {i}) /\ Total(W, D \ {i}) \in Int
      BY <3>1, <3>2, <3>3, TotalSplit
    <3> QED
      BY <3>4 DEF D
  <2>4. FirstWindow(i) = Total(W, 0 .. (i - 1))
    BY <1>3, <2>1
  <2>5. W[i] = NumWindows(i) /\ NumWindows(i) \in Nat
    BY <1>2, <1>4
  <2>6. FirstWindow(i + 1) = W[i] + FirstWindow(i) /\ FirstWindow(i) \in Int
    BY <2>1, <2>2, <2>3, <2>4
  <2> QED
    BY <2>2, <2>5, <2>6
<1>7. \A i \in 0 .. (SizeQ - 1) : FirstWindow(i) \in Int
  <2> TAKE i \in 0 .. (SizeQ - 1)
  <2>1. i \in 0 .. SizeQ
    BY <1>1
  <2> QED
    BY <1>3, <2>1
<1> QED
  BY <1>2, <1>5, <1>6, <1>7

\* Every digit of BV is a window of some tower.
LEMMA WindowHasTower ==
  ASSUME Params, ~Hybrid, NEW l \in 1 .. SizeQ, NEW n \in 0 .. (FirstWindow(l) - 1)
  PROVE  /\ TowerOf(n) \in 0 .. (SizeQ - 1) /\ n \in Nat
         /\ FirstWindow(TowerOf(n)) \in Int /\ FirstWindow(TowerOf(n)) <= n
         /\ n < FirstWindow(TowerOf(n)) + NumWindows(TowerOf(n))
<1> DEFINE G == {i \in 0 .. l : n < FirstWindow(i)}
<1>1. l \in Nat /\ SizeQ \in Nat /\ n \in Int /\ n \in Nat /\ l <= SizeQ
  <2>1. l \in Nat /\ SizeQ \in Nat /\ l <= SizeQ /\ l - 1 \in 0 .. (SizeQ - 1) /\ (l - 1) + 1 = l
    BY Sizes
  <2>2. FirstWindow(l) \in Int
    BY <2>1, Windows
  <2> QED
    BY <2>1, <2>2
<1>2. l \in G /\ G \subseteq Nat
  <2>1. l - 1 \in 0 .. (SizeQ - 1) /\ (l - 1) + 1 = l /\ l \in 0 .. l
    BY <1>1
  <2>2. FirstWindow(l) \in Int
    BY <2>1, Windows
  <2> QED
    BY <1>1, <2>1, <2>2
<1>3. PICK i \in G : \A j \in G : i <= j
  BY <1>2, LeastNat
<1>4. i \in 0 .. l /\ n < FirstWindow(i) /\ i # 0
  BY <1>1, <1>3, Windows
<1> DEFINE t == i - 1
<1>5. t \in 0 .. (SizeQ - 1) /\ t + 1 = i /\ t \in 0 .. l /\ ~(i <= t)
  BY <1>1, <1>4
<1>6. t \notin G
  BY <1>3, <1>5
<1>7. /\ FirstWindow(t) \in Int /\ NumWindows(t) \in Nat /\ FirstWindow(t + 1) = FirstWindow(t) + NumWindows(t)
  BY <1>5, Windows
<1> HIDE DEF t
<1>8. FirstWindow(t) <= n /\ n < FirstWindow(t) + NumWindows(t)
  BY <1>1, <1>4, <1>5, <1>6, <1>7
<1>9. /\ TowerOf(n) \in 0 .. (SizeQ - 1) /\ FirstWindow(TowerOf(n)) <= n
      /\ n < FirstWindow(TowerOf(n)) + NumWindows(TowerOf(n))
  BY <1>5, <1>8 DEF TowerOf
<1> QED
  BY <1>1, <1>9, Windows

\* The towers a digit is made of are the ciphertext's, and what keys multiply
\* the secret with is an integer there.
LEMMA OwnTowers ==
  ASSUME Params, Primes, NEW n \in KeyDigits, NEW i \in Towers, i \in Own(n, SizeQ)
  PROVE  i \in 0 .. (SizeQ - 1) /\ Factor(n, i) \in Int
<1>1. SizeQ \in Nat \ {0} /\ SizeQ \in 1 .. SizeQ
  BY Sizes
<1>2. CASE Hybrid
  <2>1. n \in 0 .. (NumParts(SizeQ) - 1)
    BY <1>2 DEF KeyDigits, NumDigits
  <2>2. /\ Alpha * n \in Nat /\ SizePart(SizeQ, n) \in Nat /\ Alpha * n + SizePart(SizeQ, n) <= SizeQ
    BY <1>1, <1>2, <2>1, PartsOfTowers
  <2>3. i \in Alpha * n .. (Alpha * n + SizePart(SizeQ, n) - 1)
    BY <1>2 DEF Own
  <2>4. i \in 0 .. (SizeQ - 1)
    BY <1>1, <2>2, <2>3
  <2>5. Q(i) \in Nat /\ Q(i) > 0 /\ ModulusP \in Nat
    BY <2>4, KeyTowers, ModulusPPositive DEF Positive
  <2>6. ModulusP % Q(i) \in Int
    BY <2>5
  <2> QED
    BY <1>2, <2>4, <2>6 DEF Factor, PModq
<1>3. CASE ~Hybrid
  <2>1. i \in 0 .. (SizeQ - 1)
    BY <1>1, <1>3, KeyTowers
  <2>2. n \in 0 .. (FirstWindow(SizeQ) - 1)
    BY <1>3 DEF KeyDigits, NumDigits
  <2> DEFINE w == FirstWindow(TowerOf(n))
             k == n - w
             d == setting.digits
  <2>3. k \in Nat /\ d \in Nat
    <3>1. w \in Int /\ w <= n /\ n \in Nat
      BY <1>1, <1>3, <2>2, WindowHasTower
    <3> QED
      BY <3>1, Sizes
  <2>4. d * k \in Nat
    BY <2>3
  <2>5. 2^(d * k) \in Int
    BY <2>4
  <2> QED
    BY <1>3, <2>1, <2>5 DEF Factor, Power
<1> QED
  BY <1>2, <1>3

-----------------------------------------------------------------------------
(* Elements in the basis of keys *)

\* In tower i an element has the residue of v.
At(x, i, v) == x.mod = KeyBasis /\ Same(x.val[i], v, KeyBasis[i])

\* Arithmetic of elements is that of the integers they have the residues of.
LEMMA AtArith ==
  ASSUME Params, Primes, NEW i \in Towers, NEW x, NEW u, At(x, i, u)
  PROVE  /\ \A c \in Int : At(TimesInt(x, c), i, u * c)
         /\ \A y, v : At(y, i, v) => At(Plus(x, y), i, u + v) /\ At(Times(x, y), i, u * v)
<1> DEFINE m == KeyBasis[i]
<1>1. m \in Nat /\ m > 0
  BY KeyTowers
<1>2. x.mod = KeyBasis /\ i \in DOMAIN x.mod /\ x.mod[i] = m /\ Same(x.val[i], u, m)
  BY DEF At, Towers
<1> HIDE DEF m
<1>3. ASSUME NEW c \in Int PROVE At(TimesInt(x, c), i, u * c)
  <2>1. Same(x.val[i] * c, u * c, m)
    BY <1>1, <1>2, SameSelf, SameArith
  <2>2. Same((x.val[i] * c) % m, u * c, m)
    BY <1>1, <2>1, SameRemainder
  <2>3. TimesInt(x, c).mod = KeyBasis /\ TimesInt(x, c).val[i] = (x.val[i] * c) % m
    BY <1>2 DEF TimesInt
  <2> QED
    BY <2>2, <2>3 DEF At, m
<1>4. ASSUME NEW y, NEW v, At(y, i, v)
      PROVE  At(Plus(x, y), i, u + v) /\ At(Times(x, y), i, u * v)
  <2>1. Same(y.val[i], v, m)
    BY <1>4 DEF At, m
  <2>2. Same(x.val[i] + y.val[i], u + v, m) /\ Same(x.val[i] * y.val[i], u * v, m)
    BY <1>1, <1>2, <2>1, SameArith
  <2>3. Same((x.val[i] + y.val[i]) % m, u + v, m)
    BY <1>1, <2>2, SameRemainder
  <2>4. Same((x.val[i] * y.val[i]) % m, u * v, m)
    BY <1>1, <2>2, SameRemainder
  <2>5. Plus(x, y).mod = KeyBasis /\ Plus(x, y).val[i] = (x.val[i] + y.val[i]) % m
    BY <1>2 DEF Plus
  <2>6. Times(x, y).mod = KeyBasis /\ Times(x, y).val[i] = (x.val[i] * y.val[i]) % m
    BY <1>2 DEF Times
  <2> QED
    BY <2>3, <2>4, <2>5, <2>6 DEF At, m
<1> QED
  BY <1>3, <1>4

\* An element made from an integer has its residues.
LEMMA AtElement ==
  ASSUME Params, Primes, NEW i \in Towers, NEW x \in Int
  PROVE  At(Element(x, KeyBasis), i, x)
<1>1. KeyBasis[i] \in Nat /\ KeyBasis[i] > 0
  BY KeyTowers
<1>2. Element(x, KeyBasis).mod = KeyBasis /\ Element(x, KeyBasis).val[i] = x % KeyBasis[i]
  BY DEF Element, Towers
<1> QED
  BY <1>1, <1>2, SameSelf DEF At

\* An element in the moduli of the ciphertext has the residues of x.
Stands(from, x) == \A i \in 0 .. (SizeQ - 1) : Same(from.val[i], x, Q(i))

\* Secrets, and products of secrets, stand for themselves.
LEMMA StandsSecret ==
  ASSUME Params, Primes, NEW x \in Int, NEW y \in Int
  PROVE  Stands(InQ(x), x) /\ Stands(Times(InQ(x), InQ(y)), x * y)
<1>1. SizeQ \in Nat
  BY Sizes
<1>2. \A z : DOMAIN BasisQ(SizeQ) = 0 .. (SizeQ - 1) /\ InQ(z).mod = BasisQ(SizeQ)
  BY DEF BasisQ, InQ, Element
<1>3. ASSUME NEW i \in 0 .. (SizeQ - 1), NEW z \in Int
      PROVE  Same(InQ(z).val[i], z, Q(i)) /\ BasisQ(SizeQ)[i] = Q(i)
  <2>1. Q(i) \in Nat /\ Q(i) > 0
    BY KeyTowers
  <2>2. InQ(z).val[i] = z % Q(i) /\ BasisQ(SizeQ)[i] = Q(i)
    BY DEF InQ, Element, BasisQ
  <2> QED
    BY <2>1, <2>2, SameSelf
<1>4. Stands(InQ(x), x)
  BY <1>3 DEF Stands
<1>5. ASSUME NEW i \in 0 .. (SizeQ - 1)
      PROVE  Same(Times(InQ(x), InQ(y)).val[i], x * y, Q(i))
  <2> DEFINE a == InQ(x)
             b == InQ(y)
             m == Q(i)
  <2>1. m \in Nat /\ m > 0
    BY KeyTowers
  <2>2. Same(a.val[i], x, m) /\ Same(b.val[i], y, m)
    BY <1>3
  <2>3. Times(a, b).val[i] = (a.val[i] * b.val[i]) % m
    <3>1. i \in DOMAIN a.mod /\ a.mod[i] = m
      BY <1>2, <1>3
    <3> HIDE DEF a, b, m
    <3> QED
      BY <3>1 DEF Times
  <2> HIDE DEF a, b, m
  <2>4. Same(a.val[i] * b.val[i], x * y, m)
    BY <2>1, <2>2, SameArith
  <2> QED
    BY <2>1, <2>3, <2>4, SameRemainder DEF a, b, m
<1> QED
  BY <1>4, <1>5 DEF Stands

\* The magnitude of an integer.
LEMMA AbsFacts ==
  ASSUME NEW x \in Int, NEW y \in Int
  PROVE  /\ Abs(x) \in Nat /\ Abs(x + y) <= Abs(x) + Abs(y)
         /\ Abs(-x) = Abs(x) /\ x <= Abs(x) /\ -x <= Abs(x)
         /\ Abs(x * y) = Abs(x) * Abs(y)
<1>1. Abs(x) \in Nat /\ Abs(x + y) <= Abs(x) + Abs(y) /\ Abs(-x) = Abs(x) /\ x <= Abs(x) /\ -x <= Abs(x)
  BY DEF Abs
<1>2. Abs(x * y) = Abs(x) * Abs(y)
  <2>1. (-x) * (-y) = x * y /\ (-x) * y = -(x * y) /\ x * (-y) = -(x * y) /\ x * y \in Int
    OBVIOUS
  <2>2. CASE x >= 0 /\ y >= 0
    <3>1. x * y >= 0
      BY <2>2
    <3> QED
      BY <2>2, <3>1 DEF Abs
  <2>3. CASE x < 0 /\ y < 0
    <3>1. (-x) * (-y) >= 0
      <4>1. \A a, b \in Nat : a * b >= 0
        OBVIOUS
      <4>2. -x \in Nat /\ -y \in Nat
        BY <2>3
      <4> QED
        BY <4>1, <4>2
    <3> QED
      BY <2>1, <2>3, <3>1 DEF Abs
  <2>4. CASE x >= 0 /\ y < 0
    <3>1. x * (-y) >= 0
      <4>1. \A a, b \in Nat : a * b >= 0
        OBVIOUS
      <4>2. x \in Nat /\ -y \in Nat
        BY <2>4
      <4> QED
        BY <4>1, <4>2
    <3> QED
      BY <2>1, <2>4, <3>1 DEF Abs
  <2>5. CASE x < 0 /\ y >= 0
    <3>1. (-x) * y >= 0
      <4>1. \A a, b \in Nat : a * b >= 0
        OBVIOUS
      <4>2. -x \in Nat /\ y \in Nat
        BY <2>5
      <4> QED
        BY <4>1, <4>2
    <3> QED
      BY <2>1, <2>5, <3>1 DEF Abs
  <2> QED
    BY <2>2, <2>3, <2>4, <2>5
<1> QED
  BY <1>1, <1>2

\* A small integer is read back from its residue.
LEMMA CenteredSmall ==
  ASSUME NEW q \in Nat, q > 0, NEW e \in Int, 2 * Abs(e) < q
  PROVE  Centered(e % q, q) = e
<1> DEFINE h == q \div 2
           r == q % 2
<1>1. h \in Int /\ r \in 0 .. 1 /\ q = r + 2 * h
  BY DivMod
<1> HIDE DEF h, r
<1>2. CASE e >= 0
  <2>1. e \in 0 .. (q - 1) /\ 2 * e < q
    BY <1>2 DEF Abs
  <2>2. e % q = e
    BY <2>1, ModSmall
  <2>3. ~(e > h)
    BY <1>1, <2>1
  <2> QED
    BY <2>2, <2>3 DEF Centered, h
<1>3. CASE e < 0
  <2>1. e + q \in 0 .. (q - 1) /\ 2 * (-e) < q
    BY <1>3 DEF Abs
  <2>2. (e + q * 1) % q = e % q /\ e + q * 1 = e + q
    <3>1. 1 \in Int /\ q * 1 = q
      OBVIOUS
    <3>2. (e + q * 1) % q = e % q
      BY <3>1, ModShift
    <3> QED
      BY <3>1, <3>2
  <2>3. (e + q) % q = e + q
    BY <2>1, ModSmall
  <2>4. e + q > h /\ (e + q) - q = e
    BY <1>1, <2>1
  <2> QED
    BY <2>2, <2>3, <2>4 DEF Centered, h
<1> QED
  BY <1>2, <1>3

\* A small secret extended to the special primes is the same in every tower.
LEMMA ExtendAt ==
  ASSUME Params, Primes, NEW i \in Towers, NEW y \in Int, 2 * Abs(y) < Q(0)
  PROVE  At(Extend(InQ(y)), i, y)
<1> DEFINE m == KeyBasis[i]
           s == InQ(y)
<1>1. /\ m \in Nat /\ m > 0 /\ 0 \in 0 .. (SizeQ - 1) /\ Q(0) \in Nat /\ Q(0) > 0
      /\ SizeQ \in Nat /\ SizeP \in Nat /\ i \in 0 .. (SizeQ + SizeP - 1)
  <2>1. SizeQ \in Nat \ {0} /\ SizeP \in Nat /\ Towers = 0 .. (SizeQ + SizeP - 1)
    BY KeyTowers
  <2>2. 0 \in 0 .. (SizeQ - 1)
    BY <2>1
  <2>3. Q(0) \in Nat /\ Q(0) > 1
    BY <2>2, KeyTowers
  <2>4. m \in Nat /\ m > 0
    BY KeyTowers
  <2> QED
    BY <2>1, <2>2, <2>3, <2>4
<1>2. /\ Extend(s).mod = KeyBasis
      /\ Extend(s).val[i] = IF i < SizeQ THEN s.val[i] ELSE SwitchModulus(s.val[0], Q(0), m)
  BY DEF Extend, Towers
<1>3. CASE i < SizeQ
  <2>1. i \in 0 .. (SizeQ - 1)
    BY <1>1, <1>3
  <2>2. Same(s.val[i], y, m)
    BY <2>1, KeyTowers, StandsSecret DEF Stands
  <2> QED
    BY <1>2, <1>3, <2>2 DEF At
<1>4. CASE ~(i < SizeQ)
  <2>1. s.val[0] = y % Q(0)
    BY <1>1 DEF InQ, Element, BasisQ
  <2>2. SwitchModulus(s.val[0], Q(0), m) = y % m
    BY <1>1, <2>1, CenteredSmall DEF SwitchModulus
  <2>3. Same(y % m, y, m)
    BY <1>1, SameSelf
  <2> QED
    BY <1>2, <1>4, <2>2, <2>3 DEF At
<1> QED
  BY <1>3, <1>4

\* What a key multiplies the secret with in a tower.
Multiplier(n, i) == IF i \in Own(n, SizeQ) THEN Factor(n, i) ELSE 0

\* A key holds the multiple of the secret in the towers of its digit.
LEMMA FilteredAt ==
  ASSUME Params, Primes, NEW n \in KeyDigits, NEW i \in Towers,
         NEW from, NEW x \in Int, Stands(from, x)
  PROVE  Multiplier(n, i) \in Int /\ At(Filtered(from, n), i, Multiplier(n, i) * x)
<1> DEFINE m == KeyBasis[i]
           f == Factor(n, i)
<1>1. m \in Nat /\ m > 0
  BY KeyTowers
<1>2. /\ Filtered(from, n).mod = KeyBasis
      /\ Filtered(from, n).val[i] = IF i \in Own(n, SizeQ) THEN (f * from.val[i]) % m ELSE 0
  BY DEF Filtered, Towers
<1>3. CASE i \in Own(n, SizeQ)
  <2>1. i \in 0 .. (SizeQ - 1) /\ f \in Int
    BY <1>3, OwnTowers
  <2>2. Same(from.val[i], x, m)
    BY <2>1, KeyTowers DEF Stands
  <2> HIDE DEF m, f
  <2>3. Same(f * from.val[i], f * x, m)
    BY <1>1, <2>1, <2>2, SameSelf, SameArith
  <2>4. Same((f * from.val[i]) % m, f * x, m)
    BY <1>1, <2>3, SameRemainder
  <2> QED
    BY <1>2, <1>3, <2>1, <2>4 DEF At, Multiplier, m, f
<1>4. CASE i \notin Own(n, SizeQ)
  <2>1. Same(0, 0, m) /\ 0 * x = 0
    BY <1>1, SameSelf
  <2> QED
    BY <1>2, <1>4, <2>1 DEF At, Multiplier
<1> QED
  BY <1>3, <1>4

-----------------------------------------------------------------------------
(* What a key is *)

\* In tower i digit n of a key takes x, times what the digit is multiplied
\* with, to y, with the error e.
DigitAt(key, x, y, n, e, i) ==
  \E u, v \in Int : /\ At(key.a[n], i, u) /\ At(key.b[n], i, v)
                    /\ v + u * y = Multiplier(n, i) * x + T * e

DigitOK(key, x, y, n, e) ==
  e \in Int /\ Abs(e) <= key.noise /\ \A i \in Towers : DigitAt(key, x, y, n, e, i)

\* A key takes the secret x to the secret y: each digit with one error.
KeyOK(key, x, y) ==
  key.noise \in Nat /\ \A n \in KeyDigits : \E e \in Int : DigitOK(key, x, y, n, e)

\* The inverse the code looks up is one.
LEMMA InverseIs ==
  ASSUME NEW m \in Nat, m > 1, NEW a, Unit(a, m)
  PROVE  /\ ModInverse(a % m, m) \in 1 .. (m - 1)
         /\ Same(a * ModInverse(a % m, m), 1, m)
<1> DEFINE b == a % m
           z == ModInverse(b, m)
<1>1. PICK y \in Int : a \in Int /\ Same(a * y, 1, m)
  BY DEF Unit
<1>2. b \in Int /\ Same(b, a, m)
  BY <1>1, SameSelf
<1>3. 1 % m = 1
  BY ModSmall
<1> DEFINE w == y % m
<1>4. w \in 0 .. (m - 1) /\ Same(w, y, m) /\ m > 0 /\ w \in Int
  BY ModRange, SameSelf
<1> HIDE DEF b, w
<1>5. (b * w) % m = 1
  <2>1. Same(b * w, a * y, m)
    BY <1>2, <1>4, SameArith
  <2>2. (b * w) % m = (a * y) % m
    BY <1>4, <2>1, SameRemainder
  <2>3. (a * y) % m = 1 % m
    BY <1>1, <1>4, SameRemainder
  <2> QED
    BY <1>3, <2>2, <2>3
<1>6. w # 0
  <2>1. 0 % m = 0
    BY <1>4, ModSmall
  <2>2. ASSUME w = 0 PROVE FALSE
    <3>1. b * w = 0
      BY <1>2, <2>2
    <3> QED
      BY <1>5, <2>1, <3>1
  <2> QED
    BY <2>2
<1>7. z \in 1 .. (m - 1) /\ (b * z) % m = 1
  <2>1. w \in 1 .. (m - 1)
    BY <1>4, <1>6
  <2> QED
    BY <1>5, <2>1 DEF ModInverse
<1> HIDE DEF z
<1>8. Same(a * z, 1, m)
  <2>1. z \in Int /\ Same(z, z, m)
    BY <1>4, <1>7, SameSelf
  <2>2. Same(b * z, a * z, m)
    BY <1>2, <1>4, <2>1, SameArith
  <2>3. b * z \in Int
    BY <1>2, <2>1
  <2>4. Same(1, b * z, m)
    BY <1>4, <1>7, <2>3, SameSelf
  <2>5. Same(b * z, 1, m)
    BY <1>4, <2>4, SameRemainder
  <2> QED
    BY <1>4, <2>2, <2>5, SameOther
<1> QED
  BY <1>7, <1>8 DEF z, b

\* A prime has no divisors but one and itself.
LEMMA PrimeDivisors ==
  ASSUME NEW p \in Nat, IsPrime(p), NEW d \in Nat, NEW k \in Nat, p = d * k
  PROVE  d = 1 \/ d = p
<1>0. p > 1 /\ \A c \in 2 .. (p - 1) : c * c <= p => p % c # 0
  BY DEF IsPrime
<1>1. d # 0 /\ k # 0
  BY <1>0
<1>2. SUFFICES ASSUME d > 1, k > 1 PROVE FALSE
  <2>1. CASE k = 1
    BY <2>1
  <2>2. CASE d = 1
    BY <2>2
  <2> QED
    BY <1>1, <1>2, <2>1, <2>2
<1>3. \A a, b \in Nat : a > 1 /\ b > 1 /\ p = a * b => a < p /\ p % a = 0
  <2> TAKE a \in Nat, b \in Nat
  <2> HAVE a > 1 /\ b > 1 /\ p = a * b
  <2>1. PICK c \in Nat : b = c + 2
    BY SMT
  <2>2. p = a * c + 2 * a /\ a * c \in Nat
    BY <2>1
  <2>3. 0 \in 0 .. (a - 1) /\ b \in Int /\ a > 0
    OBVIOUS
  <2>4. (a * b + 0) % a = 0
    BY <2>3, ModUnique
  <2>5. a * b + 0 = p
    OBVIOUS
  <2> QED
    BY <2>2, <2>4, <2>5
<1>4. p % d = 0 /\ p % k = 0 /\ d < p /\ k < p
  BY <1>2, <1>3
<1>5. d * d <= p \/ k * k <= p
  <2>1. CASE d <= k
    BY <2>1, ProductMonotone
  <2>2. CASE k <= d
    BY <2>2, ProductMonotone
  <2> QED
    BY <2>1, <2>2
<1> QED
  BY <1>0, <1>2, <1>4, <1>5

\* A prime that does not divide a number has an inverse modulo it, and the
\* number has one modulo the prime.
LEMMA PrimeIsUnit ==
  ASSUME NEW p \in Nat, IsPrime(p), NEW t \in Nat, t > 0, t % p # 0
  PROVE  Unit(p, t) /\ Unit(t, p)
<1>0. p > 1 /\ p > 0
  BY DEF IsPrime
<1> DEFINE C == {n \in Nat : n > 0 /\ \E y, z \in Int : n = p * y + t * z}
<1>1. C \in SUBSET Nat /\ p \in C
  <2>1. p = p * 1 + t * 0
    OBVIOUS
  <2>2. \E y, z \in Int : p = p * y + t * z
    <3> WITNESS 1 \in Int, 0 \in Int
    <3> QED
      BY <2>1
  <2> QED
    BY <1>0, <2>2
<1>2. PICK m \in C : \A n \in C : m <= n
  <2> HIDE DEF C
  <2> QED
    BY <1>1, LeastNat
<1>3. m \in Nat /\ m > 0
  OBVIOUS
<1>4. PICK y \in Int, z \in Int : m = p * y + t * z
  OBVIOUS
<1>5. ASSUME NEW n \in Nat, n > 0, NEW u \in Int, NEW v \in Int, n = p * u + t * v
      PROVE  \E k \in Nat : n = m * k
  <2> DEFINE r == n % m
             k == n \div m
  <2>1. n = r + m * k /\ k \in Int /\ r \in 0 .. (m - 1)
    BY <1>3, DivMod
  <2>2. k \in Nat
    <3>1. m \in Nat \ {0}
      BY <1>3
    <3> HIDE DEF C
    <3> QED
      BY <3>1, Division
  <2> HIDE DEF r, k
  <2>3. r = p * (u - y * k) + t * (v - z * k)
    <3>1. m * k = p * (y * k) + t * (z * k)
      BY <1>4, <2>1
    <3>2. p * (u - y * k) = p * u - p * (y * k) /\ t * (v - z * k) = t * v - t * (z * k)
      BY <2>1
    <3> QED
      BY <1>5, <2>1, <3>1, <3>2
  <2>4. u - y * k \in Int /\ v - z * k \in Int /\ r \in Nat /\ r < m
    BY <1>3, <2>1
  <2>5. \E a, b \in Int : r = p * a + t * b
    BY <2>3, <2>4
  <2>6. r = 0
    <3>1. r > 0 => r \in C
      BY <2>4, <2>5
    <3> HIDE DEF C
    <3>2. r > 0 => m <= r
      BY <1>2, <3>1
    <3> QED
      BY <1>3, <2>4, <3>2
  <2>7. n = m * k
    BY <1>3, <2>1, <2>6
  <2> QED
    BY <2>2, <2>7
<1>6. PICK k \in Nat : p = m * k
  <2>1. p = p * 1 + t * 0 /\ 0 \in Int /\ 1 \in Int
    OBVIOUS
  <2> HIDE DEF C
  <2> QED
    BY <1>0, <1>5, <2>1, Zenon
<1>7. PICK l \in Nat : t = m * l
  <2>1. t = p * 0 + t * 1 /\ 0 \in Int /\ 1 \in Int
    BY <1>0
  <2> QED
    BY <1>5, <2>1
<1>8. m = 1
  <2>1. m = 1 \/ m = p
    BY <1>3, <1>6, PrimeDivisors
  <2>2. ASSUME m = p PROVE FALSE
    <3>1. p * l + 0 = t /\ 0 \in 0 .. (p - 1) /\ l \in Int
      BY <1>0, <1>7, <2>2
    <3>2. (p * l + 0) % p = 0
      BY <1>0, <3>1, ModUnique
    <3> QED
      BY <3>1, <3>2
  <2> QED
    BY <2>1, <2>2
<1> DEFINE a == p * y
           b == t * z
<1>9. a \in Int /\ b \in Int /\ a + b = 1 /\ -y \in Int /\ -z \in Int
  BY <1>4, <1>8
<1> HIDE DEF C
<1>10. p * (-y) = -a /\ t * (-z) = -b
  OBVIOUS
<1> HIDE DEF a, b
<1>11. a = 1 + t * (-z) /\ b = 1 + p * (-y)
  BY <1>9, <1>10
<1>12. Same(a, 1, t) /\ Same(b, 1, p)
  BY <1>9, <1>11 DEF Same
<1>13. Same(p * y, 1, t) /\ Same(t * z, 1, p) /\ p \in Int /\ t \in Int
  BY <1>12 DEF a, b
<1> QED
  BY <1>13, Zenon DEF Unit

\* Different primes have inverses modulo each other.
LEMMA PrimesAreUnits ==
  ASSUME NEW p \in Nat, IsPrime(p), NEW q \in Nat, IsPrime(q), p # q
  PROVE  Unit(p, q)
<1>1. p > 1 /\ p > 0 /\ q > 1 /\ q > 0
  BY DEF IsPrime
<1>2. ASSUME q % p = 0 PROVE FALSE
  <2>1. q = p * (q \div p) /\ q \div p \in Nat
    BY <1>1, <1>2, Division
  <2> QED
    BY <1>1, <2>1, PrimeDivisors
<1> QED
  BY <1>1, <1>2, PrimeIsUnit

\* The plaintext modulus and each modulus have inverses modulo each other.
LEMMA ModuliInverses ==
  ASSUME Params
  PROVE  /\ setting \in Settings /\ T = setting.t /\ T \in Nat /\ T > 1 /\ T > 0
         /\ \A i \in 0 .. (SizeQ - 1) :
              /\ i + 1 \in DOMAIN setting.q /\ Q(i) = setting.q[i + 1]
              /\ Q(i) \in Nat /\ Q(i) > 1 /\ IsPrime(Q(i)) /\ Unit(T, Q(i)) /\ Unit(Q(i), T)
         /\ \A i, k \in 0 .. (SizeQ - 1) : i # k => Q(i) # Q(k)
<1>1. /\ setting \in Settings /\ T = setting.t /\ T \in Nat /\ T > 1 /\ T > 0
      /\ setting.q \in Seq(Nat \ {0, 1}) /\ SizeQ = Len(setting.q)
  BY KeySwitchAssumption DEF Params, T, SizeQ
<1>2. \A i \in 0 .. (SizeQ - 1) :
        i + 1 \in DOMAIN setting.q /\ Q(i) = setting.q[i + 1] /\ Q(i) \in Nat
  <2> TAKE i \in 0 .. (SizeQ - 1)
  <2>1. i + 1 \in 1 .. Len(setting.q)
    BY <1>1
  <2> QED
    BY <1>1, <2>1 DEF Q
<1>3. \A i \in 0 .. (SizeQ - 1) : IsPrime(Q(i)) /\ T % Q(i) # 0
  BY <1>1, <1>2, ModulusAssumption
<1>4. \A i \in 0 .. (SizeQ - 1) : Q(i) > 1 /\ Unit(T, Q(i)) /\ Unit(Q(i), T)
  BY <1>1, <1>2, <1>3, PrimeIsUnit DEF IsPrime
<1>5. \A i, k \in 0 .. (SizeQ - 1) : i # k => Q(i) # Q(k)
  <2> TAKE i \in 0 .. (SizeQ - 1), k \in 0 .. (SizeQ - 1)
  <2>1. i + 1 = k + 1 => i = k
    BY <1>1
  <2> QED
    BY <1>1, <1>2, <2>1, ModulusAssumption
<1> QED
  BY <1>1, <1>2, <1>3, <1>4, <1>5

\* The plaintext modulus is a natural number with an inverse in tower 0.
LEMMA PlaintextInverse ==
  ASSUME Params, Primes
  PROVE  /\ T \in Nat /\ T > 0 /\ Q(0) \in Nat /\ Q(0) > 1 /\ 0 \in Towers /\ KeyBasis[0] = Q(0)
         /\ ModInverse(T % Q(0), Q(0)) \in Int
         /\ Same(1, T * ModInverse(T % Q(0), Q(0)), Q(0))
<1> DEFINE q == Q(0)
           y == ModInverse(T % q, q)
<1>1. 0 \in 0 .. (SizeQ - 1)
  <2>1. SizeQ \in Nat \ {0}
    BY Sizes
  <2> QED
    BY <2>1
<1>2. T \in Nat /\ T > 0 /\ q \in Nat /\ q > 1 /\ q > 0 /\ Unit(T, q)
  BY <1>1, ModuliInverses
<1>3. 0 \in Towers /\ KeyBasis[0] = q
  BY <1>1, KeyTowers
<1>4. y \in 1 .. (q - 1) /\ Same(T * y, 1, q)
  BY <1>2, InverseIs
<1> HIDE DEF q, y
<1>5. y \in Int /\ Same(1, T * y, q)
  BY <1>2, <1>4, SameRemainder
<1> QED
  BY <1>2, <1>3, <1>5 DEF q, y

\* A key that takes x to y decrypts to x, digit by digit, with small errors.
LEMMA KeySwitches ==
  ASSUME Params, Primes, NEW key, NEW x \in Int, NEW y \in Int, KeyOK(key, x, y),
         NEW from, Stands(from, x), 2 * Abs(y) < Q(0), 2 * key.noise < Q(0)
  PROVE  Switches(key, from, InQ(y))
<1> SUFFICES ASSUME NEW n \in KeyDigits
             PROVE  LET phase == Plus(key.b[n], Times(key.a[n], Extend(InQ(y))))
                        error == Plus(phase, TimesInt(Filtered(from, n), -1))
                        e == Centered((error.val[0] * ModInverse(T % Q(0), Q(0))) % Q(0), Q(0))
                    IN  /\ Abs(e) <= key.noise
                        /\ \A i \in DOMAIN KeyBasis : error.val[i] = (T * e) % KeyBasis[i]
  BY DEF Switches
<1> DEFINE phase == Plus(key.b[n], Times(key.a[n], Extend(InQ(y))))
           error == Plus(phase, TimesInt(Filtered(from, n), -1))
           q == Q(0)
           inv == ModInverse(T % Q(0), Q(0))
<1>1. PICK e \in Int : Abs(e) <= key.noise /\ \A i \in Towers : DigitAt(key, x, y, n, e, i)
  BY DEF KeyOK, DigitOK
<1>2. /\ T \in Nat /\ q \in Nat /\ q > 1 /\ 0 \in Towers /\ KeyBasis[0] = q
      /\ inv \in Int /\ Same(1, T * inv, q)
  BY PlaintextInverse
<1>3. ASSUME NEW i \in Towers
      PROVE  Same(error.val[i], T * e, KeyBasis[i]) /\ error.val[i] = (T * e) % KeyBasis[i]
  <2> DEFINE f == Multiplier(n, i)
             m == KeyBasis[i]
             xs == Extend(InQ(y))
             fi == Filtered(from, n)
  <2>1. PICK u \in Int, v \in Int : /\ At(key.a[n], i, u) /\ At(key.b[n], i, v)
                                    /\ v + u * y = f * x + T * e
    BY <1>1 DEF DigitAt
  <2>2. At(xs, i, y)
    BY ExtendAt
  <2>3. f \in Int /\ At(fi, i, f * x)
    BY FilteredAt
  <2>4. m \in Nat /\ m > 0
    BY KeyTowers
  <2> HIDE DEF f, m, xs, fi
  <2>5. At(Times(key.a[n], xs), i, u * y)
    BY <2>1, <2>2, AtArith
  <2>6. At(Plus(key.b[n], Times(key.a[n], xs)), i, v + u * y)
    BY <2>1, <2>5, AtArith
  <2>7. At(TimesInt(fi, -1), i, (f * x) * (-1))
    <3>1. -1 \in Int
      OBVIOUS
    <3> QED
      BY <2>3, <3>1, AtArith
  <2>8. At(phase, i, v + u * y)
    BY <2>6 DEF xs
  <2> HIDE DEF phase
  <2>9. At(Plus(phase, TimesInt(fi, -1)), i, (v + u * y) + (f * x) * (-1))
    BY <2>7, <2>8, AtArith
  <2>10. (v + u * y) + (f * x) * (-1) = T * e
    <3>1. f * x \in Int /\ T * e \in Int
      BY <1>2, <2>3
    <3> QED
      BY <2>1, <3>1
  <2>11. Same(error.val[i], T * e, m)
    BY <2>9, <2>10 DEF At, fi, m
  <2>12. error.val[i] = (phase.val[i] + TimesInt(fi, -1).val[i]) % m
    <3>1. i \in DOMAIN phase.mod /\ phase.mod[i] = m
      BY <2>8 DEF At, Towers, m
    <3> QED
      BY <3>1 DEF Plus, fi
  <2>13. phase.val[i] + TimesInt(fi, -1).val[i] \in Int
    BY <2>7, <2>8 DEF At, Same
  <2> DEFINE r == error.val[i]
             z == phase.val[i] + TimesInt(fi, -1).val[i]
  <2> HIDE DEF r, z
  <2>14. r = z % m /\ z \in Int /\ Same(r, T * e, m)
    BY <2>11, <2>12, <2>13 DEF r, z
  <2>15. r \in 0 .. (m - 1)
    BY <2>4, <2>14, ModRange
  <2>16. r % m = r /\ r % m = (T * e) % m
    BY <2>4, <2>14, <2>15, ModSmall, SameRemainder
  <2> QED
    BY <2>14, <2>16 DEF r, m
<1> DEFINE r == error.val[0]
<1>4. Same(r, T * e, q)
  BY <1>2, <1>3
<1> HIDE DEF error, r, inv, q
<1>5. (r * inv) % q = e % q
  <2>0. q \in Nat /\ q > 0 /\ inv \in Int /\ T \in Int
    BY <1>2
  <2>1. Same(r * inv, (T * e) * inv, q)
    <3>1. Same(inv, inv, q)
      BY <2>0, SameSelf
    <3> QED
      BY <1>4, <2>0, <3>1, SameArith
  <2>2. Same(e * 1, e * (T * inv), q)
    <3>1. Same(e, e, q) /\ Same(1, T * inv, q)
      BY <1>2, <2>0, SameSelf
    <3> QED
      BY <2>0, <3>1, SameArith
  <2>3. (T * e) * inv = e * (T * inv) /\ e * 1 = e
    BY <2>0
  <2>4. (r * inv) % q = ((T * e) * inv) % q
    BY <2>0, <2>1, SameRemainder
  <2>5. (e * 1) % q = (e * (T * inv)) % q
    BY <2>0, <2>2, SameRemainder
  <2> QED
    BY <2>3, <2>4, <2>5
<1>6. Centered((r * inv) % q, q) = e
  <2>1. 2 * Abs(e) < q
    <3>1. Abs(e) \in Int
      BY DEF Abs
    <3>2. key.noise \in Nat /\ q \in Nat /\ 2 * key.noise < q
      BY <1>2 DEF KeyOK, q
    <3> QED
      BY <1>1, <3>1, <3>2
  <2>2. q \in Nat /\ q > 0
    BY <1>2
  <2> QED
    BY <1>5, <2>1, <2>2, CenteredSmall
<1> QED
  BY <1>1, <1>3, <1>6 DEF error, phase, r, inv, q, Towers

-----------------------------------------------------------------------------
(* How keys are made *)

\* Every element has integer residues in every tower.
Residues(a) == \A n \in KeyDigits, i \in Towers : \E u \in Int : At(a[n], i, u)

\* Every element stands for one noise in all towers.
IsNoise(el, w) == w \in Int /\ Abs(w) <= MaxNoise /\ \A i \in Towers : At(el, i, w)
Noisy(e) == \A n \in KeyDigits : \E w \in Int : IsNoise(e[n], w)

\* Draws of the generators are elements of the basis of keys.
LEMMA DrawnElements ==
  ASSUME Params, Primes
  PROVE  /\ \A a \in Draws(Uniforms) : Residues(a)
         /\ \A e \in Draws(setting.noises) : Noisy(e)
<1>1. ASSUME NEW V, NEW d \in Seq(V), d # <<>>, NEW n \in KeyDigits
      PROVE  \E z \in V : Drawn(d)[n] = Element(z, KeyBasis)
  <2> DEFINE k == (n % Len(d)) + 1
  <2>1. n \in Nat
    BY DEF KeyDigits
  <2>2. Len(d) \in Nat /\ Len(d) > 0
    BY <1>1
  <2>3. n % Len(d) \in 0 .. (Len(d) - 1)
    BY <2>1, <2>2, ModRange
  <2>4. k \in 1 .. Len(d)
    BY <2>2, <2>3
  <2>5. d[k] \in V
    BY <2>4
  <2>6. Drawn(d)[n] = Element(d[k], KeyBasis)
    BY DEF Drawn
  <2> QED
    BY <2>5, <2>6
<1>2. ASSUME NEW a \in Draws(Uniforms), NEW n \in KeyDigits, NEW i \in Towers
      PROVE  \E u \in Int : At(a[n], i, u)
  <2>1. PICK d \in Uniforms : a = Drawn(d)
    BY DEF Draws
  <2>2. d \in Seq(Int) /\ d # <<>>
    BY KeySwitchAssumption
  <2>3. PICK z \in Int : a[n] = Element(z, KeyBasis)
    BY <1>1, <2>1, <2>2
  <2> QED
    BY <2>3, AtElement
<1>3. ASSUME NEW e \in Draws(setting.noises), NEW n \in KeyDigits
      PROVE  \E w \in Int : IsNoise(e[n], w)
  <2> DEFINE V == (-MaxNoise) .. MaxNoise
  <2>1. PICK d \in setting.noises : e = Drawn(d)
    BY DEF Draws
  <2>2. d \in Seq(V) /\ d # <<>> /\ MaxNoise \in Nat
    BY KeySwitchAssumption DEF Params
  <2> HIDE DEF V
  <2>3. PICK z \in V : e[n] = Element(z, KeyBasis)
    BY <1>1, <2>1, <2>2
  <2>4. z \in Int /\ Abs(z) <= MaxNoise
    BY <2>2 DEF V, Abs
  <2>5. \A i \in Towers : At(e[n], i, z)
    BY <2>3, <2>4, AtElement
  <2> QED
    BY <2>4, <2>5 DEF IsNoise
<1> QED
  BY <1>2, <1>3 DEF Residues, Noisy

\* The number of digits is an integer, at every level.
LEMMA DigitsCounted ==
  ASSUME Params, NEW l \in 1 .. SizeQ
  PROVE  NumDigits(l) \in Int
<1>1. SizeQ \in Nat \ {0} /\ l \in Nat /\ l <= SizeQ /\ l > 0
  BY Sizes
<1>2. CASE Hybrid
  <2>1. Alpha \in Nat \ {0} /\ l + Alpha - 1 \in Nat
    BY <1>1, <1>2, Sizes
  <2>2. (l + Alpha - 1) \div Alpha \in Nat
    BY <2>1, Division
  <2> QED
    BY <1>2, <2>2 DEF NumDigits, NumParts, CeilDiv
<1>3. CASE ~Hybrid
  <2>1. l - 1 \in 0 .. (SizeQ - 1) /\ (l - 1) + 1 = l
    BY <1>1
  <2>2. FirstWindow(l) \in Int
    BY <1>3, <2>1, Windows
  <2> QED
    BY <1>3, <2>2 DEF NumDigits
<1> QED
  BY <1>2, <1>3

\* If there is a digit there is a first one.
LEMMA FirstDigit ==
  ASSUME Params, NEW n \in KeyDigits
  PROVE  0 \in KeyDigits
<1>1. SizeQ \in 1 .. SizeQ
  BY Sizes
<1>2. NumDigits(SizeQ) \in Int
  BY <1>1, DigitsCounted
<1> QED
  BY <1>2 DEF KeyDigits

\* The elements of a key have integer residues.
LEMMA KeyResidues ==
  ASSUME NEW key, NEW x, NEW y, KeyOK(key, x, y)
  PROVE  Residues(key.a)
  BY DEF KeyOK, DigitOK, DigitAt, Residues

\* A key made with the secret takes one secret to the other.
LEMMA GenOK ==
  ASSUME Params, Primes, NEW from, NEW x \in Int, Stands(from, x),
         NEW y \in Int, 2 * Abs(y) < Q(0),
         NEW a, Residues(a), NEW e, Noisy(e),
         NEW key, key = KeySwitchGen(from, InQ(y), a, e)
  PROVE  KeyOK(key, x, y) /\ key.noise = MaxNoise /\ key.a = a
<1> DEFINE sign == IF Hybrid THEN 1 ELSE -1
           xs == Extend(InQ(y))
<1>1. key.noise = MaxNoise /\ key.a = a /\ MaxNoise \in Nat
  BY KeySwitchAssumption DEF KeySwitchGen
<1>2. ASSUME NEW n \in KeyDigits
      PROVE  key.b[n] = Plus(Plus(Filtered(from, n), TimesInt(Times(a[n], xs), -1)),
                             TimesInt(e[n], sign * T))
  BY DEF KeySwitchGen
<1>3. T \in Nat /\ sign \in {1, -1} /\ sign * T \in Int
  BY PlaintextInverse
<1> HIDE DEF sign
<1>4. ASSUME NEW n \in KeyDigits
      PROVE  \E c \in Int : DigitOK(key, x, y, n, c)
  <2>1. PICK w \in Int : IsNoise(e[n], w)
    BY DEF Noisy
  <2>2. sign * w \in Int /\ Abs(sign * w) <= key.noise
    BY <1>1, <1>3, <2>1 DEF Abs, IsNoise
  <2>3. ASSUME NEW i \in Towers PROVE DigitAt(key, x, y, n, sign * w, i)
    <3> DEFINE f == Multiplier(n, i)
               fi == Filtered(from, n)
    <3>1. PICK u \in Int : At(a[n], i, u)
      BY DEF Residues
    <3>2. f \in Int /\ At(fi, i, f * x)
      BY FilteredAt
    <3>3. At(xs, i, y)
      BY ExtendAt
    <3> HIDE DEF f, fi, xs
    <3>4. At(Times(a[n], xs), i, u * y)
      BY <3>1, <3>3, AtArith
    <3>5. At(TimesInt(Times(a[n], xs), -1), i, (u * y) * (-1))
      <4>1. -1 \in Int
        OBVIOUS
      <4> QED
        BY <3>4, <4>1, AtArith
    <3>6. At(Plus(fi, TimesInt(Times(a[n], xs), -1)), i, f * x + (u * y) * (-1))
      BY <3>2, <3>5, AtArith
    <3>7. At(TimesInt(e[n], sign * T), i, w * (sign * T))
      BY <1>3, <2>1, AtArith DEF IsNoise
    <3> DEFINE v == (f * x + (u * y) * (-1)) + w * (sign * T)
    <3>8. At(key.b[n], i, v)
      BY <1>2, <3>6, <3>7, AtArith DEF fi, xs
    <3>9. v \in Int /\ v + u * y = f * x + T * (sign * w)
      <4>1. f * x \in Int /\ u * y \in Int /\ w * (sign * T) \in Int
        BY <1>3, <3>2
      <4>2. (u * y) * (-1) = -(u * y) /\ w * (sign * T) = T * (sign * w)
        BY <1>3
      <4> QED
        BY <4>1, <4>2
    <3> HIDE DEF v
    <3> QED
      BY <1>1, <3>1, <3>8, <3>9 DEF DigitAt, f
  <2> QED
    BY <2>2, <2>3 DEF DigitOK
<1> QED
  BY <1>1, <1>4 DEF KeyOK

\* A key made with the public key of the new secret does so too, with more
\* noise.
LEMMA PublicOK ==
  ASSUME Params, Primes, NEW from, NEW x \in Int, Stands(from, x),
         Z \in Int, 2 * Abs(Z) < Q(0),
         NEW a, Residues(a), NEW e, Noisy(e), NEW u \in Int, NEW e0, Noisy(e0), NEW e1, Noisy(e1),
         NEW key, key = KeySwitchGenPublic(from, InQ(Z), a, e, u, e0, e1)
  PROVE  KeyOK(key, x, Z) /\ key.noise = MaxNoise * (Abs(u) + 1 + Abs(Z))
<1> DEFINE pk1 == a[0]
           xs == Extend(InQ(Z))
           pk0 == Plus(TimesInt(e[0], T), TimesInt(Times(pk1, xs), -1))
           c == MaxNoise * (Abs(u) + 1 + Abs(Z))
<1>1. key.noise = c /\ c \in Nat /\ MaxNoise \in Nat
  <2>1. Abs(u) \in Nat /\ Abs(Z) \in Nat /\ MaxNoise \in Nat
    BY KeySwitchAssumption DEF Abs
  <2> QED
    BY <2>1 DEF KeySwitchGenPublic
<1>2. ASSUME NEW n \in KeyDigits
      PROVE  /\ key.a[n] = Plus(TimesInt(pk1, u), TimesInt(e1[n], T))
             /\ key.b[n] = Plus(Plus(TimesInt(pk0, u), TimesInt(e0[n], T)), Filtered(from, n))
  BY DEF KeySwitchGenPublic
<1>3. T \in Int
  BY PlaintextInverse
<1>4. ASSUME NEW n \in KeyDigits
      PROVE  \E d \in Int : DigitOK(key, x, Z, n, d)
  <2>1. 0 \in KeyDigits
    BY FirstDigit
  <2>2. PICK w \in Int : IsNoise(e[0], w)
    BY <2>1 DEF Noisy
  <2>3. PICK w0 \in Int : IsNoise(e0[n], w0)
    BY DEF Noisy
  <2>4. PICK w1 \in Int : IsNoise(e1[n], w1)
    BY DEF Noisy
  <2> DEFINE d == w * u + w0 + w1 * Z
  <2>5. d \in Int /\ Abs(d) <= key.noise
    <3>1. Abs(d) <= Abs(w * u) + Abs(w0) + Abs(w1 * Z)
      <4>1. w * u \in Int /\ w1 * Z \in Int
        OBVIOUS
      <4>2. \A p, q, r \in Int : Abs(p + q + r) <= Abs(p) + Abs(q) + Abs(r)
        BY DEF Abs
      <4> QED
        BY <4>1, <4>2
    <3>2. /\ Abs(w * u) = Abs(w) * Abs(u) /\ Abs(w1 * Z) = Abs(w1) * Abs(Z)
          /\ Abs(w) \in Nat /\ Abs(w0) \in Nat /\ Abs(w1) \in Nat /\ Abs(u) \in Nat /\ Abs(Z) \in Nat
      BY AbsFacts
    <3>3. Abs(w) <= MaxNoise /\ Abs(w0) <= MaxNoise /\ Abs(w1) <= MaxNoise
      BY <2>2, <2>3, <2>4 DEF IsNoise
    <3>4. Abs(w) * Abs(u) <= MaxNoise * Abs(u)
      BY <1>1, <3>2, <3>3, ProductMonotone
    <3>5. Abs(w1) * Abs(Z) <= MaxNoise * Abs(Z)
      BY <1>1, <3>2, <3>3, ProductMonotone
    <3> DEFINE p == MaxNoise * Abs(u)
               q == MaxNoise * Abs(Z)
               pu == Abs(w) * Abs(u)
               qz == Abs(w1) * Abs(Z)
    <3>6. c = p + MaxNoise + q /\ p \in Nat /\ q \in Nat /\ pu \in Nat /\ qz \in Nat
      BY <1>1, <3>2
    <3>7. Abs(d) \in Int /\ d \in Int
      BY DEF Abs
    <3>8. Abs(d) <= pu + Abs(w0) + qz /\ pu <= p /\ qz <= q
      BY <3>1, <3>2, <3>4, <3>5
    <3> HIDE DEF p, q, pu, qz, c, d
    <3> QED
      BY <1>1, <3>2, <3>3, <3>6, <3>7, <3>8
  <2>6. ASSUME NEW i \in Towers PROVE DigitAt(key, x, Z, n, d, i)
    <3> DEFINE f == Multiplier(n, i)
               fi == Filtered(from, n)
    <3>1. PICK g \in Int : At(pk1, i, g)
      BY <2>1 DEF Residues
    <3>2. f \in Int /\ At(fi, i, f * x)
      BY FilteredAt
    <3>3. At(xs, i, Z)
      BY ExtendAt
    <3>4. At(e[0], i, w) /\ At(e0[n], i, w0) /\ At(e1[n], i, w1) /\ -1 \in Int
      BY <2>2, <2>3, <2>4 DEF IsNoise
    <3> HIDE DEF f, fi, xs, pk1
    <3>5. At(TimesInt(e[0], T), i, w * T) /\ At(TimesInt(e0[n], T), i, w0 * T) /\ At(TimesInt(e1[n], T), i, w1 * T)
      BY <1>3, <3>4, AtArith
    <3>6. At(Times(pk1, xs), i, g * Z)
      BY <3>1, <3>3, AtArith
    <3>7. At(TimesInt(Times(pk1, xs), -1), i, (g * Z) * (-1))
      BY <3>4, <3>6, AtArith
    <3>8. At(pk0, i, w * T + (g * Z) * (-1))
      BY <3>5, <3>7, AtArith
    <3> HIDE DEF pk0
    <3>9. At(TimesInt(pk0, u), i, (w * T + (g * Z) * (-1)) * u) /\ At(TimesInt(pk1, u), i, g * u)
      BY <3>1, <3>8, AtArith
    <3>10. At(Plus(TimesInt(pk0, u), TimesInt(e0[n], T)), i, (w * T + (g * Z) * (-1)) * u + w0 * T)
      BY <3>5, <3>9, AtArith
    <3> DEFINE v == ((w * T + (g * Z) * (-1)) * u + w0 * T) + f * x
               h == g * u + w1 * T
    <3>11. At(key.b[n], i, v)
      BY <1>2, <3>2, <3>10, AtArith DEF fi, pk0, pk1, xs
    <3>12. At(key.a[n], i, h)
      BY <1>2, <3>5, <3>9, AtArith DEF pk1
    <3>13. v \in Int /\ h \in Int /\ v + h * Z = f * x + T * d
      <4>1. f * x \in Int
        BY <3>2
      <4>2. h * Z = (g * u) * Z + T * (w1 * Z)
        BY <1>3
      <4>3. (w * T + (g * Z) * (-1)) * u = T * (w * u) - (g * u) * Z
        BY <1>3
      <4>4. T * d = T * (w * u) + T * w0 + T * (w1 * Z) /\ w0 * T = T * w0
        BY <1>3
      <4>5. /\ T * (w * u) \in Int /\ (g * u) * Z \in Int /\ T * w0 \in Int /\ T * (w1 * Z) \in Int
            /\ h \in Int
        BY <1>3
      <4> HIDE DEF h, d
      <4> QED
        BY <4>1, <4>2, <4>3, <4>4, <4>5
    <3> HIDE DEF v, h, d
    <3> QED
      BY <3>11, <3>12, <3>13 DEF DigitAt, f
  <2> HIDE DEF d
  <2> QED
    BY <2>5, <2>6 DEF DigitOK
<1> QED
  BY <1>1, <1>4 DEF KeyOK

\* Adding keys with the same uniform elements adds what they take from and to.
LEMMA AddOK ==
  ASSUME Params, Primes, NEW x1 \in Int, NEW y1 \in Int, NEW x2 \in Int, NEW y2 \in Int,
         NEW k1, KeyOK(k1, x1, y1), NEW k2, KeyOK(k2, x2, y2), k2.a = k1.a,
         NEW key, key = MultiAddEvalKeys(k1, k2)
  PROVE  KeyOK(key, x1 + x2, y1 + y2) /\ key.noise = k1.noise + k2.noise
<1>1. /\ key.a = k1.a /\ key.noise = k1.noise + k2.noise
      /\ \A n \in KeyDigits : key.b[n] = Plus(k1.b[n], k2.b[n])
  BY DEF MultiAddEvalKeys
<1>2. k1.noise \in Nat /\ k2.noise \in Nat /\ key.noise \in Nat
  BY <1>1 DEF KeyOK
<1>3. T \in Int
  BY PlaintextInverse
<1>4. ASSUME NEW n \in KeyDigits
      PROVE  \E e \in Int : DigitOK(key, x1 + x2, y1 + y2, n, e)
  <2>1. PICK e1 \in Int : DigitOK(k1, x1, y1, n, e1)
    BY DEF KeyOK
  <2>2. PICK e2 \in Int : DigitOK(k2, x2, y2, n, e2)
    BY DEF KeyOK
  <2>3. e1 + e2 \in Int /\ Abs(e1 + e2) <= key.noise
    <3>1. Abs(e1 + e2) <= Abs(e1) + Abs(e2) /\ Abs(e1) \in Nat /\ Abs(e2) \in Nat /\ Abs(e1 + e2) \in Nat
      BY DEF Abs
    <3>2. Abs(e1) <= k1.noise /\ Abs(e2) <= k2.noise
      BY <2>1, <2>2 DEF DigitOK
    <3> QED
      BY <1>1, <1>2, <3>1, <3>2
  <2>4. ASSUME NEW i \in Towers PROVE DigitAt(key, x1 + x2, y1 + y2, n, e1 + e2, i)
    <3> DEFINE f == Multiplier(n, i)
               m == KeyBasis[i]
    <3>1. PICK u1 \in Int, v1 \in Int : /\ At(k1.a[n], i, u1) /\ At(k1.b[n], i, v1)
                                        /\ v1 + u1 * y1 = f * x1 + T * e1
      BY <2>1 DEF DigitOK, DigitAt
    <3>2. PICK u2 \in Int, v2 \in Int : /\ At(k2.a[n], i, u2) /\ At(k2.b[n], i, v2)
                                        /\ v2 + u2 * y2 = f * x2 + T * e2
      BY <2>2 DEF DigitOK, DigitAt
    <3>3. m \in Nat /\ m > 0
      BY KeyTowers
    <3>4. f \in Int
      BY FilteredAt, StandsSecret
    <3>5. Same(u1, u2, m)
      BY <3>1, <3>2, <3>3, SameOther DEF At
    <3>6. PICK k \in Int : u1 = u2 + m * k
      BY <3>5 DEF Same
    <3> HIDE DEF f, m
    <3> DEFINE w == v2 - (m * k) * y2
    <3>7. w \in Int /\ Same(v2, w, m) /\ w + u1 * y2 = f * x2 + T * e2
      <4>1. m * k \in Int /\ (m * k) * y2 \in Int /\ u2 * y2 \in Int /\ u1 * y2 \in Int
            /\ m * (k * y2) = (m * k) * y2 /\ k * y2 \in Int
        BY <3>3
      <4>2. u1 * y2 = u2 * y2 + (m * k) * y2
        BY <3>6, <4>1
      <4>3. w \in Int /\ v2 = w + m * (k * y2)
        BY <4>1
      <4>4. w + u1 * y2 = v2 + u2 * y2
        BY <4>1, <4>2
      <4> QED
        BY <3>2, <4>1, <4>3, <4>4 DEF Same
    <3> HIDE DEF w
    <3>8. At(k2.b[n], i, w)
      <4>1. k2.b[n].mod = KeyBasis /\ Same(k2.b[n].val[i], v2, m)
        BY <3>2 DEF At, m
      <4>2. Same(v2, k2.b[n].val[i], m)
        BY <3>3, <4>1, SameRemainder
      <4>3. Same(k2.b[n].val[i], w, m)
        BY <3>3, <3>7, <4>2, SameOther
      <4> QED
        BY <4>1, <4>3 DEF At, m
    <3>9. At(key.b[n], i, v1 + w)
      BY <1>1, <3>1, <3>8, AtArith
    <3>10. (v1 + w) + u1 * (y1 + y2) = f * (x1 + x2) + T * (e1 + e2)
      <4>1. u1 * (y1 + y2) = u1 * y1 + u1 * y2 /\ f * (x1 + x2) = f * x1 + f * x2
            /\ T * (e1 + e2) = T * e1 + T * e2
        BY <1>3, <3>4
      <4>2. u1 * y1 \in Int /\ u1 * y2 \in Int /\ f * x1 \in Int /\ f * x2 \in Int
            /\ T * e1 \in Int /\ T * e2 \in Int
        BY <1>3, <3>4
      <4> QED
        BY <3>1, <3>7, <4>1, <4>2
    <3>11. At(key.a[n], i, u1) /\ v1 + w \in Int
      BY <1>1, <3>1, <3>7
    <3> QED
      BY <3>9, <3>10, <3>11 DEF DigitAt, f
  <2> QED
    BY <2>3, <2>4 DEF DigitOK
<1> QED
  BY <1>1, <1>2, <1>4 DEF KeyOK

\* Adding keys to one secret, uniform elements too, adds what they take from.
LEMMA AddMultOK ==
  ASSUME Params, Primes, NEW x1 \in Int, NEW x2 \in Int, NEW y \in Int,
         NEW k1, NEW k2, KeyOK(k1, x1, y), KeyOK(k2, x2, y)
  PROVE  /\ KeyOK(MultiAddEvalMultKeys(k1, k2), x1 + x2, y)
         /\ MultiAddEvalMultKeys(k1, k2).noise = k1.noise + k2.noise
<1> DEFINE key == MultiAddEvalMultKeys(k1, k2)
<1>1. /\ key.noise = k1.noise + k2.noise
      /\ \A n \in KeyDigits : key.b[n] = Plus(k1.b[n], k2.b[n]) /\ key.a[n] = Plus(k1.a[n], k2.a[n])
  BY DEF MultiAddEvalMultKeys, MultiAddEvalKeys
<1> HIDE DEF key
<1>2. k1.noise \in Nat /\ k2.noise \in Nat /\ key.noise \in Nat
  BY <1>1 DEF KeyOK
<1>3. T \in Int
  BY PlaintextInverse
<1>4. ASSUME NEW n \in KeyDigits
      PROVE  \E e \in Int : DigitOK(key, x1 + x2, y, n, e)
  <2>1. PICK e1 \in Int : DigitOK(k1, x1, y, n, e1)
    BY DEF KeyOK
  <2>2. PICK e2 \in Int : DigitOK(k2, x2, y, n, e2)
    BY DEF KeyOK
  <2>3. e1 + e2 \in Int /\ Abs(e1 + e2) <= key.noise
    <3>1. Abs(e1 + e2) <= Abs(e1) + Abs(e2) /\ Abs(e1) \in Nat /\ Abs(e2) \in Nat /\ Abs(e1 + e2) \in Nat
      BY DEF Abs
    <3>2. Abs(e1) <= k1.noise /\ Abs(e2) <= k2.noise
      BY <2>1, <2>2 DEF DigitOK
    <3> QED
      BY <1>1, <1>2, <3>1, <3>2
  <2>4. ASSUME NEW i \in Towers PROVE DigitAt(key, x1 + x2, y, n, e1 + e2, i)
    <3> DEFINE f == Multiplier(n, i)
    <3>1. PICK u1 \in Int, v1 \in Int : /\ At(k1.a[n], i, u1) /\ At(k1.b[n], i, v1)
                                        /\ v1 + u1 * y = f * x1 + T * e1
      BY <2>1 DEF DigitOK, DigitAt
    <3>2. PICK u2 \in Int, v2 \in Int : /\ At(k2.a[n], i, u2) /\ At(k2.b[n], i, v2)
                                        /\ v2 + u2 * y = f * x2 + T * e2
      BY <2>2 DEF DigitOK, DigitAt
    <3>4. f \in Int
      BY FilteredAt, StandsSecret
    <3> HIDE DEF f
    <3>5. At(key.b[n], i, v1 + v2) /\ At(key.a[n], i, u1 + u2)
      BY <1>1, <3>1, <3>2, AtArith
    <3>6. (v1 + v2) + (u1 + u2) * y = f * (x1 + x2) + T * (e1 + e2)
      <4>1. (u1 + u2) * y = u1 * y + u2 * y /\ f * (x1 + x2) = f * x1 + f * x2
            /\ T * (e1 + e2) = T * e1 + T * e2
        BY <1>3, <3>4
      <4>2. u1 * y \in Int /\ u2 * y \in Int /\ f * x1 \in Int /\ f * x2 \in Int
            /\ T * e1 \in Int /\ T * e2 \in Int
        BY <1>3, <3>4
      <4> DEFINE a == u1 * y
                 b == u2 * y
                 c == f * x1
                 d == f * x2
                 g == T * e1
                 h == T * e2
      <4>3. v1 + a = c + g /\ v2 + b = d + h
        BY <3>1, <3>2
      <4>4. /\ (u1 + u2) * y = a + b /\ f * (x1 + x2) = c + d /\ T * (e1 + e2) = g + h
            /\ a \in Int /\ b \in Int /\ c \in Int /\ d \in Int /\ g \in Int /\ h \in Int
        BY <4>1, <4>2
      <4> HIDE DEF a, b, c, d, g, h
      <4>5. (v1 + v2) + (a + b) = (c + d) + (g + h)
        BY <4>3, <4>4
      <4> QED
        BY <4>4, <4>5
    <3>7. u1 + u2 \in Int /\ v1 + v2 \in Int
      OBVIOUS
    <3> QED
      BY <3>5, <3>6, <3>7 DEF DigitAt, f
  <2> QED
    BY <2>3, <2>4 DEF DigitOK
<1>5. KeyOK(key, x1 + x2, y) /\ key.noise = k1.noise + k2.noise
  BY <1>1, <1>2, <1>4 DEF KeyOK
<1> QED
  BY <1>5 DEF key

\* Multiplying a key by a share of the secret multiplies what it takes from.
LEMMA MultOK ==
  ASSUME Params, Primes, NEW x \in Int, S \in Int,
         NEW k1, KeyOK(k1, x, S), NEW s \in Int, 2 * Abs(s) < Q(0),
         NEW e0, Noisy(e0), NEW e1, Noisy(e1),
         NEW key, key = MultiMultEvalKey(s, k1, e0, e1)
  PROVE  KeyOK(key, s * x, S) /\ key.noise = k1.noise * Abs(s) + MaxNoise * (1 + Abs(S))
<1> DEFINE xs == Extend(InQ(s))
<1>1. /\ key.noise = k1.noise * Abs(s) + MaxNoise * (1 + Abs(S))
      /\ \A n \in KeyDigits : /\ key.b[n] = Plus(Times(k1.b[n], xs), TimesInt(e1[n], T))
                              /\ key.a[n] = Plus(Times(k1.a[n], xs), TimesInt(e0[n], T))
  BY DEF MultiMultEvalKey
<1>2. /\ k1.noise \in Nat /\ key.noise \in Nat /\ MaxNoise \in Nat
  <2>1. k1.noise \in Nat /\ MaxNoise \in Nat /\ Abs(s) \in Nat /\ Abs(S) \in Nat
    BY KeySwitchAssumption DEF KeyOK, Abs
  <2>2. k1.noise * Abs(s) \in Nat /\ MaxNoise * (1 + Abs(S)) \in Nat
    BY <2>1
  <2> QED
    BY <1>1, <2>1, <2>2
<1>3. T \in Int
  BY PlaintextInverse
<1>4. ASSUME NEW n \in KeyDigits
      PROVE  \E e \in Int : DigitOK(key, s * x, S, n, e)
  <2>1. PICK e \in Int : DigitOK(k1, x, S, n, e)
    BY DEF KeyOK
  <2>2. PICK w0 \in Int : IsNoise(e0[n], w0)
    BY DEF Noisy
  <2>3. PICK w1 \in Int : IsNoise(e1[n], w1)
    BY DEF Noisy
  <2> DEFINE d == s * e + w1 + w0 * S
  <2>4. d \in Int /\ Abs(d) <= key.noise
    <3>1. Abs(d) <= Abs(s * e) + Abs(w1) + Abs(w0 * S)
      <4>1. s * e \in Int /\ w0 * S \in Int
        OBVIOUS
      <4>2. \A p, q, r \in Int : Abs(p + q + r) <= Abs(p) + Abs(q) + Abs(r)
        BY DEF Abs
      <4> QED
        BY <4>1, <4>2
    <3>2. /\ Abs(s * e) = Abs(e) * Abs(s) /\ Abs(w0 * S) = Abs(w0) * Abs(S)
          /\ Abs(e) \in Nat /\ Abs(w0) \in Nat /\ Abs(w1) \in Nat /\ Abs(s) \in Nat /\ Abs(S) \in Nat
      <4>1. Abs(e * s) = Abs(e) * Abs(s)
        BY AbsFacts
      <4>2. Abs(w0 * S) = Abs(w0) * Abs(S)
        BY AbsFacts
      <4>3. e * s = s * e
        OBVIOUS
      <4>4. Abs(e) \in Nat /\ Abs(w0) \in Nat /\ Abs(w1) \in Nat /\ Abs(s) \in Nat /\ Abs(S) \in Nat
        BY DEF Abs
      <4> QED
        BY <4>1, <4>2, <4>3, <4>4
    <3>3. Abs(e) <= k1.noise /\ Abs(w0) <= MaxNoise /\ Abs(w1) <= MaxNoise
      BY <2>1, <2>2, <2>3 DEF IsNoise, DigitOK
    <3>4. Abs(e) * Abs(s) <= k1.noise * Abs(s)
      BY <1>2, <3>2, <3>3, ProductMonotone
    <3>5. Abs(w0) * Abs(S) <= MaxNoise * Abs(S)
      BY <1>2, <3>2, <3>3, ProductMonotone
    <3> DEFINE p == k1.noise * Abs(s)
               q == MaxNoise * Abs(S)
               ps == Abs(e) * Abs(s)
               qs == Abs(w0) * Abs(S)
    <3>6. key.noise = p + MaxNoise + q /\ p \in Nat /\ q \in Nat /\ ps \in Nat /\ qs \in Nat
      <4>1. MaxNoise * (1 + Abs(S)) = MaxNoise + q
        BY <1>2, <3>2
      <4> QED
        BY <1>1, <1>2, <3>2, <4>1
    <3>7. Abs(d) \in Int /\ d \in Int
      BY DEF Abs
    <3>8. Abs(d) <= ps + Abs(w1) + qs /\ ps <= p /\ qs <= q
      BY <3>1, <3>2, <3>4, <3>5
    <3> HIDE DEF p, q, ps, qs, d
    <3> QED
      BY <1>2, <3>2, <3>3, <3>6, <3>7, <3>8
  <2>5. ASSUME NEW i \in Towers PROVE DigitAt(key, s * x, S, n, d, i)
    <3> DEFINE f == Multiplier(n, i)
    <3>1. PICK u \in Int, v \in Int : /\ At(k1.a[n], i, u) /\ At(k1.b[n], i, v)
                                      /\ v + u * S = f * x + T * e
      BY <2>1 DEF DigitOK, DigitAt
    <3>2. f \in Int
      BY FilteredAt, StandsSecret
    <3>3. At(xs, i, s)
      BY ExtendAt
    <3>4. At(e0[n], i, w0) /\ At(e1[n], i, w1)
      BY <2>2, <2>3 DEF IsNoise
    <3> HIDE DEF f, xs
    <3>5. At(TimesInt(e0[n], T), i, w0 * T) /\ At(TimesInt(e1[n], T), i, w1 * T)
      BY <1>3, <3>4, AtArith
    <3>6. At(Times(k1.a[n], xs), i, u * s) /\ At(Times(k1.b[n], xs), i, v * s)
      BY <3>1, <3>3, AtArith
    <3> DEFINE g == u * s + w0 * T
               h == v * s + w1 * T
    <3>7. At(key.a[n], i, g) /\ At(key.b[n], i, h)
      BY <1>1, <3>5, <3>6, AtArith DEF xs
    <3>8. g \in Int /\ h \in Int /\ h + g * S = f * (s * x) + T * d
      <4>1. g * S = (u * S) * s + T * (w0 * S)
        BY <1>3
      <4>2. T * d = T * (s * e) + T * w1 + T * (w0 * S) /\ w1 * T = T * w1
        BY <1>3
      <4>3. v * s + (u * S) * s = f * (s * x) + T * (s * e)
        <5>1. v * s + (u * S) * s = (v + u * S) * s
          OBVIOUS
        <5>2. (f * x + T * e) * s = f * (s * x) + T * (s * e)
          BY <1>3, <3>2
        <5> QED
          BY <3>1, <5>1, <5>2
      <4>4. /\ (u * S) * s \in Int /\ v * s \in Int /\ f * (s * x) \in Int /\ T * (s * e) \in Int
            /\ T * w1 \in Int /\ T * (w0 * S) \in Int /\ w1 * T \in Int /\ g \in Int /\ h \in Int
            /\ h = v * s + w1 * T
        BY <1>3, <3>2
      <4> HIDE DEF g, h, d
      <4> QED
        BY <4>1, <4>2, <4>3, <4>4
    <3> HIDE DEF g, h, d
    <3> QED
      BY <3>7, <3>8 DEF DigitAt, f
  <2> HIDE DEF d
  <2> QED
    BY <2>4, <2>5 DEF DigitOK
<1> QED
  BY <1>1, <1>2, <1>4 DEF KeyOK

-----------------------------------------------------------------------------
(* The secrets of the parties *)

Holders ==
  /\ secret \in [Parties -> Secrets] /\ image \in [Parties -> Secrets]
  /\ setting.use = "mult" => image = secret

\* The sum over the parties of one or two integers.
LEMMA SumOfParties ==
  ASSUME Params, NEW f \in [Parties -> Int]
  PROVE  /\ setting.parties \in {1, 2} /\ Sum(f) \in Int
         /\ setting.parties = 1 => f[1] \in Int /\ Sum(f) = f[1]
         /\ setting.parties = 2 => f[1] \in Int /\ f[2] \in Int /\ Sum(f) = f[1] + f[2]
<1> DEFINE g == [p \in Parties |-> f[p]]
<1>1. setting.parties \in {1, 2} /\ DOMAIN g = Parties /\ \A p \in Parties : g[p] = f[p] /\ g[p] \in Int
  BY KeySwitchAssumption DEF Params
<1>2. IsFiniteSet(Parties)
  <2>1. 1 \in Int /\ setting.parties \in Int
    BY <1>1
  <2> QED
    BY <2>1, FS_Interval DEF Parties
<1>3. Sum(f) = SumFunction(g)
  BY DEF Sum
<1> HIDE DEF g
<1>4. Sum(f) = Total(g, Parties) /\ Sum(f) \in Int
  BY <1>1, <1>2, <1>3, SumIsTotal
<1>5. CASE setting.parties = 1
  <2>1. Parties = {1} /\ 1 \in Parties /\ Parties \ {1} = {}
    BY <1>5 DEF Parties
  <2>2. Total(g, Parties) = g[1] + Total(g, Parties \ {1}) /\ Total(g, {}) = 0
    BY <1>1, <1>2, <2>1, TotalSplit
  <2>3. g[1] = f[1] /\ g[1] \in Int
    BY <1>1, <2>1
  <2> QED
    BY <1>4, <1>5, <2>1, <2>2, <2>3
<1>6. CASE setting.parties = 2
  <2>1. Parties = {1, 2} /\ 1 \in Parties /\ 2 \in Parties /\ Parties \ {1} = {2} /\ {2} \ {2} = {}
    BY <1>6 DEF Parties
  <2>2. Total(g, Parties) = g[1] + Total(g, {2})
    <3>1. \A p \in Parties : g[p] \in Int
      BY <1>1
    <3>2. \A p \in Parties : Total(g, Parties) = g[p] + Total(g, Parties \ {p})
      BY <1>2, <3>1, TotalSplit
    <3> QED
      BY <2>1, <3>2
  <2>3. Total(g, {2}) = g[2] + Total(g, {}) /\ Total(g, {}) = 0
    <3>1. IsFiniteSet({2}) /\ 2 \in {2} /\ \A p \in {2} : g[p] \in Int
      BY <1>1, <2>1, FS_Singleton
    <3> QED
      BY <2>1, <3>1, TotalSplit
  <2>4. g[1] = f[1] /\ g[1] \in Int /\ g[2] = f[2] /\ g[2] \in Int
    BY <1>1, <2>1
  <2> QED
    BY <1>4, <1>6, <2>2, <2>3, <2>4
<1> QED
  BY <1>1, <1>4, <1>5, <1>6

\* Of two secrets one has the larger magnitude.
LEMMA Larger ==
  ASSUME NEW x \in Secrets, NEW y \in Secrets
  PROVE  \E z \in Secrets : Abs(x) <= Abs(z) /\ Abs(y) <= Abs(z)
<1>1. x \in Int /\ y \in Int
  BY KeySwitchAssumption
<1>2. Abs(x) \in Nat /\ Abs(y) \in Nat
  BY <1>1 DEF Abs
<1>3. \/ Abs(x) <= Abs(x) /\ Abs(y) <= Abs(x)
      \/ Abs(x) <= Abs(y) /\ Abs(y) <= Abs(y)
  BY <1>2
<1> QED
  BY <1>3

\* The first modulus has room for the secrets and noises of magnitude b.
Fits(b) ==
  /\ \A p \in Parties : Abs(secret[p]) <= b /\ Abs(image[p]) <= b
  /\ Abs(S) <= 2 * b /\ Abs(Z) <= 2 * b
  /\ 2 * (MaxNoise * (8 * b + 2)) < Q(0) /\ 4 * b < Q(0)

\* Secrets and their sums are integers that fit, with any other secret.
LEMMA Room ==
  ASSUME Params, Holders, NEW u \in Secrets
  PROVE  /\ S \in Int /\ Z \in Int
         /\ \A p \in Parties : secret[p] \in Int /\ image[p] \in Int
         /\ \E b \in Nat : Fits(b) /\ Abs(u) <= b
<1>1. \A p \in Parties : secret[p] \in Secrets /\ image[p] \in Secrets
  BY DEF Holders
<1>2. \A p \in Parties : secret[p] \in Int /\ image[p] \in Int
  BY <1>1, KeySwitchAssumption
<1>3. secret \in [Parties -> Int] /\ image \in [Parties -> Int]
  BY KeySwitchAssumption DEF Holders
<1>4. /\ setting.parties \in {1, 2} /\ S \in Int
      /\ setting.parties = 1 => secret[1] \in Int /\ S = secret[1]
      /\ setting.parties = 2 => secret[1] \in Int /\ secret[2] \in Int /\ S = secret[1] + secret[2]
  BY <1>3, SumOfParties DEF S
<1>5. /\ Z \in Int
      /\ setting.parties = 1 => image[1] \in Int /\ Z = image[1]
      /\ setting.parties = 2 => image[1] \in Int /\ image[2] \in Int /\ Z = image[1] + image[2]
  BY <1>3, SumOfParties DEF Z
<1>6. \E z \in Secrets : /\ Abs(u) <= Abs(z)
                         /\ \A p \in Parties : Abs(secret[p]) <= Abs(z) /\ Abs(image[p]) <= Abs(z)
  <2>0. \A x \in Secrets : Abs(x) \in Nat
    BY KeySwitchAssumption DEF Abs
  <2>1. ASSUME NEW x \in Secrets, NEW p \in Parties
        PROVE  \E z \in Secrets : Abs(x) <= Abs(z) /\ Abs(secret[p]) <= Abs(z) /\ Abs(image[p]) <= Abs(z)
    <3>1. PICK y \in Secrets : Abs(secret[p]) <= Abs(y) /\ Abs(image[p]) <= Abs(y)
      BY <1>1, Larger
    <3>2. PICK z \in Secrets : Abs(x) <= Abs(z) /\ Abs(y) <= Abs(z)
      BY Larger
    <3>3. /\ Abs(secret[p]) \in Nat /\ Abs(image[p]) \in Nat /\ Abs(y) \in Nat /\ Abs(z) \in Nat
      BY <1>1, <2>0
    <3>4. Abs(secret[p]) <= Abs(z) /\ Abs(image[p]) <= Abs(z)
      BY <3>1, <3>2, <3>3
    <3> QED
      BY <3>2, <3>4
  <2>2. CASE setting.parties = 1
    <3>1. Parties = {1}
      BY <2>2 DEF Parties
    <3> QED
      BY <2>1, <3>1
  <2>3. CASE setting.parties = 2
    <3>1. Parties = {1, 2} /\ 1 \in Parties /\ 2 \in Parties
      BY <2>3 DEF Parties
    <3>2. PICK y \in Secrets : Abs(u) <= Abs(y) /\ Abs(secret[1]) <= Abs(y) /\ Abs(image[1]) <= Abs(y)
      BY <2>1, <3>1
    <3>3. PICK z \in Secrets : Abs(y) <= Abs(z) /\ Abs(secret[2]) <= Abs(z) /\ Abs(image[2]) <= Abs(z)
      BY <2>1, <3>1
    <3>4. /\ Abs(u) \in Nat /\ Abs(y) \in Nat /\ Abs(z) \in Nat
          /\ Abs(secret[1]) \in Nat /\ Abs(image[1]) \in Nat
      BY <1>1, <2>0, <3>1
    <3>5. Abs(u) <= Abs(z) /\ Abs(secret[1]) <= Abs(z) /\ Abs(image[1]) <= Abs(z)
      BY <3>2, <3>3, <3>4
    <3> QED
      BY <3>1, <3>3, <3>5
  <2> QED
    BY <1>4, <2>2, <2>3
<1>7. PICK z \in Secrets : /\ Abs(u) <= Abs(z)
                           /\ \A p \in Parties : Abs(secret[p]) <= Abs(z) /\ Abs(image[p]) <= Abs(z)
  BY <1>6
<1> DEFINE b == Abs(z)
<1>8. b \in Nat
  BY KeySwitchAssumption DEF Abs
<1>9. 2 * (MaxNoise * (8 * b + 2)) < Q(0) /\ 4 * b < Q(0)
  <2>1. Q(0) = setting.q[1]
    BY DEF Q
  <2> QED
    BY <2>1, ModulusAssumption DEF Params
<1> HIDE DEF b
<1>10. ASSUME NEW w, NEW f \in [Parties -> Int], \A p \in Parties : Abs(f[p]) <= b, w \in Int,
              setting.parties = 1 => f[1] \in Int /\ w = f[1],
              setting.parties = 2 => f[1] \in Int /\ f[2] \in Int /\ w = f[1] + f[2]
       PROVE  Abs(w) <= 2 * b
  <2>1. CASE setting.parties = 1
    <3>1. f[1] \in Int /\ w = f[1] /\ Abs(f[1]) <= b
      BY <1>10, <2>1 DEF Parties
    <3> QED
      BY <1>8, <3>1 DEF Abs
  <2>2. CASE setting.parties = 2
    <3>1. f[1] \in Int /\ f[2] \in Int /\ w = f[1] + f[2] /\ Abs(f[1]) <= b /\ Abs(f[2]) <= b
      BY <1>10, <2>2 DEF Parties
    <3> QED
      BY <1>8, <3>1 DEF Abs
  <2> QED
    BY <1>4, <2>1, <2>2
<1>11. Abs(S) <= 2 * b
  BY <1>3, <1>4, <1>7, <1>10 DEF b
<1>12. Abs(Z) <= 2 * b
  BY <1>3, <1>5, <1>7, <1>10 DEF b
<1>13. Fits(b) /\ Abs(u) <= b
  BY <1>7, <1>9, <1>11, <1>12 DEF Fits, b
<1> QED
  BY <1>2, <1>4, <1>5, <1>8, <1>13

-----------------------------------------------------------------------------
(* Steps leave the parameters alone *)

\* What is made of the parameters stays, and so does what a key is.
LEMMA KeyFrame ==
  ASSUME UNCHANGED parameters
  PROVE  /\ \A k, x, y : KeyOK(k, x, y)' <=> KeyOK(k, x, y)
         /\ S' = S /\ Z' = Z /\ Parties' = Parties /\ Q(0)' = Q(0)
         /\ setting' = setting /\ secret' = secret /\ image' = image
         /\ Params => Params' /\ (Primes => Primes') /\ (Holders => Holders')
<1>1. setting' = setting /\ special' = special /\ secret' = secret /\ image' = image
  BY DEF parameters
<1>2. SizeQ' = SizeQ /\ Hybrid' = Hybrid /\ SizeP' = SizeP /\ KeyBasis' = KeyBasis /\ T' = T
      /\ \A i : Q(i)' = Q(i)
  BY <1>1 DEF SizeQ, SizeP, Hybrid, KeyBasis, BasisQP, BasisQ, Q, T
<1>3. Parties' = Parties
  BY <1>1 DEF Parties
<1>4. S' = S /\ Z' = Z
  BY <1>1, <1>3 DEF S, Z, Sum
<1>5. Alpha' = Alpha /\ (\A l : NumParts(l)' = NumParts(l)) /\ \A l, n : SizePart(l, n)' = SizePart(l, n)
  BY <1>1 DEF Alpha, NumParts, SizePart
<1>6. \A i : NumWindows(i)' = NumWindows(i)
  BY <1>1, <1>2 DEF NumWindows
<1>7. \A i : FirstWindow(i)' = FirstWindow(i)
  BY <1>6 DEF FirstWindow
<1>8. \A n : TowerOf(n)' = TowerOf(n)
  BY <1>2, <1>6, <1>7 DEF TowerOf
<1>9. \A n : Power(n)' = Power(n)
  BY <1>1, <1>7, <1>8 DEF Power
<1>10. ModulusP' = ModulusP
  BY <1>1, <1>2 DEF ModulusP, BasisP
<1>11. \A n, i : Factor(n, i)' = Factor(n, i)
  BY <1>2, <1>9, <1>10 DEF Factor, PModq
<1>12. \A n, l : Own(n, l)' = Own(n, l)
  BY <1>2, <1>5, <1>8 DEF Own
<1>13. \A n, i : Multiplier(n, i)' = Multiplier(n, i)
  BY <1>2, <1>11, <1>12 DEF Multiplier
<1>14. KeyDigits' = KeyDigits
  <2>1. \A l : NumDigits(l)' = NumDigits(l)
    BY <1>2, <1>5, <1>7 DEF NumDigits
  <2> QED
    BY <1>2, <2>1 DEF KeyDigits
<1>15. Towers' = Towers /\ \A x, i, v : At(x, i, v)' <=> At(x, i, v)
  BY <1>2 DEF Towers, At
<1>16. \A key, x, y, n, e, i : DigitAt(key, x, y, n, e, i)' <=> DigitAt(key, x, y, n, e, i)
  BY <1>2, <1>13, <1>15 DEF DigitAt
<1>17. \A key, x, y, n, e : DigitOK(key, x, y, n, e)' <=> DigitOK(key, x, y, n, e)
  BY <1>15, <1>16 DEF DigitOK
<1>18. \A k, x, y : KeyOK(k, x, y)' <=> KeyOK(k, x, y)
  BY <1>14, <1>17 DEF KeyOK
<1>19. (Params => Params') /\ (Primes => Primes') /\ (Holders => Holders')
  BY <1>1, <1>2, <1>3 DEF Params, Primes, Holders
<1> QED
  BY <1>1, <1>2, <1>3, <1>4, <1>18, <1>19

-----------------------------------------------------------------------------
(* The keys there are *)

\* A key that takes x to y, with noise bounded by c.
Made(k, x, y, c) == KeyOK(k, x, y) /\ k.noise = c

\* The second share was made with the uniform elements of the first.
SharesOK ==
  /\ shares = [p \in {1, 2} |-> shares[p]]
  /\ \A p \in {1, 2} : shares[p] # None =>
       setting.parties = 2 /\ Made(shares[p], secret[p], image[p], MaxNoise)
  /\ shares[2] # None => shares[1] # None /\ shares[2].a = shares[1].a

JointOK == joint # None => setting.parties = 2 /\ Made(joint, S, Z, MaxNoise + MaxNoise)

ProductNoise(p) == (MaxNoise + MaxNoise) * Abs(secret[p]) + MaxNoise * (1 + Abs(S))

ProductsOK ==
  /\ products = [p \in {1, 2} |-> products[p]]
  /\ \A p \in {1, 2} : products[p] # None =>
       /\ setting.parties = 2 /\ setting.use = "mult"
       /\ Made(products[p], secret[p] * S, S, ProductNoise(p))

\* The key in use takes the secret of ciphertexts, or its square, to that of
\* what they become.
From == IF setting.use = "mult" THEN S * S ELSE S
To == IF setting.use = "mult" THEN S ELSE Z
UsableKey(k) == KeyOK(k, From, To) /\ 2 * k.noise < Q(0)
EvalOK == evalKey # None \/ ct # None => UsableKey(evalKey)

Known == Params /\ Primes /\ Holders

KeyInv == Known /\ SharesOK /\ JointOK /\ ProductsOK /\ EvalOK

\* Keys a step leaves alone stay what they are.
LEMMA KeyInvFrame ==
  ASSUME UNCHANGED parameters
  PROVE  /\ Known => Known'
         /\ SharesOK /\ UNCHANGED shares => SharesOK'
         /\ JointOK /\ UNCHANGED joint => JointOK'
         /\ ProductsOK /\ UNCHANGED products => ProductsOK'
         /\ EvalOK /\ UNCHANGED <<evalKey, ct>> => EvalOK'
         /\ \A k, x, y, c : Made(k, x, y, c)' <=> Made(k, x, y, c)
         /\ \A k : UsableKey(k)' <=> UsableKey(k)
<1>1. /\ S' = S /\ Z' = Z /\ Q(0)' = Q(0) /\ setting' = setting /\ secret' = secret /\ image' = image
      /\ \A k, x, y : KeyOK(k, x, y)' <=> KeyOK(k, x, y)
  BY KeyFrame
<1>2. Known => Known'
  BY KeyFrame DEF Known
<1>3. \A k, x, y, c : Made(k, x, y, c)' <=> Made(k, x, y, c)
  BY <1>1 DEF Made
<1>4. From' = From /\ To' = To /\ \A p : ProductNoise(p)' = ProductNoise(p)
  BY <1>1 DEF From, To, ProductNoise
<1>5. \A k : UsableKey(k)' <=> UsableKey(k)
  BY <1>1, <1>4 DEF UsableKey
<1>6. SharesOK /\ UNCHANGED shares => SharesOK'
  BY <1>1, <1>3 DEF SharesOK
<1>7. JointOK /\ UNCHANGED joint => JointOK'
  BY <1>1, <1>3 DEF JointOK
<1>8. ProductsOK /\ UNCHANGED products => ProductsOK'
  BY <1>1, <1>3, <1>4 DEF ProductsOK
<1>9. EvalOK /\ UNCHANGED <<evalKey, ct>> => EvalOK'
  BY <1>5 DEF EvalOK
<1> QED
  BY <1>2, <1>3, <1>5, <1>6, <1>7, <1>8, <1>9

\* Secrets and noises of keys are small against the first modulus.
LEMMA RoomForKeys ==
  ASSUME Known
  PROVE  /\ S \in Int /\ Z \in Int /\ 2 * Abs(S) < Q(0) /\ 2 * Abs(Z) < Q(0)
         /\ \A p \in Parties : /\ secret[p] \in Int /\ 2 * Abs(secret[p]) < Q(0)
                               /\ image[p] \in Int /\ 2 * Abs(image[p]) < Q(0)
                               /\ ProductNoise(p) \in Nat /\ 2 * ProductNoise(p) < Q(0)
         /\ 2 * MaxNoise < Q(0) /\ 2 * (MaxNoise + MaxNoise) < Q(0)
         /\ \A u \in Secrets : 2 * (MaxNoise * (Abs(u) + 1 + Abs(Z))) < Q(0)
         /\ setting.parties = 2 => 2 * (ProductNoise(1) + ProductNoise(2)) < Q(0)
<1>1. Params /\ Primes /\ Holders
  BY DEF Known
<1>2. MaxNoise \in Nat /\ Q(0) \in Nat
  BY <1>1, KeySwitchAssumption, PlaintextInverse
<1>3. ASSUME NEW b \in Nat, NEW x \in Nat, x <= 8 * b + 2
      PROVE  MaxNoise * x \in Nat /\ MaxNoise * x <= MaxNoise * (8 * b + 2) /\ MaxNoise * (8 * b + 2) \in Nat
  <2>1. 8 * b + 2 \in Nat
    OBVIOUS
  <2>2. MaxNoise * (8 * b + 2) \in Nat
    BY <1>2, <2>1
  <2>3. MaxNoise <= MaxNoise
    BY <1>2
  <2> QED
    BY <1>2, <1>3, <2>1, <2>2, <2>3, ProductMonotone
<1>4. ASSUME NEW u \in Secrets, NEW b \in Nat, Fits(b), Abs(u) <= b
      PROVE  2 * (MaxNoise * (Abs(u) + 1 + Abs(Z))) < Q(0)
  <2>1. Abs(u) \in Nat /\ Abs(Z) \in Nat /\ Abs(Z) <= 2 * b
    BY <1>1, <1>4, Room, KeySwitchAssumption DEF Abs, Fits
  <2> DEFINE x == Abs(u) + 1 + Abs(Z)
             c == MaxNoise * (8 * b + 2)
  <2>2. x \in Nat /\ x <= 8 * b + 2
    BY <1>4, <2>1
  <2>3. MaxNoise * x \in Nat /\ MaxNoise * x <= c /\ c \in Nat
    BY <1>3, <2>2
  <2>4. 2 * c < Q(0)
    BY <1>4 DEF Fits
  <2> HIDE DEF c, x
  <2>5. 2 * (MaxNoise * x) < Q(0)
    BY <1>2, <2>3, <2>4
  <2> QED
    BY <2>5 DEF x
<1>5. setting.parties \in {1, 2} /\ 1 \in Parties /\ (setting.parties = 2 => 2 \in Parties)
  BY <1>1, KeySwitchAssumption DEF Params, Parties
<1>6. PICK b \in Nat : Fits(b)
  <2>1. secret[1] \in Secrets
    BY <1>1, <1>5 DEF Holders
  <2> QED
    BY <1>1, <2>1, Room
<1>7. /\ S \in Int /\ Z \in Int
      /\ \A p \in Parties : secret[p] \in Int /\ image[p] \in Int
  <2>1. secret[1] \in Secrets
    BY <1>1, <1>5 DEF Holders
  <2> QED
    BY <1>1, <2>1, Room
<1>8. /\ \A p \in Parties : /\ Abs(secret[p]) \in Nat /\ Abs(secret[p]) <= b
                            /\ Abs(image[p]) \in Nat /\ Abs(image[p]) <= b
      /\ Abs(S) \in Nat /\ Abs(Z) \in Nat /\ Abs(S) <= 2 * b /\ Abs(Z) <= 2 * b /\ 4 * b < Q(0)
  BY <1>6, <1>7 DEF Fits, Abs
<1> DEFINE c == MaxNoise * (8 * b + 2)
<1>9. c \in Nat /\ 2 * c < Q(0)
  <2>1. 8 * b + 2 \in Nat
    OBVIOUS
  <2> QED
    BY <1>2, <1>6, <2>1 DEF Fits
<1>10. ASSUME NEW x \in Nat, x <= 8 * b + 2
       PROVE  MaxNoise * x \in Nat /\ MaxNoise * x <= c
  BY <1>3, <1>10
<1> HIDE DEF c
<1>11. ASSUME NEW p \in Parties
       PROVE  /\ ProductNoise(p) = MaxNoise * (2 * Abs(secret[p]) + 1 + Abs(S))
              /\ ProductNoise(p) \in Nat /\ ProductNoise(p) <= c
  <2> DEFINE v == Abs(secret[p])
             w == Abs(S)
  <2>1. v \in Nat /\ w \in Nat /\ v <= b /\ w <= 2 * b
    BY <1>8
  <2>2. ProductNoise(p) = (MaxNoise + MaxNoise) * v + MaxNoise * (1 + w)
    BY DEF ProductNoise
  <2> HIDE DEF v, w
  <2>3. (MaxNoise + MaxNoise) * v + MaxNoise * (1 + w) = MaxNoise * (2 * v + 1 + w)
    BY <1>2, <2>1
  <2>4. 2 * v + 1 + w \in Nat /\ 2 * v + 1 + w <= 8 * b + 2
    BY <2>1
  <2>5. MaxNoise * (2 * v + 1 + w) \in Nat /\ MaxNoise * (2 * v + 1 + w) <= c
    BY <1>10, <2>4
  <2> QED
    BY <2>2, <2>3, <2>5 DEF v, w
<1>12. MaxNoise <= c /\ MaxNoise + MaxNoise <= c
  <2>1. 2 \in Nat /\ 2 <= 8 * b + 2
    OBVIOUS
  <2>2. MaxNoise * 2 \in Nat /\ MaxNoise * 2 <= c
    BY <1>10, <2>1
  <2>3. MaxNoise + MaxNoise = MaxNoise * 2 /\ MaxNoise <= MaxNoise * 2
    BY <1>2
  <2> QED
    BY <1>2, <1>9, <2>2, <2>3
<1>13. ASSUME setting.parties = 2
       PROVE  2 * (ProductNoise(1) + ProductNoise(2)) < Q(0)
  <2> DEFINE v == Abs(secret[1])
             y == Abs(secret[2])
             w == Abs(S)
             m == 2 * v + 1 + w
             n == 2 * y + 1 + w
  <2>1. v \in Nat /\ y \in Nat /\ w \in Nat /\ v <= b /\ y <= b /\ w <= 2 * b
    BY <1>5, <1>8, <1>13
  <2>2. m \in Nat /\ n \in Nat /\ m + n \in Nat /\ m + n <= 8 * b + 2
    BY <2>1
  <2>3. ProductNoise(1) = MaxNoise * m /\ ProductNoise(2) = MaxNoise * n
    BY <1>5, <1>11, <1>13
  <2> HIDE DEF m, n
  <2>4. MaxNoise * m + MaxNoise * n = MaxNoise * (m + n)
    BY <1>2, <2>2
  <2>5. MaxNoise * (m + n) \in Nat /\ MaxNoise * (m + n) <= c
    BY <1>10, <2>2
  <2>6. ProductNoise(1) + ProductNoise(2) \in Nat /\ ProductNoise(1) + ProductNoise(2) <= c
    BY <2>3, <2>4, <2>5
  <2> QED
    BY <1>2, <1>9, <2>6
<1>14. ASSUME NEW p \in Parties
       PROVE  2 * ProductNoise(p) < Q(0) /\ 2 * Abs(secret[p]) < Q(0) /\ 2 * Abs(image[p]) < Q(0)
  BY <1>2, <1>8, <1>9, <1>11
<1>15. 2 * Abs(S) < Q(0) /\ 2 * Abs(Z) < Q(0)
  BY <1>2, <1>8
<1>16. 2 * MaxNoise < Q(0) /\ 2 * (MaxNoise + MaxNoise) < Q(0)
  BY <1>2, <1>9, <1>12
<1>17. ASSUME NEW u \in Secrets
       PROVE  2 * (MaxNoise * (Abs(u) + 1 + Abs(Z))) < Q(0)
  BY <1>1, <1>4, Room
<1> QED
  BY <1>7, <1>11, <1>13, <1>14, <1>15, <1>16, <1>17

\* There are no keys at first, and as many special primes as are needed.
LEMMA KeysStart == Init => KeyInv
<1> SUFFICES ASSUME Init PROVE KeyInv
  OBVIOUS
<1>1. Params
  BY Start DEF Inv
<1>2. Holders
  <2>1. secret \in [Parties -> Secrets] /\ (setting.use = "mult" => image = secret)
    BY DEF Init
  <2>2. image \in [Parties -> Secrets]
    BY <2>1 DEF Init
  <2> QED
    BY <2>1, <2>2 DEF Holders
<1>3. Primes
  <2>1. CASE Hybrid
    <3>1. setting \in Settings /\ Accepted(setting) /\ setting.technique = "HYBRID"
      BY <2>1 DEF Init, Hybrid
    <3>2. special = SpecialPrimes(setting) /\ SizeP \in Nat
      BY <1>1, <2>1 DEF Init, Params
    <3>3. \A n \in 1 .. NumSpecial(setting) : SpecialPrimes(setting)[n] \in Positive
      BY <3>1, SpecialPrimesFound
    <3>4. NumSpecial(setting) \in Nat
      BY <3>1, SpecialAssumption
    <3>5. DOMAIN special = 1 .. NumSpecial(setting)
      BY <3>2 DEF SpecialPrimes
    <3>6. SizeP = NumSpecial(setting)
      <4>1. special = [n \in 1 .. NumSpecial(setting) |-> special[n]]
        BY <3>2, <3>5 DEF SpecialPrimes
      <4>2. special \in Seq({special[n] : n \in 1 .. NumSpecial(setting)})
        BY <3>4, <4>1
      <4>3. DOMAIN special = 1 .. Len(special) /\ Len(special) \in Nat
        BY <4>2
      <4> QED
        BY <3>4, <3>5, <4>3 DEF SizeP
    <3> QED
      BY <3>2, <3>3, <3>6 DEF Primes
  <2>2. CASE ~Hybrid
    <3>1. SizeP = 0
      BY <1>1, <2>2 DEF Params
    <3> QED
      BY <3>1 DEF Primes
  <2> QED
    BY <2>1, <2>2
<1>4. SharesOK /\ JointOK /\ ProductsOK /\ EvalOK
  BY DEF Init, SharesOK, JointOK, ProductsOK, EvalOK
<1> QED
  BY <1>1, <1>2, <1>3, <1>4 DEF KeyInv, Known

\* The key of one party's multiplications takes the square of its secret to it.
LEMMA MultKeyMade ==
  ASSUME Known, setting.use = "mult", NEW a \in Draws(Uniforms), NEW e \in Draws(setting.noises)
  PROVE  UsableKey(KeySwitchGen(Squared(S), InQ(S), a, e))
<1> DEFINE key == KeySwitchGen(Squared(S), InQ(S), a, e)
<1>1. Params /\ Primes /\ Residues(a) /\ Noisy(e)
  BY DrawnElements DEF Known
<1>2. S \in Int /\ 2 * Abs(S) < Q(0) /\ 2 * MaxNoise < Q(0) /\ S * S \in Int
  BY RoomForKeys
<1>3. Stands(Squared(S), S * S)
  BY <1>1, <1>2, StandsSecret DEF Squared
<1>4. KeyOK(key, S * S, S) /\ key.noise = MaxNoise
  BY <1>1, <1>2, <1>3, GenOK
<1> QED
  BY <1>2, <1>4 DEF UsableKey, From, To

\* The key of a rotation takes the secret to its image.
LEMMA RotationKeyMade ==
  ASSUME Known, setting.use # "mult", NEW a \in Draws(Uniforms), NEW e \in Draws(setting.noises)
  PROVE  UsableKey(KeySwitchGen(InQ(S), InQ(Z), a, e))
<1> DEFINE key == KeySwitchGen(InQ(S), InQ(Z), a, e)
<1>1. Params /\ Primes /\ Residues(a) /\ Noisy(e)
  BY DrawnElements DEF Known
<1>2. S \in Int /\ Z \in Int /\ 2 * Abs(Z) < Q(0) /\ 2 * MaxNoise < Q(0)
  BY RoomForKeys
<1>3. Stands(InQ(S), S)
  BY <1>1, <1>2, StandsSecret
<1>4. KeyOK(key, S, Z) /\ key.noise = MaxNoise
  BY <1>1, <1>2, <1>3, GenOK
<1> QED
  BY <1>2, <1>4 DEF UsableKey, From, To

\* So does the key of a re-encryption, made with a public key.
LEMMA ReKeyMade ==
  ASSUME Known, setting.use # "mult", NEW a \in Draws(Uniforms), NEW u \in Secrets,
         NEW e \in Draws(setting.noises), NEW e0 \in Draws(setting.noises),
         NEW e1 \in Draws(setting.noises)
  PROVE  UsableKey(KeySwitchGenPublic(InQ(S), InQ(Z), a, e, u, e0, e1))
<1> DEFINE key == KeySwitchGenPublic(InQ(S), InQ(Z), a, e, u, e0, e1)
<1>1. Params /\ Primes /\ Residues(a) /\ Noisy(e) /\ Noisy(e0) /\ Noisy(e1)
  BY DrawnElements DEF Known
<1>2. S \in Int /\ Z \in Int /\ 2 * Abs(Z) < Q(0) /\ 2 * (MaxNoise * (Abs(u) + 1 + Abs(Z))) < Q(0)
  BY RoomForKeys
<1>3. Stands(InQ(S), S) /\ u \in Int
  BY <1>1, <1>2, StandsSecret, KeySwitchAssumption
<1>4. KeyOK(key, S, Z) /\ key.noise = MaxNoise * (Abs(u) + 1 + Abs(Z))
  BY <1>1, <1>2, <1>3, PublicOK
<1> QED
  BY <1>2, <1>4 DEF UsableKey, From, To

\* A party's share takes its secret to its image.
LEMMA ShareMade ==
  ASSUME Known, NEW p \in Parties, NEW a, Residues(a), NEW e \in Draws(setting.noises),
         NEW key, key = KeySwitchGen(InQ(secret[p]), InQ(image[p]), a, e)
  PROVE  Made(key, secret[p], image[p], MaxNoise) /\ key.a = a
<1>1. Params /\ Primes /\ Noisy(e)
  BY DrawnElements DEF Known
<1>2. secret[p] \in Int /\ image[p] \in Int /\ 2 * Abs(image[p]) < Q(0)
  BY RoomForKeys
<1>3. Stands(InQ(secret[p]), secret[p])
  BY <1>1, <1>2, StandsSecret
<1> QED
  BY <1>1, <1>2, <1>3, GenOK DEF Made

\* The sum of the shares takes the sum of the secrets to that of the images.
LEMMA JointMade ==
  ASSUME Known, SharesOK, shares[2] # None, NEW key, key = MultiAddEvalKeys(shares[1], shares[2])
  PROVE  setting.parties = 2 /\ Made(key, S, Z, MaxNoise + MaxNoise)
<1>1. Params /\ Primes /\ Holders
  BY DEF Known
<1>2. /\ setting.parties = 2
      /\ Made(shares[1], secret[1], image[1], MaxNoise) /\ Made(shares[2], secret[2], image[2], MaxNoise)
      /\ shares[2].a = shares[1].a
  BY DEF SharesOK
<1>3. 1 \in Parties /\ 2 \in Parties
  BY <1>2 DEF Parties
<1>4. secret[1] \in Int /\ secret[2] \in Int /\ image[1] \in Int /\ image[2] \in Int
  BY <1>3, RoomForKeys
<1>5. KeyOK(key, secret[1] + secret[2], image[1] + image[2]) /\ key.noise = MaxNoise + MaxNoise
  BY <1>1, <1>2, <1>4, AddOK DEF Made
<1>6. S = secret[1] + secret[2] /\ Z = image[1] + image[2]
  <2>1. secret \in [Parties -> Int] /\ image \in [Parties -> Int]
    BY <1>1, KeySwitchAssumption DEF Holders
  <2> QED
    BY <1>1, <1>2, <2>1, SumOfParties DEF S, Z
<1> QED
  BY <1>2, <1>5, <1>6 DEF Made

\* The joint key times a party's secret takes that times the sum to the sum.
LEMMA ProductMade ==
  ASSUME Known, JointOK, joint # None, setting.use = "mult", NEW p \in {1, 2},
         NEW e0 \in Draws(setting.noises), NEW e1 \in Draws(setting.noises),
         NEW key, key = MultiMultEvalKey(secret[p], joint, e0, e1)
  PROVE  setting.parties = 2 /\ Made(key, secret[p] * S, S, ProductNoise(p))
<1>1. Params /\ Primes /\ Noisy(e0) /\ Noisy(e1)
  BY DrawnElements DEF Known
<1>2. setting.parties = 2 /\ KeyOK(joint, S, Z) /\ joint.noise = MaxNoise + MaxNoise
  BY DEF JointOK, Made
<1>3. Z = S
  BY DEF Known, Holders, S, Z
<1>4. p \in Parties
  BY <1>2 DEF Parties
<1>5. S \in Int /\ secret[p] \in Int /\ 2 * Abs(secret[p]) < Q(0)
  BY <1>4, RoomForKeys
<1>6. /\ KeyOK(key, secret[p] * S, S)
      /\ key.noise = joint.noise * Abs(secret[p]) + MaxNoise * (1 + Abs(S))
  BY <1>1, <1>2, <1>3, <1>5, MultOK
<1> QED
  BY <1>2, <1>6 DEF Made, ProductNoise

\* The sum of the products takes the square of the sum of the secrets to it.
LEMMA ProductsAdded ==
  ASSUME Known, setting.parties = 2, setting.use = "mult", NEW k1, NEW k2,
         Made(k1, secret[1] * S, S, ProductNoise(1)), Made(k2, secret[2] * S, S, ProductNoise(2))
  PROVE  UsableKey(MultiAddEvalMultKeys(k1, k2))
<1> DEFINE x1 == secret[1] * S
           x2 == secret[2] * S
           key == MultiAddEvalMultKeys(k1, k2)
<1>1. Params /\ Primes /\ Holders
  BY DEF Known
<1>2. 1 \in Parties /\ 2 \in Parties
  BY DEF Parties
<1>3. /\ secret[1] \in Int /\ secret[2] \in Int /\ S \in Int
      /\ 2 * (ProductNoise(1) + ProductNoise(2)) < Q(0)
  BY <1>2, RoomForKeys
<1>4. /\ x1 \in Int /\ x2 \in Int /\ KeyOK(k1, x1, S) /\ KeyOK(k2, x2, S)
      /\ k1.noise = ProductNoise(1) /\ k2.noise = ProductNoise(2)
  BY <1>3 DEF Made
<1> HIDE DEF x1, x2
<1>5. KeyOK(key, x1 + x2, S) /\ key.noise = k1.noise + k2.noise
  <2>1. S \in Int /\ x1 \in Int /\ x2 \in Int /\ KeyOK(k1, x1, S) /\ KeyOK(k2, x2, S)
    BY <1>3, <1>4
  <2>2. Params /\ Primes
    BY <1>1
  <2> QED
    BY <2>1, <2>2, AddMultOK
<1>6. x1 + x2 = S * S
  <2>1. secret \in [Parties -> Int]
    BY <1>1, KeySwitchAssumption DEF Holders
  <2>2. S = secret[1] + secret[2]
    BY <1>1, <2>1, SumOfParties DEF S
  <2> QED
    BY <1>3, <2>2 DEF x1, x2
<1> HIDE DEF key
<1>7. KeyOK(key, S * S, S) /\ 2 * key.noise < Q(0)
  BY <1>3, <1>4, <1>5, <1>6
<1> QED
  BY <1>7 DEF UsableKey, From, To, key

\* It is made when both parties' products are there.
LEMMA JointMultKeyMade ==
  ASSUME Known, ProductsOK, products[1] # None, products[2] # None
  PROVE  UsableKey(MultiAddEvalMultKeys(products[1], products[2]))
<1>1. /\ setting.parties = 2 /\ setting.use = "mult"
      /\ Made(products[1], secret[1] * S, S, ProductNoise(1))
      /\ Made(products[2], secret[2] * S, S, ProductNoise(2))
  BY DEF ProductsOK
<1> QED
  BY <1>1, ProductsAdded

\* Every step keeps them what they are.
LEMMA StepKeepsKeys == KeyInv /\ [Next]_vars => KeyInv'
<1> SUFFICES ASSUME KeyInv, [Next]_vars PROVE KeyInv'
  OBVIOUS
<1>0. Known /\ SharesOK /\ JointOK /\ ProductsOK /\ EvalOK
  BY DEF KeyInv
<1> DEFINE keep == Known' /\ (UNCHANGED shares => SharesOK') /\ (UNCHANGED joint => JointOK')
                   /\ (UNCHANGED products => ProductsOK') /\ (UNCHANGED <<evalKey, ct>> => EvalOK')
                   /\ (\A k, x, y, c : Made(k, x, y, c)' <=> Made(k, x, y, c))
                   /\ (\A k : UsableKey(k)' <=> UsableKey(k))
<1>k. ASSUME UNCHANGED parameters PROVE keep
  BY <1>0, <1>k, KeyInvFrame
<1>e. ASSUME UNCHANGED parameters, UNCHANGED <<shares, joint, products>>, UsableKey(evalKey')
      PROVE  KeyInv'
  <2>1. UsableKey(evalKey)'
    BY <1>k, <1>e
  <2> QED
    BY <1>0, <1>k, <1>e, <2>1 DEF KeyInv, EvalOK
<1>1. ASSUME EvalMultKeyGen PROVE KeyInv'
  <2>1. UNCHANGED parameters /\ UNCHANGED <<shares, joint, products>>
    BY <1>1 DEF EvalMultKeyGen
  <2>2. UsableKey(evalKey')
    BY <1>0, <1>1, MultKeyMade DEF EvalMultKeyGen
  <2> QED
    BY <1>e, <2>1, <2>2
<1>2. ASSUME EvalAutomorphismKeyGen PROVE KeyInv'
  <2>1. UNCHANGED parameters /\ UNCHANGED <<shares, joint, products>>
    BY <1>2 DEF EvalAutomorphismKeyGen
  <2>2. UsableKey(evalKey')
    BY <1>0, <1>2, RotationKeyMade DEF EvalAutomorphismKeyGen
  <2> QED
    BY <1>e, <2>1, <2>2
<1>3. ASSUME ReKeyGen PROVE KeyInv'
  <2>1. UNCHANGED parameters /\ UNCHANGED <<shares, joint, products>>
    BY <1>3 DEF ReKeyGen
  <2>2. UsableKey(evalKey')
    BY <1>0, <1>3, ReKeyMade DEF ReKeyGen
  <2> QED
    BY <1>e, <2>1, <2>2
<1>4. ASSUME NEW p \in {1, 2}, MultiKeySwitchGen(p) PROVE KeyInv'
  <2>1. /\ UNCHANGED parameters /\ UNCHANGED <<joint, products, evalKey, ct>>
        /\ setting.parties = 2 /\ shares[p] = None /\ (p = 2 => shares[1] # None)
    BY <1>4 DEF MultiKeySwitchGen
  <2>2. PICK a \in (IF p = 1 THEN Draws(Uniforms) ELSE {shares[1].a}), e \in Draws(setting.noises) :
          shares' = [shares EXCEPT ![p] = KeySwitchGen(InQ(secret[p]), InQ(image[p]), a, e)]
    BY <1>4 DEF MultiKeySwitchGen
  <2> DEFINE key == KeySwitchGen(InQ(secret[p]), InQ(image[p]), a, e)
  <2>3. Residues(a)
    <3>1. CASE p = 1
      BY <1>0, <2>2, <3>1, DrawnElements DEF Known
    <3>2. CASE p = 2
      <4>1. a = shares[1].a /\ KeyOK(shares[1], secret[1], image[1])
        BY <1>0, <2>1, <2>2, <3>2 DEF SharesOK, Made
      <4> QED
        BY <4>1, KeyResidues
    <3> QED
      BY <3>1, <3>2
  <2>4. Made(key, secret[p], image[p], MaxNoise) /\ key.a = a
    <3>1. p \in Parties
      BY <2>1 DEF Parties
    <3> QED
      BY <1>0, <2>3, <3>1, ShareMade
  <2>5. /\ shares = [r \in {1, 2} |-> shares[r]]
        /\ shares' = [shares EXCEPT ![p] = key]
    BY <1>0, <2>2 DEF SharesOK
  <2> HIDE DEF key
  <2>6. /\ shares' = [r \in {1, 2} |-> shares'[r]] /\ shares'[p] = key
        /\ \A r \in {1, 2} : r # p => shares'[r] = shares[r]
    BY <2>5, Zenon
  <2>7. ASSUME NEW r \in {1, 2}, shares'[r] # None
        PROVE  Made(shares'[r], secret[r], image[r], MaxNoise)
    <3>1. CASE r = p
      BY <2>4, <2>6, <3>1
    <3>2. CASE r # p
      BY <1>0, <2>6, <2>7, <3>2 DEF SharesOK
    <3> QED
      BY <3>1, <3>2
  <2>8. shares'[2] # None => shares'[1] # None /\ shares'[2].a = shares'[1].a
    <3>1. CASE p = 1
      <4>1. shares'[2] = shares[2] /\ shares[1] = None
        BY <2>1, <2>6, <3>1
      <4>2. shares[2] = None
        BY <1>0, <4>1 DEF SharesOK
      <4> QED
        BY <4>1, <4>2
    <3>2. CASE p = 2
      <4>1. shares'[1] = shares[1] /\ shares[1] # None /\ shares'[2] = key
        BY <2>1, <2>6, <3>2
      <4>2. key.a = shares[1].a
        BY <2>2, <2>4, <3>2
      <4> QED
        BY <4>1, <4>2
    <3> QED
      BY <3>1, <3>2
  <2>9. SharesOK'
    <3>1. setting' = setting /\ secret' = secret /\ image' = image
      BY <2>1 DEF parameters
    <3>2. \A r \in {1, 2} : shares'[r] # None => Made(shares[r], secret[r], image[r], MaxNoise)'
      BY <1>k, <2>1, <2>7, <3>1
    <3> QED
      BY <2>1, <2>6, <2>8, <3>1, <3>2 DEF SharesOK
  <2> QED
    BY <1>0, <1>k, <2>1, <2>9 DEF KeyInv
<1>5. ASSUME AddShares PROVE KeyInv'
  <2>1. /\ UNCHANGED parameters /\ UNCHANGED <<shares, products, ct>>
        /\ shares[2] # None /\ joint' = MultiAddEvalKeys(shares[1], shares[2])
        /\ evalKey' = IF setting.use = "rotate" THEN joint' ELSE evalKey
    BY <1>5 DEF AddShares
  <2>2. setting.parties = 2 /\ Made(joint', S, Z, MaxNoise + MaxNoise)
    BY <1>0, <2>1, JointMade
  <2>3. JointOK'
    <3>1. Made(joint, S, Z, MaxNoise + MaxNoise)'
      <4>1. S' = S /\ Z' = Z
        BY <2>1, KeyFrame
      <4> QED
        BY <1>k, <2>1, <2>2, <4>1
    <3>2. setting' = setting
      BY <2>1 DEF parameters
    <3> QED
      BY <2>2, <3>1, <3>2 DEF JointOK
  <2>4. EvalOK'
    <3>1. CASE setting.use = "rotate"
      <4>1. KeyOK(joint', S, Z) /\ joint'.noise = MaxNoise + MaxNoise /\ evalKey' = joint'
        BY <2>1, <2>2, <3>1 DEF Made
      <4>2. 2 * (MaxNoise + MaxNoise) < Q(0)
        BY <1>0, RoomForKeys
      <4>3. UsableKey(evalKey')
        BY <3>1, <4>1, <4>2 DEF UsableKey, From, To
      <4>4. UsableKey(evalKey)'
        BY <1>k, <2>1, <4>3
      <4> QED
        BY <4>4 DEF EvalOK
    <3>2. CASE setting.use # "rotate"
      BY <1>0, <1>k, <2>1, <3>2
    <3> QED
      BY <3>1, <3>2
  <2> QED
    BY <1>0, <1>k, <2>1, <2>3, <2>4 DEF KeyInv
<1>6. ASSUME NEW p \in {1, 2}, MultiplyByShare(p) PROVE KeyInv'
  <2>1. /\ UNCHANGED parameters /\ UNCHANGED <<shares, joint, evalKey, ct>>
        /\ setting.use = "mult" /\ joint # None
    BY <1>6 DEF MultiplyByShare
  <2>2. PICK e0 \in Draws(setting.noises), e1 \in Draws(setting.noises) :
          products' = [products EXCEPT ![p] = MultiMultEvalKey(secret[p], joint, e0, e1)]
    BY <1>6 DEF MultiplyByShare
  <2> DEFINE key == MultiMultEvalKey(secret[p], joint, e0, e1)
  <2>3. setting.parties = 2 /\ Made(key, secret[p] * S, S, ProductNoise(p))
    BY <1>0, <2>1, ProductMade
  <2>4. products = [r \in {1, 2} |-> products[r]] /\ products' = [products EXCEPT ![p] = key]
    BY <1>0, <2>2 DEF ProductsOK
  <2> HIDE DEF key
  <2>5. /\ products' = [r \in {1, 2} |-> products'[r]] /\ products'[p] = key
        /\ \A r \in {1, 2} : r # p => products'[r] = products[r]
    BY <2>4, Zenon
  <2>6. ASSUME NEW r \in {1, 2}, products'[r] # None
        PROVE  Made(products'[r], secret[r] * S, S, ProductNoise(r))
    <3>1. CASE r = p
      BY <2>3, <2>5, <3>1
    <3>2. CASE r # p
      BY <1>0, <2>5, <2>6, <3>2 DEF ProductsOK
    <3> QED
      BY <3>1, <3>2
  <2>7. ProductsOK'
    <3>1. setting' = setting /\ secret' = secret /\ S' = S /\ \A r : ProductNoise(r)' = ProductNoise(r)
      BY <2>1, KeyFrame DEF ProductNoise
    <3>2. \A r \in {1, 2} : products'[r] # None => Made(products[r], secret[r] * S, S, ProductNoise(r))'
      BY <1>k, <2>1, <2>6, <3>1
    <3> QED
      BY <2>1, <2>3, <2>5, <3>1, <3>2 DEF ProductsOK
  <2> QED
    BY <1>0, <1>k, <2>1, <2>7 DEF KeyInv
<1>7. ASSUME AddProducts PROVE KeyInv'
  <2>1. /\ UNCHANGED parameters /\ UNCHANGED <<shares, joint, products>>
        /\ products[1] # None /\ products[2] # None
        /\ evalKey' = MultiAddEvalMultKeys(products[1], products[2])
    BY <1>7 DEF AddProducts
  <2>2. UsableKey(evalKey')
    BY <1>0, <2>1, JointMultKeyMade
  <2> QED
    BY <1>e, <2>1, <2>2
<1>8. ASSUME \/ Encrypt \/ EvalSquare \/ Relinearize \/ KeySwitchInPlace
             \/ EvalFastRotationPrecompute \/ EvalFastRotation
             \/ LevelReduce \/ ModReduceInPlace \/ UNCHANGED vars
      PROVE  KeyInv'
  <2>1. UNCHANGED parameters /\ UNCHANGED keyVars
    BY <1>8 DEF Encrypt, EvalSquare, Relinearize, KeySwitchInPlace, Switched,
                EvalFastRotationPrecompute, EvalFastRotation, LevelReduce, ModReduceInPlace, vars
  <2>2. UNCHANGED <<shares, joint, products, evalKey>>
    BY <2>1 DEF keyVars
  <2>3. EvalOK'
    <3>1. evalKey # None \/ ct # None \/ UNCHANGED vars
      BY <1>8 DEF Encrypt, EvalSquare, Relinearize, KeySwitchInPlace, Switchable,
                  EvalFastRotationPrecompute, EvalFastRotation, LevelReduce, ModReduceInPlace
    <3>2. CASE evalKey # None \/ ct # None
      <4>1. UsableKey(evalKey')
        BY <1>0, <2>2, <3>2 DEF EvalOK
      <4> QED
        BY <1>k, <2>1, <4>1 DEF EvalOK
    <3>3. CASE UNCHANGED vars
      <4>1. UNCHANGED <<evalKey, ct>>
        BY <3>3 DEF vars, keyVars
      <4> QED
        BY <1>0, <1>k, <2>1, <4>1
    <3> QED
      BY <3>1, <3>2, <3>3
  <2> QED
    BY <1>0, <1>k, <2>1, <2>2, <2>3 DEF KeyInv
<1> QED
  BY <1>1, <1>2, <1>3, <1>4, <1>5, <1>6, <1>7, <1>8 DEF Next

\* Every key is made for its secrets: shares, joint keys, products and keys in
\* use decrypt to what they are meant to.
LEMMA KeysAreRight == KeyInv => KeysSwitch
<1> SUFFICES ASSUME KeyInv PROVE KeysSwitch
  OBVIOUS
<1>0. Known /\ SharesOK /\ JointOK /\ ProductsOK /\ EvalOK /\ Params /\ Primes
  BY DEF KeyInv, Known
<1>1. /\ S \in Int /\ Z \in Int /\ 2 * Abs(S) < Q(0) /\ 2 * Abs(Z) < Q(0)
      /\ 2 * MaxNoise < Q(0) /\ 2 * (MaxNoise + MaxNoise) < Q(0)
      /\ \A p \in Parties : /\ secret[p] \in Int /\ image[p] \in Int /\ 2 * Abs(image[p]) < Q(0)
                            /\ 2 * ProductNoise(p) < Q(0)
  BY <1>0, RoomForKeys
<1>2. Stands(InQ(S), S) /\ Stands(Squared(S), S * S) /\ S * S \in Int
  BY <1>0, <1>1, StandsSecret DEF Squared
<1>3. \A p \in Parties : p \in {1, 2}
  BY <1>0, KeySwitchAssumption DEF Params, Parties
<1>4. ASSUME NEW p \in Parties, shares[p] # None
      PROVE  Switches(shares[p], InQ(secret[p]), InQ(image[p]))
  <2>1. KeyOK(shares[p], secret[p], image[p]) /\ shares[p].noise = MaxNoise
    BY <1>0, <1>3, <1>4 DEF SharesOK, Made
  <2>2. Stands(InQ(secret[p]), secret[p])
    BY <1>0, <1>1, StandsSecret
  <2>3. secret[p] \in Int /\ image[p] \in Int /\ 2 * Abs(image[p]) < Q(0) /\ 2 * shares[p].noise < Q(0)
    BY <1>1, <2>1
  <2> QED
    BY <1>0, <2>1, <2>2, <2>3, KeySwitches
<1>5. ASSUME joint # None PROVE Switches(joint, InQ(S), InQ(Z))
  <2>1. KeyOK(joint, S, Z) /\ 2 * joint.noise < Q(0)
    BY <1>0, <1>1, <1>5 DEF JointOK, Made
  <2> QED
    BY <1>0, <1>1, <1>2, <2>1, KeySwitches
<1>6. ASSUME NEW p \in Parties, products[p] # None
      PROVE  Switches(products[p], Times(InQ(secret[p]), InQ(S)), InQ(S))
  <2>1. KeyOK(products[p], secret[p] * S, S) /\ products[p].noise = ProductNoise(p)
    BY <1>0, <1>3, <1>6 DEF ProductsOK, Made
  <2>2. 2 * products[p].noise < Q(0) /\ secret[p] \in Int
    BY <1>1, <2>1
  <2>3. Stands(Times(InQ(secret[p]), InQ(S)), secret[p] * S) /\ secret[p] * S \in Int
    <3> DEFINE x == secret[p]
    <3>1. x \in Int /\ S \in Int
      BY <1>1, <2>2
    <3> HIDE DEF x
    <3>2. Stands(Times(InQ(x), InQ(S)), x * S) /\ x * S \in Int
      BY <1>0, <3>1, StandsSecret
    <3> QED
      BY <3>2 DEF x
  <2> QED
    BY <1>0, <1>1, <2>1, <2>2, <2>3, KeySwitches
<1>7. ASSUME evalKey # None
      PROVE  IF setting.use = "mult" THEN Switches(evalKey, Squared(S), InQ(S))
             ELSE Switches(evalKey, InQ(S), InQ(Z))
  <2>1. KeyOK(evalKey, From, To) /\ 2 * evalKey.noise < Q(0)
    BY <1>0, <1>7 DEF EvalOK, UsableKey
  <2>2. CASE setting.use = "mult"
    <3>1. KeyOK(evalKey, S * S, S)
      BY <2>1, <2>2 DEF From, To
    <3>2. Switches(evalKey, Squared(S), InQ(S))
      BY <1>0, <1>1, <1>2, <2>1, <3>1, KeySwitches
    <3> QED
      BY <2>2, <3>2
  <2>3. CASE setting.use # "mult"
    <3>1. KeyOK(evalKey, S, Z)
      BY <2>1, <2>3 DEF From, To
    <3>2. Switches(evalKey, InQ(S), InQ(Z))
      BY <1>0, <1>1, <1>2, <2>1, <3>1, KeySwitches
    <3> QED
      BY <2>3, <3>2
  <2> QED
    BY <2>2, <2>3
<1> QED
  BY <1>4, <1>5, <1>6, <1>7 DEF KeysSwitch

\* Whatever the moduli, the digits and the draws of the generators, a key made
\* by one party or by two that add and multiply their shares decrypts, under
\* the secret it switches to, to the multiple of the secret it switches from
\* that its digits need, with the same small noise in all towers.
THEOREM KeysAlwaysSwitch == Spec => []KeysSwitch
<1> QED BY KeysStart, StepKeepsKeys, KeysAreRight, PTL DEF Spec

-----------------------------------------------------------------------------
(* What the noise of a ciphertext is made of *)

\* The largest integer a digit may be is a natural number.
LEMMA MaxDigitNat ==
  ASSUME Params, Primes, NEW l \in 1 .. SizeQ, NEW n \in 0 .. (NumDigits(l) - 1)
  PROVE  MaxDigit(n, l) \in Nat
<1>1. SizeQ \in Nat /\ l \in Nat /\ l <= SizeQ
  BY Sizes
<1>2. CASE Hybrid
  <2> DEFINE size == SizePart(l, n)
             part == ParamsPartQ(n, size)
             f == [i \in DOMAIN part |-> (part[i] - 1) * Hat(part, i)]
  <2>1. /\ Alpha * n \in Nat /\ size \in Nat /\ Alpha * n + size <= l
    BY <1>2, PartsOfTowers DEF NumDigits
  <2>2. DOMAIN part = 0 .. (size - 1) /\ \A i \in 0 .. (size - 1) : part[i] = Q(Alpha * n + i)
    BY DEF ParamsPartQ
  <2> HIDE DEF size, part
  <2>3. \A i \in DOMAIN part : part[i] \in Nat /\ part[i] > 1
    <3>1. \A i \in 0 .. (size - 1) : Alpha * n + i \in 0 .. (SizeQ - 1)
      BY <1>1, <2>1
    <3> QED
      BY <2>2, <3>1, KeyTowers
  <2>4. IsFiniteSet(DOMAIN part)
    <3>1. 0 \in Int /\ size - 1 \in Int
      BY <2>1
    <3> QED
      BY <2>2, <3>1, FS_Interval
  <2>5. ASSUME NEW i \in DOMAIN part PROVE Hat(part, i) \in Positive
    <3> DEFINE g == [k \in DOMAIN part \ {i} |-> part[k]]
    <3>1. DOMAIN g = DOMAIN part \ {i} /\ \A k \in DOMAIN g : g[k] \in Positive
      BY <2>3 DEF Positive
    <3>2. IsFiniteSet(DOMAIN g)
      BY <2>4, <3>1, FS_Subset
    <3>3. Hat(part, i) = Product(g)
      BY DEF Hat
    <3> HIDE DEF g
    <3> QED
      BY <3>1, <3>2, <3>3, ProductPositive
  <2>6. DOMAIN f = DOMAIN part /\ \A i \in DOMAIN f : f[i] \in Nat
    <3>1. ASSUME NEW i \in DOMAIN part PROVE (part[i] - 1) * Hat(part, i) \in Nat
      <4>1. part[i] - 1 \in Nat /\ Hat(part, i) \in Nat
        BY <2>3, <2>5 DEF Positive
      <4> QED
        BY <4>1
    <3> QED
      BY <3>1
  <2>7. MaxDigit(n, l) = SumFunction(f)
    BY <1>2 DEF MaxDigit, part, size
  <2> HIDE DEF f
  <2> QED
    BY <2>4, <2>6, <2>7, SumNat
<1>3. CASE ~Hybrid
  <2> DEFINE half == Q(TowerOf(n)) \div 2
             d == setting.digits
  <2>1. TowerOf(n) \in 0 .. (SizeQ - 1)
    BY <1>3, WindowHasTower DEF NumDigits
  <2>2. Q(TowerOf(n)) \in Nat
    BY <2>1, KeyTowers
  <2>3. half \in Nat
    <3>1. 2 \in Nat \ {0}
      OBVIOUS
    <3> QED
      BY <2>2, <3>1, Division
  <2>4. 2^d - 1 \in Nat
    <3>1. setting \in Settings /\ d \in Nat
      BY Sizes DEF Params
    <3>2. 2^d \in Int /\ 2^d > 0
      BY <3>1, BitsAssumption
    <3> QED
      BY <3>2
  <2>5. MaxDigit(n, l) = half \/ MaxDigit(n, l) = 2^d - 1
    BY <1>3 DEF MaxDigit
  <2> QED
    BY <2>3, <2>4, <2>5
<1> QED
  BY <1>2, <1>3

\* So is what a key switch adds to the noise.
LEMMA SwitchNoiseNat ==
  ASSUME Known, UsableKey(evalKey), NEW l \in 1 .. SizeQ, NEW to \in Int
  PROVE  SwitchNoise(l, to) \in Nat
<1>1. Params /\ Primes
  BY DEF Known
<1> DEFINE f == [n \in 0 .. (NumDigits(l) - 1) |-> MaxDigit(n, l)]
           sigma == SumFunction(f)
           sum == T * evalKey.noise * sigma
           rest == T * SizeP * ModulusP * (1 + Abs(to))
<1>2. sigma \in Nat
  <2>1. DOMAIN f = 0 .. (NumDigits(l) - 1) /\ \A n \in DOMAIN f : f[n] \in Nat
    BY <1>1, MaxDigitNat
  <2>2. IsFiniteSet(DOMAIN f)
    <3>1. 0 \in Int /\ NumDigits(l) - 1 \in Int
      BY <1>1, DigitsCounted
    <3> QED
      BY <2>1, <3>1, FS_Interval
  <2> HIDE DEF f
  <2> QED
    BY <2>1, <2>2, SumNat
<1>3. T \in Nat /\ evalKey.noise \in Nat /\ SizeP \in Nat
  BY <1>1, PlaintextInverse DEF UsableKey, KeyOK, Params
<1>4. ModulusP \in Nat \ {0} /\ Abs(to) \in Nat
  BY <1>1, ModulusPPositive DEF Positive, Abs
<1>5. SwitchNoise(l, to) = IF Hybrid THEN (sum + rest) \div ModulusP ELSE sum
  BY DEF SwitchNoise
<1> HIDE DEF sigma
<1>6. sum \in Nat
  <2>1. T * evalKey.noise \in Nat
    BY <1>3
  <2> QED
    BY <1>2, <2>1
<1>7. rest \in Nat
  <2>1. T * SizeP \in Nat
    BY <1>3
  <2>2. T * SizeP * ModulusP \in Nat
    BY <1>4, <2>1
  <2>3. 1 + Abs(to) \in Nat
    BY <1>4
  <2> QED
    BY <2>2, <2>3
<1> HIDE DEF sum, rest
<1>8. (sum + rest) \div ModulusP \in Nat
  <2>1. sum + rest \in Nat
    BY <1>6, <1>7
  <2> QED
    BY <1>4, <2>1, Division
<1> QED
  BY <1>5, <1>6, <1>8

\* And what is left of it when a tower is dropped.
LEMMA RescaledNat ==
  ASSUME Known, ct # None, noise \in Nat, Level \in 1 .. SizeQ
  PROVE  Rescaled \in Nat
<1> DEFINE q == Q(Level - 1)
           s == SecretOf(ct)
           w == Weight(ct)
<1>1. Params /\ Primes
  BY DEF Known
<1>2. q \in Nat \ {0}
  <2>1. Level - 1 \in 0 .. (SizeQ - 1)
    BY <1>1, Sizes
  <2> QED
    BY <1>1, <2>1, KeyTowers
<1>3. s \in Int
  BY RoomForKeys DEF SecretOf
<1>4. w = 1 + Abs(s) + (IF Len(ct.elems) = 3 THEN s * s ELSE 0)
  BY DEF Weight
<1> HIDE DEF q, s, w
<1>5. s * s \in Nat /\ Abs(s) \in Nat
  <2>1. CASE s >= 0
    BY <1>3, <2>1 DEF Abs
  <2>2. CASE s < 0
    <3>1. -s \in Nat
      BY <1>3, <2>2
    <3>2. (-s) * (-s) \in Nat /\ s * s = (-s) * (-s)
      BY <1>3, <3>1
    <3> QED
      BY <1>3, <2>2, <3>2 DEF Abs
  <2> QED
    BY <1>3, <2>1, <2>2
<1>6. w \in Nat
  BY <1>4, <1>5
<1>7. T * (q \div 2) * w \in Nat
  <2>1. 2 \in Nat \ {0}
    OBVIOUS
  <2>2. q \div 2 \in Nat
    BY <1>2, <2>1, Division
  <2>3. T \in Nat
    BY <1>1, PlaintextInverse
  <2>4. T * (q \div 2) \in Nat
    BY <2>2, <2>3
  <2> QED
    BY <1>6, <2>4
<1> DEFINE x == noise + T * (q \div 2) * w
<1>8. x \in Nat
  BY <1>7
<1>9. Rescaled = x \div q
  BY DEF Rescaled, q, w
<1> HIDE DEF x
<1> QED
  BY <1>2, <1>8, <1>9, Division

-----------------------------------------------------------------------------
(* Scaling factors *)

\* A reduced factor, times the modulus, is the factor.
LEMMA ReducedFactorIs ==
  ASSUME Params, NEW i \in 0 .. (SizeQ - 1), NEW f \in 1 .. (T - 1), Unit(f, T)
  PROVE  /\ ReducedFactor(f, i) \in 1 .. (T - 1) /\ Unit(ReducedFactor(f, i), T)
         /\ Same(Q(i) * ReducedFactor(f, i), f, T)
<1> DEFINE q == Q(i)
<1>1. /\ T \in Nat /\ T > 1 /\ T > 0 /\ q \in Nat /\ Unit(q, T) /\ setting \in Settings
      /\ T = setting.t /\ i + 1 \in DOMAIN setting.q /\ q = setting.q[i + 1] /\ f \in Int
  BY ModuliInverses
<1> HIDE DEF q
<1>2. CASE Flexible
  <2> DEFINE y == ModInverse(q % T, T)
             g == (f * y) % T
  <2>1. y \in 1 .. (T - 1) /\ Same(q * y, 1, T)
    BY <1>1, InverseIs
  <2>2. y \in Int /\ ReducedFactor(f, i) = g
    BY <1>2, <2>1 DEF ReducedFactor, q
  <2> HIDE DEF y
  <2>3. Same(y * q, 1, T)
    <3>1. y * q = q * y
      BY <1>1, <2>2
    <3> QED
      BY <2>1, <3>1
  <2>4. Unit(f * y, T)
    <3>1. Unit(y, T)
      BY <1>1, <2>2, <2>3 DEF Unit
    <3> QED
      BY <1>1, <3>1, ProductIsUnit
  <2>5. g \in 1 .. (T - 1) /\ Unit(g, T) /\ Same(g, f * y, T)
    BY <1>1, <2>4, UnitRemainder
  <2> HIDE DEF g
  <2>12. Same(q, q, T)
    <3>1. T \in Nat /\ T > 0 /\ q \in Int
      BY <1>1
    <3> QED
      BY <3>1, SameSelf
  <2>6. Same(q, q, T) /\ Same(f, f, T)
    BY <1>1, <2>12, SameSelf
  <2>7. Same(q * g, q * (f * y), T)
    BY <1>1, <2>5, <2>6, SameArith
  <2>8. q * (f * y) = f * (q * y)
    BY <1>1, <2>2
  <2>9. Same(f * (q * y), f * 1, T)
    BY <1>1, <2>1, <2>6, SameArith
  <2>10. f * 1 = f
    BY <1>1
  <2>11. Same(q * g, f, T)
    BY <1>1, <2>7, <2>8, <2>9, <2>10, SameTrans
  <2> QED
    BY <2>2, <2>5, <2>11 DEF q
<1>3. CASE ~Flexible
  <2>1. (q - 1) % T = 0
    BY <1>1, <1>3, ModulusAssumption DEF Flexible
  <2>2. PICK k \in Int : q - 1 = ((q - 1) % T) + T * k
    <3>1. q - 1 \in Int
      BY <1>1
    <3> QED
      BY <1>1, <3>1, ModSplit
  <2>3. q = 1 + T * k
    BY <1>1, <2>1, <2>2
  <2>4. Same(q, 1, T) /\ Same(f, f, T)
    BY <1>1, <2>3, SameSelf DEF Same
  <2>5. Same(q * f, 1 * f, T)
    BY <1>1, <2>4, SameArith
  <2>6. 1 * f = f /\ ReducedFactor(f, i) = f
    BY <1>1, <1>3 DEF ReducedFactor
  <2> QED
    BY <2>5, <2>6 DEF q
<1> QED
  BY <1>2, <1>3

\* Fresh factors have inverses.
LEMMA FreshFactorIs ==
  ASSUME Params
  PROVE  FreshFactor \in 1 .. (T - 1) /\ Unit(FreshFactor, T)
<1>1. /\ setting \in Settings /\ T \in Nat /\ T > 1 /\ T > 0 /\ SizeQ \in Nat \ {0}
      /\ \A i \in 0 .. (SizeQ - 1) : Q(i) \in Nat /\ Unit(Q(i), T)
  BY Sizes, ModuliInverses
<1>2. setting.scaling \in {"FIXED", "FLEXIBLEAUTO", "FLEXIBLEAUTOEXT"}
  BY <1>1, KeySwitchAssumption
<1>3. CASE setting.scaling = "FIXED"
  <2>1. T \in Nat /\ T > 0 /\ T > 1 /\ 1 * 1 = 1
    BY <1>1
  <2>2. Same(1 * 1, 1, T)
    BY <2>1, SameSelf
  <2> QED
    BY <1>3, <2>1, <2>2 DEF FreshFactor, Unit
<1>4. CASE setting.scaling = "FLEXIBLEAUTO"
  <2>1. SizeQ - 1 \in 0 .. (SizeQ - 1)
    BY <1>1
  <2> QED
    BY <1>1, <1>4, <2>1, UnitRemainder DEF FreshFactor
<1>5. CASE setting.scaling = "FLEXIBLEAUTOEXT"
  <2> DEFINE a == Q(SizeQ - 1) % T
             b == Q(SizeQ - 2) % T
  <2>1. SizeQ > 1
    BY <1>1, <1>5, ModulusAssumption DEF SizeQ
  <2>2. SizeQ - 1 \in 0 .. (SizeQ - 1) /\ SizeQ - 2 \in 0 .. (SizeQ - 1)
    BY <1>1, <2>1
  <2>3. Unit(a, T) /\ Unit(b, T)
    BY <1>1, <2>2, UnitRemainder
  <2>4. FreshFactor = (a * b) % T
    BY <1>5 DEF FreshFactor
  <2> HIDE DEF a, b
  <2>5. Unit(a * b, T)
    BY <1>1, <2>3, ProductIsUnit
  <2> QED
    BY <1>1, <2>4, <2>5, UnitRemainder
<1> QED
  BY <1>2, <1>3, <1>4, <1>5

\* A factor has an inverse.
ScaleInv == scale \in 1 .. (T - 1) /\ Unit(scale, T)

\* Every step keeps that.
LEMMA StepKeepsScale ==
  ASSUME Inv, ScaleInv, [Next]_vars
  PROVE  ScaleInv'
<1>1. Params /\ Basis
  BY DEF Inv
<1>2. setting' = setting
  BY DEF Next, EvalMultKeyGen, EvalAutomorphismKeyGen, ReKeyGen, MultiKeySwitchGen, MultiplyByShare,
         AddShares, AddProducts, Encrypt, EvalSquare, Relinearize, KeySwitchInPlace, Switched,
         EvalFastRotationPrecompute, EvalFastRotation, LevelReduce, ModReduceInPlace, vars, parameters
<1>3. T' = T /\ T \in Nat /\ T > 1 /\ T > 0
  BY <1>1, <1>2, ModuliInverses DEF T
<1>4. \/ scale' = scale
      \/ scale' = FreshFactor
      \/ scale' = (scale * scale) % T
      \/ ct # None /\ Level > 1 /\ scale' = ReducedFactor(scale, Level - 1)
  BY DEF Next, EvalMultKeyGen, EvalAutomorphismKeyGen, ReKeyGen, MultiKeySwitchGen, MultiplyByShare,
         AddShares, AddProducts, Encrypt, EvalSquare, Relinearize, KeySwitchInPlace, Switched,
         EvalFastRotationPrecompute, EvalFastRotation, LevelReduce, ModReduceInPlace, vars
<1>5. scale' \in 1 .. (T - 1) /\ Unit(scale', T)
  <2>1. Unit(scale * scale, T)
    BY <1>3, ProductIsUnit DEF ScaleInv
  <2>2. CASE ct # None /\ Level > 1 /\ scale' = ReducedFactor(scale, Level - 1)
    <3>1. Level \in 1 .. SizeQ /\ SizeQ \in Nat
      BY <1>1, <2>2, LevelIsSize, Sizes
    <3>2. Level - 1 \in 0 .. (SizeQ - 1)
      BY <3>1
    <3> QED
      BY <1>1, <2>2, <3>2, ReducedFactorIs DEF ScaleInv
  <2>3. (scale * scale) % T \in 1 .. (T - 1) /\ Unit((scale * scale) % T, T)
    BY <1>3, <2>1, UnitRemainder
  <2> QED
    BY <1>1, <1>4, <2>2, <2>3, FreshFactorIs DEF ScaleInv
<1> QED
  BY <1>3, <1>5 DEF ScaleInv

\* The factor of no reduction is one.
LEMMA ScaleStart == Init => ScaleInv
<1> SUFFICES ASSUME Init PROVE ScaleInv
  OBVIOUS
<1>1. T \in Nat /\ T > 1 /\ T > 0
  BY Start, ModuliInverses DEF Inv
<1>2. Same(1 * 1, 1, T)
  BY <1>1, SameSelf
<1> QED
  BY <1>1, <1>2 DEF Init, ScaleInv, Unit

\* The factors a decryption goes through, from the one of the ciphertext.
LEMMA FactorsFollow ==
  ASSUME Params, NEW l \in 1 .. SizeQ, NEW f \in 1 .. (T - 1), Unit(f, T),
         NEW g, g = CHOOSE u : u = [n \in 1 .. l |-> IF n = l THEN f ELSE ReducedFactor(u[n + 1], n)]
  PROVE  /\ g[l] = f /\ \A n \in 1 .. l : g[n] \in 1 .. (T - 1) /\ Unit(g[n], T)
         /\ \A n \in 1 .. (l - 1) : Same(Q(n) * g[n], g[n + 1], T)
<1> DEFINE Body(u) == [n \in 1 .. l |-> IF n = l THEN f ELSE ReducedFactor(u[n + 1], n)]
           V == {v \in 1 .. (T - 1) : Unit(v, T)}
           N == l - 1
           F == [p \in (1 .. N) \X V |-> ReducedFactor(p[2], l - p[1])]
<1>0. l \in Nat /\ l >= 1 /\ l <= SizeQ /\ SizeQ \in Nat /\ N \in Nat
  BY Sizes
<1>1. \A n \in 1 .. (l - 1), v \in V : ReducedFactor(v, n) \in V /\ Same(Q(n) * ReducedFactor(v, n), v, T)
  <2> TAKE n \in 1 .. (l - 1), v \in V
  <2>1. n \in 0 .. (SizeQ - 1)
    BY <1>0
  <2> QED
    BY <2>1, ReducedFactorIs
<1>2. f \in V
  OBVIOUS
<1> HIDE DEF V
<1>3. IsStep(F, 1 .. N, V)
  <2>1. \A k \in 1 .. N : l - k \in 1 .. (l - 1)
    BY <1>0
  <2> QED
    BY <1>1, <2>1 DEF IsStep
<1>4. PICK h : Recurs(h, N, V, f, F)
  <2> HIDE DEF N, F
  <2> QED
    BY <1>0, <1>2, <1>3, RecursionExists
<1>5. h \in [0 .. N -> V] /\ h[0] = f /\ \A k \in 1 .. N : h[k] = F[<<k, h[k - 1]>>]
  <2> HIDE DEF N, F
  <2> QED
    BY <1>4 DEF Recurs
<1> DEFINE u0 == [n \in 1 .. l |-> h[l - n]]
<1>6. u0 = Body(u0)
  <2>1. ASSUME NEW n \in 1 .. l, n # l PROVE h[l - n] = ReducedFactor(u0[n + 1], n)
    <3> DEFINE k == l - n
    <3>1. k \in 1 .. N /\ k - 1 \in 0 .. N /\ k - 1 = l - (n + 1) /\ n + 1 \in 1 .. l /\ l - k = n
      BY <1>0, <2>1
    <3>2. h[k - 1] \in V /\ u0[n + 1] = h[k - 1]
      BY <1>5, <3>1
    <3> HIDE DEF k, u0
    <3>3. h[k] = ReducedFactor(h[k - 1], l - k)
      BY <1>5, <3>1, <3>2
    <3> QED
      BY <3>1, <3>2, <3>3 DEF k
  <2>2. h[l - l] = f
    BY <1>0, <1>5
  <2>3. \A n \in 1 .. l : h[l - n] = IF n = l THEN f ELSE ReducedFactor(u0[n + 1], n)
    <3> HIDE DEF u0
    <3> QED
      BY <2>1, <2>2
  <2> QED
    BY <2>3
<1>7. g = Body(g)
  <2>1. g = CHOOSE u : u = Body(u)
    OBVIOUS
  <2> HIDE DEF Body, u0
  <2> QED
    BY <1>6, <2>1
<1> HIDE DEF u0, F
<1>8. \A n \in 1 .. l : g[n] = IF n = l THEN f ELSE ReducedFactor(g[n + 1], n)
  BY <1>7
<1>9. g[l] = f
  BY <1>0, <1>8
<1> DEFINE G == {k \in 0 .. N : g[l - k] \in V}
<1>10. 0 \in G
  <2>1. l - 0 = l /\ 0 \in 0 .. N
    BY <1>0
  <2> QED
    BY <1>2, <1>9, <2>1
<1>11. ASSUME NEW k \in 0 .. (N - 1), k \in G PROVE k + 1 \in G
  <2> DEFINE n == l - (k + 1)
  <2>1. n \in 1 .. (l - 1) /\ n \in 1 .. l /\ n # l /\ n + 1 = l - k /\ k + 1 \in 0 .. N
    BY <1>0
  <2>2. g[n] = ReducedFactor(g[n + 1], n)
    BY <1>8, <2>1
  <2>3. g[n] \in V
    BY <1>1, <1>11, <2>1, <2>2
  <2> QED
    BY <2>1, <2>3
<1>12. \A n \in 1 .. l : g[n] \in V
  <2>1. \A k \in 0 .. N : k \in G
    <3> HIDE DEF G, N
    <3> QED
      BY <1>0, <1>10, <1>11, UpTo
  <2> TAKE n \in 1 .. l
  <2>2. l - n \in 0 .. N /\ l - (l - n) = n
    BY <1>0
  <2>3. l - n \in G
    BY <2>1, <2>2
  <2> QED
    BY <2>2, <2>3
<1>13. \A n \in 1 .. (l - 1) : Same(Q(n) * g[n], g[n + 1], T)
  <2> TAKE n \in 1 .. (l - 1)
  <2>1. n \in 1 .. l /\ n # l /\ n + 1 \in 1 .. l
    BY <1>0
  <2>2. g[n] = ReducedFactor(g[n + 1], n) /\ g[n + 1] \in V
    BY <1>8, <1>12, <2>1
  <2> QED
    BY <1>1, <2>2
<1> QED
  BY <1>9, <1>12, <1>13 DEF V

-----------------------------------------------------------------------------
(* Types *)

\* Ciphertexts have a key, and a sequence of elements.
Shape ==
  ct # None => ct.key \in {"s", "z"} /\ ct.elems = [i \in DOMAIN ct.elems |-> ct.elems[i]]

TypeInv == Inv /\ KeyInv /\ Shape /\ ScaleInv /\ noise \in Nat

\* A ciphertext with two or three new elements has the shape.
LEMMA NewShape ==
  ASSUME NEW key \in {"s", "z"}, NEW elems, ct' = [key |-> key, elems |-> elems],
         elems = [i \in DOMAIN elems |-> elems[i]]
  PROVE  Shape'
<1>1. ct'.key = key /\ ct'.elems = elems
  OBVIOUS
<1> QED
  BY <1>1 DEF Shape

\* Every step keeps the types.
LEMMA StepKeepsTypes ==
  ASSUME TypeInv, [Next]_vars
  PROVE  Shape' /\ noise' \in Nat
<1>0. /\ Inv /\ KeyInv /\ Shape /\ noise \in Nat
      /\ Params /\ Primes /\ Basis /\ Known /\ EvalOK
  BY DEF TypeInv, Inv, KeyInv, Known
<1>c. ASSUME ct # None
      PROVE  /\ ct = [key |-> ct.key, elems |-> ct.elems] /\ Level \in 1 .. SizeQ
             /\ ct.key \in {"s", "z"} /\ UsableKey(evalKey)
             /\ DOMAIN ct.elems \in {1 .. 2, 1 .. 3}
  BY <1>0, <1>c, LevelIsSize DEF Shape, EvalOK
<1>s. S \in Int /\ Z \in Int
  BY <1>0, RoomForKeys
<1>1. ASSUME \/ EvalMultKeyGen \/ EvalAutomorphismKeyGen \/ ReKeyGen
             \/ \E p \in {1, 2} : MultiKeySwitchGen(p) \/ MultiplyByShare(p)
             \/ AddShares \/ AddProducts \/ EvalFastRotationPrecompute \/ UNCHANGED vars
      PROVE  Shape' /\ noise' \in Nat
  <2>1. ct' = ct /\ noise' = noise
    BY <1>1 DEF EvalMultKeyGen, EvalAutomorphismKeyGen, ReKeyGen, MultiKeySwitchGen, MultiplyByShare,
                AddShares, AddProducts, EvalFastRotationPrecompute, vars
  <2> QED
    BY <1>0, <2>1 DEF Shape
<1>2. ASSUME Encrypt PROVE Shape' /\ noise' \in Nat
  <2>1. PICK c0, c1 : ct' = [key |-> "s", elems |-> <<c0, c1>>]
    BY <1>2 DEF Encrypt
  <2>2. noise' = T \div 2 + T * MaxNoise
    BY <1>2 DEF Encrypt
  <2>3. T \in Nat /\ MaxNoise \in Nat /\ 2 \in Nat \ {0}
    BY <1>0, PlaintextInverse, KeySwitchAssumption
  <2>4. T \div 2 \in Nat /\ T * MaxNoise \in Nat
    BY <2>3, Division
  <2>5. Shape'
    <3> DEFINE e == <<c0, c1>>
    <3>1. e = [i \in DOMAIN e |-> e[i]] /\ ct' = [key |-> "s", elems |-> e]
      BY <2>1
    <3> HIDE DEF e
    <3> QED
      BY <3>1, NewShape
  <2> QED
    BY <2>2, <2>4, <2>5
<1>3. ASSUME EvalSquare PROVE Shape' /\ noise' \in Nat
  <2> DEFINE e == <<Times(ct.elems[1], ct.elems[1]), TimesInt(Times(ct.elems[1], ct.elems[2]), 2),
                    Times(ct.elems[2], ct.elems[2])>>
  <2>1. ct # None /\ noise' = noise * noise /\ ct' = [ct EXCEPT !.elems = e]
    BY <1>3 DEF EvalSquare
  <2>2. e = [i \in DOMAIN e |-> e[i]]
    OBVIOUS
  <2> HIDE DEF e
  <2>3. ct' = [key |-> ct.key, elems |-> e] /\ ct.key \in {"s", "z"}
    BY <1>c, <2>1
  <2>4. noise * noise \in Nat
    BY <1>0
  <2> QED
    BY <2>1, <2>2, <2>3, <2>4, NewShape
<1>4. ASSUME Relinearize PROVE Shape' /\ noise' \in Nat
  <2>1. PICK c0, c1 : ct' = [ct EXCEPT !.elems = <<c0, c1>>]
    BY <1>4 DEF Relinearize
  <2>2. ct # None /\ noise' = noise + SwitchNoise(Level, S)
    BY <1>4 DEF Relinearize
  <2> DEFINE e == <<c0, c1>>
  <2>3. e = [i \in DOMAIN e |-> e[i]]
    OBVIOUS
  <2>4. ct' = [ct EXCEPT !.elems = e]
    BY <2>1
  <2> HIDE DEF e
  <2>5. ct' = [key |-> ct.key, elems |-> e] /\ ct.key \in {"s", "z"}
    BY <1>c, <2>2, <2>4
  <2>6. SwitchNoise(Level, S) \in Nat
    BY <1>0, <1>c, <1>s, <2>2, SwitchNoiseNat
  <2>7. noise' \in Nat
    BY <1>0, <2>2, <2>6
  <2> QED
    BY <2>3, <2>5, <2>7, NewShape
<1>5. ASSUME NEW ba, NEW l \in 1 .. SizeQ, Switchable(l), Switched(ba, l) PROVE Shape' /\ noise' \in Nat
  <2>1. ct # None /\ noise' = noise + SwitchNoise(l, Z)
    BY <1>5 DEF Switchable, Switched
  <2> DEFINE e == <<Plus(ct.elems[1], ba[1]), ba[2]>>
  <2>2. e = [i \in DOMAIN e |-> e[i]] /\ ct' = [key |-> "z", elems |-> e]
    BY <1>5 DEF Switched
  <2>3. SwitchNoise(l, Z) \in Nat
    BY <1>0, <1>5, <1>c, <1>s, <2>1, SwitchNoiseNat
  <2>4. noise' \in Nat
    BY <1>0, <2>1, <2>3
  <2> HIDE DEF e
  <2> QED
    BY <2>2, <2>4, NewShape
<1>6. ASSUME KeySwitchInPlace PROVE Shape' /\ noise' \in Nat
  <2>1. ct # None
    BY <1>6 DEF KeySwitchInPlace, Switchable
  <2> QED
    BY <1>5, <1>6, <1>c, <2>1 DEF KeySwitchInPlace
<1>7. ASSUME EvalFastRotation PROVE Shape' /\ noise' \in Nat
  <2>1. digits.towers \in 1 .. SizeQ
    BY <1>0, <1>7 DEF EvalFastRotation, Inv, DigitInv
  <2> QED
    BY <1>5, <1>7, <2>1 DEF EvalFastRotation
<1>8. ASSUME NEW e, ct # None, ct' = [ct EXCEPT !.elems = e], e = [i \in DOMAIN e |-> e[i]]
      PROVE  Shape'
  <2>1. ct' = [key |-> ct.key, elems |-> e] /\ ct.key \in {"s", "z"}
    BY <1>c, <1>8
  <2> QED
    BY <1>8, <2>1, NewShape
<1>9. ASSUME LevelReduce PROVE Shape' /\ noise' \in Nat
  <2> DEFINE e == [i \in DOMAIN ct.elems |-> DropLastElements(ct.elems[i], 1)]
  <2>1. ct # None /\ noise' = noise
    BY <1>9 DEF LevelReduce
  <2>2. ct' = [ct EXCEPT !.elems = e]
    BY <1>9, <1>c, <2>1 DEF LevelReduce
  <2>3. e = [i \in DOMAIN e |-> e[i]]
    OBVIOUS
  <2> HIDE DEF e
  <2> QED
    BY <1>0, <1>8, <2>1, <2>2, <2>3
<1>10. ASSUME ModReduceInPlace PROVE Shape' /\ noise' \in Nat
  <2> DEFINE e == [i \in DOMAIN ct.elems |-> ModReduce(ct.elems[i], T)]
  <2>1. ct # None /\ noise' = Rescaled
    BY <1>10 DEF ModReduceInPlace
  <2>2. ct' = [ct EXCEPT !.elems = e]
    BY <1>10, <1>c, <2>1 DEF ModReduceInPlace
  <2>3. e = [i \in DOMAIN e |-> e[i]]
    OBVIOUS
  <2>4. Rescaled \in Nat
    BY <1>0, <1>c, <2>1, RescaledNat
  <2> HIDE DEF e
  <2> QED
    BY <1>8, <2>1, <2>2, <2>3, <2>4
<1> QED
  BY <1>1, <1>2, <1>3, <1>4, <1>6, <1>7, <1>9, <1>10 DEF Next

\* What the invariant says of types.
LEMMA TypesFollow == TypeInv => TypeOK
<1> SUFFICES ASSUME TypeInv PROVE TypeOK
  OBVIOUS
<1>0. Params /\ Basis /\ Holders /\ Shape /\ noise \in Nat /\ scale \in 1 .. (T - 1)
  BY DEF TypeInv, Inv, KeyInv, Known, ScaleInv
<1>1. ASSUME ct # None
      PROVE  /\ ct.key \in {"s", "z"} /\ Len(ct.elems) \in {2, 3}
             /\ \E l \in 1 .. SizeQ : \A i \in DOMAIN ct.elems : ct.elems[i].mod = BasisQ(l)
  <2> DEFINE e == ct.elems
  <2>1. e = [i \in DOMAIN e |-> e[i]] /\ DOMAIN e \in {1 .. 2, 1 .. 3} /\ ct.key \in {"s", "z"}
    BY <1>0, <1>1 DEF Shape, Basis
  <2> HIDE DEF e
  <2>2. ASSUME NEW k \in {2, 3}, DOMAIN e = 1 .. k PROVE Len(e) = k
    <3>1. k \in Nat
      OBVIOUS
    <3>2. e \in [1 .. k -> {e[i] : i \in 1 .. k}]
      BY <2>1, <2>2
    <3>3. e \in Seq({e[i] : i \in 1 .. k})
      BY <3>1, <3>2
    <3>4. DOMAIN e = 1 .. Len(e) /\ Len(e) \in Nat
      BY <3>3
    <3> QED
      BY <2>2, <3>1, <3>4
  <2>3. Len(e) \in {2, 3}
    BY <2>1, <2>2
  <2> QED
    BY <1>0, <1>1, <2>1, <2>3 DEF Basis, e
<1> QED
  BY <1>0, <1>1 DEF TypeOK, Params, Holders

\* Parameters, secrets, ciphertexts and their noise keep their types: a
\* ciphertext always has two or three elements in the first moduli, however
\* it was squared, relinearized, switched and reduced.
THEOREM TypeCorrect == Spec => []TypeOK
<1>1. Init => TypeInv
  BY Start, KeysStart, ScaleStart DEF TypeInv, Init, Shape
<1>2. TypeInv /\ [Next]_vars => TypeInv'
  BY StepKeepsInv, StepKeepsKeys, StepKeepsTypes, StepKeepsScale DEF TypeInv
<1> QED BY <1>1, <1>2, TypesFollow, PTL DEF Spec

-----------------------------------------------------------------------------
(* Products and sums *)

\* What multiplies up the factors of a set multiplies up those of its subsets.
MultipliesUp(h, f, D) ==
  /\ h \in [SUBSET D -> Positive] /\ h[{}] = 1
  /\ \A s \in SUBSET D : s # {} =>
       AnElement(s) \in s /\ h[s] = f[AnElement(s)] * h[s \ {AnElement(s)}]

\* Positive factors can be multiplied up.
LEMMA ProductFold ==
  ASSUME NEW D, IsFiniteSet(D), NEW f, \A x \in D : f[x] \in Positive
  PROVE  \E h : MultipliesUp(h, f, D)
<1> DEFINE F == Multiplies(f, D)
           pick == AnyOf(D)
<1>1. IsStep(F, D, Positive)
  <2>1. \A x, y \in Positive : x * y \in Positive
    BY DEF Positive
  <2> QED
    BY <2>1 DEF IsStep, Multiplies
<1>2. IsPick(pick, D)
  <2>1. \A s \in SUBSET D : s # {} => AnElement(s) \in s
    BY DEF AnElement
  <2> QED
    BY <2>1 DEF IsPick, AnyOf
<1>3. PICK h : FoldsTo(h, D, Positive, 1, F, pick)
  <2>1. 1 \in Positive
    BY DEF Positive
  <2> QED
    BY <1>1, <1>2, <2>1, FoldExists
<1>4. h \in [SUBSET D -> Positive] /\ h[{}] = 1
  BY <1>3 DEF FoldsTo
<1>5. ASSUME NEW s \in SUBSET D, s # {}
      PROVE  AnElement(s) \in s /\ h[s] = f[AnElement(s)] * h[s \ {AnElement(s)}]
  <2> DEFINE x == AnElement(s)
  <2>1. x \in s /\ pick[s] = x
    BY <1>5 DEF AnyOf, AnElement
  <2> HIDE DEF x
  <2>2. h[s] = F[<<x, h[s \ {x}]>>]
    BY <1>3, <1>5, <2>1 DEF FoldsTo
  <2>3. h[s \ {x}] \in Positive /\ x \in D
    BY <1>4, <2>1
  <2>4. F[<<x, h[s \ {x}]>>] = f[x] * h[s \ {x}]
    BY <2>3 DEF Multiplies
  <2> QED
    BY <2>1, <2>2, <2>4 DEF x
<1> QED
  BY <1>4, <1>5 DEF MultipliesUp

\* There is one product.
LEMMA ProductIs ==
  ASSUME NEW D, IsFiniteSet(D), NEW f, \A x \in D : f[x] \in Positive,
         NEW h, MultipliesUp(h, f, D),
         NEW g, DOMAIN g \in SUBSET D, \A x \in DOMAIN g : g[x] = f[x]
  PROVE  Product(g) = h[DOMAIN g]
<1> DEFINE E == DOMAIN g
           Body(w) == [s \in SUBSET E |->
                         IF s = {} THEN 1
                         ELSE LET x == CHOOSE x \in s : TRUE
                              IN  g[x] * w[s \ {x}]]
           iter == CHOOSE w : w = Body(w)
<1>1. IsFiniteSet(E) /\ \A x \in E : g[x] \in Positive
  BY FS_Subset
<1>2. Product(g) = iter[E]
  BY DEF Product, FoldFunction, FoldFunctionOnSet, MapThenFoldSet
<1>3. PICK k : MultipliesUp(k, g, E)
  BY <1>1, ProductFold
<1>4. k = Body(k)
  <2>1. k \in [SUBSET E -> Positive] /\ k[{}] = 1
    BY <1>3 DEF MultipliesUp
  <2>2. \A s \in SUBSET E : s # {} => k[s] = g[AnElement(s)] * k[s \ {AnElement(s)}]
    BY <1>3 DEF MultipliesUp
  <2> HIDE DEF E
  <2> QED
    BY <2>1, <2>2 DEF AnElement
<1>5. iter = Body(iter)
  <2> HIDE DEF Body
  <2> QED
    BY <1>4
<1> DEFINE G == {s \in SUBSET E : iter[s] = h[s]}
<1>6. Inherits(G, E)
  <2> HIDE DEF iter
  <2>1. {} \in G
    BY <1>5 DEF MultipliesUp
  <2>2. ASSUME NEW s \in SUBSET E, s # {} PROVE \E x \in s : s \ {x} \in G => s \in G
    <3> DEFINE x == AnElement(s)
    <3>1. x \in s
      BY <2>2 DEF AnElement
    <3>2. iter[s] = g[x] * iter[s \ {x}]
      BY <1>5, <2>2 DEF AnElement
    <3>3. h[s] = f[x] * h[s \ {x}]
      <4>1. s \in SUBSET D
        OBVIOUS
      <4> QED
        BY <2>2, <4>1 DEF MultipliesUp
    <3> HIDE DEF x
    <3>4. g[x] = f[x]
      BY <3>1
    <3>5. s \ {x} \in G => s \in G
      BY <3>2, <3>3, <3>4
    <3> QED
      BY <3>1, <3>5
  <2> QED
    BY <2>1, <2>2 DEF Inherits
<1>7. E \in G
  <2> HIDE DEF G
  <2>1. E \in SUBSET E
    OBVIOUS
  <2> QED
    BY <1>1, <1>6, <2>1, FoldInduction
<1> QED
  BY <1>2, <1>7

\* The product of f over a set.
Over(f, s) == Product([k \in s |-> f[k]])

\* A product over no element, and over a set of which an element is taken out.
LEMMA ProductSplit ==
  ASSUME NEW D, IsFiniteSet(D), NEW f, \A x \in D : f[x] \in Positive
  PROVE  /\ \A s \in SUBSET D : Over(f, s) \in Positive
         /\ Over(f, {}) = 1
         /\ \A s \in SUBSET D : \A x \in s : Over(f, s) = f[x] * Over(f, s \ {x})
         /\ DOMAIN f = D => Product(f) = Over(f, D)
<1>1. PICK h : MultipliesUp(h, f, D)
  BY ProductFold
<1>2. ASSUME NEW s \in SUBSET D PROVE Over(f, s) = h[s]
  <2> DEFINE g == [k \in s |-> f[k]]
  <2>1. DOMAIN g = s /\ \A x \in DOMAIN g : g[x] = f[x]
    OBVIOUS
  <2> HIDE DEF g
  <2>2. Product(g) = h[s]
    BY <1>1, <2>1, ProductIs
  <2> QED
    BY <2>2 DEF Over, g
<1>3. h \in [SUBSET D -> Positive] /\ h[{}] = 1
  BY <1>1 DEF MultipliesUp
<1> DEFINE Splits(s) == \A x \in s : h[s] = f[x] * h[s \ {x}]
           c == Cardinality(D)
           N == {n \in 0 .. c : \A s \in SUBSET D : Cardinality(s) = n => Splits(s)}
<1>4. c \in Nat /\ \A s \in SUBSET D : IsFiniteSet(s) /\ Cardinality(s) \in Nat /\ Cardinality(s) <= c
  BY FS_CardinalityType, FS_Subset
<1>5. 0 \in N
  <2>1. \A s \in SUBSET D : Cardinality(s) = 0 => s = {}
    BY <1>4, FS_EmptySet
  <2>2. \A s \in SUBSET D : Cardinality(s) = 0 => Splits(s)
    BY <2>1
  <2> HIDE DEF Splits, c
  <2> QED
    BY <1>4, <2>2
<1>6. ASSUME NEW n \in 0 .. (c - 1), n \in N PROVE n + 1 \in N
  <2>1. ASSUME NEW s \in SUBSET D, Cardinality(s) = n + 1, NEW x \in s
        PROVE  h[s] = f[x] * h[s \ {x}]
    <3> DEFINE y == AnElement(s)
    <3>1. y \in s /\ h[s] = f[y] * h[s \ {y}]
      BY <1>1, <2>1 DEF MultipliesUp
    <3> HIDE DEF y
    <3>2. CASE x = y
      BY <3>1, <3>2
    <3>3. CASE x # y
      <4>0. n \in Nat /\ IsFiniteSet(s) /\ Cardinality(s) = n + 1 /\ x \in s /\ y \in s
        BY <1>4, <2>1, <3>1
      <4>1. Cardinality(s \ {x}) = n /\ Cardinality(s \ {y}) = n
        <5>1. Cardinality(s \ {x}) = Cardinality(s) - 1
          BY <4>0, FS_RemoveElement
        <5>2. Cardinality(s \ {y}) = Cardinality(s) - 1
          BY <4>0, FS_RemoveElement
        <5> QED
          BY <4>0, <5>1, <5>2
      <4>2. Splits(s \ {x}) /\ Splits(s \ {y})
        BY <1>6, <4>1
      <4>3. h[s \ {x}] = f[y] * h[(s \ {x}) \ {y}]
        BY <3>1, <3>3, <4>2
      <4>4. h[s \ {y}] = f[x] * h[(s \ {y}) \ {x}]
        BY <2>1, <3>3, <4>2
      <4>5. (s \ {x}) \ {y} = (s \ {y}) \ {x}
        OBVIOUS
      <4> DEFINE r == h[(s \ {y}) \ {x}]
      <4>6. f[x] \in Int /\ f[y] \in Int /\ r \in Int
        BY <1>3, <2>1, <3>1 DEF Positive
      <4>7. h[s] = f[y] * (f[x] * r) /\ h[s \ {x}] = f[y] * r
        BY <3>1, <4>3, <4>4, <4>5
      <4> HIDE DEF r, Splits
      <4>8. f[y] * (f[x] * r) = f[x] * (f[y] * r)
        BY <4>6
      <4> QED
        BY <4>7, <4>8
    <3> QED
      BY <3>2, <3>3
  <2>2. n + 1 \in 0 .. c
    BY <1>4
  <2> HIDE DEF c
  <2> QED
    BY <2>1, <2>2
<1>7. \A s \in SUBSET D : Splits(s)
  <2> HIDE DEF Splits
  <2>1. ASSUME NEW s \in SUBSET D PROVE Splits(s)
    <3> DEFINE m == Cardinality(s)
    <3>1. m \in 0 .. c
      BY <1>4
    <3>2. m \in N
      <4> HIDE DEF N, c, m
      <4> QED
        BY <1>4, <1>5, <1>6, <3>1, UpTo
    <3> QED
      BY <3>2
  <2> QED
    BY <2>1
<1>8. \A s \in SUBSET D : \A x \in s : h[s] = f[x] * h[s \ {x}]
  BY <1>7
<1> HIDE DEF Splits, N, c
<1>9. ASSUME DOMAIN f = D PROVE Product(f) = h[D]
  BY <1>1, <1>9, ProductIs
<1> QED
  BY <1>2, <1>3, <1>8, <1>9

\* The magnitude of a sum is bounded by the sum of the terms' bounds.
LEMMA TotalBound ==
  ASSUME NEW D, IsFiniteSet(D), NEW f, NEW g,
         \A x \in D : f[x] \in Int /\ g[x] \in Int /\ Abs(f[x]) <= g[x]
  PROVE  Total(f, D) \in Int /\ Total(g, D) \in Nat /\ Abs(Total(f, D)) <= Total(g, D)
<1>1. (\A x \in D : f[x] \in Int) /\ (\A x \in D : g[x] \in Int)
  OBVIOUS
<1> DEFINE Bounded(s) == Total(f, s) \in Int /\ Total(g, s) \in Nat /\ Abs(Total(f, s)) <= Total(g, s)
           G == {s \in SUBSET D : Bounded(s)}
<1>2. Inherits(G, D)
  <2>1. {} \in G
    <3>1. Total(f, {}) = 0 /\ Total(g, {}) = 0
      BY <1>1, TotalSplit
    <3> QED
      BY <3>1 DEF Abs
  <2>2. ASSUME NEW s \in SUBSET D, s # {} PROVE \E x \in s : s \ {x} \in G => s \in G
    <3>1. PICK x \in s : TRUE
      BY <2>2
    <3> DEFINE a == Total(f, s \ {x})
               b == Total(g, s \ {x})
    <3>0. (\A p \in s : Total(f, s) = f[p] + Total(f, s \ {p})) /\ \A p \in s : Total(g, s) = g[p] + Total(g, s \ {p})
      BY <1>1, TotalInduction
    <3>2. Total(f, s) = f[x] + a
      BY <3>0
    <3>3. Total(g, s) = g[x] + b
      BY <3>0
    <3>4. f[x] \in Int /\ g[x] \in Int /\ Abs(f[x]) <= g[x]
      OBVIOUS
    <3>5. ASSUME s \ {x} \in G PROVE s \in G
      <4>1. a \in Int /\ b \in Nat /\ Abs(a) <= b
        BY <3>5
      <4> HIDE DEF a, b
      <4>2. f[x] + a \in Int /\ g[x] + b \in Nat /\ Abs(f[x] + a) <= g[x] + b
        BY <3>4, <4>1 DEF Abs
      <4> QED
        BY <3>2, <3>3, <4>2
    <3> QED
      BY <3>5
  <2> QED
    BY <2>1, <2>2 DEF Inherits
<1>3. D \in G
  <2> HIDE DEF G
  <2>1. D \in SUBSET D
    OBVIOUS
  <2> QED
    BY <1>2, <2>1, FoldInduction
<1> QED
  BY <1>3

-----------------------------------------------------------------------------
(* Inverses *)

\* Products have inverses when the factors have.
LEMMA UnitOver ==
  ASSUME NEW D, IsFiniteSet(D), NEW f, \A x \in D : f[x] \in Positive,
         NEW m \in Nat, m > 0, \A x \in D : Unit(f[x], m)
  PROVE  Unit(Over(f, D), m)
<1> DEFINE G == {s \in SUBSET D : Unit(Over(f, s), m)}
<1>0. /\ Over(f, {}) = 1
      /\ \A s \in SUBSET D : \A y \in s : Over(f, s) = f[y] * Over(f, s \ {y})
  BY ProductSplit
<1>1. Inherits(G, D)
  <2>1. {} \in G
    <3>2. Same(1 * 1, 1, m)
      BY SameSelf
    <3> QED
      BY <1>0, <3>2 DEF Unit
  <2>2. ASSUME NEW s \in SUBSET D, s # {} PROVE \E x \in s : s \ {x} \in G => s \in G
    <3>1. PICK x \in s : TRUE
      BY <2>2
    <3>3. Over(f, s) = f[x] * Over(f, s \ {x})
      BY <1>0
    <3>4. ASSUME s \ {x} \in G PROVE s \in G
      <4>1. Unit(f[x], m) /\ Unit(Over(f, s \ {x}), m)
        BY <3>4
      <4>2. Unit(f[x] * Over(f, s \ {x}), m)
        BY <4>1, ProductIsUnit
      <4> QED
        BY <3>3, <4>2
    <3> QED
      BY <3>4
  <2> QED
    BY <2>1, <2>2 DEF Inherits
<1>2. D \in G
  <2> HIDE DEF G
  <2>1. D \in SUBSET D
    OBVIOUS
  <2> QED
    BY <1>1, <2>1, FoldInduction
<1> QED
  BY <1>2

\* What numbers with inverses modulo each other divide their product divides.
LEMMA DividesOver ==
  ASSUME NEW D, IsFiniteSet(D), NEW f, \A x \in D : f[x] \in Positive,
         \A x, y \in D : x # y => Unit(f[x], f[y]),
         NEW v \in Int, \A x \in D : Same(v, 0, f[x])
  PROVE  Same(v, 0, Over(f, D))
<1> DEFINE G == {s \in SUBSET D : Same(v, 0, Over(f, s))}
<1>0. /\ \A s \in SUBSET D : Over(f, s) \in Positive
      /\ Over(f, {}) = 1
      /\ \A s \in SUBSET D : \A x \in s : Over(f, s) = f[x] * Over(f, s \ {x})
  BY ProductSplit
<1>1. Inherits(G, D)
  <2>1. {} \in G
    <3>1. v = 0 + 1 * v
      OBVIOUS
    <3>2. Same(v, 0, 1)
      BY <3>1 DEF Same
    <3> QED
      BY <1>0, <3>2
  <2>2. ASSUME NEW s \in SUBSET D, s # {} PROVE \E x \in s : s \ {x} \in G => s \in G
    <3>1. PICK x \in s : TRUE
      BY <2>2
    <3> DEFINE h == Over(f, s \ {x})
               m == f[x]
    <3>2. Over(f, s) = m * h /\ h \in Positive
      <4>1. s \ {x} \in SUBSET D
        OBVIOUS
      <4> QED
        BY <1>0, <4>1
    <3>3. m \in Nat /\ m > 0 /\ h \in Nat /\ h > 0 /\ Same(v, 0, m)
      <4>1. m \in Positive
        OBVIOUS
      <4> QED
        BY <3>2, <4>1 DEF Positive
    <3>4. Unit(h, m)
      <4>1. IsFiniteSet(s \ {x}) /\ \A y \in s \ {x} : f[y] \in Positive
        BY FS_Subset
      <4>2. \A y \in s \ {x} : Unit(f[y], m)
        OBVIOUS
      <4> HIDE DEF m
      <4> QED
        BY <3>3, <4>1, <4>2, UnitOver
    <3> HIDE DEF h, m
    <3>5. ASSUME Same(v, 0, h) PROVE Same(v, 0, m * h)
      <4>1. PICK k \in Int : v = 0 + h * k
        BY <3>5 DEF Same
      <4>2. Same(h * k, h * 0, m)
        <5>1. v = h * k /\ h * 0 = 0
          BY <3>3, <4>1
        <5> QED
          BY <3>3, <5>1
      <4>3. k \in Int /\ 0 \in Int
        OBVIOUS
      <4>6. Same(k, 0, m)
        BY <3>3, <3>4, <4>2, <4>3, UnitCancels
      <4>4. PICK j \in Int : k = 0 + m * j
        BY <4>6 DEF Same
      <4>5. v = 0 + (m * h) * j
        BY <3>3, <4>1, <4>4
      <4> QED
        BY <4>5 DEF Same
    <3>6. ASSUME s \ {x} \in G PROVE s \in G
      <4>1. Same(v, 0, h)
        BY <3>6 DEF h
      <4> QED
        BY <3>2, <3>5, <4>1
    <3> QED
      BY <3>6
  <2> QED
    BY <2>1, <2>2 DEF Inherits
<1>2. D \in G
  <2> HIDE DEF G
  <2>1. D \in SUBSET D
    OBVIOUS
  <2> QED
    BY <1>1, <2>1, FoldInduction
<1> QED
  BY <1>2

-----------------------------------------------------------------------------
(* The moduli *)

\* The special primes are different primes, none of them a modulus, each one
\* more than a multiple of the plaintext modulus.
SpecialOK ==
  \A j \in 1 .. SizeP :
    /\ special[j] \in Nat /\ IsPrime(special[j]) /\ (special[j] - 1) % T = 0
    /\ \A i \in 0 .. (SizeQ - 1) : special[j] # Q(i)
    /\ \A k \in 1 .. SizeP : k # j => special[k] # special[j]

\* They are such when they are made.
LEMMA SpecialStart ==
  ASSUME Init
  PROVE  SpecialOK
<1>1. /\ setting \in Settings /\ Accepted(setting)
      /\ special = (IF Hybrid THEN SpecialPrimes(setting) ELSE <<>>)
  BY DEF Init
<1>2. CASE ~Hybrid
  BY <1>1, <1>2 DEF SpecialOK, SizeP
<1>3. CASE Hybrid
  <2> DEFINE x == setting
             N == NumSpecial(x)
  <2>1. /\ special = SpecialPrimes(x) /\ N \in Nat
        /\ \A n \in 1 .. N : /\ special[n] \in Positive /\ special[n] \in Candidates(x)
                             /\ IsPrime(special[n])
        /\ \A m, n \in 1 .. N : m < n => special[n] < special[m]
    <3>1. x \in Settings /\ x.technique = "HYBRID" /\ Accepted(x) /\ special = SpecialPrimes(x)
      BY <1>1, <1>3 DEF Hybrid
    <3> HIDE DEF x
    <3> QED
      BY <3>1, SpecialPrimesFound, SpecialAssumption
  <2>2. SizeP = N
    <3>1. special = [n \in 1 .. N |-> special[n]]
      BY <2>1 DEF SpecialPrimes
    <3> HIDE DEF N
    <3> QED
      BY <2>1, <3>1 DEF SizeP
  <2>3. T = x.t /\ x.t \in Nat \ {0}
    BY <1>1, KeySwitchAssumption DEF T
  <2>4. ASSUME NEW j \in 1 .. N
        PROVE  (special[j] - 1) % T = 0 /\ \A i \in 0 .. (SizeQ - 1) : special[j] # Q(i)
    <3> DEFINE s == special[j]
               step == PrimeStep(x.t)
    <3>1. s \in Nat /\ s % step = 1 /\ \A i \in DOMAIN x.q : x.q[i] # s
      BY <2>1 DEF Candidates, Positive
    <3>2. step \in Nat \ {0} /\ step % x.t = 0
      BY <1>1, BitsAssumption
    <3>3. \A i \in 0 .. (SizeQ - 1) : s # Q(i)
      <4> TAKE i \in 0 .. (SizeQ - 1)
      <4>1. i + 1 \in DOMAIN x.q
        BY <1>1, KeySwitchAssumption DEF SizeQ
      <4> QED
        BY <3>1, <4>1 DEF Q
    <3> HIDE DEF s, step
    <3>4. PICK a \in Int : s = 1 + step * a
      BY <3>1, <3>2, ModSplit
    <3>5. PICK b \in Int : step = 0 + x.t * b
      <4>1. x.t \in Nat /\ x.t > 0 /\ step \in Int /\ step % x.t = 0
        BY <2>3, <3>2
      <4> HIDE DEF x
      <4> QED
        BY <4>1, ModSplit
    <3>6. s - 1 = x.t * (b * a) + 0 /\ b * a \in Int
      BY <2>3, <3>4, <3>5
    <3>7. (x.t * (b * a) + 0) % x.t = 0
      <4>1. 0 \in 0 .. (x.t - 1)
        BY <2>3
      <4> QED
        BY <2>3, <3>6, <4>1, ModUnique
    <3>8. (s - 1) % T = 0
      BY <2>3, <3>6, <3>7
    <3> QED
      BY <3>3, <3>8 DEF s
  <2>5. \A j, k \in 1 .. N : k # j => special[k] # special[j]
    <3> TAKE j \in 1 .. N, k \in 1 .. N
    <3>1. special[k] \in Int /\ special[j] \in Int
      BY <2>1 DEF Positive
    <3>2. j \in Int /\ k \in Int
      BY <2>1
    <3>3. (j < k => special[k] < special[j]) /\ (k < j => special[j] < special[k])
      BY <2>1
    <3> QED
      BY <3>1, <3>2, <3>3
  <2> HIDE DEF N
  <2> QED
    BY <2>1, <2>2, <2>4, <2>5 DEF SpecialOK, Positive
<1> QED
  BY <1>2, <1>3

\* Moduli and special primes have inverses modulo each other, and the
\* plaintext modulus has one modulo each; each modulus has one modulo it.
LEMMA ModuliUnits ==
  ASSUME Params, SpecialOK
  PROVE  /\ T \in Nat /\ T > 0
         /\ \A i \in 0 .. (SizeQ - 1) : /\ Q(i) \in Nat /\ Q(i) > 1
                                        /\ Unit(T, Q(i)) /\ Unit(Q(i), T)
         /\ \A i, k \in 0 .. (SizeQ - 1) : i # k => Unit(Q(i), Q(k))
         /\ \A j \in 1 .. SizeP : /\ special[j] \in Nat /\ special[j] > 1 /\ Unit(T, special[j])
                                  /\ \A i \in 0 .. (SizeQ - 1) : Unit(special[j], Q(i))
                                  /\ \A k \in 1 .. SizeP : k # j => Unit(special[k], special[j])
<1>1. T \in Nat /\ T > 0
  BY ModuliInverses
<1>2. ASSUME NEW p \in Nat, p > 1, (p - 1) % T = 0 PROVE Unit(T, p)
  <2>1. p - 1 \in Int /\ p > 0
    BY <1>2
  <2>2. PICK k \in Int : p - 1 = ((p - 1) % T) + T * k
    BY <1>1, <2>1, ModSplit
  <2>3. T * (-k) = 1 + p * (-1) /\ -k \in Int /\ -1 \in Int /\ T * (-k) \in Int
    BY <1>1, <1>2, <2>2
  <2>4. Same(T * (-k), 1, p)
    BY <2>3 DEF Same
  <2>5. T \in Int
    BY <1>1
  <2> QED
    BY <2>3, <2>4, <2>5, Zenon DEF Unit
<1>3. \A i \in 0 .. (SizeQ - 1) :
        /\ Q(i) \in Nat /\ Q(i) > 1 /\ IsPrime(Q(i)) /\ Unit(T, Q(i)) /\ Unit(Q(i), T)
  BY ModuliInverses
<1>4. \A i, k \in 0 .. (SizeQ - 1) : i # k => Q(i) # Q(k)
  BY ModuliInverses
<1>6. \A j \in 1 .. SizeP :
        /\ special[j] \in Nat /\ IsPrime(special[j]) /\ (special[j] - 1) % T = 0
        /\ \A i \in 0 .. (SizeQ - 1) : special[j] # Q(i)
        /\ \A k \in 1 .. SizeP : k # j => special[k] # special[j]
  BY DEF SpecialOK
<1>7. \A p : IsPrime(p) => p > 1
  BY DEF IsPrime
<1>9. \A i, k \in 0 .. (SizeQ - 1) : i # k => Unit(Q(i), Q(k))
  BY <1>3, <1>4, PrimesAreUnits
<1>10. \A j \in 1 .. SizeP : special[j] > 1 /\ Unit(T, special[j])
  BY <1>2, <1>6, <1>7
<1>11. \A j \in 1 .. SizeP : \A i \in 0 .. (SizeQ - 1) : Unit(special[j], Q(i))
  BY <1>3, <1>6, PrimesAreUnits
<1>12. \A j, k \in 1 .. SizeP : k # j => Unit(special[k], special[j])
  BY <1>6, PrimesAreUnits
<1> QED
  BY <1>1, <1>3, <1>6, <1>9, <1>10, <1>11, <1>12

-----------------------------------------------------------------------------
(* Changes of basis *)

\* A basis of moduli that have inverses modulo each other.
Good(b) ==
  /\ IsFiniteSet(DOMAIN b)
  /\ \A i \in DOMAIN b : b[i] \in Nat /\ b[i] > 1
  /\ \A i, k \in DOMAIN b : i # k => Unit(b[i], b[k])

\* The product of the other moduli, and its inverse.
LEMMA HatFacts ==
  ASSUME NEW b, Good(b), NEW i \in DOMAIN b
  PROVE  /\ b[i] \in Nat /\ b[i] > 1 /\ Product(b) \in Positive /\ Hat(b, i) \in Positive
         /\ Product(b) = b[i] * Hat(b, i)
         /\ \A k \in DOMAIN b : k # i => Same(Hat(b, i), 0, b[k])
         /\ HatInv(b, i) \in 1 .. (b[i] - 1) /\ Same(Hat(b, i) * HatInv(b, i), 1, b[i])
<1> DEFINE D == DOMAIN b
<1>0. IsFiniteSet(D) /\ (\A k \in D : b[k] \in Positive) /\ \A k \in D : b[k] \in Nat /\ b[k] > 1
  BY DEF Good, Positive
<1>1. Hat(b, i) = Over(b, D \ {i})
  BY DEF Hat, Over
<1>2. /\ \A s \in SUBSET D : Over(b, s) \in Positive
      /\ \A s \in SUBSET D : \A x \in s : Over(b, s) = b[x] * Over(b, s \ {x})
      /\ Product(b) = Over(b, D)
  BY <1>0, ProductSplit
<1>3. D \in SUBSET D /\ D \ {i} \in SUBSET D /\ i \in D
  OBVIOUS
<1>4. Product(b) \in Positive /\ Hat(b, i) \in Positive /\ Product(b) = b[i] * Hat(b, i)
  BY <1>1, <1>2, <1>3
<1>5. ASSUME NEW k \in D, k # i PROVE Same(Hat(b, i), 0, b[k])
  <2> DEFINE r == Over(b, (D \ {i}) \ {k})
  <2>1. Over(b, D \ {i}) = b[k] * r /\ r \in Positive
    BY <1>2, <1>5
  <2>2. r \in Int /\ b[k] \in Int
    BY <1>0, <2>1 DEF Positive
  <2> HIDE DEF r
  <2>3. Hat(b, i) = 0 + b[k] * r /\ Hat(b, i) \in Int
    BY <1>1, <2>1, <2>2
  <2> QED
    BY <2>2, <2>3 DEF Same
<1>6. Unit(Hat(b, i), b[i])
  <2>1. IsFiniteSet(D \ {i}) /\ (\A x \in D \ {i} : b[x] \in Positive) /\ \A x \in D \ {i} : Unit(b[x], b[i])
    BY <1>0, FS_Subset DEF Good
  <2>2. b[i] \in Nat /\ b[i] > 0
    BY <1>0
  <2> QED
    BY <1>1, <2>1, <2>2, UnitOver
<1>7. /\ ModInverse(Hat(b, i) % b[i], b[i]) \in 1 .. (b[i] - 1)
      /\ Same(Hat(b, i) * ModInverse(Hat(b, i) % b[i], b[i]), 1, b[i])
  BY <1>0, <1>6, InverseIs
<1> QED
  BY <1>0, <1>4, <1>5, <1>7 DEF HatInv

\* A combination of the products that has given residues.
LEMMA Lifted ==
  ASSUME NEW b, Good(b), NEW v, NEW y,
         \A i \in DOMAIN b : v[i] \in Int /\ Same(y[i], v[i] * HatInv(b, i), b[i]),
         NEW f, \A i \in DOMAIN b : f[i] = y[i] * Hat(b, i)
  PROVE  /\ Total(f, DOMAIN b) \in Int
         /\ \A i \in DOMAIN b : f[i] \in Int /\ Same(Total(f, DOMAIN b), v[i], b[i])
<1> DEFINE D == DOMAIN b
<1>0. IsFiniteSet(D)
  BY DEF Good
<1>1. ASSUME NEW i \in D PROVE f[i] \in Int /\ y[i] \in Int /\ Hat(b, i) \in Int
  <2>1. y[i] \in Int /\ Hat(b, i) \in Int
    BY HatFacts DEF Same, Positive
  <2>2. y[i] * Hat(b, i) \in Int
    BY <2>1
  <2> QED
    BY <2>1, <2>2
<1>2. Total(f, D) \in Int
  BY <1>0, <1>1, TotalSplit
<1>3. ASSUME NEW j \in D PROVE Same(Total(f, D), v[j], b[j])
  <2> DEFINE g == [i \in D |-> IF i = j THEN f[j] ELSE 0]
             m == b[j]
  <2>0. m \in Nat /\ m > 1 /\ m > 0
    BY HatFacts
  <2>1. \A i \in D : g[i] \in Int /\ (i # j => g[i] = 0)
    BY <1>1
  <2>2. ASSUME NEW i \in D PROVE Same(f[i], g[i], m)
    <3>1. CASE i = j
      BY <1>1, <2>0, <3>1, SameSelf
    <3>2. CASE i # j
      <4>1. Same(Hat(b, i), 0, m) /\ Same(y[i], y[i], m)
        BY <1>1, <2>0, <3>2, HatFacts, SameSelf
      <4>2. Same(y[i] * Hat(b, i), y[i] * 0, m)
        BY <2>0, <4>1, SameArith
      <4>3. y[i] * 0 = 0
        BY <1>1
      <4> QED
        BY <3>2, <4>2, <4>3
    <3> QED
      BY <3>1, <3>2
  <2>3. g[j] = f[j]
    OBVIOUS
  <2> HIDE DEF g, m
  <2>4. Same(Total(f, D), Total(g, D), m)
    BY <1>0, <2>0, <2>2, TotalCongruent
  <2>5. Total(g, D) = f[j]
    <3>1. \A x \in D : g[x] \in Int
      BY <2>1
    <3>2. \A x \in D : x # j => g[x] = 0
      BY <2>1
    <3> QED
      BY <1>0, <2>3, <3>1, <3>2, TotalOne
  <2>6. Same(f[j], v[j], m)
    <3> DEFINE h == Hat(b, j)
               w == HatInv(b, j)
    <3>1. h \in Int /\ w \in Int /\ Same(h * w, 1, m) /\ y[j] \in Int /\ v[j] \in Int
          /\ Same(y[j], v[j] * w, m) /\ f[j] = y[j] * h
      BY <1>1, HatFacts DEF m
    <3> HIDE DEF h, w
    <3>2. Same(y[j] * h, (v[j] * w) * h, m)
      BY <2>0, <3>1, SameSelf, SameArith
    <3>3. (v[j] * w) * h = v[j] * (h * w) /\ v[j] * 1 = v[j]
      BY <3>1
    <3>4. Same(v[j] * (h * w), v[j] * 1, m)
      BY <2>0, <3>1, SameSelf, SameArith
    <3>5. Same(f[j], v[j] * (h * w), m) /\ Same(v[j] * (h * w), v[j], m)
      BY <3>1, <3>2, <3>3, <3>4
    <3> QED
      BY <2>0, <3>5, SameTrans
  <2>7. Same(Total(f, D), f[j], m)
    BY <2>4, <2>5
  <2> QED
    BY <2>0, <2>6, <2>7, SameTrans DEF m
<1> QED
  BY <1>1, <1>2, <1>3

\* Numbers with the same residues are the same modulo the product.
LEMMA ProductSame ==
  ASSUME NEW b, Good(b), NEW x \in Int, NEW z \in Int, \A i \in DOMAIN b : Same(x, z, b[i])
  PROVE  Same(x, z, Product(b)) /\ Product(b) \in Positive
<1> DEFINE D == DOMAIN b
           v == x - z
<1>0. /\ IsFiniteSet(D) /\ (\A k \in D : b[k] \in Positive)
      /\ \A i, k \in D : i # k => Unit(b[i], b[k])
  BY DEF Good, Positive
<1>1. Product(b) = Over(b, D) /\ Product(b) \in Positive
  <2>1. (\A s \in SUBSET D : Over(b, s) \in Positive) /\ Product(b) = Over(b, D)
    BY <1>0, ProductSplit
  <2> QED
    BY <2>1
<1>2. v \in Int
  OBVIOUS
<1>3. ASSUME NEW i \in D PROVE Same(v, 0, b[i])
  <2>1. PICK k \in Int : x = z + b[i] * k
    BY DEF Same
  <2> DEFINE w == b[i] * k
  <2>2. w \in Int
    BY <1>0 DEF Positive
  <2>3. x = z + w
    BY <2>1
  <2> HIDE DEF w
  <2>4. v = 0 + w
    BY <2>2, <2>3
  <2> QED
    BY <1>2, <2>4 DEF Same, w
<1> HIDE DEF v
<1>4. Same(v, 0, Over(b, D))
  BY <1>0, <1>2, <1>3, DividesOver
<1>5. PICK k \in Int : v = 0 + Product(b) * k
  BY <1>1, <1>4 DEF Same
<1> DEFINE w == Product(b) * k
<1>6. w \in Int /\ v = 0 + w
  BY <1>1, <1>5 DEF Positive
<1> HIDE DEF w
<1>7. x = z + w
  BY <1>6 DEF v
<1> QED
  BY <1>1, <1>7 DEF Same, w

\* The representative next to zero.
LEMMA CenteredFacts ==
  ASSUME NEW q \in Nat, q > 0, NEW s \in 0 .. (q - 1)
  PROVE  /\ Same(Centered(s, q), s, q)
         /\ 2 * Abs(Centered(s, q)) <= q /\ Abs(Centered(s, q)) <= q \div 2
         /\ Abs(s) <= q - 1 /\ Abs(Centered(s, q)) <= q - 1
         /\ s <= q \div 2 => Centered(s, q) = s
<1> DEFINE h == q \div 2
           c == Centered(s, q)
<1>1. h \in Nat /\ 2 * h <= q /\ q <= 2 * h + 1
  BY SMT
<1>2. c = IF s > h THEN s - q ELSE s
  BY DEF Centered
<1> HIDE DEF h, c
<1>3. CASE s > h
  <2>1. c = s - q /\ c \in Int /\ -1 \in Int
    BY <1>2, <1>3
  <2>2. s - q = s + q * (-1)
    OBVIOUS
  <2>3. Same(c, s, q)
    <3>1. c = s + q * (-1) /\ s \in Int
      BY <2>1, <2>2
    <3> QED
      BY <2>1, <3>1 DEF Same
  <2>4. Abs(c) = q - s
    BY <2>1 DEF Abs
  <2>5. 2 * Abs(c) <= q /\ Abs(c) <= h /\ Abs(c) <= q - 1
    BY <1>1, <1>3, <2>4
  <2> QED
    BY <1>1, <1>3, <2>3, <2>5 DEF h, c, Abs
<1>4. CASE s <= h
  <2>1. c = s
    BY <1>1, <1>2, <1>4
  <2>2. Same(c, s, q) /\ Abs(c) = s
    BY <2>1, SameSelf DEF Abs
  <2>3. 2 * Abs(c) <= q /\ Abs(c) <= h /\ Abs(c) <= q - 1 /\ Abs(s) <= q - 1
    BY <1>1, <1>4, <2>1, <2>2
  <2> QED
    BY <2>1, <2>2, <2>3 DEF h, c
<1> QED
  BY <1>1, <1>3, <1>4

\* What CRTInterpolate returns.
LEMMA InterpolateFacts ==
  ASSUME NEW x, Good(x.mod), \A i \in DOMAIN x.mod : x.val[i] \in Int
  PROVE  /\ CRTInterpolate(x) \in Int /\ Product(x.mod) \in Positive
         /\ \A i \in DOMAIN x.mod : Same(CRTInterpolate(x), x.val[i], x.mod[i])
         /\ 2 * Abs(CRTInterpolate(x)) <= Product(x.mod)
<1> DEFINE b == x.mod
           D == DOMAIN b
           q == Product(b)
           y == [i \in D |-> (x.val[i] * HatInv(b, i)) % b[i]]
           f == [i \in D |-> ((x.val[i] * HatInv(b, i)) % b[i]) * Hat(b, i)]
           r == CRTInterpolate(x)
<1>0. Good(b) /\ IsFiniteSet(D) /\ DOMAIN f = D /\ q \in Positive
  <2>1. (\A k \in D : b[k] \in Positive) /\ IsFiniteSet(D)
    BY DEF Good, Positive
  <2>2. q \in Positive
    BY <2>1, ProductPositive
  <2> QED
    BY <2>1, <2>2
<1>1. ASSUME NEW i \in D
      PROVE  /\ x.val[i] \in Int /\ Same(y[i], x.val[i] * HatInv(b, i), b[i])
             /\ f[i] = y[i] * Hat(b, i) /\ b[i] \in Nat /\ b[i] > 0
             /\ Same(q, 0, b[i])
  <2>1. /\ b[i] \in Nat /\ b[i] > 1 /\ HatInv(b, i) \in 1 .. (b[i] - 1)
        /\ q = b[i] * Hat(b, i) /\ Hat(b, i) \in Positive
    BY <1>0, HatFacts
  <2>2. x.val[i] \in Int /\ b[i] > 0
    BY <2>1
  <2>3. x.val[i] * HatInv(b, i) \in Int
    BY <2>1, <2>2
  <2>4. Same((x.val[i] * HatInv(b, i)) % b[i], x.val[i] * HatInv(b, i), b[i])
    BY <2>1, <2>2, <2>3, SameSelf
  <2>5. q = 0 + b[i] * Hat(b, i) /\ q \in Int
    BY <1>0, <2>1 DEF Positive
  <2>6. Same(q, 0, b[i])
    BY <2>1, <2>5 DEF Same, Positive
  <2> QED
    BY <2>1, <2>2, <2>4, <2>6
<1>2. r = Centered(SumFunction(f) % q, q)
  BY DEF CRTInterpolate
<1> HIDE DEF b, q, y, f, r
<1> DEFINE w == Total(f, D)
<1>3. w \in Int /\ \A i \in D : f[i] \in Int /\ Same(w, x.val[i], b[i])
  <2>1. \A i \in D : x.val[i] \in Int /\ Same(y[i], x.val[i] * HatInv(b, i), b[i])
    BY <1>1
  <2>2. \A i \in D : f[i] = y[i] * Hat(b, i)
    BY <1>1
  <2> DEFINE v == [i \in D |-> x.val[i]]
  <2>3. \A i \in D : v[i] = x.val[i]
    OBVIOUS
  <2> HIDE DEF v, w, D
  <2>4. \A i \in DOMAIN b : v[i] \in Int /\ Same(y[i], v[i] * HatInv(b, i), b[i])
    BY <2>1, <2>3 DEF D
  <2>5. /\ Total(f, DOMAIN b) \in Int
        /\ \A i \in DOMAIN b : f[i] \in Int /\ Same(Total(f, DOMAIN b), v[i], b[i])
    BY <1>0, <2>2, <2>4, Lifted DEF D
  <2> QED
    BY <2>3, <2>5 DEF D, w
<1>4. SumFunction(f) = w
  <2>1. IsFiniteSet(DOMAIN f) /\ \A i \in DOMAIN f : f[i] \in Int
    BY <1>0, <1>3
  <2>2. SumFunction(f) = Total(f, DOMAIN f)
    BY <2>1, SumIsTotal
  <2> QED
    BY <1>0, <2>2
<1> HIDE DEF w
<1>5. q \in Nat /\ q > 0 /\ w % q \in 0 .. (q - 1)
  <2>1. q \in Nat /\ q > 0
    BY <1>0 DEF Positive
  <2> QED
    BY <1>3, <2>1, ModRange
<1>6. Same(r, w % q, q) /\ 2 * Abs(r) <= q
  BY <1>2, <1>4, <1>5, CenteredFacts
<1>7. Same(w % q, w, q)
  BY <1>3, <1>5, SameSelf
<1>8. Same(r, w, q)
  BY <1>5, <1>6, <1>7, SameTrans
<1>9. ASSUME NEW i \in D PROVE Same(r, x.val[i], b[i])
  <2>1. PICK k \in Int : r \in Int /\ r = w + q * k
    BY <1>8 DEF Same
  <2>2. Same(q, 0, b[i]) /\ Same(k, k, b[i]) /\ Same(w, x.val[i], b[i])
    BY <1>1, <1>3, SameSelf
  <2>3. b[i] \in Nat /\ b[i] > 0 /\ x.val[i] \in Int
    BY <1>1
  <2>4. Same(q * k, 0 * k, b[i])
    BY <2>2, <2>3, SameArith
  <2>5. Same(w + q * k, x.val[i] + 0 * k, b[i])
    BY <2>2, <2>3, <2>4, SameArith
  <2>6. x.val[i] + 0 * k = x.val[i]
    BY <2>3
  <2> QED
    BY <2>1, <2>5, <2>6
<1>10. r \in Int
  BY <1>8 DEF Same
<1> QED
  BY <1>0, <1>6, <1>9, <1>10 DEF r, b, q

\* CRTInterpolate finds the number next to zero that has the residues.
LEMMA Interpolates ==
  ASSUME NEW x, Good(x.mod), NEW z \in Int,
         \A i \in DOMAIN x.mod : Same(x.val[i], z, x.mod[i]), 2 * Abs(z) < Product(x.mod)
  PROVE  CRTInterpolate(x) = z
<1> DEFINE r == CRTInterpolate(x)
           b == x.mod
           q == Product(b)
<1>1. \A i \in DOMAIN b : x.val[i] \in Int
  BY DEF Same
<1>2. /\ r \in Int /\ q \in Positive /\ 2 * Abs(r) <= q
      /\ \A i \in DOMAIN b : Same(r, x.val[i], b[i])
  BY <1>1, InterpolateFacts
<1>3. \A i \in DOMAIN b : Same(r, z, b[i])
  <2> TAKE i \in DOMAIN b
  <2>1. b[i] \in Nat /\ b[i] > 0 /\ Same(x.val[i], z, b[i]) /\ Same(r, x.val[i], b[i])
    BY <1>2, HatFacts
  <2> HIDE DEF r, b
  <2> QED
    BY <2>1, SameTrans
<1>4. Same(r, z, q)
  BY <1>2, <1>3, ProductSame
<1> HIDE DEF r, q
<1>5. PICK k \in Int : r = z + q * k
  BY <1>4 DEF Same
<1>6. q \in Nat /\ q > 0 /\ 2 * Abs(z) < q
  BY <1>2 DEF Positive, q, b
<1>7. k = 0
  <2> DEFINE w == q * k
  <2>1. k >= 1 => w >= q
    <3>1. ASSUME k >= 1 PROVE w >= q
      <4>1. k - 1 \in Nat
        BY <3>1
      <4>2. q * (k - 1) \in Nat /\ w = q * (k - 1) + q
        BY <1>6, <4>1
      <4> QED
        BY <1>6, <4>2
    <3> QED
      BY <3>1
  <2>2. k <= -1 => w <= -q
    <3>1. ASSUME k <= -1 PROVE w <= -q
      <4>1. -k - 1 \in Nat
        BY <3>1
      <4>2. q * (-k - 1) \in Nat /\ w = -(q * (-k - 1)) - q
        BY <1>6, <4>1
      <4> QED
        BY <1>6, <4>2
    <3> QED
      BY <3>1
  <2>3. w \in Int
    BY <1>6
  <2>4. r = z + w /\ 2 * Abs(r) <= q
    BY <1>2, <1>5
  <2> HIDE DEF w
  <2>5. w < q /\ -q < w
    BY <1>2, <1>6, <2>3, <2>4 DEF Abs
  <2> QED
    BY <1>6, <2>1, <2>2, <2>3, <2>5
<1>8. r = z
  BY <1>5, <1>6, <1>7
<1> QED
  BY <1>8 DEF r

\* The most a number without the correction for the basis may be.
Reach(b) == SumFunction([i \in DOMAIN b |-> (b[i] - 1) * Hat(b, i)])

\* ApproxSwitchCRTBasis finds the residues of a number that has those it is
\* given and is not more than that.
Approximates(x, basis, new, z) ==
  /\ z \in Int /\ Abs(z) <= Reach(x.mod)
  /\ \A i \in DOMAIN x.mod : Same(z, x.val[i], x.mod[i])
  /\ new.mod = basis /\ \A j \in DOMAIN basis : new.val[j] = z % basis[j]

LEMMA SwitchApproximates ==
  ASSUME NEW x, Good(x.mod), \A i \in DOMAIN x.mod : x.val[i] \in Int,
         NEW hatInv, \A i \in DOMAIN x.mod : hatInv[i] = HatInv(x.mod, i),
         NEW basis, \A j \in DOMAIN basis : basis[j] \in Nat /\ basis[j] > 0,
         NEW hatMod,
         \A i \in DOMAIN x.mod : \A j \in DOMAIN basis : hatMod[i][j] = Hat(x.mod, i) % basis[j],
         NEW int128
  PROVE  \E z : Approximates(x, basis, ApproxSwitchCRTBasis(x, hatInv, hatMod, basis, int128), z)
<1> DEFINE b == x.mod
           D == DOMAIN b
           u(i) == (x.val[i] * hatInv[i]) % b[i]
           part(i) == IF int128 THEN u(i) ELSE Centered(u(i), b[i])
           y == [i \in D |-> part(i)]
           f == [i \in D |-> part(i) * Hat(b, i)]
           g == [i \in D |-> (b[i] - 1) * Hat(b, i)]
           z == Total(f, D)
           new == ApproxSwitchCRTBasis(x, hatInv, hatMod, basis, int128)
<1>0. IsFiniteSet(D) /\ Good(b)
  BY DEF Good
<1>1. ASSUME NEW i \in D
      PROVE  /\ b[i] \in Nat /\ b[i] > 1 /\ Hat(b, i) \in Nat /\ y[i] \in Int
             /\ Same(y[i], x.val[i] * HatInv(b, i), b[i])
             /\ Abs(y[i]) <= b[i] - 1
  <2>1. b[i] \in Nat /\ b[i] > 1 /\ b[i] > 0 /\ HatInv(b, i) \in Int /\ Hat(b, i) \in Nat
    BY <1>0, HatFacts DEF Positive
  <2>2. x.val[i] \in Int /\ hatInv[i] = HatInv(b, i)
    OBVIOUS
  <2> DEFINE v == x.val[i] * HatInv(b, i)
  <2>3. v \in Int /\ u(i) = v % b[i] /\ y[i] = part(i)
    BY <2>1, <2>2
  <2> HIDE DEF v
  <2>4. u(i) \in 0 .. (b[i] - 1) /\ Same(u(i), v, b[i])
    BY <2>1, <2>3, ModRange, SameSelf
  <2> DEFINE c == Centered(u(i), b[i])
  <2>5. Same(c, u(i), b[i]) /\ Abs(c) <= b[i] - 1 /\ Abs(u(i)) <= b[i] - 1
    BY <2>1, <2>4, CenteredFacts
  <2>6. part(i) = IF int128 THEN u(i) ELSE c
    OBVIOUS
  <2> HIDE DEF c, part, u, y
  <2>7. Same(c, v, b[i])
    BY <2>1, <2>4, <2>5, SameTrans
  <2>8. Same(y[i], v, b[i]) /\ Abs(y[i]) <= b[i] - 1
    BY <2>3, <2>4, <2>5, <2>6, <2>7
  <2>9. y[i] \in Int
    BY <2>8 DEF Same
  <2> QED
    BY <2>1, <2>8, <2>9 DEF v
<1>2. /\ z \in Int
      /\ \A i \in D : f[i] \in Int /\ Same(z, x.val[i], b[i])
  <2> DEFINE v == [i \in D |-> x.val[i]]
  <2>1. \A i \in D : v[i] = x.val[i] /\ v[i] \in Int /\ f[i] = y[i] * Hat(b, i)
    OBVIOUS
  <2> HIDE DEF v, z, y, f
  <2>2. \A i \in D : v[i] \in Int /\ Same(y[i], v[i] * HatInv(b, i), b[i])
    BY <1>1, <2>1
  <2>3. \A i \in D : f[i] = y[i] * Hat(b, i)
    BY <2>1
  <2>4. /\ Total(f, DOMAIN b) \in Int
        /\ \A i \in DOMAIN b : f[i] \in Int /\ Same(Total(f, DOMAIN b), v[i], b[i])
    BY <1>0, <2>2, <2>3, Lifted
  <2> QED
    BY <2>1, <2>4 DEF z
<1>3. Abs(z) <= Reach(b)
  <2>1. ASSUME NEW i \in D PROVE f[i] \in Int /\ g[i] \in Int /\ Abs(f[i]) <= g[i]
    <3> DEFINE h == Hat(b, i)
               a == Abs(y[i])
    <3>1. y[i] \in Int /\ h \in Nat /\ a <= b[i] - 1 /\ b[i] \in Nat /\ b[i] > 1
      BY <1>1
    <3>2. f[i] = y[i] * h /\ g[i] = (b[i] - 1) * h
      OBVIOUS
    <3> HIDE DEF h, a, y, f, g
    <3>3. a \in Nat /\ b[i] - 1 \in Nat /\ Abs(h) = h
      BY <3>1 DEF a, Abs
    <3>4. a * h <= (b[i] - 1) * h
      BY <3>1, <3>3, ProductMonotone
    <3>5. Abs(y[i] * h) = a * h
      <4>1. h \in Int
        BY <3>1
      <4>2. Abs(y[i] * h) = Abs(y[i]) * Abs(h)
        BY <3>1, <4>1, AbsFacts
      <4> QED
        BY <3>3, <4>2 DEF a
    <3>6. y[i] * h \in Int /\ (b[i] - 1) * h \in Int
      BY <3>1
    <3> QED
      BY <3>2, <3>4, <3>5, <3>6
  <2>2. Abs(z) <= Total(g, D)
    <3> HIDE DEF f, g
    <3>1. \A i \in D : f[i] \in Int /\ g[i] \in Int /\ Abs(f[i]) <= g[i]
      BY <2>1
    <3> QED
      BY <1>0, <3>1, TotalBound
  <2>3. SumFunction(g) = Total(g, D)
    <3>1. DOMAIN g = D
      OBVIOUS
    <3> HIDE DEF g
    <3> QED
      BY <1>0, <2>1, <3>1, SumIsTotal
  <2>4. Reach(b) = SumFunction(g)
    BY DEF Reach
  <2> QED
    BY <2>2, <2>3, <2>4
<1>4. new.mod = basis /\ \A j \in DOMAIN basis : new.val[j] = z % basis[j]
  <2>1. new.mod = basis
    BY DEF ApproxSwitchCRTBasis
  <2>2. ASSUME NEW j \in DOMAIN basis PROVE new.val[j] = z % basis[j]
    <3> DEFINE m == basis[j]
               s == [i \in D |-> part(i) * hatMod[i][j]]
    <3>1. new.val[j] = SumFunction(s) % m
      BY DEF ApproxSwitchCRTBasis
    <3>2. m \in Nat /\ m > 0
      OBVIOUS
    <3>3. DOMAIN s = D /\ \A i \in D : s[i] = y[i] * hatMod[i][j] /\ f[i] = y[i] * Hat(b, i)
      OBVIOUS
    <3>a. \A i \in D : hatMod[i][j] = Hat(b, i) % m
      OBVIOUS
    <3> HIDE DEF s, y, f, part, new, m
    <3>4. ASSUME NEW i \in D PROVE Same(s[i], f[i], m) /\ s[i] \in Int
      <4>1. y[i] \in Int /\ Hat(b, i) \in Int
        BY <1>1
      <4>2. Same(y[i], y[i], m) /\ Same(Hat(b, i) % m, Hat(b, i), m)
        BY <3>2, <4>1, SameSelf
      <4>3. Same(y[i] * (Hat(b, i) % m), y[i] * Hat(b, i), m)
        BY <3>2, <4>2, SameArith
      <4>4. Same(s[i], f[i], m)
        BY <3>3, <3>a, <4>3
      <4> QED
        BY <4>4 DEF Same
    <3>5. Same(Total(s, D), z, m)
      BY <1>0, <3>2, <3>4, TotalCongruent
    <3>6. SumFunction(s) = Total(s, D)
      BY <1>0, <3>3, <3>4, SumIsTotal
    <3> QED
      BY <3>1, <3>2, <3>5, <3>6, SameRemainder DEF m
  <2> QED
    BY <2>1, <2>2
<1>5. Approximates(x, basis, new, z)
  <2> HIDE DEF z, new
  <2> QED
    BY <1>2, <1>3, <1>4 DEF Approximates
<1> QED
  BY <1>5

-----------------------------------------------------------------------------
(* Phases *)

\* The moduli of a level.
LEMMA LevelBasis ==
  ASSUME Params, NEW l \in 1 .. SizeQ
  PROVE  /\ l \in Nat /\ l >= 1 /\ l <= SizeQ /\ SizeQ \in Nat /\ 0 \in 0 .. (l - 1)
         /\ BasisQ(l) = [i \in 0 .. (l - 1) |-> Q(i)] /\ DOMAIN BasisQ(l) = 0 .. (l - 1)
         /\ \A i \in 0 .. (l - 1) : /\ BasisQ(l)[i] = Q(i) /\ i \in 0 .. (SizeQ - 1)
                                    /\ Q(i) \in Nat /\ Q(i) > 1 /\ Q(i) > 0
<1>1. SizeQ \in Nat /\ l \in Nat /\ l >= 1 /\ l <= SizeQ
  BY Sizes
<1>2. setting.q \in Seq(Nat \ {0, 1})
  BY KeySwitchAssumption DEF Params
<1>3. ASSUME NEW i \in 0 .. (l - 1) PROVE i \in 0 .. (SizeQ - 1) /\ Q(i) \in Nat /\ Q(i) > 1 /\ Q(i) > 0
  <2>1. i \in 0 .. (SizeQ - 1) /\ i + 1 \in 1 .. SizeQ
    BY <1>1
  <2>2. setting.q[i + 1] \in Nat \ {0, 1}
    BY <1>2, <2>1 DEF SizeQ
  <2> QED
    BY <2>1, <2>2 DEF Q
<1> QED
  BY <1>1, <1>3 DEF BasisQ

\* A tower of an element at a level has the residue of v.
On(x, l, i, v) == x.mod = BasisQ(l) /\ Same(x.val[i], v, Q(i))

\* Sums and products of elements have the residues of those of the numbers,
\* and are reduced.
LEMMA OnArith ==
  ASSUME Params, NEW l \in 1 .. SizeQ, NEW i \in 0 .. (l - 1), NEW x, NEW u, On(x, l, i, u)
  PROVE  /\ \A c \in Int : On(TimesInt(x, c), l, i, u * c) /\ TimesInt(x, c).val[i] \in 0 .. (Q(i) - 1)
         /\ \A y, v : On(y, l, i, v) =>
              /\ On(Plus(x, y), l, i, u + v) /\ Plus(x, y).val[i] \in 0 .. (Q(i) - 1)
              /\ On(Times(x, y), l, i, u * v) /\ Times(x, y).val[i] \in 0 .. (Q(i) - 1)
<1> DEFINE m == Q(i)
<1>1. m \in Nat /\ m > 0
  BY LevelBasis
<1>2. x.mod = BasisQ(l) /\ i \in DOMAIN x.mod /\ x.mod[i] = m /\ Same(x.val[i], u, m)
  BY LevelBasis DEF On
<1> HIDE DEF m
<1>3. ASSUME NEW c \in Int
      PROVE  On(TimesInt(x, c), l, i, u * c) /\ TimesInt(x, c).val[i] \in 0 .. (m - 1)
  <2>1. Same(x.val[i] * c, u * c, m)
    BY <1>1, <1>2, SameSelf, SameArith
  <2>2. Same((x.val[i] * c) % m, u * c, m) /\ x.val[i] * c \in Int
    BY <1>1, <2>1, SameRemainder
  <2>3. TimesInt(x, c).mod = BasisQ(l) /\ TimesInt(x, c).val[i] = (x.val[i] * c) % m
    BY <1>2 DEF TimesInt
  <2>4. (x.val[i] * c) % m \in 0 .. (m - 1)
    BY <1>1, <2>2, ModRange
  <2> QED
    BY <2>2, <2>3, <2>4 DEF On, m
<1>4. ASSUME NEW y, NEW v, On(y, l, i, v)
      PROVE  /\ On(Plus(x, y), l, i, u + v) /\ Plus(x, y).val[i] \in 0 .. (m - 1)
             /\ On(Times(x, y), l, i, u * v) /\ Times(x, y).val[i] \in 0 .. (m - 1)
  <2>1. Same(y.val[i], v, m)
    BY <1>4 DEF On, m
  <2>2. Same(x.val[i] + y.val[i], u + v, m) /\ Same(x.val[i] * y.val[i], u * v, m)
    BY <1>1, <1>2, <2>1, SameArith
  <2>3. Same((x.val[i] + y.val[i]) % m, u + v, m) /\ x.val[i] + y.val[i] \in Int
    BY <1>1, <2>2, SameRemainder
  <2>4. Same((x.val[i] * y.val[i]) % m, u * v, m) /\ x.val[i] * y.val[i] \in Int
    BY <1>1, <2>2, SameRemainder
  <2>5. Plus(x, y).mod = BasisQ(l) /\ Plus(x, y).val[i] = (x.val[i] + y.val[i]) % m
    BY <1>2 DEF Plus
  <2>6. Times(x, y).mod = BasisQ(l) /\ Times(x, y).val[i] = (x.val[i] * y.val[i]) % m
    BY <1>2 DEF Times
  <2>7. (x.val[i] + y.val[i]) % m \in 0 .. (m - 1)
    BY <1>1, <2>3, ModRange
  <2>8. (x.val[i] * y.val[i]) % m \in 0 .. (m - 1)
    BY <1>1, <2>4, ModRange
  <2> QED
    BY <2>3, <2>4, <2>5, <2>6, <2>7, <2>8 DEF On, m
<1> QED
  BY <1>3, <1>4 DEF m

\* An element made from a number.
LEMMA OnElement ==
  ASSUME Params, NEW l \in 1 .. SizeQ, NEW i \in 0 .. (l - 1), NEW x \in Int
  PROVE  On(Element(x, BasisQ(l)), l, i, x) /\ Element(x, BasisQ(l)).val[i] \in 0 .. (Q(i) - 1)
<1>1. Q(i) \in Nat /\ Q(i) > 0 /\ i \in DOMAIN BasisQ(l) /\ BasisQ(l)[i] = Q(i)
  BY LevelBasis
<1>2. Element(x, BasisQ(l)).mod = BasisQ(l) /\ Element(x, BasisQ(l)).val[i] = x % Q(i)
  BY <1>1 DEF Element
<1> QED
  BY <1>1, <1>2, SameSelf, ModRange DEF On

\* The elements of a ciphertext at a level: two or three, reduced.
Elements(e, l) ==
  /\ DOMAIN e \in {1 .. 2, 1 .. 3}
  /\ \A k \in DOMAIN e : e[k].mod = BasisQ(l) /\ \A i \in 0 .. (l - 1) : e[k].val[i] \in 0 .. (Q(i) - 1)

Third(e, i) == IF 3 \in DOMAIN e THEN e[3].val[i] ELSE 0

\* A tower of what the elements decrypt to under s.
Phase(e, i, s) == e[1].val[i] + e[2].val[i] * s + Third(e, i) * (s * s)

\* The elements decrypt to z, before it is reduced modulo the plaintext modulus.
Carries(e, l, s, z) == Elements(e, l) /\ \A i \in 0 .. (l - 1) : Same(Phase(e, i, s), z, Q(i))

\* Residues of elements are integers.
LEMMA ElementsInt ==
  ASSUME Params, NEW l \in 1 .. SizeQ, NEW e, Elements(e, l), NEW s \in Int, NEW i \in 0 .. (l - 1)
  PROVE  /\ 1 \in DOMAIN e /\ 2 \in DOMAIN e
         /\ e[1].val[i] \in Int /\ e[2].val[i] \in Int /\ Third(e, i) \in Int /\ s * s \in Int
         /\ e[2].val[i] * s \in Int /\ Third(e, i) * (s * s) \in Int
         /\ Phase(e, i, s) \in Int
         /\ \A k \in DOMAIN e : On(e[k], l, i, e[k].val[i])
<1>1. Q(i) \in Nat /\ Q(i) > 0
  BY LevelBasis
<1>2. \A k \in DOMAIN e : e[k].val[i] \in 0 .. (Q(i) - 1) /\ e[k].mod = BasisQ(l)
  BY DEF Elements
<1>3. 1 \in DOMAIN e /\ 2 \in DOMAIN e
  BY DEF Elements
<1>4. \A k \in DOMAIN e : e[k].val[i] \in Int
  BY <1>1, <1>2
<1>5. e[1].val[i] \in Int /\ e[2].val[i] \in Int /\ Third(e, i) \in Int /\ s * s \in Int
  BY <1>3, <1>4 DEF Third
<1>6. e[2].val[i] * s \in Int /\ Third(e, i) * (s * s) \in Int
  <2> DEFINE r == s * s
             t == Third(e, i)
             a == e[2].val[i]
  <2>1. r \in Int /\ t \in Int /\ a \in Int
    BY <1>5
  <2> HIDE DEF r, t, a
  <2>2. a * s \in Int /\ t * r \in Int
    BY <2>1
  <2> QED
    BY <2>2 DEF r, t, a
<1>7. \A k \in DOMAIN e : On(e[k], l, i, e[k].val[i])
  BY <1>1, <1>2, <1>4, SameSelf DEF On
<1> QED
  BY <1>3, <1>5, <1>6, <1>7 DEF Phase

\* DecryptCore finds what the elements carry.
LEMMA DecryptCoreIs ==
  ASSUME Params, NEW l \in 1 .. SizeQ, NEW c, Len(c.elems) = IF 3 \in DOMAIN c.elems THEN 3 ELSE 2,
         SecretOf(c) \in Int, NEW z, Carries(c.elems, l, SecretOf(c), z)
  PROVE  /\ DecryptCore(c).mod = BasisQ(l)
         /\ DecryptCore(c) = [mod |-> BasisQ(l), val |-> [i \in 0 .. (l - 1) |-> DecryptCore(c).val[i]]]
         /\ \A i \in 0 .. (l - 1) : /\ Same(DecryptCore(c).val[i], z, Q(i))
                                    /\ DecryptCore(c).val[i] \in 0 .. (Q(i) - 1)
<1> DEFINE e == c.elems
           s == SecretOf(c)
           se == Element(s, BasisQ(l))
           linear == Plus(e[1], Times(e[2], se))
           square == Plus(linear, Times(e[3], Times(se, se)))
           r == DecryptCore(c)
<1>1. Elements(e, l) /\ 1 \in DOMAIN e /\ e[1].mod = BasisQ(l) /\ s \in Int
  BY DEF Carries, Elements
<1>2. r = IF 3 \in DOMAIN e THEN square ELSE linear
  BY <1>1 DEF DecryptCore
<1> HIDE DEF r, s
<1>3. ASSUME NEW i \in 0 .. (l - 1)
      PROVE  Same(r.val[i], z, Q(i)) /\ r.val[i] \in 0 .. (Q(i) - 1)
  <2> DEFINE a1 == e[1].val[i]
             a2 == e[2].val[i]
             a3 == e[3].val[i]
  <2>1. On(e[1], l, i, a1) /\ On(e[2], l, i, a2) /\ (3 \in DOMAIN e => On(e[3], l, i, a3))
    BY <1>1, ElementsInt
  <2>2. On(se, l, i, s)
    BY <1>1, OnElement
  <2> HIDE DEF e, se, a1, a2, a3
  <2>3. On(Times(e[2], se), l, i, a2 * s)
    BY <2>1, <2>2, OnArith
  <2>4. On(linear, l, i, a1 + a2 * s) /\ linear.val[i] \in 0 .. (Q(i) - 1)
    BY <2>1, <2>3, OnArith
  <2>5. On(Times(se, se), l, i, s * s)
    BY <2>2, OnArith
  <2>6. ASSUME 3 \in DOMAIN e
        PROVE  On(square, l, i, (a1 + a2 * s) + a3 * (s * s)) /\ square.val[i] \in 0 .. (Q(i) - 1)
    <3>1. On(Times(e[3], Times(se, se)), l, i, a3 * (s * s))
      BY <2>1, <2>5, <2>6, OnArith
    <3> DEFINE u == a1 + a2 * s
               v == a3 * (s * s)
               y == Times(e[3], Times(se, se))
    <3>2. On(linear, l, i, u) /\ On(y, l, i, v) /\ square = Plus(linear, y)
      BY <2>4, <3>1
    <3> HIDE DEF linear, u, v, y, square
    <3>3. On(square, l, i, u + v) /\ square.val[i] \in 0 .. (Q(i) - 1)
      BY <3>2, OnArith
    <3> QED
      BY <3>3 DEF u, v
  <2>7. Phase(e, i, s) = IF 3 \in DOMAIN e THEN (a1 + a2 * s) + a3 * (s * s) ELSE a1 + a2 * s
    <3>1. a1 \in Int /\ a2 * s \in Int /\ s * s \in Int
      BY <1>1, ElementsInt DEF a1, a2, e
    <3> DEFINE w == s * s
    <3>2. 0 * w = 0
      BY <3>1
    <3>3. Third(e, i) = IF 3 \in DOMAIN e THEN a3 ELSE 0
      BY DEF Third, a3
    <3>4. Phase(e, i, s) = a1 + a2 * s + Third(e, i) * w
      BY DEF Phase, a1, a2
    <3> HIDE DEF w
    <3>5. CASE 3 \in DOMAIN e
      BY <3>3, <3>4, <3>5 DEF w
    <3>6. CASE 3 \notin DOMAIN e
      BY <3>1, <3>2, <3>3, <3>4, <3>6
    <3> QED
      BY <3>5, <3>6
  <2>8. Same(r.val[i], Phase(e, i, s), Q(i)) /\ r.val[i] \in 0 .. (Q(i) - 1)
    <3> HIDE DEF linear, square
    <3> QED
      BY <1>2, <2>4, <2>6, <2>7 DEF On
  <2>9. Same(Phase(e, i, s), z, Q(i)) /\ Q(i) \in Nat /\ Q(i) > 0
    BY LevelBasis DEF Carries, e, s
  <2> QED
    BY <2>8, <2>9, SameTrans
<1>4. r.mod = BasisQ(l) /\ r = [mod |-> BasisQ(l), val |-> [i \in 0 .. (l - 1) |-> r.val[i]]]
  <2>1. \A x, y : x.mod = BasisQ(l) =>
          /\ Plus(x, y).mod = BasisQ(l)
          /\ Plus(x, y) = [mod |-> BasisQ(l), val |-> [i \in 0 .. (l - 1) |-> Plus(x, y).val[i]]]
    BY LevelBasis DEF Plus
  <2>2. linear.mod = BasisQ(l)
    BY <1>1, <2>1
  <2> HIDE DEF e, se
  <2>3. CASE 3 \in DOMAIN e
    <3> HIDE DEF linear
    <3> QED
      BY <1>2, <2>1, <2>2, <2>3
  <2>4. CASE 3 \notin DOMAIN e
    BY <1>1, <1>2, <2>1, <2>4 DEF e
  <2> QED
    BY <2>3, <2>4
<1> QED
  BY <1>3, <1>4 DEF r

-----------------------------------------------------------------------------
(* What the towers can hold *)

\* The moduli of a level have inverses modulo each other.
LEMMA LevelGood ==
  ASSUME Params, SpecialOK, NEW l \in 1 .. SizeQ
  PROVE  Good(BasisQ(l))
<1>1. l \in Nat /\ DOMAIN BasisQ(l) = 0 .. (l - 1) /\ \A i \in 0 .. (l - 1) : BasisQ(l)[i] = Q(i) /\ i \in 0 .. (SizeQ - 1)
  BY LevelBasis
<1>2. IsFiniteSet(0 .. (l - 1))
  <2>1. 0 \in Int /\ l - 1 \in Int
    BY <1>1
  <2> QED
    BY <2>1, FS_Interval
<1>3. /\ \A i \in 0 .. (SizeQ - 1) : Q(i) \in Nat /\ Q(i) > 1
      /\ \A i, k \in 0 .. (SizeQ - 1) : i # k => Unit(Q(i), Q(k))
  BY ModuliUnits
<1> QED
  BY <1>1, <1>2, <1>3 DEF Good

\* The product of the moduli but the first.
Moduli == [i \in 0 .. (SizeQ - 1) |-> Q(i)]
Rest(l) == Over(Moduli, 1 .. (l - 1))

\* It grows by a modulus with each level.
LEMMA RestFacts ==
  ASSUME Params, NEW l \in 1 .. SizeQ
  PROVE  /\ Rest(l) \in Nat /\ Rest(l) > 0 /\ Product(BasisQ(l)) = Q(0) * Rest(l)
         /\ l = 1 => Rest(l) = 1
         /\ l > 1 => Rest(l) = Q(l - 1) * Rest(l - 1)
<1> DEFINE D == 0 .. (SizeQ - 1)
           b == BasisQ(l)
           E == 0 .. (l - 1)
           R == 1 .. (l - 1)
<1>1. /\ l \in Nat /\ l >= 1 /\ l <= SizeQ /\ SizeQ \in Nat
      /\ DOMAIN b = E /\ \A i \in E : b[i] = Q(i) /\ i \in D /\ Q(i) \in Positive
  BY LevelBasis DEF Positive
<1>2. \A i \in D : Q(i) \in Positive
  <2>1. SizeQ \in 1 .. SizeQ
    BY <1>1
  <2> QED
    BY <2>1, LevelBasis DEF Positive
<1>3. IsFiniteSet(D) /\ IsFiniteSet(E)
  <2>1. 0 \in Int /\ SizeQ - 1 \in Int /\ l - 1 \in Int
    BY <1>1
  <2> QED
    BY <2>1, FS_Interval
<1>4. /\ \A s \in SUBSET D : Over(Moduli, s) \in Positive
      /\ Over(Moduli, {}) = 1
      /\ \A s \in SUBSET D : \A x \in s : Over(Moduli, s) = Moduli[x] * Over(Moduli, s \ {x})
  <2>1. \A i \in D : Moduli[i] \in Positive
    BY <1>2 DEF Moduli
  <2> HIDE DEF D
  <2> QED
    BY <1>3, <2>1, ProductSplit
<1>5. Product(b) = Over(b, E)
  <2>1. \A i \in E : b[i] \in Positive
    BY <1>1
  <2> HIDE DEF b, E
  <2> QED
    BY <1>1, <1>3, <2>1, ProductSplit
<1>6. Over(b, E) = Over(Moduli, E)
  <2>1. \A k \in E : b[k] = Moduli[k]
    BY <1>1 DEF Moduli
  <2> HIDE DEF b, E
  <2>2. [k \in E |-> b[k]] = [k \in E |-> Moduli[k]]
    BY <2>1
  <2> QED
    BY <2>2 DEF Over
<1>7. E \in SUBSET D /\ R \in SUBSET D /\ 0 \in E /\ E \ {0} = R
  BY <1>1
<1>8. Over(Moduli, E) = Q(0) * Over(Moduli, R)
  <2>1. Over(Moduli, E) = Moduli[0] * Over(Moduli, E \ {0})
    BY <1>4, <1>7
  <2>2. Moduli[0] = Q(0)
    BY <1>7 DEF Moduli
  <2> QED
    BY <1>7, <2>1, <2>2
<1>9. ASSUME l > 1 PROVE Rest(l) = Q(l - 1) * Rest(l - 1)
  <2>1. l - 1 \in R /\ R \ {l - 1} = 1 .. ((l - 1) - 1) /\ l - 1 \in D
    BY <1>1, <1>9
  <2>2. Over(Moduli, R) = Moduli[l - 1] * Over(Moduli, R \ {l - 1})
    BY <1>4, <1>7, <2>1
  <2>3. Moduli[l - 1] = Q(l - 1)
    BY <2>1 DEF Moduli
  <2> HIDE DEF R
  <2> QED
    BY <2>1, <2>2, <2>3 DEF Rest, R
<1>10. ASSUME l = 1 PROVE Rest(l) = 1
  <2>1. R = {}
    BY <1>10
  <2> QED
    BY <1>4, <2>1 DEF Rest
<1>11. Rest(l) \in Positive
  BY <1>4, <1>7 DEF Rest
<1> QED
  BY <1>5, <1>6, <1>8, <1>9, <1>10, <1>11 DEF Rest, Positive

\* What the first modulus leaves for phases.
Leeway == Q(0) - 1 - 2 * T

LEMMA LeewayFits ==
  ASSUME Params
  PROVE  /\ T \in Nat /\ T > 0 /\ Q(0) \in Nat /\ Leeway \in Nat /\ MaxNoise \in Nat
         /\ 2 * (T \div 2 + T * MaxNoise) <= Leeway
<1>1. setting \in Settings /\ T = setting.t /\ Q(0) = setting.q[1] /\ T \in Nat /\ T > 0 /\ MaxNoise \in Nat
  BY KeySwitchAssumption DEF Params, T, Q
<1>2. Q(0) \in Nat
  <2>1. 1 \in 1 .. SizeQ /\ 0 \in 0 .. (1 - 1)
    BY Sizes
  <2> QED
    BY <2>1, LevelBasis
<1>3. 2 * (T \div 2 + T * MaxNoise) <= Leeway
  BY <1>1, ModulusAssumption DEF Leeway
<1>4. T \div 2 + T * MaxNoise \in Nat
  <2>0. 2 \in Nat \ {0}
    OBVIOUS
  <2>2. T \div 2 \in Nat
    BY <1>1, <2>0, Division
  <2>1. T \div 2 \in Nat /\ T * MaxNoise \in Nat
    BY <1>1, <2>2
  <2> QED
    BY <2>1
<1>5. Leeway \in Int
  BY <1>1, <1>2 DEF Leeway
<1>6. Leeway \in Nat
  BY <1>3, <1>4, <1>5
<1> QED
  BY <1>1, <1>2, <1>3, <1>6

\* What a budget allows.
LEMMA BudgetFacts ==
  ASSUME Params, NEW l \in 1 .. SizeQ
  PROVE  /\ Budget(l) \in Nat /\ 2 * Budget(l) <= Leeway * Rest(l)
         /\ 2 * Budget(l) < Product(BasisQ(l))
         /\ \A z \in Nat : 2 * z <= Leeway => z <= Budget(l)
<1> DEFINE r == Rest(l)
           q == Q(0)
           p == Product(BasisQ(l))
           x == Leeway * r
           h == x \div 2
<1>1. r \in Nat /\ r > 0 /\ p = q * r
  BY RestFacts
<1>2. q \in Nat /\ Leeway \in Nat /\ Leeway = q - 1 - 2 * T /\ T \in Nat
  BY LeewayFits DEF Leeway
<1>3. q > 0
  BY <1>2
<1> HIDE DEF r, q, p
<1>4. p \div q = r
  <2>1. p \in Int /\ p = q * r
    BY <1>1, <1>2
  <2>2. p = (p % q) + q * (p \div q) /\ p \div q \in Int
    BY <1>2, <1>3, <2>1, DivMod
  <2>3. p % q = 0
    <3>1. (q * r + 0) % q = 0
      <4>1. 0 \in 0 .. (q - 1) /\ r \in Int
        BY <1>1, <1>2, <1>3
      <4> QED
        BY <1>2, <1>3, <4>1, ModUnique
    <3>2. q * r + 0 = p
      BY <2>1
    <3> QED
      BY <3>1, <3>2
  <2> DEFINE d == p \div q
             o == p % q
  <2>a. p = o + q * d /\ o = 0 /\ d \in Int
    BY <2>2, <2>3
  <2> HIDE DEF d, o
  <2>4. q * d = q * r
    BY <1>2, <2>1, <2>a
  <2>5. q * (d - r) = 0
    BY <1>1, <1>2, <2>4, <2>a
  <2>6. d = r
    BY <1>1, <1>2, <1>3, <2>a, <2>5
  <2> QED
    BY <2>6 DEF d
<1>5. Budget(l) = h
  BY <1>2, <1>4 DEF Budget, q, p
<1>6. x \in Nat
  BY <1>1, <1>2
<1> DEFINE g == Leeway
<1>7. g \in Nat /\ x = g * r /\ g < q
  BY <1>2
<1>8. x < p /\ g <= x
  <2> HIDE DEF g, x
  <2>1. PICK a \in Nat : q = g + a + 1
    BY <1>2, <1>7
  <2>2. p = g * r + a * r + r /\ a * r \in Nat
    BY <1>1, <1>2, <1>7, <2>1
  <2>3. PICK c \in Nat : r = c + 1
    BY <1>1
  <2>4. g * r = g * c + g /\ g * c \in Nat
    BY <1>7, <2>3
  <2>5. x = g * r /\ g \in Nat
    BY <1>7
  <2> DEFINE gr == g * r
             ar == a * r
             gc == g * c
  <2>6. p = gr + ar + r /\ ar \in Nat /\ gr = gc + g /\ gc \in Nat /\ x = gr /\ g \in Nat
    BY <2>2, <2>4, <2>5
  <2> HIDE DEF gr, ar, gc
  <2> QED
    BY <1>1, <2>6
<1> HIDE DEF x, g
<1>9. h \in Nat /\ 2 * h <= x /\ \A z \in Nat : 2 * z <= x => z <= h
  BY <1>6
<1> HIDE DEF h
<1>10. \A z \in Nat : 2 * z <= Leeway => z <= h
  <2> TAKE z \in Nat
  <2> HAVE 2 * z <= Leeway
  <2>1. 2 * z <= g
    BY DEF g
  <2>2. 2 * z <= x
    BY <1>6, <1>7, <1>8, <2>1
  <2> QED
    BY <1>9, <2>2
<1>11. 2 * h < p
  <2>1. p \in Int
    BY <1>1, <1>2
  <2> QED
    BY <1>6, <1>8, <1>9, <2>1
<1> QED
  BY <1>5, <1>9, <1>10, <1>11 DEF x, p, r

-----------------------------------------------------------------------------
(* Reductions *)

\* ModReduce adds a small multiple of the plaintext modulus that makes the
\* number divisible by the modulus that is dropped.
ReducesBy(x, l, d) ==
  /\ d \in Int /\ Abs(d) <= Q(l - 1) \div 2
  /\ Same(x.val[l - 1] + T * d, 0, Q(l - 1))
  /\ \A i \in 0 .. ((l - 1) - 1) :
       /\ Same(ModReduce(x, T).val[i] * Q(l - 1), x.val[i] + T * d, Q(i))
       /\ ModReduce(x, T).val[i] \in 0 .. (Q(i) - 1)

LEMMA ModReduceIs ==
  ASSUME Params, SpecialOK, NEW l \in 1 .. SizeQ, l > 1, NEW x, x.mod = BasisQ(l),
         \A i \in 0 .. (l - 1) : x.val[i] \in Int
  PROVE  /\ \E d : ReducesBy(x, l, d)
         /\ ModReduce(x, T).mod = BasisQ(l - 1)
         /\ ModReduce(x, T) = [mod |-> BasisQ(l - 1),
                               val |-> [i \in 0 .. ((l - 1) - 1) |-> ModReduce(x, T).val[i]]]
<1> DEFINE k == l - 1
           q == Q(k)
           inv == ModInverse(T % q, q)
           delta == (x.val[k] * (-inv)) % q
           d == Centered(delta, q)
           r == ModReduce(x, T)
<1>0. /\ l \in Nat /\ k \in Nat /\ k \in 0 .. (l - 1) /\ k \in 1 .. SizeQ /\ k \in 0 .. (SizeQ - 1)
      /\ DOMAIN x.mod = 0 .. (l - 1) /\ x.mod[k] = q /\ q \in Nat /\ q > 1 /\ q > 0
  <2>1. k \in 0 .. (l - 1)
    BY LevelBasis
  <2> QED
    BY <2>1, LevelBasis
<1>1. Size(x) = l /\ Size(x) - 1 = k
  BY <1>0, SizeOfInterval DEF Size
<1>2. T \in Nat /\ T > 0 /\ Unit(T, q)
  BY <1>0, ModuliUnits
<1>3. inv \in 1 .. (q - 1) /\ Same(T * inv, 1, q) /\ inv \in Int
  <2>1. inv \in 1 .. (q - 1) /\ Same(T * inv, 1, q)
    BY <1>0, <1>2, InverseIs
  <2> QED
    BY <1>0, <2>1
<1>4. /\ r.mod = First(x.mod, k)
      /\ r.val = [i \in 0 .. (k - 1) |->
                    LET m == x.mod[i]
                    IN  ((x.val[i] + T * SwitchModulus(delta, q, m)) * ModInverse(q % m, m)) % m]
      /\ r = [mod |-> r.mod, val |-> r.val]
  BY <1>0, <1>1 DEF ModReduce
<1>5. r.mod = BasisQ(k)
  <2>1. \A i \in 0 .. (k - 1) : x.mod[i] = BasisQ(k)[i]
    <3>1. \A i \in 0 .. (k - 1) : i \in 0 .. (l - 1)
      BY <1>0
    <3> QED
      BY <1>0, <3>1, LevelBasis
  <2> HIDE DEF r, k
  <2>2. BasisQ(k) = [i \in 0 .. (k - 1) |-> BasisQ(k)[i]]
    BY DEF BasisQ
  <2> QED
    BY <1>4, <2>1, <2>2 DEF First
<1>6. x.val[k] \in Int /\ -inv \in Int /\ x.val[k] * (-inv) \in Int
  <2>1. x.val[k] \in Int /\ -inv \in Int
    BY <1>0, <1>3
  <2> HIDE DEF inv, k
  <2> QED
    BY <2>1
<1> HIDE DEF inv, r
<1>7. delta \in 0 .. (q - 1) /\ Same(delta, x.val[k] * (-inv), q)
  BY <1>0, <1>6, ModRange, SameSelf
<1> HIDE DEF delta
<1>8. Same(d, delta, q) /\ Abs(d) <= q \div 2 /\ d \in Int
  <2>1. Same(d, delta, q) /\ Abs(d) <= q \div 2
    BY <1>0, <1>7, CenteredFacts
  <2> QED
    BY <2>1 DEF Same
<1> HIDE DEF d
<1>9. Same(x.val[k] + T * d, 0, q)
  <2> DEFINE v == x.val[k]
  <2>0. v \in Int /\ q \in Nat /\ q > 0 /\ T \in Int /\ d \in Int /\ inv \in Int
    BY <1>0, <1>2, <1>3, <1>6, <1>8
  <2>1. Same(d, v * (-inv), q)
    BY <1>7, <1>8, <2>0, SameTrans
  <2> HIDE DEF v, q
  <2>2. Same(T, T, q) /\ Same(v, v, q) /\ Same(-v, -v, q)
    BY <2>0, SameSelf
  <2>3. Same(T * d, T * (v * (-inv)), q)
    BY <2>0, <2>1, <2>2, SameArith
  <2>4. T * (v * (-inv)) = (-v) * (T * inv)
    BY <2>0
  <2>5. Same((-v) * (T * inv), (-v) * 1, q)
    <3>1. Same(T * inv, 1, q)
      BY <1>3 DEF q
    <3> QED
      BY <2>0, <2>2, <3>1, SameArith
  <2>6. (-v) * 1 = -v
    BY <2>0
  <2>7. Same(T * d, -v, q)
    BY <2>0, <2>3, <2>4, <2>5, <2>6, SameTrans
  <2>8. Same(v + T * d, v + (-v), q)
    BY <2>0, <2>2, <2>7, SameArith
  <2>9. v + (-v) = 0
    BY <2>0
  <2>10. Same(v + T * d, 0, q)
    BY <2>8, <2>9
  <2> QED
    BY <2>10 DEF v, q
<1>10. ASSUME NEW i \in 0 .. (k - 1)
       PROVE  Same(r.val[i] * q, x.val[i] + T * d, Q(i)) /\ r.val[i] \in 0 .. (Q(i) - 1)
  <2> DEFINE m == Q(i)
             z == ModInverse(q % m, m)
             c == d % m
             y == (x.val[i] + T * c) * z
             p == x.val[i] + T * c
  <2>0. /\ i \in 0 .. (l - 1) /\ i # k /\ i \in 0 .. (SizeQ - 1)
        /\ m \in Nat /\ m > 1 /\ m > 0 /\ x.mod[i] = m /\ x.val[i] \in Int
    <3>1. i \in 0 .. (l - 1) /\ i # k
      BY <1>0
    <3> QED
      BY <3>1, LevelBasis
  <2>1. Unit(q, m)
    BY <1>0, <2>0, ModuliUnits
  <2>2. z \in 1 .. (m - 1) /\ Same(q * z, 1, m)
    BY <2>0, <2>1, InverseIs
  <2>3. r.val[i] = y % m
    BY <1>4, <2>0 DEF SwitchModulus, d
  <2>4. z \in Int /\ q \in Int /\ T \in Int /\ d \in Int /\ x.val[i] \in Int
    BY <1>0, <1>2, <1>8, <2>0, <2>2
  <2>5. Same(c, d, m)
    BY <2>0, <2>4, SameSelf
  <2> HIDE DEF m, z, c, q
  <2>6. Same(T * c, T * d, m)
    BY <2>0, <2>4, <2>5, SameSelf, SameArith
  <2>7. Same(p, x.val[i] + T * d, m)
    BY <2>0, <2>4, <2>6, SameSelf, SameArith
  <2>8. p \in Int
    BY <2>7 DEF Same
  <2> HIDE DEF p
  <2>9. y = p * z /\ y \in Int
    BY <2>4, <2>8 DEF p
  <2> HIDE DEF y
  <2>10. Same(r.val[i], y, m) /\ r.val[i] \in 0 .. (m - 1)
    BY <2>0, <2>3, <2>9, SameSelf, ModRange
  <2>11. Same(r.val[i] * q, y * q, m)
    BY <2>0, <2>4, <2>10, SameSelf, SameArith
  <2>12. y * q = p * (q * z) /\ p * 1 = p
    BY <2>4, <2>8, <2>9
  <2>13. Same(p * (q * z), p * 1, m)
    BY <2>0, <2>2, <2>8, SameSelf, SameArith
  <2>14. Same(r.val[i] * q, p, m)
    BY <2>0, <2>11, <2>12, <2>13, SameTrans
  <2>15. Same(r.val[i] * q, x.val[i] + T * d, m)
    BY <2>0, <2>7, <2>14, SameTrans
  <2> QED
    BY <2>10, <2>15 DEF m, q
<1>11. ReducesBy(x, l, d)
  BY <1>8, <1>9, <1>10 DEF ReducesBy, r
<1>12. r = [mod |-> BasisQ(k), val |-> [i \in 0 .. (k - 1) |-> r.val[i]]]
  <2>1. r.val = [i \in 0 .. (k - 1) |-> r.val[i]]
    BY <1>4
  <2> HIDE DEF k
  <2> QED
    BY <1>4, <1>5, <2>1
<1> QED
  BY <1>5, <1>11, <1>12 DEF r

\* A number that the modulus divides, once a multiple of the plaintext modulus
\* is added, divided by it.
LEMMA Divided ==
  ASSUME Params, SpecialOK, NEW l \in 1 .. SizeQ, l > 1,
         NEW z \in Int, NEW d \in Int, Same(z + T * d, 0, Q(l - 1))
  PROVE  \E w \in Int :
           /\ Q(l - 1) * w = z + T * d /\ Same(Q(l - 1) * w, z, T)
           /\ Q(l - 1) * Abs(w) <= Abs(z) + T * Abs(d)
           /\ \A i \in 0 .. ((l - 1) - 1) : \A p \in Int :
                Same(p * Q(l - 1), z + T * d, Q(i)) => Same(p, w, Q(i))
<1> DEFINE k == l - 1
           q == Q(k)
<1>0. /\ k \in Nat /\ k \in 0 .. (l - 1) /\ k \in 0 .. (SizeQ - 1) /\ q \in Nat /\ q > 1 /\ q > 0
      /\ T \in Nat /\ T > 0
  <2>1. k \in 0 .. (l - 1) /\ k \in Nat
    BY LevelBasis
  <2>2. k \in 0 .. (SizeQ - 1) /\ q \in Nat /\ q > 1 /\ q > 0
    BY <2>1, LevelBasis
  <2> QED
    BY <2>1, <2>2, ModuliUnits
<1>1. PICK w \in Int : z + T * d = 0 + q * w
  BY DEF Same
<1> DEFINE td == T * d
<1>a. td \in Int
  BY <1>0
<1>2. q * w = z + td
  BY <1>0, <1>1
<1>3. Same(q * w, z, T)
  <2>1. z + td \in Int
    BY <1>a
  <2>2. Same(z + td, z, T)
    BY <2>1 DEF Same
  <2> HIDE DEF td, q
  <2> QED
    BY <1>2, <2>2
<1>4. q * Abs(w) <= Abs(z) + T * Abs(d)
  <2>0. q \in Int /\ T \in Int
    BY <1>0
  <2>a. Abs(td) = Abs(T) * Abs(d)
    BY <2>0, AbsFacts
  <2>b. Abs(q * w) = Abs(q) * Abs(w)
    <3> HIDE DEF q
    <3> QED
      BY <2>0, AbsFacts
  <2>1. Abs(q * w) = Abs(q) * Abs(w) /\ Abs(td) = Abs(T) * Abs(d)
    BY <2>a, <2>b
  <2>2. Abs(q) = q /\ Abs(T) = T
    BY <1>0 DEF Abs
  <2>3. Abs(z + td) <= Abs(z) + Abs(td)
    BY <1>a, AbsFacts
  <2> HIDE DEF td, q
  <2> QED
    BY <1>2, <2>1, <2>2, <2>3
<1>5. ASSUME NEW i \in 0 .. (k - 1), NEW p \in Int, Same(p * q, z + T * d, Q(i)) PROVE Same(p, w, Q(i))
  <2>0. SizeQ \in Nat
    BY LevelBasis
  <2>1. i \in 0 .. (SizeQ - 1) /\ i # k
    <3> HIDE DEF k
    <3> QED
      BY <1>0, <2>0
  <2>2. Q(i) \in Nat /\ Q(i) > 0 /\ Unit(q, Q(i))
    <3>1. Q(i) \in Nat /\ Q(i) > 1 /\ Unit(q, Q(i))
      BY <1>0, <2>1, ModuliUnits
    <3> QED
      BY <3>1
  <2> DEFINE m == Q(i)
  <2>3. Same(p * q, z + td, m)
    BY <1>5
  <2>4. p * q = q * p
    BY <1>0
  <2> HIDE DEF m, q, td
  <2>5. Same(q * p, q * w, m)
    BY <1>2, <2>3, <2>4
  <2>6. Same(p, w, m)
    BY <2>2, <2>5, UnitCancels DEF m
  <2> QED
    BY <2>6 DEF m
<1> QED
  BY <1>2, <1>3, <1>4, <1>5
\* How much an error in each element weighs.
WeightOf(e, s) == 1 + Abs(s) + (IF 3 \in DOMAIN e THEN s * s ELSE 0)

\* The elements a reduction leaves carry what was carried, divided by the
\* modulus and rounded so that it divides what is the same modulo t.
LEMMA ReduceCarries ==
  ASSUME Params, SpecialOK, NEW l \in 1 .. SizeQ, l > 1,
         NEW e, NEW s \in Int, NEW z \in Int, Carries(e, l, s, z),
         NEW f, f = [i \in DOMAIN e |-> ModReduce(e[i], T)]
  PROVE  \E w \in Int : /\ Carries(f, l - 1, s, w) /\ Same(Q(l - 1) * w, z, T)
                        /\ Q(l - 1) * Abs(w) <= Abs(z) + T * ((Q(l - 1) \div 2) * WeightOf(e, s))
<1> DEFINE k == l - 1
           q == Q(k)
           h == q \div 2
           r == s * s
<1>0. /\ k \in Nat /\ k \in 0 .. (l - 1) /\ k \in 1 .. SizeQ /\ q \in Nat /\ q > 0 /\ h \in Nat
      /\ T \in Nat /\ T > 0 /\ r \in Int /\ r \in Nat
  <2>1. k \in 0 .. (l - 1) /\ k \in Nat /\ k \in 1 .. SizeQ
    BY LevelBasis
  <2>2. q \in Nat /\ q > 0
    BY <2>1, LevelBasis
  <2>3. h \in Nat
    BY <2>2
  <2>4. r \in Nat
    BY AbsFacts DEF Abs
  <2> QED
    BY <2>1, <2>2, <2>3, <2>4, ModuliUnits
<1>1. /\ Elements(e, l) /\ DOMAIN e \in {1 .. 2, 1 .. 3} /\ 1 \in DOMAIN e /\ 2 \in DOMAIN e
      /\ DOMAIN f = DOMAIN e
      /\ \A j \in DOMAIN e : e[j].mod = BasisQ(l) /\ \A i \in 0 .. (l - 1) : e[j].val[i] \in Int
  <2>1. Elements(e, l) /\ DOMAIN f = DOMAIN e
    BY DEF Carries
  <2>2. \A i \in 0 .. (l - 1) : Q(i) \in Nat
    BY LevelBasis
  <2> QED
    BY <2>1, <2>2 DEF Elements
<1>2. \A j \in DOMAIN e :
        (\E d : ReducesBy(e[j], l, d)) /\ f[j] = ModReduce(e[j], T) /\ f[j].mod = BasisQ(k)
  BY <1>1, ModReduceIs
<1>3. PICK d1, d2 : ReducesBy(e[1], l, d1) /\ ReducesBy(e[2], l, d2)
  BY <1>1, <1>2
<1>4. PICK d3 : IF 3 \in DOMAIN e THEN ReducesBy(e[3], l, d3) ELSE d3 = 0
  BY <1>2
<1>5. /\ d1 \in Int /\ d2 \in Int /\ d3 \in Int
      /\ Abs(d1) <= h /\ Abs(d2) <= h /\ Abs(d3) <= h
  BY <1>0, <1>3, <1>4 DEF ReducesBy, Abs
<1> DEFINE d == d1 + d2 * s + d3 * r
<1>6. d \in Int /\ d2 * s \in Int /\ d3 * r \in Int
  <2> HIDE DEF r
  <2>1. d2 * s \in Int /\ d3 * r \in Int
    BY <1>0, <1>5
  <2> QED
    BY <1>5, <2>1
<1>7. \A i \in 0 .. (k - 1) :
        /\ f[1].val[i] \in 0 .. (Q(i) - 1) /\ f[2].val[i] \in 0 .. (Q(i) - 1)
        /\ Same(f[1].val[i] * q, e[1].val[i] + T * d1, Q(i))
        /\ Same(f[2].val[i] * q, e[2].val[i] + T * d2, Q(i))
        /\ 3 \in DOMAIN e => /\ f[3].val[i] \in 0 .. (Q(i) - 1)
                             /\ Same(f[3].val[i] * q, e[3].val[i] + T * d3, Q(i))
  BY <1>1, <1>2, <1>3, <1>4 DEF ReducesBy
<1>8. /\ Same(e[1].val[k] + T * d1, 0, q) /\ Same(e[2].val[k] + T * d2, 0, q)
      /\ 3 \in DOMAIN e => Same(e[3].val[k] + T * d3, 0, q)
  BY <1>3, <1>4 DEF ReducesBy
<1>9. Same(z + T * d, 0, q)
  <2> DEFINE a1 == e[1].val[k]
             a2 == e[2].val[k]
             a3 == Third(e, k)
  <2>1. a1 \in Int /\ a2 \in Int /\ a3 \in Int /\ Phase(e, k, s) = a1 + a2 * s + a3 * r
    BY <1>0, <1>1, ElementsInt DEF Phase
  <2>2. Same(a3 + T * d3, 0, q)
    <3>1. CASE 3 \in DOMAIN e
      BY <1>8, <3>1 DEF Third
    <3>2. CASE 3 \notin DOMAIN e
      <4>1. a3 + T * d3 = 0
        BY <1>0, <1>4, <3>2 DEF Third
      <4>2. Same(0, 0, q)
        BY <1>0, SameSelf
      <4> QED
        BY <4>1, <4>2
    <3> QED
      BY <3>1, <3>2
  <2>3. Same(Phase(e, k, s), z, q)
    BY <1>0 DEF Carries
  <2>4. Same(a1 + T * d1, 0, q) /\ Same(a2 + T * d2, 0, q)
    BY <1>8
  <2> HIDE DEF a1, a2, a3, q, h
  <2>5. Same((a1 + T * d1) + (a2 + T * d2) * s + (a3 + T * d3) * (s * s), 0 + 0 * s + 0 * (s * s), q)
    BY <1>0, <2>2, <2>4, SamePowers
  <2>6. 0 + 0 * s + 0 * (s * s) = 0
    BY <1>0
  <2>7. (a1 + T * d1) + (a2 + T * d2) * s + (a3 + T * d3) * r = (a1 + a2 * s + a3 * r) + T * d
    <3>1. T \in Int
      BY <1>0
    <3> HIDE DEF r
    <3> QED
      BY <1>0, <1>5, <2>1, <3>1, SpreadPowers
  <2> DEFINE td == T * d
  <2>8. td \in Int
    BY <1>0, <1>6
  <2>9. Same(Phase(e, k, s) + td, 0, q)
    BY <2>1, <2>5, <2>6, <2>7
  <2> HIDE DEF td, d
  <2>10. Same(Phase(e, k, s) + td, z + td, q)
    BY <1>0, <2>3, <2>8, SameSelf, SameArith
  <2>11. Same(z + td, 0, q)
    BY <1>0, <2>9, <2>10, SameOther
  <2> QED
    BY <2>11 DEF td, q
<1>10. PICK w \in Int :
         /\ q * w = z + T * d /\ Same(q * w, z, T) /\ q * Abs(w) <= Abs(z) + T * Abs(d)
         /\ \A i \in 0 .. (k - 1) : \A p \in Int : Same(p * q, z + T * d, Q(i)) => Same(p, w, Q(i))
  <2> HIDE DEF d
  <2> QED
    BY <1>6, <1>9, Divided
<1>11. Elements(f, k)
  <2>1. ASSUME NEW j \in DOMAIN e, NEW i \in 0 .. (k - 1) PROVE f[j].val[i] \in 0 .. (Q(i) - 1)
    <3>1. j \in {1, 2, 3} /\ (j = 3 => 3 \in DOMAIN e)
      BY <1>1
    <3> QED
      BY <1>7, <3>1
  <2> HIDE DEF k
  <2> QED
    BY <1>1, <1>2, <2>1 DEF Elements
<1>12. ASSUME NEW i \in 0 .. (k - 1) PROVE Same(Phase(f, i, s), w, Q(i))
  <2> DEFINE a1 == e[1].val[i]
             a2 == e[2].val[i]
             a3 == Third(e, i)
             b1 == f[1].val[i]
             b2 == f[2].val[i]
             b3 == Third(f, i)
             m == Q(i)
  <2>0. i \in 0 .. (l - 1) /\ m \in Nat /\ m > 0
    <3>1. i \in 0 .. (l - 1)
      BY <1>0
    <3> QED
      BY <3>1, LevelBasis
  <2>1. a1 \in Int /\ a2 \in Int /\ a3 \in Int /\ Phase(e, i, s) = a1 + a2 * s + a3 * r
    BY <1>1, <2>0, ElementsInt DEF Phase
  <2>2. b1 \in Int /\ b2 \in Int /\ b3 \in Int /\ Phase(f, i, s) \in Int /\ Phase(f, i, s) = b1 + b2 * s + b3 * r
    <3> HIDE DEF k
    <3> QED
      BY <1>0, <1>11, ElementsInt DEF Phase
  <2>3. Same(b3 * q, a3 + T * d3, m)
    <3>1. CASE 3 \in DOMAIN e
      BY <1>1, <1>7, <3>1 DEF Third
    <3>2. CASE 3 \notin DOMAIN e
      <4>1. b3 = 0 /\ a3 = 0 /\ d3 = 0
        BY <1>1, <1>4, <3>2 DEF Third
      <4> HIDE DEF b3, a3
      <4>2. b3 * q = 0 /\ a3 + T * d3 = 0
        BY <1>0, <4>1
      <4>3. Same(0, 0, m)
        BY <2>0, SameSelf
      <4> QED
        BY <4>2, <4>3
    <3> QED
      BY <3>1, <3>2
  <2>4. Same(b1 * q, a1 + T * d1, m) /\ Same(b2 * q, a2 + T * d2, m)
    BY <1>7
  <2>5. Same(Phase(e, i, s), z, m)
    BY <2>0 DEF Carries
  <2> HIDE DEF a1, a2, a3, b1, b2, b3, m, q, h
  <2>6. Same(b1 * q + (b2 * q) * s + (b3 * q) * (s * s),
             (a1 + T * d1) + (a2 + T * d2) * s + (a3 + T * d3) * (s * s), m)
    BY <2>0, <2>3, <2>4, SamePowers
  <2>7. (a1 + T * d1) + (a2 + T * d2) * s + (a3 + T * d3) * r = (a1 + a2 * s + a3 * r) + T * d
    <3>1. T \in Int
      BY <1>0
    <3> HIDE DEF r
    <3> QED
      BY <1>0, <1>5, <2>1, <3>1, SpreadPowers
  <2>8. b1 * q + (b2 * q) * s + (b3 * q) * r = (b1 + b2 * s + b3 * r) * q
    <3>1. q \in Int
      BY <1>0
    <3> HIDE DEF r
    <3> QED
      BY <1>0, <2>2, <3>1, SpreadPowers
  <2> DEFINE td == T * d
             p == Phase(f, i, s)
  <2>9. td \in Int
    BY <1>0, <1>6
  <2>10. Same(p * q, Phase(e, i, s) + td, m)
    BY <2>1, <2>2, <2>6, <2>7, <2>8
  <2> HIDE DEF td, d, p
  <2>11. Same(Phase(e, i, s) + td, z + td, m)
    BY <2>0, <2>5, <2>9, SameSelf, SameArith
  <2>12. Same(p * q, z + td, m)
    BY <2>0, <2>10, <2>11, SameTrans
  <2>13. p \in Int
    BY <2>2 DEF p
  <2>14. Same(p, w, m)
    BY <1>10, <2>12, <2>13 DEF td, m
  <2> QED
    BY <2>14 DEF p, m
<1>13. Abs(d) <= h * WeightOf(e, s)
  <2> DEFINE x == Abs(s)
             y == IF 3 \in DOMAIN e THEN r ELSE 0
  <2>1. Abs(d2 * s) = Abs(d2) * x /\ Abs(d3 * r) = Abs(d3) * Abs(r) /\ Abs(r) = r /\ x \in Nat
    <3>1. Abs(d2 * s) = Abs(d2) * Abs(s) /\ Abs(s) \in Nat
      BY <1>5, AbsFacts
    <3> HIDE DEF r
    <3>2. Abs(d3 * r) = Abs(d3) * Abs(r)
      BY <1>0, <1>5, AbsFacts
    <3>3. Abs(r) = r
      BY <1>0 DEF Abs
    <3> QED
      BY <3>1, <3>2, <3>3
  <2>2. Abs(d2) \in Nat /\ Abs(d3) \in Nat /\ Abs(d1) \in Nat
    BY <1>5, AbsFacts
  <2>3. Abs(d2) * x <= h * x
    BY <1>0, <1>5, <2>1, <2>2, ProductMonotone
  <2>4. Abs(d3) * r <= h * y /\ h * y \in Nat
    <3>1. CASE 3 \in DOMAIN e
      <4> HIDE DEF r, h
      <4>1. Abs(d3) * r <= h * r
        BY <1>0, <1>5, <2>2, ProductMonotone
      <4> QED
        BY <1>0, <3>1, <4>1
    <3>2. CASE 3 \notin DOMAIN e
      <4>1. Abs(d3) = 0
        BY <1>4, <3>2 DEF Abs
      <4> HIDE DEF r, h
      <4> QED
        BY <1>0, <3>2, <4>1
    <3> QED
      BY <3>1, <3>2
  <2>5. Abs(d) <= Abs(d1) + Abs(d2 * s) + Abs(d3 * r)
    <3> DEFINE u == d2 * s
               v == d3 * r
    <3>1. u \in Int /\ v \in Int /\ d = d1 + u + v
      BY <1>6
    <3> HIDE DEF u, v, d
    <3>2. Abs(d) <= Abs(d1) + Abs(u) + Abs(v)
      BY <1>5, <3>1 DEF Abs
    <3> QED
      BY <3>2 DEF u, v
  <2>6. WeightOf(e, s) = 1 + x + y
    BY DEF WeightOf
  <2>7. h * (1 + x + y) = h + h * x + h * y
    <3>1. y \in Nat
      BY <1>0
    <3> HIDE DEF x, y, h
    <3> QED
      BY <1>0, <2>1, <3>1
  <2> DEFINE hx == h * x
             hy == h * y
             ax == Abs(d2) * x
             ar == Abs(d3) * r
             ad == Abs(d)
  <2>8. ad <= Abs(d1) + ax + ar /\ ax <= hx /\ ar <= hy /\ hx \in Nat /\ hy \in Nat
    <3>1. hx \in Nat
      BY <1>0, <2>1
    <3> QED
      BY <2>1, <2>3, <2>4, <2>5, <3>1
  <2>9. ad \in Int /\ ax \in Int /\ ar \in Int
    <3>1. Abs(d2) * x \in Nat
      BY <2>1, <2>2
    <3>2. Abs(d3) * r \in Nat
      BY <1>0, <2>2
    <3>3. Abs(d) \in Nat
      <4> HIDE DEF d
      <4> QED
        BY <1>6, AbsFacts
    <3> QED
      BY <3>1, <3>2, <3>3
  <2> HIDE DEF x, y, hx, hy, ax, ar, ad, h, d
  <2>10. ad <= h + hx + hy
    BY <1>0, <1>5, <2>2, <2>8, <2>9
  <2> QED
    BY <2>6, <2>7, <2>10 DEF ad, hx, hy
<1>14. q * Abs(w) <= Abs(z) + T * (h * WeightOf(e, s))
  <2> DEFINE a == Abs(d)
             b == h * WeightOf(e, s)
  <2>1. a <= b /\ a \in Nat
    <3> HIDE DEF d
    <3> QED
      BY <1>6, <1>13, AbsFacts
  <2>2. b \in Int
    <3>1. WeightOf(e, s) \in Int
      BY <1>0 DEF WeightOf, Abs
    <3> HIDE DEF h
    <3> QED
      BY <1>0, <3>1
  <2>3. q * Abs(w) <= Abs(z) + T * a
    BY <1>10
  <2> HIDE DEF a, b, d, h, q
  <2>4. b \in Nat
    BY <2>1, <2>2
  <2>5. T * a <= T * b
    BY <1>0, <2>1, <2>4, ProductMonotone
  <2>6. q * Abs(w) \in Int /\ Abs(z) \in Int /\ T * a \in Int /\ T * b \in Int
    <3>1. Abs(w) \in Nat /\ Abs(z) \in Nat
      BY AbsFacts
    <3> QED
      BY <1>0, <2>1, <2>4, <3>1
  <2>7. q * Abs(w) <= Abs(z) + T * b
    BY <2>3, <2>5, <2>6
  <2> QED
    BY <2>7 DEF b
<1>15. Carries(f, k, s, w)
  BY <1>11, <1>12 DEF Carries
<1> QED
  BY <1>10, <1>14, <1>15

-----------------------------------------------------------------------------
(* What decryption makes of a phase *)

\* An element of n towers that stands for an integer y, of the remainder of m
\* modulo T and small enough for the reductions to come.
Holds(x, n, m, y) ==
  /\ x = [mod |-> BasisQ(n), val |-> [i \in 0 .. (n - 1) |-> x.val[i]]]
  /\ y \in Int /\ Same(y, m, T) /\ 2 * Abs(y) <= Leeway * Rest(n) + 2 * T
  /\ \A i \in 0 .. (n - 1) : x.val[i] \in 0 .. (Q(i) - 1) /\ Same(x.val[i], y, Q(i))
Held(x, n, m) == \E y : Holds(x, n, m, y)

\* A reduction leaves an element that stands for an integer of the remainder
\* divided by the modulus, small enough for the reductions to come.
LEMMA ReductionHolds ==
  ASSUME Params, SpecialOK, NEW l \in 1 .. SizeQ, l > 1, NEW x, NEW u, Held(x, l, u),
         NEW m \in Int, Same(Q(l - 1) * m, u, T)
  PROVE  Held(ModReduce(x, T), l - 1, m)
<1> DEFINE q == Q(l - 1)
           k == l - 1
           r == ModReduce(x, T)
<1>14. l - 1 \in 0 .. (SizeQ - 1)
  <2>1. l \in Nat /\ l <= SizeQ /\ SizeQ \in Nat
    BY LevelBasis
  <2> QED
    BY <2>1
<1>1. PICK y : Holds(x, l, u, y)
  BY DEF Held
<1>2. /\ x.mod = BasisQ(l) /\ y \in Int /\ Same(y, u, T)
      /\ 2 * Abs(y) <= Leeway * Rest(l) + 2 * T
      /\ \A i \in 0 .. (l - 1) : Same(x.val[i], y, Q(i)) /\ x.val[i] \in Int
  BY <1>1 DEF Holds, Same
<1>3. /\ k \in 1 .. SizeQ /\ k \in 0 .. (l - 1) /\ q \in Nat /\ q > 1 /\ q > 0
      /\ \A i \in 0 .. (k - 1) : i \in 0 .. (l - 1) /\ Q(i) \in Nat /\ Q(i) > 0
  <2>1. /\ l \in Nat /\ l <= SizeQ /\ SizeQ \in Nat
        /\ \A i \in 0 .. (l - 1) : Q(i) \in Nat /\ Q(i) > 1 /\ Q(i) > 0
    BY LevelBasis
  <2>2. k \in 0 .. (l - 1) /\ \A i \in 0 .. (k - 1) : i \in 0 .. (l - 1)
    BY <2>1
  <2> QED
    BY <2>1, <2>2
<1>4. PICK d : ReducesBy(x, l, d)
  BY <1>2, ModReduceIs
<1>5. /\ d \in Int /\ Abs(d) <= q \div 2 /\ Same(x.val[k] + T * d, 0, q)
      /\ \A i \in 0 .. (k - 1) : /\ Same(r.val[i] * q, x.val[i] + T * d, Q(i))
                                 /\ r.val[i] \in 0 .. (Q(i) - 1)
  BY <1>4 DEF ReducesBy
<1>6. /\ T \in Nat /\ T > 0 /\ Leeway \in Nat /\ Rest(k) \in Nat /\ Rest(l) = q * Rest(k)
      /\ T * d \in Int
  <2>1. T \in Nat /\ T > 0 /\ Leeway \in Nat
    BY LeewayFits
  <2>2. Rest(k) \in Nat
    <3> HIDE DEF k
    <3> QED
      BY <1>3, RestFacts
  <2>3. Rest(l) = q * Rest(k)
    BY RestFacts
  <2> QED
    BY <1>5, <2>1, <2>2, <2>3
<1>7. Same(y + T * d, 0, q)
  <2> DEFINE td == T * d
  <2>1. Same(x.val[k], y, q) /\ Same(td, td, q)
    <3>1. Same(x.val[k], y, q)
      BY <1>2, <1>3
    <3>2. Same(td, td, q)
      BY <1>3, <1>6, SameSelf
    <3> QED
      BY <3>1, <3>2
  <2> HIDE DEF td, q, k
  <2>2. Same(x.val[k] + td, y + td, q)
    BY <1>3, <2>1, SameArith
  <2>3. Same(x.val[k] + td, 0, q)
    BY <1>5 DEF td
  <2>4. Same(y + td, 0, q)
    BY <1>3, <2>2, <2>3, SameOther
  <2> QED
    BY <2>4 DEF td
<1>8. PICK w \in Int :
        /\ Same(q * w, y, T) /\ q * Abs(w) <= Abs(y) + T * Abs(d)
        /\ \A i \in 0 .. (k - 1) : \A p \in Int : Same(p * q, y + T * d, Q(i)) => Same(p, w, Q(i))
  BY <1>2, <1>5, <1>7, Divided
<1>9. ASSUME NEW i \in 0 .. (k - 1) PROVE Same(r.val[i], w, Q(i))
  <2> DEFINE td == T * d
             p == r.val[i]
             n == Q(i)
  <2>1. Same(x.val[i], y, n) /\ Same(p * q, x.val[i] + td, n) /\ p \in Int
        /\ n \in Nat /\ n > 0 /\ td \in Int
    BY <1>2, <1>3, <1>5, <1>6
  <2> HIDE DEF td, n, q, p
  <2>2. Same(td, td, n)
    BY <2>1, SameSelf
  <2>3. Same(x.val[i] + td, y + td, n)
    BY <2>1, <2>2, SameArith
  <2>4. Same(p * q, y + td, n)
    BY <2>1, <2>3, SameTrans
  <2> QED
    BY <1>8, <2>1, <2>4 DEF td, n, p
<1>10. 2 * Abs(w) <= Leeway * Rest(k) + 2 * T
  <2> DEFINE g == Leeway * Rest(k)
             a == Abs(w)
             b == Abs(y)
             h == Abs(d)
  <2>1. a \in Nat /\ b \in Nat /\ h \in Nat
    BY <1>2, <1>5, AbsFacts
  <2>2. 2 * h <= q
    BY <1>3, <1>5, <2>1
  <2>3. Leeway * Rest(l) = q * g /\ g \in Nat
    <3> HIDE DEF q, k
    <3> QED
      BY <1>3, <1>6
  <2>4. 2 * b <= q * g + 2 * T
    BY <1>2, <2>3
  <2>5. q * a <= b + T * h
    BY <1>8
  <2> HIDE DEF a, b, h, g, q
  <2>6. 2 * a <= g + 2 * T
    BY <1>3, <1>6, <2>1, <2>2, <2>3, <2>4, <2>5, BoundReduced
  <2> QED
    BY <2>6 DEF a, g
<1>11. Same(w, m, T)
  <2>1. Unit(q, T) /\ T \in Nat /\ T > 0
    BY <1>6, <1>14, ModuliUnits
  <2>2. Same(q * w, u, T) /\ Same(u, q * m, T)
    <3>1. Same(q * w, y, T) /\ Same(q * m, u, T)
      BY <1>8
    <3> HIDE DEF q
    <3> QED
      BY <1>2, <1>6, <3>1, SameTrans, SameRemainder
  <2> HIDE DEF q
  <2>3. Same(q * w, q * m, T)
    BY <2>1, <2>2, SameTrans
  <2> QED
    BY <2>1, <2>3, UnitCancels
<1>12. r = [mod |-> BasisQ(k), val |-> [i \in 0 .. (k - 1) |-> r.val[i]]]
  BY <1>2, ModReduceIs
<1>13. Holds(r, k, m, w)
  BY <1>5, <1>8, <1>9, <1>10, <1>11, <1>12 DEF Holds
<1> QED
  BY <1>13 DEF Held

\* Remainders for each number of towers, each the next one divided by a modulus.
Follow(m, l) ==
  /\ \A n \in 1 .. l : m[n] \in Int
  /\ \A n \in 1 .. (l - 1) : Same(Q(n) * m[n], m[n + 1], T)

\* A sequence of reductions divides what an element stands for modulo T.
LEMMA Reductions ==
  ASSUME Params, SpecialOK, NEW l \in 1 .. SizeQ, NEW m, Follow(m, l), NEW h, Held(h[0], l, m[l]),
         \A k \in 1 .. (l - 1) :
           Held(h[k - 1], l - (k - 1), m[l - (k - 1)]) => h[k] = ModReduce(h[k - 1], T)
  PROVE  \A k \in 0 .. (l - 1) : Held(h[k], l - k, m[l - k])
<1> DEFINE G == {k \in 0 .. (l - 1) : Held(h[k], l - k, m[l - k])}
<1>0. l \in Nat /\ l >= 1 /\ SizeQ \in Nat
  BY LevelBasis
<1>1. 0 \in G
  <2>1. l - 0 = l /\ 0 \in 0 .. (l - 1)
    BY <1>0
  <2> QED
    BY <2>1
<1>2. ASSUME NEW k \in 0 .. ((l - 1) - 1), k \in G PROVE k + 1 \in G
  <2> DEFINE n == l - k
             j == k + 1
  <2>1. n \in 1 .. SizeQ /\ n > 1 /\ j \in 1 .. (l - 1) /\ j - 1 = k /\ l - j = n - 1
        /\ j \in 0 .. (l - 1) /\ n - 1 \in 1 .. (l - 1) /\ n - 1 \in 1 .. l /\ (n - 1) + 1 = n
    BY <1>0
  <2>2. Held(h[k], n, m[n])
    BY <1>2
  <2> HIDE DEF n
  <2>5. m[n - 1] \in Int /\ Same(Q(n - 1) * m[n - 1], m[n], T)
    BY <2>1 DEF Follow
  <2>3. Held(ModReduce(h[k], T), n - 1, m[n - 1])
    BY <2>1, <2>2, <2>5, ReductionHolds
  <2>4. h[j] = ModReduce(h[k], T)
    BY <2>1, <2>2 DEF n
  <2> QED
    BY <2>1, <2>3, <2>4
<1>3. \A k \in 0 .. (l - 1) : k \in G
  <2> HIDE DEF G
  <2>1. l - 1 \in Nat
    BY <1>0
  <2> QED
    BY <1>1, <1>2, <2>1, UpTo
<1> QED
  BY <1>3

\* Decryption reduces the phase to one tower, where it is an integer next to
\* zero: the message, modulo T, times the factor the reductions leave.
LEMMA DecryptsTo ==
  ASSUME Params, SpecialOK, NEW l \in 1 .. SizeQ,
         NEW c, Len(c.elems) = IF 3 \in DOMAIN c.elems THEN 3 ELSE 2, SecretOf(c) \in Int,
         NEW z \in Int, Carries(c.elems, l, SecretOf(c), z), 2 * Abs(z) <= Leeway * Rest(l),
         NEW f \in 1 .. (T - 1), Unit(f, T),
         NEW r \in 0 .. (T - 1), Same(z, Centered(r, T) * f, T)
  PROVE  Decrypt(c, f) = Centered(r, T)
<1> DEFINE x == Centered(r, T)
           N == l - 1
           Body(g) == [n \in 1 .. l |-> IF n = l THEN DecryptCore(c) ELSE ModReduce(g[n + 1], T)]
           down == CHOOSE g : g = Body(g)
           factor == CHOOSE g : g = [n \in 1 .. l |-> IF n = l THEN f ELSE ReducedFactor(g[n + 1], n)]
           m == [n \in 1 .. l |-> x * factor[n]]
           inv == ModInverse(factor[1], T)
<1>0. l \in Nat /\ l >= 1 /\ l <= SizeQ /\ SizeQ \in Nat /\ N \in Nat
      /\ Q(0) \in Nat /\ Q(0) > 1 /\ T \in Nat /\ T > 0 /\ Leeway \in Nat
  <2>1. l \in Nat /\ l >= 1 /\ l <= SizeQ /\ SizeQ \in Nat
    BY LevelBasis
  <2>2. Q(0) \in Nat /\ Q(0) > 1
    BY LevelBasis
  <2>3. T \in Nat /\ T > 0 /\ Leeway \in Nat
    BY LeewayFits
  <2> QED
    BY <2>1, <2>2, <2>3
<1>1. c.elems[1].mod = BasisQ(l) /\ Size(c.elems[1]) = l
  <2>1. c.elems[1].mod = BasisQ(l)
    BY DEF Carries, Elements
  <2>2. DOMAIN BasisQ(l) = 0 .. (l - 1) /\ Cardinality(0 .. (l - 1)) = l
    BY <1>0, LevelBasis, SizeOfInterval
  <2> QED
    BY <2>1, <2>2 DEF Size
<1>2. Decrypt(c, f) = Centered(((Centered(down[1].val[0], Q(0)) % T) * inv) % T, T)
  BY <1>1 DEF Decrypt
<1>20. /\ factor[l] = f /\ \A n \in 1 .. l : factor[n] \in 1 .. (T - 1) /\ Unit(factor[n], T)
       /\ \A n \in 1 .. (l - 1) : Same(Q(n) * factor[n], factor[n + 1], T)
  <2> HIDE DEF factor
  <2> QED
    BY FactorsFollow DEF factor
<1>21. x \in Int /\ Same(x, r, T)
  BY <1>0, CenteredFacts DEF Same
<1> HIDE DEF x, factor
<1>22. \A n \in 1 .. l : m[n] = x * factor[n] /\ m[n] \in Int /\ factor[n] \in Int
  BY <1>0, <1>20, <1>21
<1>23. m[l] = x * f /\ 1 \in 1 .. l /\ l \in 1 .. l
  BY <1>0, <1>20, <1>22
<1>24. Follow(m, l)
  <2>1. ASSUME NEW n \in 1 .. (l - 1) PROVE Same(Q(n) * m[n], m[n + 1], T)
    <3> DEFINE q == Q(n)
               a == factor[n]
               b == factor[n + 1]
    <3>1. n \in 0 .. (SizeQ - 1) /\ n \in 1 .. l /\ n + 1 \in 1 .. l
      BY <1>0
    <3>2. q \in Int /\ a \in Int /\ Same(q * a, b, T) /\ m[n] = x * a /\ m[n + 1] = x * b
      BY <1>20, <1>22, <3>1, ModuliInverses
    <3> HIDE DEF q, a, b, m
    <3>3. Same(x, x, T)
      BY <1>0, <1>21, SameSelf
    <3>4. Same(x * (q * a), x * b, T)
      BY <1>0, <3>2, <3>3, SameArith
    <3>5. x * (q * a) = q * (x * a)
      BY <1>21, <3>2
    <3> QED
      BY <3>2, <3>4, <3>5 DEF q
  <2> HIDE DEF m
  <2> QED
    BY <1>22, <2>1 DEF Follow
<1> HIDE DEF m
<1>3. Held(DecryptCore(c), l, m[l])
  <2>1. /\ DecryptCore(c) = [mod |-> BasisQ(l), val |-> [i \in 0 .. (l - 1) |-> DecryptCore(c).val[i]]]
        /\ \A i \in 0 .. (l - 1) : /\ Same(DecryptCore(c).val[i], z, Q(i))
                                   /\ DecryptCore(c).val[i] \in 0 .. (Q(i) - 1)
    BY DecryptCoreIs
  <2>2. 2 * Abs(z) <= Leeway * Rest(l) + 2 * T
    <3> DEFINE g == Leeway * Rest(l)
               a == Abs(z)
    <3>1. Rest(l) \in Nat
      BY RestFacts
    <3>2. g \in Int /\ a \in Int /\ 2 * a <= g
      <4>1. g \in Int
        BY <1>0, <3>1
      <4>2. a \in Int
        BY AbsFacts
      <4> QED
        BY <4>1, <4>2
    <3> HIDE DEF g, a
    <3>3. 2 * a <= g + 2 * T
      BY <1>0, <3>2
    <3> QED
      BY <3>3 DEF g, a
  <2>3. Same(z, m[l], T)
    BY <1>23 DEF x
  <2>4. Holds(DecryptCore(c), l, m[l], z)
    BY <2>1, <2>2, <2>3 DEF Holds
  <2> QED
    BY <2>4 DEF Held
<1> DEFINE V == UNION {[mod : {BasisQ(n)}, val : [0 .. (n - 1) -> Int]] : n \in 1 .. l}
           F == [p \in (1 .. N) \X V |-> IF ModReduce(p[2], T) \in V THEN ModReduce(p[2], T) ELSE p[2]]
<1>4. \A n \in 1 .. l : \A el : Held(el, n, m[n]) => el \in V
  <2> TAKE n \in 1 .. l
  <2> TAKE el
  <2> HAVE Held(el, n, m[n])
  <2>1. PICK y : Holds(el, n, m[n], y)
    BY DEF Held
  <2>2. el = [mod |-> BasisQ(n), val |-> [i \in 0 .. (n - 1) |-> el.val[i]]]
        /\ \A i \in 0 .. (n - 1) : el.val[i] \in Int
    BY <2>1 DEF Holds, Same
  <2>3. [i \in 0 .. (n - 1) |-> el.val[i]] \in [0 .. (n - 1) -> Int]
    BY <2>2
  <2> QED
    BY <2>2, <2>3
<1>5. IsStep(F, 1 .. N, V)
  <2> HIDE DEF V
  <2> QED
    BY DEF IsStep
<1> HIDE DEF V
<1>6. PICK h : Recurs(h, N, V, DecryptCore(c), F)
  <2>1. DecryptCore(c) \in V
    BY <1>0, <1>3, <1>4
  <2> HIDE DEF N, F
  <2> QED
    BY <1>0, <1>5, <2>1, RecursionExists
<1>7. h \in [0 .. N -> V] /\ h[0] = DecryptCore(c) /\ \A k \in 1 .. N : h[k] = F[<<k, h[k - 1]>>]
  <2> HIDE DEF N, F
  <2> QED
    BY <1>6 DEF Recurs
<1>8. ASSUME NEW k \in 1 .. (l - 1), Held(h[k - 1], l - (k - 1), m[l - (k - 1)])
      PROVE  h[k] = ModReduce(h[k - 1], T)
  <2> DEFINE n == l - (k - 1)
             el == h[k - 1]
  <2>1. n \in 1 .. SizeQ /\ n > 1 /\ n <= l /\ k - 1 \in 0 .. N /\ n - 1 \in 1 .. l
    BY <1>0
  <2>2. el \in V /\ h[k] = F[<<k, el>>]
    BY <1>7, <2>1
  <2> HIDE DEF el
  <2>3. h[k] = IF ModReduce(el, T) \in V THEN ModReduce(el, T) ELSE el
    BY <2>2
  <2>4. Held(ModReduce(el, T), n - 1, m[n - 1])
    <3>1. Held(el, n, m[n])
      BY <1>8 DEF el
    <3> HIDE DEF n
    <3>2. n - 1 \in 1 .. (l - 1) /\ (n - 1) + 1 = n
      BY <1>0, <2>1
    <3>3. m[n - 1] \in Int /\ Same(Q(n - 1) * m[n - 1], m[n], T)
      BY <1>24, <2>1, <3>2 DEF Follow
    <3> QED
      BY <2>1, <3>1, <3>3, ReductionHolds
  <2>5. ModReduce(el, T) \in V
    BY <1>4, <2>1, <2>4
  <2> QED
    BY <2>3, <2>5 DEF el
<1>9. \A k \in 0 .. (l - 1) : Held(h[k], l - k, m[l - k])
  <2>1. Held(h[0], l, m[l])
    BY <1>3, <1>7
  <2> QED
    BY <1>8, <1>24, <2>1, Reductions
<1> DEFINE g0 == [n \in 1 .. l |-> h[l - n]]
<1>10. g0 = Body(g0)
  <2>1. ASSUME NEW n \in 1 .. l, n # l PROVE h[l - n] = ModReduce(g0[n + 1], T)
    <3> DEFINE k == l - n
    <3>1. k \in 1 .. (l - 1) /\ k - 1 = l - (n + 1) /\ k - 1 \in 0 .. (l - 1) /\ n + 1 \in 1 .. l
      BY <1>0, <2>1
    <3>2. Held(h[k - 1], l - (k - 1), m[l - (k - 1)])
      BY <1>9, <3>1
    <3>3. h[k] = ModReduce(h[k - 1], T)
      BY <1>8, <3>1, <3>2
    <3> QED
      BY <3>1, <3>3
  <2>2. h[l - l] = DecryptCore(c)
    BY <1>0, <1>7
  <2>3. \A n \in 1 .. l : h[l - n] = IF n = l THEN DecryptCore(c) ELSE ModReduce(g0[n + 1], T)
    <3> HIDE DEF g0
    <3> QED
      BY <2>1, <2>2
  <2> QED
    BY <2>3
<1>11. down = Body(down)
  <2> HIDE DEF Body
  <2> QED
    BY <1>10
<1> HIDE DEF down, g0
<1>12. \A n \in 1 .. l : down[n] = IF n = l THEN DecryptCore(c) ELSE ModReduce(down[n + 1], T)
  BY <1>11
<1> DEFINE h1 == [k \in 0 .. (l - 1) |-> down[l - k]]
<1>13. \A k \in 0 .. (l - 1) : Held(h1[k], l - k, m[l - k])
  <2>1. Held(h1[0], l, m[l])
    <3>1. l - 0 = l /\ 0 \in 0 .. (l - 1) /\ l \in 1 .. l
      <4>1. l \in Nat /\ l >= 1
        BY <1>0
      <4> HIDE DEF h1
      <4> QED
        BY <4>1
    <3>2. down[l] = DecryptCore(c)
      BY <1>12, <3>1
    <3>3. h1[0] = down[l]
      BY <3>1
    <3> QED
      BY <1>3, <3>2, <3>3
  <2>2. \A k \in 1 .. (l - 1) : h1[k] = ModReduce(h1[k - 1], T)
    <3> TAKE k \in 1 .. (l - 1)
    <3> DEFINE n == l - k
    <3>1. n \in 1 .. l /\ n # l /\ n + 1 = l - (k - 1) /\ k - 1 \in 0 .. (l - 1) /\ k \in 0 .. (l - 1)
      <4>1. l \in Nat /\ k \in Int /\ 1 <= k /\ k <= l - 1
        BY <1>0
      <4> HIDE DEF h1
      <4> QED
        BY <4>1
    <3>2. down[n] = ModReduce(down[n + 1], T)
      BY <1>12, <3>1
    <3> QED
      BY <3>1, <3>2
  <2> HIDE DEF h1
  <2> QED
    BY <1>24, <2>1, <2>2, Reductions
<1>14. Held(down[1], 1, m[1])
  <2>1. l - 1 \in 0 .. (l - 1) /\ l - (l - 1) = 1
    BY <1>0
  <2>2. Held(h1[l - 1], l - (l - 1), m[l - (l - 1)])
    BY <1>13, <2>1
  <2>3. h1[l - 1] = down[1]
    BY <2>1
  <2> QED
    BY <2>1, <2>2, <2>3
<1> DEFINE v == down[1].val[0]
<1>15. PICK y \in Int : /\ Same(y, m[1], T) /\ 2 * Abs(y) <= Leeway * Rest(1) + 2 * T
                        /\ v \in 0 .. (Q(0) - 1) /\ Same(v, y, Q(0))
  BY <1>14 DEF Held, Holds
<1>16. 2 * Abs(y) < Q(0)
  <2>1. Rest(1) = 1
    <3>1. 1 \in 1 .. SizeQ
      BY <1>0
    <3> QED
      BY <3>1, RestFacts
  <2>2. Leeway * Rest(1) = Leeway
    BY <1>0, <2>1
  <2>3. Abs(y) \in Int
    BY AbsFacts
  <2> QED
    BY <1>0, <1>15, <2>2, <2>3 DEF Leeway
<1>17. v = y % Q(0)
  <2> DEFINE q == Q(0)
  <2>1. q \in Nat /\ q > 0 /\ v \in 0 .. (q - 1) /\ Same(v, y, q)
    BY <1>0, <1>15
  <2> HIDE DEF q, v
  <2>2. v % q = y % q
    BY <2>1, SameRemainder
  <2>3. v % q = v
    BY <2>1, ModSmall
  <2>4. v = y % q
    BY <2>2, <2>3
  <2> QED
    BY <2>4 DEF q
<1>18. Centered(v, Q(0)) = y
  BY <1>0, <1>16, <1>17, CenteredSmall
<1>19. ((y % T) * inv) % T = r
  <2> DEFINE a == factor[1]
  <2>12. 1 \in 1 .. l /\ factor[1] \in 1 .. (T - 1) /\ Unit(factor[1], T) /\ Same(y, m[1], T)
    BY <1>15, <1>20, <1>23
  <2>13. m[1] = x * a
    BY <1>22, <2>12
  <2>1. a \in Int /\ a \in 0 .. (T - 1) /\ T > 1 /\ Unit(a, T) /\ Same(y, x * a, T)
    BY <1>0, <2>12, <2>13
  <2>2. inv = ModInverse(a % T, T)
    BY <1>0, <2>1, ModSmall
  <2> HIDE DEF a, inv
  <2>3. inv \in Int /\ Same(a * inv, 1, T)
    BY <1>0, <2>1, <2>2, InverseIs
  <2>4. Same(y % T, y, T)
    BY <1>0, SameSelf
  <2>5. Same(y % T, x * a, T) /\ Same(inv, inv, T) /\ Same(x, x, T)
    BY <1>0, <1>21, <2>1, <2>3, <2>4, SameTrans, SameSelf
  <2> DEFINE b == y % T
  <2> HIDE DEF b
  <2>6. Same(b * inv, (x * a) * inv, T)
    BY <1>0, <2>5, SameArith DEF b
  <2>7. (x * a) * inv = x * (a * inv) /\ x * 1 = x
    BY <1>21, <2>1, <2>3
  <2>8. Same(x * (a * inv), x * 1, T)
    BY <1>0, <2>3, <2>5, SameArith
  <2>9. Same(b * inv, r, T)
    BY <1>0, <1>21, <2>6, <2>7, <2>8, SameTrans
  <2>10. (b * inv) % T = r % T
    BY <1>0, <2>9, SameRemainder
  <2>11. r % T = r
    BY <1>0, ModSmall
  <2> QED
    BY <2>10, <2>11 DEF b
<1> QED
  BY <1>2, <1>18, <1>19 DEF x

-----------------------------------------------------------------------------
(* Digits *)

\* What Primes says follows from what is known of the special primes.
LEMMA SpecialPrimesPositive ==
  ASSUME Params, SpecialOK
  PROVE  Primes
BY ModuliUnits DEF Primes, Positive

\* An element of l towers with its residues reduced.
Reduced(c, l) == c.mod = BasisQ(l) /\ \A i \in 0 .. (l - 1) : c.val[i] \in 0 .. (Q(i) - 1)

\* A digit stands for an integer in all the towers of the key it meets.
IsDigit(d, n, l, x) ==
  /\ Matches(d, l) /\ x \in Int /\ Abs(x) <= MaxDigit(n, l)
  /\ \A i \in 0 .. (l + SizeP - 1) : d.val[i] = x % KeyBasis[KeyTower(i, l)]

\* In HYBRID it is the ciphertext's element itself in its own towers.
Copies(d, n, l, c) == \A i \in Own(n, l) : d.val[i] = c.val[i]

\* The residues of a digit of HYBRID are those of one integer.
LEMMA HybridDigitIs ==
  ASSUME Params, SpecialOK, Hybrid, NEW l \in 1 .. SizeQ, NEW n \in 0 .. (NumParts(l) - 1),
         NEW c, Reduced(c, l)
  PROVE  /\ Copies(HybridDigit(c, n), n, l, c)
         /\ \E x : /\ IsDigit(HybridDigit(c, n), n, l, x)
                   /\ \A i \in Own(n, l) : Same(x, c.val[i], Q(i))
<1> DEFINE start == Alpha * n
           size == SizePart(l, n)
           b == ParamsPartQ(n, size)
           v == [i \in 0 .. (size - 1) |-> c.val[start + i]]
           part == [mod |-> b, val |-> v]
           comp == ComplPartQ(l, n)
           new == ApproxSwitchCRTBasis(part, PartQlHatInvModq(n, size), PartQlHatModp(l, n), comp,
                                       setting.int128)
           d == HybridDigit(c, n)
<1>1. /\ n \in Nat /\ start \in Nat /\ start < l /\ size \in Nat /\ start + size <= l
      /\ l \in Nat /\ l <= SizeQ /\ SizeQ \in Nat /\ SizeP \in Nat
  BY PartsOfTowers, Sizes DEF Params
<1>2. c.mod = BasisQ(l) /\ \A i \in 0 .. (l - 1) : c.val[i] \in 0 .. (Q(i) - 1)
  BY DEF Reduced
<1>3. Size(c) = l
  <2>1. Cardinality(0 .. (l - 1)) = l /\ DOMAIN BasisQ(l) = 0 .. (l - 1)
    BY <1>1, SizeOfInterval, LevelBasis
  <2> QED
    BY <1>2, <2>1 DEF Size
<1>4. /\ d.val = [i \in 0 .. (l + SizeP - 1) |->
                    IF i < start THEN new.val[i]
                    ELSE IF i < start + size THEN v[i - start] ELSE new.val[i - size]]
      /\ d.mod = [i \in 0 .. (l + SizeP - 1) |->
                    IF i < start THEN new.mod[i]
                    ELSE IF i < start + size THEN b[i - start] ELSE new.mod[i - size]]
  BY <1>3 DEF HybridDigit
<1>5. DOMAIN b = 0 .. (size - 1) /\ \A i \in 0 .. (size - 1) : b[i] = Q(start + i)
  BY DEF ParamsPartQ
<1>6. \A i \in 0 .. (size - 1) : /\ start + i \in 0 .. (l - 1) /\ start + i \in 0 .. (SizeQ - 1)
                                 /\ v[i] = c.val[start + i] /\ v[i] \in 0 .. (Q(start + i) - 1)
  <2>1. \A i \in 0 .. (size - 1) : start + i \in 0 .. (l - 1) /\ start + i \in 0 .. (SizeQ - 1)
    BY <1>1
  <2> QED
    BY <1>2, <2>1
<1>7. /\ comp = [k \in 0 .. (l - size + SizeP - 1) |-> comp[k]]
      /\ \A j \in DOMAIN comp : comp[j] \in Nat /\ comp[j] > 0
  <2>1. DOMAIN comp = 0 .. (l - size + SizeP - 1)
        /\ comp = [k \in 0 .. (l - size + SizeP - 1) |-> comp[k]]
    BY DEF ComplPartQ
  <2>2. ASSUME NEW j \in 0 .. (l - size + SizeP - 1) PROVE comp[j] \in Nat /\ comp[j] > 0
    <3>1. comp[j] = IF j >= l - size THEN special[j - (l - size) + 1]
                    ELSE IF j < start THEN Q(j) ELSE Q(j + size)
      BY Complement
    <3>2. CASE j >= l - size
      <4> DEFINE k == j - (l - size) + 1
      <4>1. k \in 1 .. SizeP
        BY <1>1, <3>2
      <4> HIDE DEF k
      <4>2. special[k] \in Nat /\ special[k] > 1
        BY <4>1, ModuliUnits
      <4>3. special[k] > 0
        BY <4>2
      <4> QED
        BY <3>1, <3>2, <4>2, <4>3 DEF k
    <3>3. CASE ~(j >= l - size)
      <4>1. j \in 0 .. (SizeQ - 1) /\ j + size \in 0 .. (SizeQ - 1)
        BY <1>1, <3>3
      <4>2. \A i \in 0 .. (SizeQ - 1) : Q(i) \in Nat /\ Q(i) > 1
        BY ModuliUnits
      <4>3. \A i \in 0 .. (SizeQ - 1) : Q(i) > 0
        BY <4>2
      <4> QED
        BY <3>1, <3>3, <4>1, <4>2, <4>3
    <3> QED
      BY <3>2, <3>3
  <2> QED
    BY <2>1, <2>2
<1> HIDE DEF comp
<1>8. Good(b)
  <2>1. \A i \in 0 .. (SizeQ - 1) : Q(i) \in Nat /\ Q(i) > 1
    BY ModuliUnits
  <2>2. \A i, k \in 0 .. (SizeQ - 1) : i # k => Unit(Q(i), Q(k))
    BY ModuliUnits
  <2>3. IsFiniteSet(0 .. (size - 1))
    BY <1>1, FS_Interval
  <2>4. \A i, k \in 0 .. (size - 1) : i # k => start + i # start + k
    BY <1>1
  <2> HIDE DEF b, start, size
  <2> QED
    BY <1>5, <1>6, <2>1, <2>2, <2>3, <2>4 DEF Good
<1>9. PICK z : Approximates(part, comp, new, z)
  <2>1. \A i \in DOMAIN part.mod : part.val[i] \in Int
    BY <1>5, <1>6
  <2>2. \A i \in DOMAIN part.mod : PartQlHatInvModq(n, size)[i] = HatInv(part.mod, i)
    BY <1>5 DEF PartQlHatInvModq
  <2>3. \A i \in DOMAIN part.mod : \A j \in DOMAIN comp :
          PartQlHatModp(l, n)[i][j] = Hat(part.mod, i) % comp[j]
    BY <1>5 DEF PartQlHatModp, comp
  <2>4. Good(part.mod)
    BY <1>8
  <2> HIDE DEF part
  <2> QED
    BY <1>7, <2>1, <2>2, <2>3, <2>4, SwitchApproximates
<1>10. /\ z \in Int /\ Abs(z) <= Reach(b)
       /\ \A i \in 0 .. (size - 1) : Same(z, v[i], b[i])
       /\ new.mod = comp /\ \A j \in 0 .. (l - size + SizeP - 1) : new.val[j] = z % comp[j]
  BY <1>5, <1>7, <1>9 DEF Approximates
<1>11. Matches(d, l)
  BY <1>3, HybridDigitMatches
<1>12. Reach(b) = MaxDigit(n, l)
  BY DEF Reach, MaxDigit
<1>13. Own(n, l) = start .. (start + size - 1)
  BY DEF Own
<1>14. Copies(d, n, l, c)
  <2> SUFFICES ASSUME NEW i \in start .. (start + size - 1) PROVE d.val[i] = c.val[i]
    BY <1>13 DEF Copies
  <2>1. /\ i \in 0 .. (l + SizeP - 1) /\ ~(i < start) /\ i < start + size
        /\ i - start \in 0 .. (size - 1) /\ start + (i - start) = i
    BY <1>1
  <2>2. d.val[i] = v[i - start]
    BY <1>4, <2>1
  <2> QED
    BY <1>6, <2>1, <2>2
<1>15. ASSUME NEW i \in 0 .. (l + SizeP - 1) PROVE d.val[i] = z % d.mod[i]
  <2>1. CASE i < start
    <3>1. i \in 0 .. (l - size + SizeP - 1)
      BY <1>1, <2>1
    <3> QED
      BY <1>4, <1>10, <2>1, <3>1
  <2>2. CASE ~(i < start) /\ i < start + size
    <3> DEFINE k == i - start
               m == b[k]
    <3>1. k \in 0 .. (size - 1)
      BY <1>1, <2>2
    <3>2. d.val[i] = v[k] /\ d.mod[i] = m
      BY <1>4, <2>2
    <3>3. Same(z, v[k], m) /\ v[k] \in 0 .. (m - 1)
      BY <1>5, <1>6, <1>10, <3>1
    <3>4. m \in Nat /\ m > 0
      <4>1. start + k \in 0 .. (SizeQ - 1) /\ m = Q(start + k)
        BY <1>5, <1>6, <3>1
      <4> HIDE DEF k, m, start
      <4>2. Q(start + k) \in Nat /\ Q(start + k) > 1
        BY <4>1, ModuliUnits
      <4> QED
        BY <4>1, <4>2
    <3> HIDE DEF v, m, k
    <3>5. z % m = v[k] % m
      BY <3>3, <3>4, SameRemainder
    <3>6. v[k] % m = v[k]
      BY <3>3, <3>4, ModSmall
    <3> QED
      BY <3>2, <3>5, <3>6
  <2>3. CASE ~(i < start) /\ ~(i < start + size)
    <3>1. i - size \in 0 .. (l - size + SizeP - 1)
      BY <1>1, <2>3
    <3> QED
      BY <1>4, <1>10, <2>3, <3>1
  <2> QED
    BY <2>1, <2>2, <2>3
<1>16. IsDigit(d, n, l, z)
  <2>1. /\ DOMAIN d.mod = 0 .. (l + SizeP - 1)
        /\ \A i \in DOMAIN d.mod : d.mod[i] = KeyBasis[KeyTower(i, l)]
    BY <1>11 DEF Matches
  <2>2. \A i \in 0 .. (l + SizeP - 1) : d.val[i] = z % KeyBasis[KeyTower(i, l)]
    <3> HIDE DEF d
    <3> QED
      BY <1>15, <2>1
  <2>3. z \in Int /\ Abs(z) <= MaxDigit(n, l)
    BY <1>10, <1>12
  <2> HIDE DEF d
  <2> QED
    BY <1>11, <2>2, <2>3 DEF IsDigit
<1>17. \A i \in Own(n, l) : Same(z, c.val[i], Q(i))
  <2> SUFFICES ASSUME NEW i \in start .. (start + size - 1) PROVE Same(z, c.val[i], Q(i))
    BY <1>13
  <2>1. i - start \in 0 .. (size - 1) /\ start + (i - start) = i
    BY <1>1
  <2>2. Same(z, v[i - start], b[i - start])
    BY <1>10, <2>1
  <2>3. v[i - start] = c.val[i] /\ b[i - start] = Q(i)
    BY <1>5, <1>6, <2>1
  <2> QED
    BY <2>2, <2>3
<1> QED
  BY <1>14, <1>16, <1>17

\* What is left of a secret in each tower: the key of a digit holds it where
\* the digit has its own towers.
Scale == IF Hybrid THEN ModulusP ELSE 1

\* The integers of the digits, multiplied with what the keys hold, add up to
\* the element in its first m towers.
Weighted(l, f, i) == Total([n \in 0 .. (NumDigits(l) - 1) |-> f[n] * Multiplier(n, i)],
                           0 .. (NumDigits(l) - 1))
Recomposes(l, m, c, f) ==
  \A i \in 0 .. (m - 1) : Same(Weighted(l, f, i), c.val[i] * Scale, Q(i))

\* A number is that of a digit when the digit's first tower is there.
LEMMA PartsCounted ==
  ASSUME Params, Hybrid, NEW k \in 1 .. SizeQ
  PROVE  NumParts(k) \in Int /\ \A n \in Nat : n <= NumParts(k) - 1 <=> Alpha * n < k
<1> DEFINE a == Alpha
           u == (k + a - 1) \div a
           w == (k + a - 1) % a
<1>1. k \in Nat /\ k >= 1 /\ a \in Nat \ {0} /\ k + a - 1 \in Nat
  BY Sizes
<1>2. u \in Nat /\ w \in 0 .. (a - 1) /\ k + a - 1 = a * u + w
  BY <1>1, Division
<1>3. NumParts(k) = u
  BY DEF NumParts, CeilDiv
<1>4. ASSUME NEW n \in Nat PROVE n <= u - 1 <=> a * n < k
  <2> HIDE DEF u, w, a
  <2>1. CASE n <= u - 1
    <3>1. a * (n + 1) <= a * u
      BY <1>1, <1>2, <2>1, ProductMonotone
    <3>2. a * (n + 1) = a * n + a /\ a * n \in Nat
      BY <1>1
    <3> QED
      BY <1>1, <1>2, <2>1, <3>1, <3>2
  <2>2. CASE ~(n <= u - 1)
    <3>1. a * u <= a * n
      BY <1>1, <1>2, <2>2, ProductMonotone
    <3> QED
      BY <1>1, <1>2, <2>2, <3>1
  <2> QED
    BY <2>1, <2>2
<1> QED
  BY <1>2, <1>3, <1>4

\* A tower is in one digit only, at every level.
LEMMA DigitOfTower ==
  ASSUME Params, Hybrid, NEW l \in 1 .. SizeQ, NEW i \in 0 .. (l - 1)
  PROVE  \E r \in 0 .. (NumParts(l) - 1) :
           /\ i \in Own(r, l) /\ i \in Own(r, SizeQ)
           /\ \A n \in 0 .. (NumParts(l) - 1) : n # r => i \notin Own(n, SizeQ)
<1> DEFINE r == i \div Alpha
           p == NumParts(l)
           full == NumParts(SizeQ)
<1>0. /\ l \in Nat /\ l >= 1 /\ l <= SizeQ /\ SizeQ \in Nat /\ Alpha \in Nat \ {0}
      /\ i \in Nat /\ i < l /\ i < SizeQ
  BY Sizes
<1>1. \A k \in {l, SizeQ} : /\ NumParts(k) \in Int
                            /\ \A n \in Nat : n <= NumParts(k) - 1 <=> Alpha * n < k
  <2>1. SizeQ \in 1 .. SizeQ
    BY <1>0
  <2> QED
    BY <2>1, PartsCounted
<1>2. /\ r \in Nat /\ i = Alpha * r + (i % Alpha) /\ (i % Alpha) \in 0 .. (Alpha - 1)
  BY <1>0, Division
<1> HIDE DEF r
<1>3. Alpha * r \in Nat /\ Alpha * r <= i /\ i < Alpha * r + Alpha
  BY <1>0, <1>2
<1>4. r \in 0 .. (p - 1) /\ p \in Int /\ full \in Int
  BY <1>0, <1>1, <1>2, <1>3
<1>5. \A k \in {l, SizeQ} : i \in Own(r, k)
  <2> TAKE k \in {l, SizeQ}
  <2>1. i < Alpha * r + SizePart(k, r)
    BY <1>0, <1>3 DEF SizePart
  <2>2. SizePart(k, r) \in Int
    BY <1>0, <1>3 DEF SizePart
  <2> QED
    BY <1>0, <1>3, <2>1, <2>2 DEF Own
<1>6. ASSUME NEW n \in 0 .. (p - 1), i \in Own(n, SizeQ) PROVE n = r
  <2>1. n \in Nat /\ Alpha * n \in Nat
    BY <1>0, <1>4
  <2>2. SizePart(SizeQ, n) \in Int /\ SizePart(SizeQ, n) <= Alpha
    <3>1. CASE n = full - 1
      <4>1. ~(n + 1 <= full - 1) /\ n + 1 \in Nat
        BY <1>4, <2>1, <3>1
      <4>2. Alpha * (n + 1) >= SizeQ
        BY <1>0, <1>1, <4>1
      <4>3. Alpha * (n + 1) = Alpha * n + Alpha
        BY <1>0, <2>1
      <4> QED
        BY <1>0, <2>1, <3>1, <4>2, <4>3 DEF SizePart
    <3>2. CASE n # full - 1
      BY <1>0, <3>2 DEF SizePart
    <3> QED
      BY <3>1, <3>2
  <2>3. Alpha * n <= i /\ i < Alpha * n + Alpha
    <3>1. Alpha * n <= i /\ i <= Alpha * n + SizePart(SizeQ, n) - 1
      BY <1>0, <1>6, <2>1, <2>2 DEF Own
    <3> QED
      BY <1>0, <2>1, <2>2, <3>1
  <2> DEFINE a == Alpha
  <2>4. a \in Nat \ {0}
    BY <1>0
  <2>5. a * n < a * r + a /\ a * r < a * n + a
    BY <1>0, <1>3, <2>1, <2>3
  <2> HIDE DEF a
  <2>6. CASE n > r
    <3>1. a * (r + 1) <= a * n /\ a * (r + 1) = a * r + a
      BY <1>2, <2>1, <2>4, <2>6, ProductMonotone
    <3> QED
      BY <1>2, <2>1, <2>4, <2>5, <3>1
  <2>7. CASE n < r
    <3>1. a * (n + 1) <= a * r /\ a * (n + 1) = a * n + a
      BY <1>2, <2>1, <2>4, <2>7, ProductMonotone
    <3> QED
      BY <1>2, <2>1, <2>4, <2>5, <3>1
  <2> QED
    BY <1>2, <2>1, <2>6, <2>7
<1> QED
  BY <1>4, <1>5, <1>6

\* The digits of HYBRID add up to the element they were made of.
LEMMA HybridRecomposes ==
  ASSUME Params, SpecialOK, Hybrid, NEW l \in 1 .. SizeQ, NEW c, Reduced(c, l),
         NEW f, \A n \in 0 .. (NumParts(l) - 1) :
                  f[n] \in Int /\ \A i \in Own(n, l) : Same(f[n], c.val[i], Q(i))
  PROVE  Recomposes(l, l, c, f)
<1> SUFFICES ASSUME NEW i \in 0 .. (l - 1)
             PROVE  Same(Weighted(l, f, i), c.val[i] * Scale, Q(i))
  BY DEF Recomposes
<1> DEFINE D == 0 .. (NumDigits(l) - 1)
           g == [n \in D |-> f[n] * Multiplier(n, i)]
           q == Q(i)
<1>1. NumDigits(l) = NumParts(l) /\ NumDigits(l) \in Int
  BY DigitsCounted DEF NumDigits
<1>2. PICK r \in 0 .. (NumParts(l) - 1) :
        /\ i \in Own(r, l) /\ i \in Own(r, SizeQ)
        /\ \A n \in 0 .. (NumParts(l) - 1) : n # r => i \notin Own(n, SizeQ)
  BY DigitOfTower
<1>3. ModulusP \in Nat /\ ModulusP > 0 /\ Primes
  <2>1. Primes
    BY SpecialPrimesPositive
  <2> QED
    BY <2>1, ModulusPPositive DEF Positive
<1>4. q \in Nat /\ q > 0
  BY LevelBasis
<1>5. Multiplier(r, i) = ModulusP % q /\ \A n \in D : n # r => Multiplier(n, i) = 0
  BY <1>1, <1>2 DEF Multiplier, Factor, PModq
<1> DEFINE w == ModulusP % q
<1>6. Same(w, ModulusP, q) /\ w \in Int
  <2> HIDE DEF q
  <2>1. Same(w, ModulusP, q)
    BY <1>3, <1>4, SameSelf
  <2> QED
    BY <2>1 DEF Same
<1>7. Total(g, D) = f[r] * w
  <2>1. IsFiniteSet(D)
    <3>1. 0 \in Int /\ NumDigits(l) - 1 \in Int
      BY <1>1
    <3> QED
      BY <3>1, FS_Interval
  <2>2. \A n \in D : f[n] \in Int /\ Multiplier(n, i) \in Int
    BY <1>1, <1>5, <1>6
  <2>3. r \in D /\ f[r] \in Int
    BY <1>1, <1>2
  <2>4. \A n \in D : g[n] \in Int /\ (n # r => g[n] = 0)
    BY <1>5, <2>2
  <2>5. g[r] = f[r] * w
    BY <1>5, <2>3
  <2> HIDE DEF g, D
  <2>6. Total(g, D) = g[r]
    BY <2>1, <2>3, <2>4, TotalOne
  <2> QED
    BY <2>5, <2>6
<1>8. Same(f[r], c.val[i], q)
  BY <1>2
<1>9. Same(f[r] * w, c.val[i] * ModulusP, q)
  <2> HIDE DEF q, w
  <2> QED
    BY <1>4, <1>6, <1>8, SameArith
<1> QED
  BY <1>7, <1>9 DEF Weighted, Scale

\* The windows of the towers follow each other.
LEMMA WindowsGrow ==
  ASSUME Params, ~Hybrid
  PROVE  \A k \in 0 .. SizeQ : FirstWindow(k) \in Nat /\ \A i \in 0 .. k : FirstWindow(i) <= FirstWindow(k)
<1> DEFINE G == {k \in 0 .. SizeQ : FirstWindow(k) \in Nat
                                    /\ \A i \in 0 .. k : FirstWindow(i) <= FirstWindow(k)}
<1>0. SizeQ \in Nat
  BY Sizes
<1>1. 0 \in G
  BY <1>0, Windows
<1>2. ASSUME NEW k \in 0 .. (SizeQ - 1), k \in G PROVE k + 1 \in G
  <2> DEFINE a == FirstWindow(k)
             b == FirstWindow(k + 1)
  <2>1. b = a + NumWindows(k) /\ NumWindows(k) \in Nat /\ a \in Nat /\ k + 1 \in 0 .. SizeQ
    BY <1>0, <1>2, Windows
  <2>2. a <= b /\ b \in Nat
    BY <2>1
  <2>3. ASSUME NEW i \in 0 .. (k + 1) PROVE FirstWindow(i) <= b
    <3>1. CASE i = k + 1
      BY <2>2, <3>1
    <3>2. CASE i # k + 1
      <4>1. i \in 0 .. k /\ i \in 0 .. SizeQ
        BY <1>0, <3>2
      <4>2. FirstWindow(i) <= a
        BY <1>2, <4>1
      <4>3. FirstWindow(i) \in Int
        <5>1. i \in 0 .. (SizeQ - 1)
          BY <1>0, <4>1
        <5> QED
          BY <5>1, Windows
      <4> HIDE DEF a, b
      <4> QED
        BY <2>1, <2>2, <4>2, <4>3
    <3> QED
      BY <3>1, <3>2
  <2> QED
    BY <2>1, <2>2, <2>3
<1>3. \A k \in 0 .. SizeQ : k \in G
  <2> HIDE DEF G
  <2> QED
    BY <1>0, <1>1, <1>2, UpTo
<1> QED
  BY <1>3

\* A window is one of a tower when it is counted there.
LEMMA WindowOfTower ==
  ASSUME Params, ~Hybrid, NEW i \in 0 .. (SizeQ - 1), NEW n \in Int,
         FirstWindow(i) <= n, n < FirstWindow(i + 1)
  PROVE  TowerOf(n) = i
<1> DEFINE t == TowerOf(n)
<1>0. SizeQ \in Nat /\ i \in Nat /\ i + 1 \in 0 .. SizeQ
  BY Sizes
<1>1. FirstWindow(i + 1) = FirstWindow(i) + NumWindows(i)
  BY Windows
<1>2. t \in 0 .. (SizeQ - 1) /\ FirstWindow(t) <= n /\ n < FirstWindow(t) + NumWindows(t)
  BY <1>1 DEF TowerOf
<1> HIDE DEF t
<1>3. FirstWindow(t + 1) = FirstWindow(t) + NumWindows(t) /\ t + 1 \in 0 .. SizeQ /\ t \in Nat
  BY <1>0, <1>2, Windows
<1>4. FirstWindow(i) \in Nat /\ FirstWindow(t) \in Nat /\ FirstWindow(i + 1) \in Nat
      /\ FirstWindow(t + 1) \in Nat
  <2>1. i \in 0 .. SizeQ /\ t \in 0 .. SizeQ
    BY <1>0, <1>2
  <2> QED
    BY <1>0, <1>3, <2>1, WindowsGrow
<1>5. ~(t < i)
  <2> SUFFICES ASSUME t < i PROVE FALSE
    OBVIOUS
  <2>1. t + 1 \in 0 .. i /\ i \in 0 .. SizeQ
    BY <1>0, <1>3
  <2>2. FirstWindow(t + 1) <= FirstWindow(i)
    BY <2>1, WindowsGrow
  <2> QED
    BY <1>2, <1>3, <1>4, <2>2
<1>6. ~(i < t)
  <2> SUFFICES ASSUME i < t PROVE FALSE
    OBVIOUS
  <2>1. i + 1 \in 0 .. t /\ t \in 0 .. SizeQ
    BY <1>0, <1>2, <1>3
  <2>2. FirstWindow(i + 1) <= FirstWindow(t)
    BY <2>1, WindowsGrow
  <2> QED
    BY <1>1, <1>2, <1>4, <2>2
<1> QED
  BY <1>0, <1>2, <1>3, <1>5, <1>6 DEF t

\* The tower of a digit is one of the towers there are digits of.
LEMMA TowerWithin ==
  ASSUME Params, ~Hybrid, NEW l \in 1 .. SizeQ, NEW n \in 0 .. (FirstWindow(l) - 1)
  PROVE  /\ TowerOf(n) \in 0 .. (l - 1) /\ n \in Nat
         /\ FirstWindow(TowerOf(n)) <= n /\ n < FirstWindow(TowerOf(n) + 1)
         /\ FirstWindow(TowerOf(n)) \in Nat
<1> DEFINE t == TowerOf(n)
<1>0. SizeQ \in Nat /\ l \in Nat /\ l \in 0 .. SizeQ
  BY Sizes
<1>1. /\ t \in 0 .. (SizeQ - 1) /\ n \in Nat /\ FirstWindow(t) <= n
      /\ n < FirstWindow(t) + NumWindows(t)
  BY WindowHasTower
<1> HIDE DEF t
<1>2. FirstWindow(t + 1) = FirstWindow(t) + NumWindows(t)
  BY <1>1, Windows
<1>3. t \in 0 .. SizeQ /\ FirstWindow(t) \in Nat /\ FirstWindow(l) \in Nat
  <2>1. t \in 0 .. SizeQ
    BY <1>0, <1>1
  <2> QED
    BY <1>0, <2>1, WindowsGrow
<1>4. t < l
  <2> SUFFICES ASSUME ~(t < l) PROVE FALSE
    OBVIOUS
  <2>1. l \in 0 .. t
    BY <1>0, <1>1
  <2>2. FirstWindow(l) <= FirstWindow(t)
    BY <1>3, <2>1, WindowsGrow
  <2> QED
    BY <1>0, <1>1, <1>3, <2>2
<1> QED
  BY <1>0, <1>1, <1>2, <1>3, <1>4 DEF t

\* What a digit of BV is made of: the bits of a window, or the whole residue.
Window(v, n) == IF setting.digits = 0 THEN v ELSE (v \div Power(n)) % 2^setting.digits

\* The powers the windows of a tower stand at.
Powers(i, p, b) ==
  /\ b \in Nat /\ b > 0 /\ p[0] = 1
  /\ \A k \in 0 .. NumWindows(i) : p[k] \in Nat /\ p[k] > 0
  /\ \A k \in 0 .. (NumWindows(i) - 1) : p[k + 1] = p[k] * b
  /\ Q(i) <= p[NumWindows(i)]
  /\ \A k \in 0 .. (NumWindows(i) - 1) :
       /\ Power(FirstWindow(i) + k) = p[k]
       /\ \A v \in 0 .. (Q(i) - 1) : Window(v, FirstWindow(i) + k) = (v \div p[k]) % b

\* The windows of a tower cover the bits of its modulus.
LEMMA WindowPowers ==
  ASSUME Params, ~Hybrid, NEW i \in 0 .. (SizeQ - 1)
  PROVE  \E p, b : Powers(i, p, b)
<1> DEFINE d == setting.digits
           N == NumWindows(i)
           a == FirstWindow(i)
           q == Q(i)
<1>0. /\ setting \in Settings /\ d \in Nat /\ SizeQ \in Nat /\ i + 1 \in DOMAIN setting.q
      /\ q \in Nat /\ q > 1
  <2>1. setting \in Settings /\ d \in Nat /\ SizeQ \in Nat
    BY Sizes DEF Params
  <2>2. SizeQ \in 1 .. SizeQ
    BY Sizes
  <2>3. q \in Nat /\ q > 1
    BY <2>2, LevelBasis
  <2>4. i + 1 \in DOMAIN setting.q
    BY <2>1, KeySwitchAssumption DEF SizeQ
  <2> QED
    BY <2>1, <2>3, <2>4
<1>1. N \in Nat /\ a \in Nat /\ FirstWindow(i + 1) = a + N
  <2>1. i \in 0 .. SizeQ
    BY <1>0
  <2> QED
    BY <2>1, Windows, WindowsGrow
<1>2. \A k \in 0 .. (N - 1) : TowerOf(a + k) = i /\ (a + k) - FirstWindow(TowerOf(a + k)) = k
  <2> TAKE k \in 0 .. (N - 1)
  <2> DEFINE n == a + k
  <2>1. n \in Int /\ a <= n /\ n < FirstWindow(i + 1) /\ n - a = k
    BY <1>1
  <2> HIDE DEF n
  <2>2. TowerOf(n) = i
    BY <2>1, WindowOfTower
  <2> QED
    BY <2>1, <2>2 DEF n
<1>3. \A k \in 0 .. (N - 1) : Power(a + k) = 2^(d * k)
  BY <1>2 DEF Power
<1>4. 2^d \in Nat /\ 2^d > 0 /\ 2^0 = 1
  BY <1>0, BitsAssumption
<1>5. CASE d = 0
  <2> DEFINE p == [k \in 0 .. 1 |-> IF k = 0 THEN 1 ELSE q]
  <2>1. N = 1
    BY <1>5 DEF NumWindows
  <2>2. /\ p[0] = 1 /\ \A k \in 0 .. 1 : p[k] \in Nat /\ p[k] > 0
        /\ \A k \in 0 .. 0 : p[k + 1] = p[k] * q
        /\ q <= p[1]
    BY <1>0
  <2>3. \A k \in 0 .. 0 : Power(a + k) = p[k]
    <3>1. Power(a + 0) = 2^(d * 0) /\ d * 0 = 0
      BY <1>0, <1>3, <2>1
    <3>2. \A k \in 0 .. 0 : k = 0
      OBVIOUS
    <3> QED
      BY <1>4, <2>2, <3>1, <3>2
  <2>4. \A k \in 0 .. 0 : \A v \in 0 .. (q - 1) : Window(v, a + k) = (v \div p[k]) % q
    <3> SUFFICES ASSUME NEW k \in 0 .. 0, NEW v \in 0 .. (q - 1)
                 PROVE  Window(v, a + k) = (v \div p[k]) % q
      OBVIOUS
    <3>1. Window(v, a + k) = v
      BY <1>5 DEF Window
    <3>2. k = 0 /\ p[k] = 1
      OBVIOUS
    <3> HIDE DEF p, q
    <3>3. v \div 1 = v /\ v % q = v
      BY <1>0, ModSmall
    <3> QED
      BY <3>1, <3>2, <3>3
  <2>5. Powers(i, p, q)
    <3>1. N - 1 = 0
      BY <2>1
    <3> HIDE DEF p
    <3> QED
      BY <1>0, <2>1, <2>2, <2>3, <2>4, <3>1 DEF Powers
  <2> QED
    BY <2>5
<1>6. CASE d # 0
  <2> DEFINE p == [k \in 0 .. N |-> 2^(d * k)]
             b == 2^d
  <2>1. /\ N = CeilDiv(Length2(q), d) /\ d > 0 /\ setting.technique = "BV"
    <3>1. setting.technique \in {"BV", "HYBRID"}
      BY <1>0, KeySwitchAssumption
    <3> QED
      BY <1>0, <1>6, <3>1 DEF NumWindows, Hybrid
  <2>2. /\ q < 2^(d * N)
        /\ \A k \in 0 .. N : 2^(d * k) \in Nat /\ 2^(d * (k + 1)) = 2^(d * k) * b
    <3>1. \A j \in DOMAIN setting.q :
            LET n == CeilDiv(Length2(setting.q[j]), d)
            IN  /\ setting.q[j] < 2^(d * n)
                /\ \A k \in 0 .. n : 2^(d * k) \in Nat /\ 2^(d * (k + 1)) = 2^(d * k) * 2^d
      BY <1>0, <2>1, BitsAssumption
    <3> QED
      BY <1>0, <2>1, <3>1 DEF Q
  <2>3. \A k \in 0 .. (N - 1) : p[k + 1] = p[k] * b /\ k + 1 \in 0 .. N
    BY <1>1, <2>2
  <2>4. p[0] = 1
    <3>1. 0 \in 0 .. N /\ d * 0 = 0
      BY <1>0, <1>1
    <3> QED
      BY <1>4, <3>1
  <2>5. \A k \in 0 .. N : p[k] \in Nat /\ p[k] > 0
    <3> DEFINE G == {k \in 0 .. N : p[k] \in Nat /\ p[k] > 0}
    <3>1. 0 \in G
      <4>1. 0 \in 0 .. N
        BY <1>1
      <4> HIDE DEF p
      <4> QED
        BY <2>4, <4>1
    <3>2. ASSUME NEW k \in 0 .. (N - 1), k \in G PROVE k + 1 \in G
      <4>1. p[k + 1] = p[k] * b /\ p[k] \in Nat /\ p[k] > 0 /\ b \in Nat /\ b > 0 /\ k + 1 \in 0 .. N
        BY <1>4, <2>3, <3>2
      <4> HIDE DEF p, b
      <4>2. p[k] * b \in Nat /\ p[k] * b > 0
        <5>1. 1 * 1 <= p[k] * b /\ p[k] * b \in Nat
          BY <4>1, ProductMonotone
        <5> QED
          BY <5>1
      <4> QED
        BY <4>1, <4>2
    <3>3. \A k \in 0 .. N : k \in G
      <4> HIDE DEF G
      <4> QED
        BY <1>1, <3>1, <3>2, UpTo
    <3> QED
      BY <3>3
  <2>6. \A k \in 0 .. (N - 1) : Power(a + k) = p[k]
    <3>1. \A k \in 0 .. (N - 1) : k \in 0 .. N
      BY <1>1
    <3> QED
      BY <1>3, <3>1
  <2>7. \A k \in 0 .. (N - 1) : \A v \in 0 .. (q - 1) : Window(v, a + k) = (v \div p[k]) % b
    BY <1>6, <2>6 DEF Window
  <2>8. q <= p[N]
    <3>1. N \in 0 .. N /\ 2^(d * N) \in Nat
      BY <1>1, <2>2
    <3> QED
      BY <1>0, <2>2, <3>1
  <2>9. Powers(i, p, b)
    <3> HIDE DEF p, b, q, N, a
    <3>1. b \in Nat /\ b > 0
      BY <1>4 DEF b
    <3>2. \A k \in 0 .. (N - 1) : p[k + 1] = p[k] * b
      BY <2>3
    <3>3. \A k \in 0 .. (N - 1) : Power(a + k) = p[k]
      BY <2>6
    <3> QED
      BY <2>4, <2>5, <2>7, <2>8, <3>1, <3>2, <3>3 DEF Powers, q, N, a
  <2> QED
    BY <2>9
<1> QED
  BY <1>5, <1>6

\* The residues of a digit of BV are those of one integer.
LEMMA BVDigitIs ==
  ASSUME Params, SpecialOK, ~Hybrid, NEW l \in 1 .. SizeQ, NEW n \in 0 .. (FirstWindow(l) - 1),
         NEW c, Reduced(c, l)
  PROVE  /\ TowerOf(n) \in 0 .. (l - 1)
         /\ CRTDecompose(c, n).val[TowerOf(n)] = Window(c.val[TowerOf(n)], n)
         /\ Window(c.val[TowerOf(n)], n) \in 0 .. (Q(TowerOf(n)) - 1)
         /\ IsDigit(CRTDecompose(c, n), n, l, Centered(Window(c.val[TowerOf(n)], n), Q(TowerOf(n))))
<1> DEFINE i == TowerOf(n)
           q == Q(i)
           v == c.val[i]
           x == Window(v, n)
           y == Centered(x, q)
           d == CRTDecompose(c, n)
<1>1. i \in 0 .. (l - 1) /\ n \in Nat /\ FirstWindow(i) <= n /\ n < FirstWindow(i + 1)
      /\ FirstWindow(i) \in Nat
  BY TowerWithin
<1>2. c.mod = BasisQ(l) /\ v \in 0 .. (q - 1) /\ DOMAIN c.mod = 0 .. (l - 1)
      /\ \A k \in 0 .. (l - 1) : c.mod[k] = Q(k) /\ Q(k) \in Nat /\ Q(k) > 1 /\ Q(k) > 0
      /\ l \in Nat /\ SizeQ \in Nat /\ l <= SizeQ
  BY <1>1, LevelBasis DEF Reduced
<1>3. /\ d.mod = BasisQ(l)
      /\ \A k \in 0 .. (l - 1) :
           d.val[k] = IF k = i THEN x % q ELSE y % Q(k)
  BY <1>1, <1>2 DEF CRTDecompose, Window, SwitchModulus
<1> DEFINE m == 2^setting.digits
<1>4. x \in 0 .. (q - 1) /\ (setting.digits # 0 => x \in 0 .. (m - 1)) /\ m \in Nat /\ m > 0
      /\ q \in Nat /\ q > 0
  <2>1. i \in 0 .. (SizeQ - 1)
    BY <1>1, <1>2
  <2>2. PICK p, b : Powers(i, p, b)
    <3> HIDE DEF i
    <3> QED
      BY <2>1, WindowPowers
  <2> DEFINE k == n - FirstWindow(i)
  <2>3. k \in 0 .. (NumWindows(i) - 1) /\ FirstWindow(i) + k = n /\ NumWindows(i) \in Nat
    <3>1. FirstWindow(i + 1) = FirstWindow(i) + NumWindows(i) /\ NumWindows(i) \in Nat
      <4> HIDE DEF i
      <4> QED
        BY <2>1, Windows
    <3> HIDE DEF i
    <3> QED
      BY <1>1, <3>1
  <2> HIDE DEF k
  <2>4. /\ b \in Nat /\ b > 0 /\ p[k] \in Nat /\ p[k] > 0
        /\ x = (v \div p[k]) % b
    <3>1. k \in 0 .. NumWindows(i)
      BY <2>3
    <3> HIDE DEF i
    <3> QED
      BY <1>2, <2>2, <2>3, <3>1 DEF Powers
  <2>5. q \in Nat /\ q > 0
    BY <1>1, <1>2
  <2>6. setting \in Settings /\ m \in Nat /\ m > 0
    <3>1. setting \in Settings
      BY DEF Params
    <3> QED
      BY <3>1, BitsAssumption
  <2>7. x \in Nat /\ x <= v
    <3> DEFINE r == p[k]
               w == v \div r
    <3>1. v \in Nat /\ r \in Nat \ {0} /\ b \in Nat \ {0}
      BY <1>2, <2>4, <2>5
    <3> HIDE DEF r, v
    <3>2. w \in Nat /\ v % r \in 0 .. (r - 1) /\ v = r * w + (v % r)
      BY <3>1, Division
    <3> HIDE DEF w
    <3>3. w % b \in 0 .. (b - 1) /\ w = b * (w \div b) + (w % b) /\ w \div b \in Nat
      BY <3>1, <3>2, Division
    <3>4. 1 * w <= r * w /\ r * w \in Nat
      BY <3>1, <3>2, ProductMonotone
    <3>5. b * (w \div b) \in Nat
      BY <3>1, <3>3
    <3>6. w % b <= w
      BY <3>2, <3>3, <3>5
    <3>7. w <= v
      BY <3>1, <3>2, <3>4
    <3>8. w % b <= v /\ w % b \in Nat
      BY <3>1, <3>2, <3>3, <3>6, <3>7
    <3> QED
      BY <2>4, <3>8 DEF w, r, v
  <2>8. setting.digits # 0 => x \in 0 .. (m - 1)
    <3> SUFFICES ASSUME setting.digits # 0 PROVE x \in 0 .. (m - 1)
      OBVIOUS
    <3>1. x = (v \div Power(n)) % m
      BY DEF Window
    <3>2. Power(n) = p[k]
      BY <2>2, <2>3 DEF Powers
    <3>3. v \div p[k] \in Nat
      <4>1. v \in Nat /\ p[k] \in Nat \ {0}
        BY <1>2, <2>4, <2>5
      <4> QED
        BY <4>1, Division
    <3> HIDE DEF m, x, v
    <3>4. (v \div p[k]) % m \in 0 .. (m - 1)
      BY <2>6, <3>3, ModRange
    <3> QED
      BY <3>1, <3>2, <3>4
  <2>9. x \in 0 .. (q - 1)
    <3> HIDE DEF x, v, q
    <3> QED
      BY <1>2, <2>5, <2>7
  <2> QED
    BY <2>5, <2>6, <2>8, <2>9
<1> HIDE DEF i, x, v
<1>5. /\ Same(y, x, q) /\ y \in Int /\ Abs(y) \in Nat /\ Abs(y) <= q \div 2
      /\ x <= q \div 2 => y = x
  <2> HIDE DEF q
  <2>1. Same(y, x, q) /\ Abs(y) <= q \div 2 /\ (x <= q \div 2 => y = x)
    BY <1>4, CenteredFacts
  <2>2. y \in Int
    BY <2>1 DEF Same
  <2> HIDE DEF y
  <2> QED
    BY <2>1, <2>2, AbsFacts
<1> HIDE DEF y
<1>6. \A k \in 0 .. (l - 1) : d.val[k] = y % Q(k)
  <2>1. x % q = y % q
    <3> HIDE DEF q
    <3> QED
      BY <1>4, <1>5, SameRemainder
  <2> QED
    BY <1>3, <2>1 DEF q
<1>7. Abs(y) <= MaxDigit(n, l)
  <2> DEFINE half == q \div 2
  <2>1. MaxDigit(n, l) = IF setting.digits = 0 \/ half < m THEN half ELSE m - 1
    BY DEF MaxDigit, i
  <2>2. half \in Nat
    <3>1. 2 \in Nat \ {0}
      OBVIOUS
    <3> HIDE DEF q
    <3> QED
      BY <1>4, <3>1, Division
  <2>3. CASE setting.digits = 0 \/ half < m
    BY <1>5, <2>1, <2>3
  <2>4. CASE ~(setting.digits = 0 \/ half < m)
    <3>0. ~(half < m) /\ setting.digits # 0
      BY <2>4
    <3> HIDE DEF half, m, q
    <3>1. x \in 0 .. (m - 1) /\ x <= half /\ m \in Nat
      BY <1>4, <2>2, <3>0
    <3>2. y = x
      BY <1>5, <3>1 DEF half
    <3>3. Abs(y) <= m - 1
      BY <3>1, <3>2 DEF Abs
    <3> QED
      BY <2>1, <2>4, <3>3
  <2> QED
    BY <2>3, <2>4
<1>8. Matches(d, l)
  BY <1>2, CRTDecomposeMatches
<1>9. IsDigit(d, n, l, y)
  <2>1. SizeP = 0
    BY DEF Params
  <2>2. l + SizeP - 1 = l - 1
    BY <1>2, <2>1
  <2>3. /\ DOMAIN d.mod = 0 .. (l - 1)
        /\ \A k \in DOMAIN d.mod : d.mod[k] = KeyBasis[KeyTower(k, l)]
    BY <1>8, <2>2 DEF Matches
  <2>4. \A k \in 0 .. (l - 1) : KeyBasis[KeyTower(k, l)] = Q(k)
    BY <1>2, <1>3, <2>3
  <2>5. \A k \in 0 .. (l + SizeP - 1) : d.val[k] = y % KeyBasis[KeyTower(k, l)]
    <3> HIDE DEF d
    <3> QED
      BY <1>6, <2>2, <2>4
  <2> HIDE DEF d
  <2> QED
    BY <1>5, <1>7, <1>8, <2>5 DEF IsDigit
<1>10. d.val[i] = x
  <2>1. x % q = x
    <3> HIDE DEF q
    <3> QED
      BY <1>4, ModSmall
  <2> QED
    BY <1>1, <1>3, <2>1
<1> QED
  BY <1>1, <1>4, <1>9, <1>10 DEF i, x, v, y, q

\* The digits of BV add up to the element they were made of.
LEMMA BVRecomposes ==
  ASSUME Params, SpecialOK, ~Hybrid, NEW l \in 1 .. SizeQ, NEW c, Reduced(c, l),
         NEW f, \A n \in 0 .. (FirstWindow(l) - 1) :
                  f[n] = Centered(Window(c.val[TowerOf(n)], n), Q(TowerOf(n)))
  PROVE  Recomposes(l, l, c, f)
<1> SUFFICES ASSUME NEW i \in 0 .. (l - 1)
             PROVE  Same(Weighted(l, f, i), c.val[i] * Scale, Q(i))
  BY DEF Recomposes
<1> DEFINE D == 0 .. (FirstWindow(l) - 1)
           g == [n \in D |-> f[n] * Multiplier(n, i)]
           q == Q(i)
           v == c.val[i]
           a == FirstWindow(i)
           N == NumWindows(i)
           W == a .. (a + N - 1)
<1>0. /\ l \in Nat /\ SizeQ \in Nat /\ l <= SizeQ /\ i \in 0 .. (SizeQ - 1) /\ i + 1 \in 0 .. l
      /\ l \in 0 .. SizeQ /\ i + 1 \in 0 .. SizeQ /\ i \in 0 .. SizeQ
      /\ q \in Nat /\ q > 0 /\ v \in 0 .. (q - 1)
  <2>1. l \in Nat /\ SizeQ \in Nat /\ l <= SizeQ /\ q \in Nat /\ q > 0
    BY LevelBasis
  <2>2. v \in 0 .. (q - 1)
    BY DEF Reduced
  <2>3. /\ i \in 0 .. (SizeQ - 1) /\ i + 1 \in 0 .. l
        /\ l \in 0 .. SizeQ /\ i + 1 \in 0 .. SizeQ /\ i \in 0 .. SizeQ
    BY <2>1
  <2> QED
    BY <2>1, <2>2, <2>3
<1>1. NumDigits(l) = FirstWindow(l)
  BY DEF NumDigits
<1>2. /\ a \in Nat /\ N \in Nat /\ FirstWindow(i + 1) = a + N /\ FirstWindow(l) \in Nat
      /\ a + N <= FirstWindow(l)
  <2>1. N \in Nat /\ FirstWindow(i + 1) = a + N
    BY <1>0, Windows
  <2>2. a \in Nat /\ FirstWindow(l) \in Nat /\ FirstWindow(i + 1) <= FirstWindow(l)
    BY <1>0, WindowsGrow
  <2> QED
    BY <2>1, <2>2
<1>3. W \subseteq D /\ IsFiniteSet(D) /\ IsFiniteSet(W)
  <2>1. W \subseteq D
    BY <1>2
  <2>2. IsFiniteSet(D)
    BY <1>2, FS_Interval
  <2> QED
    BY <2>1, <2>2, FS_Subset
<1>4. PICK p, b : Powers(i, p, b)
  BY <1>0, WindowPowers
<1>5. /\ b \in Nat /\ b > 0 /\ p[0] = 1
      /\ \A k \in 0 .. N : p[k] \in Nat /\ p[k] > 0
      /\ \A k \in 0 .. (N - 1) : p[k + 1] = p[k] * b
      /\ q <= p[N]
      /\ \A k \in 0 .. (N - 1) : Power(a + k) = p[k] /\ Window(v, a + k) = (v \div p[k]) % b
  <2>1. v \in 0 .. (Q(i) - 1)
    BY <1>0
  <2> HIDE DEF v
  <2> QED
    BY <1>4, <2>1 DEF Powers
<1>6. \A n \in D : /\ f[n] \in Int
                   /\ TowerOf(n) = i => Same(f[n], Window(v, n), q)
  <2> TAKE n \in D
  <2> DEFINE t == TowerOf(n)
             x == Window(c.val[t], n)
             m == Q(t)
  <2>1. t \in 0 .. (l - 1) /\ x \in 0 .. (m - 1)
    BY BVDigitIs
  <2>2. m \in Nat /\ m > 0
    <3> HIDE DEF t
    <3> QED
      BY <2>1, LevelBasis
  <2>3. f[n] = Centered(x, m)
    OBVIOUS
  <2> HIDE DEF x, m
  <2>4. Same(Centered(x, m), x, m)
    BY <2>1, <2>2, CenteredFacts
  <2>5. Same(f[n], x, m)
    BY <2>3, <2>4
  <2>6. f[n] \in Int
    BY <2>5 DEF Same
  <2>7. t = i => x = Window(v, n) /\ m = q
    BY DEF x, m
  <2> QED
    BY <2>5, <2>6, <2>7
<1>7. \A n \in D : /\ n \in W => TowerOf(n) = i
                   /\ n \notin W => TowerOf(n) # i
  <2> TAKE n \in D
  <2>1. n \in Int
    BY <1>2
  <2>2. ASSUME n \in W PROVE TowerOf(n) = i
    <3>1. a <= n /\ n < FirstWindow(i + 1)
      BY <1>2, <2>1, <2>2
    <3> QED
      BY <1>0, <2>1, <3>1, WindowOfTower
  <2>3. ASSUME TowerOf(n) = i PROVE n \in W
    <3>1. FirstWindow(TowerOf(n)) <= n /\ n < FirstWindow(TowerOf(n) + 1)
      BY TowerWithin
    <3>2. a <= n /\ n < a + N
      BY <1>2, <2>3, <3>1
    <3> QED
      BY <1>2, <2>1, <3>2
  <2> QED
    BY <2>2, <2>3
<1>8. \A n \in D : /\ n \in W => Multiplier(n, i) = Power(n)
                   /\ n \notin W => Multiplier(n, i) = 0
  BY <1>7 DEF Multiplier, Own, Factor
<1>9. \A n \in W : /\ n - a \in 0 .. (N - 1) /\ a + (n - a) = n
                   /\ Power(n) \in Nat /\ Window(v, n) \in Int
  <2> TAKE n \in W
  <2> DEFINE k == n - a
  <2>1. k \in 0 .. (N - 1) /\ a + k = n /\ k \in 0 .. N /\ n \in D
    BY <1>2, <1>3
  <2> HIDE DEF k
  <2>2. Power(n) \in Nat
    BY <1>5, <2>1
  <2>3. Window(v, n) \in Int
    <3>1. TowerOf(n) = i
      BY <1>7, <2>1
    <3>2. Same(f[n], Window(v, n), q)
      BY <1>6, <2>1, <3>1
    <3> QED
      BY <3>2 DEF Same
  <2> QED
    BY <2>1, <2>2, <2>3 DEF k
<1> DEFINE h == [n \in W |-> Window(v, n) * Power(n)]
<1>10. Total(h, W) = v
  <2>1. \A k \in 0 .. (N - 1) : a + k \in W
    BY <1>2
  <2>2. \A k \in 0 .. (N - 1) : h[a + k] = ((v \div p[k]) % b) * p[k]
    BY <1>5, <2>1
  <2>3. v \in Nat /\ v < p[N]
    <3>1. p[N] \in Nat
      <4>1. N \in 0 .. N
        BY <1>2
      <4> QED
        BY <1>5, <4>1
    <3> HIDE DEF q, v, N
    <3> QED
      BY <1>0, <1>5, <3>1
  <2>4. p[0] = 1 /\ \A k \in 0 .. N : p[k] \in Nat /\ p[k] > 0
    BY <1>5
  <2>5. \A k \in 0 .. (N - 1) : p[k + 1] = p[k] * b
    BY <1>5
  <2>6. b \in Nat /\ b > 0 /\ N \in Nat /\ a \in Nat
    BY <1>2, <1>5
  <2> HIDE DEF h, v, a, N, D, g
  <2>7. Windowed(v, b, N, a, p, h)
    BY <2>2, <2>3, <2>4, <2>5 DEF Windowed
  <2> QED
    BY <2>3, <2>6, <2>7, WindowsAddUp
<1>11. \A n \in D : g[n] \in Int /\ (n \notin W => g[n] = 0)
  <2> TAKE n \in D
  <2>1. f[n] \in Int /\ g[n] = f[n] * Multiplier(n, i)
    BY <1>6
  <2>2. CASE n \in W
    <3>1. Multiplier(n, i) \in Int
      BY <1>8, <1>9, <2>2
    <3> QED
      BY <2>1, <2>2, <3>1
  <2>3. CASE n \notin W
    <3>1. Multiplier(n, i) = 0
      BY <1>8, <2>3
    <3> QED
      BY <2>1, <2>3, <3>1
  <2> QED
    BY <2>2, <2>3
<1>12. Total(g, D) = Total(g, W)
  <2>1. W \in SUBSET D /\ \A n \in D \ W : g[n] = 0
    BY <1>3, <1>11
  <2>2. \A n \in D : g[n] \in Int
    BY <1>11
  <2> HIDE DEF g, W, D
  <2> QED
    BY <1>3, <2>1, <2>2, TotalMore
<1>13. \A n \in W : Same(g[n], h[n], q)
  <2> TAKE n \in W
  <2> DEFINE x == Window(v, n)
             w == Power(n)
  <2>1. n \in D /\ g[n] = f[n] * w /\ h[n] = x * w /\ w \in Int /\ Same(f[n], x, q)
    <3>1. n \in D
      BY <1>3
    <3>2. Same(f[n], x, q)
      BY <1>6, <1>7, <3>1
    <3>3. g[n] = f[n] * w
      BY <1>8, <3>1
    <3> QED
      BY <1>9, <3>1, <3>2, <3>3
  <2> HIDE DEF x, w, q, g, h
  <2>2. Same(f[n] * w, x * w, q)
    <3>1. Same(w, w, q)
      BY <1>0, <2>1, SameSelf
    <3> QED
      BY <1>0, <2>1, <3>1, SameArith
  <2> QED
    BY <2>1, <2>2
<1>14. Same(Total(g, W), v, q)
  <2>1. Same(Total(g, W), Total(h, W), q)
    <3> HIDE DEF g, h, W, q
    <3> QED
      BY <1>0, <1>3, <1>13, TotalCongruent
  <2> QED
    BY <1>10, <2>1
<1>15. c.val[i] * Scale = v
  <2>1. Scale = 1 /\ v \in Int
    BY <1>0 DEF Scale
  <2> QED
    BY <2>1
<1> QED
  BY <1>1, <1>12, <1>14, <1>15 DEF Weighted

\* The digits of an element of l towers stand for integers.
Digits(digs, l, f) ==
  /\ DOMAIN digs = 0 .. (NumDigits(l) - 1)
  /\ \A n \in 0 .. (NumDigits(l) - 1) : IsDigit(digs[n], n, l, f[n])

\* The digits of an element stand for integers that add up to it.
LEMMA DigitsMade ==
  ASSUME Params, SpecialOK, NEW l \in 1 .. SizeQ, NEW c, Reduced(c, l)
  PROVE  /\ \E f : Digits(EvalKeySwitchPrecomputeCore(c), l, f) /\ Recomposes(l, l, c, f)
         /\ Hybrid => \A n \in 0 .. (NumDigits(l) - 1) : Copies(EvalKeySwitchPrecomputeCore(c)[n], n, l, c)
<1> DEFINE D == 0 .. (NumDigits(l) - 1)
           digs == EvalKeySwitchPrecomputeCore(c)
<1>1. Size(c) = l
  <2>1. Cardinality(0 .. (l - 1)) = l /\ DOMAIN BasisQ(l) = 0 .. (l - 1)
    BY SizeOfInterval, LevelBasis
  <2> QED
    BY <2>1 DEF Size, Reduced
<1>2. digs = [n \in D |-> IF Hybrid THEN HybridDigit(c, n) ELSE CRTDecompose(c, n)]
  BY <1>1 DEF EvalKeySwitchPrecomputeCore
<1>3. CASE Hybrid
  <2>1. D = 0 .. (NumParts(l) - 1)
    BY <1>3 DEF NumDigits
  <2>2. \A n \in D : digs[n] = HybridDigit(c, n)
    BY <1>2, <1>3
  <2> DEFINE Fits1(n, x) == IsDigit(digs[n], n, l, x) /\ \A i \in Own(n, l) : Same(x, c.val[i], Q(i))
             f == [n \in D |-> CHOOSE x : Fits1(n, x)]
  <2>3. \A n \in D : Fits1(n, f[n])
    <3> TAKE n \in D
    <3>1. \E x : Fits1(n, x)
      BY <1>3, <2>1, <2>2, HybridDigitIs
    <3> HIDE DEF Fits1
    <3> QED
      BY <3>1
  <2> HIDE DEF f
  <2>4. Digits(digs, l, f)
    BY <1>2, <2>3 DEF Digits
  <2>5. \A n \in 0 .. (NumParts(l) - 1) : f[n] \in Int /\ \A i \in Own(n, l) : Same(f[n], c.val[i], Q(i))
    BY <2>1, <2>3 DEF IsDigit
  <2>6. Recomposes(l, l, c, f)
    BY <1>3, <2>5, HybridRecomposes
  <2>7. \A n \in D : Copies(digs[n], n, l, c)
    BY <1>3, <2>1, <2>2, HybridDigitIs
  <2> QED
    BY <2>4, <2>6, <2>7
<1>4. CASE ~Hybrid
  <2>1. D = 0 .. (FirstWindow(l) - 1)
    BY <1>4 DEF NumDigits
  <2> DEFINE f == [n \in D |-> Centered(Window(c.val[TowerOf(n)], n), Q(TowerOf(n)))]
  <2>2. \A n \in D : digs[n] = CRTDecompose(c, n)
    BY <1>2, <1>4
  <2>3. \A n \in D : f[n] = Centered(Window(c.val[TowerOf(n)], n), Q(TowerOf(n)))
    OBVIOUS
  <2> HIDE DEF f
  <2>4. \A n \in D : IsDigit(digs[n], n, l, f[n])
    BY <1>4, <2>1, <2>2, <2>3, BVDigitIs
  <2>5. Digits(digs, l, f)
    BY <1>2, <2>4 DEF Digits
  <2>6. Recomposes(l, l, c, f)
    BY <1>4, <2>1, <2>3, BVRecomposes
  <2> QED
    BY <1>4, <2>5, <2>6
<1> QED
  BY <1>3, <1>4

\* Two integers that are the same modulo m differ by as many times m as their
\* magnitudes allow.
LEMMA MultipleFound ==
  ASSUME NEW m \in Nat, m > 0, NEW b \in Nat, NEW x \in Int, NEW r \in Int,
         Abs(x) <= b, Abs(r) <= m - 1, Same(x, r, m)
  PROVE  b \div m + 1 \in Nat /\ \E u \in (-(b \div m + 1)) .. (b \div m + 1) : r + u * m = x
<1>1. PICK k \in Int : x = r + m * k
  BY DEF Same
<1> DEFINE w == b \div m
           s == b % m
           a == Abs(k)
<1>2. w \in Nat /\ s \in 0 .. (m - 1) /\ b = m * w + s
  <2>1. m \in Nat \ {0}
    OBVIOUS
  <2> QED
    BY <2>1, Division
<1>3. a \in Nat /\ Abs(m * k) = m * a /\ Abs(x) \in Nat /\ Abs(r) \in Nat
  <2>1. Abs(m) = m /\ m \in Int
    BY DEF Abs
  <2>2. Abs(m * k) = Abs(m) * Abs(k) /\ Abs(k) \in Nat
    BY <2>1, AbsFacts
  <2>3. Abs(x) \in Nat
    BY AbsFacts
  <2>4. Abs(r) \in Nat
    BY AbsFacts
  <2> QED
    BY <2>1, <2>2, <2>3, <2>4
<1>4. m * a <= b + (m - 1)
  <2> DEFINE y == m * k
  <2>1. y \in Int /\ x = r + y
    BY <1>1
  <2> HIDE DEF y
  <2>2. Abs(y) <= b + (m - 1)
    BY <2>1 DEF Abs
  <2>3. Abs(y) = m * a
    BY <1>3 DEF y
  <2> QED
    BY <2>2, <2>3
<1> HIDE DEF w, s, a
<1>5. a <= w + 1
  <2> SUFFICES ASSUME a >= w + 2 PROVE FALSE
    BY <1>2, <1>3
  <2>1. m * (w + 2) <= m * a
    BY <1>2, <1>3, ProductMonotone
  <2>2. m * (w + 2) = m * w + 2 * m /\ m * w \in Nat /\ m * a \in Nat
    BY <1>2, <1>3
  <2> DEFINE mw == m * w
             ma == m * a
  <2>3. mw + 2 * m <= ma /\ ma <= b + (m - 1) /\ b = mw + s /\ mw \in Nat /\ ma \in Nat
    BY <1>2, <1>4, <2>1, <2>2
  <2> HIDE DEF mw, ma
  <2> QED
    BY <1>2, <2>3
<1>6. k \in (-(w + 1)) .. (w + 1)
  <2>1. k <= w + 1 /\ -k <= w + 1
    BY <1>2, <1>5 DEF Abs, a
  <2> QED
    BY <1>2, <2>1
<1>7. r + k * m = x
  <2>1. k * m = m * k
    OBVIOUS
  <2> QED
    BY <1>1, <2>1
<1>8. w + 1 \in Nat
  BY <1>2
<1>9. \E u \in (-(w + 1)) .. (w + 1) : r + u * m = x
  BY <1>6, <1>7
<1> QED
  BY <1>8, <1>9 DEF w

-----------------------------------------------------------------------------
(* What a key switch adds *)

\* An element has no more digits with fewer towers.
LEMMA DigitsOfKey ==
  ASSUME Params, NEW l \in 1 .. SizeQ
  PROVE  /\ NumDigits(l) \in Int /\ NumDigits(SizeQ) \in Int
         /\ 0 .. (NumDigits(l) - 1) \subseteq KeyDigits /\ IsFiniteSet(0 .. (NumDigits(l) - 1))
<1>0. l \in Nat /\ SizeQ \in Nat /\ l <= SizeQ /\ SizeQ \in 1 .. SizeQ
  BY Sizes
<1>1. NumDigits(l) \in Int /\ NumDigits(SizeQ) \in Int
  BY <1>0, DigitsCounted
<1>2. IsFiniteSet(0 .. (NumDigits(l) - 1))
  BY <1>1, FS_Interval
<1>3. 0 .. (NumDigits(l) - 1) \subseteq KeyDigits
  <2>1. CASE Hybrid
    <3>1. NumDigits(l) = NumParts(l) /\ NumDigits(SizeQ) = NumParts(SizeQ)
      BY <2>1 DEF NumDigits
    <3> SUFFICES ASSUME NEW n \in 0 .. (NumParts(l) - 1) PROVE n \in KeyDigits
      BY <3>1
    <3>2. n \in Nat /\ Alpha * n \in Nat /\ Alpha * n < l
      BY <2>1, PartsOfTowers
    <3>3. Alpha * n < SizeQ
      BY <1>0, <3>2
    <3>4. n <= NumParts(SizeQ) - 1
      BY <1>0, <2>1, <3>2, <3>3, PartsCounted
    <3> QED
      BY <1>1, <3>1, <3>2, <3>4 DEF KeyDigits
  <2>2. CASE ~Hybrid
    <3>1. NumDigits(l) = FirstWindow(l) /\ NumDigits(SizeQ) = FirstWindow(SizeQ)
      BY <2>2 DEF NumDigits
    <3>2. FirstWindow(l) <= FirstWindow(SizeQ)
      <4>1. SizeQ \in 0 .. SizeQ /\ l \in 0 .. SizeQ
        BY <1>0
      <4> QED
        BY <2>2, <4>1, WindowsGrow
    <3> QED
      BY <1>1, <3>1, <3>2 DEF KeyDigits
  <2> QED
    BY <2>1, <2>2
<1> QED
  BY <1>1, <1>2, <1>3

\* The inner product of the digits with the first or the second elements of a
\* key, before the division by P.
Inner(digs, k, l) ==
  [mod |-> IF Hybrid THEN BasisQP(l) ELSE BasisQ(l),
   val |-> [i \in 0 .. (l + SizeP - 1) |->
              SumFunction([n \in DOMAIN digs |-> digs[n].val[i] * k[n].val[KeyTower(i, l)]])
                % KeyBasis[KeyTower(i, l)]]]

\* The tower of a key that meets one of a digit, and the modulus they share.
LEMMA TowersMeet ==
  ASSUME Params, SpecialOK, NEW l \in 1 .. SizeQ, NEW i \in 0 .. (l + SizeP - 1)
  PROVE  /\ KeyTower(i, l) \in Towers
         /\ KeyBasis[KeyTower(i, l)] \in Nat /\ KeyBasis[KeyTower(i, l)] > 0
         /\ i < l => KeyTower(i, l) = i /\ KeyBasis[KeyTower(i, l)] = Q(i)
         /\ i >= l => /\ KeyTower(i, l) >= SizeQ /\ Hybrid
                      /\ KeyBasis[KeyTower(i, l)] = special[i - l + 1]
<1> DEFINE k == KeyTower(i, l)
<1>1. /\ l \in Nat /\ l >= 1 /\ l <= SizeQ /\ SizeQ \in Nat /\ SizeP \in Nat /\ Primes
      /\ ~Hybrid => SizeP = 0
  <2>1. l \in Nat /\ l >= 1 /\ l <= SizeQ /\ SizeQ \in Nat
    BY LevelBasis
  <2> QED
    BY <2>1, SpecialPrimesPositive DEF Params
<1>2. k = IF i < l THEN i ELSE SizeQ + i - l
  BY DEF KeyTower
<1>3. i \in Nat /\ i < l + SizeP
  BY <1>1
<1>4. k \in 0 .. (SizeQ + SizeP - 1) /\ (i >= l => k >= SizeQ)
  BY <1>1, <1>2, <1>3
<1>5. k \in Towers /\ KeyBasis[k] \in Nat /\ KeyBasis[k] > 0
  <2> HIDE DEF k
  <2> QED
    BY <1>1, <1>4, KeyTowers
<1>6. i < l => KeyBasis[k] = Q(i)
  <2>1. i < l => i \in 0 .. (SizeQ - 1)
    BY <1>1, <1>3
  <2> QED
    BY <1>1, <1>2, <2>1, KeyTowers
<1>7. i >= l => Hybrid /\ KeyBasis[k] = special[i - l + 1]
  <2> SUFFICES ASSUME i >= l PROVE Hybrid /\ KeyBasis[k] = special[i - l + 1]
    OBVIOUS
  <2>1. Hybrid
    BY <1>1, <1>3
  <2>2. KeyBasis = [j \in 0 .. (SizeQ + SizeP - 1) |-> IF j < SizeQ THEN Q(j) ELSE special[j - SizeQ + 1]]
    BY <2>1 DEF KeyBasis, BasisQP
  <2>3. ~(k < SizeQ) /\ k - SizeQ + 1 = i - l + 1
    BY <1>1, <1>2, <1>3
  <2> HIDE DEF k
  <2>4. KeyBasis[k] = special[k - SizeQ + 1]
    BY <1>4, <2>2, <2>3
  <2> QED
    BY <2>1, <2>3, <2>4
<1> QED
  BY <1>2, <1>3, <1>4, <1>5, <1>6, <1>7

\* The largest integers the digits may be, added up.
MostDigits(l) == SumFunction([n \in 0 .. (NumDigits(l) - 1) |-> MaxDigit(n, l)])

\* The inner product at tower i of l, of digits of h towers.
InnerAt(digs, key, l, h, f, x, y, e, i) ==
  LET m == KeyBasis[KeyTower(i, l)]
      b == Inner(digs, key.b, l).val[i]
      a == Inner(digs, key.a, l).val[i]
  IN  /\ b \in 0 .. (m - 1) /\ a \in 0 .. (m - 1)
      /\ Weighted(h, f, KeyTower(i, l)) \in Int
      /\ Same(b + a * y, Weighted(h, f, KeyTower(i, l)) * x + T * e, m)
InnerOK(digs, key, l, h, f, x, y, e) ==
  \A i \in 0 .. (l + SizeP - 1) : InnerAt(digs, key, l, h, f, x, y, e, i)

\* Multiplied with a key, digits give what they stand for times the secret to
\* switch from, and t times a noise that is the same in all towers.
LEMMA InnerIs ==
  ASSUME Params, SpecialOK, NEW x \in Int, NEW y \in Int, NEW key, KeyOK(key, x, y),
         NEW h \in 1 .. SizeQ, NEW l \in 1 .. h, Hybrid => l = h,
         NEW digs, NEW f, Digits(digs, h, f)
  PROVE  /\ MostDigits(h) \in Nat
         /\ \E e \in Int : /\ Abs(e) <= key.noise * MostDigits(h)
                           /\ InnerOK(digs, key, l, h, f, x, y, e)
<1> DEFINE D == 0 .. (NumDigits(h) - 1)
           noises == [n \in D |-> CHOOSE z : DigitOK(key, x, y, n, z)]
           fe == [n \in D |-> f[n] * noises[n]]
           most == [n \in D |-> MaxDigit(n, h)]
           scaled == [n \in D |-> key.noise * most[n]]
           err == Total(fe, D)
<1>0. /\ Primes /\ h \in Nat /\ l \in Nat /\ l >= 1 /\ l <= h /\ h <= SizeQ /\ SizeQ \in Nat
      /\ SizeP \in Nat /\ l \in 1 .. SizeQ /\ T \in Nat
  <2>1. h \in Nat /\ h <= SizeQ /\ SizeQ \in Nat
    BY LevelBasis
  <2>2. Primes /\ SizeP \in Nat /\ T \in Nat
    BY SpecialPrimesPositive, LeewayFits DEF Params
  <2> QED
    BY <2>1, <2>2
<1>1. D \subseteq KeyDigits /\ IsFiniteSet(D)
  BY DigitsOfKey
<1>2. /\ DOMAIN digs = D
      /\ \A n \in D : IsDigit(digs[n], n, h, f[n])
  BY DEF Digits
<1>3. \A n \in D : f[n] \in Int /\ Abs(f[n]) <= MaxDigit(n, h)
  BY <1>2 DEF IsDigit
<1>4. key.noise \in Nat /\ \A n \in D : DigitOK(key, x, y, n, noises[n])
  <2>1. key.noise \in Nat /\ \A n \in KeyDigits : \E z : DigitOK(key, x, y, n, z)
    BY DEF KeyOK
  <2> QED
    BY <1>1, <2>1
<1> HIDE DEF noises
<1>5. \A n \in D : noises[n] \in Int /\ Abs(noises[n]) <= key.noise
  BY <1>4 DEF DigitOK
<1>6. \A n \in D : MaxDigit(n, h) \in Nat
  BY <1>0, MaxDigitNat
<1>7. MostDigits(h) = Total(most, D) /\ Total(most, D) \in Nat
  <2>1. DOMAIN most = D /\ \A n \in D : most[n] \in Nat
    BY <1>6
  <2>2. MostDigits(h) = SumFunction(most)
    BY DEF MostDigits
  <2> HIDE DEF most, D
  <2>3. SumFunction(most) = Total(most, D)
    BY <1>1, <2>1, SumIsTotal
  <2>4. SumFunction(most) \in Nat
    BY <1>1, <2>1, SumNat
  <2> QED
    BY <2>2, <2>3, <2>4
<1>8. Abs(err) <= key.noise * MostDigits(h) /\ err \in Int
  <2>1. \A n \in D : fe[n] \in Int /\ scaled[n] \in Int /\ Abs(fe[n]) <= scaled[n]
    <3> TAKE n \in D
    <3> DEFINE a == f[n]
               b == noises[n]
               c == MaxDigit(n, h)
    <3>1. a \in Int /\ b \in Int /\ c \in Nat /\ Abs(a) <= c /\ Abs(b) <= key.noise /\ key.noise \in Nat
      BY <1>3, <1>4, <1>5, <1>6
    <3>2. fe[n] = a * b /\ scaled[n] = key.noise * c
      OBVIOUS
    <3> HIDE DEF a, b, c, fe, scaled
    <3>3. Abs(a) \in Nat /\ Abs(b) \in Nat /\ Abs(a * b) = Abs(a) * Abs(b)
      BY <3>1, AbsFacts
    <3>4. Abs(a) * Abs(b) <= c * key.noise
      BY <3>1, <3>3, ProductMonotone
    <3>5. c * key.noise = key.noise * c /\ a * b \in Int /\ key.noise * c \in Int
      BY <3>1
    <3> QED
      BY <3>2, <3>3, <3>4, <3>5
  <2>2. \A n \in D : most[n] \in Int /\ scaled[n] = key.noise * most[n]
    BY <1>6
  <2> HIDE DEF fe, scaled, most, D
  <2>3. err \in Int /\ Abs(err) <= Total(scaled, D)
    BY <1>1, <2>1, TotalBound
  <2>4. Total(scaled, D) = key.noise * Total(most, D)
    <3> DEFINE c == key.noise
    <3>1. c \in Int /\ \A n \in D : most[n] \in Int /\ scaled[n] = c * most[n]
      BY <1>4, <2>2
    <3> HIDE DEF c
    <3>2. Total(scaled, D) = c * Total(most, D)
      BY <1>1, <3>1, TotalScaled
    <3> QED
      BY <3>2 DEF c
  <2> QED
    BY <1>7, <2>3, <2>4
<1>9. ASSUME NEW i \in 0 .. (l + SizeP - 1) PROVE InnerAt(digs, key, l, h, f, x, y, err, i)
  <2> DEFINE t == KeyTower(i, l)
             m == KeyBasis[t]
             d == [n \in D |-> digs[n].val[i]]
             u == [n \in D |-> key.a[n].val[t]]
             v == [n \in D |-> key.b[n].val[t]]
             w == [n \in D |-> Multiplier(n, t)]
             dv == [n \in D |-> digs[n].val[i] * key.b[n].val[t]]
             du == [n \in D |-> digs[n].val[i] * key.a[n].val[t]]
             fw == [n \in D |-> f[n] * Multiplier(n, t)]
             b == Inner(digs, key.b, l).val[i]
             a == Inner(digs, key.a, l).val[i]
  <2>1. /\ t \in Towers /\ m \in Nat /\ m > 0
        /\ i < l => t = i /\ m = Q(i)
        /\ i >= l => Hybrid
    BY <1>0, TowersMeet
  <2>2. i \in 0 .. (h + SizeP - 1) /\ KeyBasis[KeyTower(i, h)] = m
    <3>1. i \in 0 .. (h + SizeP - 1)
      BY <1>0
    <3>2. CASE i < l
      <4>1. i < h
        BY <1>0, <3>2
      <4> QED
        BY <2>1, <3>1, <3>2, <4>1, TowersMeet
    <3>3. CASE ~(i < l)
      <4>1. Hybrid
        BY <1>0, <2>1, <3>3
      <4> QED
        BY <3>1, <4>1
    <3> QED
      BY <3>1, <3>2, <3>3
  <2>3. ASSUME NEW n \in D
        PROVE  /\ d[n] \in Int /\ u[n] \in Int /\ v[n] \in Int /\ w[n] \in Int
               /\ Same(d[n], f[n], m) /\ Same(v[n] + u[n] * y, w[n] * x + T * noises[n], m)
    <3>1. n \in KeyDigits /\ f[n] \in Int /\ noises[n] \in Int
      BY <1>1, <1>3, <1>5
    <3>2. d[n] = f[n] % m
      BY <1>2, <2>2 DEF IsDigit
    <3>3. PICK u1, v1 \in Int : /\ At(key.a[n], t, u1) /\ At(key.b[n], t, v1)
                                /\ v1 + u1 * y = Multiplier(n, t) * x + T * noises[n]
      <4>1. DigitAt(key, x, y, n, noises[n], t)
        BY <1>4, <2>1 DEF DigitOK
      <4> QED
        BY <4>1 DEF DigitAt
    <3>4. Same(u[n], u1, m) /\ Same(v[n], v1, m)
      BY <3>3 DEF At
    <3>5. w[n] \in Int
      <4>1. t \in Own(n, SizeQ) => Factor(n, t) \in Int
        <5> HIDE DEF t
        <5> QED
          BY <1>0, <2>1, <3>1, OwnTowers
      <4> QED
        BY <4>1 DEF Multiplier
    <3> HIDE DEF d, u, v, w, m, t
    <3>6. Same(d[n], f[n], m)
      BY <2>1, <3>1, <3>2, SameSelf
    <3>7. Same(y, y, m)
      BY <2>1, SameSelf
    <3>8. Same(u[n] * y, u1 * y, m)
      BY <2>1, <3>4, <3>7, SameArith
    <3>9. Same(v[n] + u[n] * y, v1 + u1 * y, m)
      BY <2>1, <3>4, <3>8, SameArith
    <3>10. w[n] = Multiplier(n, t)
      BY DEF w
    <3>11. Same(v[n] + u[n] * y, w[n] * x + T * noises[n], m)
      BY <3>3, <3>9, <3>10
    <3>12. d[n] \in Int /\ u[n] \in Int /\ v[n] \in Int
      BY <3>4, <3>6 DEF Same
    <3> QED
      BY <3>5, <3>6, <3>11, <3>12
  <2>4. Summands(D, m, y, x, T, d, u, v, f, w, noises)
    <3> HIDE DEF d, u, v, w, m, t
    <3> QED
      BY <1>3, <1>5, <2>3 DEF Summands
  <2>5. /\ \A n \in D : dv[n] = d[n] * v[n] /\ du[n] = d[n] * u[n]
        /\ Multiplied(D, d, u, v, f, w, noises, dv, du, fw, fe)
    BY DEF Multiplied
  <2>6. T \in Int
    BY <1>0
  <2>7. /\ Total(dv, D) \in Int /\ Total(du, D) \in Int /\ Total(fw, D) \in Int
        /\ Same(Total(dv, D) + Total(du, D) * y, Total(fw, D) * x + T * err, m)
    <3> HIDE DEF d, u, v, w, m, t, dv, du, fw, fe, D
    <3> QED
      BY <1>1, <2>1, <2>4, <2>5, <2>6, InnerSum
  <2>8. Total(fw, D) = Weighted(h, f, t)
    BY DEF Weighted
  <2>9. b = Total(dv, D) % m /\ a = Total(du, D) % m
    <3>1. b = SumFunction(dv) % m /\ a = SumFunction(du) % m
      BY <1>2 DEF Inner
    <3>2. DOMAIN dv = D /\ DOMAIN du = D
      OBVIOUS
    <3>3. \A n \in D : dv[n] \in Int /\ du[n] \in Int
      <4> TAKE n \in D
      <4>1. d[n] * v[n] \in Int /\ d[n] * u[n] \in Int
        <5> HIDE DEF d, u, v, w, m, t
        <5> QED
          BY <2>3
      <4> QED
        BY <2>5, <4>1
    <3> HIDE DEF dv, du, D
    <3>4. SumFunction(dv) = Total(dv, D)
      BY <1>1, <3>2, <3>3, SumIsTotal
    <3>5. SumFunction(du) = Total(du, D)
      BY <1>1, <3>2, <3>3, SumIsTotal
    <3> QED
      BY <3>1, <3>4, <3>5
  <2> DEFINE sv == Total(dv, D)
             su == Total(du, D)
             z == Total(fw, D) * x + T * err
  <2>10. sv \in Int /\ su \in Int /\ b = sv % m /\ a = su % m /\ Same(sv + su * y, z, m)
    BY <2>7, <2>9
  <2> HIDE DEF sv, su, z, b, a, m
  <2>11. Same(b, sv, m) /\ Same(a, su, m) /\ b \in 0 .. (m - 1) /\ a \in 0 .. (m - 1)
    BY <2>1, <2>10, SameSelf, ModRange
  <2>12. Same(a * y, su * y, m)
    <3>1. Same(y, y, m)
      BY <2>1, SameSelf
    <3> QED
      BY <2>1, <2>11, <3>1, SameArith
  <2>13. Same(b + a * y, sv + su * y, m)
    BY <2>1, <2>11, <2>12, SameArith
  <2>14. Same(b + a * y, z, m)
    BY <2>1, <2>10, <2>13, SameTrans
  <2>15. z = Weighted(h, f, t) * x + T * err /\ Weighted(h, f, t) \in Int
    BY <2>7, <2>8 DEF z
  <2> HIDE DEF err, dv, du, fw, t
  <2> QED
    BY <2>11, <2>14, <2>15 DEF InnerAt, b, a, m, t
<1>10. InnerOK(digs, key, l, h, f, x, y, err)
  <2> HIDE DEF err
  <2> QED
    BY <1>9 DEF InnerOK
<1> QED
  BY <1>7, <1>8, <1>10

\* A sum of n numbers up to c is up to n times c.
LEMMA TotalAtMost ==
  ASSUME NEW n \in Nat, NEW c \in Nat, NEW g, \A k \in 0 .. (n - 1) : g[k] \in Nat /\ g[k] <= c
  PROVE  Total(g, 0 .. (n - 1)) \in Int /\ Total(g, 0 .. (n - 1)) <= n * c
<1> DEFINE G == {k \in 0 .. n : Total(g, 0 .. (k - 1)) \in Int /\ Total(g, 0 .. (k - 1)) <= k * c}
           D == 0 .. (n - 1)
<1>0. IsFiniteSet(D) /\ \A k \in D : g[k] \in Int
  <2>1. IsFiniteSet(D)
    BY FS_Interval
  <2> QED
    BY <2>1
<1>1. 0 \in G
  <2>1. 0 .. (0 - 1) = {} /\ 0 \in 0 .. n /\ 0 * c = 0
    OBVIOUS
  <2>2. Total(g, {}) = 0
    BY <1>0, TotalSplit
  <2> QED
    BY <2>1, <2>2
<1>2. ASSUME NEW k \in 0 .. (n - 1), k \in G PROVE k + 1 \in G
  <2> DEFINE lo == 0 .. (k - 1)
             hi == 0 .. ((k + 1) - 1)
  <2>1. k + 1 \in 0 .. n /\ k \in hi /\ hi \ {k} = lo /\ hi \subseteq D
    OBVIOUS
  <2>2. Total(g, lo) \in Int /\ Total(g, lo) <= k * c /\ g[k] \in Nat /\ g[k] <= c
    BY <1>2
  <2>3. Total(g, hi) = g[k] + Total(g, lo) /\ Total(g, hi) \in Int
    <3> HIDE DEF D, hi, lo
    <3>1. hi \in SUBSET D
      BY <2>1
    <3>2. Total(g, hi) \in Int /\ \A z \in hi : Total(g, hi) = g[z] + Total(g, hi \ {z})
      BY <1>0, <3>1, TotalInduction
    <3> QED
      BY <2>1, <3>2
  <2>4. (k + 1) * c = k * c + c /\ k * c \in Int
    OBVIOUS
  <2> DEFINE kc == k * c
  <2>5. (k + 1) * c = kc + c /\ kc \in Int /\ Total(g, lo) <= kc
    BY <2>2, <2>4
  <2> HIDE DEF kc, hi, lo
  <2>6. Total(g, hi) <= (k + 1) * c
    BY <2>2, <2>3, <2>5
  <2> QED
    BY <2>1, <2>3, <2>6 DEF hi
<1>3. \A k \in 0 .. n : k \in G
  <2> HIDE DEF G
  <2> QED
    BY <1>1, <1>2, UpTo
<1> QED
  BY <1>3

\* What the special primes are good for: their product has no common divisor
\* with the moduli, and a switch from their basis reaches SizeP times it.
LEMMA SpecialFacts ==
  ASSUME Params, SpecialOK
  PROVE  /\ Good(BasisP) /\ ModulusP \in Nat /\ ModulusP > 0
         /\ DOMAIN BasisP = 0 .. (SizeP - 1) /\ \A j \in 0 .. (SizeP - 1) : BasisP[j] = special[j + 1]
         /\ Reach(BasisP) \in Int /\ Reach(BasisP) <= SizeP * ModulusP
         /\ \A i \in 0 .. (SizeQ - 1) : Unit(ModulusP, Q(i))
         /\ \A v \in Int : (\A j \in 0 .. (SizeP - 1) : Same(v, 0, special[j + 1])) => Same(v, 0, ModulusP)
<1> DEFINE b == BasisP
           D == 0 .. (SizeP - 1)
           g == [j \in D |-> (b[j] - 1) * Hat(b, j)]
<1>0. SizeP \in Nat
  BY DEF Params
<1>1. DOMAIN b = D /\ \A j \in D : b[j] = special[j + 1] /\ j + 1 \in 1 .. SizeP
  BY <1>0 DEF BasisP
<1>2. IsFiniteSet(D)
  BY <1>0, FS_Interval
<1>3. \A j \in 1 .. SizeP : /\ special[j] \in Nat /\ special[j] > 1 /\ special[j] > 0
                            /\ \A i \in 0 .. (SizeQ - 1) : Unit(special[j], Q(i))
                            /\ \A k \in 1 .. SizeP : k # j => Unit(special[k], special[j])
  <2>1. \A j \in 1 .. SizeP : /\ special[j] \in Nat /\ special[j] > 1
                              /\ \A i \in 0 .. (SizeQ - 1) : Unit(special[j], Q(i))
                              /\ \A k \in 1 .. SizeP : k # j => Unit(special[k], special[j])
    BY ModuliUnits
  <2> QED
    BY <2>1
<1>4. \A j, k \in D : j # k => j + 1 # k + 1
  BY <1>0
<1>5. \A j, k \in D : j # k => Unit(b[j], b[k])
  BY <1>1, <1>3, <1>4
<1>6. \A j \in D : b[j] \in Nat /\ b[j] > 1 /\ b[j] > 0 /\ b[j] \in Positive
  BY <1>1, <1>3 DEF Positive
<1> HIDE DEF D
<1>7. Good(b)
  BY <1>1, <1>2, <1>5, <1>6 DEF Good
<1>8. ModulusP = Over(b, D) /\ ModulusP \in Positive
  <2>1. ModulusP = Product(b)
    BY DEF ModulusP
  <2> HIDE DEF b
  <2>2. \A j \in D : b[j] \in Positive
    BY <1>6
  <2>3. Product(b) = Over(b, D)
    BY <1>1, <1>2, <2>2, ProductSplit
  <2>4. Over(b, D) \in Positive
    BY <1>2, <2>2, ProductSplit
  <2> QED
    BY <2>1, <2>3, <2>4
<1>9. ModulusP \in Nat /\ ModulusP > 0
  BY <1>8 DEF Positive
<1>10. \A i \in 0 .. (SizeQ - 1) : Unit(ModulusP, Q(i))
  <2> TAKE i \in 0 .. (SizeQ - 1)
  <2> DEFINE q == Q(i)
  <2>1. q \in Nat /\ q > 0
    <3>1. q \in Nat /\ q > 1
      BY ModuliUnits
    <3> QED
      BY <3>1
  <2>2. \A j \in D : Unit(b[j], q)
    BY <1>1, <1>3
  <2> HIDE DEF b, q
  <2>3. Unit(Over(b, D), q)
    BY <1>2, <1>6, <2>1, <2>2, UnitOver
  <2> QED
    BY <1>8, <2>3 DEF q
<1>11. ASSUME NEW v \in Int, \A j \in D : Same(v, 0, special[j + 1]) PROVE Same(v, 0, ModulusP)
  <2>1. \A j \in D : Same(v, 0, b[j])
    BY <1>1, <1>11
  <2> HIDE DEF b
  <2>2. Same(v, 0, Over(b, D))
    BY <1>2, <1>5, <1>6, <2>1, DividesOver
  <2> QED
    BY <1>8, <2>2
<1>12. \A j \in D : g[j] \in Nat /\ g[j] <= ModulusP
  <2> TAKE j \in D
  <2> DEFINE p == b[j]
             h == Hat(b, j)
  <2>1. p \in Nat /\ p > 1 /\ h \in Positive /\ Product(b) = p * h
    <3> HIDE DEF b
    <3> QED
      BY <1>1, <1>7, HatFacts
  <2>2. ModulusP = p * h /\ h \in Nat
    BY <2>1 DEF ModulusP, Positive
  <2>3. g[j] = (p - 1) * h
    OBVIOUS
  <2> HIDE DEF p, h, g, b
  <2>4. (p - 1) * h <= p * h /\ (p - 1) * h \in Nat
    <3>1. p - 1 \in Nat /\ p - 1 <= p
      BY <2>1
    <3> QED
      BY <2>1, <2>2, <3>1, ProductMonotone
  <2> QED
    BY <2>2, <2>3, <2>4
<1>13. Reach(b) = Total(g, D)
  <2>1. Reach(b) = SumFunction(g)
    BY <1>1 DEF Reach
  <2>2. DOMAIN g = D /\ \A j \in D : g[j] \in Int
    BY <1>12
  <2> HIDE DEF g
  <2>3. SumFunction(g) = Total(g, D)
    BY <1>2, <2>2, SumIsTotal
  <2> QED
    BY <2>1, <2>3
<1>14. Total(g, D) \in Int /\ Total(g, D) <= SizeP * ModulusP
  <2> HIDE DEF g
  <2> QED
    BY <1>0, <1>9, <1>12, TotalAtMost DEF D
<1> QED
  BY <1>1, <1>7, <1>9, <1>10, <1>11, <1>13, <1>14 DEF D

\* A division by P, rounded with z.
DividesBy(x, l, z) ==
  /\ z \in Int /\ Abs(z) <= SizeP * ModulusP
  /\ \A j \in 0 .. (SizeP - 1) : Same(T * z, x.val[l + j], special[j + 1])
  /\ \A i \in 0 .. (l - 1) :
       /\ Same(ApproxModDown(x, l).val[i] * ModulusP, x.val[i] + -(T * z), Q(i))
       /\ ApproxModDown(x, l).val[i] \in 0 .. (Q(i) - 1)

\* What ApproxModDown does: it takes an integer off that makes the special
\* towers zero, a multiple of t, and divides by P.
LEMMA ModDownIs ==
  ASSUME Params, SpecialOK, Hybrid, NEW l \in 1 .. SizeQ,
         NEW x, \A i \in 0 .. (l + SizeP - 1) : x.val[i] \in Int
  PROVE  /\ ApproxModDown(x, l).mod = BasisQ(l)
         /\ \E z : DividesBy(x, l, z)
<1> DEFINE D == 0 .. (SizeP - 1)
           v == [j \in DOMAIN BasisP |->
                   (x.val[l + j] * ModInverse(T % BasisP[j], BasisP[j])) % BasisP[j]]
           part == [mod |-> BasisP, val |-> v]
           hatInv == [j \in DOMAIN BasisP |-> HatInv(BasisP, j)]
           hatMod == [j \in DOMAIN BasisP |-> [i \in 0 .. (l - 1) |-> Hat(BasisP, j) % Q(i)]]
           new == ApproxSwitchCRTBasis(part, hatInv, hatMod, BasisQ(l), setting.int128)
           r == ApproxModDown(x, l)
<1>0. /\ l \in Nat /\ l >= 1 /\ l <= SizeQ /\ SizeQ \in Nat /\ SizeP \in Nat /\ T \in Nat /\ T > 0
      /\ \A i \in 0 .. (l - 1) : /\ i \in 0 .. (SizeQ - 1) /\ i \in 0 .. (l + SizeP - 1)
                                 /\ Q(i) \in Nat /\ Q(i) > 1 /\ Q(i) > 0
      /\ DOMAIN BasisQ(l) = 0 .. (l - 1) /\ \A i \in 0 .. (l - 1) : BasisQ(l)[i] = Q(i)
  <2>1. /\ l \in Nat /\ l >= 1 /\ l <= SizeQ /\ SizeQ \in Nat
        /\ \A i \in 0 .. (l - 1) : i \in 0 .. (SizeQ - 1) /\ Q(i) \in Nat /\ Q(i) > 1 /\ Q(i) > 0
        /\ DOMAIN BasisQ(l) = 0 .. (l - 1) /\ \A i \in 0 .. (l - 1) : BasisQ(l)[i] = Q(i)
    BY LevelBasis
  <2>2. SizeP \in Nat /\ T \in Nat /\ T > 0
    BY LeewayFits DEF Params
  <2>3. \A i \in 0 .. (l - 1) : i \in 0 .. (l + SizeP - 1)
    BY <2>1, <2>2
  <2> QED
    BY <2>1, <2>2, <2>3
<1>1. /\ Good(BasisP) /\ ModulusP \in Nat /\ ModulusP > 0
      /\ DOMAIN BasisP = D /\ \A j \in D : BasisP[j] = special[j + 1]
      /\ Reach(BasisP) \in Int /\ Reach(BasisP) <= SizeP * ModulusP
      /\ \A i \in 0 .. (SizeQ - 1) : Unit(ModulusP, Q(i))
  BY SpecialFacts
<1>2. r = [mod |-> BasisQ(l),
           val |-> [i \in 0 .. (l - 1) |->
                      ((x.val[i] - T * new.val[i]) * ModInverse(PModq(i), Q(i))) % Q(i)]]
  BY DEF ApproxModDown
<1>3. ASSUME NEW j \in D
      PROVE  v[j] \in Int /\ Same(T * v[j], x.val[l + j], special[j + 1])
  <2> DEFINE p == special[j + 1]
             inv == ModInverse(T % p, p)
             a == x.val[l + j]
  <2>1. p \in Nat /\ p > 1 /\ p > 0 /\ Unit(T, p) /\ a \in Int
    <3>1. j + 1 \in 1 .. SizeP /\ l + j \in 0 .. (l + SizeP - 1)
      BY <1>0
    <3>2. p \in Nat /\ p > 1 /\ Unit(T, p)
      BY <3>1, ModuliUnits
    <3> QED
      BY <3>1, <3>2
  <2>2. v[j] = (a * inv) % p
    BY <1>1
  <2> HIDE DEF p, a
  <2>3. inv \in 1 .. (p - 1) /\ Same(T * inv, 1, p)
    BY <2>1, InverseIs
  <2>4. inv \in Int
    BY <2>1, <2>3
  <2> HIDE DEF inv
  <2>5. Same(v[j], a * inv, p)
    BY <2>1, <2>2, <2>4, SameSelf
  <2>6. Same(T, T, p) /\ Same(a, a, p)
    <3>1. T \in Int
      BY <1>0
    <3>2. Same(T, T, p)
      BY <2>1, <3>1, SameSelf
    <3>3. Same(a, a, p)
      BY <2>1, SameSelf
    <3> QED
      BY <3>2, <3>3
  <2>7. Same(T * v[j], T * (a * inv), p)
    <3> HIDE DEF v
    <3> QED
      BY <2>1, <2>5, <2>6, SameArith
  <2>8. Same(a * (T * inv), a * 1, p)
    BY <2>1, <2>3, <2>6, SameArith
  <2>9. T * (a * inv) = a * (T * inv) /\ a * 1 = a
    BY <1>0, <2>1, <2>4
  <2>10. Same(T * v[j], a, p)
    <3> HIDE DEF v
    <3> QED
      BY <2>1, <2>7, <2>8, <2>9, SameTrans
  <2>11. v[j] \in Int
    <3> HIDE DEF v
    <3> QED
      BY <2>5 DEF Same
  <2> QED
    BY <2>10, <2>11 DEF p, a
<1>4. PICK z : Approximates(part, BasisQ(l), new, z)
  <2>1. \A i \in DOMAIN part.mod : part.val[i] \in Int
    BY <1>1, <1>3
  <2>2. \A i \in DOMAIN part.mod : hatInv[i] = HatInv(part.mod, i)
    OBVIOUS
  <2>3. \A i \in DOMAIN part.mod : \A j \in DOMAIN BasisQ(l) :
          hatMod[i][j] = Hat(part.mod, i) % BasisQ(l)[j]
    BY <1>0
  <2>4. Good(part.mod)
    BY <1>1
  <2>5. \A j \in DOMAIN BasisQ(l) : BasisQ(l)[j] \in Nat /\ BasisQ(l)[j] > 0
    BY <1>0
  <2> HIDE DEF part, hatInv, hatMod
  <2> QED
    BY <2>1, <2>2, <2>3, <2>4, <2>5, SwitchApproximates
<1>5. /\ z \in Int /\ Abs(z) <= Reach(BasisP)
      /\ \A j \in D : Same(z, v[j], special[j + 1])
      /\ \A i \in 0 .. (l - 1) : new.val[i] = z % Q(i)
  BY <1>0, <1>1, <1>4 DEF Approximates
<1>6. Abs(z) <= SizeP * ModulusP
  <2>1. Abs(z) \in Int /\ SizeP * ModulusP \in Int
    BY <1>0, <1>1, <1>5, AbsFacts
  <2> QED
    BY <1>1, <1>5, <2>1
<1>7. ASSUME NEW j \in D PROVE Same(T * z, x.val[l + j], special[j + 1])
  <2> DEFINE p == special[j + 1]
             a == x.val[l + j]
  <2>1. p \in Nat /\ p > 0
    <3>1. j + 1 \in 1 .. SizeP
      BY <1>0
    <3>2. p \in Nat /\ p > 1
      BY <3>1, ModuliUnits
    <3> QED
      BY <3>2
  <2>2. Same(z, v[j], p) /\ Same(T * v[j], a, p)
    BY <1>3, <1>5
  <2> HIDE DEF p, a, v
  <2>3. Same(T * z, T * v[j], p)
    <3>1. T \in Int
      BY <1>0
    <3>2. Same(T, T, p)
      BY <2>1, <3>1, SameSelf
    <3> QED
      BY <2>1, <2>2, <3>2, SameArith
  <2>4. Same(T * z, a, p)
    BY <2>1, <2>2, <2>3, SameTrans
  <2> QED
    BY <2>4 DEF p, a
<1>8. ASSUME NEW i \in 0 .. (l - 1)
      PROVE  Same(r.val[i] * ModulusP, x.val[i] + -(T * z), Q(i)) /\ r.val[i] \in 0 .. (Q(i) - 1)
  <2> DEFINE q == Q(i)
             inv == ModInverse(ModulusP % q, q)
             a == x.val[i]
             c == z % q
             s == a - T * c
             u == a + -(T * z)
  <2>1. q \in Nat /\ q > 1 /\ q > 0 /\ Unit(ModulusP, q) /\ a \in Int
    BY <1>0, <1>1
  <2>2. r.val[i] = (s * inv) % q
    <3>1. r.val[i] = ((x.val[i] - T * new.val[i]) * ModInverse(PModq(i), Q(i))) % Q(i)
      <4> HIDE DEF new, r
      <4> QED
        BY <1>2
    <3>2. new.val[i] = c
      BY <1>5
    <3>3. PModq(i) = ModulusP % q
      BY DEF PModq
    <3> HIDE DEF new, r
    <3> QED
      BY <3>1, <3>2, <3>3
  <2> HIDE DEF q, a, r
  <2>3. inv \in 1 .. (q - 1) /\ Same(ModulusP * inv, 1, q)
    BY <2>1, InverseIs
  <2>4. inv \in Int /\ c \in Int
    <3>1. c \in 0 .. (q - 1)
      BY <1>5, <2>1, ModRange
    <3> QED
      BY <2>1, <2>3, <3>1
  <2>5. Same(c, z, q)
    BY <1>5, <2>1, SameSelf
  <2> HIDE DEF inv, c
  <2>6. Same(-T, -T, q) /\ Same(a, a, q) /\ -T \in Int
    <3>1. -T \in Int
      BY <1>0
    <3>2. Same(-T, -T, q)
      BY <2>1, <3>1, SameSelf
    <3>3. Same(a, a, q)
      BY <2>1, SameSelf
    <3> QED
      BY <3>1, <3>2, <3>3
  <2>7. Same((-T) * c, (-T) * z, q)
    BY <2>1, <2>5, <2>6, SameArith
  <2>8. Same(a + (-T) * c, a + (-T) * z, q)
    BY <2>1, <2>6, <2>7, SameArith
  <2>9. a + (-T) * c = s /\ a + (-T) * z = u
    BY <1>0, <1>5, <2>1, <2>4
  <2>10. Same(s, u, q)
    BY <2>8, <2>9
  <2> HIDE DEF s, u
  <2>11. s \in Int /\ u \in Int
    BY <2>10 DEF Same
  <2>12. r.val[i] \in 0 .. (q - 1) /\ Same(r.val[i], s * inv, q)
    <3>1. s * inv \in Int
      BY <2>4, <2>11
    <3> QED
      BY <2>1, <2>2, <3>1, SameSelf, ModRange
  <2>13. Same(ModulusP, ModulusP, q)
    BY <1>1, <2>1, SameSelf
  <2>14. Same(r.val[i] * ModulusP, (s * inv) * ModulusP, q)
    BY <2>1, <2>12, <2>13, SameArith
  <2>15. Same(s * (ModulusP * inv), u * 1, q)
    BY <2>1, <2>3, <2>10, SameArith
  <2>16. (s * inv) * ModulusP = s * (ModulusP * inv) /\ u * 1 = u
    BY <1>1, <2>4, <2>11
  <2>17. Same(r.val[i] * ModulusP, u, q)
    BY <2>1, <2>14, <2>15, <2>16, SameTrans
  <2> QED
    BY <2>12, <2>17 DEF u, a, q
<1>9. DividesBy(x, l, z)
  BY <1>5, <1>6, <1>7, <1>8 DEF DividesBy
<1>10. r.mod = BasisQ(l)
  BY <1>2
<1> QED
  BY <1>9, <1>10

\* What EvalFastKeySwitchCore adds: the sums of the digits times the key,
\* divided by P in hybrid key switching.
LEMMA FastIs ==
  ASSUME Params, SpecialOK, NEW l \in 1 .. SizeQ, NEW digs, NEW key
  PROVE  EvalFastKeySwitchCore(digs, key, l) =
           IF Hybrid
           THEN <<ApproxModDown(Inner(digs, key.b, l), l), ApproxModDown(Inner(digs, key.a, l), l)>>
           ELSE <<Inner(digs, key.b, l), Inner(digs, key.a, l)>>
<1> DEFINE basis == IF Hybrid THEN BasisQP(l) ELSE BasisQ(l)
           inner(k) == [mod |-> basis,
                        val |-> [i \in DOMAIN basis |->
                                   SumFunction([n \in DOMAIN digs |-> digs[n].val[i] * k[n].val[KeyTower(i, l)]])
                                     % basis[i]]]
<1>1. SizeP \in Nat /\ (~Hybrid => SizeP = 0) /\ l \in Nat
  BY LevelBasis DEF Params
<1>2. DOMAIN basis = 0 .. (l + SizeP - 1)
  <2>1. CASE Hybrid
    BY <2>1 DEF BasisQP
  <2>2. CASE ~Hybrid
    <3>1. l + SizeP - 1 = l - 1
      BY <1>1, <2>2
    <3> QED
      BY <2>2, <3>1 DEF BasisQ
  <2> QED
    BY <2>1, <2>2
<1>3. ASSUME NEW i \in 0 .. (l + SizeP - 1) PROVE basis[i] = KeyBasis[KeyTower(i, l)]
  <2>1. /\ i < l => KeyBasis[KeyTower(i, l)] = Q(i)
        /\ i >= l => Hybrid /\ KeyBasis[KeyTower(i, l)] = special[i - l + 1]
    BY TowersMeet
  <2>2. CASE Hybrid
    <3>1. basis[i] = IF i < l THEN Q(i) ELSE special[i - l + 1]
      BY <2>2 DEF BasisQP
    <3> HIDE DEF basis
    <3> QED
      BY <1>1, <2>1, <3>1
  <2>3. CASE ~Hybrid
    <3>1. i < l /\ i \in 0 .. (l - 1)
      BY <1>1, <2>3
    <3>2. basis[i] = Q(i)
      BY <2>3, <3>1 DEF BasisQ
    <3> HIDE DEF basis
    <3> QED
      BY <2>1, <3>1, <3>2
  <2> QED
    BY <2>2, <2>3
<1>4. \A k : inner(k) = Inner(digs, k, l)
  <2> TAKE k
  <2> HIDE DEF basis
  <2> DEFINE sum(i) == SumFunction([n \in DOMAIN digs |-> digs[n].val[i] * k[n].val[KeyTower(i, l)]])
  <2>1. [i \in DOMAIN basis |-> sum(i) % basis[i]]
          = [i \in 0 .. (l + SizeP - 1) |-> sum(i) % KeyBasis[KeyTower(i, l)]]
    <3> HIDE DEF sum
    <3> QED
      BY <1>2, <1>3
  <2>2. inner(k) = [mod |-> basis, val |-> [i \in 0 .. (l + SizeP - 1) |-> sum(i) % KeyBasis[KeyTower(i, l)]]]
    BY <2>1
  <2> QED
    BY <2>2 DEF Inner, basis
<1>5. EvalFastKeySwitchCore(digs, key, l) =
        IF Hybrid THEN <<ApproxModDown(inner(key.b), l), ApproxModDown(inner(key.a), l)>>
        ELSE <<inner(key.b), inner(key.a)>>
  BY DEF EvalFastKeySwitchCore
<1> HIDE DEF inner
<1> QED
  BY <1>4, <1>5

\* On the special towers a key holds nothing of the secret to switch from.
LEMMA SpecialWeight ==
  ASSUME Params, SpecialOK, NEW l \in 1 .. SizeQ, NEW digs, NEW f, Digits(digs, l, f),
         NEW i \in Towers, i >= SizeQ
  PROVE  Weighted(l, f, i) = 0
<1> DEFINE D == 0 .. (NumDigits(l) - 1)
           g == [n \in D |-> f[n] * Multiplier(n, i)]
<1>1. D \subseteq KeyDigits /\ IsFiniteSet(D)
  BY DigitsOfKey
<1>2. \A n \in D : f[n] \in Int
  BY DEF Digits, IsDigit
<1>3. \A n \in D : Multiplier(n, i) = 0
  <2> TAKE n \in D
  <2>1. n \in KeyDigits
    BY <1>1
  <2>2. i \notin Own(n, SizeQ)
    <3>1. Primes
      BY SpecialPrimesPositive
    <3>2. i \in Own(n, SizeQ) => i \in 0 .. (SizeQ - 1)
      BY <2>1, <3>1, OwnTowers
    <3>3. SizeQ \in Nat /\ i \in Int
      BY <3>1, KeyTowers
    <3> QED
      BY <3>2, <3>3
  <2> QED
    BY <2>2 DEF Multiplier
<1>4. \A n \in D : f[n] \in Int /\ g[n] = 0 * f[n]
  BY <1>2, <1>3
<1>5. Weighted(l, f, i) = Total(g, D)
  BY DEF Weighted
<1> HIDE DEF D, g
<1>6. Total(g, D) = 0 * Total(f, D) /\ Total(f, D) \in Int
  <2>1. 0 \in Int
    OBVIOUS
  <2> QED
    BY <1>1, <1>4, <2>1, TotalScaled
<1> QED
  BY <1>5, <1>6

\* The bound of what a switch of h towers adds to the phase.
NoiseOf(n, h, y) ==
  IF Hybrid THEN (T * n * MostDigits(h) + T * SizeP * ModulusP * (1 + Abs(y))) \div ModulusP
  ELSE T * n * MostDigits(h)

\* A switch adds w times t to the phase.
Brings(ba, l, c, x, y, w) ==
  /\ w \in Int
  /\ \A k \in {1, 2} : ba[k].mod = BasisQ(l) /\ \A i \in 0 .. (l - 1) : ba[k].val[i] \in 0 .. (Q(i) - 1)
  /\ \A i \in 0 .. (l - 1) : Same(ba[1].val[i] + ba[2].val[i] * y, c.val[i] * x + T * w, Q(i))

\* Without special primes the sums are what is added.
LEMMA BVAdds ==
  ASSUME Params, SpecialOK, ~Hybrid, NEW x \in Int, NEW y \in Int, NEW key, KeyOK(key, x, y),
         NEW h \in 1 .. SizeQ, NEW l \in 1 .. h,
         NEW digs, NEW f, Digits(digs, h, f),
         NEW c, Recomposes(h, l, c, f), \A i \in 0 .. (l - 1) : c.val[i] \in Int
  PROVE  \E w : /\ Brings(EvalFastKeySwitchCore(digs, key, l), l, c, x, y, w)
                /\ T * Abs(w) <= NoiseOf(key.noise, h, y)
<1> DEFINE ba == EvalFastKeySwitchCore(digs, key, l)
           most == MostDigits(h)
           noisy == key.noise
<1>0. /\ h \in Nat /\ h <= SizeQ /\ SizeQ \in Nat /\ l \in 1 .. SizeQ
      /\ T \in Nat /\ T > 0 /\ SizeP = 0
  <2>1. h \in Nat /\ h <= SizeQ /\ SizeQ \in Nat /\ T \in Nat /\ T > 0
    BY LevelBasis, LeewayFits
  <2>2. SizeP = 0
    BY DEF Params
  <2> QED
    BY <2>1, <2>2
<1>1. most \in Nat /\ noisy \in Nat
  BY InnerIs DEF KeyOK
<1>2. PICK e \in Int : Abs(e) <= noisy * most /\ InnerOK(digs, key, l, h, f, x, y, e)
  BY InnerIs
<1>3. ba = <<Inner(digs, key.b, l), Inner(digs, key.a, l)>>
  BY <1>0, FastIs
<1>4. ba[1] = Inner(digs, key.b, l) /\ ba[2] = Inner(digs, key.a, l)
  BY <1>3
<1>5. ba[1].mod = BasisQ(l) /\ ba[2].mod = BasisQ(l)
  BY <1>4 DEF Inner
<1> HIDE DEF ba, most, noisy
<1>6. ASSUME NEW i \in 0 .. (l - 1)
      PROVE  /\ ba[1].val[i] \in 0 .. (Q(i) - 1) /\ ba[2].val[i] \in 0 .. (Q(i) - 1)
             /\ Same(ba[1].val[i] + ba[2].val[i] * y, c.val[i] * x + T * e, Q(i))
  <2> DEFINE q == Q(i)
             g == Weighted(h, f, i)
             v == c.val[i]
             b == ba[1].val[i]
             a == ba[2].val[i]
  <2>1. i \in 0 .. (l + SizeP - 1) /\ i < l /\ i \in Nat
    BY <1>0
  <2>2. KeyTower(i, l) = i /\ KeyBasis[KeyTower(i, l)] = q
    BY <1>0, <2>1, TowersMeet
  <2>3. InnerAt(digs, key, l, h, f, x, y, e, i)
    BY <1>2, <2>1 DEF InnerOK
  <2>4. /\ b \in 0 .. (q - 1) /\ a \in 0 .. (q - 1) /\ g \in Int
        /\ Same(b + a * y, g * x + T * e, q)
    BY <1>4, <2>2, <2>3 DEF InnerAt
  <2>5. q \in Nat /\ q > 0 /\ v \in Int
    BY <1>0, LevelBasis
  <2>6. Same(g, v, q)
    <3>1. Same(g, v * Scale, q)
      BY DEF Recomposes
    <3>2. v * Scale = v
      BY <2>5 DEF Scale
    <3> QED
      BY <3>1, <3>2
  <2> HIDE DEF q, g, v, b, a
  <2>7. Same(x, x, q)
    BY <2>5, SameSelf
  <2>8. Same(g * x, v * x, q)
    BY <2>5, <2>6, <2>7, SameArith
  <2>9. Same(T * e, T * e, q)
    <3>1. T * e \in Int
      BY <1>0
    <3> QED
      BY <2>5, <3>1, SameSelf
  <2>10. Same(g * x + T * e, v * x + T * e, q)
    BY <2>5, <2>8, <2>9, SameArith
  <2>11. Same(b + a * y, v * x + T * e, q)
    BY <2>4, <2>5, <2>10, SameTrans
  <2> QED
    BY <2>4, <2>11 DEF q, v, b, a
<1>7. Brings(ba, l, c, x, y, e)
  BY <1>2, <1>5, <1>6 DEF Brings
<1>8. T * Abs(e) <= NoiseOf(noisy, h, y)
  <2>1. NoiseOf(noisy, h, y) = T * noisy * most
    BY DEF NoiseOf, most
  <2>2. Abs(e) \in Nat
    BY <1>2, AbsFacts
  <2> DEFINE nm == noisy * most
             ae == Abs(e)
  <2>3. nm \in Nat /\ ae \in Nat /\ ae <= nm
    BY <1>1, <1>2, <2>2
  <2>4. T * noisy * most = T * nm
    BY <1>0, <1>1
  <2> HIDE DEF nm, ae
  <2>5. T * ae <= T * nm
    BY <1>0, <2>3, ProductMonotone
  <2> QED
    BY <2>1, <2>4, <2>5 DEF ae
<1> QED
  BY <1>7, <1>8 DEF ba, noisy

\* The quotient of an error by P, times t, is within the bound of a switch.
LEMMA QuotientBound ==
  ASSUME NEW p \in Nat, p > 0, NEW t \in Nat, NEW n \in Nat, NEW k \in Nat,
         NEW e \in Int, NEW zb \in Int, NEW za \in Int, NEW y \in Int, NEW w \in Int,
         Abs(e) <= n, Abs(zb) <= k * p, Abs(za) <= k * p,
         p * w = e + (-zb) + ((-za) * y)
  PROVE  t * Abs(w) <= (t * n + t * k * p * (1 + Abs(y))) \div p
<1> DEFINE ay == Abs(y)
           aw == Abs(w)
           kp == k * p
           s == n + kp * (1 + ay)
           m == t * n + t * k * p * (1 + ay)
<1>1. ay \in Nat /\ aw \in Nat /\ kp \in Nat /\ Abs(za) \in Nat /\ Abs(zb) \in Nat /\ Abs(e) \in Nat
  <2>1. kp \in Nat
    BY ProductMonotone
  <2> QED
    BY <2>1, AbsFacts
<1>2. p * aw <= s
  <2> DEFINE v == (-za) * y
             u == e + (-zb)
  <2>1. v \in Int /\ u \in Int /\ -za \in Int /\ -zb \in Int
    OBVIOUS
  <2>2. Abs(v) = Abs(-za) * ay /\ Abs(-za) = Abs(za) /\ Abs(-zb) = Abs(zb)
    BY <2>1, AbsFacts
  <2>3. Abs(za) * ay <= kp * ay
    BY <1>1, ProductMonotone
  <2>4. Abs(u) <= Abs(e) + Abs(-zb) /\ Abs(u) \in Nat
    BY <2>1, AbsFacts
  <2>5. Abs(u + v) <= Abs(u) + Abs(v)
    <3> HIDE DEF u, v
    <3> QED
      BY <2>1, AbsFacts
  <2>6. Abs(p * w) = p * aw
    <3>1. Abs(p * w) = Abs(p) * aw
      BY AbsFacts
    <3>2. Abs(p) = p
      BY DEF Abs
    <3> QED
      BY <3>1, <3>2
  <2>7. p * w = u + v
    OBVIOUS
  <2>8. kp * (1 + ay) = kp + kp * ay
    BY <1>1
  <2> DEFINE ka == kp * ay
             pa == p * aw
             aay == Abs(za) * ay
  <2>9. s = n + (kp + ka) /\ ka \in Int /\ pa \in Int /\ aay \in Int /\ aay <= ka
    BY <1>1, <2>3, <2>8
  <2>10. pa <= Abs(e) + Abs(zb) + aay
    <3>1. pa = Abs(u + v)
      BY <2>6, <2>7
    <3>2. Abs(v) = aay
      BY <2>2
    <3> HIDE DEF u, v, pa, aay
    <3> QED
      BY <1>1, <2>2, <2>4, <2>5, <2>9, <3>1, <3>2
  <2>11. Abs(zb) <= kp /\ Abs(e) <= n
    OBVIOUS
  <2> HIDE DEF ka, pa, aay, s, kp
  <2>12. pa <= s
    BY <1>1, <2>9, <2>10, <2>11
  <2> QED
    BY <2>12 DEF pa
<1>3. m = t * s /\ s \in Nat /\ m \in Nat
  <2> DEFINE b == 1 + ay
             kb == kp * b
  <2>1. b \in Nat
    BY <1>1
  <2> HIDE DEF b, kp
  <2>2. kb \in Nat
    BY <1>1, <2>1, ProductMonotone
  <2>3. t * k * p * b = t * kb
    <3>1. t * k * p * b = t * ((k * p) * b)
      <4> HIDE DEF kb
      <4> QED
        BY <2>1
    <3> QED
      BY <3>1 DEF kp
  <2>4. s = n + kb /\ m = t * n + t * kb
    BY <2>3 DEF b
  <2> HIDE DEF kb, s, m
  <2>5. t * (n + kb) = t * n + t * kb /\ t * (n + kb) \in Nat
    <3>1. n + kb \in Nat
      BY <2>2
    <3>2. t * (n + kb) \in Nat
      BY <3>1, ProductMonotone
    <3> QED
      BY <2>2, <3>2
  <2> QED
    BY <2>2, <2>4, <2>5
<1>4. t * (p * aw) <= m
  <2> DEFINE pa == p * aw
  <2>1. pa \in Nat /\ pa <= s
    BY <1>1, <1>2
  <2> HIDE DEF pa, s, m
  <2>2. t * pa <= t * s
    BY <1>3, <2>1, ProductMonotone
  <2> QED
    BY <1>3, <2>2 DEF pa
<1>5. t * aw \in Nat /\ t * (p * aw) = p * (t * aw)
  <2>1. t * aw \in Nat
    BY <1>1, ProductMonotone
  <2> HIDE DEF aw
  <2> QED
    BY <1>1, <2>1
<1> DEFINE g == t * aw
           r == m \div p
<1>6. g \in Nat /\ p * g <= m /\ m \in Nat
  BY <1>3, <1>4, <1>5
<1> HIDE DEF g, m
<1>7. r \in Nat
  <2>1. p \in Nat \ {0}
    OBVIOUS
  <2> QED
    BY <1>6, <2>1, Division
<1>8. g <= r
  <2>1. p \in Nat \ {0}
    OBVIOUS
  <2>2. m < p * g <=> r < g
    BY <1>6, <2>1, DivisionBound
  <2>3. ~(m < p * g)
    BY <1>6
  <2> QED
    BY <1>6, <1>7, <2>2, <2>3
<1> QED
  BY <1>8 DEF g, m

\* On one tower: division by P of both sums divides what they bring.
LEMMA DividedPhase ==
  ASSUME NEW m \in Nat, m > 0, NEW p \in Int, Unit(p, m), NEW t \in Int, NEW x \in Int, NEW y \in Int,
         NEW a \in Int, NEW b \in Int, NEW ra \in Int, NEW rb \in Int, NEW za \in Int, NEW zb \in Int,
         NEW g \in Int, NEW v \in Int, NEW e \in Int, NEW w \in Int,
         Same(rb * p, b + -(t * zb), m), Same(ra * p, a + -(t * za), m),
         Same(b + a * y, g * x + t * e, m), Same(g, v * p, m),
         p * w = e + (-zb) + ((-za) * y)
  PROVE  Same(rb + ra * y, v * x + t * w, m)
<1> DEFINE u == (-zb) + ((-za) * y)
<1>0. u \in Int /\ t * u \in Int
  <2>1. u \in Int
    OBVIOUS
  <2> HIDE DEF u
  <2> QED
    BY <2>1
<1>1. Same(y, y, m) /\ Same(x, x, m)
  BY SameSelf
<1>2. Same((ra * p) * y, (a + -(t * za)) * y, m)
  BY <1>1, SameArith
<1>3. Same(rb * p + (ra * p) * y, (b + -(t * zb)) + (a + -(t * za)) * y, m)
  BY <1>2, SameArith
<1>4. rb * p + (ra * p) * y = p * (rb + ra * y)
  OBVIOUS
<1>5. (b + -(t * zb)) + (a + -(t * za)) * y = (b + a * y) + t * u
  <2>1. -(t * zb) = t * (-zb) /\ -(t * za) = t * (-za)
    OBVIOUS
  <2> DEFINE nb == -zb
             na == -za
  <2>2. nb \in Int /\ na \in Int
    OBVIOUS
  <2> HIDE DEF nb, na
  <2>3. (b + t * nb) + (a + t * na) * y = (b + a * y) + t * (nb + na * y)
    BY <2>2
  <2> QED
    BY <2>1, <2>3 DEF nb, na
<1> HIDE DEF u
<1>6. Same(t * u, t * u, m)
  BY <1>0, SameSelf
<1>7. Same((b + a * y) + t * u, (g * x + t * e) + t * u, m)
  BY <1>6, SameArith
<1>8. (g * x + t * e) + t * u = g * x + t * (p * w)
  <2>1. p * w = e + u
    BY DEF u
  <2>2. t * (e + u) = t * e + t * u
    BY <1>0
  <2> DEFINE te == t * e
             tu == t * u
             gx == g * x
  <2>3. te \in Int /\ tu \in Int /\ gx \in Int /\ t * (p * w) = te + tu
    BY <1>0, <2>1, <2>2
  <2> HIDE DEF te, tu, gx
  <2>4. (gx + te) + tu = gx + (te + tu)
    BY <2>3
  <2> QED
    BY <2>3, <2>4 DEF te, tu, gx
<1>9. Same(g * x, (v * p) * x, m)
  BY <1>1, SameArith
<1>10. Same(t * (p * w), t * (p * w), m)
  <2>1. t * (p * w) \in Int
    OBVIOUS
  <2> QED
    BY <2>1, SameSelf
<1>11. Same(g * x + t * (p * w), (v * p) * x + t * (p * w), m)
  BY <1>9, <1>10, SameArith
<1>12. (v * p) * x + t * (p * w) = p * (v * x + t * w)
  OBVIOUS
<1> DEFINE left == rb + ra * y
           right == v * x + t * w
           mid == (b + a * y) + t * u
           low == g * x + t * (p * w)
<1>13. left \in Int /\ right \in Int
  OBVIOUS
<1>14. Same(p * left, mid, m) /\ Same(mid, low, m) /\ Same(low, p * right, m)
  BY <1>3, <1>4, <1>5, <1>7, <1>8, <1>11, <1>12
<1> HIDE DEF left, right, mid, low
<1>15. Same(p * left, low, m)
  BY <1>14, SameTrans
<1>16. Same(p * left, p * right, m)
  BY <1>14, <1>15, SameTrans
<1>17. Same(left, right, m)
  BY <1>13, <1>16, UnitCancels
<1> QED
  BY <1>17 DEF left, right

\* In hybrid key switching the sums are divided by P.
LEMMA HybridAdds ==
  ASSUME Params, SpecialOK, Hybrid, NEW x \in Int, NEW y \in Int, NEW key, KeyOK(key, x, y),
         NEW l \in 1 .. SizeQ,
         NEW digs, NEW f, Digits(digs, l, f),
         NEW c, Recomposes(l, l, c, f), \A i \in 0 .. (l - 1) : c.val[i] \in Int
  PROVE  \E w : /\ Brings(EvalFastKeySwitchCore(digs, key, l), l, c, x, y, w)
                /\ T * Abs(w) <= NoiseOf(key.noise, l, y)
<1> DEFINE ba == EvalFastKeySwitchCore(digs, key, l)
           most == MostDigits(l)
           noisy == key.noise
           sb == Inner(digs, key.b, l)
           sa == Inner(digs, key.a, l)
           p == ModulusP
<1>0. /\ l \in Nat /\ l >= 1 /\ l <= SizeQ /\ SizeQ \in Nat /\ SizeP \in Nat
      /\ T \in Nat /\ T > 0 /\ T \in Int
      /\ \A i \in 0 .. (l - 1) : i \in 0 .. (l + SizeP - 1) /\ i \in 0 .. (SizeQ - 1) /\ i < l
      /\ \A j \in 0 .. (SizeP - 1) : /\ l + j \in 0 .. (l + SizeP - 1) /\ l + j >= l
                                     /\ j + 1 \in 1 .. SizeP /\ (l + j) - l + 1 = j + 1
  <2>1. l \in Nat /\ l >= 1 /\ l <= SizeQ /\ SizeQ \in Nat
    BY LevelBasis
  <2>2. SizeP \in Nat
    BY DEF Params
  <2>3. T \in Nat /\ T > 0
    BY LeewayFits
  <2> QED
    BY <2>1, <2>2, <2>3
<1>1. most \in Nat /\ noisy \in Nat
  <2>1. l \in 1 .. l
    BY <1>0
  <2> QED
    BY <2>1, InnerIs DEF KeyOK
<1>2. PICK e \in Int : Abs(e) <= noisy * most /\ InnerOK(digs, key, l, l, f, x, y, e)
  <2>1. l \in 1 .. l
    BY <1>0
  <2> QED
    BY <2>1, InnerIs
<1>3. ba[1] = ApproxModDown(sb, l) /\ ba[2] = ApproxModDown(sa, l)
  <2>1. ba = <<ApproxModDown(sb, l), ApproxModDown(sa, l)>>
    BY FastIs
  <2> HIDE DEF ba, sb, sa
  <2> QED
    BY <2>1
<1> HIDE DEF ba, most, noisy
<1>4. ASSUME NEW i \in 0 .. (l + SizeP - 1) PROVE sb.val[i] \in Int /\ sa.val[i] \in Int
  <2>1. KeyBasis[KeyTower(i, l)] \in Nat
    BY TowersMeet
  <2>2. InnerAt(digs, key, l, l, f, x, y, e, i)
    BY <1>2 DEF InnerOK
  <2> QED
    BY <2>1, <2>2 DEF InnerAt
<1>5. /\ p \in Nat /\ p > 0
      /\ \A i \in 0 .. (SizeQ - 1) : Unit(p, Q(i))
      /\ \A v \in Int : (\A j \in 0 .. (SizeP - 1) : Same(v, 0, special[j + 1])) => Same(v, 0, p)
  BY SpecialFacts
<1>6. ba[1].mod = BasisQ(l) /\ \E z : DividesBy(sb, l, z)
  <2> HIDE DEF sb
  <2> QED
    BY <1>3, <1>4, ModDownIs
<1>7. ba[2].mod = BasisQ(l) /\ \E z : DividesBy(sa, l, z)
  <2> HIDE DEF sa
  <2> QED
    BY <1>3, <1>4, ModDownIs
<1>8. PICK zb : DividesBy(sb, l, zb)
  BY <1>6
<1>9. PICK za : DividesBy(sa, l, za)
  BY <1>7
<1>10. /\ zb \in Int /\ Abs(zb) <= SizeP * p /\ za \in Int /\ Abs(za) <= SizeP * p
       /\ \A j \in 0 .. (SizeP - 1) : /\ Same(T * zb, sb.val[l + j], special[j + 1])
                                      /\ Same(T * za, sa.val[l + j], special[j + 1])
       /\ \A i \in 0 .. (l - 1) :
            /\ Same(ba[1].val[i] * p, sb.val[i] + -(T * zb), Q(i)) /\ ba[1].val[i] \in 0 .. (Q(i) - 1)
            /\ Same(ba[2].val[i] * p, sa.val[i] + -(T * za), Q(i)) /\ ba[2].val[i] \in 0 .. (Q(i) - 1)
  <2> HIDE DEF sb, sa
  <2> QED
    BY <1>3, <1>8, <1>9 DEF DividesBy
<1> DEFINE n == e + (-zb) + ((-za) * y)
<1>11. ASSUME NEW j \in 0 .. (SizeP - 1) PROVE Same(n, 0, special[j + 1])
  <2> DEFINE m == special[j + 1]
             i == l + j
             b == sb.val[i]
             a == sa.val[i]
  <2>1. m \in Nat /\ m > 0 /\ Unit(T, m)
    <3>1. j + 1 \in 1 .. SizeP
      BY <1>0
    <3>2. m \in Nat /\ m > 1 /\ Unit(T, m)
      BY <3>1, ModuliUnits
    <3> QED
      BY <3>2
  <2>2. i \in 0 .. (l + SizeP - 1) /\ i >= l /\ i - l + 1 = j + 1
    BY <1>0
  <2>3. KeyTower(i, l) \in Towers /\ KeyTower(i, l) >= SizeQ /\ KeyBasis[KeyTower(i, l)] = m
    <3> HIDE DEF i
    <3> QED
      BY <2>2, TowersMeet
  <2>4. Weighted(l, f, KeyTower(i, l)) = 0
    BY <2>3, SpecialWeight
  <2>5. Same(b + a * y, 0 * x + T * e, m)
    <3>1. InnerAt(digs, key, l, l, f, x, y, e, i)
      BY <1>2, <2>2 DEF InnerOK
    <3>2. Same(b + a * y, Weighted(l, f, KeyTower(i, l)) * x + T * e, m)
      BY <2>3, <3>1 DEF InnerAt
    <3> QED
      BY <2>4, <3>2
  <2>6. Same(T * zb, b, m) /\ Same(T * za, a, m)
    BY <1>10
  <2> HIDE DEF m, b, a, i
  <2>7. Same((T * za) * y, a * y, m)
    <3>1. Same(y, y, m)
      BY <2>1, SameSelf
    <3> QED
      BY <2>1, <2>6, <3>1, SameArith
  <2>8. Same(T * zb + (T * za) * y, b + a * y, m)
    BY <2>1, <2>6, <2>7, SameArith
  <2>9. Same(T * zb + (T * za) * y, 0 * x + T * e, m)
    BY <2>1, <2>5, <2>8, SameTrans
  <2>10. Same(0 * x + T * e, T * zb + (T * za) * y, m)
    BY <2>1, <2>9, SameRemainder
  <2> DEFINE k == zb + za * y
  <2>11. T * zb + (T * za) * y = T * k /\ 0 * x + T * e = T * e /\ k \in Int
    BY <1>0, <1>10
  <2>12. Same(T * e, T * k, m)
    BY <2>10, <2>11
  <2> HIDE DEF k
  <2>13. Same(e, k, m)
    BY <2>1, <2>11, <2>12, UnitCancels
  <2>14. Same(-k, -k, m)
    <3>1. -k \in Int
      BY <2>11
    <3> QED
      BY <2>1, <3>1, SameSelf
  <2>15. Same(e + -k, k + -k, m)
    BY <2>1, <2>13, <2>14, SameArith
  <2>16. e + -k = n /\ k + -k = 0
    <3>1. k + -k = 0
      BY <2>11
    <3>2. (-za) * y = -(za * y)
      BY <1>10
    <3> DEFINE g == za * y
    <3>3. g \in Int /\ k = zb + g /\ n = e + (-zb) + (-g)
      BY <1>10, <3>2 DEF k
    <3> HIDE DEF g, n
    <3> QED
      BY <1>10, <3>1, <3>3
  <2> QED
    BY <2>15, <2>16 DEF m
<1>12. n \in Int
  BY <1>10
<1>13. Same(n, 0, p)
  <2> HIDE DEF n, p
  <2> QED
    BY <1>5, <1>11, <1>12
<1>14. PICK w \in Int : p * w = n
  <2> HIDE DEF n, p
  <2>1. PICK k \in Int : n = 0 + p * k
    BY <1>13 DEF Same
  <2>2. p * k = n
    BY <1>5, <2>1
  <2> QED
    BY <2>2
<1>15. ASSUME NEW i \in 0 .. (l - 1)
       PROVE  Same(ba[1].val[i] + ba[2].val[i] * y, c.val[i] * x + T * w, Q(i))
  <2> DEFINE m == Q(i)
             b == sb.val[i]
             a == sa.val[i]
             rb == ba[1].val[i]
             ra == ba[2].val[i]
             g == Weighted(l, f, i)
             v == c.val[i]
  <2>1. m \in Nat /\ m > 0
    BY LevelBasis
  <2>2. Unit(p, m)
    BY <1>0, <1>5
  <2>3. Same(rb * p, b + -(T * zb), m) /\ Same(ra * p, a + -(T * za), m)
    BY <1>10
  <2>4. rb \in Int /\ ra \in Int
    BY <1>10, <2>1
  <2>5. KeyTower(i, l) = i /\ KeyBasis[KeyTower(i, l)] = m
    BY <1>0, TowersMeet
  <2>6. InnerAt(digs, key, l, l, f, x, y, e, i)
    BY <1>0, <1>2 DEF InnerOK
  <2>7. Same(b + a * y, g * x + T * e, m) /\ g \in Int
    BY <2>5, <2>6 DEF InnerAt
  <2>8. b \in Int /\ a \in Int
    BY <1>0, <1>4
  <2>9. Same(g, v * p, m)
    BY DEF Recomposes, Scale
  <2>10. v \in Int /\ p \in Int
    BY <1>5
  <2>11. p * w = e + (-zb) + ((-za) * y)
    BY <1>14
  <2> HIDE DEF m, b, a, rb, ra, g, v, p
  <2>12. Same(rb + ra * y, v * x + T * w, m)
    BY <1>0, <1>10, <2>1, <2>2, <2>3, <2>4, <2>7, <2>8, <2>9, <2>10, <2>11, DividedPhase
  <2> QED
    BY <2>12 DEF m, rb, ra, v
<1>16. Brings(ba, l, c, x, y, w)
  BY <1>6, <1>7, <1>10, <1>15 DEF Brings
<1>17. T * Abs(w) <= NoiseOf(noisy, l, y)
  <2> DEFINE nm == noisy * most
  <2>1. nm \in Nat /\ Abs(e) <= nm
    <3>1. nm \in Nat
      BY <1>1, ProductMonotone
    <3> QED
      BY <1>2, <3>1
  <2>2. p * w = e + (-zb) + ((-za) * y)
    BY <1>14
  <2> HIDE DEF nm, p
  <2>3. T * Abs(w) <= (T * nm + T * SizeP * p * (1 + Abs(y))) \div p
    BY <1>0, <1>5, <1>10, <2>1, <2>2, QuotientBound
  <2>4. T * noisy * most = T * nm
    BY <1>0, <1>1 DEF nm
  <2>5. NoiseOf(noisy, l, y) = (T * noisy * most + T * SizeP * p * (1 + Abs(y))) \div p
    BY DEF NoiseOf, most, p
  <2> QED
    BY <2>3, <2>4, <2>5
<1> QED
  BY <1>16, <1>17 DEF ba, noisy

\* A switch adds what the key holds of the secret to switch from, and t times
\* something within the bound, whatever towers were dropped since its digits
\* were made.
LEMMA SwitchBrings ==
  ASSUME Params, SpecialOK, NEW x \in Int, NEW y \in Int, KeyOK(evalKey, x, y),
         NEW h \in 1 .. SizeQ, NEW l \in 1 .. h, Hybrid => l = h,
         NEW digs, NEW f, Digits(digs, h, f),
         NEW c, Recomposes(h, l, c, f), \A i \in 0 .. (l - 1) : c.val[i] \in Int
  PROVE  \E w : /\ Brings(EvalFastKeySwitchCore(digs, evalKey, l), l, c, x, y, w)
                /\ T * Abs(w) <= SwitchNoise(h, y)
<1>1. NoiseOf(evalKey.noise, h, y) = SwitchNoise(h, y)
  BY DEF NoiseOf, SwitchNoise, MostDigits
<1>2. CASE Hybrid
  <2>1. l = h
    BY <1>2
  <2>2. Digits(digs, l, f) /\ Recomposes(l, l, c, f) /\ l \in 1 .. SizeQ
    BY <2>1
  <2>3. \E w : /\ Brings(EvalFastKeySwitchCore(digs, evalKey, l), l, c, x, y, w)
               /\ T * Abs(w) <= NoiseOf(evalKey.noise, l, y)
    BY <1>2, <2>2, HybridAdds
  <2> QED
    BY <1>1, <2>1, <2>3
<1>3. CASE ~Hybrid
  <2>1. \E w : /\ Brings(EvalFastKeySwitchCore(digs, evalKey, l), l, c, x, y, w)
               /\ T * Abs(w) <= NoiseOf(evalKey.noise, h, y)
    BY <1>3, BVAdds
  <2> QED
    BY <1>1, <2>1
<1> QED
  BY <1>2, <1>3

-----------------------------------------------------------------------------
(* What operations leave in a ciphertext *)

\* Two elements in the moduli of l towers whose phase is z.
Pair(c1, c2, l, s, z) ==
  /\ c1.mod = BasisQ(l) /\ c2.mod = BasisQ(l)
  /\ \A i \in 0 .. (l - 1) : /\ c1.val[i] \in 0 .. (Q(i) - 1) /\ c2.val[i] \in 0 .. (Q(i) - 1)
                             /\ Same(c1.val[i] + c2.val[i] * s, z, Q(i))

\* A pair is a ciphertext.
LEMMA PairCarries ==
  ASSUME Params, NEW l \in 1 .. SizeQ, NEW c1, NEW c2, NEW s \in Int, NEW z, Pair(c1, c2, l, s, z)
  PROVE  Carries(<<c1, c2>>, l, s, z)
<1> DEFINE e == <<c1, c2>>
<1>1. DOMAIN e = 1 .. 2 /\ e[1] = c1 /\ e[2] = c2 /\ 3 \notin DOMAIN e
  OBVIOUS
<1> HIDE DEF e
<1>2. Elements(e, l)
  BY <1>1 DEF Elements, Pair
<1>3. ASSUME NEW i \in 0 .. (l - 1) PROVE Same(Phase(e, i, s), z, Q(i))
  <2>1. e[1].val[i] \in Int /\ e[2].val[i] * s \in Int
    BY <1>2, <1>3, ElementsInt
  <2>2. Third(e, i) * (s * s) = 0
    <3>1. Third(e, i) = 0
      BY <1>1 DEF Third
    <3> QED
      BY <3>1
  <2>3. Phase(e, i, s) = e[1].val[i] + e[2].val[i] * s
    BY <2>1, <2>2 DEF Phase
  <2> QED
    BY <1>1, <2>3 DEF Pair
<1> QED
  BY <1>2, <1>3 DEF Carries, e

\* A ciphertext of two elements is a pair.
LEMMA CarriesPair ==
  ASSUME Params, NEW l \in 1 .. SizeQ, NEW e, NEW s \in Int, NEW z, Carries(e, l, s, z), 3 \notin DOMAIN e
  PROVE  Pair(e[1], e[2], l, s, z)
<1>1. Elements(e, l) /\ 1 \in DOMAIN e /\ 2 \in DOMAIN e
  BY DEF Carries, Elements
<1>2. ASSUME NEW i \in 0 .. (l - 1) PROVE Same(e[1].val[i] + e[2].val[i] * s, z, Q(i))
  <2>1. e[1].val[i] \in Int /\ e[2].val[i] * s \in Int
    BY <1>1, ElementsInt
  <2>2. Third(e, i) * (s * s) = 0
    <3>1. Third(e, i) = 0
      BY DEF Third
    <3> QED
      BY <3>1
  <2>3. Phase(e, i, s) = e[1].val[i] + e[2].val[i] * s
    BY <2>1, <2>2 DEF Phase
  <2>4. Same(Phase(e, i, s), z, Q(i))
    BY DEF Carries
  <2> QED
    BY <2>3, <2>4
<1> QED
  BY <1>1, <1>2 DEF Pair, Elements

\* A fresh ciphertext has the phase it was made with.
LEMMA FreshCarries ==
  ASSUME Params, S \in Int, NEW a \in Int, NEW z \in Int
  PROVE  Carries(<<Plus(InQ(z), TimesInt(Times(InQ(a), InQ(S)), -1)), InQ(a)>>, SizeQ, S, z)
<1> DEFINE l == SizeQ
           b == Plus(InQ(z), TimesInt(Times(InQ(a), InQ(S)), -1))
           x == InQ(a)
<1>1. l \in 1 .. SizeQ
  BY Sizes
<1>2. b.mod = BasisQ(l) /\ x.mod = BasisQ(l)
  BY DEF Plus, InQ, Element
<1>3. ASSUME NEW i \in 0 .. (l - 1)
      PROVE  /\ b.val[i] \in 0 .. (Q(i) - 1) /\ x.val[i] \in 0 .. (Q(i) - 1)
             /\ Same(b.val[i] + x.val[i] * S, z, Q(i))
  <2> DEFINE q == Q(i)
  <2>0. q \in Nat /\ q > 0
    BY <1>1, LevelBasis
  <2>1. /\ On(InQ(z), l, i, z) /\ On(x, l, i, a) /\ On(InQ(S), l, i, S)
        /\ x.val[i] \in 0 .. (Q(i) - 1)
    BY <1>1, OnElement DEF InQ
  <2> HIDE DEF x
  <2>2. On(Times(x, InQ(S)), l, i, a * S)
    BY <1>1, <2>1, OnArith
  <2>3. On(TimesInt(Times(x, InQ(S)), -1), l, i, (a * S) * (-1))
    <3> DEFINE y == Times(x, InQ(S))
               g == a * S
    <3>1. On(y, l, i, g)
      BY <2>2
    <3> HIDE DEF y, g
    <3>2. On(TimesInt(y, -1), l, i, g * (-1))
      <4>1. -1 \in Int
        OBVIOUS
      <4> QED
        BY <1>1, <3>1, <4>1, OnArith
    <3> QED
      BY <3>2 DEF y, g
  <2>4. On(b, l, i, z + (a * S) * (-1)) /\ b.val[i] \in 0 .. (Q(i) - 1)
    <3> DEFINE y == TimesInt(Times(x, InQ(S)), -1)
               g == (a * S) * (-1)
    <3>1. On(y, l, i, g) /\ b = Plus(InQ(z), y)
      BY <2>3 DEF x
    <3> HIDE DEF y, g, b
    <3> QED
      BY <1>1, <2>1, <3>1, OnArith DEF g
  <2>5. Same(b.val[i], z + (a * S) * (-1), q) /\ Same(x.val[i], a, q)
    <3> HIDE DEF b
    <3> QED
      BY <2>1, <2>4 DEF On
  <2> HIDE DEF b, q
  <2>6. Same(S, S, q)
    BY <2>0, SameSelf
  <2>7. Same(x.val[i] * S, a * S, q)
    BY <2>0, <2>5, <2>6, SameArith
  <2>8. Same(b.val[i] + x.val[i] * S, (z + (a * S) * (-1)) + a * S, q)
    BY <2>0, <2>5, <2>7, SameArith
  <2>9. (z + (a * S) * (-1)) + a * S = z
    <3> DEFINE g == a * S
    <3>1. g \in Int
      OBVIOUS
    <3> HIDE DEF g
    <3>2. (z + g * (-1)) + g = z
      BY <3>1
    <3> QED
      BY <3>2 DEF g
  <2> QED
    BY <2>1, <2>4, <2>8, <2>9 DEF q
<1>4. Pair(b, x, l, S, z)
  <2> HIDE DEF b, x
  <2> QED
    BY <1>2, <1>3 DEF Pair
<1> HIDE DEF b, x, l
<1>5. Carries(<<b, x>>, l, S, z)
  BY <1>1, <1>4, PairCarries
<1> QED
  BY <1>5 DEF b, x, l

\* The square of a ciphertext of two elements has the square of its phase.
LEMMA SquareCarries ==
  ASSUME Params, NEW l \in 1 .. SizeQ, NEW c, NEW s \in Int, NEW z \in Int, Carries(c, l, s, z),
         3 \notin DOMAIN c
  PROVE  Carries(<<Times(c[1], c[1]), TimesInt(Times(c[1], c[2]), 2), Times(c[2], c[2])>>, l, s, z * z)
<1> DEFINE e1 == Times(c[1], c[1])
           e2 == TimesInt(Times(c[1], c[2]), 2)
           e3 == Times(c[2], c[2])
           e == <<e1, e2, e3>>
<1>1. Pair(c[1], c[2], l, s, z)
  BY CarriesPair
<1>2. e1.mod = BasisQ(l) /\ e2.mod = BasisQ(l) /\ e3.mod = BasisQ(l)
  BY <1>1 DEF Pair, Times, TimesInt
<1>3. ASSUME NEW i \in 0 .. (l - 1)
      PROVE  /\ e1.val[i] \in 0 .. (Q(i) - 1) /\ e2.val[i] \in 0 .. (Q(i) - 1)
             /\ e3.val[i] \in 0 .. (Q(i) - 1)
             /\ Same(e1.val[i] + e2.val[i] * s + e3.val[i] * (s * s), z * z, Q(i))
  <2> DEFINE q == Q(i)
             x == c[1]
             y == c[2]
             u == x.val[i]
             v == y.val[i]
  <2>0. q \in Nat /\ q > 0
    BY LevelBasis
  <2>1. u \in Int /\ v \in Int /\ x.mod = BasisQ(l) /\ y.mod = BasisQ(l) /\ Same(u + v * s, z, q)
    BY <1>1, <2>0 DEF Pair
  <2>2. On(x, l, i, u) /\ On(y, l, i, v)
    <3>1. Same(u, u, q) /\ Same(v, v, q)
      <4>1. Same(u, u, q)
        BY <2>0, <2>1, SameSelf
      <4>2. Same(v, v, q)
        BY <2>0, <2>1, SameSelf
      <4> QED
        BY <4>1, <4>2
    <3> QED
      BY <2>1, <3>1 DEF On
  <2> HIDE DEF x, y, u, v
  <2>3. On(Times(x, x), l, i, u * u) /\ Times(x, x).val[i] \in 0 .. (Q(i) - 1)
    BY <2>2, OnArith
  <2>4. On(Times(y, y), l, i, v * v) /\ Times(y, y).val[i] \in 0 .. (Q(i) - 1)
    BY <2>2, OnArith
  <2>5. On(Times(x, y), l, i, u * v)
    BY <2>2, OnArith
  <2>6. /\ On(TimesInt(Times(x, y), 2), l, i, (u * v) * 2)
        /\ TimesInt(Times(x, y), 2).val[i] \in 0 .. (Q(i) - 1)
    <3> DEFINE r == Times(x, y)
               g == u * v
    <3>1. On(r, l, i, g)
      BY <2>5
    <3> HIDE DEF r, g
    <3>2. On(TimesInt(r, 2), l, i, g * 2) /\ TimesInt(r, 2).val[i] \in 0 .. (Q(i) - 1)
      <4>1. 2 \in Int
        OBVIOUS
      <4> QED
        BY <3>1, <4>1, OnArith
    <3> QED
      BY <3>2 DEF r, g
  <2>7. /\ e1 = Times(x, x) /\ e2 = TimesInt(Times(x, y), 2) /\ e3 = Times(y, y)
    BY DEF x, y
  <2> HIDE DEF e1, e2, e3
  <2>8. Same(e1.val[i], u * u, q) /\ Same(e2.val[i], (u * v) * 2, q) /\ Same(e3.val[i], v * v, q)
    BY <2>3, <2>4, <2>6, <2>7 DEF On
  <2> HIDE DEF q
  <2>9. Same(e1.val[i] + e2.val[i] * s + e3.val[i] * (s * s),
             u * u + ((u * v) * 2) * s + (v * v) * (s * s), q)
    BY <2>0, <2>8, SamePowers
  <2>10. u * u + ((u * v) * 2) * s + (v * v) * (s * s) = (u + v * s) * (u + v * s)
    BY <2>1
  <2>11. Same((u + v * s) * (u + v * s), z * z, q)
    BY <2>0, <2>1, SameArith
  <2>12. Same(e1.val[i] + e2.val[i] * s + e3.val[i] * (s * s), z * z, q)
    BY <2>0, <2>9, <2>10, <2>11, SameTrans
  <2> QED
    BY <2>3, <2>4, <2>6, <2>7, <2>12 DEF q
<1>4. DOMAIN e = 1 .. 3 /\ e[1] = e1 /\ e[2] = e2 /\ e[3] = e3 /\ 3 \in DOMAIN e
  <2> HIDE DEF e1, e2, e3
  <2> QED
    OBVIOUS
<1> HIDE DEF e, e1, e2, e3
<1>5. Elements(e, l)
  <2>1. ASSUME NEW k \in 1 .. 3
        PROVE  e[k].mod = BasisQ(l) /\ \A i \in 0 .. (l - 1) : e[k].val[i] \in 0 .. (Q(i) - 1)
    <3>1. k = 1 \/ k = 2 \/ k = 3
      OBVIOUS
    <3> QED
      BY <1>2, <1>3, <1>4, <3>1
  <2> QED
    BY <1>4, <2>1 DEF Elements
<1>6. ASSUME NEW i \in 0 .. (l - 1) PROVE Same(Phase(e, i, s), z * z, Q(i))
  <2>1. Phase(e, i, s) = e1.val[i] + e2.val[i] * s + e3.val[i] * (s * s)
    BY <1>4 DEF Phase, Third
  <2> QED
    BY <1>3, <2>1
<1>7. Carries(e, l, s, z * z)
  BY <1>5, <1>6 DEF Carries
<1> QED
  BY <1>7 DEF e, e1, e2, e3

\* What a switch brings for the third element takes its place.
LEMMA RelinearizeCarries ==
  ASSUME Params, NEW l \in 1 .. SizeQ, NEW c, NEW s \in Int, NEW z \in Int, Carries(c, l, s, z),
         3 \in DOMAIN c, NEW ba, NEW w, Brings(ba, l, c[3], s * s, s, w)
  PROVE  Carries(<<Plus(c[1], ba[1]), Plus(c[2], ba[2])>>, l, s, z + T * w)
<1> DEFINE b == Plus(c[1], ba[1])
           a == Plus(c[2], ba[2])
<1>0. T \in Nat /\ w \in Int
  BY LeewayFits DEF Brings
<1>1. Elements(c, l) /\ 1 \in DOMAIN c /\ 2 \in DOMAIN c
  BY DEF Carries, Elements
<1>2. b.mod = BasisQ(l) /\ a.mod = BasisQ(l)
  BY <1>1 DEF Elements, Plus
<1>3. ASSUME NEW i \in 0 .. (l - 1)
      PROVE  /\ b.val[i] \in 0 .. (Q(i) - 1) /\ a.val[i] \in 0 .. (Q(i) - 1)
             /\ Same(b.val[i] + a.val[i] * s, z + T * w, Q(i))
  <2> DEFINE q == Q(i)
             x1 == c[1]
             x2 == c[2]
             y1 == ba[1]
             y2 == ba[2]
             u1 == x1.val[i]
             u2 == x2.val[i]
             u3 == c[3].val[i]
             v1 == y1.val[i]
             v2 == y2.val[i]
  <2>0. q \in Nat /\ q > 0
    BY LevelBasis
  <2>1. On(x1, l, i, u1) /\ On(x2, l, i, u2) /\ u1 \in Int /\ u2 \in Int /\ Third(c, i) \in Int
    BY <1>1, ElementsInt
  <2>2. v1 \in 0 .. (q - 1) /\ v2 \in 0 .. (q - 1) /\ y1.mod = BasisQ(l) /\ y2.mod = BasisQ(l)
    BY DEF Brings
  <2>3. v1 \in Int /\ v2 \in Int
    BY <2>0, <2>2
  <2>4. On(y1, l, i, v1) /\ On(y2, l, i, v2)
    <3>1. Same(v1, v1, q)
      BY <2>0, <2>3, SameSelf
    <3>2. Same(v2, v2, q)
      BY <2>0, <2>3, SameSelf
    <3> QED
      BY <2>2, <3>1, <3>2 DEF On
  <2>5. Same(v1 + v2 * s, u3 * (s * s) + T * w, q)
    BY DEF Brings
  <2>6. u3 \in Int /\ Phase(c, i, s) = u1 + u2 * s + u3 * (s * s)
    BY <2>1 DEF Phase, Third
  <2>7. Same(Phase(c, i, s), z, q)
    BY DEF Carries
  <2>8. b = Plus(x1, y1) /\ a = Plus(x2, y2)
    OBVIOUS
  <2> HIDE DEF x1, x2, y1, y2, u1, u2, u3, v1, v2, a, b
  <2>9. On(b, l, i, u1 + v1) /\ b.val[i] \in 0 .. (Q(i) - 1)
    BY <2>1, <2>4, <2>8, OnArith
  <2>10. On(a, l, i, u2 + v2) /\ a.val[i] \in 0 .. (Q(i) - 1)
    BY <2>1, <2>4, <2>8, OnArith
  <2>11. Same(b.val[i], u1 + v1, q) /\ Same(a.val[i], u2 + v2, q)
    BY <2>9, <2>10 DEF On
  <2> HIDE DEF q
  <2> DEFINE r == s * s
             g == u3 * r
             h == T * w
             v == v1 + v2 * s
             lin == u1 + u2 * s
  <2>12. r \in Int /\ g \in Int /\ h \in Int /\ v \in Int /\ lin \in Int
    BY <1>0, <2>1, <2>3, <2>6
  <2>13. Same(s, s, q)
    BY <2>0, SameSelf
  <2>14. Same(a.val[i] * s, (u2 + v2) * s, q)
    BY <2>0, <2>11, <2>13, SameArith
  <2>15. Same(b.val[i] + a.val[i] * s, (u1 + v1) + (u2 + v2) * s, q)
    BY <2>0, <2>11, <2>14, SameArith
  <2>16. (u1 + v1) + (u2 + v2) * s = lin + v
    BY <2>1, <2>3
  <2>17. Same(v, g + h, q) /\ Same(lin + g, z, q)
    BY <2>5, <2>6, <2>7
  <2> HIDE DEF r, g, h, v, lin
  <2>18. Same(lin, lin, q)
    BY <2>0, <2>12, SameSelf
  <2>19. Same(lin + v, lin + (g + h), q)
    BY <2>0, <2>17, <2>18, SameArith
  <2>20. Same(h, h, q)
    BY <2>0, <2>12, SameSelf
  <2>21. Same((lin + g) + h, z + h, q)
    BY <2>0, <2>17, <2>20, SameArith
  <2>22. (lin + g) + h = lin + (g + h)
    BY <2>12
  <2>23. Same(lin + v, z + h, q)
    BY <2>0, <2>19, <2>21, <2>22, SameTrans
  <2>24. Same(b.val[i] + a.val[i] * s, z + h, q)
    BY <2>0, <2>15, <2>16, <2>23, SameTrans
  <2> QED
    BY <2>9, <2>10, <2>24 DEF q, h
<1>4. Pair(b, a, l, s, z + T * w)
  <2> HIDE DEF b, a
  <2> QED
    BY <1>2, <1>3 DEF Pair
<1> HIDE DEF b, a
<1>5. Carries(<<b, a>>, l, s, z + T * w)
  BY <1>4, PairCarries
<1> QED
  BY <1>5 DEF b, a

\* What a switch brings for the second element takes its place, and the phase
\* is that under the secret switched to.
LEMMA SwitchCarries ==
  ASSUME Params, NEW l \in 1 .. SizeQ, NEW c, NEW s \in Int, NEW y \in Int, NEW z \in Int,
         Carries(c, l, s, z), 3 \notin DOMAIN c, NEW ba, NEW w, Brings(ba, l, c[2], s, y, w)
  PROVE  Carries(<<Plus(c[1], ba[1]), ba[2]>>, l, y, z + T * w)
<1> DEFINE b == Plus(c[1], ba[1])
           a == ba[2]
<1>0. T \in Nat /\ w \in Int
  BY LeewayFits DEF Brings
<1>1. Pair(c[1], c[2], l, s, z)
  BY CarriesPair
<1>2. b.mod = BasisQ(l) /\ a.mod = BasisQ(l)
  BY <1>1 DEF Pair, Plus, Brings
<1>3. ASSUME NEW i \in 0 .. (l - 1)
      PROVE  /\ b.val[i] \in 0 .. (Q(i) - 1) /\ a.val[i] \in 0 .. (Q(i) - 1)
             /\ Same(b.val[i] + a.val[i] * y, z + T * w, Q(i))
  <2> DEFINE q == Q(i)
             x1 == c[1]
             y1 == ba[1]
             u1 == x1.val[i]
             u2 == c[2].val[i]
             v1 == y1.val[i]
             v2 == a.val[i]
  <2>0. q \in Nat /\ q > 0
    BY LevelBasis
  <2>1. u1 \in Int /\ u2 \in Int /\ x1.mod = BasisQ(l) /\ Same(u1 + u2 * s, z, q)
    BY <1>1, <2>0 DEF Pair
  <2>2. v1 \in 0 .. (q - 1) /\ v2 \in 0 .. (q - 1) /\ y1.mod = BasisQ(l)
    BY DEF Brings
  <2>3. v1 \in Int /\ v2 \in Int
    BY <2>0, <2>2
  <2>4. On(x1, l, i, u1) /\ On(y1, l, i, v1)
    <3>1. Same(u1, u1, q)
      BY <2>0, <2>1, SameSelf
    <3>2. Same(v1, v1, q)
      BY <2>0, <2>3, SameSelf
    <3> QED
      BY <2>1, <2>2, <3>1, <3>2 DEF On
  <2>5. Same(v1 + v2 * y, u2 * s + T * w, q)
    BY DEF Brings
  <2>6. b = Plus(x1, y1)
    OBVIOUS
  <2> HIDE DEF x1, y1, u1, u2, v1, v2, b
  <2>7. On(b, l, i, u1 + v1) /\ b.val[i] \in 0 .. (Q(i) - 1)
    BY <2>4, <2>6, OnArith
  <2>8. Same(b.val[i], u1 + v1, q)
    BY <2>7 DEF On
  <2> HIDE DEF q
  <2> DEFINE g == v2 * y
             h == T * w
             k == u2 * s
             bv == b.val[i]
  <2>9. g \in Int /\ h \in Int /\ k \in Int
    BY <1>0, <2>1, <2>3
  <2>10. Same(v1 + g, k + h, q) /\ Same(u1 + k, z, q) /\ Same(bv, u1 + v1, q)
    BY <2>1, <2>5, <2>8
  <2> HIDE DEF g, h, k, bv
  <2>11. Same(g, g, q)
    BY <2>0, <2>9, SameSelf
  <2>12. Same(bv + g, (u1 + v1) + g, q)
    BY <2>0, <2>10, <2>11, SameArith
  <2>13. Same(u1, u1, q)
    BY <2>0, <2>1, SameSelf
  <2>14. Same(u1 + (v1 + g), u1 + (k + h), q)
    BY <2>0, <2>10, <2>13, SameArith
  <2>15. Same(h, h, q)
    BY <2>0, <2>9, SameSelf
  <2>16. Same((u1 + k) + h, z + h, q)
    BY <2>0, <2>10, <2>15, SameArith
  <2>17. (u1 + v1) + g = u1 + (v1 + g) /\ (u1 + k) + h = u1 + (k + h)
    BY <2>1, <2>3, <2>9
  <2>18. Same(bv + g, u1 + (k + h), q)
    BY <2>0, <2>12, <2>14, <2>17, SameTrans
  <2>19. Same(bv + g, z + h, q)
    BY <2>0, <2>16, <2>17, <2>18, SameTrans
  <2> QED
    BY <2>2, <2>7, <2>19 DEF q, g, h, bv, v2
<1>4. Pair(b, a, l, y, z + T * w)
  <2> HIDE DEF b, a
  <2> QED
    BY <1>2, <1>3 DEF Pair
<1> HIDE DEF b, a
<1>5. Carries(<<b, a>>, l, y, z + T * w)
  BY <1>4, PairCarries
<1> QED
  BY <1>5 DEF b, a

\* Without its last tower a ciphertext has the same phase.
LEMMA DropCarries ==
  ASSUME Params, NEW l \in 1 .. SizeQ, l > 1, NEW e, NEW s \in Int, NEW z, Carries(e, l, s, z),
         NEW f, f = [k \in DOMAIN e |-> DropLastElements(e[k], 1)]
  PROVE  /\ Carries(f, l - 1, s, z)
         /\ \A k \in DOMAIN e : \A i \in 0 .. ((l - 1) - 1) : f[k].val[i] = e[k].val[i]
<1>0. l \in Nat /\ l - 1 \in 1 .. SizeQ /\ \A i \in 0 .. ((l - 1) - 1) : i \in 0 .. (l - 1)
  BY LevelBasis
<1>1. Elements(e, l)
  BY DEF Carries
<1>2. ASSUME NEW k \in DOMAIN e
      PROVE  /\ f[k].mod = BasisQ(l - 1)
             /\ \A i \in 0 .. ((l - 1) - 1) : f[k].val[i] = e[k].val[i]
  <2>1. e[k].mod = BasisQ(l)
    BY <1>1 DEF Elements
  <2>2. Size(e[k]) = l
    <3>1. DOMAIN BasisQ(l) = 0 .. (l - 1)
      BY DEF BasisQ
    <3> QED
      BY <1>0, <2>1, <3>1, SizeOfInterval DEF Size
  <2> DEFINE x == e[k]
  <2>3. f[k] = DropLastElements(x, 1)
    OBVIOUS
  <2> HIDE DEF x
  <2>4. DropLastElements(x, 1).mod = BasisQ(l - 1)
    BY <1>0, <2>1, <2>2, ModReduceBasis DEF x
  <2>5. DropLastElements(x, 1).val = [i \in 0 .. ((l - 1) - 1) |-> x.val[i]]
    BY <2>2 DEF DropLastElements, First, x
  <2> QED
    BY <2>3, <2>4, <2>5 DEF x
<1>3. Elements(f, l - 1)
  <2>1. DOMAIN f = DOMAIN e /\ DOMAIN e \in {1 .. 2, 1 .. 3}
    BY <1>1 DEF Elements
  <2>2. ASSUME NEW k \in DOMAIN f
        PROVE  f[k].mod = BasisQ(l - 1) /\ \A i \in 0 .. ((l - 1) - 1) : f[k].val[i] \in 0 .. (Q(i) - 1)
    BY <1>0, <1>1, <1>2, <2>1, <2>2 DEF Elements
  <2> QED
    BY <2>1, <2>2 DEF Elements
<1>4. ASSUME NEW i \in 0 .. ((l - 1) - 1) PROVE Same(Phase(f, i, s), z, Q(i))
  <2>1. 1 \in DOMAIN e /\ 2 \in DOMAIN e
    BY <1>1 DEF Elements
  <2>2. f[1].val[i] = e[1].val[i] /\ f[2].val[i] = e[2].val[i]
    BY <1>2, <2>1
  <2>3. Third(f, i) = Third(e, i)
    <3>1. 3 \in DOMAIN f <=> 3 \in DOMAIN e
      OBVIOUS
    <3>2. CASE 3 \in DOMAIN e
      <4>1. f[3].val[i] = e[3].val[i]
        BY <1>2, <3>2
      <4> QED
        BY <3>1, <3>2, <4>1 DEF Third
    <3>3. CASE 3 \notin DOMAIN e
      BY <3>1, <3>3 DEF Third
    <3> QED
      BY <3>2, <3>3
  <2>4. Phase(f, i, s) = Phase(e, i, s)
    BY <2>2, <2>3 DEF Phase
  <2> QED
    BY <1>0, <2>4 DEF Carries
<1>5. Carries(f, l - 1, s, z)
  BY <1>3, <1>4 DEF Carries
<1> QED
  BY <1>2, <1>5

-----------------------------------------------------------------------------
(* The invariant of ciphertexts *)

\* What messages may be.
Readable(m) == \E r \in 0 .. (T - 1) : m = Centered(r, T)

\* A ciphertext of l towers carries an integer that is its message, times its
\* factor, modulo t and within its noise.
Within(c, l, u, n) ==
  \E z \in Int : Abs(z) <= n /\ Same(z, u, T) /\ Carries(c.elems, l, SecretOf(c), z)

\* It has room for its noise; a third element comes from squaring.
SoundAt(c, l, m, f, n) ==
  /\ 3 \in DOMAIN c.elems => setting.use = "mult"
  /\ setting.use = "mult" => c.key = "s"
  /\ Readable(m) /\ n <= Budget(l) /\ Within(c, l, m * f, n)

PhaseInv == ct # None => \E l \in 1 .. SizeQ : SoundAt(ct, l, msg, scale, noise)

\* Digits of h towers that are those of an element, of which l towers are left.
Recalls(digs, h, l, c) ==
  /\ \E f : Digits(digs, h, f) /\ Recomposes(h, l, c, f)
  /\ Hybrid => \A n \in 0 .. (NumDigits(h) - 1) : \A i \in Own(n, h) :
                 i < l => digs[n].val[i] = c.val[i]

RecallInv ==
  digits # None =>
    /\ ct # None /\ setting.use = "rotate"
    /\ \E l \in 1 .. digits.towers :
         ct.elems[1].mod = BasisQ(l) /\ Recalls(digits.elems, digits.towers, l, ct.elems[2])

SafeInv == TypeInv /\ SpecialOK /\ PhaseInv /\ RecallInv

\* What depends on the parameters only stays the same.
LEMMA SafeFrame ==
  ASSUME UNCHANGED parameters
  PROVE  /\ SpecialOK => SpecialOK'
         /\ SizeQ' = SizeQ /\ T' = T /\ \A l : BasisQ(l)' = BasisQ(l)
         /\ \A c, l, m, f, n : SoundAt(c, l, m, f, n)' <=> SoundAt(c, l, m, f, n)
         /\ \A d, h, l, c : Recalls(d, h, l, c)' <=> Recalls(d, h, l, c)
         /\ PhaseInv /\ UNCHANGED <<ct, scale, msg, noise>> => PhaseInv'
         /\ RecallInv /\ ct' = ct /\ (digits' = digits \/ digits' = None) => RecallInv'
<1>1. setting' = setting /\ special' = special /\ secret' = secret /\ image' = image
  BY DEF parameters
<1>2. /\ SizeQ' = SizeQ /\ Hybrid' = Hybrid /\ SizeP' = SizeP /\ KeyBasis' = KeyBasis /\ T' = T
      /\ (\A i : Q(i)' = Q(i)) /\ \A l : BasisQ(l)' = BasisQ(l)
  BY <1>1 DEF SizeQ, SizeP, Hybrid, KeyBasis, BasisQP, BasisQ, Q, T
<1>3. S' = S /\ Z' = Z
  BY KeyFrame
<1>4. Alpha' = Alpha /\ (\A l : NumParts(l)' = NumParts(l)) /\ \A l, n : SizePart(l, n)' = SizePart(l, n)
  BY <1>1 DEF Alpha, NumParts, SizePart
<1>5. \A i : NumWindows(i)' = NumWindows(i)
  BY <1>1, <1>2 DEF NumWindows
<1>6. \A i : FirstWindow(i)' = FirstWindow(i)
  BY <1>5 DEF FirstWindow
<1>7. \A n : TowerOf(n)' = TowerOf(n)
  BY <1>2, <1>5, <1>6 DEF TowerOf
<1>8. \A n : Power(n)' = Power(n)
  BY <1>1, <1>6, <1>7 DEF Power
<1>9. ModulusP' = ModulusP
  BY <1>1, <1>2 DEF ModulusP, BasisP
<1>10. \A n, i : Factor(n, i)' = Factor(n, i)
  BY <1>2, <1>8, <1>9 DEF Factor, PModq
<1>11. \A n, l : Own(n, l)' = Own(n, l)
  BY <1>2, <1>4, <1>7 DEF Own
<1>12. \A n, i : Multiplier(n, i)' = Multiplier(n, i)
  BY <1>2, <1>10, <1>11 DEF Multiplier
<1>13. \A l : NumDigits(l)' = NumDigits(l)
  BY <1>2, <1>4, <1>6 DEF NumDigits
<1>14. \A p, n : ParamsPartQ(p, n)' = ParamsPartQ(p, n)
  BY <1>2, <1>4 DEF ParamsPartQ
<1>15. \A n, l : MaxDigit(n, l)' = MaxDigit(n, l)
  BY <1>1, <1>2, <1>4, <1>7, <1>14 DEF MaxDigit
<1>16. \A i, l : KeyTower(i, l)' = KeyTower(i, l)
  BY <1>2 DEF KeyTower
<1>17. \A d, n, l, x : IsDigit(d, n, l, x)' <=> IsDigit(d, n, l, x)
  BY <1>2, <1>15, <1>16 DEF IsDigit, Matches
<1>18. \A d, l, f : Digits(d, l, f)' <=> Digits(d, l, f)
  BY <1>13, <1>17 DEF Digits
<1>19. \A l, f, i : Weighted(l, f, i)' = Weighted(l, f, i)
  BY <1>12, <1>13 DEF Weighted
<1>20. Scale' = Scale
  BY <1>2, <1>9 DEF Scale
<1>21. \A l, m, c, f : Recomposes(l, m, c, f)' <=> Recomposes(l, m, c, f)
  BY <1>2, <1>19, <1>20 DEF Recomposes
<1>22. \A d, h, l, c : Recalls(d, h, l, c)' <=> Recalls(d, h, l, c)
  BY <1>2, <1>11, <1>13, <1>18, <1>21 DEF Recalls
<1>23. \A l : Budget(l)' = Budget(l)
  BY <1>2 DEF Budget
<1>24. \A c : SecretOf(c)' = SecretOf(c)
  BY <1>3 DEF SecretOf
<1>25. \A e, l, s, z : Carries(e, l, s, z)' <=> Carries(e, l, s, z)
  BY <1>2 DEF Carries, Elements
<1>26. \A m : Readable(m)' <=> Readable(m)
  BY <1>2 DEF Readable
<1>27. \A c, l, m, n : Within(c, l, m, n)' <=> Within(c, l, m, n)
  BY <1>2, <1>24, <1>25 DEF Within
<1>28. \A c, l, m, f, n : SoundAt(c, l, m, f, n)' <=> SoundAt(c, l, m, f, n)
  BY <1>1, <1>23, <1>26, <1>27 DEF SoundAt
<1>29. SpecialOK => SpecialOK'
  BY <1>1, <1>2 DEF SpecialOK
<1>30. PhaseInv /\ UNCHANGED <<ct, scale, msg, noise>> => PhaseInv'
  BY <1>2, <1>28 DEF PhaseInv
<1>31. RecallInv /\ ct' = ct /\ (digits' = digits \/ digits' = None) => RecallInv'
  BY <1>1, <1>2, <1>22 DEF RecallInv
<1> QED
  BY <1>2, <1>22, <1>28, <1>29, <1>30, <1>31

\* A ciphertext has one number of towers, and as many elements as its length
\* says.
LEMMA LevelOf ==
  ASSUME SafeInv, ct # None
  PROVE  /\ ct = [key |-> ct.key, elems |-> ct.elems]
         /\ Level \in 1 .. SizeQ /\ SoundAt(ct, Level, msg, scale, noise)
         /\ \A l \in 1 .. SizeQ : ct.elems[1].mod = BasisQ(l) => l = Level
         /\ Len(ct.elems) = IF 3 \in DOMAIN ct.elems THEN 3 ELSE 2
<1>0. Params /\ Basis /\ Shape /\ PhaseInv
  BY DEF SafeInv, TypeInv, Inv
<1>1. PICK l \in 1 .. SizeQ : SoundAt(ct, l, msg, scale, noise)
  BY <1>0 DEF PhaseInv
<1>2. ct.elems[1].mod = BasisQ(l)
  BY <1>1 DEF SoundAt, Within, Carries, Elements
<1>3. \A k \in 1 .. SizeQ : Cardinality(DOMAIN BasisQ(k)) = k
  <2> TAKE k \in 1 .. SizeQ
  <2>1. k \in Nat /\ DOMAIN BasisQ(k) = 0 .. (k - 1)
    BY <1>0, LevelBasis
  <2> QED
    BY <2>1, SizeOfInterval
<1>4. \A k \in 1 .. SizeQ : ct.elems[1].mod = BasisQ(k) => k = Level
  BY <1>3 DEF Level, Size
<1>5. Len(ct.elems) = IF 3 \in DOMAIN ct.elems THEN 3 ELSE 2
  <2> DEFINE e == ct.elems
  <2>1. e = [i \in DOMAIN e |-> e[i]] /\ DOMAIN e \in {1 .. 2, 1 .. 3}
    BY <1>0 DEF Shape, Basis
  <2> HIDE DEF e
  <2>2. ASSUME NEW k \in {2, 3}, DOMAIN e = 1 .. k PROVE Len(e) = k
    <3>1. k \in Nat
      OBVIOUS
    <3>2. e \in [1 .. k -> {e[i] : i \in 1 .. k}]
      BY <2>1, <2>2
    <3>3. e \in Seq({e[i] : i \in 1 .. k})
      BY <3>1, <3>2
    <3>4. DOMAIN e = 1 .. Len(e) /\ Len(e) \in Nat
      BY <3>3
    <3> QED
      BY <2>2, <3>1, <3>4
  <2>3. Len(e) = IF 3 \in DOMAIN e THEN 3 ELSE 2
    BY <2>1, <2>2
  <2> QED
    BY <2>3 DEF e
<1> QED
  BY <1>0, <1>1, <1>2, <1>4, <1>5 DEF Basis

\* A new ciphertext that carries its message.
LEMMA NewSound ==
  ASSUME UNCHANGED parameters, NEW c, ct' = c, NEW m, msg' = m, NEW f, scale' = f, NEW n, noise' = n,
         NEW l \in 1 .. SizeQ, SoundAt(c, l, m, f, n)
  PROVE  PhaseInv'
<1>1. SizeQ' = SizeQ /\ (SoundAt(c, l, m, f, n)' <=> SoundAt(c, l, m, f, n))
  BY SafeFrame
<1> QED
  BY <1>1 DEF PhaseInv

\* What the steps need of a ciphertext.
LEMMA CiphertextFacts ==
  ASSUME SafeInv, ct # None
  PROVE  /\ Params /\ SpecialOK /\ S \in Int /\ Z \in Int /\ SecretOf(ct) \in Int
         /\ KeyOK(evalKey, From, To) /\ noise \in Nat /\ T \in Nat /\ T > 0
         /\ Readable(msg) /\ msg \in Int /\ noise <= Budget(Level)
         /\ scale \in Int /\ scale \in 1 .. (T - 1) /\ Unit(scale, T) /\ msg * scale \in Int
         /\ (3 \in DOMAIN ct.elems => setting.use = "mult") /\ (setting.use = "mult" => ct.key = "s")
         /\ DOMAIN ct.elems \in {1 .. 2, 1 .. 3}
         /\ \E z \in Int : /\ Abs(z) <= noise /\ Same(z, msg * scale, T)
                           /\ Carries(ct.elems, Level, SecretOf(ct), z)
<1>1. Params /\ SpecialOK /\ Known /\ EvalOK /\ noise \in Nat /\ ScaleInv
  BY DEF SafeInv, TypeInv, KeyInv, Inv
<1>2. S \in Int /\ Z \in Int /\ SecretOf(ct) \in Int
  BY <1>1, RoomForKeys DEF SecretOf
<1>3. KeyOK(evalKey, From, To)
  BY <1>1 DEF EvalOK, UsableKey
<1>4. T \in Nat /\ T > 0
  BY <1>1, LeewayFits
<1>5. SoundAt(ct, Level, msg, scale, noise)
  BY LevelOf
<1>6. PICK z \in Int : Abs(z) <= noise /\ Same(z, msg * scale, T) /\ Carries(ct.elems, Level, SecretOf(ct), z)
  BY <1>5 DEF SoundAt, Within
<1>7. msg \in Int /\ scale \in Int /\ msg * scale \in Int
  <2>1. Readable(msg)
    BY <1>5 DEF SoundAt
  <2>2. PICK r \in 0 .. (T - 1) : msg = Centered(r, T)
    BY <2>1 DEF Readable
  <2>3. Same(Centered(r, T), r, T)
    BY <1>4, CenteredFacts
  <2> QED
    BY <1>1, <1>4, <2>2, <2>3 DEF Same, ScaleInv
<1>8. DOMAIN ct.elems \in {1 .. 2, 1 .. 3}
  BY <1>6 DEF Carries, Elements
<1> QED
  BY <1>1, <1>2, <1>3, <1>4, <1>5, <1>6, <1>7, <1>8 DEF SoundAt, ScaleInv

\* A fresh ciphertext carries its plaintext, with noise that all moduli have
\* room for.
LEMMA EncryptSound ==
  ASSUME SafeInv, Encrypt
  PROVE  PhaseInv' /\ RecallInv'
<1>0. Params /\ Known /\ RecallInv
  BY DEF SafeInv, TypeInv, Inv, KeyInv
<1>1. UNCHANGED parameters /\ digits' = digits /\ ct = None /\ noise' = T \div 2 + T * MaxNoise
      /\ scale' = FreshFactor
  BY DEF Encrypt
<1>2. RecallInv'
  BY <1>0, <1>1 DEF RecallInv
<1>3. PICK x \in 0 .. (T - 1), v \in (-MaxNoise) .. MaxNoise, d \in Uniforms :
        /\ ct' = [key |-> "s",
                  elems |-> <<Plus(InQ(Centered((x * FreshFactor) % T, T) + T * v), TimesInt(Times(InQ(d[1]), InQ(S)), -1)),
                              InQ(d[1])>>]
        /\ msg' = Centered(x, T)
  BY DEF Encrypt
<1> DEFINE m == Centered(x, T)
           f == FreshFactor
           g == (x * f) % T
           u == Centered(g, T)
           z == u + T * v
           a == d[1]
           e == <<Plus(InQ(z), TimesInt(Times(InQ(a), InQ(S)), -1)), InQ(a)>>
           c == [key |-> "s", elems |-> e]
           n == T \div 2 + T * MaxNoise
<1>4. /\ T \in Nat /\ T > 0 /\ MaxNoise \in Nat /\ 2 * n <= Leeway /\ Leeway \in Nat /\ S \in Int
      /\ SizeQ \in 1 .. SizeQ
  <2>1. S \in Int
    BY <1>0, RoomForKeys
  <2>2. SizeQ \in 1 .. SizeQ
    BY <1>0, Sizes
  <2> QED
    BY <1>0, <2>1, <2>2, LeewayFits
<1>5. a \in Int
  <2>1. d \in Seq(Int) /\ d # <<>>
    BY KeySwitchAssumption
  <2> QED
    BY <2>1
<1>6. u \in Int /\ Abs(u) <= T \div 2 /\ Same(u, m * f, T)
  <2>1. f \in Int /\ x \in Int
    BY <1>0, <1>4, FreshFactorIs
  <2> HIDE DEF f
  <2>2. x * f \in Int
    BY <2>1
  <2>3. g \in 0 .. (T - 1) /\ Same(g, x * f, T)
    BY <1>4, <2>2, ModRange, SameSelf
  <2> HIDE DEF g
  <2>4. Same(u, g, T) /\ Abs(u) <= T \div 2 /\ Same(m, x, T)
    BY <1>4, <2>3, CenteredFacts
  <2> HIDE DEF u, m
  <2>5. Same(x, m, T) /\ Same(f, f, T)
    BY <1>4, <2>1, <2>4, SameRemainder, SameSelf
  <2>6. Same(x * f, m * f, T)
    BY <1>4, <2>5, SameArith
  <2>7. Same(u, m * f, T)
    BY <1>4, <2>3, <2>4, <2>6, SameTrans
  <2> QED
    BY <2>4, <2>7 DEF Same
<1>7. v \in Int /\ Abs(v) <= MaxNoise /\ Abs(v) \in Nat
  BY <1>4 DEF Abs
<1> HIDE DEF m, f, g, u
<1>8. z \in Int /\ Same(z, m * f, T) /\ Abs(z) <= n /\ n \in Nat
  <2> DEFINE tv == T * v
  <2>1. tv \in Int
    BY <1>4, <1>7
  <2>2. Abs(tv) <= T * MaxNoise
    <3>1. Abs(tv) = Abs(T) * Abs(v)
      <4>1. T \in Int /\ v \in Int
        BY <1>4, <1>7
      <4>2. Abs(T * v) = Abs(T) * Abs(v)
        BY <4>1, AbsFacts
      <4> QED
        BY <4>2
    <3>2. Abs(T) = T
      BY <1>4 DEF Abs
    <3>3. T * Abs(v) <= T * MaxNoise
      BY <1>4, <1>7, ProductMonotone
    <3> QED
      BY <3>1, <3>2, <3>3
  <2>3. Same(z, m * f, T)
    <3>1. z = u + T * v /\ z \in Int
      BY <1>6, <2>1
    <3> HIDE DEF z
    <3>2. Same(z, u, T)
      BY <1>6, <1>7, <3>1 DEF Same
    <3> QED
      BY <1>4, <1>6, <3>2, SameTrans
  <2> HIDE DEF tv
  <2>4. Abs(u + tv) <= Abs(u) + Abs(tv) /\ Abs(u) \in Nat
    BY <1>6, <2>1, AbsFacts
  <2>5. Abs(tv) \in Nat
    BY <2>1, AbsFacts
  <2>6. T \div 2 \in Nat /\ T * MaxNoise \in Nat
    <3>1. 2 \in Nat \ {0}
      OBVIOUS
    <3>2. T \div 2 \in Nat
      BY <1>4, <3>1, Division
    <3>3. T * MaxNoise \in Nat
      BY <1>4, ProductMonotone
    <3> QED
      BY <3>2, <3>3
  <2> DEFINE hh == T \div 2
             tm == T * MaxNoise
             am == Abs(u)
             at == Abs(tv)
             az == Abs(u + tv)
  <2>7. hh \in Nat /\ tm \in Nat /\ am \in Nat /\ at \in Nat /\ am <= hh /\ at <= tm /\ az <= am + at /\ n = hh + tm
    BY <1>6, <2>2, <2>4, <2>5, <2>6
  <2>8. az \in Nat
    <3>1. u + tv \in Int
      BY <1>6, <2>1
    <3> QED
      BY <3>1, AbsFacts
  <2> HIDE DEF hh, tm, am, at, az, n
  <2>9. az <= n /\ n \in Nat
    BY <2>7, <2>8
  <2> QED
    BY <1>6, <2>1, <2>3, <2>9 DEF az, tv
<1> HIDE DEF z, n, a
<1>9. Carries(e, SizeQ, S, z)
  BY <1>0, <1>4, <1>5, <1>8, FreshCarries
<1>10. n <= Budget(SizeQ)
  BY <1>0, <1>4, <1>8, BudgetFacts
<1>11. 3 \notin DOMAIN e
  BY DEF e
<1>12. ct' = c /\ msg' = m /\ scale' = f /\ noise' = n
  BY <1>1, <1>3 DEF m, f, g, u, z, a, n
<1> HIDE DEF e
<1>13. SoundAt(c, SizeQ, m, f, n)
  <2>1. Readable(m)
    BY <1>3 DEF Readable, m
  <2>2. c.elems = e /\ c.key = "s" /\ SecretOf(c) = S
    BY DEF SecretOf
  <2> HIDE DEF c
  <2>3. Within(c, SizeQ, m * f, n)
    BY <1>8, <1>9, <2>2 DEF Within
  <2> QED
    BY <1>10, <1>11, <2>1, <2>2, <2>3 DEF SoundAt
<1> HIDE DEF c
<1>14. PhaseInv'
  BY <1>1, <1>4, <1>12, <1>13, NewSound
<1> QED
  BY <1>2, <1>14

\* The square of a ciphertext carries the square of its message.
LEMMA SquareSound ==
  ASSUME SafeInv, EvalSquare
  PROVE  PhaseInv' /\ RecallInv'
<1>1. /\ UNCHANGED parameters /\ digits' = None /\ ct # None /\ setting.use = "mult"
      /\ Len(ct.elems) = 2 /\ noise * noise <= Budget(Level)
      /\ noise' = noise * noise /\ msg' = Centered((msg * msg) % T, T)
      /\ scale' = (scale * scale) % T
  BY DEF EvalSquare
<1> DEFINE l == Level
           c == ct.elems
           e == <<Times(c[1], c[1]), TimesInt(Times(c[1], c[2]), 2), Times(c[2], c[2])>>
           s == SecretOf(ct)
           r == (msg * msg) % T
           m == Centered(r, T)
           g == (scale * scale) % T
           n == noise * noise
           new == [key |-> ct.key, elems |-> e]
<1>2. l \in 1 .. SizeQ /\ 3 \notin DOMAIN c /\ ct = [key |-> ct.key, elems |-> c]
  BY <1>1, LevelOf
<1>3. /\ Params /\ s \in Int /\ noise \in Nat /\ T \in Nat /\ T > 0 /\ msg \in Int
      /\ scale \in Int /\ ct.key = "s"
  BY <1>1, CiphertextFacts
<1>4. PICK z \in Int : Abs(z) <= noise /\ Same(z, msg * scale, T) /\ Carries(c, l, s, z)
  BY <1>1, CiphertextFacts
<1>5. ct' = new
  <2>1. ct' = [ct EXCEPT !.elems = e]
    BY DEF EvalSquare
  <2> HIDE DEF e
  <2> QED
    BY <1>2, <2>1
<1>6. Carries(e, l, s, z * z)
  <2> HIDE DEF c, l, s
  <2> QED
    BY <1>2, <1>3, <1>4, SquareCarries DEF e
<1> HIDE DEF e
<1>7. r \in 0 .. (T - 1) /\ Same(msg * msg, r, T) /\ Same(m, r, T)
  <2>1. msg * msg \in Int
    BY <1>3
  <2>2. r \in 0 .. (T - 1)
    BY <1>3, <2>1, ModRange
  <2>3. Same(r, msg * msg, T)
    BY <1>3, <2>1, SameSelf
  <2> HIDE DEF r
  <2>4. Same(m, r, T)
    BY <1>3, <2>2, CenteredFacts
  <2> QED
    BY <1>3, <2>2, <2>3, <2>4, SameRemainder
<1>8. Same(z * z, m * g, T)
  <2>0. scale * scale \in Int /\ msg * msg \in Int /\ z * z \in Int
    BY <1>3
  <2>1. Same(z * z, (msg * scale) * (msg * scale), T)
    BY <1>3, <1>4, SameArith
  <2>2. (msg * scale) * (msg * scale) = (msg * msg) * (scale * scale)
    BY <1>3
  <2>3. Same(g, scale * scale, T)
    BY <1>3, <2>0, SameSelf
  <2> HIDE DEF r, m, g
  <2>4. Same(scale * scale, g, T)
    BY <1>3, <2>3, SameRemainder
  <2>5. Same((msg * msg) * (scale * scale), r * g, T)
    BY <1>3, <1>7, <2>4, SameArith
  <2>6. Same(r, m, T) /\ Same(g, g, T)
    BY <1>3, <1>7, <2>3, <2>4, SameRemainder, SameTrans
  <2>7. Same(r * g, m * g, T)
    BY <1>3, <2>6, SameArith
  <2>8. Same(z * z, r * g, T)
    BY <1>3, <2>1, <2>2, <2>5, SameTrans
  <2> QED
    BY <1>3, <2>7, <2>8, SameTrans
<1>9. Abs(z * z) <= n /\ n \in Nat /\ z * z \in Int
  <2>1. Abs(z * z) = Abs(z) * Abs(z) /\ Abs(z) \in Nat
    BY AbsFacts
  <2>2. Abs(z) * Abs(z) <= noise * noise /\ noise * noise \in Nat
    BY <1>3, <1>4, <2>1, ProductMonotone
  <2> QED
    BY <2>1, <2>2
<1>10. SoundAt(new, l, m, g, n)
  <2>1. Readable(m)
    BY <1>7 DEF Readable
  <2>2. new.elems = e /\ new.key = ct.key /\ SecretOf(new) = s
    BY DEF SecretOf
  <2> HIDE DEF new, n, m, r, s, g
  <2>3. Within(new, l, m * g, n)
    BY <1>6, <1>8, <1>9, <2>2 DEF Within
  <2> QED
    BY <1>1, <1>3, <2>1, <2>2, <2>3 DEF SoundAt, n
<1>11. PhaseInv'
  <2> HIDE DEF new, n, m, g
  <2>1. msg' = m /\ scale' = g /\ noise' = n
    BY <1>1 DEF m, n, g
  <2> HIDE DEF l
  <2> QED
    BY <1>1, <1>2, <1>5, <1>10, <2>1, NewSound
<1> QED
  BY <1>1, <1>11 DEF RecallInv

\* An element of a ciphertext is reduced in the moduli of its towers.
LEMMA ElementReduced ==
  ASSUME SafeInv, ct # None, NEW k \in DOMAIN ct.elems
  PROVE  /\ Reduced(ct.elems[k], Level) /\ Size(ct.elems[k]) = Level
         /\ \A i \in 0 .. (Level - 1) : ct.elems[k].val[i] \in Int
<1>1. Level \in 1 .. SizeQ /\ Params
  BY LevelOf, CiphertextFacts
<1>2. Elements(ct.elems, Level)
  BY CiphertextFacts DEF Carries
<1> DEFINE l == Level
           x == ct.elems[k]
<1>3. x.mod = BasisQ(l) /\ \A i \in 0 .. (l - 1) : x.val[i] \in 0 .. (Q(i) - 1)
  BY <1>2 DEF Elements
<1> HIDE DEF l, x
<1>4. l \in 1 .. SizeQ
  BY <1>1 DEF l
<1>5. Size(x) = l
  <2>1. l \in Nat /\ DOMAIN BasisQ(l) = 0 .. (l - 1)
    BY <1>1, <1>4, LevelBasis
  <2> QED
    BY <1>3, <2>1, SizeOfInterval DEF Size
<1>6. \A i \in 0 .. (l - 1) : x.val[i] \in Int
  <2> TAKE i \in 0 .. (l - 1)
  <2>1. Q(i) \in Nat
    BY <1>1, <1>4, LevelBasis
  <2> QED
    BY <1>3, <2>1
<1> QED
  BY <1>3, <1>5, <1>6 DEF Reduced, l, x

\* The noise of what a switch leaves.
LEMMA NoiseAdds ==
  ASSUME NEW t \in Nat, t > 0, NEW z \in Int, NEW w \in Int, NEW m, NEW n \in Nat, NEW b \in Int,
         Abs(z) <= n, t * Abs(w) <= b, Same(z, m, t)
  PROVE  z + t * w \in Int /\ Abs(z + t * w) <= n + b /\ Same(z + t * w, m, t)
<1> DEFINE tw == t * w
<1>1. tw \in Int
  OBVIOUS
<1>2. Abs(tw) <= b /\ Abs(tw) \in Nat
  <2>1. Abs(t * w) = Abs(t) * Abs(w)
    <3>1. t \in Int
      OBVIOUS
    <3> QED
      BY <3>1, AbsFacts
  <2>2. Abs(t) = t
    BY DEF Abs
  <2>3. Abs(tw) \in Nat
    <3> HIDE DEF tw
    <3> QED
      BY <1>1, AbsFacts
  <2> QED
    BY <2>1, <2>2, <2>3
<1>3. Same(tw, 0, t)
  <2>1. tw = 0 + t * w
    OBVIOUS
  <2> HIDE DEF tw
  <2> QED
    BY <1>1, <2>1 DEF Same
<1> HIDE DEF tw
<1>4. Abs(z + tw) <= Abs(z) + Abs(tw) /\ Abs(z) \in Nat
  BY <1>1, AbsFacts
<1>5. Same(z + tw, m + 0, t)
  BY <1>3, SameArith
<1>6. m + 0 = m
  <2>1. m \in Int
    BY DEF Same
  <2> QED
    BY <2>1
<1>7. Abs(z + tw) <= n + b
  <2>1. Abs(z + tw) \in Nat
    <3>1. z + tw \in Int
      BY <1>1
    <3> QED
      BY <3>1, AbsFacts
  <2> QED
    BY <1>2, <1>4, <2>1
<1> QED
  BY <1>1, <1>5, <1>6, <1>7 DEF tw

\* The noise of a switch is a number.
LEMMA SwitchNoiseInt ==
  ASSUME SafeInv, ct # None, NEW l \in 1 .. SizeQ, NEW to \in Int
  PROVE  SwitchNoise(l, to) \in Nat
<1>1. Known /\ UsableKey(evalKey)
  BY DEF SafeInv, TypeInv, KeyInv, EvalOK
<1> QED
  BY <1>1, SwitchNoiseNat

\* Relinearization keeps the message.
LEMMA RelinearizeSound ==
  ASSUME SafeInv, Relinearize
  PROVE  PhaseInv' /\ RecallInv'
<1> DEFINE l == Level
           c == ct.elems
           b == SwitchNoise(l, S)
           n == noise + b
           digs == EvalKeySwitchPrecomputeCore(c[3])
           ba == EvalFastKeySwitchCore(digs, evalKey, l)
           e == <<Plus(c[1], ba[1]), Plus(c[2], ba[2])>>
           new == [key |-> ct.key, elems |-> e]
<1>1. /\ UNCHANGED parameters /\ digits' = digits /\ ct # None /\ Len(c) = 3
      /\ n <= Budget(l) /\ noise' = n /\ msg' = msg /\ scale' = scale
  BY DEF Relinearize
<1>2. l \in 1 .. SizeQ /\ 3 \in DOMAIN c /\ ct = [key |-> ct.key, elems |-> c]
  BY <1>1, LevelOf
<1>3. /\ Params /\ SpecialOK /\ S \in Int /\ noise \in Nat /\ T \in Nat /\ T > 0
      /\ setting.use = "mult" /\ ct.key = "s" /\ Readable(msg)
      /\ KeyOK(evalKey, S * S, S) /\ SecretOf(ct) = S
  <2>1. /\ Params /\ SpecialOK /\ S \in Int /\ noise \in Nat /\ T \in Nat /\ T > 0
        /\ setting.use = "mult" /\ ct.key = "s" /\ Readable(msg) /\ KeyOK(evalKey, From, To)
    BY <1>1, <1>2, CiphertextFacts
  <2> QED
    BY <2>1 DEF From, To, SecretOf
<1>4. PICK z \in Int : Abs(z) <= noise /\ Same(z, msg * scale, T) /\ Carries(c, l, S, z)
  BY <1>1, <1>3, CiphertextFacts
<1>5. Reduced(c[3], l) /\ Size(c[3]) = l /\ \A i \in 0 .. (l - 1) : c[3].val[i] \in Int
  BY <1>1, <1>2, ElementReduced
<1>6. ct' = new
  <2>1. ct' = [ct EXCEPT !.elems = e]
    <3>1. KeySwitchCore(c[3], evalKey) = ba
      BY <1>5 DEF KeySwitchCore
    <3> HIDE DEF ba
    <3> QED
      BY <1>2, <3>1 DEF Relinearize
  <2> HIDE DEF e
  <2> QED
    BY <1>2, <2>1
<1> HIDE DEF l, c, digs
<1>7. PICK f : Digits(digs, l, f) /\ Recomposes(l, l, c[3], f)
  BY <1>2, <1>3, <1>5, DigitsMade DEF digs
<1>8. S * S \in Int /\ l \in 1 .. l
  BY <1>2, <1>3, LevelBasis
<1>9. PICK w : Brings(ba, l, c[3], S * S, S, w) /\ T * Abs(w) <= b
  <2> DEFINE x == S * S
             c3 == c[3]
  <2>1. x \in Int /\ KeyOK(evalKey, x, S) /\ \A i \in 0 .. (l - 1) : c3.val[i] \in Int
    BY <1>3, <1>5, <1>8
  <2>2. Digits(digs, l, f) /\ Recomposes(l, l, c3, f)
    BY <1>7
  <2> HIDE DEF x, c3
  <2>3. \E w : /\ Brings(EvalFastKeySwitchCore(digs, evalKey, l), l, c3, x, S, w)
               /\ T * Abs(w) <= SwitchNoise(l, S)
    BY <1>2, <1>3, <1>8, <2>1, <2>2, SwitchBrings
  <2> QED
    BY <2>3 DEF x, c3
<1>10. w \in Int
  BY <1>9 DEF Brings
<1>11. Carries(e, l, S, z + T * w)
  <2> HIDE DEF ba
  <2> QED
    BY <1>2, <1>3, <1>4, <1>9, RelinearizeCarries DEF e
<1>12. b \in Int
  <2>1. SwitchNoise(l, S) \in Nat
    BY <1>1, <1>2, <1>3, SwitchNoiseInt
  <2> QED
    BY <2>1
<1> HIDE DEF b, ba
<1>13. z + T * w \in Int /\ Abs(z + T * w) <= n /\ Same(z + T * w, msg * scale, T)
  BY <1>3, <1>4, <1>9, <1>10, <1>12, NoiseAdds
<1>14. 3 \notin DOMAIN e
  OBVIOUS
<1>15. SoundAt(new, l, msg, scale, n)
  <2>2. new.elems = e /\ new.key = "s" /\ SecretOf(new) = S
    BY <1>3 DEF SecretOf
  <2> HIDE DEF new, n, e
  <2>3. Within(new, l, msg * scale, n)
    BY <1>11, <1>13, <2>2 DEF Within
  <2> QED
    BY <1>1, <1>3, <1>14, <2>2, <2>3 DEF SoundAt
<1>16. PhaseInv'
  <2> HIDE DEF new, n
  <2> QED
    BY <1>1, <1>2, <1>6, <1>15, NewSound
<1>17. RecallInv'
  <2>1. digits = None
    BY <1>3 DEF SafeInv, RecallInv
  <2> QED
    BY <1>1, <2>1 DEF RecallInv
<1> QED
  BY <1>16, <1>17

\* A switch with digits of the ciphertext, made at this level or at a higher
\* one, keeps the message.
LEMMA SwitchedSound ==
  ASSUME SafeInv, NEW h \in 1 .. SizeQ, Switchable(h), Level \in 1 .. h, Hybrid => Level = h,
         NEW digs, NEW f, Digits(digs, h, f), Recomposes(h, Level, ct.elems[2], f),
         Switched(EvalFastKeySwitchCore(digs, evalKey, Level), h)
  PROVE  PhaseInv' /\ RecallInv'
<1> DEFINE l == Level
           c == ct.elems
           b == SwitchNoise(h, Z)
           n == noise + b
           ba == EvalFastKeySwitchCore(digs, evalKey, l)
           e == <<Plus(c[1], ba[1]), ba[2]>>
           new == [key |-> "z", elems |-> e]
<1>1. /\ UNCHANGED parameters /\ digits' = None /\ ct # None
      /\ ct.key = "s" /\ setting.use # "mult"
      /\ n <= Budget(l) /\ noise' = n /\ msg' = msg /\ scale' = scale /\ ct' = new
  BY DEF Switchable, Switched
<1>2. l \in 1 .. SizeQ /\ l \in 1 .. h
  BY <1>1, LevelOf
<1>3. /\ Params /\ SpecialOK /\ S \in Int /\ Z \in Int /\ noise \in Nat /\ T \in Nat /\ T > 0
      /\ Readable(msg) /\ 3 \notin DOMAIN c /\ DOMAIN c \in {1 .. 2, 1 .. 3}
      /\ KeyOK(evalKey, S, Z) /\ SecretOf(ct) = S
  <2>1. /\ Params /\ SpecialOK /\ S \in Int /\ Z \in Int /\ noise \in Nat /\ T \in Nat /\ T > 0
        /\ Readable(msg) /\ KeyOK(evalKey, From, To) /\ DOMAIN c \in {1 .. 2, 1 .. 3}
        /\ (3 \in DOMAIN c => setting.use = "mult")
    BY <1>1, CiphertextFacts
  <2> QED
    BY <1>1, <2>1 DEF From, To, SecretOf
<1>4. PICK z \in Int : Abs(z) <= noise /\ Same(z, msg * scale, T) /\ Carries(c, l, S, z)
  BY <1>1, <1>3, CiphertextFacts
<1>5. \A i \in 0 .. (l - 1) : c[2].val[i] \in Int
  <2>1. 2 \in DOMAIN c
    BY <1>3
  <2> QED
    BY <1>1, <2>1, ElementReduced
<1>6. Digits(digs, h, f) /\ Recomposes(h, l, c[2], f) /\ (Hybrid => l = h)
  OBVIOUS
<1> HIDE DEF l, c
<1>7. PICK w : Brings(ba, l, c[2], S, Z, w) /\ T * Abs(w) <= b
  <2> DEFINE c2 == c[2]
  <2>1. (\A i \in 0 .. (l - 1) : c2.val[i] \in Int) /\ Recomposes(h, l, c2, f)
    BY <1>5, <1>6
  <2> HIDE DEF c2
  <2>2. \E w : /\ Brings(EvalFastKeySwitchCore(digs, evalKey, l), l, c2, S, Z, w)
               /\ T * Abs(w) <= SwitchNoise(h, Z)
    BY <1>2, <1>3, <1>6, <2>1, SwitchBrings
  <2> QED
    BY <2>2 DEF c2
<1>8. w \in Int
  BY <1>7 DEF Brings
<1>9. Carries(e, l, Z, z + T * w)
  <2> HIDE DEF ba
  <2> QED
    BY <1>2, <1>3, <1>4, <1>7, SwitchCarries DEF e
<1>10. b \in Int
  <2>1. SwitchNoise(h, Z) \in Nat
    BY <1>1, <1>3, SwitchNoiseInt
  <2> QED
    BY <2>1
<1> HIDE DEF b, ba
<1>11. z + T * w \in Int /\ Abs(z + T * w) <= n /\ Same(z + T * w, msg * scale, T)
  BY <1>3, <1>4, <1>7, <1>8, <1>10, NoiseAdds
<1>12. 3 \notin DOMAIN e
  OBVIOUS
<1>13. SoundAt(new, l, msg, scale, n)
  <2>1. new.elems = e /\ SecretOf(new) = Z
    BY DEF SecretOf
  <2> HIDE DEF new, n, e
  <2>2. Within(new, l, msg * scale, n)
    BY <1>9, <1>11, <2>1 DEF Within
  <2> QED
    BY <1>1, <1>3, <1>12, <2>1, <2>2 DEF SoundAt
<1>14. PhaseInv'
  <2> HIDE DEF new, n
  <2> QED
    BY <1>1, <1>2, <1>13, NewSound
<1> QED
  BY <1>1, <1>14 DEF RecallInv

\* New digits, or old ones of a new ciphertext.
LEMMA NewRecall ==
  ASSUME UNCHANGED parameters, NEW c, ct' = c, c # None, setting.use = "rotate",
         NEW digs, NEW h, NEW l \in 1 .. h, digits'.towers = h, digits'.elems = digs,
         c.elems[1].mod = BasisQ(l), Recalls(digs, h, l, c.elems[2])
  PROVE  RecallInv'
<1> DEFINE x == c.elems[2]
<1>1. BasisQ(l)' = BasisQ(l) /\ setting' = setting
  BY SafeFrame DEF parameters
<1>2. Recalls(digs, h, l, x)' <=> Recalls(digs, h, l, x)
  BY SafeFrame
<1> QED
  BY <1>1, <1>2 DEF RecallInv

\* Rotation and re-encryption, with digits made on the spot.
LEMMA InPlaceSound ==
  ASSUME SafeInv, KeySwitchInPlace
  PROVE  PhaseInv' /\ RecallInv'
<1> DEFINE l == Level
           x == ct.elems[2]
           digs == EvalKeySwitchPrecomputeCore(x)
<1>1. Switchable(l) /\ Switched(KeySwitchCore(x, evalKey), l) /\ ct # None
  BY DEF KeySwitchInPlace, Switchable
<1>2. /\ l \in 1 .. SizeQ /\ Params /\ SpecialOK /\ 2 \in DOMAIN ct.elems
  BY <1>1, LevelOf, CiphertextFacts
<1>3. Reduced(x, l) /\ Size(x) = l
  BY <1>1, <1>2, ElementReduced
<1>4. KeySwitchCore(x, evalKey) = EvalFastKeySwitchCore(digs, evalKey, l)
  BY <1>3 DEF KeySwitchCore
<1> HIDE DEF l, x, digs
<1>5. PICK f : Digits(digs, l, f) /\ Recomposes(l, l, x, f)
  BY <1>2, <1>3, DigitsMade DEF digs
<1>6. l \in 1 .. l
  BY <1>2, LevelBasis
<1>7. /\ Switchable(l) /\ Level \in 1 .. l /\ (Hybrid => Level = l)
      /\ Recomposes(l, Level, ct.elems[2], f)
      /\ Switched(EvalFastKeySwitchCore(digs, evalKey, Level), l)
  BY <1>1, <1>4, <1>5, <1>6 DEF l, x
<1> QED
  BY <1>2, <1>5, <1>7, SwitchedSound

\* Digits made beforehand are those of the ciphertext.
LEMMA PrecomputeSound ==
  ASSUME SafeInv, EvalFastRotationPrecompute
  PROVE  PhaseInv' /\ RecallInv'
<1> DEFINE l == Level
           x == ct.elems[2]
           digs == EvalKeySwitchPrecomputeCore(x)
<1>1. /\ UNCHANGED parameters /\ UNCHANGED <<ct, scale, msg, noise>> /\ ct' = ct /\ ct # None /\ setting.use = "rotate"
      /\ digits' = [towers |-> l, elems |-> digs]
  BY DEF EvalFastRotationPrecompute
<1>2. /\ l \in 1 .. SizeQ /\ Params /\ SpecialOK /\ 1 \in DOMAIN ct.elems /\ 2 \in DOMAIN ct.elems
  BY <1>1, LevelOf, CiphertextFacts
<1>3. Reduced(x, l) /\ ct.elems[1].mod = BasisQ(l)
  BY <1>1, <1>2, ElementReduced DEF Reduced
<1>4. l \in 1 .. l
  BY <1>2, LevelBasis
<1>5. Recalls(digs, l, l, x)
  <2> HIDE DEF l, x, digs
  <2>1. \E f : Digits(digs, l, f) /\ Recomposes(l, l, x, f)
    BY <1>2, <1>3, DigitsMade DEF digs
  <2>2. Hybrid => \A n \in 0 .. (NumDigits(l) - 1) : Copies(digs[n], n, l, x)
    BY <1>2, <1>3, DigitsMade DEF digs
  <2> QED
    BY <2>1, <2>2 DEF Recalls, Copies
<1>6. PhaseInv'
  BY <1>1, SafeFrame DEF SafeInv
<1>7. RecallInv'
  <2> DEFINE c == ct
  <2>1. ct' = c /\ c # None /\ c.elems[1].mod = BasisQ(l) /\ c.elems[2] = x
    BY <1>1, <1>3
  <2> HIDE DEF l, x, digs, c
  <2> QED
    BY <1>1, <1>4, <1>5, <2>1, NewRecall
<1> QED
  BY <1>6, <1>7

\* Rotation with digits made beforehand, of towers some of which may be gone.
LEMMA FastRotationSound ==
  ASSUME SafeInv, EvalFastRotation
  PROVE  PhaseInv' /\ RecallInv'
<1>1. /\ digits # None /\ Switchable(digits.towers) /\ (Hybrid => digits.towers = Level) /\ ct # None
      /\ Switched(EvalFastKeySwitchCore(digits.elems, evalKey, Level), digits.towers)
  BY DEF EvalFastRotation, Switchable
<1>2. PICK l \in 1 .. digits.towers :
        ct.elems[1].mod = BasisQ(l) /\ Recalls(digits.elems, digits.towers, l, ct.elems[2])
  BY <1>1 DEF SafeInv, RecallInv
<1>3. digits.towers \in 1 .. SizeQ /\ Params
  BY <1>1 DEF SafeInv, TypeInv, Inv, DigitInv
<1> DEFINE h == digits.towers
           digs == digits.elems
<1>4. l \in 1 .. SizeQ
  <2>1. SizeQ \in Nat
    BY <1>3, Sizes
  <2> HIDE DEF h
  <2> QED
    BY <1>3, <2>1 DEF h
<1>5. l = Level
  BY <1>1, <1>2, <1>4, LevelOf
<1>6. PICK f : Digits(digs, h, f) /\ Recomposes(h, l, ct.elems[2], f)
  BY <1>2 DEF Recalls
<1>7. /\ h \in 1 .. SizeQ /\ Switchable(h) /\ Level \in 1 .. h /\ (Hybrid => Level = h)
      /\ Recomposes(h, Level, ct.elems[2], f)
      /\ Switched(EvalFastKeySwitchCore(digs, evalKey, Level), h)
  BY <1>1, <1>3, <1>5, <1>6
<1> HIDE DEF h, digs
<1> QED
  BY <1>6, <1>7, SwitchedSound

\* Dropping a tower keeps the message, and digits made before still are those
\* of the towers that are left.
LEMMA LevelReduceSound ==
  ASSUME SafeInv, LevelReduce
  PROVE  PhaseInv' /\ RecallInv'
<1> DEFINE l == Level
           k == l - 1
           c == ct.elems
           e == [i \in DOMAIN c |-> DropLastElements(c[i], 1)]
           s == SecretOf(ct)
           new == [key |-> ct.key, elems |-> e]
<1>1. /\ UNCHANGED parameters /\ digits' = digits /\ ct # None /\ l > 1
      /\ noise <= Budget(k) /\ noise' = noise /\ msg' = msg /\ scale' = scale
  BY DEF LevelReduce
<1>2. /\ l \in 1 .. SizeQ /\ ct = [key |-> ct.key, elems |-> c]
      /\ \A g \in 1 .. SizeQ : c[1].mod = BasisQ(g) => g = l
  BY <1>1, LevelOf
<1>3. /\ Params /\ s \in Int /\ Readable(msg) /\ SizeQ \in Nat
      /\ (3 \in DOMAIN c => setting.use = "mult") /\ (setting.use = "mult" => ct.key = "s")
      /\ 1 \in DOMAIN c /\ 2 \in DOMAIN c
  <2>1. /\ Params /\ s \in Int /\ Readable(msg)
        /\ (3 \in DOMAIN c => setting.use = "mult") /\ (setting.use = "mult" => ct.key = "s")
        /\ DOMAIN c \in {1 .. 2, 1 .. 3}
    BY <1>1, CiphertextFacts
  <2>2. SizeQ \in Nat
    BY <2>1, Sizes
  <2> QED
    BY <2>1, <2>2
<1>4. PICK z \in Int : Abs(z) <= noise /\ Same(z, msg * scale, T) /\ Carries(c, l, s, z)
  BY <1>1, CiphertextFacts
<1>5. ct' = new
  <2>1. ct' = [ct EXCEPT !.elems = e]
    BY <1>2 DEF LevelReduce
  <2> HIDE DEF e
  <2> QED
    BY <1>2, <2>1
<1> HIDE DEF l, c, s
<1>6. /\ Carries(e, k, s, z)
      /\ \A j \in DOMAIN c : \A i \in 0 .. (k - 1) : e[j].val[i] = c[j].val[i]
  <2> HIDE DEF e
  <2> QED
    BY <1>1, <1>2, <1>3, <1>4, DropCarries DEF e
<1>7. k \in 1 .. SizeQ /\ k \in Nat /\ l \in Nat
  BY <1>1, <1>2, <1>3
<1>8. DOMAIN e = DOMAIN c
  OBVIOUS
<1> HIDE DEF e
<1>9. SoundAt(new, k, msg, scale, noise)
  <2>1. new.elems = e /\ new.key = ct.key /\ SecretOf(new) = s
    BY DEF SecretOf, s
  <2> HIDE DEF new
  <2>2. Within(new, k, msg * scale, noise)
    BY <1>4, <1>6, <2>1 DEF Within
  <2> QED
    BY <1>1, <1>3, <1>8, <2>1, <2>2 DEF SoundAt
<1>10. PhaseInv'
  <2> HIDE DEF new, k
  <2> QED
    BY <1>1, <1>5, <1>7, <1>9, NewSound
<1>11. ASSUME digits # None PROVE RecallInv'
  <2> DEFINE h == digits.towers
             digs == digits.elems
  <2>1. PICK g \in 1 .. h : c[1].mod = BasisQ(g) /\ Recalls(digs, h, g, c[2])
    BY <1>11 DEF SafeInv, RecallInv, c
  <2>2. setting.use = "rotate" /\ h \in 1 .. SizeQ
    BY <1>11 DEF SafeInv, RecallInv, TypeInv, Inv, DigitInv
  <2>3. digits'.towers = h /\ digits'.elems = digs /\ digits' # None
    BY <1>1, <1>11
  <2>10. /\ \A j \in DOMAIN c : c[j].mod = BasisQ(l) /\ \A i \in 0 .. (l - 1) : c[j].val[i] \in 0 .. (Q(i) - 1)
        /\ DOMAIN c \in {1 .. 2, 1 .. 3}
    BY <1>4 DEF Carries, Elements
  <2> HIDE DEF h, digs
  <2>4. g = l
    BY <1>2, <1>3, <2>1, <2>2
  <2>5. k \in 1 .. h
    BY <1>7, <2>2, <2>1, <2>4
  <2>6. \A i \in 0 .. (k - 1) : i \in 0 .. (l - 1) /\ e[2].val[i] = c[2].val[i]
    BY <1>3, <1>6, <1>7
  <2>7. Recalls(digs, h, k, e[2])
    <3>1. PICK f : Digits(digs, h, f) /\ Recomposes(h, l, c[2], f)
      BY <2>1, <2>4 DEF Recalls
    <3>2. Recomposes(h, k, e[2], f)
      BY <2>6, <3>1 DEF Recomposes
    <3>3. ASSUME Hybrid, NEW n \in 0 .. (NumDigits(h) - 1), NEW i \in Own(n, h), i < k
          PROVE  digs[n].val[i] = e[2].val[i]
      <4>1. i \in Nat
        <5>1. h \in 1 .. SizeQ /\ n \in 0 .. (NumParts(h) - 1)
          BY <2>2, <3>3 DEF NumDigits
        <5>2. Alpha * n \in Nat
          BY <1>3, <3>3, <5>1, PartsOfTowers
        <5>3. SizePart(h, n) \in Nat
          BY <1>3, <3>3, <5>1, PartsOfTowers
        <5>4. i \in (Alpha * n) .. (Alpha * n + SizePart(h, n) - 1)
          BY <3>3 DEF Own
        <5> QED
          BY <5>2, <5>3, <5>4
      <4>2. i < l /\ i \in 0 .. (k - 1)
        BY <1>7, <3>3, <4>1
      <4>3. digs[n].val[i] = c[2].val[i]
        BY <2>1, <2>4, <3>3, <4>2 DEF Recalls
      <4> QED
        BY <2>6, <4>2, <4>3
    <3> QED
      BY <3>1, <3>2, <3>3 DEF Recalls
  <2>8. e[1].mod = BasisQ(k) /\ new.elems = e
    BY <1>3, <1>6, <1>8 DEF Carries, Elements
  <2>9. new # None
    <3> DEFINE element == [mod : [0 .. (k - 1) -> Nat], val : [0 .. (k - 1) -> Nat]]
    <3>1. \A i \in 0 .. (k - 1) : i \in 0 .. (l - 1) /\ Q(i) \in Nat
      BY <1>2, <1>3, <1>7, LevelBasis
    <3>2. \A j \in DOMAIN e : e[j] \in element
      <4> TAKE j \in DOMAIN e
      <4> DEFINE x == c[j]
      <4>1. x.mod = BasisQ(l) /\ \A i \in 0 .. (k - 1) : x.val[i] \in Nat
        <5>1. j \in DOMAIN c
          BY <1>8
        <5>2. ASSUME NEW i \in 0 .. (k - 1) PROVE x.val[i] \in Nat
          <6>1. x.val[i] \in 0 .. (Q(i) - 1) /\ Q(i) \in Nat
            BY <2>10, <3>1, <5>1
          <6> QED
            BY <6>1
        <5> QED
          BY <2>10, <5>1, <5>2
      <4>2. e[j] = DropLastElements(x, 1)
        BY <1>8 DEF e
      <4> HIDE DEF x
      <4>3. DropLastElements(x, 1) = [mod |-> [i \in 0 .. (k - 1) |-> x.mod[i]],
                                      val |-> [i \in 0 .. (k - 1) |-> x.val[i]]]
        <5>1. Size(x) = l
          <6>1. DOMAIN BasisQ(l) = 0 .. (l - 1)
            BY DEF BasisQ
          <6> QED
            BY <1>7, <4>1, <6>1, SizeOfInterval DEF Size
        <5> QED
          BY <5>1 DEF DropLastElements, First
      <4>4. \A i \in 0 .. (k - 1) : x.mod[i] \in Nat
        BY <3>1, <4>1 DEF BasisQ
      <4> QED
        BY <4>1, <4>2, <4>3, <4>4
    <3>3. PICK n \in {2, 3} : DOMAIN e = 1 .. n
      BY <1>8, <2>10
    <3>4. e = [j \in DOMAIN e |-> e[j]]
      BY DEF e
    <3> HIDE DEF element
    <3>5. e \in [1 .. n -> element]
      BY <3>2, <3>3, <3>4
    <3>6. ct.key \in {"s", "z"}
      BY <1>1 DEF SafeInv, TypeInv, Shape
    <3>7. k \in 1 .. Len(setting.q) /\ setting \in Settings
      BY <1>3, <1>7 DEF SizeQ, Params
    <3>8. new \in [key : {"s", "z"}, elems : [1 .. n -> element]]
      BY <3>5, <3>6
    <3>9. None \notin [key : {"s", "z"}, elems : [1 .. n -> element]]
      BY <3>7, NoneAssumption DEF element
    <3> QED
      BY <3>8, <3>9
  <2> HIDE DEF new, k
  <2> QED
    BY <1>1, <1>5, <2>2, <2>3, <2>5, <2>7, <2>8, <2>9, NewRecall
<1>12. RecallInv'
  BY <1>1, <1>11 DEF RecallInv
<1> QED
  BY <1>10, <1>12

\* A reduction keeps the message, and leaves the noise it is said to leave.
LEMMA ModReduceSound ==
  ASSUME SafeInv, ModReduceInPlace
  PROVE  PhaseInv' /\ RecallInv'
<1> DEFINE l == Level
           k == l - 1
           c == ct.elems
           e == [i \in DOMAIN c |-> ModReduce(c[i], T)]
           s == SecretOf(ct)
           q == Q(l - 1)
           half == q \div 2
           n == Rescaled
           new == [key |-> ct.key, elems |-> e]
<1>1. /\ UNCHANGED parameters /\ digits' = None /\ ct # None /\ l > 1
      /\ n <= Budget(k) /\ noise' = n /\ msg' = msg /\ scale' = ReducedFactor(scale, l - 1)
  BY DEF ModReduceInPlace
<1>2. /\ l \in 1 .. SizeQ /\ ct = [key |-> ct.key, elems |-> c]
      /\ Len(c) = IF 3 \in DOMAIN c THEN 3 ELSE 2
  BY <1>1, LevelOf
<1>3. /\ Params /\ SpecialOK /\ s \in Int /\ Readable(msg) /\ noise \in Nat /\ T \in Nat /\ T > 0
      /\ (3 \in DOMAIN c => setting.use = "mult") /\ (setting.use = "mult" => ct.key = "s")
      /\ msg \in Int /\ scale \in Int /\ scale \in 1 .. (T - 1) /\ Unit(scale, T)
  BY <1>1, CiphertextFacts
<1>4. PICK z \in Int : Abs(z) <= noise /\ Same(z, msg * scale, T) /\ Carries(c, l, s, z)
  BY <1>1, CiphertextFacts
<1>5. ct' = new
  <2>1. ct' = [ct EXCEPT !.elems = e]
    BY <1>2 DEF ModReduceInPlace
  <2> HIDE DEF e
  <2> QED
    BY <1>2, <2>1
<1>6. n = (noise + T * half * WeightOf(c, s)) \div q
  <2>1. Weight(ct) = WeightOf(c, s)
    <3>1. Weight(ct) = 1 + Abs(s) + (IF Len(c) = 3 THEN s * s ELSE 0)
      BY DEF Weight
    <3>2. 3 \in DOMAIN c <=> Len(c) = 3
      BY <1>2
    <3> HIDE DEF c, s
    <3> QED
      BY <3>1, <3>2 DEF WeightOf
  <2> QED
    BY <2>1 DEF Rescaled
<1> HIDE DEF l, c, s, n
<1>7. l \in Nat /\ k \in 1 .. SizeQ /\ k \in 0 .. (l - 1) /\ q \in Nat /\ q > 0
  <2>1. l \in Nat /\ l <= SizeQ /\ SizeQ \in Nat
    BY <1>2, <1>3, LevelBasis
  <2>2. k \in 1 .. SizeQ /\ k \in 0 .. (l - 1)
    BY <1>1, <2>1
  <2>3. q \in Nat /\ q > 0
    BY <1>2, <1>3, <2>2, LevelBasis
  <2> QED
    BY <2>1, <2>2, <2>3
<1>8. PICK w \in Int : /\ Carries(e, k, s, w) /\ Same(q * w, z, T)
                       /\ q * Abs(w) <= Abs(z) + T * (half * WeightOf(c, s))
  <2> HIDE DEF e
  <2> QED
    BY <1>1, <1>2, <1>3, <1>4, ReduceCarries DEF e
<1>9. DOMAIN e = DOMAIN c
  OBVIOUS
<1>10. Abs(w) <= n
  <2> DEFINE wt == WeightOf(c, s)
             g == half * wt
             tg == T * g
             m == noise + tg
             a == Abs(w)
             qa == q * a
  <2>1. wt \in Nat
    <3>1. Abs(s) \in Nat
      BY <1>3, AbsFacts
    <3>2. s * s \in Nat
      BY <1>3, SMTT(30)
    <3> QED
      BY <3>1, <3>2 DEF WeightOf
  <2>2. half \in Nat
    <3>1. 2 \in Nat \ {0}
      OBVIOUS
    <3> HIDE DEF q
    <3> QED
      BY <1>7, <3>1, Division
  <2> HIDE DEF wt, half
  <2>3. g \in Nat /\ T * half * wt = T * g
    BY <1>3, <2>1, <2>2, ProductMonotone
  <2> HIDE DEF g
  <2>4. tg \in Nat
    BY <1>3, <2>3, ProductMonotone
  <2>5. a \in Nat /\ Abs(z) \in Nat /\ Abs(z) <= noise
    BY <1>4, AbsFacts
  <2>6. n = m \div q
    BY <1>6, <2>3 DEF wt
  <2>7. q * Abs(w) <= Abs(z) + T * g
    BY <1>8 DEF g, wt
  <2> HIDE DEF q
  <2>8. qa \in Nat
    <3> HIDE DEF a
    <3> QED
      BY <1>7, <2>5, ProductMonotone
  <2>9. qa <= m /\ m \in Nat
    <3>1. qa <= Abs(z) + tg
      BY <2>7
    <3> HIDE DEF qa, tg
    <3> QED
      BY <1>3, <2>4, <2>5, <2>8, <3>1
  <2>10. m \div q \in Nat /\ (m < q * a <=> m \div q < a)
    <3>1. q \in Nat \ {0}
      BY <1>7
    <3> HIDE DEF m, a
    <3> QED
      BY <2>5, <2>9, <3>1, Division, DivisionBound
  <2>11. ~(m < q * a)
    <3>1. qa <= m /\ qa \in Nat /\ m \in Nat
      BY <2>8, <2>9
    <3> HIDE DEF m, qa
    <3>2. ~(m < qa)
      BY <3>1
    <3> QED
      BY <3>2 DEF qa
  <2> HIDE DEF m, a
  <2> QED
    BY <2>5, <2>6, <2>10, <2>11 DEF a
<1> DEFINE g == ReducedFactor(scale, l - 1)
<1>11. Same(w, msg * g, T)
  <2>1. l - 1 \in 0 .. (SizeQ - 1)
    <3>1. SizeQ \in Nat
      BY <1>3, Sizes
    <3> HIDE DEF k, q
    <3> QED
      BY <1>1, <1>2, <1>7, <3>1
  <2>2. g \in 1 .. (T - 1) /\ Same(q * g, scale, T) /\ Unit(q, T)
    BY <1>3, <2>1, ReducedFactorIs, ModuliInverses
  <2>3. Same(q * w, z, T)
    BY <1>8
  <2> HIDE DEF g, q
  <2>4. g \in Int /\ msg * g \in Int
    BY <1>3, <2>2
  <2>5. Same(q * w, msg * scale, T)
    BY <1>3, <1>4, <2>3, SameTrans
  <2>6. Same(msg, msg, T)
    BY <1>3, SameSelf
  <2>7. Same(msg * (q * g), msg * scale, T)
    BY <1>3, <2>2, <2>6, SameArith
  <2>8. Same(msg * scale, msg * (q * g), T)
    BY <1>3, <2>7, SameRemainder
  <2>9. msg * (q * g) = q * (msg * g)
    BY <1>3, <1>7, <2>4 DEF q
  <2>10. Same(q * w, q * (msg * g), T)
    BY <1>3, <2>5, <2>8, <2>9, SameTrans
  <2> QED
    BY <1>3, <1>8, <2>2, <2>4, <2>10, UnitCancels
<1> HIDE DEF e, g
<1>12. SoundAt(new, k, msg, g, n)
  <2>1. new.elems = e /\ new.key = ct.key /\ SecretOf(new) = s
    BY DEF SecretOf, s
  <2> HIDE DEF new
  <2>2. Within(new, k, msg * g, n)
    BY <1>8, <1>10, <1>11, <2>1 DEF Within
  <2> QED
    BY <1>1, <1>3, <1>9, <2>1, <2>2 DEF SoundAt
<1>13. PhaseInv'
  <2> HIDE DEF new, k
  <2> QED
    BY <1>1, <1>5, <1>7, <1>12, NewSound DEF g
<1> QED
  BY <1>1, <1>13 DEF RecallInv

\* Every step keeps the invariant.
LEMMA StepKeepsSafe == SafeInv /\ [Next]_vars => SafeInv'
<1> SUFFICES ASSUME SafeInv, [Next]_vars PROVE SafeInv'
  OBVIOUS
<1>1. TypeInv'
  BY StepKeepsInv, StepKeepsKeys, StepKeepsTypes, StepKeepsScale DEF SafeInv, TypeInv
<1>2. UNCHANGED parameters
  BY DEF Next, EvalMultKeyGen, EvalAutomorphismKeyGen, ReKeyGen, MultiKeySwitchGen, MultiplyByShare,
         AddShares, AddProducts, Encrypt, EvalSquare, Relinearize, KeySwitchInPlace, Switched,
         EvalFastRotationPrecompute, EvalFastRotation, LevelReduce, ModReduceInPlace, vars
<1>3. SpecialOK'
  BY <1>2, SafeFrame DEF SafeInv
<1>4. PhaseInv' /\ RecallInv'
  <2>1. ASSUME \/ EvalMultKeyGen \/ EvalAutomorphismKeyGen \/ ReKeyGen
               \/ \E p \in {1, 2} : MultiKeySwitchGen(p) \/ MultiplyByShare(p)
               \/ AddShares \/ AddProducts \/ UNCHANGED vars
        PROVE  PhaseInv' /\ RecallInv'
    <3>1. ct' = ct /\ UNCHANGED <<ct, scale, msg, noise>> /\ digits' = digits
      BY <2>1 DEF EvalMultKeyGen, EvalAutomorphismKeyGen, ReKeyGen, MultiKeySwitchGen,
                  MultiplyByShare, AddShares, AddProducts, vars
    <3> QED
      BY <1>2, <3>1, SafeFrame DEF SafeInv
  <2> QED
    BY <2>1, EncryptSound, SquareSound, RelinearizeSound, InPlaceSound, PrecomputeSound,
       FastRotationSound, LevelReduceSound, ModReduceSound DEF Next
<1> QED
  BY <1>1, <1>3, <1>4 DEF SafeInv

\* It holds in the beginning.
LEMMA SafeStart == Init => SafeInv
<1> SUFFICES ASSUME Init PROVE SafeInv
  OBVIOUS
<1>1. TypeInv
  BY Start, KeysStart, ScaleStart DEF TypeInv, Init, Shape
<1>2. SpecialOK
  BY SpecialStart
<1>3. PhaseInv /\ RecallInv
  BY DEF Init, PhaseInv, RecallInv
<1> QED
  BY <1>1, <1>2, <1>3 DEF SafeInv

-----------------------------------------------------------------------------
(* What the invariant says of digits and ciphertexts *)

\* A digit is an integer made of the residues of its own towers.
DigitReads(d, n, l) ==
  LET own == Own(n, l)
      unit == IF Hybrid THEN Product([i \in own |-> Q(i)]) ELSE Q(TowerOf(n))
      rest == IF Hybrid
              THEN CRTInterpolate([mod |-> [i \in own |-> Q(i)], val |-> [i \in own |-> d.val[i]]])
              ELSE d.val[TowerOf(n)]
      most == MaxDigit(n, l) \div unit + 1
  IN  \E u \in (-most) .. most :
        /\ Abs(rest + u * unit) <= MaxDigit(n, l)
        /\ \A i \in DOMAIN d.mod : d.val[i] = (rest + u * unit) % d.mod[i]

\* The integer of a digit is found from its residues.
LEMMA IntegerFound ==
  ASSUME Params, SpecialOK, NEW l \in 1 .. SizeQ, NEW n \in 0 .. (NumDigits(l) - 1),
         NEW d, NEW x, IsDigit(d, n, l, x)
  PROVE  DigitReads(d, n, l)
<1> DEFINE own == Own(n, l)
           b == [i \in own |-> Q(i)]
           y == [mod |-> b, val |-> [i \in own |-> d.val[i]]]
           unit == IF Hybrid THEN Product(b) ELSE Q(TowerOf(n))
           rest == IF Hybrid THEN CRTInterpolate(y) ELSE d.val[TowerOf(n)]
           high == MaxDigit(n, l)
           most == high \div unit + 1
<1>0. /\ l \in Nat /\ SizeP \in Nat
      /\ \A i \in 0 .. (l - 1) : /\ i \in 0 .. (SizeQ - 1) /\ Q(i) \in Nat /\ Q(i) > 1 /\ Q(i) > 0
                                 /\ i \in 0 .. (l + SizeP - 1) /\ i < l
  <2>1. l \in Nat /\ \A i \in 0 .. (l - 1) : i \in 0 .. (SizeQ - 1) /\ Q(i) \in Nat /\ Q(i) > 1 /\ Q(i) > 0
    BY LevelBasis
  <2>2. SizeP \in Nat
    BY DEF Params
  <2>3. \A i \in 0 .. (l - 1) : i \in 0 .. (l + SizeP - 1) /\ i < l
    BY <2>1, <2>2
  <2> QED
    BY <2>1, <2>2, <2>3
<1>1. high \in Nat
  BY SpecialPrimesPositive, MaxDigitNat
<1>2. /\ x \in Int /\ Abs(x) <= high
      /\ DOMAIN d.mod = 0 .. (l + SizeP - 1)
      /\ \A i \in DOMAIN d.mod : d.mod[i] = KeyBasis[KeyTower(i, l)] /\ d.val[i] = x % d.mod[i]
  BY DEF IsDigit, Matches
<1> HIDE DEF high
<1>3. ASSUME NEW i \in 0 .. (l - 1)
      PROVE  d.val[i] \in 0 .. (Q(i) - 1) /\ Same(x, d.val[i], Q(i))
  <2> DEFINE q == Q(i)
  <2>1. d.val[i] = x % q /\ q \in Nat /\ q > 0
    <3>1. KeyBasis[KeyTower(i, l)] = q
      BY <1>0, TowersMeet
    <3> QED
      BY <1>0, <1>2, <3>1
  <2> HIDE DEF q
  <2>2. Same(x, x, q)
    BY <1>2, <2>1, SameSelf
  <2>3. Same(x % q, x, q)
    BY <2>1, <2>2, SameRemainder
  <2>4. Same(x, x % q, q) /\ x % q \in 0 .. (q - 1)
    BY <1>2, <2>1, <2>3, SameRemainder, ModRange
  <2> QED
    BY <2>1, <2>4 DEF q
<1>4. unit \in Nat /\ unit > 0 /\ rest \in Int /\ Abs(rest) <= unit - 1 /\ Same(x, rest, unit)
  <2>1. CASE Hybrid
    <3>1. own \subseteq 0 .. (l - 1) /\ IsFiniteSet(own)
      <4>1. n \in 0 .. (NumParts(l) - 1)
        BY <2>1 DEF NumDigits
      <4>2. Alpha * n \in Nat /\ SizePart(l, n) \in Nat /\ Alpha * n + SizePart(l, n) <= l
        BY <2>1, <4>1, PartsOfTowers
      <4> DEFINE a == Alpha * n
                 k == SizePart(l, n)
      <4>3. own = a .. (a + k - 1) /\ a \in Nat /\ k \in Nat /\ a + k <= l
        BY <2>1, <4>2 DEF Own
      <4> HIDE DEF a, k, own
      <4>4. own \subseteq 0 .. (l - 1)
        BY <1>0, <4>3
      <4>5. a \in Int /\ a + k - 1 \in Int
        BY <4>3
      <4> QED
        BY <4>3, <4>4, <4>5, FS_Interval
    <3>2. DOMAIN b = own /\ \A i \in own : b[i] = Q(i) /\ i \in 0 .. (l - 1)
      BY <3>1
    <3>3. Good(b)
      <4>1. \A i, j \in 0 .. (SizeQ - 1) : i # j => Unit(Q(i), Q(j))
        BY ModuliUnits
      <4> HIDE DEF b, own
      <4> QED
        BY <1>0, <3>1, <3>2, <4>1 DEF Good
    <3>4. y.mod = b /\ \A i \in own : y.val[i] = d.val[i]
      OBVIOUS
    <3>5. \A i \in DOMAIN y.mod : y.val[i] \in Int
      <4> TAKE i \in DOMAIN y.mod
      <4>1. i \in own /\ i \in 0 .. (l - 1)
        BY <3>2, <3>4
      <4>2. d.val[i] \in 0 .. (Q(i) - 1) /\ Q(i) \in Nat
        BY <1>0, <1>3, <4>1
      <4> QED
        BY <3>4, <4>1, <4>2
    <3> HIDE DEF y
    <3>6. /\ CRTInterpolate(y) \in Int /\ Product(b) \in Positive
          /\ \A i \in own : Same(CRTInterpolate(y), d.val[i], Q(i))
          /\ 2 * Abs(CRTInterpolate(y)) <= Product(b)
      <4> HIDE DEF b, own
      <4>1. /\ CRTInterpolate(y) \in Int /\ Product(y.mod) \in Positive
            /\ \A i \in DOMAIN y.mod : Same(CRTInterpolate(y), y.val[i], y.mod[i])
            /\ 2 * Abs(CRTInterpolate(y)) <= Product(y.mod)
        BY <3>3, <3>4, <3>5, InterpolateFacts
      <4> QED
        BY <3>2, <3>4, <4>1
    <3> DEFINE r == CRTInterpolate(y)
               p == Product(b)
    <3>7. \A i \in DOMAIN b : Same(x, r, b[i])
      <4> TAKE i \in DOMAIN b
      <4> DEFINE m == Q(i)
                 v == d.val[i]
      <4>1. i \in own /\ i \in 0 .. (l - 1) /\ b[i] = m
        BY <3>2
      <4>2. m \in Nat /\ m > 0 /\ Same(x, v, m) /\ Same(r, v, m)
        BY <1>0, <1>3, <3>6, <4>1
      <4> HIDE DEF m, v, r
      <4>3. Same(v, r, m)
        BY <4>2, SameRemainder
      <4>4. Same(x, r, m)
        BY <4>2, <4>3, SameTrans
      <4> QED
        BY <4>1, <4>4
    <3>8. r \in Int /\ p \in Positive /\ 2 * Abs(r) <= p
      BY <3>6
    <3>9. Same(x, r, p)
      <4> HIDE DEF b, r
      <4> QED
        BY <1>2, <3>3, <3>7, <3>8, ProductSame
    <3>10. Abs(r) <= p - 1 /\ p \in Nat /\ p > 0
      <4>1. p \in Nat /\ p > 0
        BY <3>8 DEF Positive
      <4>2. Abs(r) \in Nat
        <5> HIDE DEF r
        <5> QED
          BY <3>8, AbsFacts
      <4> HIDE DEF r, p
      <4> QED
        BY <3>8, <4>1, <4>2
    <3>11. unit = p /\ rest = r
      BY <2>1
    <3> HIDE DEF unit, rest, p, r
    <3> QED
      BY <3>8, <3>9, <3>10, <3>11
  <2>2. CASE ~Hybrid
    <3> DEFINE t == TowerOf(n)
    <3>1. t \in 0 .. (l - 1)
      <4>1. n \in 0 .. (FirstWindow(l) - 1)
        BY <2>2 DEF NumDigits
      <4> QED
        BY <2>2, <4>1, TowerWithin
    <3> DEFINE q == Q(t)
               v == d.val[t]
    <3> HIDE DEF t
    <3>2. q \in Nat /\ q > 0 /\ v \in 0 .. (q - 1) /\ Same(x, v, q)
      BY <1>0, <1>3, <3>1
    <3> HIDE DEF q, v
    <3>3. v \in Int /\ Abs(v) <= q - 1
      BY <3>2 DEF Abs
    <3>4. unit = q /\ rest = v
      BY <2>2 DEF q, v, t
    <3> HIDE DEF unit, rest
    <3> QED
      BY <3>2, <3>3, <3>4
  <2> QED
    BY <2>1, <2>2
<1> HIDE DEF unit, rest
<1>5. PICK u \in (-most) .. most : rest + u * unit = x
  <2> DEFINE k == high \div unit + 1
  <2>1. \E u \in (-k) .. k : rest + u * unit = x
    BY <1>1, <1>2, <1>4, MultipleFound
  <2> QED
    BY <2>1
<1>6. /\ Abs(rest + u * unit) <= high
      /\ \A i \in DOMAIN d.mod : d.val[i] = (rest + u * unit) % d.mod[i]
  BY <1>2, <1>5
<1>7. \E g \in (-most) .. most :
        /\ Abs(rest + g * unit) <= high
        /\ \A i \in DOMAIN d.mod : d.val[i] = (rest + g * unit) % d.mod[i]
  BY <1>6
<1> QED
  BY <1>7 DEF DigitReads, unit, rest, high

\* What the invariant says of digits.
LEMMA DigitsFollow == SafeInv => DigitsAreIntegers
<1> SUFFICES ASSUME SafeInv, digits # None PROVE DigitsAreIntegers
  BY DEF DigitsAreIntegers
<1> DEFINE h == digits.towers
           digs == digits.elems
           x == ct.elems[2]
<1>1. /\ Params /\ SpecialOK /\ h \in 1 .. SizeQ /\ ct # None
  BY DEF SafeInv, TypeInv, Inv, DigitInv, RecallInv
<1>2. PICK l \in 1 .. h : ct.elems[1].mod = BasisQ(l) /\ Recalls(digs, h, l, x)
  BY DEF SafeInv, RecallInv
<1>3. l = Level
  <2>1. l \in 1 .. SizeQ
    <3>1. SizeQ \in Nat
      BY <1>1, Sizes
    <3> HIDE DEF h
    <3> QED
      BY <1>1, <1>2, <3>1
  <2> QED
    BY <1>1, <1>2, <2>1, LevelOf
<1>4. PICK f : Digits(digs, h, f)
  BY <1>2 DEF Recalls
<1>5. ASSUME NEW n \in DOMAIN digs
      PROVE  /\ DigitReads(digs[n], n, h)
             /\ Hybrid => \A i \in Own(n, h) : i < Level => digs[n].val[i] = x.val[i]
  <2>1. n \in 0 .. (NumDigits(h) - 1)
    BY <1>4 DEF Digits
  <2>2. IsDigit(digs[n], n, h, f[n])
    BY <1>4, <2>1 DEF Digits
  <2>3. DigitReads(digs[n], n, h)
    <3> HIDE DEF h, digs
    <3> QED
      BY <1>1, <2>1, <2>2, IntegerFound
  <2>4. Hybrid => \A i \in Own(n, h) : i < Level => digs[n].val[i] = x.val[i]
    BY <1>2, <1>3, <2>1 DEF Recalls
  <2> QED
    BY <2>3, <2>4
<1> QED
  BY <1>5 DEF DigitsAreIntegers, DigitReads

-----------------------------------------------------------------------------
(* What the invariant says of a decryption *)

\* The phase of a ciphertext is the integer it carries.
LEMMA NoiseFollows == SafeInv => NoiseBounded
<1> SUFFICES ASSUME SafeInv, ct # None
             PROVE  /\ (CRTInterpolate(DecryptCore(ct)) - msg * scale) % T = 0
                    /\ Abs(CRTInterpolate(DecryptCore(ct))) <= noise
  BY DEF NoiseBounded
<1> DEFINE l == Level
           x == DecryptCore(ct)
           p == Product(BasisQ(l))
<1>1. /\ Params /\ SpecialOK /\ SecretOf(ct) \in Int /\ noise \in Nat /\ T \in Nat /\ T > 0
      /\ msg * scale \in Int /\ noise <= Budget(l)
  BY CiphertextFacts
<1>2. PICK z \in Int : Abs(z) <= noise /\ Same(z, msg * scale, T) /\ Carries(ct.elems, l, SecretOf(ct), z)
  BY CiphertextFacts
<1>3. l \in 1 .. SizeQ /\ Len(ct.elems) = IF 3 \in DOMAIN ct.elems THEN 3 ELSE 2
  BY LevelOf
<1> HIDE DEF l
<1>4. /\ x.mod = BasisQ(l)
      /\ \A i \in 0 .. (l - 1) : Same(x.val[i], z, Q(i))
  BY <1>1, <1>2, <1>3, DecryptCoreIs
<1> HIDE DEF x
<1>5. Good(x.mod)
  BY <1>1, <1>3, <1>4, LevelGood
<1>6. \A i \in DOMAIN x.mod : Same(x.val[i], z, x.mod[i])
  BY <1>1, <1>3, <1>4, LevelBasis
<1>7. 2 * Abs(z) < p
  <2> DEFINE a == Abs(z)
             b == Budget(l)
  <2>1. b \in Nat /\ 2 * b < p
    BY <1>1, <1>3, BudgetFacts
  <2>2. a \in Nat
    BY AbsFacts
  <2>3. a <= noise /\ noise <= b
    BY <1>1, <1>2
  <2>4. p \in Nat
    <3>1. Rest(l) \in Nat /\ Q(0) \in Nat /\ p = Q(0) * Rest(l)
      BY <1>1, <1>3, RestFacts, LeewayFits
    <3> HIDE DEF p
    <3> QED
      BY <3>1
  <2> HIDE DEF a, b, p
  <2>5. 2 * a < p
    BY <1>1, <2>1, <2>2, <2>3, <2>4
  <2> QED
    BY <2>5 DEF a
<1>8. CRTInterpolate(x) = z
  <2>1. 2 * Abs(z) < Product(x.mod)
    BY <1>4, <1>7
  <2> QED
    BY <1>5, <1>6, <2>1, Interpolates
<1>9. (z - msg * scale) % T = 0
  <2>1. PICK k \in Int : z = msg * scale + T * k
    BY <1>2 DEF Same
  <2> DEFINE g == T * k
             u == msg * scale
  <2>2. g \in Int /\ g + 0 = g
    BY <1>1
  <2>3. (T * k + 0) % T = 0
    BY <1>1, ModUnique
  <2>4. g % T = 0
    BY <2>2, <2>3
  <2>5. z - u = g
    <3>1. z = u + g /\ u \in Int
      BY <1>1, <2>1
    <3> HIDE DEF g, u
    <3> QED
      BY <2>2, <3>1
  <2> QED
    BY <2>4, <2>5
<1> QED
  BY <1>2, <1>8, <1>9 DEF x

\* The integer is within what a decryption can read.
LEMMA DecryptionFollows == SafeInv => DecryptsRight
<1> SUFFICES ASSUME SafeInv, ct # None PROVE Decrypt(ct, scale) = msg
  BY DEF DecryptsRight
<1> DEFINE l == Level
<1>1. /\ Params /\ SpecialOK /\ SecretOf(ct) \in Int /\ noise \in Nat
      /\ Readable(msg) /\ noise <= Budget(l) /\ scale \in 1 .. (T - 1) /\ Unit(scale, T)
  BY CiphertextFacts
<1>2. PICK z \in Int : Abs(z) <= noise /\ Same(z, msg * scale, T) /\ Carries(ct.elems, l, SecretOf(ct), z)
  BY CiphertextFacts
<1>3. l \in 1 .. SizeQ /\ Len(ct.elems) = IF 3 \in DOMAIN ct.elems THEN 3 ELSE 2
  BY LevelOf
<1> HIDE DEF l
<1>4. PICK r \in 0 .. (T - 1) : msg = Centered(r, T)
  BY <1>1 DEF Readable
<1>5. 2 * Abs(z) <= Leeway * Rest(l)
  <2> DEFINE a == Abs(z)
             b == Budget(l)
             g == Leeway * Rest(l)
  <2>1. b \in Nat /\ 2 * b <= g
    BY <1>1, <1>3, BudgetFacts
  <2>2. a \in Nat
    BY AbsFacts
  <2>3. a <= noise /\ noise <= b
    BY <1>1, <1>2
  <2>4. g \in Int
    <3>1. Rest(l) \in Nat /\ Leeway \in Nat
      BY <1>1, <1>3, RestFacts, LeewayFits
    <3> QED
      BY <3>1
  <2> HIDE DEF a, b, g
  <2>5. 2 * a <= g
    BY <1>1, <2>1, <2>2, <2>3, <2>4
  <2> QED
    BY <2>5 DEF a, g
<1>6. Same(z, Centered(r, T) * scale, T)
  BY <1>2, <1>4
<1> QED
  BY <1>1, <1>2, <1>3, <1>4, <1>5, <1>6, DecryptsTo

-----------------------------------------------------------------------------
(* The safety of switching *)

\* A digit is an integer within its bound, its own towers and those the base
\* change made agree on it, and they still do after towers are dropped:
\* EvalKeySwitchPrecomputeCore of both key switchings.
THEOREM DigitsAlwaysIntegers == Spec => []DigitsAreIntegers
<1> QED BY SafeStart, StepKeepsSafe, DigitsFollow, PTL DEF Spec

\* Through encryption, squaring, every key switching and every rescaling the
\* integer a ciphertext carries is its message times its scaling factor,
\* modulo t, and within the bound on its noise, for every scaling technique.
THEOREM NoiseAlwaysBounded == Spec => []NoiseBounded
<1> QED BY SafeStart, StepKeepsSafe, NoiseFollows, PTL DEF Spec

\* A ciphertext decrypts to its message whatever keys it went through, however
\* many towers it has left and whatever factor the reductions left it.
THEOREM AlwaysDecryptsRight == Spec => []DecryptsRight
<1> QED BY SafeStart, StepKeepsSafe, DecryptionFollows, PTL DEF Spec
=============================================================================
