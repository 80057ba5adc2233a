----------------------------- MODULE LeveledSHE -----------------------------
(****************************************************************************)
(* Levels, depths and scaling factors of BGV ciphertexts.                   *)
(*                                                                          *)
(* A BGV ciphertext decrypts modulo t to its message times a scaling        *)
(* factor.  Dropping the last modulus (ModReduce) divides both; operands    *)
(* that come from different levels are first brought to one level, depth    *)
(* and scaling factor, by tables computed with the parameters.  The library *)
(* does this inside every addition and multiplication, in four techniques,  *)
(* on copies of the operands or (the Mutable functions) on the operands.    *)
(*                                                                          *)
(* A ciphertext is its metadata and its phase, the residue modulo t that    *)
(* its elements decrypt to at its present modulus.  Noise, slots and key    *)
(* switching (which keeps the phase) are left out: ciphertexts are always   *)
(* relinearized.  A degree is a size_t, which wraps below zero: a negative  *)
(* one here stands for 2^64 more.                                           *)
(****************************************************************************)
EXTENDS Integers, FiniteSetsExt

CONSTANTS
  T,            \* plaintext modulus
  L,            \* number of moduli (sizeQ)
  QModT,        \* QModT[i]: the i-th modulus, modulo t
  Handles,      \* the ciphertext variables of a program
  Null,         \* an unset variable
  Messages,     \* the messages a program encrypts
  Techniques,   \* the scaling techniques explored
  MaxDeg        \* bound: how far degrees of FIXEDMANUAL go, up and below zero

ASSUME LevelAssumption ==
  /\ L \in Nat \ {0, 1}
  /\ T \in Nat \ {0, 1}
  /\ MaxDeg \in Nat
  /\ QModT \in [0 .. L - 1 -> 1 .. T - 1]
  /\ \A i \in 0 .. L - 1 : \E y \in 0 .. T - 1 : (QModT[i] * y) % T = 1   \* primes other than T's
  /\ Messages \subseteq 0 .. T - 1
  /\ Techniques \subseteq {"FIXEDMANUAL", "FIXEDAUTO", "FLEXIBLEAUTO", "FLEXIBLEAUTOEXT"}

Residues == 0 .. T - 1
Flexible == {"FLEXIBLEAUTO", "FLEXIBLEAUTOEXT"}

VARIABLES
  scalTech,     \* the scaling technique of the context
  ct,           \* the ciphertexts a program holds
  plain         \* the message each of them stands for
vars == <<scalTech, ct, plain>>

Automatic == scalTech # "FIXEDMANUAL"
Ext == IF scalTech = "FLEXIBLEAUTOEXT" THEN 1 ELSE 0

-----------------------------------------------------------------------------
(* Moduli and tables *)

\* NativeInteger::ModInverse(t).
ModInverse(x) == CHOOSE y \in Residues : (x * y) % T = 1

\* The i-th modulus modulo t.  Without FLEXIBLE techniques the moduli are
\* chosen congruent to 1.
ModReduceFactorInt(i) == IF scalTech \in Flexible THEN QModT[i] ELSE 1

\* The recurrence with the modulus after the one a level drops.
ScalingFactorsIntShifted ==
  [tech \in Flexible |->
     LET sf[k \in 0 .. L - 1] ==
           IF k = 0 THEN QModT[L - 1]
           ELSE (sf[k - 1] * sf[k - 1] * ModInverse(QModT[L - 1 - k])) % T
     IN  sf]

\* The scaling factor of a ciphertext of depth one at each level; the last
\* entry of FLEXIBLEAUTOEXT is never filled in.
ScalingFactorsInt ==
  [tech \in Flexible |->
     LET ext == IF tech = "FLEXIBLEAUTOEXT" THEN 1 ELSE 0
         sf[k \in 0 .. L - 1] ==
           IF k <= ext THEN QModT[L - 1 - k]
           ELSE IF k < L - ext
                THEN (sf[k - 1] * sf[k - 1] * ModInverse(QModT[L - k])) % T
                ELSE 0
     IN  sf]

\* ... and of one of depth two.
ScalingFactorsIntBig ==
  [tech \in Flexible |->
     [k \in 0 .. L - 2 |->
        IF k = 0 /\ tech = "FLEXIBLEAUTOEXT"
        THEN (ScalingFactorsInt[tech][0] * ScalingFactorsInt[tech][1]) % T
        ELSE (ScalingFactorsInt[tech][k] * ScalingFactorsInt[tech][k]) % T]]

GetScalingFactorInt(l) == IF scalTech \in Flexible THEN ScalingFactorsInt[scalTech][l] ELSE 1

GetScalingFactorIntBig(l) ==
  IF scalTech \in Flexible THEN ScalingFactorsIntBig[scalTech][l] ELSE 1

\* The product of the last n moduli of a ciphertext with that many towers.
LastModuli(towers, n) ==
  FoldSet(LAMBDA i, acc : (ModReduceFactorInt(i) * acc) % T, 1, (towers - n) .. (towers - 1))

-----------------------------------------------------------------------------
(* Ciphertexts.  "depth" is the multiplicative depth of the expression a     *)
(* ciphertext stands for (in FIXEDMANUAL, where it has no use, zero).        *)

Ciphertexts ==
  [towers : 1 .. L, level : 0 .. L - 1, deg : Int, sf : Residues, phase : Residues, depth : Nat]

\* MakePackedPlaintext at level 0, then Encrypt or MorphPlaintext.
Fresh(m, deg) ==
  LET d  == IF scalTech = "FLEXIBLEAUTOEXT" THEN 2
            ELSE IF scalTech = "FLEXIBLEAUTO" THEN deg ELSE 1
      sf == IF scalTech = "FLEXIBLEAUTOEXT" THEN GetScalingFactorIntBig(0)
            ELSE IF d = 2 THEN (GetScalingFactorInt(0) * GetScalingFactorInt(0)) % T
            ELSE GetScalingFactorInt(0)
  IN  [towers |-> L, level |-> 0, deg |-> d, sf |-> sf, phase |-> (m * sf) % T,
       depth |-> d - 1 - Ext]

\* The factor is not divided by the moduli that go.
ModReduceKeepsFactor(c, levels) ==
  [c EXCEPT !.towers = @ - levels, !.level = @ + levels, !.deg = @ - levels,
            !.phase = (@ * ModInverse(LastModuli(c.towers, levels))) % T]

\* ModReduceInternalInPlace, which throws unless c.towers > levels.
ModReduceInternal(c, levels) ==
  LET inv == ModInverse(LastModuli(c.towers, levels))
  IN  [c EXCEPT !.towers = @ - levels,
                !.level  = @ + levels,
                !.deg    = @ - levels,
                !.phase  = (@ * inv) % T,
                !.sf     = (@ * inv) % T]

\* The factor is divided as if the towers were reduced.
LevelReduceDividesFactor(c, levels) ==
  [c EXCEPT !.towers = @ - levels, !.level = @ + levels,
            !.sf = (@ * ModInverse(LastModuli(c.towers, levels))) % T]

\* LevelReduceInternalInPlace: the towers go, the phase stays.
LevelReduceInternal(c, levels) ==
  [c EXCEPT !.towers = @ - levels, !.level = @ + levels]

\* EvalMultCoreInPlace by a constant.
EvalMultConst(c, k) ==
  [c EXCEPT !.deg   = @ + 1,
            !.phase = (@ * k) % T,
            !.sf    = IF scalTech \in Flexible THEN (@ * k) % T ELSE @]

-----------------------------------------------------------------------------
(* Bringing two operands together *)

\* SetScalingFactorInt to the other operand's.
Adopt(c, other) == [c EXCEPT !.sf = other.sf]

\* Multiplied by a constant and reduced.
Scaled(c, k) == ModReduceInternal(EvalMultConst(c, k % T), 1)

\* The operand of the lower level, brought to the level of the other.
Lower(c, other) ==
  LET gap  == other.level - c.level
      last == ModReduceFactorInt(c.towers - 1)
      inv  == ModInverse(c.sf)
      big  == GetScalingFactorIntBig(other.level - 1)
  IN  CASE c.deg = 2 /\ other.deg = 2 ->
             Adopt(LevelReduceInternal(Scaled(c, other.sf * inv * last), gap - 1), other)
        [] c.deg = 2 /\ other.deg # 2 /\ gap = 1 ->
             ModReduceInternal(c, 1)
        [] c.deg = 2 /\ other.deg # 2 /\ gap # 1 ->
             Adopt(ModReduceInternal(
                     LevelReduceInternal(Scaled(c, big * inv * last), gap - 2), 1), other)
        [] c.deg # 2 /\ other.deg = 2 ->
             Adopt(LevelReduceInternal(EvalMultConst(c, (other.sf * inv) % T), gap), other)
        [] c.deg # 2 /\ other.deg # 2 ->
             Adopt(ModReduceInternal(
                     LevelReduceInternal(EvalMultConst(c, (big * inv) % T), gap - 1), 1), other)

\* An operand that its partner makes the code change.
Joined(c, other) == [c EXCEPT !.depth = IF @ < other.depth THEN other.depth ELSE @]

\* Operands of one level are taken to agree.
AdjustLevelsOnly(c, other) == IF c.level < other.level THEN Joined(Lower(c, other), other) ELSE c

\* What AdjustLevelsAndDepthInPlace leaves of c beside other.
AdjustLevelsAndDepth(c, other) ==
  IF c.level < other.level THEN Joined(Lower(c, other), other)
  ELSE IF c.level = other.level /\ c.deg < other.deg
       THEN Joined(EvalMultConst(c, c.sf), other)
       ELSE c

\* What AdjustLevelsInPlace leaves of c beside other.
AdjustLevels(c, other) ==
  IF c.towers > other.towers THEN LevelReduceInternal(c, c.towers - other.towers) ELSE c

AdjustForAddOrSub(c, other) ==
  IF Automatic THEN AdjustLevelsAndDepth(c, other) ELSE AdjustLevels(c, other)

\* The last reduction is refused.
ToDepthOneKeepsTwoTowers(a1, a2) ==
  LET Both(d1, d2, b) == [fst |-> d1, snd |-> d2, ok |-> b]
  IN  IF ~Automatic \/ a1.deg # 2 THEN Both(a1, a2, TRUE)
      ELSE IF a1.towers <= 2 THEN Both(a1, a2, FALSE)
      ELSE Both(ModReduceInternal(a1, 1), ModReduceInternal(a2, 1), TRUE)

\* What AdjustLevelsAndDepthToOneInPlace does once the operands agree: they
\* are reduced to depth one.  Without a tower left for that the code throws, and
\* leaves them as they are by then.
ToDepthOne(a1, a2) ==
  LET Both(d1, d2, b) == [fst |-> d1, snd |-> d2, ok |-> b]
  IN  IF ~Automatic \/ a1.deg # 2 THEN Both(a1, a2, TRUE)
      ELSE IF a1.towers = 1 THEN Both(a1, a2, FALSE)
      ELSE IF a2.towers = 1 THEN Both(ModReduceInternal(a1, 1), a2, FALSE)
      ELSE Both(ModReduceInternal(a1, 1), ModReduceInternal(a2, 1), TRUE)

\* AdjustForMultInPlace.
AdjustForMult(c1, c2) == ToDepthOne(AdjustForAddOrSub(c1, c2), AdjustForAddOrSub(c2, c1))

-----------------------------------------------------------------------------
(* Core operations: they take their first operand's level and depth.         *)

EvalAddCore(c1, c2, sign) == [c1 EXCEPT !.phase = (@ + sign * c2.phase) % T,
                                        !.depth = IF @ < c2.depth THEN c2.depth ELSE @]

EvalMultCore(c1, c2) ==
  [c1 EXCEPT !.phase = (@ * c2.phase) % T,
             !.deg   = @ + c2.deg,
             !.sf    = (@ * c2.sf) % T,
             !.depth = IF ~Automatic THEN 0 ELSE 1 + (IF @ < c2.depth THEN c2.depth ELSE @)]

\* PKEBGVRNS::Decrypt drops all moduli but the first, and Decode divides by
\* what is then the scaling factor.
Decrypt(c) ==
  LET one == ModReduceInternal(c, c.towers - 1)
  IN  (one.phase * ModInverse(one.sf)) % T

\* Compress, for a ciphertext that is sent to be decrypted: reduced to depth
\* one, then without towers to spare.  There are never towers enough for a
\* degree that has wrapped.
CompressThrows(c) == (c.deg > 1 /\ c.towers <= c.deg - 1) \/ c.deg < 0

Compress(c, towersLeft) ==
  LET d == IF c.deg > 1 THEN ModReduceInternal(c, c.deg - 1) ELSE c
  IN  IF towersLeft < d.towers THEN LevelReduceInternal(d, d.towers - towersLeft) ELSE d

-----------------------------------------------------------------------------
(* Operations of a program                                                   *)

Held == {h \in Handles : ct[h] # Null}

Init ==
  /\ scalTech \in Techniques
  /\ ct = [h \in Handles |-> Null]
  /\ plain = [h \in Handles |-> 0]

\* Bound: in FIXEDMANUAL only the program says when degrees go down.
WithinBound(c) == Automatic \/ c.deg \in (-MaxDeg) .. MaxDeg

Store(h, c, m) ==
  /\ WithinBound(c)
  /\ ct' = [ct EXCEPT ![h] = c]
  /\ plain' = [plain EXCEPT ![h] = m]

\* A Mutable function leaves its adjusted operands behind.
StoreWith(a, c1, b, c2, h, c, m) ==
  /\ WithinBound(c)
  /\ ct' = [ct EXCEPT ![a] = c1, ![b] = c2, ![h] = c]
  /\ plain' = [plain EXCEPT ![h] = m]

Encrypt(h, m, deg) == Store(h, Fresh(m, deg), m)

\* EvalAdd and EvalSub, whose operands are copied; EvalAddInPlace is h = a.
EvalAdd(a, b, h, sign) ==
  Store(h, EvalAddCore(AdjustForAddOrSub(ct[a], ct[b]), AdjustForAddOrSub(ct[b], ct[a]), sign),
        (plain[a] + sign * plain[b]) % T)

EvalAddMutable(a, b, h, sign) ==
  LET c1 == AdjustForAddOrSub(ct[a], ct[b])
      c2 == AdjustForAddOrSub(ct[b], ct[a])
  IN  StoreWith(a, c1, b, c2, h, EvalAddCore(c1, c2, sign), (plain[a] + sign * plain[b]) % T)

EvalAddPlain(a, h, m, deg, sign) ==
  LET p == Fresh(m, deg)
  IN  Store(h, EvalAddCore(AdjustForAddOrSub(ct[a], p), AdjustForAddOrSub(p, ct[a]), sign),
            (plain[a] + sign * m) % T)

EvalAddPlainMutable(a, h, m, deg, sign) ==
  LET p  == Fresh(m, deg)
      c1 == AdjustForAddOrSub(ct[a], p)
  IN  StoreWith(a, c1, a, c1, h, EvalAddCore(c1, AdjustForAddOrSub(p, ct[a]), sign),
                (plain[a] + sign * m) % T)

\* A call that throws leaves everything as it was ...
EvalMult(a, b, h) ==
  LET adj == AdjustForMult(ct[a], ct[b])
  IN  /\ adj.ok
      /\ Store(h, EvalMultCore(adj.fst, adj.snd), (plain[a] * plain[b]) % T)

\* ... but for the operands of a Mutable function, which may be adjusted then.
\* The operands are two objects; EvalSquareMutable is for one.
EvalMultMutable(a, b, h) ==
  LET adj == AdjustForMult(ct[a], ct[b])
  IN  /\ a # b
      /\ adj.ok
      /\ StoreWith(a, adj.fst, b, adj.snd, h, EvalMultCore(adj.fst, adj.snd),
                   (plain[a] * plain[b]) % T)

EvalMultMutableThrows(a, b) ==
  LET adj == AdjustForMult(ct[a], ct[b])
  IN  /\ a # b
      /\ ~adj.ok
      /\ ct' = [ct EXCEPT ![a] = adj.fst, ![b] = adj.snd]
      /\ UNCHANGED plain

EvalMultPlain(a, h, m, deg) ==
  LET adj == AdjustForMult(ct[a], Fresh(m, deg))
  IN  /\ adj.ok
      /\ Store(h, EvalMultCore(adj.fst, adj.snd), (plain[a] * m) % T)

EvalMultPlainMutable(a, h, m, deg) ==
  LET adj == AdjustForMult(ct[a], Fresh(m, deg))
      c   == IF adj.ok THEN EvalMultCore(adj.fst, adj.snd) ELSE adj.fst
  IN  IF adj.ok
      THEN StoreWith(a, adj.fst, a, adj.fst, h, c, (plain[a] * m) % T)
      ELSE StoreWith(a, adj.fst, a, adj.fst, a, c, plain[a])

\* A square of depth two is taken without a reduction.
SquareReducesLate(c) == Automatic /\ c.deg > 2

\* EvalSquare reduces a copy, EvalSquareMutable the operand itself.
SquareReduces(c) == Automatic /\ c.deg # 1

Reduced(c) == IF SquareReduces(c) THEN ModReduceInternal(c, 1) ELSE c

EvalSquare(a, h) ==
  /\ SquareReduces(ct[a]) => ct[a].towers > 1
  /\ Store(h, EvalMultCore(Reduced(ct[a]), Reduced(ct[a])), (plain[a] * plain[a]) % T)

EvalSquareMutable(a, h) ==
  /\ SquareReduces(ct[a]) => ct[a].towers > 1
  /\ StoreWith(a, Reduced(ct[a]), a, Reduced(ct[a]), h,
               EvalMultCore(Reduced(ct[a]), Reduced(ct[a])), (plain[a] * plain[a]) % T)

\* The negative of zero is not reduced.
EvalNegateUnreduced(a, h) ==
  Store(h, [ct[a] EXCEPT !.phase = T - @], (T - plain[a]) % T)

EvalNegate(a, h) ==
  Store(h, [ct[a] EXCEPT !.phase = (T - @) % T], (T - plain[a]) % T)

\* ModReduce and LevelReduce do something in FIXEDMANUAL only.  A ciphertext is
\* reduced as often as it is asked for, whatever its degree.
ModReduce(a, h, levels) ==
  /\ ~Automatic
  /\ ct[a].towers > levels
  /\ Store(h, ModReduceInternal(ct[a], levels), plain[a])

LevelReduce(a, h, levels) ==
  /\ ~Automatic
  /\ ct[a].towers > levels
  /\ Store(h, LevelReduceInternal(ct[a], levels), plain[a])

Signs == {1, -1}

Next ==
  \E h \in Handles :
    \/ \E m \in Messages, deg \in {1, 2} : Encrypt(h, m, deg)
    \/ \E a \in Held, b \in Held :
         \/ \E sign \in Signs : EvalAdd(a, b, h, sign) \/ EvalAddMutable(a, b, h, sign)
         \/ EvalMult(a, b, h)
         \/ EvalMultMutable(a, b, h)
         \/ EvalMultMutableThrows(a, b)
    \/ \E a \in Held, m \in Messages, deg \in {1, 2} :
         \/ \E sign \in Signs :
              EvalAddPlain(a, h, m, deg, sign) \/ EvalAddPlainMutable(a, h, m, deg, sign)
         \/ EvalMultPlain(a, h, m, deg)
         \/ EvalMultPlainMutable(a, h, m, deg)
    \/ \E a \in Held :
         \/ EvalSquare(a, h)
         \/ EvalSquareMutable(a, h)
         \/ EvalNegate(a, h)
         \/ \E n \in 1 .. L : ModReduce(a, h, n) \/ LevelReduce(a, h, n)

NextStep == Next /\ UNCHANGED scalTech

Spec == Init /\ [][NextStep]_vars

-----------------------------------------------------------------------------
(* Properties *)

TypeOK ==
  /\ scalTech \in Techniques
  /\ ct \in [Handles -> Ciphertexts \cup {Null}]
  /\ plain \in [Handles -> Residues]

\* Whatever a program computes, in whatever order of levels and depths, and
\* also with operands a throwing Mutable call has left half adjusted, each
\* ciphertext decrypts to the result of the same arithmetic on messages.
DecryptsRight == \A h \in Held : Decrypt(ct[h]) = plain[h]

\* Compressing the result of a program first, to whatever number of towers,
\* does not change what it decrypts to.
CompressKeepsMessage ==
  \A h \in Held, n \in 1 .. L :
    ~CompressThrows(ct[h]) => Decrypt(Compress(ct[h], n)) = plain[h]

\* A ciphertext of FLEXIBLEAUTO or FLEXIBLEAUTOEXT has the scaling factor of
\* the tables for its level and depth, so that ciphertexts that reached a
\* level on different ways can be added (the last level of FLEXIBLEAUTOEXT has
\* no table entry: there the factor is what one more reduction makes of it).
LevelFactor(l) ==
  IF l = L - 1 /\ scalTech = "FLEXIBLEAUTOEXT"
  THEN (GetScalingFactorIntBig(l - 1) * ModInverse(QModT[1])) % T
  ELSE GetScalingFactorInt(l)

CanonicalFactor ==
  \A h \in Held :
    ct[h].sf = IF ct[h].deg = 2 /\ ct[h].level = 0 THEN
                    IF scalTech = "FLEXIBLEAUTOEXT" THEN GetScalingFactorIntBig(0)
                    ELSE (LevelFactor(0) * LevelFactor(0)) % T
               ELSE IF ct[h].deg = 2 THEN (LevelFactor(ct[h].level) * LevelFactor(ct[h].level)) % T
               ELSE LevelFactor(ct[h].level)

\* Levels count the dropped towers; the automatic techniques keep every
\* ciphertext at depth one or two, and its level and depth together count the
\* multiplications in sequence behind it: no operation wastes a level.
LevelInv ==
  \A h \in Held :
    /\ ct[h].level + ct[h].towers = L
    /\ Automatic => /\ ct[h].deg \in {1, 2}
               /\ ct[h].level + ct[h].deg = ct[h].depth + 1 + Ext

\* Any two ciphertexts a program can hold agree, once adjusted, in towers and
\* level, and in the automatic techniques in depth and scaling factor too:
\* the core operations, which look at the first operand only, rely on it.
OperandsAgree ==
  \A a, b \in Held :
    LET c1 == AdjustForAddOrSub(ct[a], ct[b])
        c2 == AdjustForAddOrSub(ct[b], ct[a])
    IN  /\ c1.towers = c2.towers
        /\ c1.level = c2.level
        /\ Automatic => c1.deg = c2.deg /\ c1.sf = c2.sf

\* The parameters have one modulus for each multiplication in sequence (and
\* one more in FLEXIBLEAUTOEXT): within that depth no product throws.
MultiplicativeDepth == L - 1 - Ext

DepthSuffices ==
  \A a, b \in Held :
    (Automatic /\ ct[a].depth <= MultiplicativeDepth /\ ct[b].depth <= MultiplicativeDepth)
      => AdjustForMult(ct[a], ct[b]).ok

=============================================================================
