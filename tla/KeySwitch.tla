----------------------------- MODULE KeySwitch -----------------------------
(****************************************************************************)
(* Key switching in BGV, BV and HYBRID: the tables of the parameters, the   *)
(* evaluation keys, made by one party or by two that add their shares, and  *)
(* their use: relinearization, rotation, re-encryption and rotation with    *)
(* digits made beforehand, between reductions of the ciphertext.  Products  *)
(* and reductions are the internal ones a program calls itself with         *)
(* FIXEDMANUAL and the library combines with the other scaling techniques.  *)
(*                                                                          *)
(* The elements are exact (RnsArithmetic).  Rotations permute coefficients, *)
(* which a ring of degree one has none of to permute: what remains of one   *)
(* is that the ciphertext changes from one secret to another.               *)
(****************************************************************************)
EXTENDS RnsArithmetic, Sequences

CONSTANTS
  Settings,   \* parameters of crypto contexts: records of
              \*   q          the moduli
              \*   t          the plaintext modulus
              \*   scaling    "FIXED" (FIXEDMANUAL or FIXEDAUTO),
              \*              "FLEXIBLEAUTO" or "FLEXIBLEAUTOEXT"
              \*   technique  "BV" or "HYBRID"
              \*   digits     number of digits (HYBRID), bits of a digit (BV)
              \*   auxBits    bits of the special primes
              \*   int128     128-bit integers are available
              \*   parties    1 or 2
              \*   use        the keys made: "mult", "rotate", "reencrypt"
              \*   noises     draws of the Gaussian generator: sequences of
              \*              integers
  Secrets,    \* what secrets may be
  Uniforms,   \* draws of the uniform generator: sequences of integers
  MaxNoise,   \* bound: the largest magnitude of a noise
  None

ASSUME KeySwitchAssumption ==
  /\ MaxNoise \in Nat /\ Secrets \subseteq Int
  /\ \A d \in Uniforms : d \in Seq(Int) /\ d # <<>>
  /\ \A x \in Settings :
       /\ x.q \in Seq(Nat \ {0, 1}) /\ x.q # <<>> /\ x.t \in Nat \ {0, 1}
       /\ x.scaling \in {"FIXED", "FLEXIBLEAUTO", "FLEXIBLEAUTOEXT"}
       /\ x.digits \in Nat /\ (x.technique = "HYBRID" => x.digits > 0)
       /\ x.technique \in {"BV", "HYBRID"} /\ x.parties \in {1, 2} /\ x.auxBits \in Nat
       /\ \A d \in x.noises : d \in Seq((-MaxNoise) .. MaxNoise) /\ d # <<>>

\* None is no ciphertext.
ASSUME NoneAssumption ==
  \A x \in Settings : \A l \in 1 .. Len(x.q), n \in {2, 3} :
    LET element == [mod : [0 .. (l - 1) -> Nat], val : [0 .. (l - 1) -> Nat]]
    IN  None \notin [key : {"s", "z"}, elems : [1 .. n -> element]]

VARIABLES
  setting,    \* the parameters
  special,    \* the special primes
  secret,     \* the secret of each party
  image,      \* that of the key ciphertexts are switched to, by a rotation or
              \* a re-encryption
  shares,     \* each party's share of a joint key
  joint,      \* their sum
  products,   \* the joint key multiplied by each party's secret
  evalKey,    \* the evaluation key in use
  ct,         \* the ciphertext: its elements, and whose secret decrypts it
  scale,      \* its scaling factor, modulo t
  msg,        \* what it was made to decrypt to
  noise,      \* history: a bound of its phase
  digits      \* digits made beforehand, with the number of towers there were

keyVars == <<shares, joint, products, evalKey>>
parameters == <<setting, special, secret, image>>
vars == <<parameters, keyVars, ct, scale, msg, noise, digits>>

-----------------------------------------------------------------------------
(* Parameters *)

Hybrid == setting.technique = "HYBRID"
Flexible == setting.scaling # "FIXED"
T == setting.t
Parties == 1 .. setting.parties

SizeQ == Len(setting.q)
SizeP == Len(special)
Q(i) == setting.q[i + 1]
BasisQ(l) == [i \in 0 .. (l - 1) |-> Q(i)]
BasisP == [j \in 0 .. (SizeP - 1) |-> special[j + 1]]
BasisQP(l) == [i \in 0 .. (l + SizeP - 1) |-> IF i < l THEN Q(i) ELSE special[i - l + 1]]

\* Towers in a digit, the digits of a ciphertext of l towers, and the towers
\* of one of them: the last one may have fewer.
TowersPerPart(x) == CeilDiv(Len(x.q), x.digits)
Alpha == TowersPerPart(setting)
NumParts(l) == CeilDiv(l, Alpha)
SizePart(l, part) == IF part = NumParts(l) - 1 THEN l - Alpha * part ELSE Alpha
ParamsPartQ(part, n) == [i \in 0 .. (n - 1) |-> Q(Alpha * part + i)]

Distributes(x) == Len(x.q) - TowersPerPart(x) * (x.digits - 1) > 0

IsPrime(n) == n > 1 /\ \A d \in 2 .. (n - 1) : d * d <= n => n % d # 0

\* The moduli are different primes that do not divide the plaintext modulus.
\* The fixed techniques, which keep no scaling factor, take primes one more
\* than a multiple of it; the flexible ones do not.  The first modulus has
\* room for a secret, for the noise of any key and for a fresh ciphertext.
ASSUME ModulusAssumption ==
  \A x \in Settings :
    /\ \A i \in DOMAIN x.q : IsPrime(x.q[i]) /\ x.t % x.q[i] # 0
    /\ x.scaling = "FIXED" => \A i \in DOMAIN x.q : (x.q[i] - 1) % x.t = 0
    /\ x.scaling = "FLEXIBLEAUTOEXT" => Len(x.q) > 1
    /\ \A i, k \in DOMAIN x.q : x.q[i] = x.q[k] => i = k
    /\ \A s \in Secrets : 2 * (MaxNoise * (8 * Abs(s) + 2)) < x.q[1] /\ 4 * Abs(s) < x.q[1]
    /\ 2 * (x.t \div 2 + x.t * MaxNoise) <= x.q[1] - 1 - 2 * x.t

\* The step between candidates for primes, when the cyclotomic order is two.
Pow2(t) == CHOOSE n \in {2^k : k \in 0 .. t} : t % n = 0 /\ (t \div n) % 2 = 1
PrimeStep(t) == (IF Pow2(t) < 2 THEN 2 ELSE Pow2(t)) * (t \div Pow2(t))

\* What the provers do not know of powers of two: moduli and digits have a
\* length in bits, and the windows of a modulus hold all its bits.
ASSUME BitsAssumption ==
  \A x \in Settings :
    /\ PrimeStep(x.t) \in Nat \ {0} /\ PrimeStep(x.t) % x.t = 0
    /\ 2^x.digits \in Nat \ {0} /\ 2^0 = 1
    /\ \A i \in DOMAIN x.q : Length2(x.q[i]) \in Nat
    /\ x.technique = "BV" /\ x.digits > 0 =>
         \A i \in DOMAIN x.q :
           LET n == CeilDiv(Length2(x.q[i]), x.digits)
           IN  /\ x.q[i] < 2^(x.digits * n)
               /\ \A k \in 0 .. n : /\ 2^(x.digits * k) \in Nat
                                    /\ 2^(x.digits * (k + 1)) = 2^(x.digits * k) * 2^x.digits

Candidates(x) == {n \in 2 .. (2^x.auxBits - 1) :
                    n % PrimeStep(x.t) = 1 /\ \A i \in DOMAIN x.q : x.q[i] # n}

\* As many special primes as make up the bits of the longest digit.
NumSpecial(x) ==
  LET a == TowersPerPart(x)
      bits(part) == Length2(Product([i \in {k \in DOMAIN x.q : (k - 1) \div a = part} |-> x.q[i]]))
      most == CHOOSE b \in {bits(part) : part \in 0 .. (x.digits - 1)} :
                \A part \in 0 .. (x.digits - 1) : bits(part) <= b
  IN  CeilDiv(most, x.auxBits)

ASSUME SpecialAssumption == \A x \in Settings : x.technique = "HYBRID" => NumSpecial(x) \in Nat

SpecialPrimes(x) ==
  LET prime == {n \in Candidates(x) : IsPrime(n)}
      p[n \in 0 .. NumSpecial(x)] ==
        IF n = 0 THEN 2^x.auxBits
        ELSE CHOOSE m \in prime : m < p[n - 1] /\ \A k \in prime : k < p[n - 1] => k <= m
  IN  [n \in 1 .. NumSpecial(x) |-> p[n]]

\* Variant: the digit itself is left in, and the one after it out.
ComplPartQNext(l, part) ==
  LET rest == l - SizePart(l, part)
  IN  [k \in 0 .. (rest + SizeP - 1) |->
         IF k >= rest THEN special[k - rest + 1]
         ELSE LET digit == IF k \div Alpha > part THEN k \div Alpha + 1 ELSE k \div Alpha
              IN  Q(Alpha * digit + (k % Alpha))]

\* The moduli of the towers of Q outside a digit, then the special primes.
ComplPartQ(l, part) ==
  LET rest == l - SizePart(l, part)
  IN  [k \in 0 .. (rest + SizeP - 1) |->
         IF k >= rest THEN special[k - rest + 1]
         ELSE LET digit == IF k \div Alpha >= part THEN k \div Alpha + 1 ELSE k \div Alpha
              IN  Q(Alpha * digit + (k % Alpha))]

\* Variant: the table of the whole digit serves a part of it.
PartQlHatInvModqWhole(part, n) ==
  [i \in 0 .. (n - 1) |-> HatInv(ParamsPartQ(part, SizePart(SizeQ, part)), i)]

PartQlHatInvModq(part, n) == [i \in 0 .. (n - 1) |-> HatInv(ParamsPartQ(part, n), i)]

PartQlHatModp(l, part) ==
  LET n == SizePart(l, part)
      compl == ComplPartQ(l, part)
  IN  [i \in 0 .. (n - 1) |-> [k \in DOMAIN compl |-> Hat(ParamsPartQ(part, n), i) % compl[k]]]

ModulusP == Product(BasisP)
PModq(i) == ModulusP % Q(i)

\* Digits of BV: windows of the bits of each tower, or whole towers.
NumWindows(i) == IF setting.digits = 0 THEN 1 ELSE CeilDiv(Length2(Q(i)), setting.digits)
FirstWindow(i) == SumFunction([k \in 0 .. (i - 1) |-> NumWindows(k)])
TowerOf(n) == CHOOSE i \in 0 .. (SizeQ - 1) : FirstWindow(i) <= n /\ n < FirstWindow(i) + NumWindows(i)
Power(n) == 2^(setting.digits * (n - FirstWindow(TowerOf(n))))

NumDigits(l) == IF Hybrid THEN NumParts(l) ELSE FirstWindow(l)
KeyBasis == IF Hybrid THEN BasisQP(SizeQ) ELSE BasisQ(SizeQ)

\* The towers whose residues a digit is made of.
Own(n, l) == IF Hybrid THEN Alpha * n .. (Alpha * n + SizePart(l, n) - 1) ELSE {TowerOf(n)}

-----------------------------------------------------------------------------
(* Evaluation keys *)

Sum(f) == SumFunction([p \in Parties |-> f[p]])
S == Sum(secret)
Z == Sum(image)
InQ(x) == Element(x, BasisQ(SizeQ))

\* A secret in the basis of keys: its special towers are made from tower 0.
Extend(s) ==
  [mod |-> KeyBasis,
   val |-> [i \in DOMAIN KeyBasis |->
              IF i < SizeQ THEN s.val[i] ELSE SwitchModulus(s.val[0], Q(0), KeyBasis[i])]]

\* What the key of a digit holds of the secret to switch from.
Factor(n, i) == IF Hybrid THEN PModq(i) ELSE Power(n)
Filtered(from, n) ==
  [mod |-> KeyBasis,
   val |-> [i \in DOMAIN KeyBasis |->
              IF i \in Own(n, SizeQ) THEN (Factor(n, i) * from.val[i]) % KeyBasis[i] ELSE 0]]

KeyDigits == 0 .. (NumDigits(SizeQ) - 1)
Drawn(d) == [n \in KeyDigits |-> Element(d[(n % Len(d)) + 1], KeyBasis)]

KeySwitchGen(from, to, a, e) ==
  LET sign == IF Hybrid THEN 1 ELSE -1
  IN  [a |-> a,
       b |-> [n \in KeyDigits |->
                Plus(Plus(Filtered(from, n), TimesInt(Times(a[n], Extend(to)), -1)),
                     TimesInt(e[n], sign * T))],
       noise |-> MaxNoise]

\* With the public key of the new secret, whose second element is the first
\* uniform draw.
KeySwitchGenPublic(from, to, a, e, u, e0, e1) ==
  LET pk1 == a[0]
      pk0 == Plus(TimesInt(e[0], T), TimesInt(Times(pk1, Extend(to)), -1))
  IN  [a |-> [n \in KeyDigits |-> Plus(TimesInt(pk1, u), TimesInt(e1[n], T))],
       b |-> [n \in KeyDigits |->
                Plus(Plus(TimesInt(pk0, u), TimesInt(e0[n], T)), Filtered(from, n))],
       noise |-> MaxNoise * (Abs(u) + 1 + Abs(Z))]

\* The square of a secret, tower by tower.
Squared(s) == Times(InQ(s), InQ(s))

MultiAddEvalKeys(k1, k2) ==
  [a |-> k1.a, b |-> [n \in KeyDigits |-> Plus(k1.b[n], k2.b[n])], noise |-> k1.noise + k2.noise]

\* Variant: the uniform elements are those of the first key here too.
MultiAddEvalMultKeysFirst(k1, k2) == MultiAddEvalKeys(k1, k2)

MultiAddEvalMultKeys(k1, k2) ==
  [MultiAddEvalKeys(k1, k2) EXCEPT !.a = [n \in KeyDigits |-> Plus(k1.a[n], k2.a[n])]]

MultiMultEvalKey(s, key, e0, e1) ==
  LET times(x, e) == [n \in KeyDigits |-> Plus(Times(x[n], Extend(InQ(s))), TimesInt(e[n], T))]
  IN  [a |-> times(key.a, e0), b |-> times(key.b, e1),
       noise |-> key.noise * Abs(s) + MaxNoise * (1 + Abs(S))]

-----------------------------------------------------------------------------
(* Use of the keys *)

\* A digit of HYBRID: its own towers as they are, the others switched to.
HybridDigit(c, n) ==
  LET l == Size(c)
      start == Alpha * n
      size == SizePart(l, n)
      part == [mod |-> ParamsPartQ(n, size), val |-> [i \in 0 .. (size - 1) |-> c.val[start + i]]]
      compl == ApproxSwitchCRTBasis(part, PartQlHatInvModq(n, size), PartQlHatModp(l, n),
                                    ComplPartQ(l, n), setting.int128)
      at(f, g) == [i \in 0 .. (l + SizeP - 1) |->
                     IF i < start THEN g[i]
                     ELSE IF i < start + size THEN f[i - start] ELSE g[i - size]]
  IN  [mod |-> at(part.mod, compl.mod), val |-> at(part.val, compl.val)]

\* A digit of BV: a window of a tower, next to zero in the other towers.
CRTDecompose(c, n) ==
  LET i == TowerOf(n)
      x == IF setting.digits = 0 THEN c.val[i]
           ELSE (c.val[i] \div Power(n)) % 2^setting.digits
  IN  [mod |-> c.mod,
       val |-> [k \in DOMAIN c.mod |-> IF k = i THEN x % c.mod[i] ELSE SwitchModulus(x, c.mod[i], c.mod[k])]]

EvalKeySwitchPrecomputeCore(c) ==
  [n \in 0 .. (NumDigits(Size(c)) - 1) |-> IF Hybrid THEN HybridDigit(c, n) ELSE CRTDecompose(c, n)]

\* The tower of a key that meets one of a digit.
KeyTower(i, l) == IF i < l THEN i ELSE SizeQ + i - l

\* Variant: the rounding is that of CKKS.
ApproxModDownNoScale(x, l) ==
  LET partP == [mod |-> BasisP, val |-> [j \in DOMAIN BasisP |-> x.val[l + j]]]
      inQ == ApproxSwitchCRTBasis(partP, [j \in DOMAIN BasisP |-> HatInv(BasisP, j)],
                                  [j \in DOMAIN BasisP |-> [i \in 0 .. (l - 1) |-> Hat(BasisP, j) % Q(i)]],
                                  BasisQ(l), setting.int128)
  IN  [mod |-> BasisQ(l),
       val |-> [i \in 0 .. (l - 1) |->
                  ((x.val[i] - inQ.val[i]) * ModInverse(PModq(i), Q(i))) % Q(i)]]

\* From the towers of Q and P to those of Q, divided by P, so that nothing
\* changes modulo t.
ApproxModDown(x, l) ==
  LET partP == [mod |-> BasisP,
                val |-> [j \in DOMAIN BasisP |->
                           (x.val[l + j] * ModInverse(T % BasisP[j], BasisP[j])) % BasisP[j]]]
      inQ == ApproxSwitchCRTBasis(partP, [j \in DOMAIN BasisP |-> HatInv(BasisP, j)],
                                  [j \in DOMAIN BasisP |-> [i \in 0 .. (l - 1) |-> Hat(BasisP, j) % Q(i)]],
                                  BasisQ(l), setting.int128)
  IN  [mod |-> BasisQ(l),
       val |-> [i \in 0 .. (l - 1) |->
                  ((x.val[i] - T * inQ.val[i]) * ModInverse(PModq(i), Q(i))) % Q(i)]]

\* What is added to the two elements of a ciphertext of l towers.
EvalFastKeySwitchCore(digs, key, l) ==
  LET basis == IF Hybrid THEN BasisQP(l) ELSE BasisQ(l)
      inner(k) == [mod |-> basis,
                   val |-> [i \in DOMAIN basis |->
                              SumFunction([n \in DOMAIN digs |-> digs[n].val[i] * k[n].val[KeyTower(i, l)]])
                                % basis[i]]]
      down(x) == IF Hybrid THEN ApproxModDown(x, l) ELSE x
  IN  <<down(inner(key.b)), down(inner(key.a))>>

KeySwitchCore(c, key) == EvalFastKeySwitchCore(EvalKeySwitchPrecomputeCore(c), key, Size(c))

\* The sum of the elements times the powers of the secret: DecryptCore.
SecretOf(c) == IF c.key = "s" THEN S ELSE Z
DecryptCore(c) ==
  LET s == Element(SecretOf(c), c.elems[1].mod)
      linear == Plus(c.elems[1], Times(c.elems[2], s))
  IN  IF Len(c.elems) = 2 THEN linear ELSE Plus(linear, Times(c.elems[3], Times(s, s)))

\* The factor of fresh ciphertexts, of which FLEXIBLEAUTOEXT makes the degree
\* two, and what a reduction by the modulus of tower i makes of a factor.
FreshFactor ==
  CASE setting.scaling = "FIXED" -> 1
    [] setting.scaling = "FLEXIBLEAUTO" -> Q(SizeQ - 1) % T
    [] setting.scaling = "FLEXIBLEAUTOEXT" -> ((Q(SizeQ - 1) % T) * (Q(SizeQ - 2) % T)) % T

\* Variant: the factor is multiplied by the modulus.
ReducedFactorUp(f, i) == IF Flexible THEN (f * (Q(i) % T)) % T ELSE f

ReducedFactor(f, i) == IF Flexible THEN (f * ModInverse(Q(i) % T, T)) % T ELSE f

\* A ciphertext with its factor: reduced to one tower, and decoded.
Decrypt(c, f) ==
  LET l == Size(c.elems[1])
      down[n \in 1 .. l] == IF n = l THEN DecryptCore(c) ELSE ModReduce(down[n + 1], T)
      factor[n \in 1 .. l] == IF n = l THEN f ELSE ReducedFactor(factor[n + 1], n)
      value == Centered(down[1].val[0], Q(0)) % T
  IN  Centered((value * ModInverse(factor[1], T)) % T, T)

-----------------------------------------------------------------------------
(* Noise *)

Level == Size(ct.elems[1])

\* A phase of this magnitude survives the reductions of a decryption.
Budget(l) == ((Q(0) - 1 - 2 * T) * (Product(BasisQ(l)) \div Q(0))) \div 2

MaxDigit(n, l) ==
  IF Hybrid THEN LET part == ParamsPartQ(n, SizePart(l, n))
                 IN  SumFunction([i \in DOMAIN part |-> (part[i] - 1) * Hat(part, i)])
  ELSE LET half == Q(TowerOf(n)) \div 2
       IN  IF setting.digits = 0 \/ half < 2^setting.digits THEN half ELSE 2^setting.digits - 1

SwitchNoise(l, to) ==
  LET sum == T * evalKey.noise * SumFunction([n \in 0 .. (NumDigits(l) - 1) |-> MaxDigit(n, l)])
  IN  IF Hybrid THEN (sum + T * SizeP * ModulusP * (1 + Abs(to))) \div ModulusP ELSE sum

\* How much an error in each element weighs in the phase.
Weight(c) == 1 + Abs(SecretOf(c)) + (IF Len(c.elems) = 3 THEN SecretOf(c) * SecretOf(c) ELSE 0)

-----------------------------------------------------------------------------
(* The parameters, the keys of one party *)

\* PrecomputeCRTTables refuses digits left without towers, and runs out of
\* primes of so many bits.
Accepted(x) ==
  x.technique = "HYBRID" =>
    /\ Distributes(x)
    /\ NumSpecial(x) <= Cardinality({n \in Candidates(x) : IsPrime(n)})

Init ==
  /\ setting \in {x \in Settings : Accepted(x)}
  /\ special = (IF Hybrid THEN SpecialPrimes(setting) ELSE <<>>)
  /\ secret \in [Parties -> Secrets]
  /\ image \in (IF setting.use = "mult" THEN {secret} ELSE [Parties -> Secrets])
  /\ shares = [p \in {1, 2} |-> None] /\ products = [p \in {1, 2} |-> None]
  /\ joint = None /\ evalKey = None
  /\ ct = None /\ scale = 1 /\ msg = 0 /\ noise = 0 /\ digits = None

Draws(d) == {Drawn(x) : x \in d}

EvalMultKeyGen ==
  /\ setting.use = "mult" /\ setting.parties = 1 /\ evalKey = None
  /\ \E a \in Draws(Uniforms), e \in Draws(setting.noises) :
       evalKey' = KeySwitchGen(Squared(S), InQ(S), a, e)
  /\ UNCHANGED <<parameters, shares, joint, products, ct, scale, msg, noise, digits>>

EvalAutomorphismKeyGen ==
  /\ setting.use = "rotate" /\ setting.parties = 1 /\ evalKey = None
  /\ \E a \in Draws(Uniforms), e \in Draws(setting.noises) :
       evalKey' = KeySwitchGen(InQ(S), InQ(Z), a, e)
  /\ UNCHANGED <<parameters, shares, joint, products, ct, scale, msg, noise, digits>>

ReKeyGen ==
  /\ setting.use = "reencrypt" /\ evalKey = None
  /\ \E a \in Draws(Uniforms), e, e0, e1 \in Draws(setting.noises), u \in Secrets :
       evalKey' = KeySwitchGenPublic(InQ(S), InQ(Z), a, e, u, e0, e1)
  /\ UNCHANGED <<parameters, shares, joint, products, ct, scale, msg, noise, digits>>

-----------------------------------------------------------------------------
(* The keys of two parties *)

\* The second party uses the uniform elements of the first.
MultiKeySwitchGen(p) ==
  /\ setting.parties = 2 /\ shares[p] = None /\ (p = 2 => shares[1] # None)
  /\ \E a \in (IF p = 1 THEN Draws(Uniforms) ELSE {shares[1].a}), e \in Draws(setting.noises) :
       shares' = [shares EXCEPT ![p] = KeySwitchGen(InQ(secret[p]), InQ(image[p]), a, e)]
  /\ UNCHANGED <<parameters, joint, products, evalKey, ct, scale, msg, noise, digits>>

AddShares ==
  /\ shares[2] # None /\ joint = None
  /\ joint' = MultiAddEvalKeys(shares[1], shares[2])
  /\ evalKey' = IF setting.use = "rotate" THEN joint' ELSE evalKey
  /\ UNCHANGED <<parameters, shares, products, ct, scale, msg, noise, digits>>

MultiplyByShare(p) ==
  /\ setting.use = "mult" /\ joint # None /\ products[p] = None
  /\ \E e0, e1 \in Draws(setting.noises) :
       products' = [products EXCEPT ![p] = MultiMultEvalKey(secret[p], joint, e0, e1)]
  /\ UNCHANGED <<parameters, shares, joint, evalKey, ct, scale, msg, noise, digits>>

AddProducts ==
  /\ products[1] # None /\ products[2] # None /\ evalKey = None
  /\ evalKey' = MultiAddEvalMultKeys(products[1], products[2])
  /\ UNCHANGED <<parameters, shares, joint, products, ct, scale, msg, noise, digits>>

-----------------------------------------------------------------------------
(* Operations on the ciphertext *)

\* The phase of a fresh ciphertext is the plaintext, encoded with its factor,
\* and t times some noise.
Encrypt ==
  /\ evalKey # None /\ ct = None
  /\ \E x \in 0 .. (T - 1), v \in (-MaxNoise) .. MaxNoise, d \in Uniforms :
       LET c1 == InQ(d[1])
           encoded == Centered((x * FreshFactor) % T, T)
           c0 == Plus(InQ(encoded + T * v), TimesInt(Times(c1, InQ(S)), -1))
       IN  /\ ct' = [key |-> "s", elems |-> <<c0, c1>>]
           /\ msg' = Centered(x, T)
  /\ scale' = FreshFactor
  /\ noise' = T \div 2 + T * MaxNoise
  /\ UNCHANGED <<parameters, keyVars, digits>>

EvalSquare ==
  /\ setting.use = "mult" /\ ct # None /\ Len(ct.elems) = 2
  /\ noise * noise <= Budget(Level)
  /\ LET c == ct.elems
     IN  ct' = [ct EXCEPT !.elems =
                  <<Times(c[1], c[1]), TimesInt(Times(c[1], c[2]), 2), Times(c[2], c[2])>>]
  /\ scale' = (scale * scale) % T
  /\ msg' = Centered((msg * msg) % T, T)
  /\ noise' = noise * noise
  /\ digits' = None
  /\ UNCHANGED <<parameters, keyVars>>

Relinearize ==
  /\ ct # None /\ Len(ct.elems) = 3
  /\ noise + SwitchNoise(Level, S) <= Budget(Level)
  /\ LET ba == KeySwitchCore(ct.elems[3], evalKey)
     IN  ct' = [ct EXCEPT !.elems = <<Plus(@[1], ba[1]), Plus(@[2], ba[2])>>]
  /\ noise' = noise + SwitchNoise(Level, S)
  /\ UNCHANGED <<parameters, keyVars, scale, msg, digits>>

\* A ciphertext its key still fits, and what it may become, with the digits of
\* l towers.
Switchable(l) ==
  /\ setting.use # "mult" /\ ct # None /\ ct.key = "s"
  /\ noise + SwitchNoise(l, Z) <= Budget(Level)

Switched(ba, l) ==
  /\ ct' = [key |-> "z", elems |-> <<Plus(ct.elems[1], ba[1]), ba[2]>>]
  /\ noise' = noise + SwitchNoise(l, Z)
  /\ digits' = None
  /\ UNCHANGED <<parameters, keyVars, scale, msg>>

\* A rotation or a re-encryption.
KeySwitchInPlace == Switchable(Level) /\ Switched(KeySwitchCore(ct.elems[2], evalKey), Level)

EvalFastRotationPrecompute ==
  /\ setting.use = "rotate" /\ ct # None /\ ct.key = "s" /\ digits = None
  /\ digits' = [towers |-> Level, elems |-> EvalKeySwitchPrecomputeCore(ct.elems[2])]
  /\ UNCHANGED <<parameters, keyVars, ct, scale, msg, noise>>

\* HYBRID throws when the digits have more towers than the ciphertext.
EvalFastRotation ==
  /\ digits # None /\ Switchable(digits.towers)
  /\ Hybrid => digits.towers = Level
  /\ Switched(EvalFastKeySwitchCore(digits.elems, evalKey, Level), digits.towers)

\* Variant: only the first element is reduced.
LevelReduceFirst ==
  /\ ct # None /\ Level > 1 /\ noise <= Budget(Level - 1)
  /\ ct' = [ct EXCEPT !.elems[1] = DropLastElements(@, 1)]
  /\ UNCHANGED <<parameters, keyVars, scale, msg, noise, digits>>

\* A caller may keep digits made before: they are still those of the towers
\* that are left.
LevelReduce ==
  /\ ct # None /\ Level > 1 /\ noise <= Budget(Level - 1)
  /\ ct' = [ct EXCEPT !.elems = [i \in DOMAIN @ |-> DropLastElements(@[i], 1)]]
  /\ UNCHANGED <<parameters, keyVars, scale, msg, noise, digits>>

Rescaled == (noise + T * (Q(Level - 1) \div 2) * Weight(ct)) \div Q(Level - 1)

ModReduceInPlace ==
  /\ ct # None /\ Level > 1 /\ Rescaled <= Budget(Level - 1)
  /\ ct' = [ct EXCEPT !.elems = [i \in DOMAIN @ |-> ModReduce(@[i], T)]]
  /\ scale' = ReducedFactor(scale, Level - 1)
  /\ noise' = Rescaled
  /\ digits' = None
  /\ UNCHANGED <<parameters, keyVars, msg>>

Next ==
  \/ EvalMultKeyGen \/ EvalAutomorphismKeyGen \/ ReKeyGen
  \/ \E p \in {1, 2} : MultiKeySwitchGen(p) \/ MultiplyByShare(p)
  \/ AddShares \/ AddProducts
  \/ Encrypt \/ EvalSquare \/ Relinearize \/ KeySwitchInPlace
  \/ EvalFastRotationPrecompute \/ EvalFastRotation
  \/ LevelReduce \/ ModReduceInPlace

Spec == Init /\ [][Next]_vars

-----------------------------------------------------------------------------
(* Properties *)

\* Keys and ciphertext are made or not; a ciphertext has two or three elements
\* in the first moduli.
TypeOK ==
  /\ setting \in Settings /\ secret \in [Parties -> Secrets] /\ image \in [Parties -> Secrets]
  /\ ct # None =>
       /\ ct.key \in {"s", "z"} /\ Len(ct.elems) \in {2, 3}
       /\ \E l \in 1 .. SizeQ : \A i \in DOMAIN ct.elems : ct.elems[i].mod = BasisQ(l)
  /\ scale \in 1 .. (T - 1) /\ noise \in Nat

\* The moduli of a digit are those of the towers of the key it is multiplied
\* with, at every level and whatever towers the last digit has: no product of
\* EvalFastKeySwitchCore throws.
TowersMatch ==
  digits # None =>
    \A n \in DOMAIN digits.elems :
      LET m == digits.elems[n].mod
      IN  /\ DOMAIN m = 0 .. (digits.towers + SizeP - 1)
          /\ \A i \in DOMAIN m : m[i] = KeyBasis[KeyTower(i, digits.towers)]

\* A digit is one integer in all its towers, the residues of its own towers
\* read as an integer and a small multiple of their product, and the digits
\* made beforehand still are those of the ciphertext when towers were
\* dropped from it since.
DigitsAreIntegers ==
  digits # None =>
    \A n \in DOMAIN digits.elems :
      LET d == digits.elems[n]
          l == digits.towers
          own == Own(n, l)
          unit == IF Hybrid THEN Product([i \in own |-> Q(i)]) ELSE Q(TowerOf(n))
          rest == IF Hybrid
                  THEN CRTInterpolate([mod |-> [i \in own |-> Q(i)], val |-> [i \in own |-> d.val[i]]])
                  ELSE d.val[TowerOf(n)]
          most == MaxDigit(n, l) \div unit + 1
      IN  /\ \E u \in (-most) .. most :
               /\ Abs(rest + u * unit) <= MaxDigit(n, l)
               /\ \A i \in DOMAIN d.mod : d.val[i] = (rest + u * unit) % d.mod[i]
          /\ Hybrid => \A i \in own : i < Level => d.val[i] = ct.elems[2].val[i]

\* A key decrypts, under the secret it switches to, to the secret it switches
\* from, multiplied by P or by the powers of the digits on the towers of each
\* digit, and t times some small noise that is the same in every tower.
Switches(key, from, to) ==
  \A n \in KeyDigits :
    LET phase == Plus(key.b[n], Times(key.a[n], Extend(to)))
        error == Plus(phase, TimesInt(Filtered(from, n), -1))
        e == Centered((error.val[0] * ModInverse(T % Q(0), Q(0))) % Q(0), Q(0))
    IN  /\ Abs(e) <= key.noise
        /\ \A i \in DOMAIN KeyBasis : error.val[i] = (T * e) % KeyBasis[i]

\* Every key switches between the secrets it is meant for: the shares, their
\* sum, the sum multiplied by each party's secret, and the key in use, which
\* no party could make alone.
KeysSwitch ==
  /\ \A p \in Parties : shares[p] # None => Switches(shares[p], InQ(secret[p]), InQ(image[p]))
  /\ joint # None => Switches(joint, InQ(S), InQ(Z))
  /\ \A p \in Parties :
       products[p] # None => Switches(products[p], Times(InQ(secret[p]), InQ(S)), InQ(S))
  /\ evalKey # None =>
       IF setting.use = "mult" THEN Switches(evalKey, Squared(S), InQ(S))
       ELSE Switches(evalKey, InQ(S), InQ(Z))

\* Key switches, with fresh digits or digits made beforehand, reductions and
\* squares leave a ciphertext whose phase is that of its message, multiplied
\* by its scaling factor, modulo t and within the noise they add.
NoiseBounded ==
  ct # None =>
    LET phase == CRTInterpolate(DecryptCore(ct))
    IN  (phase - msg * scale) % T = 0 /\ Abs(phase) <= noise

\* A ciphertext decrypts to its message, whatever keys it went through and
\* whatever factor the moduli it was divided by have left it, as long as its
\* noise stays within what its towers can hold.
DecryptsRight == ct # None => Decrypt(ct, scale) = msg
=============================================================================
