---------------------------- MODULE RnsArithmetic ----------------------------
(****************************************************************************)
(* Residue number arithmetic of DCRTPoly.  An element stands for one        *)
(* coefficient of a polynomial: its towers are numbered from zero, each     *)
(* with its modulus and its residue.  What the code does to the             *)
(* coefficients of a polynomial it does to each alike, except products of   *)
(* polynomials, which are those of a ring of degree one here.               *)
(****************************************************************************)
EXTENDS Integers, FiniteSets, Functions

CeilDiv(a, b) == (a + b - 1) \div b

Product(f) == FoldFunction(LAMBDA x, y : x * y, 1, f)

First(f, n) == [i \in 0 .. (n - 1) |-> f[i]]

Abs(x) == IF x < 0 THEN -x ELSE x

\* Bits of a number: GetLengthForBase(2).
Length2(x) == CHOOSE n \in 0 .. x : 2^n > x /\ (n > 0 => 2^(n - 1) <= x)

ModInverse(x, q) == CHOOSE y \in 1 .. (q - 1) : (x * y) % q = 1

\* The representative of a residue next to zero.
Centered(x, q) == IF x > q \div 2 THEN x - q ELSE x

SwitchModulus(x, old, new) == Centered(x, old) % new

-----------------------------------------------------------------------------
(* Elements *)

\* An integer in a basis of moduli.
Element(x, basis) == [mod |-> basis, val |-> [i \in DOMAIN basis |-> x % basis[i]]]

Size(x) == Cardinality(DOMAIN x.mod)

Plus(x, y) == [mod |-> x.mod, val |-> [i \in DOMAIN x.mod |-> (x.val[i] + y.val[i]) % x.mod[i]]]

Times(x, y) == [mod |-> x.mod, val |-> [i \in DOMAIN x.mod |-> (x.val[i] * y.val[i]) % x.mod[i]]]

TimesInt(x, n) == [mod |-> x.mod, val |-> [i \in DOMAIN x.mod |-> (x.val[i] * n) % x.mod[i]]]

DropLastElements(x, n) == [mod |-> First(x.mod, Size(x) - n), val |-> First(x.val, Size(x) - n)]

-----------------------------------------------------------------------------
(* Changes of basis *)

\* The product of the other moduli of a basis, and its inverse.
Hat(basis, i) == Product([k \in DOMAIN basis \ {i} |-> basis[k]])

HatInv(basis, i) == ModInverse(Hat(basis, i) % basis[i], basis[i])

\* The integer an element stands for, next to zero.
CRTInterpolate(x) ==
  LET q == Product(x.mod)
  IN  Centered(SumFunction([i \in DOMAIN x.mod |->
                 ((x.val[i] * HatInv(x.mod, i)) % x.mod[i]) * Hat(x.mod, i)]) % q, q)

\* From one basis to another without the correction for a multiple of the
\* first basis.  Without 128-bit integers each summand is taken next to zero.
ApproxSwitchCRTBasis(x, hatInv, hatMod, basis, int128) ==
  LET part(i) == LET y == (x.val[i] * hatInv[i]) % x.mod[i]
                 IN  IF int128 THEN y ELSE Centered(y, x.mod[i])
  IN  [mod |-> basis,
       val |-> [j \in DOMAIN basis |->
                  SumFunction([i \in DOMAIN x.mod |-> part(i) * hatMod[i][j]]) % basis[j]]]

\* Division by the last modulus, rounded so that nothing changes modulo t.
ModReduce(x, t) ==
  LET l == Size(x) - 1
      q == x.mod[l]
      delta == (x.val[l] * (-ModInverse(t % q, q))) % q
  IN  [mod |-> First(x.mod, l),
       val |-> [i \in 0 .. (l - 1) |->
                  LET m == x.mod[i]
                  IN  ((x.val[i] + t * SwitchModulus(delta, q, m)) * ModInverse(q % m, m)) % m]]
=============================================================================
