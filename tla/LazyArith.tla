------------------------------ MODULE LazyArith ------------------------------
(****************************************************************************)
(* The lazy modular arithmetic of the libsnark proof system.                *)
(*                                                                          *)
(* FHE coefficients live in a ring Z_q; the constraint system that proves   *)
(* an evaluation lives in a prime field Z_P.  The gadgets postpone the      *)
(* reduction modulo q: a wire carries a field element and a bound           *)
(* (max_value) from which the code decides, operation by operation, whether *)
(* the next result still fits below P (reduce later) or not (reduce now).   *)
(*                                                                          *)
(* A state is the set of wires built so far for one coefficient of a        *)
(* ciphertext.  A wire has the value an honest prover assigns to it, its    *)
(* bound, and the residue the FHE library computed for that coefficient.    *)
(****************************************************************************)
EXTENDS Integers, FiniteSets

CONSTANTS
  P,             \* order of the field FieldT
  FieldBits,     \* FieldT::num_bits
  Moduli,        \* the limb moduli of the ring
  MaxWires       \* bound: wires built in one run

ASSUME FieldAssumption ==
  /\ FieldBits \in Nat \ {0}
  /\ P \in Nat
  /\ 2^(FieldBits - 1) < P
  /\ P <= 2^FieldBits

ASSUME ModuliAssumption ==
  \A q \in Moduli : /\ q \in Nat
                    /\ q > 2
                    /\ 3 * q < P

\* The two facts about powers of two the bit counts rest on.
ASSUME PowerAssumption ==
  /\ 2^0 = 1
  /\ \A n \in 0 .. FieldBits : 2^n \in Nat /\ 2^(n + 1) = 2 * 2^n

ASSUME BoundAssumption == MaxWires \in Nat

-----------------------------------------------------------------------------
(* Field elements and bit counts *)

Field == 0 .. (P - 1)

\* The field element an integer denotes.
Wrap(x) == IF x \in Field THEN x ELSE x % P

\* as_bigint().num_bits(): the least n with x < 2^n.
NumBits(x) == CHOOSE n \in 0 .. FieldBits :
                /\ x < 2^n
                /\ \A m \in 0 .. FieldBits : x < 2^m => n <= m

Larger(a, b) == IF a >= b THEN a ELSE b

\* ceil(log2(q)) for q > 1.
CeilLog2(q) == NumBits(q - 1)

-----------------------------------------------------------------------------
VARIABLES
  debug,   \* the program is a Debug build: no -DNDEBUG
  wires,   \* wires built so far
  failed   \* names of the assertions whose condition was false

vars == <<debug, wires, failed>>

Wire == [q : Moduli, val : Field, max : Field, res : Nat]

AssertionNames == {"add_fits", "sub_operand", "sub_fits", "mod_fits",
                   "mod_needed", "range", "switch_modulus"}

\* proofsystem_libsnark.cpp undefines NDEBUG, so its own assertions are in
\* every build; the gadget header is included before that.
LiveAsserts == IF debug THEN AssertionNames ELSE {"switch_modulus"}

Require(name, condition) == IF condition THEN {} ELSE {name}

Running == /\ failed \cap LiveAsserts = {}
           /\ Cardinality(wires) < MaxWires

\* An operation's outcome: a failing live assertion aborts the program before
\* the wire exists, an assertion that is compiled out changes nothing.
Outcome(fails, w) ==
  /\ Running
  /\ failed' = failed \cup fails
  /\ UNCHANGED debug
  /\ wires' = IF fails \cap LiveAsserts = {} THEN wires \cup {w} ELSE wires

-----------------------------------------------------------------------------
(* Range checks and modular reduction *)

\* less_than_constant_gadget on A < B with A of the given bit size: the bit
\* decomposition of 2^n + (B - 1) - A has n + 1 bits and its top bit is 1.
LessThanConstant(A, B, bits) ==
  LET n      == Larger(bits, NumBits(B - 1))
      packed == Wrap(2^n + (B - 1) - A)
  IN  2^n <= packed /\ packed < 2^(n + 1)

\* Variant: the bound of a quotient is that of a division by q + 1.
MaxQuotientTooSmall(m1, m2, q) == Wrap(m1 * m2) \div (q + 1)

MaxQuotient(m1, m2, q) == Wrap(m1 * m2) \div q

\* ModGadget: out = in1 * in2 mod q.  The quotient and the remainder are range
\* checked against bounds computed from the inputs' bounds m1 and m2.
ModFails(v1, m1, v2, m2, q, strict) ==
  LET x    == Wrap(v1 * v2)
      maxq == MaxQuotient(m1, m2, q)
  IN  Require("mod_fits", NumBits(m1) + NumBits(m2) < FieldBits)
        \cup Require("mod_needed",
                     strict => NumBits(Wrap(m1 * m2)) >= CeilLog2(q))
        \cup Require("range",
                     /\ v1 <= m1 /\ v2 <= m2
                     /\ LessThanConstant(x \div q, maxq + 1, NumBits(maxq + 1))
                     /\ LessThanConstant(x % q, q, CeilLog2(q)))

ModOut(v1, v2, q) == Wrap(v1 * v2) % q

\* A wire reduced modulo q; res is the residue the FHE library has for it.
Reduced(v1, v2, q, res) ==
  [q |-> q, val |-> ModOut(v1, v2, q), max |-> q - 1, res |-> res]

-----------------------------------------------------------------------------
(* Operations *)

\* A public input is a coefficient of a ciphertext, below its modulus.
Fresh(q, v) == [q |-> q, val |-> v, max |-> q - 1, res |-> v]

PublicInput(q, v) == Outcome({}, Fresh(q, v))

\* LazyAddModGadget and constrain_addmod_lazy decide on this test.
AddOverflows(a, b) == 1 + Larger(NumBits(a.max), NumBits(b.max)) >= FieldBits

AddRes(a, b) == (a.res + b.res) % a.q

Sum(a, b) == [q   |-> a.q,
              val |-> Wrap(a.val + b.val),
              max |-> Wrap(a.max + b.max),
              res |-> AddRes(a, b)]

AddLater(a, b) ==
  /\ ~AddOverflows(a, b)
  /\ Outcome({}, Sum(a, b))

\* "addition would overflow field modulus, reduce now": AddModGadget.
AddNow(a, b) ==
  /\ AddOverflows(a, b)
  /\ Outcome(Require("add_fits", ~AddOverflows(a, b))
                \cup ModFails(Sum(a, b).val, Sum(a, b).max, 1, 1, a.q, TRUE),
             Reduced(Sum(a, b).val, 1, a.q, AddRes(a, b)))

\* LazySubModGadget; the result is in1 + q - in2.
SubOverflows(a) == 1 + Larger(NumBits(a.max), CeilLog2(a.q)) >= FieldBits

\* Variant: a difference is not reduced when the subtrahend is the smaller.
SubResUnreduced(a, b) == a.res + a.q - b.res

SubRes(a, b) == (a.res + a.q - b.res) % a.q

\* Variant: the bound of the subtrahend's complement is forgotten.
SubMaxOfMinuend(a) == a.max

SubMax(a) == Wrap(a.max + a.q)

Difference(a, b) == [q   |-> a.q,
                     val |-> Wrap(a.val + a.q - b.val),
                     max |-> SubMax(a),
                     res |-> SubRes(a, b)]

SubLater(a, b) ==
  /\ ~SubOverflows(a)
  /\ Outcome(Require("sub_operand", b.max <= a.q), Difference(a, b))

\* SubModGadget.
SubNow(a, b) ==
  /\ SubOverflows(a)
  /\ Outcome(Require("sub_operand", b.max < a.q)
                \cup Require("sub_fits", ~SubOverflows(a))
                \cup ModFails(Difference(a, b).val, Wrap(a.max + a.q - b.max),
                              1, 1, a.q, TRUE),
             Reduced(Difference(a, b).val, 1, a.q, SubRes(a, b)))

\* Variant: the test is off by one.
MulOverflowsTooLate(a, b) == NumBits(a.max) + NumBits(b.max) > FieldBits

\* constrain_mulmod_lazy, the product of two wires.
MulOverflows(a, b) == NumBits(a.max) + NumBits(b.max) >= FieldBits

MulRes(a, b) == (a.res * b.res) % a.q

Product(a, b) == [q   |-> a.q,
                  val |-> Wrap(a.val * b.val),
                  max |-> Wrap(a.max * b.max),
                  res |-> MulRes(a, b)]

MulLater(a, b) ==
  /\ ~MulOverflows(a, b)
  /\ Outcome({}, Product(a, b))

MulNow(a, b) ==
  /\ MulOverflows(a, b)
  /\ Outcome(ModFails(a.val, a.max, b.val, b.max, a.q, TRUE),
             Reduced(a.val, b.val, a.q, MulRes(a, b)))

\* LazyMulModGadget, the product of a wire and a constant below q (a twiddle
\* factor, or the inverse of the ring dimension).  Its test counts the bits of
\* in1_max_value twice and those of the constant never.
MulConstOverflows(a) == NumBits(a.max) + NumBits(a.max) >= FieldBits

MulConstRes(a, c) == (a.res * c) % a.q

Multiple(a, c) == [q   |-> a.q,
                   val |-> Wrap(a.val * c),
                   max |-> Wrap(a.max * c),
                   res |-> MulConstRes(a, c)]

MulConstLater(a, c) ==
  /\ ~MulConstOverflows(a)
  /\ Outcome({}, Multiple(a, c))

MulConstNow(a, c) ==
  /\ MulConstOverflows(a)
  /\ Outcome(ModFails(a.val, a.max, c, c, a.q, TRUE),
             Reduced(a.val, c, a.q, MulConstRes(a, c)))

\* Variant: a bound below twice the modulus counts as reduced.
NeedsReductionFromTwice(a) == a.max >= 2 * a.q

\* A pending reduction is resolved where the code needs a value below q: at
\* the output, before a subtraction, before a transform, before a key switch.
NeedsReduction(a) == a.max >= a.q

Reduce(a) ==
  /\ NeedsReduction(a)
  /\ Outcome(ModFails(a.val, a.max, 1, 1, a.q, TRUE),
             Reduced(a.val, 1, a.q, a.res))

-----------------------------------------------------------------------------
(* Switching the modulus *)

Half(q) == q \div 2

Distance(q, new) == IF q > new THEN q - new ELSE new - q

\* The input of SwitchModulusConstraint, reduced first if its bound asks.
SwitchFails(a) == IF NeedsReduction(a)
                  THEN ModFails(a.val, a.max, 1, 1, a.q, TRUE) ELSE {}
SwitchVal(a) == IF NeedsReduction(a) THEN ModOut(a.val, 1, a.q) ELSE a.val
SwitchMax(a) == IF NeedsReduction(a) THEN a.q - 1 ELSE a.max

\* is_less_than_constant_gadget on A < B: its output is the top bit of the
\* decomposition, which no constraint fixes.
IsLessThanConstant(A, B, bits) ==
  LET n == Larger(bits, NumBits(B - 1))
  IN  Wrap(2^n + (B - 1) - A) >= 2^n

\* The distance to take, 0 for the values in the lower half.
Shift(a, new) ==
  IF IsLessThanConstant(SwitchVal(a), Half(a.q) + 1, NumBits(SwitchMax(a)))
  THEN 0 ELSE Distance(a.q, new)

\* NativeVector::SwitchModulus on the coefficient itself.
SwitchRes(a, new) ==
  LET shift == IF a.res > Half(a.q) THEN Distance(a.q, new) ELSE 0
  IN  IF new > a.q THEN a.res + shift ELSE (a.res - shift) % new

Lifted(a, new) == [q   |-> new,
                   val |-> Wrap(SwitchVal(a) + Shift(a, new)),
                   max |-> new - 1,
                   res |-> SwitchRes(a, new)]

SwitchUp(a, new) ==
  /\ new > a.q
  /\ Outcome(SwitchFails(a)
               \cup Require("switch_modulus", Half(a.q) + Distance(a.q, new) < new),
             Lifted(a, new))

SwitchDown(a, new) ==
  /\ new < a.q
  /\ LET diff == Distance(a.q, new)
         tmp  == Wrap(SwitchVal(a) - Shift(a, new))
     IN  Outcome(SwitchFails(a)
                   \cup Require("switch_modulus", Half(a.q) > diff)
                   \cup ModFails(tmp, Larger(Half(a.q), a.q - 1 - diff), 1, 1,
                                 new, FALSE),
                 Reduced(tmp, 1, new, SwitchRes(a, new)))

\* The assertion that the two moduli differ.
SwitchSame(a) == Outcome({"switch_modulus"}, a)

-----------------------------------------------------------------------------
Init == debug \in BOOLEAN /\ wires = {} /\ failed = {}

\* Every operation on two wires is on wires of one modulus.
Pairs == {p \in wires \X wires : p[1].q = p[2].q}

Next ==
  \/ \E q \in Moduli : \E v \in 0 .. (q - 1) : PublicInput(q, v)
  \/ \E p \in Pairs : AddLater(p[1], p[2])
  \/ \E p \in Pairs : AddNow(p[1], p[2])
  \/ \E p \in Pairs : SubLater(p[1], p[2])
  \/ \E p \in Pairs : SubNow(p[1], p[2])
  \/ \E p \in Pairs : MulLater(p[1], p[2])
  \/ \E p \in Pairs : MulNow(p[1], p[2])
  \/ \E a \in wires : \E c \in 1 .. (a.q - 1) : MulConstLater(a, c)
  \/ \E a \in wires : \E c \in 1 .. (a.q - 1) : MulConstNow(a, c)
  \/ \E a \in wires : Reduce(a)
  \/ \E a \in wires : SwitchSame(a)
  \/ \E a \in wires : \E new \in Moduli : SwitchUp(a, new)
  \/ \E a \in wires : \E new \in Moduli : SwitchDown(a, new)

Spec == Init /\ [][Next]_vars

-----------------------------------------------------------------------------
(* Properties *)

TypeOK == /\ debug \in BOOLEAN
          /\ wires \subseteq Wire
          /\ \A w \in wires : w.res < w.q
          /\ failed \subseteq AssertionNames

\* No assertion was false, or one that was has ended the program.
Trusted == failed = {} \/ debug

\* The recorded bound of a wire is a bound of its value: every decision to
\* reduce later, every range check and every width rests on max_value, which
\* is computed apart from the values (expect_lessequal_maxvalue in the tests).
BoundInv == Trusted => \A w \in wires : w.val <= w.max

\* However reductions are postponed, a wire is congruent to the coefficient
\* the FHE library computed (expect_equal_mod in the tests): no sum,
\* difference or product has wrapped around the field order unnoticed.
CongruentInv == Trusted => \A w \in wires : w.val % w.q = w.res

\* The range checks of quotients and remainders, whose bounds come from
\* max_value and whose widths from its bit count, accept every honest witness,
\* and no gadget is asked for a reduction it refuses as unnecessary, unless a
\* size or operand assertion failed first.
SizeAsserts == {"add_fits", "sub_operand", "sub_fits", "mod_fits", "switch_modulus"}
RangeInv == failed # {} => failed \cap SizeAsserts # {}

\* A wire below its modulus is the coefficient itself, so what the output
\* constraints bind to the public output is the result of the computation.
OutputExact == Trusted => \A w \in wires : ~NeedsReduction(w) => w.val = w.res
=============================================================================
