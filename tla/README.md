# A TLA+ development of zkOpenFHE

zkOpenFHE is OpenFHE with a proof system: a program that computes on encrypted
data can also produce a rank-1 constraint system (R1CS) and an assignment that
satisfies it exactly when the computation was carried out as the program says.
This directory models the proof system, which is zkOpenFHE's own, and the parts
of the FHE library under it whose correctness depends on the order of calls or on
several threads: BGV's levels and scaling factors, its key switching, and what
the whole process shares: the maps of evaluation keys and the transform tables. Paths below are relative to the
repository root; short names are

| name | file |
|---|---|
| PH | `src/pke/include/proofsystem/proofsystem.h` |
| PL | `src/pke/include/proofsystem/proofsystem_libsnark.h` |
| PC | `src/pke/lib/proofsystem/proofsystem_libsnark.cpp` |
| GH | `src/pke/include/proofsystem/gadgets_libsnark.h` |
| BL | `src/pke/lib/schemebase/base-leveledshe.cpp` |
| RL | `src/pke/lib/schemerns/rns-leveledshe.cpp` |
| GL | `src/pke/lib/scheme/bgvrns/bgvrns-leveledshe.cpp` |
| GC | `src/pke/lib/scheme/bgvrns/bgvrns-cryptoparameters.cpp` |
| RP | `src/pke/lib/schemerns/rns-cryptoparameters.cpp` |
| KH, KB | `src/pke/lib/keyswitch/keyswitch-hybrid.cpp`, `keyswitch-bv.cpp` |
| DC | `src/core/lib/lattice/hal/default/dcrtpoly.cpp` |
| TN | `src/core/include/math/hal/intnat/transformnat-impl.h` |
| PE | `src/pke/lib/encoding/packedencoding.cpp` |
| CC, CP | `src/pke/include/cryptocontext.h`, `src/pke/lib/cryptocontext.cpp` |
| CF | `src/pke/lib/cryptocontextfactory.cpp` |
| CO | `src/pke/include/cryptoobject.h` |

## 1. Inventory

### 1.1 Proof system core (PH, PL)

*State.* `mode` (evaluation, constraint generation, witness generation), the
counter `global_wire_id`, the map `wire_id_to_metadata` from wire ids to the
gadgets that compute a wire's variables, the protoboard `pb` (variables, their
values, constraints, and the number of primary inputs), and, on each ciphertext
object, up to three pieces of metadata: its wire id, its constraint metadata
(linear combinations and bounds) and its witness metadata.

*Operations.* `SetMode`, `PublicInput`, `Encrypt`, `EvalAdd`, `EvalSub`,
`EvalMultNoRelin`, `EvalSquare`, `Rescale`, `EvalRotate`, `Relinearize`,
`KeySwitch`, `ConstrainPublicOutput`, `FinalizeOutputConstraints`. An operation
is the same call in every mode: it evaluates the ciphertexts, names the result
by a wire id, and then either adds constraints and files the gadgets under that
wire id, or finds the gadgets by that wire id and runs them.

*Hard behaviour.* Everything depends on two sequences of calls agreeing: names
must be unique within a sequence and equal across the two, gadgets must run in
an order in which their inputs are known, and what one mode leaves behind
(the map, the metadata on objects, the counter) must not mislead the next.

*Correctness.* A replay on any data satisfies the constraints, its linear
combinations equal the ciphertexts it computed, it never asks for a wire id that
was not filed, it does not change the constraint system; the primary input is
what was declared public; the output variables equal the result.

### 1.2 Lazy modular arithmetic (GH)

*State.* None of its own; each wire carries `max_value`, a bound, from which the
code decides whether a sum, difference or product still fits below the order of
the field, so that its reduction modulo the ring modulus can be postponed.

*Operations.* The range-check gadgets, `ModGadget` and its relatives for a
reduction, and the lazy addition, subtraction, multiplication by a wire and by a
constant, each with a branch that reduces at once and one that reduces later;
and the switch of a coefficient to another modulus (PC 1200).

*Hard behaviour.* The decisions are made on bit counts, at the edge of the field;
the assertions that guard them are compiled out in a Release build, which is the
default (`CMakeLists.txt` 53). Those of PC itself are live in every build, for it
undefines `NDEBUG`; GH is included before that (PC 18 and 25), so the gadgets' own,
that of the subtrahend (GH 451) among them, are not.

*Correctness.* Bounds are bounds, values stay congruent to what the FHE library
computes, range checks accept honest witnesses.

### 1.3 Levels and scaling factors of BGV (BL, RL, GL, GC)

*State.* A ciphertext's towers, level, noise scale degree and scaling factor; the
tables of scaling factors of a context.

*Operations.* Sums, differences, products and squares of ciphertexts and
plaintexts, on copies or (the `Mutable` forms) on the operands; `ModReduce`,
`LevelReduce`, `Compress`, `Decrypt`. In the automatic techniques each of them
first brings its operands to one level and degree by multiplying with a quotient
of scaling factors and declaring the result to have the other's factor.

*Hard behaviour.* A wrong table entry or one level too many gives a wrong
plaintext and no error; a `Mutable` call that throws has already changed its
operands; a ciphertext can reach a level in many ways.

*Correctness.* Whatever the order of operations, results decrypt to the same
arithmetic on messages, operands agree before they are combined, and a program
within the multiplicative depth never runs out of towers.

### 1.4 Key switching and its keys (KH, KB, RP, and multiparty and PRE)

*State.* The special primes and tables of a context, evaluation keys (vectors of
pairs, one for each digit), the shares and sums of threshold keys, digits made
beforehand for several rotations.

*Operations.* Making a key for a secret or a public key; the decomposition of an
element into digits (HYBRID: groups of towers, extended to all moduli; BV: bit
windows of a tower); the inner product with the key; the division by the special
modulus P that keeps residues modulo t. Relinearization, rotation, re-encryption
and rotations with shared digits use them. Two parties make a joint key in three
rounds: shares over the same uniform elements, products with each one's secret,
and their sum.

*Hard behaviour.* Index arithmetic over towers, digits and special primes that
differs with the level; a last digit with fewer towers, by the parameters and
again by the level; tables indexed by level and digit; approximate changes of
basis that are off by a multiple of a modulus; the sign and scale of errors that
must vanish modulo t.

*Correctness.* Each key switches between the secrets it is for; digits are
integers of bounded size that stand for the element; products meet the right
towers; ciphertexts decrypt right while their noise fits.

### 1.5 Transform tables and encodings (TN, PE, DC)

*State.* Static maps from moduli to the tables of the number theoretic transform,
each for the ring dimension it was last computed for; the roots of unity of
packed encodings; a random number generator for each thread. All are shared by
the process and filled on first use.

*Operations.* A transform looks its modulus up without a lock, and computes the
tables, in an `omp critical` region without a name, if they are missing or of
another ring; making or loading a context fills them for its moduli; `SwitchFormat`
divides the towers of an element among the threads of a team.

*Hard behaviour.* Look-ups outside a lock against insertions inside; two contexts
that share a modulus throw each other's tables away; all unnamed critical regions
of the process are one lock, so that entering a second inside a first is waiting
for oneself.

*Correctness.* No thread looks into a map another is inserting into; each
transform uses the tables of its modulus and ring throughout; every loop ends.

### 1.6 Crypto contexts and the maps of evaluation keys (CC, CP, CF, CO)

*State.* The factory's list of contexts, which makes equal parameters mean one
object; on every key and ciphertext a pointer to its context and the tag of its
private key; three maps, static and so shared by all contexts, from tags to the
keys for products (by value), for sums and for automorphisms (by pointer).

*Operations.* Making contexts and keys, making rotation keys again (they are
merged into those that are there), inserting a map the program holds, clearing
all keys, those of a tag or of a context, writing keys to a stream and reading
them back, which asks the factory for their context.

*Hard behaviour.* A map object may be pointed to by two of the maps and by the
program, and is merged into in place; every check that two objects belong
together compares pointers, and the factory can forget its contexts while keys
still have them; the context of an entry is read off its first key only.

*Correctness.* Keys found under a tag are for it, and of the context of the
private key; no step takes away a key it was not asked to.

### 1.7 Programs (tests, examples, benchmark)

They declare inputs, call operations in generation mode, declare and finalize an
output, and repeat the calls in witness mode; the benchmark repeats the replay
in a loop. The order of those calls is the protocol, and it is nowhere enforced.

### 1.8 How the parts interact

| component | called by | shared state |
|---|---|---|
| arithmetization (PC) | proof system core | the protoboard, metadata of ciphertexts |
| lazy gadgets (GH) | arithmetization | the protoboard |
| libsnark protoboard (git submodule, not in the tree) | every gadget | values, constraints, input size |
| leveled operations | the proof system, to compute what a replay is compared with | the ciphertext object, adjusted in place by `Mutable` calls |
| key switching | relinearization, rotation, re-encryption | evaluation keys, tables of the context |
| maps of evaluation keys | every operation that switches keys, by the tag of its ciphertext | static maps, the factory's contexts |
| transforms | every product, encoding and key switch | the process's tables |

The hazards of all this are listed, each at its line, in `PROJECT.json`.

## 2. Modules

| module | models | lines of code it stands on |
|---|---|---|
| `LazyArith` | lazy gadgets, range checks, the modulus switch of PC, and the FHE library's coefficientwise operations | GH, PC 1200 |
| `ProofSystem` | public inputs, sums, products, squares and outputs as whole handlers in all three modes | PH, PL, PC |
| `ProofClient` | programs that use `ProofSystem` | tests, examples, benchmark |
| `LeveledSHE` | towers, levels, degrees, scaling factors and phases of BGV ciphertexts | RL, GL, GC, BL |
| `TransformService` | what transforms promise their callers (abstract) | TN 555 |
| `TransformTables` | the shared tables, generators and critical regions, and the threads that use them | TN, PE, DC, RP |
| `RnsArithmetic` | the arithmetic of `DCRTPoly` on one coefficient | DC |
| `KeySwitch` | evaluation keys of one party or two and their use | KH, KB, RP, multiparty, PRE |
| `KeyMaps` | the factory of contexts and the maps of evaluation keys | CC, CP, CF, CO |

`MC...` modules give the constants small values. `LazyArithProofs`,
`ProofClientProofs`, `WitnessProofs`, `LeveledSHEProofs`,
`TransformTablesProofs`, `KeySwitchProofs` and `KeyMapsProofs` hold theorems;
`ArithmeticTheorems` the facts about remainders, recurrences, folds and finite
sums that several of them need. `ProofClient` composes programs with
`ProofSystem`, `KeySwitch` is built on `RnsArithmetic`, and `TransformTables`
implements `TransformService`. Definitions marked `Variant:` (or said to differ
from the code in their comment) are the mutants of `PROJECT.json`; no
specification uses them.

### 2.1 `LazyArith`

A state is the set of wires built so far for one coefficient of a ciphertext. A
wire is a record of its limb modulus `q`, the value `val` an honest prover gives
it (a field element), its recorded bound `max`, and `res`, the residue that the
FHE library computed for the same coefficient by operations of its own
(`AddRes`, `SubRes`, ..., `SwitchRes`). Each lazy operation of the code is two
actions, one for each branch of the code's overflow test: `AddLater` and
`AddNow`, and so on. An operation's assertions are collected in `failed`, with
the build (`debug`) deciding which of them end the program: PC undefines
`NDEBUG` so `switch_modulus` is live always, GH is included earlier, so its
assertions exist only in a Debug build. After a false assertion that is compiled
out, nothing is claimed (`Trusted`).

`NumBits` is the bit count of a bound, `Wrap` is arithmetic in the field; the
range checks are modelled by what their bit decompositions accept.

### 2.2 `ProofSystem` and `ProofClient`

Each call of the API is an operator with one disjunct for each mode and outcome:
normal, `"threw"` (metadata or a wire id that is not there), `"aborted"` (an
assertion that is compiled in), `"undefined"` (memory outside a vector is read). The
protoboard `pb` is a record of the values, the number of primary inputs, and the
constraints; linear combinations are functions from variables to coefficients.
`ctxts` is the sequence of ciphertext objects with their metadata, because what
a clone inherits matters. Wire ids are tuples: the code's strings with the same
structure. A ciphertext has one coefficient for each polynomial and limb, and
all limbs have one modulus `Q`. Values are elements of a field of order `P`
(`Wrap`). Operations whose result leaves less than two bits of the field are not
made (`FieldHasRoom`), so that no reduction becomes due inside an operation; that
is the subject of `LazyArith`.

`OperandsFit` has the assertions on operands: those of PC (equal dimensions, two
polynomials for a product) in every build, and that of `LazySubModGadget`, the
subtrahend bounded by its modulus (`SubtrahendReduced`), if the constant `Debug`
says that it is compiled in. `EvalSubConstraint` (PC 487) checks nothing of the
kind: in the default build the difference goes on, and `in1 + q - in2` may be
negative and wrap in the field. What is claimed of such a program is that its
replay satisfies the constraints, stops at no call and keeps the constraint system;
that linear combinations equal coefficients (`ReplayEqualMod`, `LateOutputBound`) is
claimed if each of its subtrahends is one the assertion would let pass (`Trusted`).

`ProofClient` is the environment: a program, chosen call by call, generates
constraints and is then replayed on other data. What programs of a kind do
(their inputs, operations, when they declare and finalize an output, whether
they loop) is a record in `Kinds`: the unit tests, which may evaluate first and
generate twice, the benchmark, which replays in a loop, the examples. `program`
records the calls and `replayed` tells which object of the replay corresponds to
which of generation. `UpToDate` is an assumption on programs: inputs are declared
again in a new generation before anything else is done with them, an output's
finalization included. A generation starts with an output of its own to declare
(`out_vars` is the program's variable: the code hands the vector to the caller),
and the replay finds the one its generation declared. An input's content is a
sequence of polynomials, one at least, with a residue for each limb
(`ClientAssumption`).

### 2.3 `LeveledSHE`

A ciphertext is its metadata (towers, level, degree, scaling factor) and its
phase, the residue modulo t that its elements decrypt to. `ModReduceInternal`
and `LevelReduceInternal` are the two ways to drop a tower; `AdjustForAddOrSub`
and `AdjustForMult` what the four techniques do before each operation. A state
gives ciphertexts and their intended messages to the program's variables; the
`Mutable` actions change the operands too, also when they throw
(`EvalMultMutableThrows`). `depth`, the multiplications in sequence behind a
ciphertext, is a history variable for two properties. In `FIXEDMANUAL` a program may
reduce a ciphertext more often than it multiplied: nothing checks the degree, which
then wraps below zero (here it is negative), and only `Compress` notices, running
out of towers (`CompressThrows`).

### 2.4 `TransformTables` and `TransformService`

Each thread has a list of calls (`todo`) and a program counter. The steps of a
transform are those another thread can come between: the look-up (`Find`), its
repetition in `PreCompute` (`Check`), entering the critical region, the writing
of the first table (`WriteRoots`) and of the rest (`WritePrecon`), the second
look-up (`Read`) and the computation up to the return. `roots` and `precon` give
for each modulus the ring its tables are for. The main thread makes and loads
contexts and encodes, when all threads are at the barrier, and starts parallel
loops: the library's own over the towers of an element (`SwitchFormat`, with
every division into chunks), and the program's (`ParallelLoop`), for which
everything must have been computed before (`Warm`: programs that encode for the
first time inside a parallel loop are outside the model, and there the look-up
of `PackedEncoding` would race).

`TransformService` is what a caller sees: a thread asks for a transform of a
modulus and a ring and gets one for them. The mapping takes a thread's current
transform call for `want` and, for `got`, the request answered last, provided all
tables it read were of that ring, and something that is no request otherwise.

### 2.5 `RnsArithmetic` and `KeySwitch`

Elements are exact integers in residue number form: one coefficient, in a ring
of degree one, where a product of polynomials is a product of numbers. What the
code does to each coefficient alike is so modelled in full: the tables of
`PrecomputeCRTTables`, the special primes it searches for, both forms of
`ApproxSwitchCRTBasis` (with and without 128-bit integers), `ApproxModDown`,
`ModReduce`, windows and powers of BV. An automorphism permutes coefficients, of
which there is one; what remains of a rotation is the change of secret, so that
a ciphertext is switched once, from `S` to `Z`. Uniform and Gaussian draws are
picked from small sets (`Uniforms`, `noises`); the ternary draw of
`KeySwitchGenPublic` is one for all digits. `Accepted` is where
`PrecomputeCRTTables` refuses parameters.

What the moduli are modulo t depends on the scaling technique
(`bgvrns-parametergeneration.cpp` 142-167, 404-461), and so it does here
(`ModulusAssumption`). For `FIXEDMANUAL`, for `FIXEDAUTO` and for a given number of
bits they are searched for in steps of a multiple of t, so they are one modulo t.
For `FLEXIBLEAUTO` and `FLEXIBLEAUTOEXT`, the default, with automatic moduli they are
primes that are one modulo the cyclotomic order only, and each reduction brings a
factor `q^-1` modulo t into the message. There a ciphertext carries a scaling factor
modulo t, the variable `scale`: a fresh one has that of the tables (`FreshFactor`), a
square squares it, a reduction divides it (`ReducedFactor`), and a decryption divides
the plaintext by what is left of it (`Decrypt`). With the fixed techniques it stays 1.
The special primes are one modulo t in every technique (`FindAuxPrimeStep`).
`EvalSquare`, `ModReduceInPlace` and `LevelReduce` are the internal operations
(`EvalSquareCore`, `ModReduceInternalInPlace`, `LevelReduceInternalInPlace`), in any
order; which of them the calls of each technique combine is the subject of
`LeveledSHE`.

`noise` is a history variable: a bound of the phase, added up from `SwitchNoise`
and `Rescaled` as the operations are made. Operations are enabled while the bound
fits the towers (`Budget`): it is the caller's duty to choose parameters that
large, and `DecryptsRight` claims nothing beyond. The guard makes the claim no
weaker where the code is wrong: the bound is computed from the parameters, never
from the ciphertext. A rotation with digits made beforehand adds the noise of as
many digits as were made, which may be more than a ciphertext that has lost towers
since would have in BV (`Switchable`, `Switched`).

### 2.6 `KeyMaps`

A context is the parameters it was made with (`made`); the factory knows some of
them (`AllContexts`). A key is its tag and its context. What a `shared_ptr`
points to matters here, so the maps of indices to keys are objects of a small
heap: `keyMap[k][t]` is the object filed in map `k` under tag `t`, `object[m]` its
contents, `held` one that the program has a pointer to. An object nothing points
to is emptied (`Contents`) and may be allocated again. The vectors of keys for
products are objects of the same kind, filled from the first index without a gap
(`IsVector`) and never shared.

`GetContext` is the factory's look-up: for parameters it knows it answers with
that context, for others with a new one. `LoadPrivateKey` and `Deserialize` ask it
for the parameters written with an object (`CryptoObject::load`). A parameter set
stands for what `FindContext` compares, parameters and scheme. `Deserialize` reads
keys for products into the map of the process, which reading empties first; the
archive's function for maps is not in the tree (cereal, a submodule), and clears
its argument before it inserts. `EvalKeyGen` covers the generations that replace
what is filed, `EvalAtIndexKeyGen` the one that merges
(`EvalBootstrapKeyGen`, CP 640, merges in the same way).

The constant `Programs` says which kinds of keys, private keys and parameters a
program uses; `program` is chosen at the start and never changes. It keeps the
instances small and restricts nothing else: the proofs are for any programs.

## 3. Runs

### 3.1 Passing runs

| run | what is asked | states | bounds |
|---|---|---|---|
| `Lazy` | bounds, congruence, range checks, exactness of outputs | 72956 | `P = 257`, 9 bits, moduli 5 and 7, four wires |
| `Replay` | a replay fills in the assignment, agrees with the ciphertexts, never stops, keeps the constraints; outputs finalized last are bound; the primary input is what was declared first | 597226 | Release build, `P = 8191`, modulus 5, two limbs; tests: two inputs, four calls, two generations; benchmark: one input of two or three polynomials, four calls, all points of finalization, loop |
| `Levels` | results decrypt right, scaling factors are canonical, operands agree, levels count multiplications, no product within the depth throws | 7784 | two ciphertexts, four moduli, t = 5, all four techniques |
| `Tables` | tables agree, no race, the critical region is left, implements `TransformService`, loops end | 195667 | three threads, two rings that share two moduli and a plaintext modulus |
| `Switching` | digits, keys, noise, decryption | 143032 | eleven sets of parameters, eight fixed and three flexible |
| `Keys` | keys under their tag, one context for a tag, nothing lost unasked, clearing by context | 90531 | two contexts ever made, three map objects at once, two indices; three programs of up to two private keys |

*Why the bounds are enough.*

- `Lazy`: in a nine-bit field with three-bit moduli a product of two fresh wires
  fits and the next does not, so with four wires each branch (reduce later, reduce
  now) of each operation occurs, also on wires whose bound is not `2^k - 1`; both
  moduli give switches in both directions.
- `Replay`: the shortest program in which names or objects can be confused is two
  inputs and two operations on them; the second generation is what meets a stale
  map. All moduli and limbs are treated alike by the modelled code, so two of each
  suffice, except where the code confuses limbs with polynomials: that is the run
  `ThreeLimbs`. In a field of thirteen bits a product of sums of sums still fits, and
  a difference with an unreduced subtrahend, `a - (b + b)`, wraps: the run has such
  programs, and would find `ReplayEqualMod` violated without `Trusted`.
- `Levels`: with four moduli there are levels two apart and levels at both ends of
  the tables; the moduli have different residues, so that no scaling factor is
  mistaken for another. The state space is finite by itself in the automatic
  techniques; `MaxDeg` bounds the degree in `FIXEDMANUAL`,
  above and below zero.
- `Tables`: three threads are one that computes, one that waits and one that
  looks; two contexts are enough to throw each other's tables away. The proofs
  are for any number.
- `Switching`: of the flexible settings one is HYBRID with `FLEXIBLEAUTO`, one
  HYBRID with `FLEXIBLEAUTOEXT` (fresh ciphertexts of degree two), one BV; their
  moduli are not all one modulo t, which is 5 or 3. Moduli from 3 to 251, since every sum of the code must fit in the
  32-bit integers of the checker; digits of one, two and several towers, a last
  digit with fewer, a number of digits the towers cannot be distributed into, two
  special primes, whole towers and windows of three and four bits in BV; every
  use of a key and two parties. Secrets are ternary, as the library's, and noise
  is -1, 0 or 1 in two patterns; the uniform draws are one fixed pattern, since
  they cancel out of every phase. The first modulus is large enough that a
  decryption at the lowest level still has room.

- `Keys`: two private keys are one whose keys are touched and one whose keys must
  not be; two contexts are one that was forgotten and one of the same parameters
  made after it, or two of different parameters; three map objects are two that
  are filed and one that the program holds. One of the programs uses keys for sums
  and for automorphisms, so that one object can be filed in both maps. The proofs
  are for any number of all of them. Contexts, map objects and private keys are
  interchangeable, so the run uses symmetry in all three; the program with one
  private key is the only initial state of its orbit, so it loses nothing by it.

Deadlock is checked in `Tables` only, where the program always has another call
to make. In the others a program may stop after any call.

### 3.2 Runs that show a disagreement

Each checks one property, which says what a comment, an assertion or a test says:

| run | what it shows |
|---|---|
| `RepeatedCall` | the same product made twice has one wire id; the variables of the first get no witness |
| `FinalizeInGeneration` | finalizing in generation mode freezes the outputs at the zero assignment |
| `ReducedOutput` | an output with no pending reduction is constrained to variables that nothing assigns |
| `ThreeLimbs` | the witness of a public input covers as many limbs as there are polynomials |
| `FirstDraw` | the first encoding after loading a context with BV key switching draws its first random number inside a critical region, whose entry is another one: the thread waits for itself |
| `LoadedMultKeys` | reading keys for products of one private key takes away those of another, where the comment says that matching keys are replaced |

Three more disagreements are left to the reader of the models. The branch "reduce
now" of a lazy sum (GH 391) builds a gadget that asserts the opposite of the
branch's condition: in `LazyArith`, `AddNow` always fails `add_fits`. A difference
whose subtrahend is a sum that has not been reduced is refused by an assertion of
the gadget (GH 451) that the default build does not have: there `a - (b + b)` is
accepted, wraps in the field when `a + q < 2b`, and the linear combination of the
result is no longer congruent to the coefficient; `Trusted` excludes it. And an output
declared after a product, as in `verifiable-simple-integers-bgvrns.cpp` 130,
makes the product's variables the primary input (PC 1158), since libsnark takes
the first variables for it: `DeclaredFirstIsPrimary` holds only of programs that
declare everything first.

Each property of a passing run has a mutant in `PROJECT.json`: a change of the
model of the kind a bug in the code would make, under which the run finds the
property violated.

### 3.3 Fairness

Only `TransformTables` and `TransformService` state fairness; all other
properties are safety properties of sequential code, and what a program must
eventually do is up to the program. `TransformTables` assumes weak fairness of
each thread's steps: the operating system runs every thread that can go on. It
assumes nothing of the lock. A thread that waits for the critical region is not
served in order, and weak fairness does not promise it the lock while others keep
taking it; loops end all the same, because each other thread has finitely many
calls before the barrier. That argument would not hold for a program without
barriers. `LoopsEnd` is checked with contexts whose key switching is HYBRID;
with BV loading, the run `FirstDraw` shows a loop that does not end. The part of it
that needs no fairness, that threads never all wait for one another
(`SomeoneGoesOn`), is proved (4.5).

## 4. Proofs

Everything listed here holds for all values of the constants that satisfy the
modules' assumptions; where a theorem assumes more, it is said with it.

### 4.1 Lazy arithmetic

For every field order and bit count with `2^(FieldBits-1) < P <= 2^FieldBits`,
every set of moduli above 2 with `3q < P`, both builds and any number of wires:
`TypeCorrect` (`TypeOK`), `BoundsHold` (`BoundInv`), `ResiduesHold`
(`CongruentInv`), `OutputsExact` (`OutputExact`), `RangesAccept` (`RangeInv`).

A modulus is a limb of one machine word and the field that of a pairing-friendly
curve of well over a hundred bits, so `3q < P` is far from tight. It is what the
modulus switch needs: the number it decomposes, `2^n + q/2 - x`, can reach `2(q-1) + q/2`.

The inductive invariant is `IInv`: `TypeOK`, `BoundInv`, and, for every wire,
`max >= q - 1`. The last part is needed because the modulus switch and the
subtraction bound a result by the modulus and not by the operands, and because
the overflow test of `LazyMulModGadget` counts the bits of the wire's bound in
place of those of the constant: it is sound only while the constant is no larger
than the bound. `BoundInv` alone is not inductive for that reason.

The argument: when the overflow test of an operation is false, the bit counts
show that the operation on the bounds stays below `2^(FieldBits-1) < P`
(`SumFits`, `ProductFits`), so neither the bound nor the value wraps around
(`WrapFacts`), and monotonicity gives the bound of the value. When it is true,
the result is a residue (`ReducedGood`). The lemmas `StepAdd` to `StepSwitch`
treat one operation each, `OutcomeInv` what they share. `PowerAssumption` states
two facts of powers of two up to the field's bit count (`^` has no definition the
provers can use); `LeastNat` uses the smallest element principle to show that a
bit count exists. TLC evaluates all assumptions in the run `Lazy`.

The residues build on the bounds: the inductive invariant is
`RInv == IInv /\ CongruentInv`, since a value keeps its residue only as long as its
bound shows that it has not wrapped around the field order. Where an operation is
postponed, the bound lemmas also give the value as an integer sum, difference or
product (`SumGood` to `LiftedGood`), and `ModArith` carries the residues over
(`SumExact` to `MultipleExact`). Where it is reduced at once, the gadget's size
assertion is false by the test just made, so no trusted state follows
(`SizeFails`); the exception is the multiplication by a constant, whose test asks
for reductions of products that fit, and these are reduced correctly
(`ResidueMulConst`). `ShiftExact` shows that the switch's comparison by bits takes
the distance exactly for coefficients in the upper half, with `NumBitsTight`
keeping the comparison below the field order, and `LoweredExact` uses the assertion
of the code that half the old modulus exceeds the distance. `OutputsExact` follows:
a value below its modulus is its own residue.

`RangesAccept` needs `RInv` and no more: it speaks of the gadgets a next call
would build. Where an operation is postponed and its result reduced later, the
bit counts leave a bit of the field free, so the product that the quotient check
looks at stays below the field order (`ProductRoom`); the quotient of a value is
at most the quotient of its bound, as division respects the order
(`QuotientFacts`), and so lies in the range whose width `NumBitsTight` bounds
(`RangeAccepts`, `ModAccepts`). The gadgets of sums, differences and products of
two wires that are reduced at once have failed an assertion of their own
(`ModBlamed`, `OutcomeBlamed`), which the property excuses.

### 4.2 Proof system: types and control

`ProofClientProofs`, for every modulus, number of limbs and set of kinds of
programs: `TypeCorrect` (`TypeOK`), `DeclaredArePrimary`
(`DeclaredFirstIsPrimary`), `ConstraintsAreKept` (`ReplayKeepsConstraints`) and
`ReplaysNeverStop` (`ReplayNeverStops`). The last has a hypothesis, `FitsKinds`:
programs that set the mode before each replay have inputs with no more polynomials
than limbs, since `PublicInputWitness` reads beyond the limbs of a longer one (the
hazard at PC 368). No hypothesis is needed about repeated calls: a repeated call
overwrites gadgets, but leaves some to be found.

The invariant `Inv` has three parts. `Types` says that there are as many variables
as the protoboard claims and everything that is kept mentions only those.
`PrimaryFirst` adds to `DeclaredFirstIsPrimary` that until the first operation
there are no other variables at all; the property is not inductive without it.
`Run`, which holds until the program stops, ties the map of gadgets to the
program: every call of generation was allowed when it was made (`CallOK`), its
object has the wire id that operation and operands determine (`Wire`), under that
id there is an entry over the variables there are, and the replay has made as many
objects, with the same wire ids (`Mirrors`), and counted as many public inputs
(`WireCount`). Objects that may have metadata of an earlier generation are
excluded (`Usable`), which is where `UpToDate` is needed; and for the benchmark's
loop, which does not set the mode again, the map holds no public wire id beyond
those of the program (`LoopFiled`), so that the second round stops with its first
declaration rather than assign another input's variables.

### 4.3 Proof system: the witness

`WitnessProofs`, on top of it: `ReplayWitnesses` (`ReplaySatisfied`),
`ReplayAgrees` (`ReplayEqualMod`) and `LateOutputIsBound` (`LateOutputBound`). All
three are about programs that make no call twice on the same ciphertexts
(`~Habit.repeatCalls`), in Debug and Release builds, over any field with `4Q < P`. The
last two are about inputs with a polynomial for each limb at least (`Covers`) and, in
a Release build, programs whose subtrahends are bounded by the modulus (`Trusted`,
which is part of the two properties; in a Debug build it is always true, for there
the assertion stops any other). The runs `RepeatedCall` and `ThreeLimbs` show that the
first two hypotheses cannot be dropped; the third cannot for the reason given in 3.2.

The invariant is `WInv`: `Inv`, and for these programs, as long as they have not
stopped, `WRun`:

- `Traced`: what a call of generation recorded can be read off its objects. There
  is a number of variables, the call's *layer*, such that operands and earlier
  gadgets are over the variables up to it, and the call's own gadgets write one
  variable each above it (`DeclaredShape`, `OperatedShape`); and the gadgets filed
  under the call's wire id are its own (`FiledIs`). This holds because different
  calls have different wire ids (`Apart`): `ObjectsApart`, `DeclarationFresh` and
  `OperationFresh` show it by the order of the calls, no two of which are the same.
- `Free`: no linear combination or gadget mentions a variable of the output, so that
  assigning these later changes nothing that was computed.
- `FromCalls` (`Complete`): every constraint is that of a gadget of some call, until
  an output is finalized.
- `SoFar`: after c calls of a replay the gadgets of the first c calls are computed
  (`Sat`), and what is recorded of each usable object agrees with the content of the
  object that the replay made for it (`Right`, `Agrees`): congruent modulo Q and
  within the bound. The second half is for programs that are `Reliable` (`Covers` and
  `Trusted`); `TrustedStays` shows that what is `Trusted` at the end was so at each
  earlier call, since what is recorded of an operand does not change.
- `Witnessed`: the three properties, at the end.

`SatHolds` is the argument for the first theorem: computed gadgets satisfy their
constraints, and there are no others. For the second, `OperationRun` and
`DeclarationRun` go through one call: the gadgets read only variables below their
layer, so they can be run in order (`RunComputes`), earlier values stay
(`StaysComputed`, `AgreesStays`), and the value of the result's linear combination is
that of sums, differences and products of the operands' (`LinearAgrees`,
`QuadraticAgrees`, from `CombineValue`: the value of a combination is linear), which
does not wrap, because it is bounded by the recorded bound (`FieldHasRoom`) and, for a
difference, not negative (`SubtrahendReduced`). For the
third, `FinalizeKeeps` and `FinalizeBinds` compute the values that finalizing
assigns: remainder and quotient of each output coefficient. The replay of the
benchmark's loop claims nothing in later rounds, whose first declaration stops it.

TLC evaluated the parts of `WRun` that can be evaluated in every state of the run
`Replay` before they were proved.

### 4.4 Levels and values

`LevelsCountMultiplications` (`LevelInv`) and `DepthIsEnough` (`DepthSuffices`),
for any plaintext modulus, number of moduli, variables and messages. The
inductive invariant says that every ciphertext is `Good`: level and towers add up
to the number of moduli, and in the automatic techniques the degree is one or two
and level and degree count the multiplications. The proof follows the code: a
lemma for each way to drop a tower (`ModReduceShape`, `LevelReduceShape`), one
that a lowered operand meets the other's level and degree (`LowerMeets`), that
both adjusted operands are good and agree (`AdjustGood`, `AdjustAgree`), that a
product leaves a good result, and one for storing results (`StoreWithGood`), also
those of a call that throws.

For the values, `TypeCorrect` (`TypeOK`), `DecryptionRight` (`DecryptsRight`),
`CompressionRight` (`CompressKeepsMessage`), `FactorsCanonical` (`CanonicalFactor`)
and `AdjustmentAgrees` (`OperandsAgree`), under the assumption that each modulus has
an inverse modulo t (`LevelAssumption`), as distinct primes have. The invariant
`VInv` says that every ciphertext is `Kept`: good, with the scaling factor
`Canon(level, deg)` and a phase that is the message times that factor, which has an
inverse (`Encodes`). None of the properties is inductive alone: an operand one level
up is multiplied by a quotient of factors and then *declared* to have the other's
factor, which is right only if both had the factors of the tables (`StepDown`,
`LowerRight`). The proof first gives the residues with inverses the laws of a group
(`Cancel`, `UnitProduct`), shows by the folds that the tables are made of that their
entries are such residues (`LastModuliUnit`, `TableUnits`), and that reducing a
product's factor gives the factor of the next level (`ReduceCanon`), the entry of
`FLEXIBLEAUTOEXT` that is never set being read by no one.

### 4.5 Transform tables

For any threads, rings, chains of distinct moduli: `TypesAlways` (`TypeOK`),
`TablesAgreeAlways` (`TablesAgree`), `NoRaceAlways` (`NoRace`), and
`TransformsAreRight`, the safety part of the refinement: `Spec` implies
`Service!Init /\ [][Service!Next]_(Service!vars)`. The invariants build on one
another:

1. `Base`: types, which call a thread is in at each place (`Places`), and that a
   thread in a critical region holds the lock (`Mutex`), which the thread that
   draws a random number inside `SetParams` does too.
2. `AgreeInv` adds that the tables agree except for the modulus whose second
   write is due (`Agree`), and that its first table is the writer's (`Written`):
   neither is inductive without the other.
3. `TableInv` adds what the threads of a loop are doing (`Loop`: transforms of
   distinct towers of one context, or calls that find everything computed), and
   that the towers of a context have entries or the main thread is about to make
   them (`Present`). `NoRace` follows: two threads in different calls have
   different moduli and insert nothing.
4. `UseInv` adds that from its second look-up to its return a transform has its
   own tables; every step then is a request, an answer, a collection or a
   stutter (`Simulates`).

Two more theorems are about the region itself. They are the other half of what the
run `FirstDraw` shows, and they assume what that run drops, that every context a
program loads has HYBRID key switching (`KeySwitching \subseteq {"HYBRID"}`;
contexts it generates may be of any kind): `GeneratorAlwaysAtHand`
(`GeneratorAtHand`: no thread asks for its generator inside the region) and
`RegionAlwaysLeft` (`SomeoneGoesOn`: the threads with calls left never all wait for
the region). Neither is inductive; `SupplyInv` adds to `Base` that whoever has the
lock is in the region (`Held`, the converse of `Mutex`), and why nobody draws a
first random number there (`Supplied`): once there is a context, the main thread
has its generator or the call that makes it before the next barrier, so it has one
when it encodes; and a thread without a generator packs only where the root is
known already, since only the main thread encodes for the first time. A context
loaded with BV key switching breaks the first of these, and the run `FirstDraw`
ends in the state that the theorem excludes.

Liveness (`LoopsEnd`, and the fairness of `ImplementsService`) is model-checked:
that a thread which waits for the region enters it at last, and that no one goes on
for ever before the barrier.

### 4.6 Key switching

`TowersAlwaysMatch` (`TowersMatch`), for any moduli, digits, special primes and
levels, in both techniques: the moduli of a digit are those of the towers of the
key. The invariant is `Params` (the parameters do not change, BV has no special
primes), `Basis` (a ciphertext has the first moduli, as many as towers) and
`DigitInv` (so had the ciphertext digits were made of). The heart is
`Complement`: the k-th modulus of the complementary basis of a digit, found by
division of k by the digit's size with a step over the digit itself, is the k-th
modulus outside it; it rests on facts of division (`Division`, `DivisionBound`)
and on where a digit's towers lie among those that are left (`PartsOfTowers`).

`KeysAlwaysSwitch` (`KeysSwitch`), for any moduli, digits, secrets and draws:
every key, of one party or of two, made with a secret or a public key, decrypts
under the secret it switches to, to what its digits hold of the secret it switches
from, with one small error in all towers. `KeysSwitch` speaks of residues and of an
error read from tower 0; it is not inductive, since a residue no longer tells how
large the integer was that it came from. The invariant `KeyInv` says it of
integers: `KeyOK(key, x, y)` is that every digit has an error `e` within the key's
bound and, in every tower, integers `u` and `v` with the residues of the key's two
elements such that `v + u*y = f*x + T*e` over the integers, `f` being what the
digit multiplies a secret with. Then:

- both kinds of key generation make such keys (`GenOK`, `PublicOK`), from elements
  that have the residues of integers (`At`, `AtArith`, `ExtendAt`, `FilteredAt`);
- adding shares adds the secrets on both sides, and needs the same uniform elements
  (`AddOK`), which is why `SharesOK` relates the second share to the first; adding
  products of one secret needs no such thing (`AddMultOK`); multiplying by a share
  multiplies what is switched from, if the joint key was for a product, where `Z` is
  `S` (`MultOK`);
- the bounds of all these fit the first modulus (`RoomForKeys`), so the integers can
  be read back from their residues (`KeySwitches`, `CenteredSmall`).

That special primes are positive numbers is `SpecialPrimesFound`: taking the
largest prime left finds one each time if there are as many as `Accepted` says.

`TypeCorrect` (`TypeOK`) adds that ciphertexts have two or three elements (`Shape`)
and that noise is a natural number (`SwitchNoiseNat`, `RescaledNat`), which needs
that there is a usable key whenever there is a ciphertext (`EvalOK`).

`DigitsAlwaysIntegers` (`DigitsAreIntegers`), `NoiseAlwaysBounded`
(`NoiseBounded`) and `AlwaysDecryptsRight` (`DecryptsRight`) follow from one
inductive invariant, `SafeInv`: the two above, `SpecialOK` (the special primes are
different primes, none a modulus, each one more than a multiple of t) and

- `PhaseInv`: there is an *integer* that the elements carry (`Carries`: their phase
  has its residues in all towers), that modulo t is the message times the scaling
  factor and that is within the bound on the noise, and the bound is within `Budget`
  (`SoundAt`);
- `ScaleInv`: the scaling factor is a unit modulo t, so that the message can be had
  back (part of the types, `TypeInv`);
- `RecallInv`: digits made beforehand stand for integers within `MaxDigit`
  (`Digits`) that, weighted with what the keys hold of a secret, add up to the
  ciphertext's second element in every tower it has left (`Recomposes`); only then
  may a rotation use them after `LevelReduce`, and in HYBRID they are still the
  element itself in their own towers.

The properties themselves are not inductive: they read integers back from residues,
and say nothing of digits and element together. The argument, in the order of the
module:

1. *Residues.* Primes that differ are units modulo each other (`PrimesAreUnits`), and
   a modulus that does not divide t is one modulo t, and t one modulo it (`PrimeIsUnit`,
   `ModuliInverses`); nothing more is needed of a modulus of a flexible technique. So
   every basis of the model is `Good`; an element determines its integer up to the
   product (`ProductSame`, `InterpolateFacts`, `Interpolates`: the Chinese remainder
   theorem), and the approximate change of basis is off by a multiple of the product,
   of bounded size, with and without 128-bit integers (`SwitchApproximates`).
2. *Digits.* Each is an integer (`HybridDigitIs`, `BVDigitIs`), and together they add
   up to the element: in HYBRID one digit has each tower and the key is zero in it for
   the others (`HybridRecomposes`); in BV the windows of a residue add up to it
   (`WindowsAddUp` of `ArithmeticTheorems`, `BVRecomposes`).
3. *Switching.* The inner product of digits with a key that is `KeyOK` carries the
   element times the old secret, plus t times an error that is a sum of digits times
   errors (`InnerSum`, `InnerIs`); the division by P keeps that modulo t, rounds by at
   most one for each special prime, and divides the error (`ModDownIs`,
   `DividedPhase`, `QuotientBound`). `SwitchBrings` bounds the noise of both
   techniques by `SwitchNoise`.
4. *Reducing.* `ModReduce` divides the integer exactly after adding a multiple of t
   (`ModReduceIs`, `Divided`, `ReduceCarries`), so what it stands for modulo t, times the
   modulus, is what it stood for: the message stays as it is if the modulus is one
   modulo t, and otherwise the scaling factor is divided too (`ReducedFactorIs`,
   `Follow`, `Reductions`, `FactorsFollow`). A decryption reduces to one tower; the
   room that `Budget` leaves, 2t, takes what the roundings of all its steps add, since
   each step divides what the ones before added too, so the last integer is below half
   the first modulus (`BoundReduced`, `ReductionHolds`, `DecryptsTo`). The reductions are
   a recursive function, which `RecursionExists` shows to be there.
5. *Steps.* One lemma for each operation on a ciphertext (`EncryptSound`,
   `SquareSound`, `RelinearizeSound`, `SwitchedSound`, `PrecomputeSound`,
   `FastRotationSound`, `LevelReduceSound`, `ModReduceSound`), and `StepKeepsSafe`.

The assumptions:

- `ModulusAssumption`: the moduli are different primes that do not divide t and, for
  the fixed techniques only, one more than a multiple of t; 2.5 says where BGV's
  parameter generation takes them so. A flexible technique whose moduli are one modulo
  t all the same, because a number of bits was given, is a special case. A modulus that
  divides t has no inverse modulo t, for which `ModInverse` throws; `computeModuli`
  passes over t itself. `FLEXIBLEAUTOEXT` has a modulus more than levels, two at
  least. The first has room for the noise of the largest key, about
  `MaxNoise*(8s+2)` for secrets of magnitude `s`, and for a fresh ciphertext, `t/2 +
  t*MaxNoise` against half of what a decryption can read. Secrets and noises of the
  library have coefficients of a few units, and a sum of two parties' a few more,
  against a modulus of tens of bits.
- `BitsAssumption`: what the prover does not know of `2^k`: that it is a positive
  number, that `2^(a+b)` is a product for the windows of BV, that a number is below
  two to its length in bits, and that the step between candidates for special primes
  is a multiple of t. All of it is true of every parameter; the checker evaluates it on
  those of the run.
- `NoneAssumption`: `None` is no ciphertext.

What holds beyond the assumptions holds by the guards: `Budget` bounds the noise a
caller may let a ciphertext have, and the theorems say that within it nothing the code
does, in any order, loses the message.

### 4.7 Maps of evaluation keys

All five properties of the run `Keys`, for any parameters, contexts, private keys,
indices, map objects and programs: `TypeAlways` (`TypeOK`), `TagsAlways`
(`KeysUnderTheirTag`), `OneContextAlways` (`OneContextPerTag`), `LostAlways`
(`LostOnlyWhenAsked`) and `ClearedAlways` (`ClearedIsGone`). The inductive
invariant `Inv` adds to the types

- `HeapInv`: every map object that is filed, and the one that is held, is `Good`
  for its tag: it has a key, all its keys have the tag, and the contexts of its
  keys have the *parameters* of the private key's;
- `FactoryInv`: the factory knows at most one context for some parameters, and
  private keys are of contexts that were made;
- `FileInv`: what was written is good in the same sense.

`OneContextPerTag` is not inductive by itself: after the factory forgot a context,
keys of one tag may have different contexts, which can only be told to be
interchangeable by their parameters; with `FactoryInv` equal parameters mean one
context among those it knows. `KeysUnderTheirTag` needs that what is held is good
before it is inserted, and what is in the file before it is read.

The proof has a lemma for each operation. They rest on `FactoryAnswers` (the
factory gives a context of the parameters asked for and changes none it made),
`HeapStep` (the heap is good if what is filed and held is good by the contents a
step writes, before unreachable objects are emptied), `FileFresh` (a new object is
not one that anything points to) and `MergedIsGood` (an object stays good for
whoever points to it when missing keys are added). The two action properties
follow from the invariant and a lemma that what stays filed with its keys is not
lost (`NotLost`). `FirstIsThere` and `LeastNat` show that the first key exists.

### 4.8 Only model-checked

The properties of the runs that show a disagreement, which the code does not have;
and all liveness (`LoopsEnd`, the fairness of `ImplementsService`), which is out of the
prover's reach. Every other invariant and action property of a passing run is a
theorem. Folds and sums over data are no obstacle where a theorem needs a law
of them: they are shown to be recurrences, and the law by a least counterexample
(`FoldExists`, `FoldInduction`, `SumUnique` of `ArithmeticTheorems`).

## 5. What is left out

Of the modelled parts:

- *Proof system.* `Encrypt` files no witness metadata and its replay throws at
  once. `Rescale`, `EvalRotate`, `Relinearize` and `KeySwitch` contain the
  constraints of transforms (PC 1311 to 1728) and of digit decomposition over
  vectors of wires: one coefficient does not show what they do, and rings large
  enough to show it are out of the checker's reach. `PROJECT.json` lists the
  hazards of rotation, relinearization and the transforms with no property.
- *Levels.* `NORESCALE`, noise, operands of a product that have not been
  relinearized (BL 198). A plaintext made for a level above zero keeps all towers
  (`cryptocontext.h` 230); plaintexts are made at level zero here.
  `EvalMultMutable` with one object as both operands reduces it twice; the model
  gives it two objects. A ciphertext compressed in a `FLEXIBLE` technique is for
  decryption only, as the comment at `cryptocontext.h` 2087 says. The last entry
  of the table of `FLEXIBLEAUTOEXT` is never set, which `CanonicalFactor` shows to
  be harmless.
- *Key switching.* `KeySwitchExt`, `KeySwitchDown` and
  `KeySwitchDownFirstElement` (called by CKKS only), keys for higher powers of the
  secret, noise flooding in `ReEncrypt`, joint public keys and distributed
  decryption.
- *Tables.* The Bluestein and arbitrary-cyclotomic transforms, whose tables have
  other keys, and `Reset`, which only tests call; exceptions that leave a critical
  region. Rings share moduli only if they share roots: the tables' key lacks the
  root of unity, which contexts of the library derive from modulus and ring.
- *Contexts and keys.* Keys made by several parties, whose shares and sum have one
  tag by intention; `EvalMult` of ciphertexts with different tags, which looks at
  the first's; an empty list of indices, for which `EvalAtIndexKeyGen` files a map
  without a first key (CP 273, and then 338); changing a context's scheme or
  parameters after the factory has registered it; versions and formats of streams.
- *Parameters.* Sizes and noise estimates are floating-point heuristics.

Not modelled at all: the SNARK (setup, prove, verify) and its field, which are
libsnark's and libff's; CKKS and BFV, bootstrapping, binfhe; samplers and
multiprecision arithmetic, pure functions with tests of their own; benchmarks,
build and deployment. The map covers a small part of the repository's
lines for that reason: most of it is numerical code of schemes the proof system
does not use.

## 6. Plan

In order of what each would add:

1. The transforms' constraints on a ring of two coefficients: growth of bounds
   through butterflies, composed with `LazyArith`; then `Rescale` and rotation.
2. Keys of several parties in `KeyMaps`: shares and sums under one tag, and which of
   them an operation finds.
