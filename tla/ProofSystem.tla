----------------------------- MODULE ProofSystem -----------------------------
(****************************************************************************)
(* The proof system a program wraps its homomorphic evaluation in.          *)
(*                                                                          *)
(* The same calls are made twice.  In constraint-generation mode a call     *)
(* allocates variables of the protoboard, adds constraints over them, and   *)
(* files the gadgets that can compute those variables under the wire id of  *)
(* its result; in witness-generation mode the call finds the gadgets again  *)
(* by that wire id and runs them.  In evaluation mode it only evaluates.    *)
(*                                                                          *)
(* A ciphertext is modelled by one coefficient of each of its polynomials   *)
(* in each limb, all of one modulus Q.  Operations whose bounds come near    *)
(* the edge of the field are for LazyArith, which models the reductions they *)
(* need (FieldHasRoom).  The bits of a range check, which no other           *)
(* constraint mentions, are left out.                                        *)
(****************************************************************************)
EXTENDS Integers, Sequences, FiniteSets, SequencesExt, FiniteSetsExt

CONSTANTS
  Q,         \* the modulus of every limb
  P,         \* the order of the field the constraints are over
  NumLimbs,  \* limbs of a polynomial
  Debug,     \* a Debug build, where the assertions of the gadgets are compiled in
  None       \* metadata that has not been set

ASSUME SizeAssumption == Q \in Nat \ {0, 1} /\ NumLimbs \in Nat \ {0}

ASSUME FieldAssumption == P \in Nat /\ 4 * Q < P

ASSUME BuildAssumption == Debug \in BOOLEAN

VARIABLES
  mode,                 \* PROOFSYSTEM_MODE
  global_wire_id,
  wire_id_to_metadata,  \* WireID -> witness metadata; never cleared
  pb,                   \* the protoboard
  ctxts,                \* the ciphertext objects, in order of creation
  out_vars,             \* the variables ConstrainPublicOutput returned
  status                \* "ok", or how the program ended

psVars == <<mode, global_wire_id, wire_id_to_metadata, pb, ctxts, out_vars,
            status>>

Modes == {"EVALUATION", "CONSTRAINT_GENERATION", "WITNESS_GENERATION"}

Limbs == 1 .. NumLimbs

Matrix(n, entry(_, _)) == [i \in 1 .. n |-> [j \in Limbs |-> entry(i, j)]]

-----------------------------------------------------------------------------
(* The protoboard: val has a field element for each variable, 0 until one is *)
(* assigned, the first `inputs` variables are the primary input, and public  *)
(* has the variables some call has declared public.                          *)

EmptyBoard == [val |-> <<>>, inputs |-> 0, constraints |-> {}, public |-> {}]

NumVariables(p) == Len(p.val)

Allocate(p, n) == [p EXCEPT !.val = @ \o [k \in 1 .. n |-> 0]]

\* Of variables allocated polynomial by polynomial after the first `base` ones,
\* that of limb j of polynomial i.
VariableAt(base, i, j) == base + (i - 1) * NumLimbs + j

\* A linear combination maps the variables it mentions to coefficients; the
\* index 0 is its constant term.
Var(v) == [x \in {v} |-> 1]

Const(n) == [x \in {0} |-> n]

Coefficient(lc, v) == IF v \in DOMAIN lc THEN lc[v] ELSE 0

Combine(a, s, b) == [v \in DOMAIN a \cup DOMAIN b |->
                       Coefficient(a, v) + s * Coefficient(b, v)]

\* What an integer is in the field.
Wrap(x) == x % P

\* The value of a linear combination before it is taken into the field.
LcVal(lc, val) ==
  MapThenSumSet(LAMBDA v : lc[v] * (IF v = 0 THEN 1 ELSE val[v]), DOMAIN lc)

IsSatisfied(p) ==
  \A c \in p.constraints :
    (LcVal(c.a, p.val) * LcVal(c.b, p.val) - LcVal(c.c, p.val)) % P = 0

-----------------------------------------------------------------------------
(* Gadgets that own variables.  A MulGadget assigns the product of its        *)
(* inputs to its output.                                                      *)

MulConstraint(g) == [a |-> g.in1, b |-> g.in2, c |-> Var(g.out)]

RunGadget(val, g) ==
  [val EXCEPT ![g.out] = Wrap(LcVal(g.in1, val) * LcVal(g.in2, val))]

\* Variant: the gadgets allocate their outputs again.
RunGadgetsReallocates(p, gadgets) ==
  [Allocate(p, Len(gadgets)) EXCEPT !.val = FoldLeft(RunGadget, @, gadgets)]

RunGadgets(p, gadgets) == [p EXCEPT !.val = FoldLeft(RunGadget, p.val, gadgets)]

\* Witness metadata: where the variables of a public input start, and the
\* gadgets of an operation.
WitnessMeta(start, gadgets) == [index_start |-> start, gadgets |-> gadgets]

\* Constraint metadata: a linear combination and a bound for each coefficient.
ConstraintMeta(lc, max, witness) ==
  [lc |-> lc, max_value |-> max, witness |-> witness]

NumPolys(m) == Len(m.lc)

-----------------------------------------------------------------------------
(* The homomorphic operations themselves, on ciphertext coefficients: sums and *)
(* differences of polynomials, products as the convolution of the operands.    *)

Linear == {"Add", "Sub"}
Quadratic == {"MultNoRelin", "Square"}

Sign(op) == IF op = "Sub" THEN -1 ELSE 1

FheLinear(op, x, y) ==
  Matrix(Len(x), LAMBDA i, j : (x[i][j] + Sign(op) * y[i][j]) % Q)

FheProduct(x, y) ==
  Matrix(Len(x) + Len(y) - 1, LAMBDA i, j :
    MapThenSumSet(LAMBDA a : x[a][j] * y[i + 1 - a][j],
                  {a \in DOMAIN x : i + 1 - a \in DOMAIN y}) % Q)

FheEval(op, x, y) == IF op \in Linear THEN FheLinear(op, x, y)
                     ELSE FheProduct(x, y)

-----------------------------------------------------------------------------
(* Constraint generation for an operation: the new protoboard and the         *)
(* constraint metadata of the result.                                         *)

\* The products a quadratic operation constrains, pairs of polynomials in the
\* order of their gadgets, and which of them each polynomial of its result
\* sums up: a square takes the mixed product twice.
Products(op) == CASE op = "MultNoRelin" -> << <<1, 1>>, <<1, 2>>, <<2, 1>>, <<2, 2>> >>
                  [] op = "Square"      -> << <<1, 2>>, <<1, 1>>, <<2, 2>> >>

\* Variant: the mixed product of a square is taken once.
MixedProductOnce(op) == CASE op = "MultNoRelin" -> << <<1>>, <<2, 3>>, <<4>> >>
                          [] op = "Square"      -> << <<2>>, <<1>>, <<3>> >>

Sums(op) == CASE op = "MultNoRelin" -> << <<1>>, <<2, 3>>, <<4>> >>
              [] op = "Square"      -> << <<2>>, <<1, 1>>, <<3>> >>

\* EvalAddConstraint and EvalSubConstraint: a linear combination of what there
\* is, no variable and no constraint.
LinearConstraint(op, m1, m2) ==
  LET offset == IF op = "Sub" THEN Q ELSE 0
      lc(i, j) == Combine(Combine(m1.lc[i][j], Sign(op), m2.lc[i][j]),
                          1, Const(offset))
      max(i, j) == m1.max_value[i][j]
                     + (IF op = "Sub" THEN Q ELSE m2.max_value[i][j])
  IN  [board |-> pb,
       meta  |-> ConstraintMeta(Matrix(NumPolys(m1), lc), Matrix(NumPolys(m1), max),
                                WitnessMeta(0, <<>>))]

\* EvalMultNoRelinConstraint and EvalSquareConstraint: one MulGadget for each
\* product and limb, its witness computed at once with what values there are.
ProductGadgets(prods, m1, m2, base) ==
  [k \in 1 .. Len(prods) * NumLimbs |->
     LET t == ((k - 1) \div NumLimbs) + 1
         j == ((k - 1) % NumLimbs) + 1
     IN  [in1 |-> m1.lc[prods[t][1]][j],
          in2 |-> m2.lc[prods[t][2]][j],
          out |-> VariableAt(base, t, j)]]

SumOfProducts(base, ts, j) ==
  FoldLeft(LAMBDA lc, t : Combine(lc, 1, Var(VariableAt(base, t, j))), <<>>, ts)

SumOfBounds(prods, m1, m2, ts, j) ==
  FoldLeft(LAMBDA b, t : b + m1.max_value[prods[t][1]][j] * m2.max_value[prods[t][2]][j],
           0, ts)

QuadraticConstraint(op, m1, m2) ==
  LET prods   == Products(op)
      base    == NumVariables(pb)
      gadgets == ProductGadgets(prods, m1, m2, base)
      board   == [Allocate(pb, Len(gadgets)) EXCEPT
                    !.constraints = @ \cup {MulConstraint(gadgets[k]) : k \in DOMAIN gadgets}]
  IN  [board |-> RunGadgets(board, gadgets),
       meta  |-> ConstraintMeta(
                   Matrix(3, LAMBDA i, j : SumOfProducts(base, Sums(op)[i], j)),
                   Matrix(3, LAMBDA i, j : SumOfBounds(prods, m1, m2, Sums(op)[i], j)),
                   WitnessMeta(0, gadgets))]

Constraint(op, m1, m2) == IF op \in Linear THEN LinearConstraint(op, m1, m2)
                          ELSE QuadraticConstraint(op, m1, m2)

\* The assertion of LazySubModGadget: the subtrahend is bounded by the modulus.
\* EvalSubConstraint itself checks nothing of the kind.
SubtrahendReduced(op, m2) ==
  op = "Sub" => \A i \in 1 .. NumPolys(m2), j \in Limbs : m2.max_value[i][j] <= Q

\* The assertions on the operands: equal dimensions and two polynomials for a
\* product in every build, for proofsystem_libsnark.cpp undefines NDEBUG; the
\* gadgets' own, in a header it includes before that, in a Debug build only.
\* In the default build a difference whose subtrahend is too large goes on, and
\* its value wraps in the field.
OperandsFit(op, m1, m2) ==
  /\ NumPolys(m1) = NumPolys(m2)
  /\ op \in Quadratic => NumPolys(m1) = 2
  /\ Debug => SubtrahendReduced(op, m2)

\* Bound: the operations modelled here leave two bits of the field, so that no
\* gadget reduces its inputs first (AddOverflows, SubOverflows and MulOverflows
\* of LazyArith are all false).
FieldHasRoom(m) ==
  \A i \in 1 .. NumPolys(m), j \in Limbs : 4 * m.max_value[i][j] < P

-----------------------------------------------------------------------------
(* The calls *)

\* Variant: the wire ids go on counting in witness generation.
SetModeKeepsWireIds(m) ==
  /\ mode' = m
  /\ global_wire_id' = IF m = "WITNESS_GENERATION" THEN global_wire_id ELSE 0
  /\ pb' = IF m = "CONSTRAINT_GENERATION" THEN EmptyBoard ELSE pb
  /\ UNCHANGED <<wire_id_to_metadata, status>>

\* Variant: the protoboard is cleared, the size of its primary input is not.
SetModeKeepsInputs(m) ==
  /\ mode' = m
  /\ global_wire_id' = 0
  /\ pb' = IF m = "CONSTRAINT_GENERATION"
           THEN [EmptyBoard EXCEPT !.inputs = pb.inputs] ELSE pb
  /\ UNCHANGED <<wire_id_to_metadata, status>>

SetMode(m) ==
  /\ mode' = m
  /\ global_wire_id' = 0
  /\ pb' = IF m = "CONSTRAINT_GENERATION" THEN EmptyBoard ELSE pb
  /\ UNCHANGED <<wire_id_to_metadata, status>>

Stop(how) == status' = how /\ UNCHANGED <<wire_id_to_metadata, pb, ctxts>>

File(wire, metadata) ==
  wire_id_to_metadata' = [w \in DOMAIN wire_id_to_metadata \cup {wire} |->
                            IF w = wire THEN metadata ELSE wire_id_to_metadata[w]]

\* Variant: the primary input is resized to the last input alone.
ResizedInput(inputs, count) == count

ExtendedInput(inputs, count) == inputs + count

\* A variable for each coefficient, and a primary input extended by as many.
PublicInputConstraint(x) ==
  LET n     == Len(x)
      base  == NumVariables(pb)
      count == n * NumLimbs
  IN  [board |-> [Allocate(pb, count) EXCEPT
                    !.inputs = ExtendedInput(@, count),
                    !.public = @ \cup ((base + 1) .. (base + count))],
       meta  |-> ConstraintMeta(Matrix(n, LAMBDA i, j : Var(VariableAt(base, i, j))),
                                Matrix(n, LAMBDA i, j : Q - 1),
                                WitnessMeta(base + 1, <<>>))]

\* The coefficients it assigns: the inner loop runs over the limbs
\* j < num_polys.
Assigned(n) == {p \in (1 .. n) \X Limbs : p[2] <= n}

\* Where the coefficient of a polynomial and a limb is, from the first.
Offset(i, j, n) == (i - 1) * NumLimbs + j - 1

PublicInputWitness(x, start) ==
  LET at(v) == {p \in Assigned(Len(x)) : v = start + Offset(p[1], p[2], Len(x))}
  IN  [pb EXCEPT
         !.val = [v \in DOMAIN @ |->
                    IF at(v) = {} THEN @[v]
                    ELSE LET p == CHOOSE p \in at(v) : TRUE IN x[p[1]][p[2]]]]

\* PublicInput gives the object itself a new wire id.
PublicInput(k) ==
  LET wire == <<"PublicCtxt", global_wire_id>>
      x    == ctxts[k].content
      gen  == PublicInputConstraint(x)
  IN  /\ status = "ok"
      /\ global_wire_id' = global_wire_id + 1
      /\ UNCHANGED <<mode, out_vars>>
      /\ \/ /\ mode = "EVALUATION"
            /\ ctxts' = [ctxts EXCEPT ![k].wire = wire]
            /\ UNCHANGED <<wire_id_to_metadata, pb, status>>
         \/ /\ mode = "CONSTRAINT_GENERATION"
            /\ ctxts' = [ctxts EXCEPT ![k].wire = wire, ![k].constraint = gen.meta]
            /\ pb' = gen.board
            /\ File(wire, gen.meta.witness)
            /\ UNCHANGED status
         \/ /\ mode = "WITNESS_GENERATION"
            /\ wire \in DOMAIN wire_id_to_metadata
            /\ Len(x) <= NumLimbs
            /\ ctxts' = [ctxts EXCEPT ![k].wire = wire,
                                      ![k].witness = wire_id_to_metadata[wire]]
            /\ pb' = PublicInputWitness(x, wire_id_to_metadata[wire].index_start)
            /\ UNCHANGED <<wire_id_to_metadata, status>>
         \/ /\ mode = "WITNESS_GENERATION"
            /\ wire \notin DOMAIN wire_id_to_metadata
            /\ Stop("threw")
         \/ /\ mode = "WITNESS_GENERATION"  \* limbs that do not exist are read
            /\ wire \in DOMAIN wire_id_to_metadata
            /\ Len(x) > NumLimbs
            /\ Stop("undefined")

\* The operations on ciphertexts.  The result is a clone of the first operand
\* and inherits all of its metadata; then it gets a wire id made of the
\* operation and the wire ids of the operands.
\* Variant: the wire id names the first operand only.
WireIdOfFirst(op, k, l) == <<op, ctxts[k].wire>>

WireId(op, k, l) == IF op = "Square" THEN <<op, ctxts[k].wire>>
                    ELSE <<op, ctxts[k].wire, ctxts[l].wire>>

Operation(op, k, l) ==
  LET x     == ctxts[k]
      y     == ctxts[l]
      wire  == WireId(op, k, l)
      out   == [x EXCEPT !.content = FheEval(op, x.content, y.content), !.wire = wire]
      gen   == Constraint(op, x.constraint, y.constraint)
      wired == x.wire # None /\ y.wire # None
      ready == x.constraint # None /\ y.constraint # None
      filed == wire \in DOMAIN wire_id_to_metadata
  IN  /\ status = "ok"
      /\ UNCHANGED <<mode, global_wire_id, out_vars>>
      /\ \/ /\ mode = "EVALUATION"
            /\ wired
            /\ ctxts' = Append(ctxts, out)
            /\ UNCHANGED <<wire_id_to_metadata, pb, status>>
         \/ /\ mode = "CONSTRAINT_GENERATION"
            /\ wired /\ ready
            /\ OperandsFit(op, x.constraint, y.constraint)
            /\ FieldHasRoom(gen.meta)
            /\ ctxts' = Append(ctxts, [out EXCEPT !.constraint = gen.meta])
            /\ pb' = gen.board
            /\ File(wire, gen.meta.witness)
            /\ UNCHANGED status
         \/ /\ mode = "CONSTRAINT_GENERATION"
            /\ wired /\ ready
            /\ ~OperandsFit(op, x.constraint, y.constraint)
            /\ Stop("aborted")
         \/ /\ mode = "WITNESS_GENERATION"
            /\ wired /\ filed
            /\ ctxts' = Append(ctxts, [out EXCEPT !.witness = wire_id_to_metadata[wire]])
            /\ pb' = RunGadgets(pb, wire_id_to_metadata[wire].gadgets)
            /\ UNCHANGED <<wire_id_to_metadata, status>>
         \/ /\ \/ ~wired
               \/ mode = "CONSTRAINT_GENERATION" /\ ~ready
               \/ mode = "WITNESS_GENERATION" /\ ~filed
            /\ Stop("threw")

-----------------------------------------------------------------------------
(* The public output *)

\* ConstrainPublicOutput has no case for the modes: it allocates a variable
\* for each coefficient of a ciphertext x, of which it only uses the shape,
\* and extends the primary input.
ConstrainPublicOutput(x) ==
  /\ status = "ok"
  /\ pb' = PublicInputConstraint(x).board
  /\ out_vars' = Matrix(Len(x), LAMBDA i, j : VariableAt(NumVariables(pb), i, j))
  /\ UNCHANGED <<mode, global_wire_id, wire_id_to_metadata, ctxts, status>>

\* Variant: a bound up to twice the modulus counts as reduced.
NeedsReductionFromTwice(max) == max > 2 * Q

NeedsReduction(max) == max >= Q

\* The output constraints for constraint metadata m.  A coefficient whose
\* bound reaches Q gets a ModAssignGadget, with a quotient of its own, whose
\* witness is computed at once; any other is set equal to its output variable,
\* which nothing assigns.
OutputConstraints(m) ==
  LET positions == (1 .. Len(out_vars)) \X Limbs
      pending   == {p \in positions : NeedsReduction(m.max_value[p[1]][p[2]])}
      rank(p)   == Cardinality({r \in pending : \/ r[1] < p[1]
                                                  \/ (r[1] = p[1] /\ r[2] <= p[2])})
      quotient(p) == NumVariables(pb) + rank(p)
      lc(p)     == m.lc[p[1]][p[2]]
      out(p)    == out_vars[p[1]][p[2]]
      value(p)  == Wrap(LcVal(lc(p), pb.val))
      board     == Allocate(pb, Cardinality(pending))
      equation(p) ==
        [a |-> lc(p), b |-> Const(1),
         c |-> IF p \in pending THEN Combine(Var(out(p)), Q, Var(quotient(p)))
               ELSE Var(out(p))]
  IN  [board EXCEPT
         !.constraints = @ \cup {equation(p) : p \in positions},
         !.val = [v \in DOMAIN @ |->
            CASE \E p \in pending : v = out(p) ->
                   value(CHOOSE p \in pending : v = out(p)) % Q
              [] \E p \in pending : v = quotient(p) ->
                   value(CHOOSE p \in pending : v = quotient(p)) \div Q
              [] OTHER -> @[v]]]

FinalizeOutputConstraints(k) ==
  LET m == ctxts[k].constraint
  IN  /\ status = "ok"
      /\ UNCHANGED <<mode, global_wire_id, out_vars>>
      /\ \/ /\ m # None
            /\ NumPolys(m) >= Len(out_vars)
            /\ Len(ctxts[k].content) = Len(out_vars)
            /\ pb' = OutputConstraints(m)
            /\ UNCHANGED <<wire_id_to_metadata, ctxts, status>>
         \/ /\ m = None
            /\ Stop("threw")
         \/ /\ m # None
            /\ Len(ctxts[k].content) # Len(out_vars)
            /\ Stop("aborted")
         \/ /\ m # None  \* more polynomials than the metadata has are read
            /\ Len(ctxts[k].content) = Len(out_vars)
            /\ NumPolys(m) < Len(out_vars)
            /\ Stop("undefined")

=============================================================================
