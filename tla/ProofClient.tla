----------------------------- MODULE ProofClient -----------------------------
(****************************************************************************)
(* A program that uses the proof system the way the tests, the examples and *)
(* the benchmark do: it makes a sequence of calls in constraint-generation  *)
(* mode, then makes the same calls in witness-generation mode, possibly on  *)
(* other data.                                                              *)
(****************************************************************************)
EXTENDS ProofSystem

CONSTANT
  Kinds   \* the kinds of programs, by name: records of
          \*   inputs        ciphertexts the program starts with
          \*   contents      contents they may have
          \*   operations    operations the program uses
          \*   publicFirst   inputs and outputs are declared before any operation
          \*   loop          the replay is run again without setting the mode again
          \*   repeatCalls   an operation may be repeated on the same ciphertexts
          \*   finalizations when the program may finalize its output: "never",
          \*                 "generated" (at the end of generation), "late"
          \*                 (after the replay, on the ciphertext of generation),
          \*                 "replayed" (after the replay, on that of the replay)
          \*   maxCalls      bound: calls made to generate constraints, in all
          \*   maxPasses     bound: times constraints are generated

ASSUME ClientAssumption ==
  \A n \in DOMAIN Kinds :
    /\ Kinds[n].inputs \in Nat \ {0}
    /\ {Kinds[n].maxCalls, Kinds[n].maxPasses} \subseteq Nat
    /\ Kinds[n].contents \subseteq Seq([Limbs -> 0 .. Q - 1]) \ {<<>>}
    /\ Kinds[n].operations \subseteq Linear \cup Quadratic
    /\ {Kinds[n].publicFirst, Kinds[n].repeatCalls, Kinds[n].loop} \subseteq BOOLEAN
    /\ Kinds[n].finalizations \subseteq {"never", "generated", "late", "replayed"}

VARIABLES
  kind,     \* the kind of this program
  finalize, \* when this program finalizes its output
  program,  \* the calls made in constraint-generation mode
  pc,       \* how many of them have been replayed
  replayed, \* the object each object of generation corresponds to in the replay
  output,   \* the object that is the program's output, 0 if none
  phase,    \* "start", "generate", "replay", "finished"
  passes,   \* times constraint generation has been started
  calls     \* calls made in constraint-generation mode, in all passes

clientVars == <<kind, finalize, program, pc, replayed, output, phase, passes,
                calls>>
vars == <<psVars, clientVars>>

Habit == Kinds[kind]

Inputs == 1 .. Habit.inputs

Ciphertext(content) == [content |-> content, wire |-> None,
                        constraint |-> None, witness |-> None]

Init ==
  /\ kind \in DOMAIN Kinds
  /\ mode = "EVALUATION"
  /\ global_wire_id = 0
  /\ wire_id_to_metadata = <<>>
  /\ pb = EmptyBoard
  /\ \E c \in [Inputs -> Habit.contents] :
       ctxts = [k \in Inputs |-> Ciphertext(c[k])]
  /\ out_vars = <<>>
  /\ status = "ok"
  /\ finalize \in Habit.finalizations
  /\ program = <<>>
  /\ pc = 0
  /\ replayed = <<>>
  /\ output = 0
  /\ phase = "start"
  /\ passes = 0
  /\ calls = 0

-----------------------------------------------------------------------------
(* Evaluation before any proof, as in the tests and the benchmark *)

EvaluatePublicInput(k) ==
  /\ phase = "start"
  /\ global_wire_id < Habit.inputs
  /\ PublicInput(k)
  /\ UNCHANGED clientVars

EvaluateOperation(op, k, l) ==
  /\ phase = "start"
  /\ Len(ctxts) = Habit.inputs
  /\ op = "Square" => k = l
  /\ Len(ctxts[k].content) = Len(ctxts[l].content)
  /\ op \in Quadratic => Len(ctxts[k].content) = 2
  /\ Operation(op, k, l)
  /\ UNCHANGED clientVars

-----------------------------------------------------------------------------
(* Generation *)

\* The program starts over with its input ciphertexts.
StartGeneration ==
  /\ status = "ok"
  /\ phase \in {"start", "finished"}
  /\ passes < Habit.maxPasses
  /\ phase = "finished" => ~Habit.loop
  /\ SetMode("CONSTRAINT_GENERATION")
  /\ ctxts' = SubSeq(ctxts, 1, Habit.inputs)
  /\ program' = <<>> /\ pc' = 0 /\ replayed' = <<>> /\ output' = 0 /\ out_vars' = <<>>
  /\ phase' = "generate" /\ passes' = passes + 1
  /\ UNCHANGED <<kind, finalize, calls>>

Generating == phase = "generate" /\ calls < Habit.maxCalls

Called(call) == /\ program' = Append(program, call)
                /\ calls' = calls + 1
                /\ UNCHANGED <<kind, finalize, pc, replayed, phase, passes>>

Declared == {program[n].args[1] : n \in {m \in DOMAIN program : program[m].op = "Public"}}

OnlyDeclarations == \A n \in DOMAIN program : program[n].op = "Public"

\* An input that was never declared has no metadata, and the call throws.  One
\* of an earlier generation has metadata that point into the old protoboard:
\* this program declares it again first.
UpToDate(k) == k \in Inputs \ Declared => ctxts[k].constraint = None

GenPublicInput(k) ==
  /\ Generating
  /\ k \notin Declared
  /\ Habit.publicFirst => OnlyDeclarations
  /\ PublicInput(k)
  /\ Called([op |-> "Public", args |-> <<k>>])
  /\ UNCHANGED output

GenOperation(op, k, l) ==
  /\ Generating
  /\ op = "Square" => k = l
  /\ UpToDate(k) /\ UpToDate(l)
  /\ Len(ctxts[k].content) = Len(ctxts[l].content)
  /\ Habit.repeatCalls \/ \A n \in DOMAIN program : program[n] # [op |-> op, args |-> <<k, l>>]
  /\ Operation(op, k, l)
  /\ Called([op |-> op, args |-> <<k, l>>])
  /\ UNCHANGED output

\* The output is declared with the ciphertext a plain evaluation gave.
GenPublicOutput(n) ==
  /\ phase = "generate"
  /\ finalize # "never"
  /\ out_vars = <<>>
  /\ Habit.publicFirst => OnlyDeclarations
  /\ ConstrainPublicOutput(Matrix(n, LAMBDA i, j : 0))
  /\ UNCHANGED clientVars

GenFinalize(k) ==
  /\ phase = "generate"
  /\ finalize = "generated"
  /\ out_vars # <<>>
  /\ UpToDate(k)
  /\ FinalizeOutputConstraints(k)
  /\ output' = k
  /\ phase' = "finalized"
  /\ UNCHANGED <<kind, finalize, program, pc, replayed, passes, calls>>

-----------------------------------------------------------------------------
(* Replay *)

\* The program runs again on data of its own.
StartReplay ==
  /\ status = "ok"
  /\ phase = IF finalize = "generated" THEN "finalized" ELSE "generate"
  /\ program # <<>>
  /\ IF finalize \in {"late", "replayed"}
     THEN out_vars # <<>> /\ output' \in DOMAIN ctxts /\ UpToDate(output')
     ELSE UNCHANGED output
  /\ SetMode("WITNESS_GENERATION")
  /\ \E c \in [Inputs -> Habit.contents] :
       /\ \A k \in Inputs : Len(c[k]) = Len(ctxts[k].content)
       /\ ctxts' = [k \in DOMAIN ctxts |-> IF k \in Inputs
                                           THEN [ctxts[k] EXCEPT !.content = c[k]]
                                           ELSE ctxts[k]]
  /\ phase' = "replay"
  /\ replayed' = [k \in Inputs |-> k]
  /\ UNCHANGED <<out_vars, kind, finalize, program, pc, passes, calls>>

Call == program[pc + 1]

Arg(n) == replayed[Call.args[n]]

Replaying(op) == /\ phase = "replay"
                 /\ pc < Len(program)
                 /\ Call.op = op
                 /\ pc' = pc + 1
                 /\ UNCHANGED <<kind, finalize, program, output, phase, passes, calls>>

ReplayPublicInput ==
  /\ Replaying("Public")
  /\ PublicInput(Arg(1))
  /\ UNCHANGED replayed

ReplayOperation(op) ==
  /\ Replaying(op)
  /\ Operation(op, Arg(1), Arg(2))
  /\ replayed' = Append(replayed, Len(ctxts) + 1)

Finish ==
  /\ phase = "replay"
  /\ pc = Len(program)
  /\ phase' = "finished"
  /\ \/ /\ finalize \in {"never", "generated"}
        /\ UNCHANGED psVars
     \/ /\ finalize = "late"
        /\ FinalizeOutputConstraints(output)
     \/ /\ finalize = "replayed"
        /\ FinalizeOutputConstraints(replayed[output])
  /\ UNCHANGED <<kind, finalize, program, pc, replayed, output, passes, calls>>

\* The benchmark's loop over one evaluation.
ReplayAgain ==
  /\ Habit.loop
  /\ phase = "finished" /\ status = "ok"
  /\ phase' = "replay"
  /\ pc' = 0
  /\ replayed' = [k \in Inputs |-> k]
  /\ UNCHANGED <<psVars, kind, finalize, program, output, passes, calls>>

Next ==
  \/ \E k \in Inputs : EvaluatePublicInput(k)
  \/ \E op \in Habit.operations, k, l \in DOMAIN ctxts : EvaluateOperation(op, k, l)
  \/ StartGeneration
  \/ \E k \in Inputs : GenPublicInput(k)
  \/ \E op \in Habit.operations, k, l \in DOMAIN ctxts : GenOperation(op, k, l)
  \/ \E n \in {2, 3} : GenPublicOutput(n)
  \/ \E k \in DOMAIN ctxts : GenFinalize(k)
  \/ StartReplay
  \/ ReplayPublicInput
  \/ \E op \in Habit.operations : ReplayOperation(op)
  \/ Finish
  \/ ReplayAgain

Spec == Init /\ [][Next]_vars

-----------------------------------------------------------------------------
(* Properties *)

Index == 1 .. NumVariables(pb)

TypeOK ==
  /\ mode \in Modes
  /\ global_wire_id \in Nat
  /\ pb.inputs \in 0 .. NumVariables(pb)
  /\ pb.public \subseteq Index
  /\ \A g \in pb.constraints :
       (DOMAIN g.a \cup DOMAIN g.b \cup DOMAIN g.c) \subseteq Index \cup {0}
  /\ status \in {"ok", "threw", "aborted", "undefined"}
  /\ phase \in {"start", "generate", "finalized", "replay", "finished"}
  /\ output \in 0 .. Len(ctxts)

Replayed == phase = "finished" /\ status = "ok"

\* In the default build, what the compiled-out assertion of LazySubModGadget
\* says of each difference the program took.  Otherwise nothing can be said of
\* the values, only that they satisfy the constraints.
Trusted ==
  Debug \/ \A n \in DOMAIN program : program[n].op = "Sub" =>
             SubtrahendReduced("Sub", ctxts[program[n].args[2]].constraint)

\* Replaying the calls of a program without outputs, on whatever data, assigns
\* every variable so that all constraints hold: each unit test of the proof
\* system ends with EXPECT_TRUE(ps.pb.is_satisfied()).
ReplaySatisfied == (Replayed /\ finalize = "never") => IsSatisfied(pb)

\* After the replay the linear combinations recorded for each ciphertext in
\* generation are congruent to the coefficients of the ciphertext the replay
\* computed, and within their bounds (expect_equal_mod and
\* expect_lessequal_maxvalue), unless a difference of the program was one that
\* a Debug build refuses.
ReplayEqualMod ==
  (Replayed /\ Trusted) => \A k \in Declared \cup ((Habit.inputs + 1) .. Len(replayed)) :
    LET m == ctxts[k].constraint
        x == ctxts[replayed[k]].content
    IN  \A i \in 1 .. NumPolys(m), j \in Limbs :
          LET v == Wrap(LcVal(m.lc[i][j], pb.val))
          IN  v % Q = x[i][j] /\ v <= m.max_value[i][j]

\* A replay of the same calls finds every wire id it asks for, and never
\* fails an assertion the generation passed, if the mode is set before it.
ReplayNeverStops == (phase = "replay" /\ ~Habit.loop) => status = "ok"

\* For programs that declare inputs and outputs before any operation, the
\* variables declared public are the first ones, those libsnark takes as the
\* primary input: set_input_sizes only counts them.
DeclaredFirstIsPrimary == Habit.publicFirst => pb.public = 1 .. pb.inputs

OutputIsResult ==
  /\ IsSatisfied(pb)
  /\ \A i \in DOMAIN out_vars, j \in Limbs :
       pb.val[out_vars[i][j]] = ctxts[replayed[output]].content[i][j]

\* Finalizing after the replay, with the metadata of the ciphertext that
\* generation computed, binds the output variables to the result the replay
\* computed: "We resolve all pending lazy mod-reductions, and add constraints
\* binding vars to the output of the computation".  This is for an output
\* every coefficient of which has a reduction pending, of a program whose
\* differences are those a Debug build accepts.
Pending == \A i \in DOMAIN out_vars, j \in Limbs :
             ctxts[output].constraint.max_value[i][j] >= Q

LateOutputBound ==
  (Replayed /\ finalize = "late" /\ Pending /\ Trusted) => OutputIsResult

\* The same for an output without pending reductions.
ReducedOutputBound ==
  (Replayed /\ finalize = "late" /\ ~Pending) => OutputIsResult

\* The order of calls of the examples: finalize at the end of generation, then
\* replay to "generate the extended witness" and check satisfiability.
GeneratedOutputBound ==
  (Replayed /\ finalize = "generated" /\ Pending) => IsSatisfied(pb)

\* The constraint system a key was generated for does not change while calls
\* are replayed for its witness, first or again: only finalizing an output
\* adds to it.
ReplayKeepsConstraints ==
  [][phase = "replay" /\ pc' > pc =>
       /\ pb'.constraints = pb.constraints
       /\ NumVariables(pb') = NumVariables(pb)
       /\ pb'.inputs = pb.inputs]_vars

=============================================================================
