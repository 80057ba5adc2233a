---------------------------- MODULE MCProofClient ----------------------------
(* Kinds of programs on ciphertexts of two polynomials modulo 5, in two        *)
(* contents that agree in no coefficient.                                      *)
EXTENDS ProofClient

MCContents == { [i \in 1 .. 2 |-> [j \in Limbs |-> (2 * i + j) % Q]],
                [i \in 1 .. 2 |-> [j \in Limbs |-> (i + 2 * j + 1) % Q]] }

\* Contents of a fresh ciphertext and of one that has not been relinearized.
MCShapes == { [i \in 1 .. n |-> [j \in Limbs |-> (2 * i + j) % Q]] : n \in {2, 3} }

\* The unit tests' programs: no output, generated once or twice.
Test == [inputs |-> 2, contents |-> MCContents, operations |-> Linear \cup Quadratic,
         publicFirst |-> FALSE, loop |-> FALSE, repeatCalls |-> FALSE,
         finalizations |-> {"never"}, maxCalls |-> 4, maxPasses |-> 2]

\* The examples' and the benchmark's: an output, and replays run again.
Benchmark == [Test EXCEPT !.inputs = 1, !.contents = MCShapes, !.publicFirst = TRUE,
                          !.loop = TRUE, !.finalizations = {"late", "generated", "replayed"},
                          !.maxCalls = 4, !.maxPasses = 1]

Short == [Test EXCEPT !.maxCalls = 3, !.maxPasses = 1]

MCTestsAndBenchmark == [test |-> Test, benchmark |-> Benchmark]
MCRepeating == [repeating |-> [Test EXCEPT !.repeatCalls = TRUE, !.maxPasses = 1]]
MCFinalizing == [finalizing |-> [Short EXCEPT !.publicFirst = TRUE, !.finalizations = {"generated"}]]
MCFinalizingLate == [finalizing |-> [Short EXCEPT !.publicFirst = TRUE, !.finalizations = {"late"}]]
MCShort == [short |-> Short]
=============================================================================
