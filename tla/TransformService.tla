-------------------------- MODULE TransformService --------------------------
(****************************************************************************)
(* What the number theoretic transforms promise their callers: a thread     *)
(* that asks for the transform of a vector, for a modulus and a ring, gets  *)
(* the transform for that modulus and that ring, whatever other threads ask *)
(* for meanwhile.  How the tables of roots of unity behind it are shared is *)
(* not seen here.                                                           *)
(****************************************************************************)
CONSTANTS Threads, Requests, None

VARIABLES
  want,   \* the request a thread waits for
  got     \* the request whose transform a thread got
vars == <<want, got>>

Init == want = [p \in Threads |-> None] /\ got = [p \in Threads |-> None]

Ask(p) == /\ want[p] = None
          /\ \E x \in Requests : want' = [want EXCEPT ![p] = x]
          /\ UNCHANGED got

Answer(p) == /\ want[p] # None
             /\ got' = [got EXCEPT ![p] = want[p]]
             /\ want' = [want EXCEPT ![p] = None]

\* The answers are taken over together.
Collect == /\ got' = [p \in Threads |-> None]
           /\ UNCHANGED want

Next == Collect \/ \E p \in Threads : Ask(p) \/ Answer(p)

Spec == Init /\ [][Next]_vars /\ \A p \in Threads : WF_vars(Answer(p))
=============================================================================
