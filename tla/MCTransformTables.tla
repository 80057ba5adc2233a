------------------------- MODULE MCTransformTables --------------------------
\* Two contexts, of different rings, with the same moduli and the same
\* plaintext modulus.
EXTENDS TransformTables, TLC
CONSTANTS main, worker, other, n1, n2, q1, q2, t

MCThreads == {main, worker, other}
MCChain == (n1 :> <<q1, q2>>) @@ (n2 :> <<q1, q2>>)
MCPlain == (n1 :> t) @@ (n2 :> t)
=============================================================================
