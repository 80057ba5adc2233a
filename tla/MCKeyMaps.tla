----------------------------- MODULE MCKeyMaps -----------------------------
\* Programs that use keys for products of two private keys and two kinds of
\* parameters; rotation keys of two private keys; and keys for sums and
\* rotations, which can share map objects, of one.
EXTENDS KeyMaps, TLC
CONSTANTS p1, p2, a, b

MCPrograms ==
  {[kinds |-> {"mult"}, tags |-> {a, b}, params |-> {p1, p2}],
   [kinds |-> {"automorphism"}, tags |-> {a, b}, params |-> {p1}],
   [kinds |-> {"sum", "automorphism"}, tags |-> {a}, params |-> {p1}]}
MCSymmetry == Permutations(Contexts) \union Permutations(Maps) \union Permutations(Tags)
=============================================================================
