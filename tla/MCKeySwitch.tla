----------------------------- MODULE MCKeySwitch -----------------------------
\* Contexts small enough for every sum to fit in the checker's integers: both
\* techniques, a last digit with fewer towers, one and two parties, each use
\* of a key, a distribution of towers the parameters refuse, and the flexible
\* scaling techniques with moduli that are not one modulo t.
EXTENDS KeySwitch

MCNoise == <<1, -1, 0, 1>>

HYBRID(q, t, digs, int128, parties, use) ==
  [q |-> q, t |-> t, scaling |-> "FIXED", technique |-> "HYBRID", digits |-> digs, auxBits |-> 6,
   int128 |-> int128, parties |-> parties, use |-> use,
   noises |-> IF parties = 2 /\ use = "mult" THEN {MCNoise} ELSE {MCNoise, <<-1, -1, 1, 0>>}]
BV(q, t, bits, parties, use) ==
  [q |-> q, t |-> t, scaling |-> "FIXED", technique |-> "BV", digits |-> bits, auxBits |-> 0,
   int128 |-> TRUE, parties |-> parties, use |-> use,
   noises |-> IF parties = 2 /\ use = "mult" THEN {MCNoise} ELSE {MCNoise, <<-1, -1, 1, 0>>}]

MCSettings ==
  {HYBRID(<<251, 11, 7>>, 2, 2, TRUE, 1, "mult"),
   HYBRID(<<199, 13, 7, 19>>, 3, 2, TRUE, 2, "mult"),
   HYBRID(<<251, 11, 7, 5, 3>>, 2, 3, FALSE, 1, "rotate"),
   HYBRID(<<251, 11, 7>>, 2, 3, TRUE, 1, "reencrypt"),
   HYBRID(<<251, 11, 7, 5, 3>>, 2, 4, TRUE, 1, "mult"),
   BV(<<251, 11, 7>>, 2, 0, 2, "rotate"),
   BV(<<251, 11, 7>>, 2, 3, 1, "reencrypt"),
   BV(<<251, 31, 29>>, 2, 4, 1, "mult"),
   [HYBRID(<<251, 13, 7>>, 5, 2, TRUE, 1, "mult") EXCEPT !.scaling = "FLEXIBLEAUTO"],
   [HYBRID(<<251, 13, 23>>, 5, 3, TRUE, 1, "reencrypt") EXCEPT !.scaling = "FLEXIBLEAUTOEXT"],
   [BV(<<251, 17, 11>>, 3, 4, 1, "mult") EXCEPT !.scaling = "FLEXIBLEAUTO"]}
MCSecrets == {-1, 0, 1}
MCUniforms == {<<12345, 678, 90123, 4567, 321>>}
=============================================================================
