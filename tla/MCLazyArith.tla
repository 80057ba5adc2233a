---------------------------- MODULE MCLazyArith ----------------------------
(* A field of 9 bits and two limb moduli: room for one product of two fresh  *)
(* wires and its sums, and too small for the next product.                   *)
EXTENDS LazyArith

MCModuli == {5, 7}
=============================================================================
