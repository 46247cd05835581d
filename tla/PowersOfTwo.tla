---------------------------- MODULE PowersOfTwo ----------------------------
(***************************************************************************)
(* What the shifts of the drivers multiply and divide by: 1 << n.  A       *)
(* function of n, so that proofs can unfold it.                            *)
(***************************************************************************)
EXTENDS Naturals

Pow2[n \in Nat] == IF n = 0 THEN 1 ELSE 2 * Pow2[n - 1]
=============================================================================
