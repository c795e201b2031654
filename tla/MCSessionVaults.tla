-------------------------- MODULE MCSessionVaults --------------------------
(* Two calls in flight, of one session or of two, and a value of each kind: one *)
(* known by its text and one found as a card.                                   *)
EXTENDS SessionVaults, TLC
Symmetry == Permutations(Calls) \cup Permutations(Sessions)
=============================================================================
