--------------------------- MODULE MCStandardQueue ---------------------------
(* TLC instance of StandardQueue. *)
EXTENDS StandardQueueRefinement, TLC

CONSTANTS m1, m2, r1, r2

MCMessages == {m1, m2}
MCReceivers == {r1, r2}
MCOne == {m1}
MCNone == {}

(* Messages are interchangeable and so are receivers. *)
Symmetry == Permutations(MCMessages) \cup Permutations(MCReceivers)
=============================================================================
