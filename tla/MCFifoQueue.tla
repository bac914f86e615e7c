----------------------------- MODULE MCFifoQueue -----------------------------
(* TLC instance of FifoQueue: two messages of one group and one of another. *)
EXTENDS FifoQueue, TLC

CONSTANTS m1, m2, m3, g1, g2, d1, d2, d3, r1, r2

MCMessages == {m1, m2, m3}
MCGroups == {g1, g2}
MCDedupIds == {d1, d2, d3}
MCReceivers == {r1, r2}
MCGroup == (m1 :> g1) @@ (m2 :> g1) @@ (m3 :> g2)
MCDedupId == (m1 :> d1) @@ (m2 :> d2) @@ (m3 :> d3)

MCTwo == {m1, m2}
MCOneGroup == {g1}
MCTwoGroup == (m1 :> g1) @@ (m2 :> g1)
MCOneDedup == {d1}
MCSameDedup == (m1 :> d1) @@ (m2 :> d1)
MCTwoDedups == {d1, d2}
MCTwoDedup == (m1 :> d1) @@ (m2 :> d2)
MCOneReceiver == {r1}

(* Receivers are interchangeable. *)
Symmetry == Permutations(MCReceivers)
=============================================================================
