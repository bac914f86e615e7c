---------------------------- MODULE MCSnapshots ----------------------------
(* TLC instance of Snapshots: two names; MCOwn gives each an archive of its own,
   MCShared is what with_suffix makes of the names v1.0 and v1.1. *)
EXTENDS Snapshots, TLC

CONSTANTS n1, n2

MCNames == {n1, n2}
MCOwn == [n \in {n1, n2} |-> n]
MCShared == [n \in {n1, n2} |-> n1]
MCSymmetry == Permutations({n1, n2})
=============================================================================
