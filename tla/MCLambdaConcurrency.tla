------------------------- MODULE MCLambdaConcurrency -------------------------
(* TLC instance of LambdaConcurrency. *)
EXTENDS LambdaConcurrency, TLC

CONSTANTS f1, f2, q1, i1, i2, i3

MCFunctions == {f1, f2}
MCOneFunction == {f1}
MCQualifiers == {q1}
MCThree == {i1, i2, i3}

(* Invocations are interchangeable and so are functions. *)
Symmetry == Permutations(Invocations) \cup Permutations(MCFunctions)
=============================================================================
