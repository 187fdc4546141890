----------------------------- MODULE MCElector -----------------------------
(***************************************************************************)
(* Constants and symmetry for the runs of Elector.                         *)
(***************************************************************************)
EXTENDS Elector, TLC

\* A few numbers below zero, for the run in which the counter wraps.
MCMinSeq == -3

Symmetry == Permutations(Electors)
=============================================================================
