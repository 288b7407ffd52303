---------------------------- MODULE MCJobControl ----------------------------
(* Model-checking instance of JobControl: the pids are interchangeable.      *)
EXTENDS JobControlImpl, TLC

PidSymmetry == Permutations(Pids)
=============================================================================
