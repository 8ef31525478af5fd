------------------------------ MODULE MCRunner ------------------------------
(* Small instances of Runner. *)
EXTENDS Runner, TLC

(* No operator of Runner tells one statement from another. *)
StatementSymmetry == Permutations(Statement)
=============================================================================
