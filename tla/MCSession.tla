----------------------------- MODULE MCSession ------------------------------
(* A session with interchangeable callers.                                  *)
EXTENDS Session, TLC

Symmetry == Permutations(Callers) \cup Permutations(Cmds)
=============================================================================
