------------------------------ MODULE MCRunner ------------------------------
(* Small instances of Runner for TLC. *)
EXTENDS Runner, TLC

\* Keys are interchangeable: no definition tells one from another.
KeySymmetry == Permutations(Keys)
=============================================================================
