----------------------------- MODULE MCJobTools -----------------------------
(* Small instances of JobTools for TLC. *)
EXTENDS JobTools, TLC

\* Fingerprints are interchangeable: they are only compared with one another.
FingerprintSymmetry == Permutations(Fingerprints)
=============================================================================
