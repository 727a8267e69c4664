------------------------------ MODULE MCClient ------------------------------
(* Small instances of Client for TLC.                                        *)
EXTENDS Client, TLC

\* Tasks and connections are interchangeable.  Used by safety runs only.
Symmetry == Permutations(Tasks) \cup Permutations(Conns)
=============================================================================
