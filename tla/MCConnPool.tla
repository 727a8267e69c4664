----------------------------- MODULE MCConnPool -----------------------------
(* Small instances of ConnPool for TLC.                                      *)
EXTENDS ConnPool, TLC

\* Tasks and connections are interchangeable.  Used by the safety runs only:
\* symmetry is not sound for liveness.
Symmetry == Permutations(Tasks) \cup Permutations(Conns)
=============================================================================
