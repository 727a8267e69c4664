------------------------------ MODULE MCPubSub ------------------------------
(* Small instances of PubSub for TLC.                                        *)
EXTENDS PubSub

\* Tasks are interchangeable.  Used by safety runs only.
Symmetry == Permutations(Tasks)
=============================================================================
