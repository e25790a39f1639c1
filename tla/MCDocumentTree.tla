---------------------------- MODULE MCDocumentTree ----------------------------
(* Instances of DocumentTree for TLC.                                      *)
EXTENDS DocumentTree, TLC

Symmetry == Permutations(Dirs) \cup Permutations(Orgs) \cup Permutations(Clients)
=============================================================================
