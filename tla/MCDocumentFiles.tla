---------------------------- MODULE MCDocumentFiles ----------------------------
EXTENDS DocumentFiles, TLC

Symmetry == Permutations(Seeders)
=============================================================================
