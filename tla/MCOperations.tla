----------------------------- MODULE MCOperations -----------------------------
EXTENDS Operations
CONSTANTS row, f1, b1, b2, a1, a2
OneFile == <<f1>>
=============================================================================
