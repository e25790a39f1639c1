------------------------------- MODULE MCOrgTree -------------------------------
(* An instance of OrgTree for TLC.                                         *)
EXTENDS OrgTree, TLC

CONSTANTS k1, k2

(* Two rows as data/seeds/default.json has them: a root, then a child.     *)
RootAndChild == <<[code |-> k1, parent |-> None], [code |-> k2, parent |-> k1]>>
=============================================================================
