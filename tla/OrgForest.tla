------------------------------ MODULE OrgForest -------------------------------
(***************************************************************************)
(* What the organization routes promise of the tree, without rows,         *)
(* versions, locks or transactions: it is changed by grafting new          *)
(* organizations on, by moving one under an organization that is not       *)
(* beneath it at that moment, and by removing one that has nothing         *)
(* beneath it; an organization removed never comes back.                   *)
(***************************************************************************)
CONSTANTS Orgs, None

VARIABLES
    live,      \* the organizations there are
    up,        \* the parent of each, None for a root
    removed    \* the organizations there were

forestVars == <<live, up, removed>>

ForestInit ==
    /\ live = {}
    /\ up = [o \in Orgs |-> None]
    /\ removed = {}

(* A set of organizations that holds the parent of each of its members.    *)
ClosedUp(S) == \A x \in S : up[x] \in S \cup {None}

(* o is c or one of its ancestors: c lies in o's subtree.                  *)
Above(o, c) == \A S \in SUBSET live : ClosedUp(S) /\ c \in S => o \in S

(* POST, and a seed, which grafts several at once: the new ones hang from  *)
(* the old and from each other, and no new ones only from each other.      *)
Graft ==
    /\ live \subseteq live' /\ live' \cap removed = {}
    /\ \A o \in live \cup (Orgs \ live') : up'[o] = up[o]
    /\ \A o \in live' \ live : up'[o] \in live' \cup {None}
    /\ \A S \in SUBSET (live' \ live) : S # {} => \E x \in S : up'[x] \notin S
    /\ UNCHANGED removed

(* POST .../transfer.                                                      *)
Move(o, p) ==
    /\ o \in live
    /\ p \in live => ~Above(o, p)
    /\ p \in live \cup {None}
    /\ up' = [up EXCEPT ![o] = p]
    /\ UNCHANGED <<live, removed>>

(* DELETE.                                                                 *)
Remove(o) ==
    /\ o \in live
    /\ \A x \in live : up[x] # o
    /\ live' = live \ {o}
    /\ up' = [up EXCEPT ![o] = None]
    /\ removed' = removed \cup {o}

ForestNext ==
    \/ Graft
    \/ \E o \in Orgs, p \in Orgs \cup {None} : Move(o, p)
    \/ \E o \in Orgs : Remove(o)

ForestSpec == ForestInit /\ [][ForestNext]_forestVars
=============================================================================
