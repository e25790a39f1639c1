--------------------------- MODULE DocumentBranches ---------------------------
(***************************************************************************)
(* What the document routes promise of directories, without versions,      *)
(* locks, requests or statements.  Each change is of one organization, is  *)
(* complete at once, and is told by one event or none: an organization's   *)
(* first write makes its root, a create hangs a new directory beneath one  *)
(* of its own, a move keeps to its organization and outside its own branch *)
(* and touches nothing marked, a removal takes a directory with nothing    *)
(* beneath it, and a mark is told of its top alone and only when that was  *)
(* not marked before.  What is marked stays marked, what is removed never  *)
(* comes back.                                                             *)
(***************************************************************************)
CONSTANTS Dirs, Orgs, None

VARIABLES
    live,      \* the directories there are
    marked,    \* those of them that a recursive delete has taken
    up,        \* the parent of each, None at the top
    home,      \* the organization each belongs to
    root,      \* each organization's root, or None
    heard,     \* where the events last placed each directory; None is the
               \* top, and an untold or deleted directory is its own parent
    removed    \* the directories there were

branchVars == <<live, marked, up, home, root, heard, removed>>

BranchesInit ==
    /\ live = {}
    /\ marked = {}
    /\ up = [d \in Dirs |-> None]
    /\ home = [d \in Dirs |-> None]
    /\ root = [o \in Orgs |-> None]
    /\ heard = [d \in Dirs |-> d]
    /\ removed = {}

(* d is x or an ancestor of x.                                             *)
ClosedUp(S) == \A x \in S : up[x] \in S \cup {None}
Above(d, x) == \A S \in SUBSET live : ClosedUp(S) /\ x \in S => d \in S

Grow(o, d, p) ==
    /\ d \notin live \cup removed
    /\ live' = live \cup {d}
    /\ up' = [up EXCEPT ![d] = p]
    /\ home' = [home EXCEPT ![d] = o]
    /\ heard' = [heard EXCEPT ![d] = p]
    /\ UNCHANGED <<marked, removed>>

(* The first write under an organization.                                  *)
MakeRoot(o, d) ==
    /\ root[o] = None
    /\ Grow(o, d, None)
    /\ root' = [root EXCEPT ![o] = d]

(* POST .../directories.  Its parent may have been marked in between.      *)
Create(d, p) ==
    /\ p \in live
    /\ Grow(home[p], d, p)
    /\ UNCHANGED root

(* POST .../move.                                                          *)
Move(d, p) ==
    /\ {d, p} \subseteq live \ marked
    /\ home[p] = home[d]
    /\ root[home[d]] # d
    /\ up' = [up EXCEPT ![d] = p]
    /\ ~Above(d, p)
    /\ heard' = [heard EXCEPT ![d] = p]
    /\ UNCHANGED <<live, marked, home, root, removed>>

(* What a removal, a DELETE's or the sweep's, takes along.                 *)
Remove(d) ==
    /\ d \in live
    /\ live' = live \ {d}
    /\ \A x \in live : up[x] # d
    /\ marked' = marked \ {d}
    /\ up' = [up EXCEPT ![d] = None]
    /\ home' = [home EXCEPT ![d] = None]
    /\ root' = [o \in Orgs |-> IF root[o] = d THEN None ELSE root[o]]
    /\ removed' = removed \cup {d}

(* DELETE.                                                                 *)
Delete(d) ==
    /\ Remove(d)
    /\ heard' = [heard EXCEPT ![d] = d]

Sweep(d) ==
    /\ d \in marked
    /\ Remove(d)
    /\ UNCHANGED heard

(* DELETE with recursive.  What was created in the branch meanwhile may be *)
(* left out; then it hangs from what is marked.                            *)
Mark(d) ==
    LET M == marked' \ marked IN
    /\ M # {} /\ M \subseteq live
    /\ d \in M \cup marked
    /\ marked \subseteq marked'
    /\ \A x \in M : Above(d, x)
    /\ heard' = IF d \in M THEN [heard EXCEPT ![d] = d] ELSE heard
    /\ UNCHANGED <<live, up, home, root, removed>>

BranchesNext ==
    \/ \E d \in live' \ live :
          \/ \E o \in Orgs : MakeRoot(o, d)
          \/ \E p \in live : Create(d, p)
    \/ \E d \in live \ live' : Delete(d) \/ Sweep(d)
    \/ \E d \in live : Mark(d) \/ \E p \in live : Move(d, p)

BranchesSpec == BranchesInit /\ [][BranchesNext]_branchVars
=============================================================================
