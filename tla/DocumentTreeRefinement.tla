------------------------ MODULE DocumentTreeRefinement ------------------------
(***************************************************************************)
(* DocumentTree implements the abstract branches, for any instance: each   *)
(* request's commit and each sweep is one of their steps, and every other  *)
(* statement none.                                                         *)
(***************************************************************************)
EXTENDS DocumentTreeProofs

(* The mapping.                                                            *)
Marked == {d \in Dirs : status[d] = "deleting"}
Up     == [d \in Dirs |-> IF d \in Live THEN parent[d] ELSE None]
Home   == [d \in Dirs |-> IF d \in Live THEN owner[d] ELSE None]
Heard  == [d \in Dirs |-> IF told[d] = None THEN d ELSE told[d].parent]
Gone   == {d \in Dirs : status[d] = "removed"}

USE DocumentTreeAssumption DEF Branches!branchVars

LEMMA BranchesStutter ==
    ASSUME Live' = Live, Marked' = Marked, Gone' = Gone, UNCHANGED <<root, told>>,
           \A d \in Live : parent'[d] = parent[d] /\ owner'[d] = owner[d]
    PROVE  UNCHANGED Branches!branchVars
<1>1. Up' = Up /\ Home' = Home /\ Heard' = Heard
  BY DEF Up, Home, Heard
<1> QED
  BY <1>1 DEF Marked, Gone, Up, Home, Heard

LEMMA HeardAt ==
    ASSUME NEW d \in Dirs, NEW p, told'[d] # None, told'[d].parent = p,
           \A x \in Dirs \ {d} : told'[x] = told[x]
    PROVE  Heard' = [Heard EXCEPT ![d] = p]
BY DEF Heard

LEMMA CommitGrows ==
    ASSUME TypeOK, NEW d \in Inserting, NEW o, NEW p, o = owner[d], p = parent[d],
           status' = [status EXCEPT ![d] = "active"],
           told' = [told EXCEPT ![d] = [parent |-> p, version |-> version[d]]],
           UNCHANGED <<parent, version, owner>>
    PROVE  Branches!Grow(o, d, p) /\ d \in Live' \ Live
<1>0. d \in Dirs /\ d \notin Live /\ d \notin Gone /\ d \notin Marked
  BY DEF Inserting, Live, Gone, Marked
<1>1. Live' = Live \cup {d} /\ Gone' = Gone /\ Marked' = Marked
  BY <1>0 DEF TypeOK, Live, Gone, Marked, Inserting
<1>2. Up' = [Up EXCEPT ![d] = p] /\ Home' = [Home EXCEPT ![d] = o]
  BY <1>0, <1>1 DEF Up, Home
<1>3. Heard' = [Heard EXCEPT ![d] = p]
  <2>1. [parent |-> p, version |-> version[d]] # None
    <3>1. p \in Dirs \cup {None} /\ version[d] \in Nat
      BY <1>0 DEF TypeOK, DirOrNone
    <3> QED
      BY <3>1
  <2>2. told'[d] # None /\ told'[d].parent = p
    BY <1>0, <2>1 DEF TypeOK
  <2>3. \A x \in Dirs \ {d} : told'[x] = told[x]
    BY <1>0 DEF TypeOK
  <2> QED
    BY <1>0, <2>2, <2>3, HeardAt
<1> QED
  BY <1>0, <1>1, <1>2, <1>3 DEF Branches!Grow, Up, Home, Heard, Gone, Marked

LEMMA RowRemoved ==
    ASSUME TypeOK, NEW d \in Live, Empty(d), Remove(d)
    PROVE  Branches!Remove(d) /\ d \in Live \ Live'
<1>1. /\ Live' = Live \ {d} /\ Gone' = Gone \cup {d} /\ Marked' = Marked \ {d}
      /\ UNCHANGED <<parent, owner>>
  BY DEF Remove, TypeOK, Live, Gone, Marked
<1>2. Up' = [Up EXCEPT ![d] = None] /\ Home' = [Home EXCEPT ![d] = None]
  BY <1>1 DEF Up, Home, Live
<1>3. \A x \in Live : Up[x] # d
  BY DEF Up, Empty, Live
<1>4. root' = [o \in Orgs |-> IF root[o] = d THEN None ELSE root[o]]
  BY DEF Remove
<1> QED
  BY <1>1, <1>2, <1>3, <1>4 DEF Branches!Remove, Up, Home, Gone, Marked

LEMMA RowDeleted ==
    ASSUME TypeOK, NEW c, DeleteRow(c)
    PROVE  \E d \in Live \ Live' : Branches!Delete(d)
<1> PICK d \in Live : d = target[c]
  BY DEF DeleteRow
<1>1. Branches!Remove(d) /\ d \in Live \ Live'
  BY RowRemoved DEF DeleteRow
<1>2. Heard' = [Heard EXCEPT ![d] = d]
  <2>1. told' = [told EXCEPT ![d] = None] /\ d \in Dirs
    BY DEF DeleteRow, Live
  <2> QED
    BY <2>1 DEF Heard, TypeOK
<1> QED
  BY <1>1, <1>2 DEF Branches!Delete, Heard

LEMMA RowSwept ==
    ASSUME TypeOK, NEW d \in Dirs, SweepDir(d)
    PROVE  \E x \in Live \ Live' : Branches!Sweep(x)
<1>1. d \in Live /\ d \in Marked /\ told' = told
  BY DEF SweepDir, Live, Marked
<1>2. Branches!Remove(d) /\ d \in Live \ Live'
  BY <1>1, RowRemoved DEF SweepDir
<1>3. Heard' = Heard
  BY <1>1 DEF Heard
<1> QED
  BY <1>1, <1>2, <1>3 DEF Branches!Sweep, Heard, Marked

LEMMA RowMoved ==
    ASSUME DocumentInv, NEW c \in Clients, MoveRow(c)
    PROVE  \E d, p \in Live : Branches!Move(d, p)
<1> PICK d, p : d = target[c] /\ p = dest[c]
  OBVIOUS
<1>0. /\ TypeOK /\ d \in Active /\ p \in Active /\ pc[c] = "moving"
      /\ owner[d] = org[c] /\ owner[p] = org[c] /\ org[c] \in Orgs /\ parent[d] # None
      /\ ~IsWithin(p, d)
  BY DEF DocumentInv, RequestInv, MoveRow, Route, Scoped, Moving, Checked
<1>1. {d, p} \subseteq Live \ Marked /\ Live' = Live /\ Marked' = Marked /\ Gone' = Gone
  BY <1>0 DEF MoveRow, Active, Live, Marked, Gone
<1>2. Home[p] = Home[d] /\ Home' = Home /\ Home[d] = org[c] /\ UNCHANGED root
  BY <1>0, <1>1 DEF MoveRow, Home, Live
<1>3. root[org[c]] # d
  <2>1. Top(Live, org[c]) = IF root[org[c]] = None THEN {} ELSE {root[org[c]]}
    BY <1>0 DEF DocumentInv, TreeInv, RootsBound
  <2>2. d \notin Top(Live, org[c]) /\ d # None
    BY <1>0 DEF Top, Active
  <2> QED
    BY <2>1, <2>2
<1>4. parent' = [parent EXCEPT ![d] = p] /\ d \in Dirs /\ p \in Dirs
  BY <1>0 DEF MoveRow, Active
<1>5. Up' = [Up EXCEPT ![d] = p]
  BY <1>0, <1>1, <1>4 DEF Up, TypeOK
<1>6. Heard' = [Heard EXCEPT ![d] = p]
  <2>1. version[d] + 1 \in Nat
    BY <1>4, <1>0 DEF TypeOK
  <2>2. told' = [told EXCEPT ![d] = [parent |-> p, version |-> version[d] + 1]]
    BY DEF MoveRow
  <2>3. [parent |-> p, version |-> version[d] + 1] # None
    BY <1>4, <2>1
  <2>4. told'[d] # None /\ told'[d].parent = p
    BY <1>0, <1>4, <2>2, <2>3 DEF TypeOK
  <2>5. \A x \in Dirs \ {d} : told'[x] = told[x]
    BY <1>0, <2>2 DEF TypeOK
  <2> QED
    BY <1>4, <2>4, <2>5, HeardAt
<1>7. ~Branches!Above(d, p)
  <2>1. PICK S \in SUBSET Live : ClosedUp(S) /\ p \in S /\ d \notin S
    BY <1>0, <1>1 DEF IsWithin
  <2>2. \A x \in S : Up[x] \in S \cup {None}
    BY <2>1 DEF Up, ClosedUp, Live
  <2> QED
    BY <2>1, <2>2 DEF Branches!Above, Branches!ClosedUp, Up
<1>8. Branches!Move(d, p)
  BY <1>1, <1>2, <1>3, <1>5, <1>6, <1>7 DEF Branches!Move, Up, Home, Heard, Gone, Marked
<1> QED
  BY <1>1, <1>8

LEMMA BranchMarked ==
    ASSUME DocumentInv, NEW c \in Clients, MarkCommit(c)
    PROVE  UNCHANGED Branches!branchVars \/ \E d \in Live : Branches!Mark(d)
<1> PICK t, M : t = target[c] /\ M = marking[c]
  OBVIOUS
<1>0. /\ TypeOK /\ Marks(c) /\ pc[c] = "marked" /\ t \in Issued /\ Standing
  BY DEF DocumentInv, TreeInv, RequestInv, MarkCommit, Route, Scoped
<1>1. /\ M \subseteq Active
      /\ \A x \in M : IsWithin(x, t)
      /\ first[c] => t \in M
      /\ ~first[c] => t \notin Active
  BY <1>0 DEF Marks
<1>2. /\ Live' = Live /\ Marked' = Marked \cup M /\ Gone' = Gone
      /\ M \subseteq Live /\ M \cap Marked = {} /\ UNCHANGED <<parent, owner, root>>
  BY <1>1 DEF MarkCommit, Active, Live, Marked, Gone
<1>3. Up' = Up /\ Home' = Home
  BY <1>2 DEF Up, Home
<1>4. CASE M = {}
  <2>1. told' = told
    BY <1>0, <1>4 DEF MarkCommit, Tells, TypeOK
  <2> QED
    BY <1>2, <1>4, <2>1, BranchesStutter
<1>5. CASE M # {}
  <2>1. t \in Live
    BY <1>0, <1>1, <1>5, WithinOwner
  <2>2. t \in M \cup Marked /\ (t \in M <=> first[c])
    BY <1>1, <2>1 DEF Live, Active, Marked
  <2>3. Heard' = IF t \in M THEN [Heard EXCEPT ![t] = t] ELSE Heard
    <3>1. told' = [told EXCEPT ![t] = IF first[c] THEN None ELSE @] /\ t \in Dirs
      BY <1>5, <2>1 DEF MarkCommit, Tells, Live
    <3>2. CASE first[c]
      BY <1>0, <2>2, <3>1, <3>2 DEF Heard, TypeOK
    <3>3. CASE ~first[c]
      BY <1>0, <2>2, <3>1, <3>3 DEF Heard, TypeOK
    <3> QED
      BY <3>2, <3>3
  <2>4. \A x \in M : Branches!Above(t, x)
    <3>1. \A S \in SUBSET Live : (\A x \in S : Up[x] \in S \cup {None}) => ClosedUp(S)
      BY DEF Up, ClosedUp, Live
    <3> QED
      BY <1>1, <3>1 DEF Branches!Above, Branches!ClosedUp, Up, IsWithin
  <2>5. Marked' \ Marked = M
    BY <1>2
  <2>6. Branches!Mark(t)
    BY <1>2, <1>3, <1>5, <2>2, <2>3, <2>4, <2>5 DEF Branches!Mark, Up, Home, Heard, Gone, Marked
  <2> QED
    BY <2>1, <2>6
<1> QED
  BY <1>4, <1>5

LEMMA BranchesStart ==
    ASSUME Init
    PROVE  Branches!BranchesInit
<1>1. Live = {}
  BY DEF Init, Live
<1> QED
  BY <1>1 DEF Init, Branches!BranchesInit

LEMMA BranchesStep ==
    ASSUME DocumentInv, [Next]_vars
    PROVE  [Branches!BranchesNext]_(Branches!branchVars)
<1>0. TypeOK /\ TreeInv
  BY DEF DocumentInv
<1>1. ASSUME Quiet
      PROVE  UNCHANGED Branches!branchVars
  BY <1>1 DEF Quiet, rows, Live
<1>2. ASSUME NEW c \in Clients, Request(c)
      PROVE  UNCHANGED Branches!branchVars
  BY <1>1, <1>2, RequestQuiet
<1>3. ASSUME NEW c \in Clients, Proceed(c)
      PROVE  [Branches!BranchesNext]_(Branches!branchVars)
  <2>0. Route(c) /\ Fresh(c)
    BY DEF DocumentInv, RequestInv, FreshInv
  <2>1. CASE \/ RootRead(c) \/ RootMissing(c) \/ EnsureAbsent(c) \/ EnsureTaken(c)
             \/ CreateScope(c) \/ DeleteScope(c) \/ MarkScope(c) \/ MarkLock(c) \/ MarkRows(c)
             \/ MoveScope(c) \/ MoveLock(c) \/ MoveCheck(c) \/ \E d \in Dirs : EnsureFind(c, d)
    <3>1. Quiet
      BY <2>1 DEF RootRead, RootMissing, EnsureAbsent, EnsureTaken, EnsureFind, CreateScope,
                  DeleteScope, MarkScope, ScopeThen, MarkLock, MarkRows, MoveScope, MoveLock,
                  MoveCheck, Quiet
    <3> QED
      BY <1>1, <3>1
  <2>2. ASSUME NEW d \in Dirs, EnsureInsert(c, d) \/ CreateInsert(c, d)
        PROVE  UNCHANGED Branches!branchVars
    <3>1. PICK p, o : NewRow(d, p, o) /\ d \in Unborn /\ UNCHANGED <<root, told>>
      BY <2>2 DEF EnsureInsert, CreateInsert
    <3>2. /\ Live' = Live /\ Marked' = Marked /\ Gone' = Gone
          /\ \A x \in Live : parent'[x] = parent[x] /\ owner'[x] = owner[x]
      BY <1>0, <3>1 DEF NewRow, TypeOK, Unborn, Live, Marked, Gone
    <3> QED
      BY <3>1, <3>2, BranchesStutter
  <2>3. CASE BindTaken(c) \/ Abort(c)
    <3>1. Discard({fresh[c]} \cap Inserting) /\ UNCHANGED <<root, told>>
      BY <2>3 DEF BindTaken, Abort
    <3>2. /\ Live' = Live /\ Marked' = Marked /\ Gone' = Gone
          /\ \A x \in Live : parent'[x] = parent[x] /\ owner'[x] = owner[x]
      BY <1>0, <3>1 DEF Discard, TypeOK, Inserting, Live, Marked, Gone
    <3> QED
      BY <3>1, <3>2, BranchesStutter
  <2>4. CASE Bind(c)
    <3>1. BindCommits(c)
      BY <2>4, BindCommitted
    <3> PICK d \in Inserting, o \in Orgs : d = fresh[c] /\ o = org[c]
      BY <2>0, <2>4, <3>1 DEF BindCommits, Bind, Route
    <3>2. Branches!Grow(o, d, None) /\ d \in Live' \ Live
      BY <1>0, <3>1, CommitGrows DEF BindCommits
    <3>3. Branches!MakeRoot(o, d)
      BY <2>4, <3>2 DEF Bind, Branches!MakeRoot
    <3> QED
      BY <3>2, <3>3 DEF Branches!BranchesNext
  <2>5. CASE CreateCommit(c)
    <3> PICK d \in Inserting : d = fresh[c]
      BY <2>0, <2>5 DEF CreateCommit, Fresh
    <3> PICK o, p : o = owner[d] /\ p = parent[d]
      OBVIOUS
    <3>1. /\ status' = [status EXCEPT ![d] = "active"]
          /\ told' = [told EXCEPT ![d] = [parent |-> p, version |-> version[d]]]
          /\ UNCHANGED <<parent, version, owner, root>>
      BY <2>5 DEF CreateCommit
    <3>2. Branches!Grow(o, d, p) /\ d \in Live' \ Live
      BY <1>0, <3>1, CommitGrows
    <3>3. p \in Live /\ owner[p] = o
      BY <1>0, <2>0, <2>5 DEF CreateCommit, Fresh, TreeInv, Standing
    <3>4. Home[p] = o
      BY <3>3 DEF Home, Live
    <3>5. Branches!Create(d, p)
      <4>1. Branches!Grow(Home[p], d, p)
        BY <3>2, <3>4 DEF Branches!Grow
      <4> QED
        BY <3>1, <3>3, <4>1 DEF Branches!Create, Home
    <3> QED
      BY <3>2, <3>3, <3>5 DEF Branches!BranchesNext
  <2>6. CASE DeleteRow(c)
    BY <1>0, <2>6, RowDeleted DEF Branches!BranchesNext
  <2>7. CASE MarkCommit(c)
    BY <2>7, BranchMarked DEF Branches!BranchesNext
  <2>8. CASE MoveRow(c)
    BY <2>8, RowMoved DEF Branches!BranchesNext
  <2> QED
    BY <1>3, <2>1, <2>2, <2>3, <2>4, <2>5, <2>6, <2>7, <2>8 DEF Proceed
<1>4. ASSUME NEW d \in Dirs, SweepDir(d)
      PROVE  Branches!BranchesNext
  BY <1>0, <1>4, RowSwept DEF Branches!BranchesNext
<1>5. CASE UNCHANGED vars
  BY <1>1, <1>5 DEF vars, Quiet
<1> QED
  BY <1>2, <1>3, <1>4, <1>5 DEF Next

(* Whatever requests interleave, statement by statement, each commit is    *)
(* one step of the abstract hierarchy and tells it with the event that     *)
(* step owes; refusals, roll backs and stragglers' counts are none.        *)
THEOREM DirectoriesImplement == Spec => ImplementsBranches
<1>1. DocumentInv /\ [Next]_vars => [Branches!BranchesNext]_(Branches!branchVars)
  BY BranchesStep
<1> QED
  BY <1>1, BranchesStart, DocumentInvariant, PTL
  DEF Spec, ImplementsBranches, Branches!BranchesSpec
=============================================================================
