-------------------------- MODULE DocumentTreeProofs --------------------------
(***************************************************************************)
(* The document directories keep their organizations' hierarchies, roots   *)
(* and events, for any instance of DocumentTree.                           *)
(***************************************************************************)
EXTENDS DocumentTree, TLAPS

(* The steps after a request's scope check, and those of a move's tail.    *)
Scoped  == {"insert", "created", "deleting", "markLock", "marking", "marked",
            "moveLock", "moveCheck", "moving"}
Moving  == {"moveLock", "moveCheck", "moving"}
Guarded == {"delete", "deleting", "mark", "markLock", "marking", "marked", "move"}
               \cup Moving

(* What a row that is there owes its types: an organization, a version,    *)
(* and while it is active room for the version a mark gives it.            *)
RowInv ==
    /\ \A d \in Live \cup Inserting : owner[d] \in Orgs /\ version[d] >= 1
    /\ \A d \in Active : version[d] < MaxVersion
    /\ \A d \in Inserting : version[d] = 1

(* What a request in progress has in hand: ids that were issued, and once  *)
(* it has passed its scope check, of its organization.                     *)
Route(c) ==
    /\ pc[c] # "idle" => org[c] \in Orgs /\ target[c] \in Issued \cup {Alias}
    /\ pc[c] \in Scoped => target[c] \in Issued /\ owner[target[c]] = org[c]
    /\ pc[c] \in Guarded => seen[c] \in Reading
    /\ pc[c] \in {"move"} \cup Moving => seen[c].version + 1 < MaxVersion
    /\ pc[c] = "move" => target[c] \in Issued /\ dest[c] \in Issued \cup {Alias}
    /\ pc[c] \in Moving =>
          /\ dest[c] \in Issued /\ owner[dest[c]] = org[c]
          /\ parent[target[c]] # None

(* Each uncommitted row is one request's; a directory that was found under *)
(* its organization's name is still at the top.                            *)
Fresh(c) ==
    /\ pc[c] \in {"bind", "created"} <=> fresh[c] # None
    /\ fresh[c] # None => owner[fresh[c]] = org[c]
    /\ pc[c] = "bind" => fresh[c] \in Inserting \cup Issued /\ parent[fresh[c]] = None
    /\ pc[c] = "created" => fresh[c] \in Inserting /\ parent[fresh[c]] # None
FreshInv ==
    /\ \A c \in Clients : Fresh(c)
    /\ \A d \in Inserting : \E c \in Clients : fresh[c] = d
    /\ \A c, e \in Clients : fresh[c] \in Inserting /\ fresh[c] = fresh[e] => c = e

Locks(c) == pc[c] \in {"marking", "marked", "moveCheck", "moving"} <=> lock = c

(* A mark holds what was active in its branch, and still is.               *)
Marks(c) ==
    /\ pc[c] # "marked" => marking[c] = {}
    /\ pc[c] = "marking" /\ first[c] /\ target[c] \in Live => target[c] \in Active
    /\ pc[c] \in {"marking", "marked"} /\ ~first[c] => target[c] \notin Active
    /\ pc[c] = "marked" =>
          /\ marking[c] \subseteq Active
          /\ first[c] => target[c] \in marking[c]
          /\ \A x \in marking[c] :
                /\ IsWithin(x, target[c])
                /\ x # target[c] =>
                      parent[x] \in Live /\ (parent[x] \in Active => parent[x] \in marking[c])

(* What a move's cycle check found still holds.                            *)
Checked(c) == pc[c] = "moving" => ~IsWithin(dest[c], target[c])

RequestInv ==
    \A c \in Clients : Route(c) /\ Locks(c) /\ Marks(c) /\ Checked(c)

Standing ==
    \A d \in Live \cup Inserting :
        parent[d] # None => parent[d] \in Live /\ owner[parent[d]] = owner[d]
Acyclic ==
    \A S \in SUBSET Live : S # {} => \E x \in S : parent[x] \notin S

(* The last event of an active directory is its row; what was never        *)
(* committed is untold.                                                    *)
ToldInv ==
    /\ \A d \in Active : told[d] = [parent |-> parent[d], version |-> version[d]]
    /\ \A d \in Dirs : told[d] # None => d \in Issued

(* A consumer that still holds a directory which is no longer active has   *)
(* it beneath another such, up to one that a mark's event took from it.    *)
Hidden == {d \in Issued \ Active : told[d] # None}
HiddenInv ==
    /\ \A d \in Hidden : told[d].parent \in Issued \ Active
    /\ \A T \in SUBSET Hidden : T # {} => \E d \in T : told[d].parent \notin T

TreeInv ==
    /\ RowInv
    /\ Standing /\ Acyclic /\ RootsBound
    /\ ToldInv /\ HiddenInv

DocumentInv == TypeOK /\ TreeInv /\ RequestInv /\ FreshInv

-----------------------------------------------------------------------------
(* Types.                                                                  *)

USE DocumentTreeAssumption

LEMMA FinishTyped ==
    ASSUME TypeOK, NEW c \in Clients, Finish(c)
    PROVE  /\ lock' \in Clients \cup {None}
           /\ pc' \in [Clients -> Steps]
           /\ org' \in [Clients -> Orgs \cup {None}]
           /\ target' \in [Clients -> DirOrNone \cup {Alias}]
           /\ seen' \in [Clients -> Reading \cup {None}]
           /\ dest' \in [Clients -> DirOrNone \cup {Alias}]
           /\ fresh' \in [Clients -> DirOrNone]
           /\ first' \in [Clients -> BOOLEAN]
           /\ marking' \in [Clients -> SUBSET Dirs]
BY DEF TypeOK, Finish, Goto, Steps, DirOrNone

LEMMA BeginTyped ==
    ASSUME TypeOK, NEW c \in Clients, NEW step \in Steps, NEW o \in Orgs,
           NEW id \in DirOrNone \cup {Alias}, NEW read \in Reading \cup {None},
           NEW to \in DirOrNone \cup {Alias}, Begin(c, step, o, id, read, to)
    PROVE  TypeOK'
BY DEF TypeOK, Begin, Goto, rows, working

LEMMA ResolveTyped ==
    ASSUME TypeOK, NEW o \in Orgs \cup {None}, NEW id \in DirOrNone \cup {Alias}, InScope(o, id)
    PROVE  Resolve(o, id) \in Live
BY DEF InScope, IsWithin, Live

LEMMA RowTyped ==
    ASSUME TypeOK, NEW d \in Dirs, NEW p \in DirOrNone, NEW o \in Orgs, NewRow(d, p, o)
    PROVE  /\ status' \in [Dirs -> {"unborn", "inserting", "active", "deleting", "removed"}]
           /\ parent' \in [Dirs -> DirOrNone]
           /\ version' \in [Dirs -> 0..MaxVersion]
           /\ owner' \in [Dirs -> Orgs \cup {None}]
BY DEF TypeOK, NewRow

LEMMA DiscardTyped ==
    ASSUME TypeOK, NEW D, Discard(D)
    PROVE  /\ status' \in [Dirs -> {"unborn", "inserting", "active", "deleting", "removed"}]
           /\ parent' \in [Dirs -> DirOrNone]
           /\ version' \in [Dirs -> 0..MaxVersion]
           /\ owner' \in [Dirs -> Orgs \cup {None}]
BY DEF TypeOK, Discard, DirOrNone

LEMMA RemoveTyped ==
    ASSUME TypeOK, NEW d \in Dirs, Remove(d)
    PROVE  /\ status' \in [Dirs -> {"unborn", "inserting", "active", "deleting", "removed"}]
           /\ parent' \in [Dirs -> DirOrNone]
           /\ version' \in [Dirs -> 0..MaxVersion]
           /\ owner' \in [Dirs -> Orgs \cup {None}]
           /\ root' \in [Orgs -> DirOrNone]
BY DEF TypeOK, Remove, DirOrNone

(* The rows' bounds let a mark, a move and their events stay in them.      *)
LEMMA TypeStep ==
    ASSUME DocumentInv, [Next]_vars
    PROVE  TypeOK'
<1>0. TypeOK /\ RowInv /\ RequestInv /\ FreshInv
  BY DEF DocumentInv, TreeInv
<1> USE <1>0
<1>1. ASSUME NEW c \in Clients, Request(c)
      PROVE  TypeOK'
  <2> PICK o \in Orgs :
         \/ \E p \in Issued \cup {Alias} : CreateBegin(c, o, p)
         \/ \E d \in Dirs :
               \/ \E id \in {d, Alias} : DeleteBegin(c, o, id, d) \/ MarkBegin(c, o, id, d)
               \/ \E to \in Issued \cup {Alias} : MoveBegin(c, o, d, to)
    BY <1>1 DEF Request
  <2>1. ASSUME NEW p \in Issued \cup {Alias}, CreateBegin(c, o, p)
        PROVE  TypeOK'
    BY <2>1, BeginTyped DEF CreateBegin, Issued, DirOrNone, Steps
  <2>2. ASSUME NEW d \in Dirs, NEW id \in {d, Alias}, DeleteBegin(c, o, id, d) \/ MarkBegin(c, o, id, d)
        PROVE  TypeOK'
    <3>1. [id |-> d, version |-> version[d]] \in Reading
      BY <2>2 DEF DeleteBegin, MarkBegin, Reads, RowInv, Reading, TypeOK
    <3> QED
      BY <2>2, <3>1, BeginTyped DEF DeleteBegin, MarkBegin, DirOrNone, Steps
  <2>3. ASSUME NEW d \in Dirs, NEW to \in Issued \cup {Alias}, MoveBegin(c, o, d, to)
        PROVE  TypeOK'
    <3>1. [id |-> d, version |-> version[d]] \in Reading
      BY <2>3 DEF MoveBegin, Reads, RowInv, Reading, TypeOK
    <3> QED
      BY <2>3, <3>1, BeginTyped DEF MoveBegin, Issued, DirOrNone, Steps
  <2> QED
    BY <2>1, <2>2, <2>3
<1>2. ASSUME NEW c \in Clients, Proceed(c)
      PROVE  TypeOK'
  <2>1. CASE RootMissing(c) \/ EnsureAbsent(c) \/ EnsureTaken(c)
    BY <2>1 DEF TypeOK, RootMissing, EnsureAbsent, EnsureTaken, Goto, Steps, rows, working, route
  <2>16. CASE RootRead(c)
    <3>1. root[org[c]] \in DirOrNone
      BY <2>16 DEF RootRead, RequestInv, Route, TypeOK
    <3> QED
      BY <2>16, <3>1 DEF TypeOK, RootRead, Goto, Steps, rows, working
  <2>2. ASSUME NEW d \in Dirs, EnsureFind(c, d)
        PROVE  TypeOK'
    BY <2>2 DEF TypeOK, EnsureFind, Goto, Steps, rows, route, DirOrNone
  <2>3. ASSUME NEW d \in Dirs, EnsureInsert(c, d) \/ CreateInsert(c, d)
        PROVE  TypeOK'
    <3>1. PICK p \in DirOrNone, o \in Orgs : NewRow(d, p, o)
      BY <2>3 DEF EnsureInsert, CreateInsert, DirOrNone, Active, RequestInv, Route
    <3>2. /\ status' \in [Dirs -> {"unborn", "inserting", "active", "deleting", "removed"}]
          /\ parent' \in [Dirs -> DirOrNone]
          /\ version' \in [Dirs -> 0..MaxVersion]
          /\ owner' \in [Dirs -> Orgs \cup {None}]
      BY <3>1, RowTyped
    <3>3. CASE EnsureInsert(c, d)
      BY <3>2, <3>3 DEF TypeOK, EnsureInsert, Goto, Steps, route, DirOrNone
    <3>4. CASE CreateInsert(c, d)
      BY <3>2, <3>4 DEF TypeOK, CreateInsert, Goto, Steps, route, DirOrNone
    <3> QED
      BY <2>3, <3>3, <3>4
  <2>4. CASE Bind(c)
    <3>1. org[c] \in Orgs /\ fresh[c] \in Dirs
      BY <2>4 DEF Bind, RequestInv, Route, Live, Inserting
    <3>2. [parent |-> None, version |-> 1] \in Record
      BY DEF Record, DirOrNone
    <3>3. status' \in [Dirs -> {"unborn", "inserting", "active", "deleting", "removed"}]
      BY <2>4, <3>1 DEF TypeOK, Bind
    <3>4. told' \in [Dirs -> Record \cup {None}]
      BY <2>4, <3>1, <3>2 DEF TypeOK, Bind
    <3>5. root' \in [Orgs -> DirOrNone]
      BY <2>4, <3>1 DEF TypeOK, Bind, DirOrNone
    <3> QED
      BY <2>4, <3>1, <3>3, <3>4, <3>5 DEF TypeOK, Bind, Goto, Steps, DirOrNone
  <2>5. CASE BindTaken(c)
    BY <2>5, DiscardTyped DEF TypeOK, BindTaken, Goto, Steps, route, DirOrNone
  <2>6. CASE CreateScope(c) \/ DeleteScope(c) \/ MarkScope(c)
    <3>1. PICK from, step \in Steps : ScopeThen(c, from, step)
      BY <2>6 DEF CreateScope, DeleteScope, MarkScope, Steps
    <3>2. Resolve(org[c], target[c]) \in Dirs
      BY <3>1, ResolveTyped DEF ScopeThen, TypeOK, Live
    <3> QED
      BY <3>1, <3>2 DEF TypeOK, ScopeThen, Goto, rows, working, DirOrNone
  <2>7. CASE CreateCommit(c)
    <3>1. fresh[c] \in Dirs /\ version[fresh[c]] \in 1..MaxVersion /\ parent[fresh[c]] \in DirOrNone
      BY <2>7 DEF CreateCommit, FreshInv, Fresh, Inserting, RowInv, TypeOK
    <3>2. [parent |-> parent[fresh[c]], version |-> version[fresh[c]]] \in Record
      BY <3>1 DEF Record
    <3>3. status' \in [Dirs -> {"unborn", "inserting", "active", "deleting", "removed"}]
      BY <2>7, <3>1 DEF TypeOK, CreateCommit
    <3>4. told' \in [Dirs -> Record \cup {None}]
      BY <2>7, <3>1, <3>2 DEF TypeOK, CreateCommit
    <3> QED
      BY <2>7, <3>3, <3>4, FinishTyped DEF TypeOK, CreateCommit
  <2>8. CASE DeleteRow(c)
    <3>1. target[c] \in Dirs /\ Remove(target[c]) /\ Finish(c)
      BY <2>8 DEF DeleteRow, Live
    <3>2. told' \in [Dirs -> Record \cup {None}]
      BY <2>8, <3>1 DEF DeleteRow, TypeOK
    <3> QED
      BY <3>1, <3>2, RemoveTyped, FinishTyped DEF TypeOK
  <2>9. CASE MarkLock(c)
    BY <2>9 DEF TypeOK, MarkLock, Goto, Steps, rows, route
  <2>10. CASE MarkRows(c)
    BY <2>10 DEF TypeOK, MarkRows, Goto, Steps, rows, route, Branch, Live
  <2>11. CASE MarkCommit(c)
    <3>1. \A d \in marking[c] : version[d] < MaxVersion
      BY <2>11 DEF MarkCommit, RequestInv, Marks, RowInv
    <3>2. version' \in [Dirs -> 0..MaxVersion]
      BY <2>11, <3>1 DEF MarkCommit, TypeOK
    <3>3. told' \in [Dirs -> Record \cup {None}]
      BY <2>11 DEF MarkCommit, TypeOK
    <3> QED
      BY <2>11, <3>2, <3>3, FinishTyped DEF TypeOK, MarkCommit
  <2>12. CASE MoveScope(c)
    <3>1. Resolve(org[c], dest[c]) \in Dirs
      BY <2>12, ResolveTyped DEF MoveScope, TypeOK, Live
    <3> QED
      BY <2>12, <3>1 DEF TypeOK, MoveScope, Goto, Steps, rows, working, DirOrNone
  <2>13. CASE MoveLock(c) \/ MoveCheck(c)
    BY <2>13 DEF TypeOK, MoveLock, MoveCheck, Goto, Steps, rows, route, working
  <2>14. CASE MoveRow(c)
    <3>1. target[c] \in Dirs /\ dest[c] \in Dirs /\ version[target[c]] + 1 \in 1..MaxVersion
      BY <2>14 DEF MoveRow, Active, RowInv, TypeOK
    <3>2. [parent |-> dest[c], version |-> version[target[c]] + 1] \in Record
      BY <3>1 DEF Record, DirOrNone
    <3>3. told' \in [Dirs -> Record \cup {None}]
      BY <2>14, <3>2 DEF MoveRow, TypeOK
    <3>4. version' \in [Dirs -> 0..MaxVersion] /\ parent' \in [Dirs -> DirOrNone]
      BY <2>14, <3>1 DEF MoveRow, TypeOK, DirOrNone
    <3> QED
      BY <2>14, <3>3, <3>4, FinishTyped DEF TypeOK, MoveRow
  <2>15. CASE Abort(c)
    BY <2>15, DiscardTyped, FinishTyped DEF TypeOK, Abort
  <2> QED
    BY <1>2, <2>1, <2>2, <2>3, <2>4, <2>5, <2>6, <2>7, <2>8, <2>9, <2>10, <2>11, <2>12, <2>13,
       <2>14, <2>15, <2>16 DEF Proceed
<1>3. ASSUME NEW d \in Dirs, SweepDir(d)
      PROVE  TypeOK'
  BY <1>3, RemoveTyped DEF TypeOK, SweepDir, route, working
<1>4. CASE UNCHANGED vars
  BY <1>4 DEF TypeOK, vars, rows, route, working
<1> QED
  BY <1>1, <1>2, <1>3, <1>4 DEF Next

-----------------------------------------------------------------------------
(* Lineages.                                                               *)

(* Standing makes a directory's organization that of all above it.         *)
LEMMA WithinOwner ==
    ASSUME Standing, NEW x, NEW r, IsWithin(x, r)
    PROVE  x \in Live /\ r \in Live /\ owner[r] = owner[x]
<1> DEFINE S == {y \in Live : owner[y] = owner[x]}
<1>1. x \in S
  BY DEF IsWithin
<1>2. ClosedUp(S)
  BY DEF ClosedUp, Standing
<1>3. r \in S
  BY <1>1, <1>2 DEF IsWithin
<1> QED
  BY <1>1, <1>3

(* What a scope check that passed knows.                                   *)
LEMMA ScopeOwner ==
    ASSUME TypeOK, Standing, RootsBound, NEW o \in Orgs, NEW id, InScope(o, id)
    PROVE  /\ Resolve(o, id) \in Live
           /\ owner[Resolve(o, id)] = o
           /\ parent[Resolve(o, id)] = None => Resolve(o, id) = root[o]
<1>1. root[o] \in Top(Live, o)
  BY DEF InScope, RootsBound
<1>2. Resolve(o, id) \in Live /\ owner[Resolve(o, id)] = o
  BY <1>1, WithinOwner DEF InScope, Top
<1>3. parent[Resolve(o, id)] = None => Resolve(o, id) \in Top(Live, o)
  BY <1>2 DEF Top
<1>4. Top(Live, o) = {root[o]}
  BY DEF RootsBound, InScope
<1> QED
  BY <1>2, <1>3, <1>4

LEMMA WithinParent ==
    ASSUME Standing, NEW x, NEW d, IsWithin(x, d), x # d
    PROVE  parent[x] \in Live /\ IsWithin(parent[x], d)
<1>1. parent[x] # None
  <2>1. x \in Live /\ (parent[x] = None => ClosedUp({x}))
    BY DEF IsWithin, ClosedUp
  <2> QED
    BY <2>1 DEF IsWithin
<1>2. parent[x] \in Live
  BY <1>1 DEF Standing, IsWithin
<1>3. ASSUME NEW S \in SUBSET Live, ClosedUp(S), parent[x] \in S
      PROVE  d \in S
  <2>1. S \cup {x} \in SUBSET Live /\ ClosedUp(S \cup {x})
    BY <1>3 DEF ClosedUp, IsWithin
  <2> QED
    BY <2>1 DEF IsWithin
<1> QED
  BY <1>2, <1>3 DEF IsWithin

(* Rows that come or go, none of them a parent, change no other's lineage. *)
LEMMA WithinKept ==
    ASSUME Standing, NEW x \in Live', NEW d, IsWithin(x, d),
           \A y \in Live \cap Live' : parent'[y] = parent[y]
    PROVE  IsWithin(x, d)'
<1> SUFFICES ASSUME NEW S \in SUBSET Live', ClosedUp(S)', x \in S
             PROVE  d \in S
  BY DEF IsWithin
<1> DEFINE R == S \cap Live
<1>1. R \in SUBSET Live /\ x \in R
  BY DEF IsWithin
<1>2. ClosedUp(R)
  BY DEF ClosedUp, Standing
<1> QED
  BY <1>1, <1>2 DEF IsWithin

LEMMA OutsideKept ==
    ASSUME NEW x, NEW d, ~IsWithin(x, d), x \in Live' => x \in Live,
           \A y \in Live \cap Live' : parent'[y] = parent[y],
           \A y \in Live \ Live' : \A z \in Live : parent[z] # y
    PROVE  ~IsWithin(x, d)'
<1> SUFFICES ASSUME x \in Live'
             PROVE  \E S \in SUBSET Live' : ClosedUp(S)' /\ x \in S /\ d \notin S
  BY DEF IsWithin
<1>1. PICK S \in SUBSET Live : ClosedUp(S) /\ x \in S /\ d \notin S
  BY DEF IsWithin
<1> DEFINE R == S \cap Live'
<1>2. R \in SUBSET Live' /\ x \in R /\ d \notin R
  BY <1>1
<1>3. ASSUME NEW y \in R
      PROVE  parent'[y] \in R \cup {None}
  <2>1. parent'[y] = parent[y] /\ parent[y] \in S \cup {None}
    BY <1>1 DEF ClosedUp
  <2>2. parent[y] \in S => parent[y] \in Live'
    BY <1>1
  <2> QED
    BY <2>1, <2>2
<1> QED
  BY <1>2, <1>3 DEF ClosedUp

(* A directory that comes in beneath one that stands closes no cycle.      *)
LEMMA LeafAdded ==
    ASSUME TypeOK, Standing, Acyclic, NEW d \in Dirs, d \notin Live, Live' = Live \cup {d},
           \A x \in Live : parent'[x] = parent[x], parent'[d] \in Live \cup {None}
    PROVE  Acyclic'
<1> SUFFICES ASSUME NEW S \in SUBSET Live', S # {}
             PROVE  \E x \in S : parent'[x] \notin S
  BY DEF Acyclic
<1>0. None \notin Live'
  BY DEF Live
<1>1. CASE S \ {d} = {}
  BY <1>0, <1>1
<1>2. CASE S \ {d} # {}
  <2>1. S \ {d} \in SUBSET Live
    OBVIOUS
  <2>2. PICK x \in S \ {d} : parent[x] \notin S \ {d}
    BY <1>2, <2>1 DEF Acyclic
  <2>3. parent[x] # d
    BY <2>1 DEF Standing
  <2> QED
    BY <2>1, <2>2, <2>3
<1> QED
  BY <1>1, <1>2

LEMMA RowsKept ==
    ASSUME Acyclic, Live' \subseteq Live, \A x \in Live' : parent'[x] = parent[x]
    PROVE  Acyclic'
<1> SUFFICES ASSUME NEW S \in SUBSET Live', S # {}
             PROVE  \E x \in S : parent'[x] \notin S
  BY DEF Acyclic
<1>1. PICK x \in S : parent[x] \notin S
  BY DEF Acyclic
<1> QED
  BY <1>1

(* A cycle the move closed would meet the rows above its new parent in a   *)
(* cycle that was there before.                                            *)
LEMMA MoveAcyclic ==
    ASSUME TypeOK, Acyclic, NEW d \in Live, NEW p \in Live, ~IsWithin(p, d),
           Live' = Live, parent' = [parent EXCEPT ![d] = p]
    PROVE  Acyclic'
<1> SUFFICES ASSUME NEW T \in SUBSET Live, T # {}, \A x \in T : parent'[x] \in T
             PROVE  FALSE
  BY DEF Acyclic
<1>0. None \notin Live /\ Live \subseteq Dirs /\ parent \in [Dirs -> DirOrNone]
  BY DEF Live, TypeOK
<1>1. PICK x \in T : parent[x] \notin T
  BY DEF Acyclic
<1>2. d \in T /\ p \in T
  BY <1>0, <1>1
<1>3. PICK S \in SUBSET Live : ClosedUp(S) /\ p \in S /\ d \notin S
  BY DEF IsWithin
<1>4. PICK y \in T \cap S : parent[y] \notin T \cap S
  BY <1>2, <1>3 DEF Acyclic
<1>5. parent[y] \in S \cup {None} /\ parent'[y] = parent[y]
  BY <1>0, <1>3, <1>4 DEF ClosedUp
<1> QED
  BY <1>0, <1>4, <1>5

-----------------------------------------------------------------------------
(* What the steps do to the rows.  Every step but a move and a mark's      *)
(* commit is gentle: it commits rows or removes leaves, and moves no other.*)

Lasting ==
    /\ Issued \subseteq Issued'
    /\ \A d \in Issued : owner'[d] = owner[d] /\ (parent'[d] = None <=> parent[d] = None)
    /\ \A d \in Issued \ Active : d \notin Active'

Gentle ==
    /\ \A x \in Live \cap Live' : parent'[x] = parent[x] /\ status'[x] = status[x]
    /\ Live' \ Live \subseteq Inserting
    /\ \A x \in Live \ Live' :
          ~Locked(x) /\ \A y \in Live \cup Inserting : parent[y] # x

LEMMA QuietRows ==
    ASSUME TreeInv, UNCHANGED <<rows, root, told>>
    PROVE  TreeInv' /\ Lasting /\ Gentle
<1>1. /\ Live' = Live /\ Active' = Active /\ Inserting' = Inserting /\ Issued' = Issued
      /\ Hidden' = Hidden
  BY DEF rows, Live, Active, Inserting, Issued, Hidden
<1>2. RowInv' /\ Standing' /\ Acyclic' /\ ToldInv' /\ HiddenInv'
  BY <1>1 DEF TreeInv, RowInv, Standing, Acyclic, ToldInv, HiddenInv, rows
<1>3. RootsBound'
  BY <1>1 DEF TreeInv, RootsBound, Top, rows
<1> QED
  BY <1>1, <1>2, <1>3 DEF TreeInv, Lasting, Gentle, rows

LEMMA InsertRows ==
    ASSUME TypeOK, TreeInv, NEW d \in Unborn, NEW p, NEW o \in Orgs, NewRow(d, p, o),
           p = None \/ (p \in Active /\ owner[p] = o), UNCHANGED <<root, told>>
    PROVE  TreeInv' /\ Lasting /\ Gentle
<1>0. d \in Dirs /\ d \notin Live /\ d \notin Inserting /\ d \notin Issued /\ d \notin Active
  BY DEF Unborn, Live, Inserting, Issued, Active
<1>1. /\ Live' = Live /\ Active' = Active /\ Inserting' = Inserting \cup {d}
      /\ Issued' = Issued
  BY <1>0 DEF NewRow, TypeOK, Live, Active, Inserting, Issued
<1>2. /\ \A x \in Dirs \ {d} : /\ parent'[x] = parent[x] /\ owner'[x] = owner[x]
                               /\ version'[x] = version[x] /\ status'[x] = status[x]
      /\ parent'[d] = p /\ owner'[d] = o /\ version'[d] = 1
  BY <1>0 DEF NewRow, TypeOK
<1>3. Live \subseteq Dirs /\ Active \subseteq Live /\ Issued \subseteq Dirs /\ Inserting \subseteq Dirs
  BY DEF Live, Active, Issued, Inserting
<1>4. RowInv' /\ ToldInv'
  BY <1>0, <1>1, <1>2, <1>3 DEF TreeInv, RowInv, ToldInv
<1>5. Standing'
  BY <1>0, <1>1, <1>2, <1>3 DEF TreeInv, Standing
<1>6. Acyclic'
  BY <1>0, <1>1, <1>2, <1>3, RowsKept DEF TreeInv
<1>7. RootsBound'
  <2>1. \A q : Top(Live, q)' = Top(Live, q)
    BY <1>0, <1>1, <1>2, <1>3 DEF Top
  <2> QED
    BY <2>1 DEF TreeInv, RootsBound
<1>8. HiddenInv'
  BY <1>1 DEF TreeInv, HiddenInv, Hidden
<1>9. Lasting /\ Gentle
  BY <1>0, <1>1, <1>2, <1>3 DEF Lasting, Gentle
<1> QED
  BY <1>4, <1>5, <1>6, <1>7, <1>8, <1>9 DEF TreeInv

LEMMA DiscardRows ==
    ASSUME TypeOK, TreeInv, NEW D \in SUBSET Inserting, Discard(D), UNCHANGED <<root, told>>
    PROVE  TreeInv' /\ Lasting /\ Gentle
<1>1. /\ Live' = Live /\ Active' = Active /\ Inserting' = Inserting \ D
      /\ Issued' = Issued
  BY DEF Discard, TypeOK, Live, Active, Inserting, Issued
<1>2. \A x \in Dirs \ D : /\ parent'[x] = parent[x] /\ owner'[x] = owner[x]
                          /\ version'[x] = version[x] /\ status'[x] = status[x]
  BY DEF Discard, TypeOK
<1>3. /\ Live \subseteq Dirs /\ Active \subseteq Live /\ Issued \subseteq Dirs /\ Inserting \subseteq Dirs
      /\ Live \cap D = {} /\ Issued \cap D = {}
  BY DEF Live, Active, Issued, Inserting
<1>4. RowInv' /\ ToldInv'
  BY <1>1, <1>2, <1>3 DEF TreeInv, RowInv, ToldInv
<1>5. Standing'
  BY <1>1, <1>2, <1>3 DEF TreeInv, Standing
<1>6. Acyclic'
  BY <1>1, <1>2, <1>3, RowsKept DEF TreeInv
<1>7. RootsBound'
  <2>1. \A q : Top(Live, q)' = Top(Live, q)
    BY <1>1, <1>2, <1>3 DEF Top
  <2> QED
    BY <2>1 DEF TreeInv, RootsBound
<1>8. HiddenInv'
  BY <1>1 DEF TreeInv, HiddenInv, Hidden
<1>9. Lasting /\ Gentle
  BY <1>1, <1>2, <1>3 DEF Lasting, Gentle
<1> QED
  BY <1>4, <1>5, <1>6, <1>7, <1>8, <1>9 DEF TreeInv

(* A root, with the owner row that binds it, or a directory beneath one.   *)
LEMMA CommitRows ==
    ASSUME TypeOK, TreeInv, NEW d \in Inserting,
           status' = [status EXCEPT ![d] = "active"],
           told' = [told EXCEPT ![d] = [parent |-> parent[d], version |-> version[d]]],
           UNCHANGED <<parent, version, owner>>,
           \/ parent[d] # None /\ root' = root
           \/ /\ parent[d] = None /\ root[owner[d]] = None
              /\ root' = [root EXCEPT ![owner[d]] = d]
    PROVE  TreeInv' /\ Lasting /\ Gentle
<1>0. /\ d \in Dirs /\ d \notin Live /\ d \notin Issued /\ d \notin Active
      /\ owner[d] \in Orgs /\ version[d] = 1
  BY DEF Unborn, Live, Inserting, Issued, Active, TreeInv, RowInv
<1>1. /\ Live' = Live \cup {d} /\ Active' = Active \cup {d} /\ Inserting' = Inserting \ {d}
      /\ Issued' = Issued \cup {d}
  BY <1>0 DEF TypeOK, Live, Active, Inserting, Issued
<1>2. /\ \A x \in Dirs \ {d} : told'[x] = told[x] /\ status'[x] = status[x]
      /\ told'[d] = [parent |-> parent[d], version |-> version[d]]
  BY <1>0 DEF TypeOK
<1>3. Live \subseteq Dirs /\ Active \subseteq Live /\ Issued \subseteq Dirs /\ Inserting \subseteq Dirs
  BY DEF Live, Active, Issued, Inserting
<1>4. RowInv'
  BY <1>0, <1>1, <1>3 DEF TreeInv, RowInv
<1>5. ToldInv'
  BY <1>0, <1>1, <1>2, <1>3 DEF TreeInv, ToldInv
<1>6. Standing'
  BY <1>0, <1>1, <1>3 DEF TreeInv, Standing
<1>7. Acyclic'
  <2>1. parent[d] \in Live \cup {None}
    BY DEF TreeInv, Standing
  <2> QED
    BY <1>0, <1>1, <2>1, LeafAdded DEF TreeInv
<1>8. RootsBound'
  <2> SUFFICES ASSUME NEW q \in Orgs
               PROVE  Top(Live, q)' = IF root'[q] = None THEN {} ELSE {root'[q]}
    BY DEF RootsBound
  <2>1. Top(Live, q)' = IF parent[d] = None /\ owner[d] = q THEN Top(Live, q) \cup {d}
                                                          ELSE Top(Live, q)
    BY <1>0, <1>1 DEF Top
  <2>2. Top(Live, q) = IF root[q] = None THEN {} ELSE {root[q]}
    BY DEF TreeInv, RootsBound
  <2>3. CASE parent[d] = None /\ owner[d] = q
    <3>1. root[q] = None /\ root'[q] = d
      BY <1>0, <2>3 DEF TypeOK
    <3> QED
      BY <1>0, <2>1, <2>2, <2>3, <3>1
  <2>4. CASE ~(parent[d] = None /\ owner[d] = q)
    <3>1. root'[q] = root[q]
      BY <1>0, <2>4 DEF TypeOK
    <3> QED
      BY <2>1, <2>2, <2>4, <3>1
  <2> QED
    BY <2>3, <2>4
<1>9. HiddenInv'
  <2>1. Hidden' = Hidden
    BY <1>0, <1>1, <1>2, <1>3 DEF Hidden
  <2>2. \A x \in Hidden : told'[x] = told[x] /\ told[x].parent # d
    BY <1>0, <1>2, <1>3 DEF Hidden, TreeInv, HiddenInv
  <2> QED
    BY <1>1, <2>1, <2>2 DEF TreeInv, HiddenInv
<1>10. Lasting /\ Gentle
  BY <1>0, <1>1, <1>2, <1>3 DEF Lasting, Gentle
<1> QED
  BY <1>4, <1>5, <1>6, <1>7, <1>8, <1>9, <1>10 DEF TreeInv

(* A plain delete, which tells, or the sweep, of a marked directory, which *)
(* does not.                                                               *)
LEMMA RemoveRows ==
    ASSUME TypeOK, TreeInv, NEW d \in Live, Empty(d), ~Locked(d), Remove(d),
           told' = [told EXCEPT ![d] = None] \/ (d \notin Active /\ told' = told)
    PROVE  TreeInv' /\ Lasting /\ Gentle
<1>0. d \in Dirs /\ d \in Issued /\ d \notin Inserting /\ d # None
  BY DEF Live, Issued, Inserting
<1>1. /\ Live' = Live \ {d} /\ Active' = Active \ {d} /\ Inserting' = Inserting
      /\ Issued' = Issued
  BY <1>0 DEF Remove, TypeOK, Live, Active, Inserting, Issued
<1>2. /\ \A x \in Dirs \ {d} : told'[x] = told[x] /\ status'[x] = status[x]
      /\ told'[d] = None \/ (told'[d] = told[d] /\ d \notin Active)
      /\ UNCHANGED <<parent, version, owner>>
  BY <1>0 DEF TypeOK, Remove
<1>3. Live \subseteq Dirs /\ Active \subseteq Live /\ Issued \subseteq Dirs /\ Inserting \subseteq Dirs
  BY DEF Live, Active, Issued, Inserting
<1>4. RowInv' /\ ToldInv'
  BY <1>0, <1>1, <1>2, <1>3 DEF TreeInv, RowInv, ToldInv
<1>5. Standing'
  BY <1>0, <1>1, <1>2, <1>3 DEF TreeInv, Standing, Empty
<1>6. Acyclic'
  BY <1>1, <1>2, RowsKept DEF TreeInv
<1>7. RootsBound'
  <2> SUFFICES ASSUME NEW q \in Orgs
               PROVE  Top(Live, q)' = IF root'[q] = None THEN {} ELSE {root'[q]}
    BY DEF RootsBound
  <2>1. Top(Live, q)' = Top(Live, q) \ {d}
    BY <1>1, <1>2 DEF Top
  <2>2. Top(Live, q) = IF root[q] = None THEN {} ELSE {root[q]}
    BY DEF TreeInv, RootsBound
  <2>3. root'[q] = IF root[q] = d THEN None ELSE root[q]
    BY DEF Remove
  <2> QED
    BY <1>0, <2>1, <2>2, <2>3
<1>8. HiddenInv'
  <2>1. Hidden' \subseteq Hidden
    BY <1>0, <1>1, <1>2, <1>3 DEF Hidden
  <2>2. ASSUME NEW x \in Hidden'
        PROVE  told'[x] = told[x]
    <3>1. x \in Dirs /\ told'[x] # None
      BY <1>1, <1>3 DEF Hidden
    <3> QED
      BY <1>2, <3>1
  <2> QED
    BY <1>1, <2>1, <2>2 DEF TreeInv, HiddenInv
<1>9. Lasting /\ Gentle
  BY <1>0, <1>1, <1>2, <1>3 DEF Lasting, Gentle, Empty
<1> QED
  BY <1>4, <1>5, <1>6, <1>7, <1>8, <1>9 DEF TreeInv

(* The one step that leaves told directories inactive: those a mark takes  *)
(* hang together beneath its anchor, whose event the consumer loses, or    *)
(* beneath what another mark took before.                                  *)
LEMMA MarkRowsCommit ==
    ASSUME DocumentInv, NEW c \in Clients, MarkCommit(c)
    PROVE  TreeInv' /\ Lasting
<1> DEFINE M == marking[c]
           t == target[c]
<1>0. /\ TypeOK /\ TreeInv /\ Marks(c) /\ pc[c] = "marked"
      /\ t \in Issued
  BY DEF DocumentInv, RequestInv, MarkCommit, Route, Scoped
<1>1. /\ M \subseteq Active
      /\ first[c] => t \in M
      /\ ~first[c] => t \notin Active
      /\ \A x \in M : x # t => parent[x] \in Live /\ (parent[x] \in Active => parent[x] \in M)
  BY <1>0 DEF Marks
<1>2. /\ Live \subseteq Dirs /\ Active \subseteq Live /\ Issued \subseteq Dirs /\ Inserting \subseteq Dirs
      /\ Live \subseteq Issued
  BY DEF Live, Active, Issued, Inserting
<1>3. /\ Live' = Live /\ Active' = Active \ M /\ Inserting' = Inserting /\ Issued' = Issued
  BY <1>1, <1>2 DEF MarkCommit, Live, Active, Inserting, Issued
<1>4. /\ \A x \in Dirs \ M : version'[x] = version[x]
      /\ \A x \in M : version'[x] = version[x] + 1
      /\ UNCHANGED <<parent, owner, root>>
  BY <1>1, <1>2 DEF MarkCommit
<1>5. \A x \in Dirs \ {t} : told'[x] = told[x]
  BY <1>0 DEF MarkCommit, TypeOK
<1>6. IF first[c] THEN told'[t] = None ELSE told'[t] = told[t]
  BY <1>0, <1>1, <1>2 DEF MarkCommit, TypeOK, Tells
<1>7. RowInv'
  <2>1. \A x \in Live \cup Inserting : version[x] \in Nat
    BY <1>0, <1>2 DEF TypeOK
  <2>2. Inserting \cap M = {}
    BY <1>1 DEF Inserting, Active
  <2> QED
    BY <1>0, <1>1, <1>2, <1>3, <1>4, <2>1, <2>2 DEF TreeInv, RowInv
<1>8. Standing' /\ Acyclic' /\ RootsBound'
  <2>1. Standing' /\ Acyclic'
    BY <1>0, <1>3, <1>4 DEF TreeInv, Standing, Acyclic
  <2> QED
    BY <1>0, <1>3, <1>4, <2>1 DEF TreeInv, RootsBound, Top
<1>9. ToldInv'
  <2>1. \A x \in Active' : x # t \/ ~first[c]
    BY <1>1, <1>3
  <2>2. \A x \in Active' : told'[x] = told[x] /\ version'[x] = version[x]
    BY <1>1, <1>2, <1>3, <1>4, <1>5, <1>6, <2>1
  <2>3. \A x \in Dirs : told'[x] # None => told[x] # None
    BY <1>5, <1>6
  <2> QED
    BY <1>0, <1>3, <1>4, <2>2, <2>3 DEF TreeInv, ToldInv
<1>10. /\ Hidden' \subseteq Hidden \cup (M \ {t})
       /\ \A x \in Hidden' : told'[x] = told[x]
  <2>1. \A x \in Hidden' : x \in Issued \ (Active \ M) /\ told'[x] # None
    BY <1>3 DEF Hidden
  <2>2. \A x \in Hidden' : told'[x] = told[x]
    BY <1>0, <1>2, <1>5, <1>6, <2>1
  <2>3. \A x \in Hidden' \cap M : x # t
    BY <1>1, <1>6, <2>1
  <2> QED
    BY <2>1, <2>2, <2>3 DEF Hidden
<1>11. ASSUME NEW x \in M
       PROVE  told[x].parent = parent[x]
  <2>1. told[x] = [parent |-> parent[x], version |-> version[x]]
    BY <1>0, <1>1 DEF TreeInv, ToldInv
  <2> QED
    BY <2>1
<1>12. HiddenInv'
  <2>1. \A x \in Hidden' : told'[x].parent \in Issued' \ Active'
    BY <1>0, <1>1, <1>2, <1>3, <1>10, <1>11 DEF TreeInv, HiddenInv
  <2>2. ASSUME NEW T \in SUBSET Hidden', T # {}
        PROVE  \E x \in T : told'[x].parent \notin T
    <3>1. CASE T \cap Hidden # {}
      <4>1. PICK x \in T \cap Hidden : told[x].parent \notin T \cap Hidden
        BY <1>0, <3>1 DEF TreeInv, HiddenInv
      <4>2. told[x].parent \notin Active
        BY <1>0 DEF TreeInv, HiddenInv
      <4>3. told[x].parent \notin T
        BY <1>1, <1>10, <4>1, <4>2
      <4> QED
        BY <1>10, <4>3
    <3>2. CASE T \cap Hidden = {}
      <4>1. T \subseteq M \ {t} /\ T \in SUBSET Live
        BY <1>1, <1>2, <1>10, <3>2
      <4>2. PICK x \in T : parent[x] \notin T
        BY <1>0, <2>2, <4>1 DEF TreeInv, Acyclic
      <4> QED
        BY <1>10, <1>11, <4>1, <4>2
    <3> QED
      BY <3>1, <3>2
  <2> QED
    BY <2>1, <2>2 DEF HiddenInv
<1>13. Lasting
  BY <1>3, <1>4 DEF Lasting
<1> QED
  BY <1>7, <1>8, <1>9, <1>12, <1>13 DEF TreeInv

(* A move under the tree lock, to a parent its cycle check passed.         *)
LEMMA MoveRows ==
    ASSUME DocumentInv, NEW c \in Clients, MoveRow(c)
    PROVE  TreeInv' /\ Lasting
<1> DEFINE d == target[c]
           p == dest[c]
<1>0. /\ TypeOK /\ TreeInv /\ pc[c] = "moving"
      /\ d \in Active /\ p \in Active
      /\ owner[d] = org[c] /\ owner[p] = org[c] /\ parent[d] # None
      /\ seen[c].version + 1 < MaxVersion /\ version[d] = seen[c].version
      /\ ~IsWithin(p, d)
  BY DEF DocumentInv, RequestInv, MoveRow, Route, Scoped, Moving, Checked
<1>1. /\ Live \subseteq Dirs /\ Active \subseteq Live /\ Issued \subseteq Dirs /\ Inserting \subseteq Dirs
      /\ Live \subseteq Issued /\ Inserting \cap Live = {} /\ None \notin Live
  BY DEF Live, Active, Issued, Inserting
<1>2. /\ Live' = Live /\ Active' = Active /\ Inserting' = Inserting /\ Issued' = Issued
      /\ UNCHANGED <<status, owner, root>>
  BY DEF MoveRow, Live, Active, Inserting, Issued
<1>3. /\ parent' = [parent EXCEPT ![d] = p]
      /\ \A x \in Dirs \ {d} : /\ parent'[x] = parent[x] /\ version'[x] = version[x]
                                /\ told'[x] = told[x]
      /\ parent'[d] = p /\ version'[d] = version[d] + 1
      /\ told'[d] = [parent |-> p, version |-> version[d] + 1]
      /\ version[d] \in Nat
  BY <1>0, <1>1 DEF MoveRow, TypeOK
<1>4. RowInv'
  BY <1>0, <1>1, <1>2, <1>3 DEF TreeInv, RowInv
<1>5. Standing'
  BY <1>0, <1>1, <1>2, <1>3 DEF TreeInv, Standing
<1>6. Acyclic'
  BY <1>0, <1>1, <1>2, <1>3, MoveAcyclic DEF TreeInv
<1>7. RootsBound'
  <2>1. \A q : Top(Live, q)' = Top(Live, q)
    BY <1>0, <1>1, <1>2, <1>3 DEF Top
  <2> QED
    BY <1>0, <1>2, <2>1 DEF TreeInv, RootsBound
<1>8. ToldInv'
  BY <1>0, <1>1, <1>2, <1>3 DEF TreeInv, ToldInv
<1>9. HiddenInv'
  <2>1. Hidden' = Hidden /\ \A x \in Hidden : told'[x] = told[x]
    BY <1>0, <1>1, <1>2, <1>3 DEF Hidden
  <2> QED
    BY <1>0, <1>2, <2>1 DEF TreeInv, HiddenInv
<1>10. Lasting
  BY <1>0, <1>1, <1>2, <1>3 DEF Lasting
<1> QED
  BY <1>4, <1>5, <1>6, <1>7, <1>8, <1>9, <1>10 DEF TreeInv

-----------------------------------------------------------------------------
(* What the steps leave of the requests that do not take them.             *)

Kept(e) ==
    /\ pc'[e] = pc[e] /\ org'[e] = org[e] /\ target'[e] = target[e]
    /\ seen'[e] = seen[e] /\ dest'[e] = dest[e] /\ fresh'[e] = fresh[e]
    /\ first'[e] = first[e] /\ marking'[e] = marking[e]
    /\ lock' = e <=> lock = e

LEMMA OthersKept ==
    ASSUME TypeOK, NEW c \in Clients, Request(c) \/ Proceed(c), NEW e \in Clients, e # c
    PROVE  Kept(e)
<1>1. ASSUME NEW step, NEW o, NEW id, NEW read, NEW to, Begin(c, step, o, id, read, to)
      PROVE  Kept(e)
  BY <1>1 DEF TypeOK, Begin, Goto, working, Kept
<1>2. CASE Request(c)
  BY <1>1, <1>2 DEF Request, CreateBegin, DeleteBegin, MarkBegin, MoveBegin
<1>3. CASE Finish(c)
  BY <1>3 DEF TypeOK, Finish, Goto, Kept
<1>4. CASE Proceed(c) /\ ~Finish(c)
  <2>1. CASE RootMissing(c) \/ EnsureAbsent(c) \/ EnsureTaken(c)
    BY <2>1 DEF TypeOK, RootMissing, EnsureAbsent, EnsureTaken, Goto, working, route, Kept
  <2>2. CASE RootRead(c)
    BY <2>2 DEF TypeOK, RootRead, Goto, working, Kept
  <2>3. ASSUME NEW d \in Dirs, EnsureFind(c, d) \/ EnsureInsert(c, d) \/ CreateInsert(c, d)
        PROVE  Kept(e)
    BY <2>3 DEF TypeOK, EnsureFind, EnsureInsert, CreateInsert, Goto, route, Kept
  <2>4. CASE Bind(c)
    BY <2>4 DEF TypeOK, Bind, Goto, Kept
  <2>5. CASE BindTaken(c)
    BY <2>5 DEF TypeOK, BindTaken, Goto, route, Kept
  <2>6. CASE CreateScope(c) \/ DeleteScope(c) \/ MarkScope(c)
    BY <2>6 DEF TypeOK, CreateScope, DeleteScope, MarkScope, ScopeThen, Goto, working, Kept
  <2>7. CASE MarkLock(c)
    BY <2>7 DEF TypeOK, MarkLock, Goto, route, Kept
  <2>8. CASE MarkRows(c)
    BY <2>8 DEF TypeOK, MarkRows, Goto, route, Kept
  <2>9. CASE MoveScope(c)
    BY <2>9 DEF TypeOK, MoveScope, Goto, working, Kept
  <2>10. CASE MoveLock(c)
    BY <2>10 DEF TypeOK, MoveLock, Goto, route, working, Kept
  <2>11. CASE MoveCheck(c)
    BY <2>11 DEF TypeOK, MoveCheck, Goto, route, working, Kept
  <2> QED
    BY <1>4, <2>1, <2>2, <2>3, <2>4, <2>5, <2>6, <2>7, <2>8, <2>9, <2>10, <2>11
       DEF Proceed, CreateCommit, DeleteRow, MarkCommit, MoveRow, Abort
<1> QED
  BY <1>2, <1>3, <1>4

LEMMA RouteKept ==
    ASSUME NEW e, Kept(e), Route(e), Lasting
    PROVE  Route(e)'
<1>1. \A d \in Issued : /\ d \in Issued' /\ owner'[d] = owner[d]
                        /\ parent'[d] = None <=> parent[d] = None
  BY DEF Lasting
<1> QED
  BY <1>1 DEF Kept, Route, Scoped, Guarded, Moving

(* What a mark has updated stays and stays beneath its anchor: it is       *)
(* locked, and whoever would move it waits for the tree.                   *)
LEMMA MarksKept ==
    ASSUME TypeOK, NEW e \in Clients, Kept(e), Route(e), Marks(e), Standing, Lasting, Gentle
    PROVE  Marks(e)'
<1> PICK t, M : t = target[e] /\ M = marking[e]
  OBVIOUS
<1>0. /\ \A x \in Live \cap Live' : parent'[x] = parent[x] /\ (x \in Active' <=> x \in Active)
      /\ Issued \cap Live' \subseteq Live
      /\ Live \subseteq Issued /\ Active \subseteq Live /\ Active' \subseteq Live'
  BY DEF Gentle, Live, Active, Issued, Inserting
<1>1. pc[e] \in {"marking", "marked"} => t \in Issued
  BY DEF Route, Scoped
<1>2. CASE pc[e] # "marked"
  BY <1>0, <1>1, <1>2 DEF Marks, Kept, Lasting
<1>3. CASE pc[e] = "marked"
  <2>1. \A x \in M : x \in Active /\ x \in Live' /\ x \in Active'
    BY <1>0, <1>3 DEF Marks, Gentle, Locked
  <2>2. \A x \in M : IsWithin(x, t)'
    BY <1>0, <1>3, <2>1, WithinKept DEF Marks
  <2>3. ASSUME NEW x \in M, x # t
        PROVE  parent'[x] \in Live' /\ (parent'[x] \in Active' => parent'[x] \in M)
    <3>1. parent[x] \in Live /\ (parent[x] \in Active => parent[x] \in M)
      BY <1>3, <2>3 DEF Marks
    <3>2. parent[x] \in Live'
      BY <1>0, <2>1, <3>1 DEF Gentle
    <3> QED
      BY <1>0, <2>1, <3>1, <3>2
  <2>4. ~first[e] => t \notin Active'
    BY <1>1, <1>3 DEF Marks, Lasting
  <2> QED
    BY <1>3, <2>1, <2>2, <2>3, <2>4 DEF Marks, Kept, IsWithin, ClosedUp
<1> QED
  BY <1>2, <1>3

LEMMA CheckedKept ==
    ASSUME NEW e, Kept(e), Route(e), Checked(e), Gentle
    PROVE  Checked(e)'
<1> PICK x, d : x = dest[e] /\ d = target[e]
  OBVIOUS
<1>1. CASE pc[e] = "moving"
  <2>1. x \in Issued /\ ~IsWithin(x, d)
    BY <1>1 DEF Route, Checked, Moving
  <2>2. x \in Live' => x \in Live
    BY <2>1 DEF Gentle, Live, Issued, Inserting
  <2>3. ~IsWithin(x, d)'
    BY <2>1, <2>2, OutsideKept DEF Gentle
  <2> QED
    BY <2>3 DEF Checked, Kept, IsWithin, ClosedUp
<1> QED
  BY <1>1 DEF Checked, Kept

(* A step touches no uncommitted row but its request's own.                *)
Sparing(c) ==
    /\ \A d \in Inserting \ {fresh[c]} :
          d \in Inserting' /\ owner'[d] = owner[d] /\ parent'[d] = parent[d]
    /\ Inserting' \subseteq (Inserting \ {fresh[c]}) \cup {fresh'[c]}
    /\ fresh'[c] \in Inserting => fresh'[c] = fresh[c]

Quiet == UNCHANGED <<rows, root, told>>

LEMMA QuietSparing ==
    ASSUME Quiet, NEW c, fresh'[c] = fresh[c] \/ (fresh[c] \notin Inserting /\ fresh'[c] \notin Inserting)
    PROVE  Sparing(c)
BY DEF Quiet, Sparing, rows, Inserting

LEMMA InsertSparing ==
    ASSUME TypeOK, NEW c, NEW d \in Unborn, NEW p, NEW o, NewRow(d, p, o), fresh'[c] = d,
           fresh[c] \notin Inserting
    PROVE  Sparing(c)
BY DEF TypeOK, NewRow, Sparing, Inserting, Unborn

LEMMA DiscardSparing ==
    ASSUME NEW c, Discard({fresh[c]} \cap Inserting), fresh'[c] = None
    PROVE  Sparing(c)
BY DEF Discard, Sparing, Inserting

LEMMA RequestQuiet ==
    ASSUME NEW c, Request(c)
    PROVE  Quiet /\ fresh' = fresh
BY DEF Request, CreateBegin, DeleteBegin, MarkBegin, MoveBegin, Begin, Quiet, working

(* A bind finds no live top: the owner row it would have is absent.        *)
BindCommits(c) ==
    LET d == fresh[c] IN
    /\ d \in Inserting /\ owner[d] = org[c] /\ parent[d] = None /\ root[owner[d]] = None
    /\ status' = [status EXCEPT ![d] = "active"]
    /\ told' = [told EXCEPT ![d] = [parent |-> parent[d], version |-> version[d]]]
    /\ UNCHANGED <<parent, version, owner>>
    /\ root' = [root EXCEPT ![owner[d]] = d]

LEMMA BindCommitted ==
    ASSUME DocumentInv, NEW c \in Clients, Bind(c)
    PROVE  BindCommits(c)
<1> DEFINE d == fresh[c]
<1>0. TreeInv /\ Route(c) /\ Fresh(c)
  BY DEF DocumentInv, RequestInv, FreshInv
<1>1. /\ d \in Live \cup Inserting /\ root[org[c]] = None /\ org[c] \in Orgs
      /\ owner[d] = org[c] /\ parent[d] = None
  BY <1>0 DEF Bind, Route, Fresh
<1>2. d \notin Live
  <2>1. Top(Live, org[c]) = {}
    BY <1>0, <1>1 DEF TreeInv, RootsBound
  <2> QED
    BY <1>1, <2>1 DEF Top
<1>3. version[d] = 1
  BY <1>0, <1>1, <1>2 DEF TreeInv, RowInv
<1> QED
  BY <1>1, <1>2, <1>3 DEF Bind, BindCommits

LEMMA RowsStep ==
    ASSUME DocumentInv, NEW c \in Clients, Request(c) \/ Proceed(c)
    PROVE  /\ TreeInv' /\ Lasting
           /\ Gentle \/ lock = c
           /\ Sparing(c)
<1>0. /\ TypeOK /\ TreeInv /\ Route(c) /\ Locks(c) /\ Fresh(c)
      /\ None \notin Inserting
  BY DEF DocumentInv, RequestInv, FreshInv, Inserting
<1>1. ASSUME Quiet, fresh'[c] = fresh[c] \/ (fresh[c] \notin Inserting /\ fresh'[c] \notin Inserting)
      PROVE  TreeInv' /\ Lasting /\ Gentle /\ Sparing(c)
  BY <1>0, <1>1, QuietRows, QuietSparing DEF Quiet
<1>2. CASE Request(c)
  BY <1>1, <1>2, RequestQuiet
<1>3. CASE \/ RootRead(c) \/ RootMissing(c) \/ EnsureAbsent(c) \/ EnsureTaken(c)
           \/ CreateScope(c) \/ DeleteScope(c) \/ MarkScope(c) \/ MarkLock(c) \/ MarkRows(c)
           \/ MoveScope(c) \/ MoveLock(c) \/ MoveCheck(c)
  <2>1. Quiet /\ fresh' = fresh
    BY <1>3 DEF RootRead, RootMissing, EnsureAbsent, EnsureTaken, CreateScope, DeleteScope,
                MarkScope, ScopeThen, MarkLock, MarkRows, MoveScope, MoveLock, MoveCheck,
                Quiet, working
  <2> QED
    BY <1>1, <2>1
<1>4. ASSUME NEW d \in Dirs, EnsureFind(c, d)
      PROVE  TreeInv' /\ Lasting /\ Gentle /\ Sparing(c)
  <2>1. fresh[c] = None /\ fresh'[c] = d /\ d \notin Inserting
    BY <1>0, <1>4 DEF EnsureFind, Fresh, TypeOK, Top, Active, Inserting
  <2> QED
    BY <1>0, <1>1, <1>4, <2>1 DEF EnsureFind, Quiet
<1>5. ASSUME NEW d \in Dirs, EnsureInsert(c, d) \/ CreateInsert(c, d)
      PROVE  TreeInv' /\ Lasting /\ Gentle /\ Sparing(c)
  <2>1. fresh[c] = None /\ fresh'[c] = d /\ d \in Unborn /\ UNCHANGED <<root, told>>
    BY <1>0, <1>5 DEF EnsureInsert, CreateInsert, Fresh, TypeOK
  <2>2. PICK p \in DirOrNone, o \in Orgs : NewRow(d, p, o) /\ (p = None \/ (p \in Active /\ owner[p] = o))
    <3>1. org[c] \in Orgs
      BY <1>0, <1>5 DEF EnsureInsert, CreateInsert, Route
    <3>2. CASE EnsureInsert(c, d)
      BY <3>1, <3>2 DEF EnsureInsert, DirOrNone
    <3>3. CASE CreateInsert(c, d)
      <4>1. NewRow(d, target[c], org[c]) /\ target[c] \in Active /\ owner[target[c]] = org[c]
        BY <1>0, <3>3 DEF CreateInsert, Route, Scoped
      <4> QED
        BY <3>1, <4>1 DEF DirOrNone, Active
    <3> QED
      BY <1>5, <3>2, <3>3
  <2> QED
    BY <1>0, <2>1, <2>2, InsertRows, InsertSparing
<1>6. CASE Bind(c)
  <2> DEFINE d == fresh[c]
  <2>1. BindCommits(c)
    BY <1>6, BindCommitted
  <2>2. d \in Inserting
    BY <2>1 DEF BindCommits
  <2>3. TreeInv' /\ Lasting /\ Gentle
    BY <1>0, <2>1, CommitRows DEF BindCommits
  <2>4. Inserting' = Inserting \ {d} /\ fresh'[c] = None
    BY <1>0, <1>6, <2>1, <2>2 DEF BindCommits, Bind, TypeOK, Inserting
  <2> QED
    BY <1>0, <2>1, <2>3, <2>4 DEF Sparing, BindCommits
<1>7. CASE CreateCommit(c)
  <2> DEFINE d == fresh[c]
  <2>1. /\ d \in Inserting /\ d \in Dirs
        /\ status' = [status EXCEPT ![d] = "active"]
        /\ told' = [told EXCEPT ![d] = [parent |-> parent[d], version |-> version[d]]]
        /\ UNCHANGED <<parent, version, owner, root>>
        /\ fresh'[c] = None
    BY <1>0, <1>7 DEF CreateCommit, Fresh, Finish, TypeOK, Inserting
  <2>2. parent[d] # None
    BY <1>0, <1>7 DEF Fresh, CreateCommit
  <2>3. TreeInv' /\ Lasting /\ Gentle
    BY <1>0, <2>1, <2>2, CommitRows
  <2>4. Inserting' = Inserting \ {d}
    BY <1>0, <2>1 DEF TypeOK, Inserting
  <2> QED
    BY <1>0, <2>1, <2>3, <2>4 DEF Sparing
<1>8. CASE BindTaken(c) \/ Abort(c)
  <2>1. /\ Discard({fresh[c]} \cap Inserting) /\ fresh'[c] = None
        /\ UNCHANGED <<root, told>>
    BY <1>0, <1>8 DEF BindTaken, Abort, Finish, TypeOK
  <2> QED
    BY <1>0, <2>1, DiscardRows, DiscardSparing
<1>9. CASE DeleteRow(c)
  <2> DEFINE d == target[c]
  <2>1. /\ d \in Live /\ Empty(d) /\ ~Locked(d) /\ Remove(d)
        /\ told' = [told EXCEPT ![d] = None]
        /\ fresh[c] = None /\ fresh'[c] = None
    BY <1>0, <1>9 DEF DeleteRow, Fresh, Finish, TypeOK
  <2>2. Inserting' = Inserting /\ UNCHANGED <<parent, owner>>
    BY <1>0, <2>1 DEF Remove, TypeOK, Inserting, Live
  <2> QED
    BY <1>0, <2>1, <2>2, RemoveRows DEF Sparing
<1>10. CASE MarkCommit(c)
  <2>1. fresh[c] = None /\ fresh'[c] = None /\ lock = c
    BY <1>0, <1>10 DEF MarkCommit, Fresh, Finish, TypeOK, Locks
  <2>2. Inserting' = Inserting /\ UNCHANGED <<parent, owner>>
    <3>1. marking[c] \subseteq Active
      BY <1>10 DEF MarkCommit, DocumentInv, RequestInv, Marks
    <3> QED
      BY <1>10, <3>1 DEF MarkCommit, Inserting, Active
  <2> QED
    BY <1>0, <1>10, <2>1, <2>2, MarkRowsCommit DEF Sparing
<1>11. CASE MoveRow(c)
  <2>1. fresh[c] = None /\ fresh'[c] = None /\ lock = c
    BY <1>0, <1>11 DEF MoveRow, Fresh, Finish, TypeOK, Locks
  <2>2. /\ Inserting' = Inserting /\ owner' = owner
        /\ \A d \in Inserting : parent'[d] = parent[d]
    BY <1>0, <1>11 DEF MoveRow, Inserting, Active, TypeOK
  <2> QED
    BY <1>0, <1>11, <2>1, <2>2, MoveRows DEF Sparing
<1> QED
  BY <1>2, <1>3, <1>4, <1>5, <1>6, <1>7, <1>8, <1>9, <1>10, <1>11 DEF Proceed

-----------------------------------------------------------------------------
(* What a step leaves of the request that takes it.                        *)

Own(c) == Route(c) /\ Locks(c) /\ Marks(c) /\ Checked(c) /\ Fresh(c)

LEMMA FinishOwn ==
    ASSUME TypeOK, NEW c \in Clients, Finish(c)
    PROVE  Own(c)'
<1>1. /\ pc'[c] = "idle" /\ marking'[c] = {} /\ fresh'[c] = None /\ lock' # c
  BY DEF TypeOK, Finish, Goto
<1> QED
  BY <1>1 DEF Own, Route, Locks, Marks, Checked, Fresh, Scoped, Guarded, Moving

LEMMA QuietSets ==
    ASSUME Quiet
    PROVE  /\ Live' = Live /\ Active' = Active /\ Inserting' = Inserting /\ Issued' = Issued
           /\ UNCHANGED <<parent, owner, version>>
BY DEF Quiet, rows, Live, Active, Inserting, Issued

LEMMA BeginOwn ==
    ASSUME TypeOK, NEW c \in Clients, Own(c),
           NEW step \in {"root", "create", "delete", "mark", "move"}, NEW o \in Orgs,
           NEW id \in Issued \cup {Alias}, NEW read, NEW to, Begin(c, step, o, id, read, to),
           step \in {"delete", "mark", "move"} => read \in Reading,
           step = "move" => /\ read.version + 1 < MaxVersion
                            /\ id \in Issued /\ to \in Issued \cup {Alias}
    PROVE  Own(c)'
<1>1. /\ pc[c] = "idle" /\ pc'[c] = step /\ org'[c] = o /\ target'[c] = id /\ seen'[c] = read
      /\ dest'[c] = to /\ lock' = lock /\ marking' = marking /\ fresh' = fresh
      /\ Quiet
  BY DEF TypeOK, Begin, Goto, working, Quiet
<1>2. marking[c] = {} /\ fresh[c] = None /\ lock # c
  BY <1>1 DEF Own, Marks, Fresh, Locks
<1>3. Issued' = Issued
  BY <1>1, QuietSets
<1>4. Route(c)'
  BY <1>1, <1>3 DEF Route, Scoped, Guarded, Moving
<1> QED
  BY <1>1, <1>2, <1>4 DEF Own, Locks, Marks, Checked, Fresh

LEMMA RequestOwn ==
    ASSUME DocumentInv, NEW c \in Clients, Request(c)
    PROVE  Own(c)'
<1>0. TypeOK /\ RowInv /\ Own(c)
  BY DEF DocumentInv, TreeInv, RequestInv, FreshInv, Own
<1> PICK o \in Orgs :
      \/ \E p \in Issued \cup {Alias} : CreateBegin(c, o, p)
      \/ \E d \in Dirs :
            \/ \E id \in {d, Alias} : DeleteBegin(c, o, id, d) \/ MarkBegin(c, o, id, d)
            \/ \E to \in Issued \cup {Alias} : MoveBegin(c, o, d, to)
  BY DEF Request
<1>1. ASSUME NEW p \in Issued \cup {Alias}, CreateBegin(c, o, p)
      PROVE  Own(c)'
  BY <1>0, <1>1, BeginOwn DEF CreateBegin
<1>2. ASSUME NEW d \in Dirs, NEW id \in {d, Alias}, DeleteBegin(c, o, id, d) \/ MarkBegin(c, o, id, d)
      PROVE  Own(c)'
  <2>1. [id |-> d, version |-> version[d]] \in Reading /\ d \in Issued
    BY <1>0, <1>2 DEF DeleteBegin, MarkBegin, Reads, RowInv, Reading, TypeOK, Live, Issued
  <2> QED
    BY <1>0, <1>2, <2>1, BeginOwn DEF DeleteBegin, MarkBegin
<1>3. ASSUME NEW d \in Dirs, NEW to \in Issued \cup {Alias}, MoveBegin(c, o, d, to)
      PROVE  Own(c)'
  <2> DEFINE read == [id |-> d, version |-> version[d]]
  <2>1. read \in Reading /\ d \in Issued /\ read.version + 1 < MaxVersion
    BY <1>0, <1>3 DEF MoveBegin, Reads, RowInv, Reading, TypeOK, Live, Issued
  <2>2. Begin(c, "move", o, d, read, to)
    BY <1>3 DEF MoveBegin
  <2> HIDE DEF read
  <2> QED
    BY <1>0, <2>1, <2>2, BeginOwn
<1> QED
  BY <1>1, <1>2, <1>3

(* The statements that find and scope.                                     *)
LEMMA ResolveOwn ==
    ASSUME TypeOK, TreeInv, NEW c \in Clients, Own(c),
           \/ RootRead(c) \/ CreateScope(c) \/ DeleteScope(c) \/ MarkScope(c) \/ MoveScope(c)
    PROVE  Own(c)'
<1>0. /\ Quiet /\ UNCHANGED <<lock, org, seen, fresh, first, marking>>
      /\ pc[c] # "idle" /\ pc[c] \notin {"bind", "created", "marking", "marked", "moveCheck", "moving"}
  BY DEF RootRead, CreateScope, DeleteScope, MarkScope, MoveScope, ScopeThen, Quiet, working
<1>1. org[c] \in Orgs /\ lock # c /\ marking[c] = {} /\ fresh[c] = None
  BY <1>0 DEF Own, Route, Locks, Marks, Fresh
<1>2. Live \subseteq Issued /\ Issued' = Issued
  BY <1>0, QuietSets DEF Live, Issued
<1>3. UNCHANGED <<owner, parent>>
  BY <1>0, QuietSets
<1>4. \A id : InScope(org[c], id) =>
          LET d == Resolve(org[c], id)
          IN  d \in Issued /\ owner[d] = org[c] /\ (parent[d] = None => d = root[org[c]])
  BY <1>1, <1>2, ScopeOwner DEF TreeInv
<1>5. CASE RootRead(c)
  <2>1. root[org[c]] \in Issued
    BY <1>1, <1>2, <1>5 DEF RootRead, TreeInv, RootsBound, Top
  <2>2. pc'[c] = "create" /\ target'[c] = root[org[c]]
    BY <1>5 DEF RootRead, TypeOK, Goto
  <2> QED
    BY <1>0, <1>1, <1>2, <2>1, <2>2
       DEF Own, Route, Locks, Marks, Checked, Fresh, Scoped, Guarded, Moving
<1>6. CASE CreateScope(c) \/ DeleteScope(c) \/ MarkScope(c)
  <2>1. /\ InScope(org[c], target[c]) /\ target'[c] = Resolve(org[c], target[c])
        /\ pc'[c] \in {"insert", "deleting", "markLock"}
        /\ pc'[c] # "insert" => pc[c] \in Guarded
    BY <1>6 DEF CreateScope, DeleteScope, MarkScope, ScopeThen, TypeOK, Goto, Guarded
  <2>2. target'[c] \in Issued /\ owner[target'[c]] = org[c]
    BY <1>4, <2>1
  <2>3. Route(c)'
    BY <1>0, <1>1, <1>2, <1>3, <2>1, <2>2 DEF Own, Route, Scoped, Guarded, Moving
  <2> QED
    BY <1>0, <1>1, <2>1, <2>3 DEF Own, Locks, Marks, Checked, Fresh
<1>7. CASE MoveScope(c)
  <2>1. /\ InScope(org[c], target[c]) /\ target[c] # root[org[c]] /\ target' = target
        /\ InScope(org[c], dest[c]) /\ dest'[c] = Resolve(org[c], dest[c])
        /\ pc[c] = "move" /\ pc'[c] = "moveLock"
    BY <1>7 DEF MoveScope, TypeOK, Goto
  <2>2. target[c] \in Issued /\ Resolve(org[c], target[c]) = target[c]
    BY <2>1 DEF Own, Route, Resolve, Issued
  <2>3. /\ owner[target[c]] = org[c] /\ parent[target[c]] # None
        /\ dest'[c] \in Issued /\ owner[dest'[c]] = org[c]
    BY <1>4, <2>1, <2>2
  <2>4. Route(c)'
    BY <1>0, <1>1, <1>2, <1>3, <2>1, <2>2, <2>3 DEF Own, Route, Scoped, Guarded, Moving
  <2> QED
    BY <1>0, <1>1, <2>1, <2>4 DEF Own, Locks, Marks, Checked, Fresh
<1> QED
  BY <1>5, <1>6, <1>7

(* The locks, the mark's rows and the move's check.                        *)
LEMMA LockedOwn ==
    ASSUME TypeOK, TreeInv, NEW c \in Clients, Own(c),
           MarkLock(c) \/ MarkRows(c) \/ MoveLock(c) \/ MoveCheck(c)
    PROVE  Own(c)'
<1>0. Quiet /\ UNCHANGED <<route, fresh>>
  BY DEF MarkLock, MarkRows, MoveLock, MoveCheck, Quiet, working
<1>1. /\ Live' = Live /\ Active' = Active /\ Issued' = Issued
      /\ UNCHANGED <<parent, owner, org, target, seen, dest, fresh>>
  BY <1>0, QuietSets DEF route
<1>2. CASE MarkLock(c)
  <2>1. /\ pc[c] = "markLock" /\ pc'[c] = "marking" /\ lock' = c /\ marking' = marking
        /\ first'[c] = (target[c] \in Active)
    BY <1>2 DEF MarkLock, TypeOK, Goto
  <2>2. marking[c] = {} /\ fresh[c] = None /\ Route(c)
    BY <2>1 DEF Own, Marks, Fresh
  <2>3. Route(c)'
    BY <1>1, <2>1, <2>2 DEF Route, Scoped, Guarded, Moving
  <2>4. Marks(c)'
    BY <1>1, <2>1, <2>2 DEF Marks
  <2> QED
    BY <1>1, <2>1, <2>2, <2>3, <2>4 DEF Own, Locks, Checked, Fresh
<1>3. CASE MarkRows(c)
  <2> PICK d, M : d = target[c] /\ M = Branch(d) \cap Active
    OBVIOUS
  <2>1. /\ pc[c] = "marking" /\ pc'[c] = "marked" /\ lock' = lock /\ first' = first
        /\ marking'[c] = M /\ d \in Live /\ target'[c] = d
    BY <1>1, <1>3 DEF MarkRows, TypeOK, Goto
  <2>2. fresh[c] = None /\ Route(c) /\ lock = c
    BY <2>1 DEF Own, Fresh, Locks
  <2>3. Route(c)'
    BY <1>1, <2>1, <2>2 DEF Route, Scoped, Guarded, Moving
  <2>4. IsWithin(d, d)
    BY <2>1 DEF IsWithin
  <2>5. IF first[c] THEN d \in M ELSE d \notin Active
    BY <2>1, <2>4 DEF Own, Marks, Branch
  <2>6. ASSUME NEW x \in M
        PROVE  /\ x \in Active /\ IsWithin(x, d)' /\ IsWithin(x, d)
               /\ x # d => parent[x] \in Live /\ (parent[x] \in Active => parent[x] \in M)
    <3>1. x \in Active /\ IsWithin(x, d)
      BY DEF Branch
    <3>2. IsWithin(x, d)'
      BY <1>1, <3>1 DEF IsWithin, ClosedUp
    <3>3. x # d => parent[x] \in Live /\ IsWithin(parent[x], d)
      BY <3>1, WithinParent DEF TreeInv
    <3> QED
      BY <3>1, <3>2, <3>3 DEF Branch
  <2>7. Marks(c)'
    BY <1>1, <2>1, <2>5, <2>6 DEF Marks, IsWithin, ClosedUp
  <2> QED
    BY <1>1, <2>1, <2>2, <2>3, <2>7 DEF Own, Locks, Checked, Fresh
<1>4. CASE MoveLock(c)
  <2>1. /\ pc[c] = "moveLock" /\ pc'[c] = "moveCheck" /\ lock' = c /\ UNCHANGED <<marking, first>>
    BY <1>4 DEF MoveLock, TypeOK, Goto, working
  <2>2. marking[c] = {} /\ fresh[c] = None /\ Route(c)
    BY <2>1 DEF Own, Marks, Fresh
  <2>3. Route(c)'
    BY <1>1, <2>1, <2>2 DEF Route, Scoped, Guarded, Moving
  <2> QED
    BY <1>1, <2>1, <2>2, <2>3 DEF Own, Locks, Marks, Checked, Fresh
<1>5. CASE MoveCheck(c)
  <2> PICK d, p : d = target[c] /\ p = dest[c]
    OBVIOUS
  <2>1. /\ pc[c] = "moveCheck" /\ pc'[c] = "moving" /\ UNCHANGED <<lock, marking, first>>
        /\ ~IsWithin(p, d)
    BY <1>5 DEF MoveCheck, TypeOK, Goto, working
  <2>2. marking[c] = {} /\ fresh[c] = None /\ Route(c) /\ lock = c
    BY <2>1 DEF Own, Marks, Fresh, Locks
  <2>3. Route(c)'
    BY <1>1, <2>1, <2>2 DEF Route, Scoped, Guarded, Moving
  <2>4. ~IsWithin(p, d)'
    BY <1>1, <2>1 DEF IsWithin, ClosedUp
  <2>5. Checked(c)'
    BY <1>1, <2>4 DEF Checked, IsWithin, ClosedUp
  <2> QED
    BY <1>1, <2>1, <2>2, <2>3, <2>5 DEF Own, Locks, Marks, Fresh
<1> QED
  BY <1>2, <1>3, <1>4, <1>5

(* The rest of a create.                                                   *)
LEMMA CreateOwn ==
    ASSUME DocumentInv, NEW c \in Clients, Lasting,
           \/ RootMissing(c) \/ EnsureAbsent(c) \/ EnsureTaken(c) \/ Bind(c) \/ BindTaken(c)
           \/ \E d \in Dirs : EnsureFind(c, d) \/ EnsureInsert(c, d) \/ CreateInsert(c, d)
    PROVE  Own(c)'
<1>0. TypeOK /\ TreeInv /\ Own(c) /\ Route(c)
  BY DEF DocumentInv, RequestInv, FreshInv, Own
<1>1. /\ pc[c] \in {"root", "find", "ensure", "bind", "insert"}
      /\ pc'[c] \in {"find", "ensure", "bind", "reread", "create", "created"}
      /\ pc'[c] = "created" => pc[c] = "insert"
      /\ UNCHANGED <<lock, org, seen, dest, first, marking>>
      /\ target'[c] = target[c] \/ Bind(c)
  BY <1>0 DEF TypeOK, RootMissing, EnsureAbsent, EnsureTaken, Bind, BindTaken, EnsureFind,
              EnsureInsert, CreateInsert, Goto, route, working
<1>2. org[c] \in Orgs /\ lock # c /\ marking[c] = {}
  BY <1>0, <1>1 DEF Own, Route, Locks, Marks
<1>3. Locks(c)' /\ Marks(c)' /\ Checked(c)'
  BY <1>1, <1>2 DEF Locks, Marks, Checked
<1>4. target'[c] \in Issued' \cup {Alias}
  <2>1. CASE Bind(c)
    <3>1. fresh[c] \in Live \cup Inserting /\ target'[c] = fresh[c]
      BY <1>0, <2>1 DEF Bind, TypeOK
    <3>2. status'[fresh[c]] \in {"active", "deleting"} /\ fresh[c] \in Dirs
      BY <1>0, <2>1, <3>1 DEF Bind, TypeOK, Live, Inserting
    <3> QED
      BY <3>1, <3>2 DEF Issued
  <2> QED
    BY <1>0, <1>1, <2>1 DEF Route, Lasting
<1>5. pc'[c] = "created" => target'[c] \in Issued' /\ owner'[target'[c]] = org[c]
  BY <1>0, <1>1 DEF Route, Scoped, Lasting, Bind, Issued
<1>6. Route(c)'
  BY <1>1, <1>2, <1>4, <1>5 DEF Route, Scoped, Guarded, Moving
<1>7. Fresh(c)'
  <2>1. CASE RootMissing(c) \/ EnsureAbsent(c) \/ EnsureTaken(c)
    BY <1>0, <2>1 DEF RootMissing, EnsureAbsent, EnsureTaken, working, Goto, TypeOK, Own, Fresh
  <2>2. CASE Bind(c) \/ BindTaken(c)
    BY <1>0, <2>2 DEF Bind, BindTaken, Goto, TypeOK, Fresh
  <2>3. ASSUME NEW d \in Dirs, EnsureFind(c, d)
        PROVE  Fresh(c)'
    <3>1. /\ pc'[c] = "bind" /\ fresh'[c] = d /\ d \in Issued /\ owner[d] = org[c]
          /\ parent[d] = None /\ Quiet
      BY <1>0, <2>3 DEF EnsureFind, Goto, TypeOK, Quiet, Top, Active, Issued
    <3>2. Issued' = Issued /\ UNCHANGED <<parent, owner>>
      BY <3>1, QuietSets
    <3> QED
      BY <1>1, <3>1, <3>2 DEF Fresh
  <2>4. ASSUME NEW d \in Dirs, EnsureInsert(c, d)
        PROVE  Fresh(c)'
    BY <1>0, <1>1, <2>4 DEF EnsureInsert, NewRow, Goto, TypeOK, Fresh, Inserting
  <2>5. ASSUME NEW d \in Dirs, CreateInsert(c, d)
        PROVE  Fresh(c)'
    <3>1. target[c] # None
      BY <2>5 DEF CreateInsert, Active
    <3> QED
      BY <1>0, <1>1, <2>5, <3>1 DEF CreateInsert, NewRow, Goto, TypeOK, Fresh, Inserting
  <2> QED
    BY <2>1, <2>2, <2>3, <2>4, <2>5
<1> QED
  BY <1>3, <1>6, <1>7 DEF Own

LEMMA ProceedOwn ==
    ASSUME DocumentInv, NEW c \in Clients, Lasting, Proceed(c)
    PROVE  Own(c)'
<1>0. TypeOK /\ TreeInv /\ Own(c)
  BY DEF DocumentInv, RequestInv, FreshInv, Own
<1>1. CASE Finish(c)
  BY <1>0, <1>1, FinishOwn
<1>2. CASE \/ RootRead(c) \/ CreateScope(c) \/ DeleteScope(c) \/ MarkScope(c) \/ MoveScope(c)
  BY <1>0, <1>2, ResolveOwn
<1>3. CASE MarkLock(c) \/ MarkRows(c) \/ MoveLock(c) \/ MoveCheck(c)
  BY <1>0, <1>3, LockedOwn
<1>4. CASE \/ RootMissing(c) \/ EnsureAbsent(c) \/ EnsureTaken(c) \/ Bind(c) \/ BindTaken(c)
           \/ \E d \in Dirs : EnsureFind(c, d) \/ EnsureInsert(c, d) \/ CreateInsert(c, d)
  BY <1>4, CreateOwn
<1> QED
  BY <1>1, <1>2, <1>3, <1>4 DEF Proceed, CreateCommit, DeleteRow, MarkCommit, MoveRow, Abort

-----------------------------------------------------------------------------
(* The invariant.                                                          *)

LEMMA FreshStep ==
    ASSUME FreshInv, NEW c \in Clients, Lasting, Sparing(c), Fresh(c)',
           \A e \in Clients \ {c} : Kept(e)
    PROVE  FreshInv'
<1>0. \A d : d \in Inserting => d \notin Issued /\ d # None
  BY DEF Inserting, Issued
<1>1. ASSUME NEW e \in Clients \ {c}
      PROVE  /\ fresh'[e] = fresh[e] /\ pc'[e] = pc[e] /\ org'[e] = org[e]
             /\ fresh[e] \in Inserting => fresh[e] # fresh[c]
             /\ fresh[e] # None => fresh[e] \in Inserting \cup Issued
  BY DEF FreshInv, Kept, Fresh
<1>2. ASSUME NEW e \in Clients \ {c}
      PROVE  Fresh(e)'
  <2>1. fresh[e] \in Inserting =>
           /\ fresh[e] \in Inserting'
           /\ owner'[fresh[e]] = owner[fresh[e]] /\ parent'[fresh[e]] = parent[fresh[e]]
    BY <1>1 DEF Sparing
  <2>2. fresh[e] \in Issued =>
           /\ fresh[e] \in Issued'
           /\ owner'[fresh[e]] = owner[fresh[e]]
           /\ parent[fresh[e]] = None => parent'[fresh[e]] = None
    BY DEF Lasting
  <2>3. Fresh(e)
    BY DEF FreshInv
  <2> QED
    BY <1>1, <2>1, <2>2, <2>3 DEF Fresh
<1>3. ASSUME NEW d \in Inserting'
      PROVE  \E e \in Clients : fresh'[e] = d
  <2>1. CASE d = fresh'[c]
    BY <2>1
  <2>2. CASE d \in Inserting \ {fresh[c]}
    BY <1>1, <2>2 DEF FreshInv
  <2> QED
    BY <2>1, <2>2 DEF Sparing
<1>4. ASSUME NEW e \in Clients \ {c}, NEW g \in Clients, fresh'[e] \in Inserting', fresh'[e] = fresh'[g]
      PROVE  e = g
  <2>1. fresh[e] \in Inserting'
    BY <1>1, <1>4
  <2>2. fresh[e] \in Inserting
    <3>1. fresh[e] \notin Issued /\ fresh[e] # None
      BY <2>1 DEF Lasting, Inserting, Issued
    <3> QED
      BY <1>1, <3>1
  <2>3. CASE g = c
    BY <1>1, <1>4, <2>2, <2>3 DEF Sparing
  <2>4. CASE g # c
    BY <1>1, <1>4, <2>2, <2>4 DEF FreshInv
  <2> QED
    BY <2>3, <2>4
<1> QED
  BY <1>2, <1>3, <1>4 DEF FreshInv

LEMMA DocumentInit == Init => DocumentInv
<1> SUFFICES ASSUME Init
             PROVE  DocumentInv
  OBVIOUS
<1>1. TypeOK
  BY DEF Init, TypeOK, DirOrNone, Steps
<1>2. Live = {} /\ Inserting = {} /\ Active = {} /\ Issued = {}
  BY DEF Init, Live, Inserting, Active, Issued
<1>3. TreeInv
  BY <1>2 DEF Init, TreeInv, RowInv, Standing, Acyclic, RootsBound, Top, ToldInv, HiddenInv, Hidden
<1>4. RequestInv
  BY DEF Init, RequestInv, Route, Locks, Marks, Checked, Scoped, Guarded, Moving
<1>5. FreshInv
  BY <1>2 DEF Init, FreshInv, Fresh
<1> QED
  BY <1>1, <1>3, <1>4, <1>5 DEF DocumentInv

LEMMA RequestStep ==
    ASSUME DocumentInv, NEW c \in Clients, Request(c) \/ Proceed(c)
    PROVE  DocumentInv'
<1>0. TypeOK /\ TreeInv /\ RequestInv /\ FreshInv
  BY DEF DocumentInv
<1>1. TypeOK'
  BY TypeStep DEF Next
<1>2. TreeInv' /\ Lasting /\ (Gentle \/ lock = c) /\ Sparing(c)
  BY RowsStep
<1>3. Own(c)'
  BY <1>2, RequestOwn, ProceedOwn
<1>4. \A e \in Clients \ {c} : Kept(e)
  BY <1>0, OthersKept
<1>5. ASSUME NEW e \in Clients \ {c}
      PROVE  Route(e)' /\ Locks(e)' /\ Marks(e)' /\ Checked(e)'
  <2>0. Route(e) /\ Locks(e) /\ Marks(e) /\ Checked(e) /\ Kept(e)
    BY <1>0, <1>4 DEF RequestInv
  <2>1. Route(e)'
    BY <1>2, <2>0, RouteKept
  <2>2. Locks(e)'
    BY <2>0 DEF Locks, Kept
  <2>3. CASE Gentle
    BY <1>0, <1>2, <2>0, <2>1, <2>2, <2>3, MarksKept, CheckedKept DEF TreeInv
  <2>4. CASE lock = c
    BY <2>0, <2>1, <2>2, <2>4 DEF Locks, Kept, Marks, Checked
  <2> QED
    BY <1>2, <2>3, <2>4
<1>6. RequestInv'
  BY <1>3, <1>5 DEF RequestInv, Own
<1>7. FreshInv'
  BY <1>0, <1>2, <1>3, <1>4, FreshStep DEF Own
<1> QED
  BY <1>1, <1>2, <1>6, <1>7 DEF DocumentInv

(* The sweep, of which no request is part.                                 *)
LEMMA SweepStep ==
    ASSUME DocumentInv, NEW d \in Dirs, SweepDir(d)
    PROVE  DocumentInv'
<1>0. TypeOK /\ TreeInv /\ RequestInv /\ FreshInv
  BY DEF DocumentInv
<1>1. TypeOK'
  BY TypeStep DEF Next
<1>2. /\ d \in Live /\ d \notin Active /\ Empty(d) /\ ~Locked(d) /\ Remove(d)
      /\ UNCHANGED <<told, lock, pc, route, working>>
  BY DEF SweepDir, Live, Active
<1>3. TreeInv' /\ Lasting /\ Gentle
  BY <1>0, <1>2, RemoveRows
<1>4. \A e \in Clients : Kept(e)
  BY <1>2 DEF route, working, Kept
<1>5. RequestInv'
  <2> SUFFICES ASSUME NEW e \in Clients
               PROVE  Route(e)' /\ Locks(e)' /\ Marks(e)' /\ Checked(e)'
    BY DEF RequestInv
  <2>0. Route(e) /\ Locks(e) /\ Marks(e) /\ Checked(e) /\ Kept(e)
    BY <1>0, <1>4 DEF RequestInv
  <2>1. Locks(e)'
    BY <2>0 DEF Locks, Kept
  <2> QED
    BY <1>0, <1>3, <2>0, <2>1, RouteKept, MarksKept, CheckedKept DEF TreeInv
<1>6. FreshInv'
  <2>1. Inserting' = Inserting /\ Issued' = Issued
    BY <1>0, <1>2 DEF TypeOK, Remove, Live, Inserting, Issued
  <2>2. UNCHANGED <<owner, parent, fresh, pc, org>>
    BY <1>2 DEF Remove, route, working
  <2> QED
    BY <1>0, <2>1, <2>2 DEF FreshInv, Fresh
<1> QED
  BY <1>1, <1>3, <1>5, <1>6 DEF DocumentInv

LEMMA StutterStep ==
    ASSUME DocumentInv, UNCHANGED vars
    PROVE  DocumentInv'
<1>1. TypeOK'
  BY TypeStep
<1>2. Quiet /\ UNCHANGED <<lock, pc, route, working>>
  BY DEF vars, Quiet
<1>3. TreeInv' /\ Lasting /\ Gentle
  BY <1>2, QuietRows DEF DocumentInv, Quiet
<1>4. RequestInv'
  <2> SUFFICES ASSUME NEW e \in Clients
               PROVE  Route(e)' /\ Locks(e)' /\ Marks(e)' /\ Checked(e)'
    BY DEF RequestInv
  <2>0. Route(e) /\ Locks(e) /\ Marks(e) /\ Checked(e) /\ Kept(e)
    BY <1>2 DEF DocumentInv, RequestInv, Kept, route, working
  <2>1. Locks(e)'
    BY <2>0 DEF Locks, Kept
  <2> QED
    BY <1>3, <2>0, <2>1, RouteKept, MarksKept, CheckedKept DEF TreeInv, DocumentInv
<1>5. FreshInv'
  BY <1>2, QuietSets DEF DocumentInv, FreshInv, Fresh, route, working
<1> QED
  BY <1>1, <1>3, <1>4, <1>5 DEF DocumentInv

LEMMA DocumentStep == DocumentInv /\ [Next]_vars => DocumentInv'
BY RequestStep, SweepStep, StutterStep DEF Next

LEMMA DocumentInvariant == Spec => []DocumentInv
BY DocumentInit, DocumentStep, PTL DEF Spec

-----------------------------------------------------------------------------
(* What the runs check, for every instance.                                *)

(* The variables have their types, the versions of what races into a mark  *)
(* among them.                                                             *)
THEOREM DirectoriesTyped == Spec => []TypeOK
<1>1. DocumentInv => TypeOK
  BY DEF DocumentInv
<1> QED
  BY <1>1, DocumentInvariant, PTL

(* No interleaving of creates, moves, marks, deletes and sweeps lets a     *)
(* directory stand beneath another organization's, a removed one or itself.*)
THEOREM HierarchiesStand == Spec => []Hierarchies
<1>1. DocumentInv => Hierarchies
  BY DEF DocumentInv, TreeInv, Standing, Acyclic, Hierarchies
<1> QED
  BY <1>1, DocumentInvariant, PTL

(* First writes that race leave an organization one root and its owner row.*)
THEOREM RootsStayBound == Spec => []RootsBound
<1>1. DocumentInv => RootsBound
  BY DEF DocumentInv, TreeInv
<1> QED
  BY <1>1, DocumentInvariant, PTL

(* A mark that emits DirectoryDeleted takes a directory no mark had taken  *)
(* and every consumer still holds.                                         *)
THEOREM FirstMarkTold == Spec => []FirstMarkTells
<1>1. DocumentInv => FirstMarkTells
  <2> SUFFICES ASSUME DocumentInv, NEW c \in Clients, pc[c] = "marked", Tells(c)
               PROVE  told[target[c]] # None /\ target[c] \in marking[c]
    BY DEF FirstMarkTells
  <2>1. target[c] \in marking[c] /\ marking[c] \subseteq Active
    BY DEF Tells, DocumentInv, RequestInv, Marks
  <2>2. PICK d \in Active : d = target[c]
    BY <2>1
  <2>3. told[d] = [parent |-> parent[d], version |-> version[d]]
    BY DEF DocumentInv, TreeInv, ToldInv
  <2>4. told[d] # None
    <3>1. d \in Dirs /\ parent[d] \in Dirs \cup {None} /\ version[d] \in Nat
      BY DEF Active, DocumentInv, TypeOK, DirOrNone
    <3> QED
      BY <2>3, <3>1
  <2> QED
    BY <2>1, <2>2, <2>4
<1> QED
  BY <1>1, DocumentInvariant, PTL

(* Read from its roots, a consumer's copy of the last events is the tree   *)
(* of active directories, row by row.                                      *)
THEOREM EventsShowTree == Spec => []ConsumerSeesTree
<1>1. DocumentInv => ConsumerSeesTree
  <2> SUFFICES ASSUME DocumentInv
               PROVE  ConsumerSeesTree
    OBVIOUS
  <2>0. TypeOK /\ ToldInv /\ HiddenInv
    BY DEF DocumentInv, TreeInv
  <2> DEFINE T  == {d \in Dirs : told[d] # None}
             up == [d \in T |-> told[d].parent]
  <2>1. ASSUME NEW d \in Active
        PROVE  d \in T /\ up[d] = parent[d] /\ told[d] = [parent |-> parent[d], version |-> version[d]]
    <3>1. told[d] = [parent |-> parent[d], version |-> version[d]]
      BY <2>0 DEF ToldInv
    <3>2. told[d] # None
      <4>1. d \in Dirs /\ parent[d] \in Dirs \cup {None} /\ version[d] \in Nat
        BY <2>0 DEF Active, TypeOK, DirOrNone
      <4> QED
        BY <3>1, <4>1
    <3>3. d \in T
      BY <3>2 DEF Active
    <3> QED
      BY <3>1, <3>3
  <2>2. ASSUME NEW S \in SUBSET T, \A x \in S : up[x] \in S \cup {None}
        PROVE  S \subseteq Active
    <3>1. S \subseteq Issued
      BY <2>0 DEF ToldInv
    <3>2. \A d \in S \cap Hidden : up[d] = told[d].parent /\ told[d].parent \in Issued \ Active
      BY <2>0 DEF HiddenInv
    <3>3. \A d \in S \cap Hidden : told[d].parent \in S \cap Hidden
      BY ZenonT(30), <2>2, <3>1, <3>2 DEF Hidden, Issued
    <3>4. S \cap Hidden = {}
      BY <2>0, <3>3 DEF HiddenInv
    <3> QED
      BY <3>1, <3>4 DEF Hidden
  <2> HIDE DEF T, up
  <2>3. Rooted(T, up) = Rooted(Active, parent)
    <3>1. \A S : /\ S \in SUBSET T /\ \A x \in S : up[x] \in S \cup {None}
              <=> S \in SUBSET Active /\ \A x \in S : parent[x] \in S \cup {None}
      BY <2>1, <2>2
    <3> QED
      BY <3>1 DEF Rooted
  <2>4. Rooted(Active, parent) \subseteq Active
    BY DEF Rooted
  <2> QED
    BY <2>1, <2>3, <2>4 DEF ConsumerSeesTree, T, up
<1> QED
  BY <1>1, DocumentInvariant, PTL
=============================================================================
