----------------------------- MODULE DocumentTree -----------------------------
(***************************************************************************)
(* The directories of the organizations' documents, /documents/{org}: the  *)
(* root an organization's first write ensures, create, move, the plain     *)
(* delete, the recursive delete that marks a branch, and the sweep that    *)
(* removes what is marked.  Every command is a transaction of several      *)
(* statements at READ COMMITTED, and others commit between them: a scope   *)
(* check first, then the write.  A move and a mark hold blobfs's tree lock *)
(* to the end of the transaction, a create and a plain delete do not.      *)
(*                                                                         *)
(* A statement that must wait for another transaction's row is a disabled  *)
(* action.  An update whose commit follows at once is one action with it,  *)
(* its row lock standing for the time between; an insert is not, since     *)
(* what other snapshots miss is the point, and neither is a mark.          *)
(* Files and the seed's directories are not in this module.                *)
(***************************************************************************)
EXTENDS Naturals, FiniteSets

CONSTANTS
    Dirs,        \* directory ids, the pool blobfs mints from
    Orgs,        \* organizations, none of which is deleted
    Clients,     \* request slots
    Alias,       \* the id "root", which every route resolves
    MaxVersion,  \* bound: versions a directory reaches, its mark's the last
    None         \* no directory, no organization, no event

ASSUME DocumentTreeAssumption ==
    /\ None \notin Dirs \cup Orgs \cup Clients \cup {Alias}
    /\ None \notin [parent : Dirs \cup {None}, version : Nat]
    /\ Alias \notin Dirs
    /\ MaxVersion \in Nat \ {0, 1}

VARIABLES
    status,      \* "unborn", "inserting", "active", "deleting" or "removed"
    parent,      \* each directory's parent, None at the top
    version,     \* its version
    owner,       \* the organization whose request made it
    root,        \* organization_directory: each organization's root, or None
    told,        \* the directory as the last event about it left it, or None
    lock,        \* the client that holds blobfs's tree lock, or None
    pc,          \* what each client's request does next
    org,         \* the organization its route names
    target,      \* the directory it names: a create's parent, or Alias
    seen,        \* the directory and version its If-Match was read from
    dest,        \* the new parent a move names
    fresh,       \* the directory its transaction inserted or found
    first,       \* the directory read active before its mark
    marking      \* the directories its mark has updated and not committed

rows    == <<status, parent, version, owner>>
route   == <<org, target, seen, dest>>
working == <<fresh, first, marking>>
vars    == <<rows, root, told, lock, pc, route, working>>

DirOrNone == Dirs \cup {None}
Record    == [parent : DirOrNone, version : 1..MaxVersion]
Reading   == [id : Dirs, version : 1..MaxVersion]

Active    == {d \in Dirs : status[d] = "active"}
Live      == {d \in Dirs : status[d] \in {"active", "deleting"}}
Inserting == {d \in Dirs : status[d] = "inserting"}
Unborn    == {d \in Dirs : status[d] = "unborn"}

(* Ids a client can name, as well as the alias.                            *)
Issued == {d \in Dirs : status[d] \in {"active", "deleting", "removed"}}

Steps == {"idle", "root", "find", "ensure", "bind", "reread",
          "create", "insert", "created", "delete", "deleting",
          "mark", "markLock", "marking", "marked",
          "move", "moveLock", "moveCheck", "moving"}

TypeOK ==
    /\ status \in [Dirs -> {"unborn", "inserting", "active", "deleting", "removed"}]
    /\ parent \in [Dirs -> DirOrNone]
    /\ version \in [Dirs -> 0..MaxVersion]
    /\ owner \in [Dirs -> Orgs \cup {None}]
    /\ root \in [Orgs -> DirOrNone]
    /\ told \in [Dirs -> Record \cup {None}]
    /\ lock \in Clients \cup {None}
    /\ pc \in [Clients -> Steps]
    /\ org \in [Clients -> Orgs \cup {None}]
    /\ target \in [Clients -> DirOrNone \cup {Alias}]
    /\ seen \in [Clients -> Reading \cup {None}]
    /\ dest \in [Clients -> DirOrNone \cup {Alias}]
    /\ fresh \in [Clients -> DirOrNone]
    /\ first \in [Clients -> BOOLEAN]
    /\ marking \in [Clients -> SUBSET Dirs]

Init ==
    /\ status = [d \in Dirs |-> "unborn"]
    /\ parent = [d \in Dirs |-> None]
    /\ version = [d \in Dirs |-> 0]
    /\ owner = [d \in Dirs |-> None]
    /\ root = [o \in Orgs |-> None]
    /\ told = [d \in Dirs |-> None]
    /\ lock = None
    /\ pc = [c \in Clients |-> "idle"]
    /\ org = [c \in Clients |-> None]
    /\ target = [c \in Clients |-> None]
    /\ seen = [c \in Clients |-> None]
    /\ dest = [c \in Clients |-> None]
    /\ fresh = [c \in Clients |-> None]
    /\ first = [c \in Clients |-> FALSE]
    /\ marking = [c \in Clients |-> {}]

-----------------------------------------------------------------------------
(* blobfs's rows.                                                          *)

(* What the committed rows put beneath d, d itself among it: blobfs's      *)
(* IsWithin, cycle check and descent read the parents alone.               *)
ClosedUp(S)  == \A x \in S : parent[x] \in S \cup {None}
IsWithin(x, d) ==
    x \in Live /\ \A S \in SUBSET Live : ClosedUp(S) /\ x \in S => d \in S
Branch(d) == {x \in Live : IsWithin(x, d)}

(* A foreign key refuses removing a parent, and waits for a child not yet  *)
(* committed; a row a mark has updated is locked till the mark commits.    *)
Empty(d)  == \A x \in Live \cup Inserting : parent[x] # d
Locked(d) == \E c \in Clients : d \in marking[c]

(* The name of a top-level directory is its organization's id, and blobfs  *)
(* keeps a parent's names distinct.                                        *)
Top(S, o) == {d \in S : parent[d] = None /\ owner[d] = o}

(* Mutation: a row numbered from 0.                                        *)
NewRowUnversioned(d, p, o) ==
    /\ status' = [status EXCEPT ![d] = "inserting"]
    /\ parent' = [parent EXCEPT ![d] = p]
    /\ owner' = [owner EXCEPT ![d] = o]
    /\ UNCHANGED version

NewRow(d, p, o) ==
    /\ status' = [status EXCEPT ![d] = "inserting"]
    /\ parent' = [parent EXCEPT ![d] = p]
    /\ version' = [version EXCEPT ![d] = 1]
    /\ owner' = [owner EXCEPT ![d] = o]

(* An inserted row the transaction rolls back was never there.             *)
Discard(D) ==
    /\ status' = [d \in Dirs |-> IF d \in D THEN "unborn" ELSE status[d]]
    /\ parent' = [d \in Dirs |-> IF d \in D THEN None ELSE parent[d]]
    /\ version' = [d \in Dirs |-> IF d \in D THEN 0 ELSE version[d]]
    /\ owner' = [d \in Dirs |-> IF d \in D THEN None ELSE owner[d]]

(* A directory's removal takes the owner row that binds it along.          *)
Remove(d) ==
    /\ status' = [status EXCEPT ![d] = "removed"]
    /\ root' = [o \in Orgs |-> IF root[o] = d THEN None ELSE root[o]]
    /\ UNCHANGED <<parent, version, owner>>

-----------------------------------------------------------------------------
(* The route and its scope.                                                *)

(* within and scope: the alias is the root, any other id must lie in it.   *)
Resolve(o, id) == IF id = Alias THEN root[o] ELSE id
InScope(o, id) == root[o] # None /\ IsWithin(Resolve(o, id), root[o])

Goto(c, step) == pc' = [pc EXCEPT ![c] = step]

Begin(c, step, o, id, read, to) ==
    /\ pc[c] = "idle"
    /\ Goto(c, step)
    /\ org' = [org EXCEPT ![c] = o]
    /\ target' = [target EXCEPT ![c] = id]
    /\ seen' = [seen EXCEPT ![c] = read]
    /\ dest' = [dest EXCEPT ![c] = to]
    /\ UNCHANGED <<rows, root, told, lock, working>>

(* The request ends; its transaction's lock goes with it.                  *)
Finish(c) ==
    /\ Goto(c, "idle")
    /\ org' = [org EXCEPT ![c] = None]
    /\ target' = [target EXCEPT ![c] = None]
    /\ seen' = [seen EXCEPT ![c] = None]
    /\ dest' = [dest EXCEPT ![c] = None]
    /\ fresh' = [fresh EXCEPT ![c] = None]
    /\ first' = [first EXCEPT ![c] = FALSE]
    /\ marking' = [marking EXCEPT ![c] = {}]
    /\ lock' = IF lock = c THEN None ELSE lock

(* A refusal, a failure of a statement, an event's write or the commit, a  *)
(* lost client: the transaction rolls back, and nothing of it shows.       *)
Abort(c) ==
    /\ pc[c] # "idle"
    /\ Discard({fresh[c]} \cap Inserting)
    /\ Finish(c)
    /\ UNCHANGED <<root, told>>

(* scope, the first statements of a command's transaction.                 *)
ScopeThen(c, from, step) ==
    /\ pc[c] = from
    /\ InScope(org[c], target[c])
    /\ Goto(c, step)
    /\ target' = [target EXCEPT ![c] = Resolve(org[c], @)]
    /\ UNCHANGED <<rows, root, told, lock, org, seen, dest, working>>

-----------------------------------------------------------------------------
(* A create, and the root it ensures when its parent is the alias.         *)

CreateBegin(c, o, p) ==
    Begin(c, IF p = Alias THEN "root" ELSE "create", o, p, None, None)

(* ensureRoot reads the owner row on the pool, and again after another     *)
(* first write won; without one the second time, the write is not found.   *)
RootRead(c) ==
    /\ pc[c] \in {"root", "reread"}
    /\ root[org[c]] # None
    /\ Goto(c, "create")
    /\ target' = [target EXCEPT ![c] = root[org[c]]]
    /\ UNCHANGED <<rows, root, told, lock, org, seen, dest, working>>

RootMissing(c) ==
    /\ pc[c] = "root"
    /\ root[org[c]] = None
    /\ Goto(c, "find")
    /\ UNCHANGED <<rows, root, told, lock, route, working>>

(* Directories.Ensure finds the directory under its name, refuses one that *)
(* is deleting ...                                                         *)
EnsureFind(c, d) ==
    /\ pc[c] = "find"
    /\ d \in Top(Active, org[c])
    /\ Goto(c, "bind")
    /\ fresh' = [fresh EXCEPT ![c] = d]
    /\ UNCHANGED <<rows, root, told, lock, route, first, marking>>

EnsureAbsent(c) ==
    /\ pc[c] = "find"
    /\ Top(Live, org[c]) = {}
    /\ Goto(c, "ensure")
    /\ UNCHANGED <<rows, root, told, lock, route, working>>

(* Mutation: the directory is ensured in a transaction of its own.         *)
EnsureInsertAlone(c, d) ==
    /\ pc[c] = "ensure"
    /\ Top(Live \cup Inserting, org[c]) = {}
    /\ d \in Unborn
    /\ status' = [status EXCEPT ![d] = "active"]
    /\ version' = [version EXCEPT ![d] = 1]
    /\ owner' = [owner EXCEPT ![d] = org[c]]
    /\ told' = [told EXCEPT ![d] = [parent |-> None, version |-> 1]]
    /\ Goto(c, "bind")
    /\ fresh' = [fresh EXCEPT ![c] = d]
    /\ UNCHANGED <<parent, root, lock, route, first, marking>>

(* ... or inserts it, once no other transaction is inserting that name.    *)
EnsureInsert(c, d) ==
    /\ pc[c] = "ensure"
    /\ Top(Live \cup Inserting, org[c]) = {}
    /\ d \in Unborn
    /\ NewRow(d, None, org[c])
    /\ Goto(c, "bind")
    /\ fresh' = [fresh EXCEPT ![c] = d]
    /\ UNCHANGED <<root, told, lock, route, first, marking>>

EnsureTaken(c) ==
    /\ pc[c] = "ensure"
    /\ Top(Live, org[c]) # {}
    /\ Goto(c, "reread")
    /\ UNCHANGED <<rows, root, told, lock, route, working>>

(* The owner row, DirectoryCreated if the root was inserted, the commit.   *)
Bind(c) ==
    LET d == fresh[c] IN
    /\ pc[c] = "bind"
    /\ root[org[c]] = None
    /\ d \in Live \cup Inserting
    /\ root' = [root EXCEPT ![org[c]] = d]
    /\ status' = [status EXCEPT ![d] = IF d \in Inserting THEN "active" ELSE @]
    /\ told' = [told EXCEPT ![d] =
                    IF d \in Inserting THEN [parent |-> None, version |-> 1] ELSE @]
    /\ Goto(c, "create")
    /\ target' = [target EXCEPT ![c] = d]
    /\ fresh' = [fresh EXCEPT ![c] = None]
    /\ UNCHANGED <<parent, version, owner, lock, org, seen, dest, first, marking>>

(* uq_organization_directory_organization: another first write bound one.  *)
BindTaken(c) ==
    /\ pc[c] = "bind"
    /\ root[org[c]] # None
    /\ Discard({fresh[c]} \cap Inserting)
    /\ Goto(c, "reread")
    /\ fresh' = [fresh EXCEPT ![c] = None]
    /\ UNCHANGED <<root, told, lock, route, first, marking>>

(* Mutation: the parent a create names is not scope-checked.               *)
CreateScopeOut(c) ==
    /\ pc[c] = "create"
    /\ Resolve(org[c], target[c]) \in Live
    /\ Goto(c, "insert")
    /\ target' = [target EXCEPT ![c] = Resolve(org[c], @)]
    /\ UNCHANGED <<rows, root, told, lock, org, seen, dest, working>>

CreateScope(c) == ScopeThen(c, "create", "insert")

(* Directories.Create refuses a parent it reads as deleting.               *)
CreateInsert(c, d) ==
    /\ pc[c] = "insert"
    /\ target[c] \in Active
    /\ d \in Unborn
    /\ NewRow(d, target[c], org[c])
    /\ Goto(c, "created")
    /\ fresh' = [fresh EXCEPT ![c] = d]
    /\ UNCHANGED <<root, told, lock, route, first, marking>>

CreateCommit(c) ==
    LET d == fresh[c] IN
    /\ pc[c] = "created"
    /\ status' = [status EXCEPT ![d] = "active"]
    /\ told' = [told EXCEPT ![d] = [parent |-> parent[d], version |-> version[d]]]
    /\ Finish(c)
    /\ UNCHANGED <<parent, version, owner, root>>

-----------------------------------------------------------------------------
(* The plain delete.  A client's If-Match is from a read of the directory  *)
(* its route names, which the alias may name another of by now.            *)

Reads(o, id, d) == d \in Live /\ (id = d \/ (id = Alias /\ root[o] = d))

DeleteBegin(c, o, id, d) ==
    /\ Reads(o, id, d)
    /\ Begin(c, "delete", o, id, [id |-> d, version |-> version[d]], None)

DeleteScope(c) == ScopeThen(c, "delete", "deleting")

DeleteRow(c) ==
    LET d == target[c] IN
    /\ pc[c] = "deleting"
    /\ d \in Live
    /\ version[d] = seen[c].version
    /\ Empty(d) /\ ~Locked(d)
    /\ Remove(d)
    /\ told' = [told EXCEPT ![d] = None]
    /\ Finish(c)

-----------------------------------------------------------------------------
(* The recursive delete.                                                   *)

MarkBegin(c, o, id, d) ==
    /\ Reads(o, id, d)
    /\ Begin(c, "mark", o, id, [id |-> d, version |-> version[d]], None)

MarkScope(c) == ScopeThen(c, "mark", "markLock")

(* LockTree, then the anchor's status.                                     *)
MarkLock(c) ==
    /\ pc[c] = "markLock"
    /\ lock = None
    /\ target[c] \in Live
    /\ lock' = c
    /\ first' = [first EXCEPT ![c] = target[c] \in Active]
    /\ Goto(c, "marking")
    /\ UNCHANGED <<rows, root, told, route, fresh, marking>>

(* MarkDeleting: an active anchor at its version, a deleting one at any;   *)
(* what is active beneath it, as far as the snapshot sees.                 *)
MarkRows(c) ==
    LET d == target[c] IN
    /\ pc[c] = "marking"
    /\ d \in Live
    /\ d \in Active => version[d] = seen[c].version
    /\ marking' = [marking EXCEPT ![c] = Branch(d) \cap Active]
    /\ Goto(c, "marked")
    /\ UNCHANGED <<rows, root, told, lock, route, fresh, first>>

(* Mutation: blobfs's count alone decides.                                 *)
TellsByCount(c) == marking[c] # {}

Tells(c) == first[c] /\ marking[c] # {}

MarkCommit(c) ==
    /\ pc[c] = "marked"
    /\ status' = [d \in Dirs |-> IF d \in marking[c] THEN "deleting" ELSE status[d]]
    /\ version' = [d \in Dirs |-> IF d \in marking[c] THEN version[d] + 1 ELSE version[d]]
    /\ told' = [told EXCEPT ![target[c]] = IF Tells(c) THEN None ELSE @]
    /\ Finish(c)
    /\ UNCHANGED <<parent, owner, root>>

(* blobfs's sweep, from the leaves of what is marked; it tells nothing.    *)
SweepDir(d) ==
    /\ status[d] = "deleting"
    /\ Empty(d) /\ ~Locked(d)
    /\ Remove(d)
    /\ UNCHANGED <<told, lock, pc, route, working>>

-----------------------------------------------------------------------------
(* A move, the alias as its directory refused before any I/O.              *)

MoveBegin(c, o, d, to) ==
    /\ Reads(o, d, d)
    /\ version[d] + 1 < MaxVersion
    /\ Begin(c, "move", o, d, [id |-> d, version |-> version[d]], to)

(* Mutation: the destination is not scope-checked.                         *)
MoveScopeOut(c) ==
    /\ pc[c] = "move"
    /\ InScope(org[c], target[c]) /\ target[c] # root[org[c]]
    /\ Resolve(org[c], dest[c]) \in Live
    /\ Goto(c, "moveLock")
    /\ dest' = [dest EXCEPT ![c] = Resolve(org[c], @)]
    /\ UNCHANGED <<rows, root, told, lock, org, target, seen, working>>

MoveScope(c) ==
    /\ pc[c] = "move"
    /\ InScope(org[c], target[c]) /\ target[c] # root[org[c]]
    /\ InScope(org[c], dest[c])
    /\ Goto(c, "moveLock")
    /\ dest' = [dest EXCEPT ![c] = Resolve(org[c], @)]
    /\ UNCHANGED <<rows, root, told, lock, org, target, seen, working>>

MoveLock(c) ==
    /\ pc[c] = "moveLock"
    /\ lock = None
    /\ lock' = c
    /\ Goto(c, "moveCheck")
    /\ UNCHANGED <<rows, root, told, route, working>>

MoveCheck(c) ==
    /\ pc[c] = "moveCheck"
    /\ ~IsWithin(dest[c], target[c])
    /\ Goto(c, "moving")
    /\ UNCHANGED <<rows, root, told, lock, route, working>>

(* Mutation: the event carries the version before the move.                *)
MoveRowToldBefore(c) ==
    LET d == target[c] IN
    /\ pc[c] = "moving"
    /\ d \in Active /\ dest[c] \in Active
    /\ version[d] = seen[c].version
    /\ parent' = [parent EXCEPT ![d] = dest[c]]
    /\ version' = [version EXCEPT ![d] = @ + 1]
    /\ told' = [told EXCEPT ![d] = [parent |-> dest[c], version |-> version[d]]]
    /\ Finish(c)
    /\ UNCHANGED <<status, owner, root>>

MoveRow(c) ==
    LET d == target[c] IN
    /\ pc[c] = "moving"
    /\ d \in Active /\ dest[c] \in Active
    /\ version[d] = seen[c].version
    /\ parent' = [parent EXCEPT ![d] = dest[c]]
    /\ version' = [version EXCEPT ![d] = @ + 1]
    /\ told' = [told EXCEPT ![d] = [parent |-> dest[c], version |-> version[d] + 1]]
    /\ Finish(c)
    /\ UNCHANGED <<status, owner, root>>

-----------------------------------------------------------------------------
Request(c) ==
    \E o \in Orgs :
        \/ \E p \in Issued \cup {Alias} : CreateBegin(c, o, p)
        \/ \E d \in Dirs :
              \/ \E id \in {d, Alias} : DeleteBegin(c, o, id, d) \/ MarkBegin(c, o, id, d)
              \/ \E to \in Issued \cup {Alias} : MoveBegin(c, o, d, to)

Proceed(c) ==
    \/ RootRead(c) \/ RootMissing(c) \/ EnsureAbsent(c) \/ EnsureTaken(c)
    \/ \E d \in Dirs : EnsureFind(c, d) \/ EnsureInsert(c, d)
    \/ Bind(c) \/ BindTaken(c)
    \/ CreateScope(c) \/ CreateCommit(c)
    \/ \E d \in Dirs : CreateInsert(c, d)
    \/ DeleteScope(c) \/ DeleteRow(c)
    \/ MarkScope(c) \/ MarkLock(c) \/ MarkRows(c) \/ MarkCommit(c)
    \/ MoveScope(c) \/ MoveLock(c) \/ MoveCheck(c) \/ MoveRow(c)
    \/ Abort(c)

Next ==
    \/ \E c \in Clients : Request(c) \/ Proceed(c)
    \/ \E d \in Dirs : SweepDir(d)

Spec == Init /\ [][Next]_vars

-----------------------------------------------------------------------------
(* Properties.                                                             *)

(* Whatever creates, moves, marks, deletes and sweeps interleave, each     *)
(* directory stands beneath a directory of its own organization, none      *)
(* beneath itself: the scope checks of statements ago still hold when a    *)
(* write commits, so no organization's route reaches another's documents.  *)
Hierarchies ==
    /\ \A d \in Live \cup Inserting :
          parent[d] # None => parent[d] \in Live /\ owner[parent[d]] = owner[d]
    /\ \A S \in SUBSET Live : S # {} => \E x \in S : parent[x] \notin S

(* An organization has at most one document root, and a top-level          *)
(* directory is always one: first writes that race leave no second and no  *)
(* unowned root, and a root's removal leaves no owner row.                 *)
RootsBound ==
    \A o \in Orgs : Top(Live, o) = IF root[o] = None THEN {} ELSE {root[o]}

(* What hangs together from the top, of the directories D under up.        *)
Rooted(D, up) ==
    UNION {S \in SUBSET D : \A x \in S : up[x] \in S \cup {None}}

(* A consumer that keeps the last event of each directory and reads its    *)
(* copy from the roots sees the directories a client can list, each as its *)
(* row is: a mark's one event hides its whole branch, what a create or a   *)
(* move races into a marked branch is hidden with it on both sides, and    *)
(* a refused command tells nothing.                                        *)
ConsumerSeesTree ==
    LET told_of == {d \in Dirs : told[d] # None}
        copy    == Rooted(told_of, [d \in told_of |-> told[d].parent])
    IN  /\ copy = Rooted(Active, parent)
        /\ \A d \in copy : told[d] = [parent |-> parent[d], version |-> version[d]]

(* DirectoryDeleted is emitted by the first mark of a directory alone: a   *)
(* mark about to emit it finds the consumer still holding the directory,   *)
(* and a directory no other mark has reached, a straggler's count aside.   *)
FirstMarkTells ==
    \A c \in Clients :
        pc[c] = "marked" /\ Tells(c) =>
            told[target[c]] # None /\ target[c] \in marking[c]

(* A delete whose If-Match is stale is refused: what a delete removes or   *)
(* marks is the directory its client read the version of.                  *)
StaleDeleteRefused ==
    [][\A c \in Clients :
          pc[c] \in {"deleting", "marked"} /\ pc'[c] = "idle" =>
              status'[target[c]] = status[target[c]] \/ target[c] = seen[c].id]_vars

(* The store keeps the abstract hierarchy: what a request checked          *)
(* statements and transactions before its write is still so when it        *)
(* commits, and each commit tells its own change and no other.             *)
Branches == INSTANCE DocumentBranches WITH
    live    <- Live,
    marked  <- {d \in Dirs : status[d] = "deleting"},
    up      <- [d \in Dirs |-> IF d \in Live THEN parent[d] ELSE None],
    home    <- [d \in Dirs |-> IF d \in Live THEN owner[d] ELSE None],
    heard   <- [d \in Dirs |-> IF told[d] = None THEN d ELSE told[d].parent],
    removed <- {d \in Dirs : status[d] = "removed"}
ImplementsBranches == Branches!BranchesSpec
=============================================================================
