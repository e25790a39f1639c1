------------------------------- MODULE OrgTree --------------------------------
(***************************************************************************)
(* The organization tree: create, edit, transfer and delete of             *)
(* /organizations, and a seed's transaction that grafts a named tree       *)
(* while requests run.  A create, an edit and a delete are one statement,  *)
(* its event and the commit: one action.  A transfer takes the tree's      *)
(* advisory lock, walks the new parent's lineage, then updates, and other  *)
(* requests commit between those steps (READ COMMITTED); so is a seed,     *)
(* whose rows are written one at a time and seen by nobody else before     *)
(* its commit.                                                             *)
(*                                                                         *)
(* Constraints: fk parent_id -> id, UNIQUE NULLS NOT DISTINCT (parent_id,  *)
(* code), CHECK parent_id <> id.  A statement that meets another           *)
(* transaction's uncommitted row waits for it: its action is disabled.     *)
(***************************************************************************)
EXTENDS Naturals, Sequences, FiniteSets

CONSTANTS
    Orgs,        \* organization ids, the pool the engine mints from
    Codes,       \* sibling codes
    Clients,     \* request slots: each changes one organization at a time
    Seeders,     \* concurrent seed runs
    SeedFile,    \* a state file's organizations, in its order
    MaxVersion,  \* bound: versions a row reaches
    None         \* no organization, no row

ASSUME OrgTreeAssumption ==
    /\ None \notin Orgs
    /\ None \notin Codes
    /\ None \notin Clients
    /\ SeedFile \in Seq([code : Codes, parent : Codes \cup {None}])
    /\ MaxVersion \in Nat \ {0}

VARIABLES
    state,       \* "unborn", "seeding" (uncommitted), "stored" or "removed"
    parent,      \* parent_id of each organization
    code,        \* its code
    version,     \* its version
    told,        \* the row a consumer of the committed events has, or None
    lock,        \* the client that holds the advisory lock organization.tree
    pc,          \* what each client's request does next
    target,      \* the organization the client read
    seen,        \* that organization's row as the client read it
    newParent,   \* the parent a transfer names
    seedPc,      \* a seed's next statement
    at,          \* the row of the file it is at
    ids,         \* the id it resolved each code of the file to
    mine         \* the rows it inserted

table   == <<state, parent, code, version>>
request == <<pc, target, seen, newParent>>
seeding == <<seedPc, at, ids, mine>>
vars    == <<table, told, lock, request, seeding>>

Stored  == {o \in Orgs : state[o] = "stored"}
Pending == {o \in Orgs : state[o] = "seeding"}
Rows    == Stored \cup Pending
Unborn  == {o \in Orgs : state[o] = "unborn"}

(* Ids a client can name: minted by a committed insert.                    *)
Issued  == {o \in Orgs : state[o] \in {"stored", "removed"}}

OrgOrNone  == Orgs \cup {None}
CodeOrNone == Codes \cup {None}
Row == [parent : OrgOrNone, code : CodeOrNone, version : 0..MaxVersion]
RowOf(o) == [parent |-> parent[o], code |-> code[o], version |-> version[o]]

TypeOK ==
    /\ state \in [Orgs -> {"unborn", "seeding", "stored", "removed"}]
    /\ parent \in [Orgs -> OrgOrNone]
    /\ code \in [Orgs -> CodeOrNone]
    /\ version \in [Orgs -> 0..MaxVersion]
    /\ told \in [Orgs -> Row \cup {None}]
    /\ lock \in Clients \cup {None}
    /\ pc \in [Clients -> {"idle", "holding", "lock", "walk", "move"}]
    /\ target \in [Clients -> OrgOrNone]
    /\ seen \in [Clients -> Row \cup {None}]
    /\ newParent \in [Clients -> OrgOrNone]
    /\ seedPc \in [Seeders -> {"idle", "insert", "find"}]
    /\ at \in [Seeders -> 1..(Len(SeedFile) + 1)]
    /\ ids \in [Seeders -> [Codes -> OrgOrNone]]
    /\ mine \in [Seeders -> SUBSET Orgs]

Init ==
    /\ state = [o \in Orgs |-> "unborn"]
    /\ parent = [o \in Orgs |-> None]
    /\ code = [o \in Orgs |-> None]
    /\ version = [o \in Orgs |-> 0]
    /\ told = [o \in Orgs |-> None]
    /\ lock = None
    /\ pc = [c \in Clients |-> "idle"]
    /\ target = [c \in Clients |-> None]
    /\ seen = [c \in Clients |-> None]
    /\ newParent = [c \in Clients |-> None]
    /\ seedPc = [s \in Seeders |-> "idle"]
    /\ at = [s \in Seeders |-> 1]
    /\ ids = [s \in Seeders |-> [k \in Codes |-> None]]
    /\ mine = [s \in Seeders |-> {}]

-----------------------------------------------------------------------------
(* in_subtree.sql: n is c or an ancestor of c.  The recursive query walks  *)
(* up from c; what it reaches is the least set of rows that holds c and    *)
(* the parent of each of its members.                                      *)
Closed(S) == \A x \in S : parent[x] \in S \cup {None}
InSubtree(n, c) ==
    c \in Stored /\ \A S \in SUBSET Stored : Closed(S) /\ c \in S => n \in S

(* Mutation: UNIQUE with its default, under which NULLs are distinct.       *)
TakenUnderParent(o, p, k) ==
    \E x \in Stored \ {o} : p # None /\ parent[x] = p /\ code[x] = k

(* uq_organization_parent_code, against the committed rows but o itself,   *)
(* and against rows another transaction may still roll back.               *)
Taken(o, p, k) ==
    \E x \in Stored \ {o} : parent[x] = p /\ code[x] = k
KeyPending(p, k) ==
    \E x \in Pending : parent[x] = p /\ code[x] = k

(* An uncommitted child locks its parent's row and key.                    *)
HeldBySeed(o) == \E x \in Pending : parent[x] = o

(* Mutation: the guard matches the id alone.                               *)
CurrentById(c) == target[c] \in Stored

(* guard_where: the row is there and at the version the client read.       *)
Current(c) ==
    /\ target[c] \in Stored
    /\ version[target[c]] = seen[c].version

(* Mutation: the lock is the session's, and outlives the transaction.      *)
FinishHolding(c) ==
    /\ pc' = [pc EXCEPT ![c] = "idle"]
    /\ target' = [target EXCEPT ![c] = None]
    /\ seen' = [seen EXCEPT ![c] = None]
    /\ newParent' = [newParent EXCEPT ![c] = None]
    /\ UNCHANGED <<lock, seeding>>

(* The answer is sent; a transfer's transaction ends and frees the lock.   *)
Finish(c) ==
    /\ pc' = [pc EXCEPT ![c] = "idle"]
    /\ target' = [target EXCEPT ![c] = None]
    /\ seen' = [seen EXCEPT ![c] = None]
    /\ newParent' = [newParent EXCEPT ![c] = None]
    /\ lock' = IF lock = c THEN None ELSE lock
    /\ UNCHANGED seeding

(* Mutation: the event is read before the command's statement runs.        *)
TellBefore(o) == told' = [told EXCEPT ![o] = RowOf(o)]

(* Mutation: the event carries no version.                                 *)
TellUnversioned(o) ==
    told' = [told EXCEPT ![o] = [parent |-> parent'[o], code |-> code'[o]]]

(* raiseStored: the event carries the row as the command left it.          *)
Tell(o) ==
    told' = [told EXCEPT ![o] = [parent  |-> parent'[o],
                                 code    |-> code'[o],
                                 version |-> version'[o]]]

-----------------------------------------------------------------------------
(* The requests.  A refused create changes nothing and is a stutter.       *)

Read(c, o) ==
    /\ pc[c] = "idle" /\ o \in Stored
    /\ pc' = [pc EXCEPT ![c] = "holding"]
    /\ target' = [target EXCEPT ![c] = o]
    /\ seen' = [seen EXCEPT ![c] = RowOf(o)]
    /\ UNCHANGED <<table, told, lock, newParent, seeding>>

Create(o, p, k) ==
    /\ o \in Unborn /\ p \in Stored \cup {None}
    /\ ~Taken(o, p, k) /\ ~KeyPending(p, k)
    /\ state' = [state EXCEPT ![o] = "stored"]
    /\ parent' = [parent EXCEPT ![o] = p]
    /\ code' = [code EXCEPT ![o] = k]
    /\ version' = [version EXCEPT ![o] = 1]
    /\ UNCHANGED <<lock, request, seeding>>
    /\ Tell(o)

(* An edit that keeps the code changes only the name: the version moves.   *)
Edit(c, k) ==
    LET o == target[c] IN
    /\ pc[c] = "holding" /\ Current(c)
    /\ seen[c].version < MaxVersion
    /\ k # code[o] => ~HeldBySeed(o)
    /\ ~Taken(o, parent[o], k) /\ ~KeyPending(parent[o], k)
    /\ code' = [code EXCEPT ![o] = k]
    /\ version' = [version EXCEPT ![o] = version[o] + 1]
    /\ UNCHANGED <<state, parent>>
    /\ Tell(o)
    /\ Finish(c)

(* Mutation: the check for children sees the committed ones alone.         *)
DeleteOverSeed(c) ==
    LET o == target[c] IN
    /\ pc[c] = "holding" /\ Current(c)
    /\ \A x \in Stored : parent[x] # o
    /\ state' = [state EXCEPT ![o] = "removed"]
    /\ parent' = [parent EXCEPT ![o] = None]
    /\ code' = [code EXCEPT ![o] = None]
    /\ version' = [version EXCEPT ![o] = 0]
    /\ told' = [told EXCEPT ![o] = None]
    /\ Finish(c)

Delete(c) ==
    LET o == target[c] IN
    /\ pc[c] = "holding" /\ Current(c)
    /\ \A x \in Rows : parent[x] # o
    /\ state' = [state EXCEPT ![o] = "removed"]
    /\ parent' = [parent EXCEPT ![o] = None]
    /\ code' = [code EXCEPT ![o] = None]
    /\ version' = [version EXCEPT ![o] = 0]
    /\ told' = [told EXCEPT ![o] = None]
    /\ Finish(c)

(* The request is refused (412, 404, a constraint, an image or a document  *)
(* root of the organization), fails, or the client goes away: a rollback.  *)
Abort(c) ==
    /\ pc[c] # "idle"
    /\ Finish(c)
    /\ UNCHANGED <<table, told>>

TransferBegin(c, p) ==
    /\ pc[c] = "holding" /\ p \in Issued \cup {None}
    /\ seen[c].version < MaxVersion
    /\ pc' = [pc EXCEPT ![c] = "lock"]
    /\ newParent' = [newParent EXCEPT ![c] = p]
    /\ UNCHANGED <<table, told, lock, target, seen, seeding>>

(* Mutation: the transfer does not wait for the tree's lock.               *)
TransferUnlocked(c) ==
    /\ pc[c] = "lock"
    /\ pc' = [pc EXCEPT ![c] = "walk"]
    /\ UNCHANGED <<table, told, lock, target, seen, newParent, seeding>>

TransferLock(c) ==
    /\ pc[c] = "lock" /\ lock = None
    /\ lock' = c
    /\ pc' = [pc EXCEPT ![c] = "walk"]
    /\ UNCHANGED <<table, told, target, seen, newParent, seeding>>

(* Mutation: the walk runs before the lock is taken.                       *)
WalkEarly(c) ==
    /\ pc[c] = "lock" /\ lock = None
    /\ ~InSubtree(target[c], newParent[c])
    /\ pc' = [pc EXCEPT ![c] = "move"]
    /\ UNCHANGED <<table, told, lock, target, seen, newParent, seeding>>

(* A parent that does not exist passes the walk; None skips it.            *)
Walk(c) ==
    /\ pc[c] = "walk"
    /\ ~InSubtree(target[c], newParent[c])
    /\ pc' = [pc EXCEPT ![c] = "move"]
    /\ UNCHANGED <<table, told, lock, target, seen, newParent, seeding>>

WalkRefused(c) ==
    /\ pc[c] = "walk"
    /\ InSubtree(target[c], newParent[c])
    /\ Finish(c)
    /\ UNCHANGED <<table, told>>

Move(c) ==
    LET o == target[c]  p == newParent[c] IN
    /\ pc[c] = "move" /\ Current(c)
    /\ p \in Stored \cup {None}
    /\ p # parent[o] => ~HeldBySeed(o)
    /\ ~Taken(o, p, code[o]) /\ ~KeyPending(p, code[o])
    /\ parent' = [parent EXCEPT ![o] = p]
    /\ version' = [version EXCEPT ![o] = version[o] + 1]
    /\ UNCHANGED <<state, code>>
    /\ Tell(o)
    /\ Finish(c)

MoveRefused(c) ==
    /\ pc[c] = "move"
    /\ Current(c) => \/ newParent[c] \notin Stored \cup {None}
                     \/ Taken(target[c], newParent[c], code[target[c]])
    /\ Finish(c)
    /\ UNCHANGED <<table, told>>

-----------------------------------------------------------------------------
(* The seed of a named state: seed.Apply in Seeder.Seed's transaction.     *)

Line(s)       == SeedFile[at[s]]
InFile(s)     == seedPc[s] # "idle" /\ at[s] <= Len(SeedFile)
SeedParent(s) == IF Line(s).parent = None THEN None ELSE ids[s][Line(s).parent]

(* Apply's own checks: the parent comes before, and no code comes twice.   *)
WellPlaced(s) ==
    /\ Line(s).parent # None => SeedParent(s) # None
    /\ ids[s][Line(s).code] = None

Visible(s) == Stored \cup mine[s]
Resolve(s, o) ==
    /\ ids' = [ids EXCEPT ![s] = [@ EXCEPT ![Line(s).code] = o]]
    /\ at' = [at EXCEPT ![s] = at[s] + 1]
    /\ seedPc' = [seedPc EXCEPT ![s] = "insert"]

SeedBegin(s) ==
    /\ seedPc[s] = "idle"
    /\ seedPc' = [seedPc EXCEPT ![s] = "insert"]
    /\ UNCHANGED <<table, told, lock, request, at, ids, mine>>

(* Mutation: the insert does not check the parent's foreign key.           *)
SeedInsertUnkeyed(s, o) ==
    LET p == SeedParent(s)  k == Line(s).code IN
    /\ InFile(s) /\ seedPc[s] = "insert" /\ WellPlaced(s)
    /\ o \in Unborn
    /\ ~Taken(o, p, k) /\ ~KeyPending(p, k)
    /\ state' = [state EXCEPT ![o] = "seeding"]
    /\ parent' = [parent EXCEPT ![o] = p]
    /\ code' = [code EXCEPT ![o] = k]
    /\ version' = [version EXCEPT ![o] = 1]
    /\ mine' = [mine EXCEPT ![s] = @ \cup {o}]
    /\ Resolve(s, o)
    /\ UNCHANGED <<told, lock, request>>

(* seed.sql inserts a row no sibling's code conflicts with ...             *)
SeedInsert(s, o) ==
    LET p == SeedParent(s)  k == Line(s).code IN
    /\ InFile(s) /\ seedPc[s] = "insert" /\ WellPlaced(s)
    /\ o \in Unborn /\ p \in Visible(s) \cup {None}
    /\ ~Taken(o, p, k) /\ ~KeyPending(p, k)
    /\ state' = [state EXCEPT ![o] = "seeding"]
    /\ parent' = [parent EXCEPT ![o] = p]
    /\ code' = [code EXCEPT ![o] = k]
    /\ version' = [version EXCEPT ![o] = 1]
    /\ mine' = [mine EXCEPT ![s] = @ \cup {o}]
    /\ Resolve(s, o)
    /\ UNCHANGED <<told, lock, request>>

(* Mutation: ON CONFLICT DO UPDATE.                                        *)
SeedUpsert(s) ==
    /\ InFile(s) /\ seedPc[s] = "insert" /\ WellPlaced(s)
    /\ \E x \in Stored :
          /\ parent[x] = SeedParent(s) /\ code[x] = Line(s).code
          /\ version[x] < MaxVersion
          /\ version' = [version EXCEPT ![x] = version[x] + 1]
          /\ Resolve(s, x)
    /\ UNCHANGED <<state, parent, code, told, lock, request, mine>>

(* ... returns no row on a conflict ...                                    *)
SeedConflict(s) ==
    /\ InFile(s) /\ seedPc[s] = "insert" /\ WellPlaced(s)
    /\ Taken(None, SeedParent(s), Line(s).code)
    /\ seedPc' = [seedPc EXCEPT ![s] = "find"]
    /\ UNCHANGED <<table, told, lock, request, at, ids, mine>>

(* ... and find_seeded.sql reads the row there, if it is there still.      *)
SeedFind(s, o) ==
    /\ InFile(s) /\ seedPc[s] = "find"
    /\ o \in Visible(s) /\ parent[o] = SeedParent(s) /\ code[o] = Line(s).code
    /\ Resolve(s, o)
    /\ UNCHANGED <<table, told, lock, request, mine>>

(* Mutation: a seed raises no event.                                       *)
SeedCommitQuietly(s) ==
    /\ seedPc[s] # "idle" /\ ~InFile(s)
    /\ state' = [o \in Orgs |-> IF o \in mine[s] THEN "stored" ELSE state[o]]
    /\ seedPc' = [seedPc EXCEPT ![s] = "idle"]
    /\ at' = [at EXCEPT ![s] = 1]
    /\ ids' = [ids EXCEPT ![s] = [k \in Codes |-> None]]
    /\ mine' = [mine EXCEPT ![s] = {}]
    /\ UNCHANGED <<parent, code, version, told, lock, request>>

(* Each inserted row commits with its OrganizationCreated.                 *)
SeedCommit(s) ==
    /\ seedPc[s] # "idle" /\ ~InFile(s)
    /\ state' = [o \in Orgs |-> IF o \in mine[s] THEN "stored" ELSE state[o]]
    /\ told' = [o \in Orgs |-> IF o \in mine[s] THEN RowOf(o) ELSE told[o]]
    /\ seedPc' = [seedPc EXCEPT ![s] = "idle"]
    /\ at' = [at EXCEPT ![s] = 1]
    /\ ids' = [ids EXCEPT ![s] = [k \in Codes |-> None]]
    /\ mine' = [mine EXCEPT ![s] = {}]
    /\ UNCHANGED <<parent, code, version, lock, request>>

(* A refusal of Apply, a parent deleted meanwhile, a row neither inserted  *)
(* nor found, a deadlock the engine breaks: every row rolls back.          *)
SeedFail(s) ==
    /\ seedPc[s] # "idle"
    /\ state' = [o \in Orgs |-> IF o \in mine[s] THEN "unborn" ELSE state[o]]
    /\ parent' = [o \in Orgs |-> IF o \in mine[s] THEN None ELSE parent[o]]
    /\ code' = [o \in Orgs |-> IF o \in mine[s] THEN None ELSE code[o]]
    /\ version' = [o \in Orgs |-> IF o \in mine[s] THEN 0 ELSE version[o]]
    /\ seedPc' = [seedPc EXCEPT ![s] = "idle"]
    /\ at' = [at EXCEPT ![s] = 1]
    /\ ids' = [ids EXCEPT ![s] = [k \in Codes |-> None]]
    /\ mine' = [mine EXCEPT ![s] = {}]
    /\ UNCHANGED <<told, lock, request>>

-----------------------------------------------------------------------------
ClientStep(c) ==
    \/ \E o \in Orgs : Read(c, o)
    \/ \E k \in Codes : Edit(c, k)
    \/ Delete(c)
    \/ Abort(c)
    \/ \E p \in OrgOrNone : TransferBegin(c, p)
    \/ TransferLock(c)
    \/ Walk(c)
    \/ WalkRefused(c)
    \/ Move(c)
    \/ MoveRefused(c)

SeedStep(s) ==
    \/ SeedBegin(s)
    \/ \E o \in Orgs : SeedInsert(s, o)
    \/ SeedConflict(s)
    \/ \E o \in Orgs : SeedFind(s, o)
    \/ SeedCommit(s)
    \/ SeedFail(s)

Next ==
    \/ \E o \in Orgs, p \in OrgOrNone, k \in Codes : Create(o, p, k)
    \/ \E c \in Clients : ClientStep(c)
    \/ \E s \in Seeders : SeedStep(s)

Spec == Init /\ [][Next]_vars

(* The engine queues an advisory lock's waiters in order, so a transfer    *)
(* that waits gets it however often the others come back; the statements   *)
(* under the lock run to their end.  No client need send anything.         *)
Fairness ==
    \A c \in Clients :
        /\ SF_vars(TransferLock(c))
        /\ WF_vars(Walk(c) \/ WalkRefused(c) \/ Move(c) \/ MoveRefused(c))

FairSpec == Spec /\ Fairness

-----------------------------------------------------------------------------
(* Properties.                                                             *)

(* The organizations form a forest whatever transfers, deletes and seeds   *)
(* interleave: each parent is a committed row or a row of the same seed,   *)
(* and no organization lies beneath itself.  organization_view.sql lists   *)
(* from the roots, so one on a cycle would vanish from every read, and     *)
(* in_subtree.sql would walk for ever.                                     *)
ParentsStand ==
    /\ \A o \in Stored : parent[o] \in Stored \cup {None}
    /\ \A s \in Seeders : \A o \in mine[s] : parent[o] \in Visible(s) \cup {None}
Acyclic ==
    \A S \in SUBSET Rows : S # {} => \E x \in S : parent[x] \notin S
Forest == ParentsStand /\ Acyclic

(* organization_view.sql composes an organization's path from the codes    *)
(* along its lineage.  Two rows have one path when a pairing of rows, that *)
(* pairs these two, pairs only equal codes, and only roots with roots and  *)
(* rows with rows whose parents it pairs too.                              *)
SamePath(x, y) ==
    \E R \in SUBSET (Stored \X Stored) :
        /\ <<x, y>> \in R
        /\ \A a, b \in Stored : <<a, b>> \in R =>
              /\ code[a] = code[b]
              /\ \/ parent[a] = None /\ parent[b] = None
                 \/ <<parent[a], parent[b]>> \in R

(* FindByPath reads the one row with a path: no two stored organizations   *)
(* ever have the same path, however codes and parents move.                *)
PathsDistinct ==
    \A x, y \in Stored : SamePath(x, y) => x = y

(* A consumer that applies the committed events in commit order, seeds'    *)
(* included, has the table: none missing, none for a command refused.      *)
EventsReplay ==
    \A o \in Orgs : told[o] = IF o \in Stored THEN RowOf(o) ELSE None

(* No update is lost: a stored organization changes or goes only by the    *)
(* command of a client whose read of it is what is stored at that moment,  *)
(* though the guard compares the version alone.                            *)
NoLostUpdate ==
    [][\A o \in Stored :
          RowOf(o)' # RowOf(o) \/ state'[o] # "stored" =>
              \E c \in Clients : target[c] = o /\ seen[c] = RowOf(o)]_vars

(* The tree the rows hold is the abstract forest's: a transfer's walk is   *)
(* still right when its update runs.                                       *)
TheForest == INSTANCE OrgForest WITH
    live    <- Stored,
    up      <- [o \in Orgs |-> IF o \in Stored THEN parent[o] ELSE None],
    removed <- {o \in Orgs : state[o] = "removed"}
ImplementsForest == TheForest!ForestSpec

(* A transfer that asks for the tree's lock ends, whatever transfers the   *)
(* other clients keep sending.                                             *)
TransfersEnd ==
    \A c \in Clients : pc[c] \in {"lock", "walk", "move"} ~> pc[c] = "idle"
=============================================================================
