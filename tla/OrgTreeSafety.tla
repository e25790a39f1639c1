----------------------------- MODULE OrgTreeSafety -----------------------------
(***************************************************************************)
(* The organizations form a forest, the events replay to the table, and no *)
(* update is lost, for any instance.  A transfer's walk finds a set of     *)
(* rows that is closed under parents, holds the new parent and not the     *)
(* organization moved; it stays such a set until the update, because the   *)
(* lock keeps other moves out, an insert adds leaves, and a delete removes *)
(* them.  A cycle the move closed would meet that set in a cycle that was  *)
(* there before.                                                           *)
(***************************************************************************)
EXTENDS OrgTreeProofs

LockInv == \A c \in Clients : pc[c] \in {"walk", "move"} <=> lock = c

(* What a walk found still holds.                                          *)
WalkInv ==
    \A c \in Clients : pc[c] = "move" => ~InSubtree(target[c], newParent[c])

(* An id a client names is never minted again, and a version it read       *)
(* stands for the row it read.                                             *)
SeenInv ==
    \A c \in Clients :
        /\ pc[c] # "idle" =>
              /\ target[c] \in Issued
              /\ target[c] \in Stored =>
                    /\ seen[c].version <= version[target[c]]
                    /\ seen[c].version = version[target[c]] =>
                          seen[c] = RowOf(target[c])
        /\ pc[c] \in {"lock", "walk", "move"} => newParent[c] \in Issued \cup {None}

(* Each uncommitted row is one seed's.                                     *)
SeedInv ==
    /\ \A o \in Pending : \E s \in Seeders : o \in mine[s]
    /\ \A s \in Seeders : mine[s] \subseteq Pending
    /\ \A s, t \in Seeders : s # t => mine[s] \cap mine[t] = {}

TreeInv ==
    /\ TypeInv
    /\ LockInv
    /\ WalkInv
    /\ SeenInv
    /\ SeedInv
    /\ ParentsStand
    /\ Acyclic
    /\ EventsReplay

-----------------------------------------------------------------------------
(* What the steps do to the rows.                                          *)

LEMMA ParentsAreRows ==
    ASSUME TreeInv, NEW o \in Rows
    PROVE  parent[o] \in Rows \cup {None}
<1>1. CASE o \in Stored
  BY <1>1 DEF TreeInv, ParentsStand, Rows
<1>2. CASE o \in Pending
  <2>1. PICK s \in Seeders : o \in mine[s]
    BY <1>2 DEF TreeInv, SeedInv
  <2>2. parent[o] \in Stored \cup mine[s] \cup {None}
    BY <2>1 DEF TreeInv, ParentsStand, Visible
  <2> QED
    BY <2>2 DEF TreeInv, SeedInv, Rows
<1> QED
  BY <1>1, <1>2 DEF Rows

(* A new row that hangs from an old one, or from none, closes no cycle.    *)
LEMMA LeafAdded ==
    ASSUME TreeInv, NEW o, o \notin Rows, o # None,
           Rows' = Rows \cup {o},
           \A x \in Rows : parent'[x] = parent[x],
           parent'[o] \in Rows \cup {None}
    PROVE  Acyclic'
<1> SUFFICES ASSUME NEW S \in SUBSET Rows', S # {}
             PROVE  \E x \in S : parent'[x] \notin S
  BY DEF Acyclic
<1>0. None \notin Rows'
  BY OrgTreeAssumption DEF Rows, Stored, Pending
<1>1. CASE parent'[o] \notin S /\ o \in S
  BY <1>1
<1>2. CASE parent'[o] \in S \/ o \notin S
  <2>1. S \ {o} # {} /\ S \ {o} \in SUBSET Rows
    BY <1>0, <1>2
  <2>2. PICK x \in S \ {o} : parent[x] \notin S \ {o}
    BY <2>1 DEF TreeInv, Acyclic
  <2>3. parent[x] # o
    BY <2>1, ParentsAreRows
  <2> QED
    BY <2>1, <2>2, <2>3
<1> QED
  BY <1>1, <1>2

(* Rows that go, or stay under the parents they have, close none.          *)
LEMMA RowsKept ==
    ASSUME Acyclic, Rows' \subseteq Rows,
           \A x \in Rows' : parent'[x] = parent[x]
    PROVE  Acyclic'
<1> SUFFICES ASSUME NEW S \in SUBSET Rows', S # {}
             PROVE  \E x \in S : parent'[x] \notin S
  BY DEF Acyclic
<1>1. PICK x \in S : parent[x] \notin S
  BY DEF Acyclic
<1> QED
  BY <1>1

(* A move whose new parent is not beneath the one moved closes none.       *)
LEMMA MoveKeepsForest ==
    ASSUME TreeInv, NEW c \in Clients, Move(c)
    PROVE  Acyclic'
<1> DEFINE o == target[c]
           p == newParent[c]
<1>0. /\ o \in Stored /\ p \in Stored \cup {None}
      /\ parent' = [parent EXCEPT ![o] = p]
      /\ Rows' = Rows
      /\ parent \in [Orgs -> OrgOrNone] /\ o \in Orgs
  BY DEF Move, Current, Rows, Stored, Pending, TreeInv, TypeInv, TypeOK
<1> SUFFICES ASSUME NEW T \in SUBSET Rows, T # {}, \A x \in T : parent'[x] \in T
             PROVE  FALSE
  BY <1>0 DEF Acyclic
<1>1. PICK x \in T : parent[x] \notin T
  BY DEF TreeInv, Acyclic
<1>2. o \in T /\ p \in T
  BY <1>0, <1>1 DEF Rows, Stored, Pending
<1>3. p \in Stored
  BY <1>0, <1>2, OrgTreeAssumption DEF Rows, Stored, Pending
<1>4. PICK S \in SUBSET Stored : Closed(S) /\ p \in S /\ o \notin S
  BY <1>3 DEF Move, TreeInv, WalkInv, InSubtree
<1>5. T \cap S # {} /\ T \cap S \in SUBSET Rows
  BY <1>2, <1>4 DEF Rows
<1>6. PICK y \in T \cap S : parent[y] \notin T \cap S
  BY <1>5 DEF TreeInv, Acyclic
<1>7. parent'[y] = parent[y]
  BY <1>0, <1>4, <1>6 DEF Stored
<1>8. parent[y] \in T /\ parent[y] \in S \cup {None}
  BY <1>4, <1>6, <1>7 DEF Closed
<1>9. None \notin T
  BY OrgTreeAssumption DEF Rows, Stored, Pending
<1> QED
  BY <1>6, <1>8, <1>9

(* A walk's finding outlives every step that moves no stored row and       *)
(* removes only leaves.                                                    *)
LEMMA WalkKept ==
    ASSUME NEW n, NEW c, ~InSubtree(n, c),
           c \in Stored' => c \in Stored,
           \A x \in Stored \cap Stored' : parent'[x] = parent[x],
           \A x \in Stored \ Stored' : \A y \in Stored : parent[y] # x
    PROVE  ~InSubtree(n, c)'
<1> SUFFICES ASSUME c \in Stored'
             PROVE  \E S \in SUBSET Stored' : Closed(S)' /\ c \in S /\ n \notin S
  BY DEF InSubtree
<1>1. PICK S \in SUBSET Stored : Closed(S) /\ c \in S /\ n \notin S
  BY DEF InSubtree
<1> DEFINE R == S \cap Stored'
<1>2. R \in SUBSET Stored' /\ c \in R /\ n \notin R
  BY <1>1
<1>3. ASSUME NEW x \in R
      PROVE  parent'[x] \in R \cup {None}
  <2>1. parent'[x] = parent[x] /\ parent[x] \in S \cup {None}
    BY <1>1, <1>3 DEF Closed
  <2>2. parent[x] \in S => parent[x] \in Stored'
    BY <1>1, <1>3
  <2> QED
    BY <2>1, <2>2
<1> QED
  BY <1>2, <1>3 DEF Closed

-----------------------------------------------------------------------------
(* The steps of the requests and of the seeds, in groups: those that read, *)
(* and one lemma for each that writes.                                     *)

(* A request that ends leaves the others where they are.                   *)
LEMMA FinishOthers ==
    ASSUME TypeOK, NEW c \in Clients, Finish(c), NEW d \in Clients, pc'[d] # "idle"
    PROVE  /\ d # c /\ pc'[d] = pc[d] /\ target'[d] = target[d]
           /\ seen'[d] = seen[d] /\ newParent'[d] = newParent[d]
BY DEF TypeOK, Finish

LEMMA QuietRequest ==
    ASSUME TreeInv, TypeInv', NEW c \in Clients, UNCHANGED <<table, told, seeding>>,
           \/ \E o \in Orgs : Read(c, o)
           \/ Abort(c) \/ WalkRefused(c) \/ MoveRefused(c)
           \/ \E p \in OrgOrNone : TransferBegin(c, p)
           \/ TransferLock(c) \/ Walk(c)
    PROVE  TreeInv'
<1>0. TypeOK /\ TypeOK'
  BY DEF TreeInv, TypeInv
<1>1. LockInv'
  BY <1>0, OrgTreeAssumption
  DEF TreeInv, LockInv, TypeOK, Read, Abort, WalkRefused, MoveRefused, Finish,
      TransferBegin, TransferLock, Walk
<1>2. Stored' = Stored /\ Pending' = Pending /\ Issued' = Issued /\ Rows' = Rows
  BY DEF table, Stored, Pending, Issued, Rows
<1>3. \A n, d : InSubtree(n, d)' = InSubtree(n, d)
  BY <1>2 DEF InSubtree, Closed, table
<1>4. WalkInv'
  <2> SUFFICES ASSUME NEW d \in Clients, pc'[d] = "move"
               PROVE  ~InSubtree(target'[d], newParent'[d])
    BY <1>3 DEF WalkInv
  <2>1. CASE Abort(c) \/ WalkRefused(c) \/ MoveRefused(c)
    BY <1>0, <2>1, FinishOthers
    DEF TreeInv, WalkInv, Abort, WalkRefused, MoveRefused
  <2>2. CASE Walk(c)
    BY <1>0, <2>2 DEF TreeInv, WalkInv, TypeOK, Walk
  <2>3. CASE (\E o \in Orgs : Read(c, o)) \/ TransferLock(c)
             \/ \E p \in OrgOrNone : TransferBegin(c, p)
    BY <1>0, <2>3 DEF TreeInv, WalkInv, TypeOK, Read, TransferBegin, TransferLock
  <2> QED
    BY <2>1, <2>2, <2>3
<1>5. \A o \in Orgs : RowOf(o)' = RowOf(o)
  BY DEF RowOf, table
<1>6. SeenInv'
  <2> SUFFICES ASSUME NEW d \in Clients, pc'[d] # "idle"
               PROVE  /\ target'[d] \in Issued
                      /\ target'[d] \in Stored =>
                            /\ seen'[d].version <= version[target'[d]]
                            /\ seen'[d].version = version[target'[d]] =>
                                  seen'[d] = RowOf(target'[d])
                      /\ pc'[d] \in {"lock", "walk", "move"} =>
                            newParent'[d] \in Issued \cup {None}
    BY <1>2, <1>5 DEF SeenInv, table, Stored
  <2>1. CASE \E o \in Orgs : Read(c, o)
    <3>1. PICK o \in Orgs : Read(c, o)
      BY <2>1
    <3>2. CASE d = c
      <4>1. target'[d] = o /\ seen'[d] = RowOf(o) /\ pc'[d] = "holding" /\ o \in Stored
        BY <1>0, <3>1, <3>2 DEF Read, TypeOK
      <4>2. RowOf(o).version = version[o] /\ version[o] \in Nat
        BY <1>0 DEF RowOf, TypeOK
      <4> QED
        BY <4>1, <4>2 DEF Issued, Stored
    <3>3. CASE d # c
      BY <1>0, <3>1, <3>3 DEF Read, TypeOK, TreeInv, SeenInv
    <3> QED
      BY <3>2, <3>3
  <2>2. CASE Abort(c) \/ WalkRefused(c) \/ MoveRefused(c)
    BY <1>0, <2>2, FinishOthers DEF TreeInv, SeenInv, Abort, WalkRefused, MoveRefused
  <2>3. CASE \E p \in OrgOrNone : TransferBegin(c, p)
    BY <1>0, <2>3 DEF TreeInv, SeenInv, TypeOK, TransferBegin
  <2>4. CASE TransferLock(c) \/ Walk(c)
    BY <1>0, <2>4 DEF TreeInv, SeenInv, TypeOK, TransferLock, Walk
  <2> QED
    BY <2>1, <2>2, <2>3, <2>4
<1>7. SeedInv' /\ ParentsStand' /\ Acyclic'
  BY <1>2 DEF TreeInv, SeedInv, ParentsStand, Acyclic, Visible, table, seeding
<1>8. EventsReplay'
  BY <1>2, <1>5 DEF TreeInv, EventsReplay
<1> QED
  BY <1>1, <1>4, <1>6, <1>7, <1>8 DEF TreeInv

(* Steps that change no table and no request: a seed's, and stuttering.    *)
LEMMA QuietSeed ==
    ASSUME TreeInv, TypeInv', UNCHANGED <<table, told, lock, request, mine>>
    PROVE  TreeInv'
<1>1. Stored' = Stored /\ Pending' = Pending /\ Issued' = Issued /\ Rows' = Rows
  BY DEF table, Stored, Pending, Issued, Rows
<1>2. \A n, d : InSubtree(n, d)' = InSubtree(n, d)
  BY <1>1 DEF InSubtree, Closed, table
<1>3. \A o : RowOf(o)' = RowOf(o)
  BY DEF RowOf, table
<1>4. LockInv' /\ WalkInv' /\ SeenInv'
  BY <1>1, <1>2, <1>3 DEF TreeInv, LockInv, WalkInv, SeenInv, request, table
<1>5. SeedInv' /\ ParentsStand' /\ Acyclic' /\ EventsReplay'
  BY <1>1, <1>3
  DEF TreeInv, SeedInv, ParentsStand, Acyclic, EventsReplay, Visible, table
<1> QED
  BY <1>4, <1>5 DEF TreeInv

-----------------------------------------------------------------------------
(* What a step that writes owes the requests in progress.                  *)

(* The requests not over are as they were.                                 *)
Undisturbed ==
    \A d \in Clients : pc'[d] # "idle" =>
        /\ pc'[d] = pc[d] /\ target'[d] = target[d]
        /\ seen'[d] = seen[d] /\ newParent'[d] = newParent[d]

(* An id minted before keeps its row, or the row's version moves on.       *)
Advances ==
    /\ Issued \subseteq Issued'
    /\ \A x \in Issued : x \in Stored' =>
          /\ x \in Stored
          /\ RowOf(x)' = RowOf(x) \/ version'[x] = version[x] + 1

LEMMA SeenKept ==
    ASSUME TreeInv, TypeInv', Undisturbed, Advances
    PROVE  SeenInv'
<1> SUFFICES ASSUME NEW d \in Clients, pc'[d] # "idle"
             PROVE  /\ target'[d] \in Issued'
                    /\ target'[d] \in Stored' =>
                          /\ seen'[d].version <= version'[target'[d]]
                          /\ seen'[d].version = version'[target'[d]] =>
                                seen'[d] = [parent  |-> parent'[target'[d]],
                                            code    |-> code'[target'[d]],
                                            version |-> version'[target'[d]]]
                    /\ pc'[d] \in {"lock", "walk", "move"} =>
                          newParent'[d] \in Issued' \cup {None}
  BY DEF SeenInv, RowOf
<1>0. PICK x : x = target[d]
  OBVIOUS
<1>1. /\ pc'[d] = pc[d] /\ target[d] = x /\ target'[d] = x
      /\ seen'[d] = seen[d] /\ newParent'[d] = newParent[d]
  BY <1>0 DEF Undisturbed
<1>2. x \in Issued /\ x \in Issued'
  BY <1>1 DEF TreeInv, SeenInv, Advances
<1>3. pc'[d] \in {"lock", "walk", "move"} => newParent'[d] \in Issued' \cup {None}
  BY <1>1 DEF TreeInv, SeenInv, Advances
<1>4. ASSUME x \in Stored'
      PROVE  /\ seen[d].version <= version'[x]
             /\ seen[d].version = version'[x] =>
                   seen[d] = [parent  |-> parent'[x], code |-> code'[x],
                              version |-> version'[x]]
  <2>1. /\ x \in Stored
        /\ RowOf(x)' = RowOf(x) \/ version'[x] = version[x] + 1
    BY <1>2, <1>4 DEF Advances
  <2>2. /\ seen[d].version <= version[x]
        /\ seen[d].version = version[x] => seen[d] = RowOf(x)
    BY <1>1, <2>1 DEF TreeInv, SeenInv
  <2>3. version[x] \in Nat /\ seen[d].version \in Nat
    BY <1>1, <2>1 DEF TreeInv, TypeInv, TypeOK, RequestInv, Row, Stored
  <2>4. CASE RowOf(x)' = RowOf(x)
    BY <2>2, <2>4 DEF RowOf
  <2>5. CASE version'[x] = version[x] + 1
    BY <2>2, <2>3, <2>5
  <2> QED
    BY <2>1, <2>4, <2>5
<1> QED
  BY <1>1, <1>2, <1>3, <1>4

LEMMA WalksKept ==
    ASSUME TreeInv, Undisturbed, Advances,
           \A x \in Stored \cap Stored' : parent'[x] = parent[x],
           \A x \in Stored \ Stored' : \A y \in Stored : parent[y] # x
    PROVE  WalkInv'
<1> SUFFICES ASSUME NEW d \in Clients, NEW n, NEW m, pc'[d] = "move",
                    target'[d] = n, newParent'[d] = m
             PROVE  ~InSubtree(n, m)'
  BY DEF WalkInv
<1>1. pc[d] = "move" /\ target[d] = n /\ newParent[d] = m
  BY DEF Undisturbed
<1>2. ~InSubtree(n, m)
  BY <1>1 DEF TreeInv, WalkInv
<1>3. m \in Stored' => m \in Stored
  BY <1>1, OrgTreeAssumption DEF TreeInv, SeenInv, Advances, Stored
<1> QED
  BY <1>2, <1>3, WalkKept

LEMMA LockKept ==
    ASSUME TreeInv, NEW c \in Clients, Finish(c)
    PROVE  LockInv' /\ Undisturbed
BY FinishOthers, OrgTreeAssumption
DEF TreeInv, TypeInv, TypeOK, LockInv, Finish, Undisturbed

-----------------------------------------------------------------------------
(* The steps that write.                                                   *)

LEMMA CreateStep ==
    ASSUME TreeInv, TypeInv', NEW o \in Orgs, NEW p \in OrgOrNone, NEW k \in Codes,
           Create(o, p, k)
    PROVE  TreeInv'
<1>0. TypeOK
  BY DEF TreeInv, TypeInv
<1>1. /\ Stored' = Stored \cup {o} /\ Pending' = Pending /\ Issued' = Issued \cup {o}
      /\ o \notin Rows /\ o \notin Issued /\ Rows' = Rows \cup {o}
  BY <1>0 DEF Create, TypeOK, Stored, Pending, Issued, Rows, Unborn
<1>2. \A x \in Orgs : x # o => /\ parent'[x] = parent[x] /\ RowOf(x)' = RowOf(x)
                               /\ told'[x] = told[x]
  BY <1>0 DEF Create, Tell, TypeOK, RowOf
<1>3. parent'[o] = p /\ p \in Stored \cup {None} /\ told'[o] = RowOf(o)'
  BY <1>0 DEF Create, Tell, TypeOK, RowOf
<1>4. Undisturbed /\ LockInv'
  BY DEF Create, Undisturbed, request, TreeInv, LockInv
<1>5. Advances
  BY <1>1, <1>2 DEF Advances, Issued, Stored
<1>6. SeenInv'
  BY <1>4, <1>5, SeenKept
<1>7. WalkInv'
  BY <1>1, <1>2, <1>4, <1>5, WalksKept DEF Stored, Rows
<1>8. SeedInv'
  BY <1>1 DEF Create, TreeInv, SeedInv, seeding
<1>9. ParentsStand'
  <2>1. \A s \in Seeders : mine'[s] = mine[s] /\ mine[s] \subseteq Pending
    BY DEF Create, seeding, TreeInv, SeedInv
  <2> QED
    BY <1>1, <1>2, <1>3, <2>1
    DEF TreeInv, ParentsStand, Visible, Stored, Pending, Rows
<1>10. Acyclic'
  BY <1>1, <1>2, <1>3, OrgTreeAssumption, LeafAdded DEF Rows, Stored, Pending
<1>11. EventsReplay'
  BY <1>1, <1>2, <1>3 DEF TreeInv, EventsReplay
<1> QED
  BY <1>4, <1>6, <1>7, <1>8, <1>9, <1>10, <1>11 DEF TreeInv

LEMMA EditStep ==
    ASSUME TreeInv, TypeInv', NEW c \in Clients, NEW k \in Codes, Edit(c, k)
    PROVE  TreeInv'
<1>0. TypeOK
  BY DEF TreeInv, TypeInv
<1> PICK o \in Stored : o = target[c]
  BY DEF Edit, Current
<1>1. Stored' = Stored /\ Pending' = Pending /\ Issued' = Issued /\ Rows' = Rows
  BY DEF Edit, Stored, Pending, Issued, Rows
<1>2. /\ parent' = parent
      /\ \A x \in Orgs : x # o => RowOf(x)' = RowOf(x) /\ told'[x] = told[x]
  BY <1>0 DEF Edit, Tell, TypeOK, RowOf
<1>3. version'[o] = version[o] + 1 /\ told'[o] = RowOf(o)'
  BY <1>0 DEF Edit, Tell, TypeOK, RowOf, Stored
<1>4. Undisturbed /\ LockInv' /\ UNCHANGED seeding
  BY LockKept DEF Edit, Finish
<1>5. Advances
  BY <1>1, <1>2, <1>3 DEF Advances, Issued, Stored
<1>6. SeenInv'
  BY <1>4, <1>5, SeenKept
<1>7. WalkInv'
  BY <1>1, <1>2, <1>4, <1>5, WalksKept
<1>8. SeedInv' /\ ParentsStand' /\ Acyclic'
  BY <1>1, <1>2, <1>4
  DEF TreeInv, SeedInv, ParentsStand, Acyclic, Visible, seeding
<1>9. EventsReplay'
  BY <1>1, <1>2, <1>3 DEF TreeInv, EventsReplay
<1> QED
  BY <1>4, <1>6, <1>7, <1>8, <1>9 DEF TreeInv

LEMMA DeleteStep ==
    ASSUME TreeInv, TypeInv', NEW c \in Clients, Delete(c)
    PROVE  TreeInv'
<1>0. TypeOK
  BY DEF TreeInv, TypeInv
<1> PICK o \in Stored : o = target[c]
  BY DEF Delete, Current
<1>1. /\ Stored' = Stored \ {o} /\ Pending' = Pending /\ Issued' = Issued
      /\ Rows' = Rows \ {o} /\ o \notin Pending
  BY <1>0 DEF Delete, TypeOK, Stored, Pending, Issued, Rows
<1>2. \A x \in Orgs : x # o => /\ parent'[x] = parent[x] /\ RowOf(x)' = RowOf(x)
                               /\ told'[x] = told[x]
  BY <1>0 DEF Delete, TypeOK, RowOf
<1>3. told'[o] = None /\ \A x \in Rows : parent[x] # o
  BY <1>0 DEF Delete, TypeOK, Stored
<1>4. Undisturbed /\ LockInv' /\ UNCHANGED seeding
  BY LockKept DEF Delete, Finish
<1>5. Advances
  BY <1>1, <1>2 DEF Advances, Issued, Stored
<1>6. SeenInv'
  BY <1>4, <1>5, SeenKept
<1>7. WalkInv'
  BY <1>1, <1>2, <1>3, <1>4, <1>5, WalksKept DEF Stored, Rows
<1>8. SeedInv'
  BY <1>1, <1>4 DEF TreeInv, SeedInv, seeding
<1>9. ParentsStand'
  <2>1. \A s \in Seeders : mine'[s] = mine[s] /\ mine[s] \subseteq Pending
    BY <1>4 DEF seeding, TreeInv, SeedInv
  <2> QED
    BY <1>1, <1>2, <1>3, <2>1
    DEF TreeInv, ParentsStand, Visible, Stored, Pending, Rows
<1>10. Acyclic'
  BY <1>1, <1>2, RowsKept DEF TreeInv, Rows, Stored, Pending
<1>11. EventsReplay'
  BY <1>1, <1>2, <1>3 DEF TreeInv, EventsReplay, Stored
<1> QED
  BY <1>4, <1>6, <1>7, <1>8, <1>9, <1>10, <1>11 DEF TreeInv

LEMMA MoveStep ==
    ASSUME TreeInv, TypeInv', NEW c \in Clients, Move(c)
    PROVE  TreeInv'
<1>0. TypeOK
  BY DEF TreeInv, TypeInv
<1> PICK o \in Stored : o = target[c]
  BY DEF Move, Current
<1>1. Stored' = Stored /\ Pending' = Pending /\ Issued' = Issued /\ Rows' = Rows
  BY DEF Move, Stored, Pending, Issued, Rows
<1>2. \A x \in Orgs : x # o => /\ parent'[x] = parent[x] /\ RowOf(x)' = RowOf(x)
                               /\ told'[x] = told[x]
  BY <1>0 DEF Move, Tell, TypeOK, RowOf
<1>3. /\ version'[o] = version[o] + 1 /\ told'[o] = RowOf(o)'
      /\ parent'[o] \in Stored \cup {None}
  BY <1>0 DEF Move, Tell, TypeOK, RowOf, Stored
<1>4. Undisturbed /\ LockInv' /\ UNCHANGED seeding
  BY LockKept DEF Move, Finish
<1>5. Advances
  BY <1>1, <1>2, <1>3 DEF Advances, Issued, Stored
<1>6. SeenInv'
  BY <1>4, <1>5, SeenKept
<1>7. WalkInv'
  <2>1. lock = c
    BY DEF Move, TreeInv, LockInv
  <2>2. \A d \in Clients : pc'[d] # "move"
    BY <1>0, <2>1, FinishOthers DEF Move, TreeInv, LockInv
  <2> QED
    BY <2>2 DEF WalkInv
<1>8. SeedInv'
  BY <1>1, <1>4 DEF TreeInv, SeedInv, seeding
<1>9. ParentsStand'
  <2>1. \A s \in Seeders : mine'[s] = mine[s] /\ mine[s] \subseteq Pending
    BY <1>4 DEF seeding, TreeInv, SeedInv
  <2> QED
    BY <1>1, <1>2, <1>3, <2>1
    DEF TreeInv, ParentsStand, Visible, Stored, Pending
<1>10. Acyclic'
  BY MoveKeepsForest
<1>11. EventsReplay'
  BY <1>1, <1>2, <1>3 DEF TreeInv, EventsReplay
<1> QED
  BY <1>4, <1>6, <1>7, <1>8, <1>9, <1>10, <1>11 DEF TreeInv

LEMMA SeedInsertStep ==
    ASSUME TreeInv, TypeInv', NEW s \in Seeders, NEW o \in Orgs, SeedInsert(s, o)
    PROVE  TreeInv'
<1>0. TypeOK
  BY DEF TreeInv, TypeInv
<1>1. /\ Stored' = Stored /\ Pending' = Pending \cup {o} /\ Issued' = Issued
      /\ o \notin Rows /\ o \notin Issued /\ Rows' = Rows \cup {o}
  BY <1>0 DEF SeedInsert, TypeOK, Stored, Pending, Issued, Rows, Unborn
<1>2. \A x \in Orgs : x # o => parent'[x] = parent[x] /\ RowOf(x)' = RowOf(x)
  BY <1>0 DEF SeedInsert, TypeOK, RowOf
<1>3. /\ parent'[o] \in Visible(s) \cup {None}
      /\ mine'[s] = mine[s] \cup {o}
      /\ \A t \in Seeders : t # s => mine'[t] = mine[t]
  BY <1>0 DEF SeedInsert, TypeOK
<1>4. Undisturbed /\ LockInv'
  BY DEF SeedInsert, Undisturbed, request, TreeInv, LockInv
<1>5. Advances
  BY <1>1, <1>2 DEF Advances, Issued, Stored
<1>6. SeenInv'
  BY <1>4, <1>5, SeenKept
<1>7. WalkInv'
  BY <1>1, <1>2, <1>4, <1>5, WalksKept DEF Stored, Rows
<1>8. SeedInv'
  <2>1. \A t \in Seeders : mine[t] \subseteq Pending /\ o \notin mine[t]
    BY <1>1 DEF TreeInv, SeedInv, Rows
  <2> QED
    BY <1>1, <1>3, <2>1 DEF TreeInv, SeedInv
<1>9. ParentsStand'
  <2>1. \A t \in Seeders : mine[t] \subseteq Pending
    BY DEF TreeInv, SeedInv
  <2> QED
    BY <1>1, <1>2, <1>3, <2>1
    DEF TreeInv, ParentsStand, Visible, Stored, Pending, Rows
<1>10. Acyclic'
  <2>1. parent'[o] \in Rows \cup {None}
    BY <1>3 DEF TreeInv, SeedInv, Visible, Rows
  <2> QED
    BY <1>1, <1>2, <2>1, OrgTreeAssumption, LeafAdded DEF Rows, Stored, Pending
<1>11. EventsReplay'
  BY <1>1, <1>2 DEF SeedInsert, TreeInv, EventsReplay, Rows
<1> QED
  BY <1>4, <1>6, <1>7, <1>8, <1>9, <1>10, <1>11 DEF TreeInv

LEMMA SeedCommitStep ==
    ASSUME TreeInv, TypeInv', NEW s \in Seeders, SeedCommit(s)
    PROVE  TreeInv'
<1>0. TypeOK /\ mine[s] \subseteq Pending
  BY DEF TreeInv, TypeInv, SeedInv
<1>1. /\ Stored' = Stored \cup mine[s] /\ Pending' = Pending \ mine[s]
      /\ Rows' = Rows /\ Issued' = Issued \cup mine[s]
  BY <1>0 DEF SeedCommit, TypeOK, Stored, Pending, Issued, Rows
<1>2. parent' = parent /\ \A x : RowOf(x)' = RowOf(x)
  BY DEF SeedCommit, RowOf
<1>3. mine'[s] = {} /\ \A t \in Seeders : t # s => mine'[t] = mine[t]
  BY <1>0 DEF SeedCommit, TypeOK
<1>4. Undisturbed /\ LockInv'
  BY DEF SeedCommit, Undisturbed, request, TreeInv, LockInv
<1>5. Advances
  BY <1>0, <1>1, <1>2 DEF Advances, Issued, Stored, Pending
<1>6. SeenInv'
  BY <1>4, <1>5, SeenKept
<1>7. WalkInv'
  BY <1>1, <1>2, <1>4, <1>5, WalksKept
<1>8. SeedInv'
  BY <1>1, <1>3 DEF TreeInv, SeedInv
<1>9. ParentsStand'
  BY <1>1, <1>2, <1>3 DEF TreeInv, ParentsStand, Visible
<1>10. Acyclic'
  BY <1>1, <1>2, RowsKept DEF TreeInv
<1>11. EventsReplay'
  <2>1. \A x \in Orgs : told'[x] = IF x \in mine[s] THEN RowOf(x) ELSE told[x]
    BY DEF SeedCommit
  <2> QED
    BY <1>1, <1>2, <2>1 DEF TreeInv, EventsReplay
<1> QED
  BY <1>4, <1>6, <1>7, <1>8, <1>9, <1>10, <1>11 DEF TreeInv

LEMMA SeedFailStep ==
    ASSUME TreeInv, TypeInv', NEW s \in Seeders, SeedFail(s)
    PROVE  TreeInv'
<1>0. TypeOK /\ mine[s] \subseteq Pending
  BY DEF TreeInv, TypeInv, SeedInv
<1>1. /\ Stored' = Stored /\ Pending' = Pending \ mine[s]
      /\ Rows' = Rows \ mine[s] /\ Issued' = Issued
  BY <1>0 DEF SeedFail, TypeOK, Stored, Pending, Issued, Rows
<1>2. \A x \in Orgs \ mine[s] : parent'[x] = parent[x] /\ RowOf(x)' = RowOf(x)
  BY DEF SeedFail, RowOf
<1>3. mine'[s] = {} /\ \A t \in Seeders : t # s => mine'[t] = mine[t]
  BY <1>0 DEF SeedFail, TypeOK
<1>4. Undisturbed /\ LockInv'
  BY DEF SeedFail, Undisturbed, request, TreeInv, LockInv
<1>5. Advances
  BY <1>0, <1>1, <1>2 DEF Advances, Issued, Stored, Pending
<1>6. SeenInv'
  BY <1>4, <1>5, SeenKept
<1>7. WalkInv'
  BY <1>0, <1>1, <1>2, <1>4, <1>5, WalksKept DEF Stored, Pending
<1>8. SeedInv'
  BY <1>1, <1>3 DEF TreeInv, SeedInv
<1>9. ParentsStand'
  BY <1>0, <1>1, <1>2, <1>3
  DEF TreeInv, ParentsStand, Visible, SeedInv, Stored, Pending
<1>10. Acyclic'
  BY <1>1, <1>2, RowsKept DEF TreeInv, Rows, Stored, Pending
<1>11. EventsReplay'
  BY <1>0, <1>1, <1>2 DEF SeedFail, TreeInv, EventsReplay, Stored, Pending
<1> QED
  BY <1>4, <1>6, <1>7, <1>8, <1>9, <1>10, <1>11 DEF TreeInv

-----------------------------------------------------------------------------
LEMMA TreeStep ==
    ASSUME TreeInv, [Next]_vars
    PROVE  TreeInv'
<1>0. TypeInv'
  BY TypeStep DEF TreeInv
<1>1. ASSUME NEW o \in Orgs, NEW p \in OrgOrNone, NEW k \in Codes, Create(o, p, k)
      PROVE  TreeInv'
  BY <1>0, <1>1, CreateStep
<1>2. ASSUME NEW c \in Clients, ClientStep(c)
      PROVE  TreeInv'
  <2>1. CASE \E k \in Codes : Edit(c, k)
    BY <1>0, <2>1, EditStep
  <2>2. CASE Delete(c)
    BY <1>0, <2>2, DeleteStep
  <2>3. CASE Move(c)
    BY <1>0, <2>3, MoveStep
  <2>4. CASE \/ \E o \in Orgs : Read(c, o)
             \/ Abort(c) \/ WalkRefused(c) \/ MoveRefused(c)
             \/ \E p \in OrgOrNone : TransferBegin(c, p)
             \/ TransferLock(c) \/ Walk(c)
    <3>1. UNCHANGED <<table, told, seeding>>
      BY <2>4
      DEF Read, Abort, WalkRefused, MoveRefused, Finish, TransferBegin,
          TransferLock, Walk
    <3> QED
      BY <1>0, <2>4, <3>1, QuietRequest
  <2> QED
    BY <1>2, <2>1, <2>2, <2>3, <2>4 DEF ClientStep
<1>3. ASSUME NEW s \in Seeders, SeedStep(s)
      PROVE  TreeInv'
  <2>1. CASE \E o \in Orgs : SeedInsert(s, o)
    BY <1>0, <2>1, SeedInsertStep
  <2>2. CASE SeedCommit(s)
    BY <1>0, <2>2, SeedCommitStep
  <2>3. CASE SeedFail(s)
    BY <1>0, <2>3, SeedFailStep
  <2>4. CASE SeedBegin(s) \/ SeedConflict(s) \/ \E o \in Orgs : SeedFind(s, o)
    BY <1>0, <2>4, QuietSeed DEF SeedBegin, SeedConflict, SeedFind
  <2> QED
    BY <1>3, <2>1, <2>2, <2>3, <2>4 DEF SeedStep
<1>4. CASE UNCHANGED vars
  BY <1>0, <1>4, QuietSeed DEF vars, seeding
<1> QED
  BY <1>1, <1>2, <1>3, <1>4 DEF Next

LEMMA TreeInit ==
    ASSUME Init
    PROVE  TreeInv
<1>1. TypeInv
  BY TypeInit
<1>2. Stored = {} /\ Pending = {} /\ Rows = {}
  BY DEF Init, Stored, Pending, Rows
<1> QED
  BY <1>1, <1>2, OrgTreeAssumption
  DEF Init, TreeInv, LockInv, WalkInv, SeenInv, SeedInv, ParentsStand, Acyclic,
      EventsReplay

LEMMA TreeInvariant == Spec => []TreeInv
<1>1. TreeInv /\ [Next]_vars => TreeInv'
  BY TreeStep
<1> QED
  BY <1>1, TreeInit, PTL DEF Spec

(* Every committed organization hangs from a committed one or is a root,   *)
(* and none lies beneath itself, whatever requests and seeds interleave.   *)
THEOREM ForestStands == Spec => []Forest
<1>1. TreeInv => Forest
  BY DEF TreeInv, Forest
<1> QED
  BY <1>1, TreeInvariant, PTL

(* The committed events, applied in commit order, give the table.          *)
THEOREM EventsTellTheTree == Spec => []EventsReplay
<1>1. TreeInv => EventsReplay
  BY DEF TreeInv
<1> QED
  BY <1>1, TreeInvariant, PTL

(* A stored organization changes only by a command whose client had read   *)
(* exactly what it overwrites.                                             *)
THEOREM UpdatesKept == Spec => NoLostUpdate
<1> DEFINE Kept == \A o \in Stored :
               RowOf(o)' # RowOf(o) \/ state'[o] # "stored" =>
                   \E c \in Clients : target[c] = o /\ seen[c] = RowOf(o)
<1>1. TreeInv /\ [Next]_vars => [Kept]_vars
  <2> SUFFICES ASSUME TreeInv, Next, NEW o \in Stored,
                      RowOf(o)' # RowOf(o) \/ state'[o] # "stored"
               PROVE  \E c \in Clients : target[c] = o /\ seen[c] = RowOf(o)
    OBVIOUS
  <2>0. TypeOK /\ o \in Orgs /\ state[o] = "stored" /\ o \notin Pending
    BY DEF TreeInv, TypeInv, Stored, Pending
  <2>1. ASSUME NEW c \in Clients,
               (\E k \in Codes : Edit(c, k)) \/ Delete(c) \/ Move(c)
        PROVE  \E d \in Clients : target[d] = o /\ seen[d] = RowOf(o)
    <3>1. target[c] = o
      BY <2>0, <2>1 DEF Edit, Delete, Move, RowOf, TypeOK
    <3>2. Current(c) /\ pc[c] # "idle"
      BY <2>1 DEF Edit, Delete, Move
    <3>3. seen[c] = RowOf(o)
      BY <3>1, <3>2 DEF Current, TreeInv, SeenInv
    <3> QED
      BY <3>1, <3>3
  <2>2. ASSUME NEW s \in Seeders, SeedStep(s)
        PROVE  FALSE
    <3>1. o \notin mine[s]
      BY <2>0 DEF TreeInv, SeedInv
    <3> QED
      BY <2>0, <2>2, <3>1
      DEF SeedStep, SeedBegin, SeedInsert, SeedConflict, SeedFind, SeedCommit,
          SeedFail, RowOf, table, TypeOK, Unborn
  <2>3. ASSUME NEW x \in Orgs, NEW p \in OrgOrNone, NEW k \in Codes, Create(x, p, k)
        PROVE  FALSE
    BY <2>0, <2>3 DEF Create, RowOf, TypeOK, Unborn
  <2>4. ASSUME NEW c \in Clients, UNCHANGED table
        PROVE  FALSE
    BY <2>0, <2>4 DEF table, RowOf
  <2> QED
    BY <2>1, <2>2, <2>3, <2>4
    DEF Next, ClientStep, Read, Abort, TransferBegin, TransferLock, Walk,
        WalkRefused, MoveRefused
<1>2. Spec => [][Kept]_vars
  BY <1>1, TreeInvariant, PTL DEF Spec
<1> QED
  BY <1>2 DEF NoLostUpdate

-----------------------------------------------------------------------------
(* Paths.  A path names one organization because siblings' codes differ,   *)
(* uncommitted siblings' too, and because every lineage ends at a root.    *)
KeysInv ==
    \A x, y \in Rows : parent[x] = parent[y] /\ code[x] = code[y] => x = y

(* A row that is written beside others whose key is not its own.           *)
LEMMA KeyWritten ==
    ASSUME KeysInv, NEW o \in Orgs, NEW p, NEW k,
           Rows' \subseteq Rows \cup {o},
           parent'[o] = p, code'[o] = k,
           \A x \in Rows \ {o} : parent'[x] = parent[x] /\ code'[x] = code[x],
           ~Taken(o, p, k), ~KeyPending(p, k)
    PROVE  KeysInv'
<1>1. \A x \in Rows \ {o} : ~(parent[x] = p /\ code[x] = k)
  BY DEF Taken, KeyPending, Rows
<1> QED
  BY <1>1 DEF KeysInv

(* Rows that go, or keep their keys.                                       *)
LEMMA KeysKept ==
    ASSUME KeysInv, Rows' \subseteq Rows,
           \A x \in Rows' : parent'[x] = parent[x] /\ code'[x] = code[x]
    PROVE  KeysInv'
BY DEF KeysInv

LEMMA KeysStep ==
    ASSUME TreeInv, KeysInv, [Next]_vars
    PROVE  KeysInv'
<1>0. TypeOK
  BY DEF TreeInv, TypeInv
<1>1. ASSUME UNCHANGED table
      PROVE  KeysInv'
  <2>1. Rows' = Rows
    BY <1>1 DEF table, Rows, Stored, Pending
  <2> QED
    BY <1>1, <2>1, KeysKept DEF table
<1>2. ASSUME NEW o \in Orgs, NEW p \in OrgOrNone, NEW k \in Codes, Create(o, p, k)
      PROVE  KeysInv'
  <2>1. Rows' \subseteq Rows \cup {o} /\ parent'[o] = p /\ code'[o] = k
    BY <1>0, <1>2 DEF Create, TypeOK, Rows, Stored, Pending
  <2>2. \A x \in Rows \ {o} : parent'[x] = parent[x] /\ code'[x] = code[x]
    BY <1>0, <1>2 DEF Create, TypeOK, Rows, Stored, Pending
  <2> QED
    BY <1>2, <2>1, <2>2, KeyWritten DEF Create
<1>3. ASSUME NEW c \in Clients, ClientStep(c)
      PROVE  KeysInv'
  <2>1. ASSUME NEW k \in Codes, Edit(c, k)
        PROVE  KeysInv'
    <3> PICK o \in Stored : o = target[c]
      BY <2>1 DEF Edit, Current
    <3>1. Rows' = Rows /\ parent' = parent /\ code' = [code EXCEPT ![o] = k]
      BY <2>1 DEF Edit, Rows, Stored, Pending
    <3>2. ~Taken(o, parent[o], k) /\ ~KeyPending(parent[o], k) /\ o \in Orgs
      BY <2>1 DEF Edit, Stored
    <3>3. \A x \in Rows \ {o} : parent'[x] = parent[x] /\ code'[x] = code[x]
      BY <1>0, <3>1, <3>2 DEF TypeOK, Rows, Stored, Pending
    <3>4. code'[o] = k /\ parent'[o] = parent[o]
      BY <1>0, <3>1, <3>2 DEF TypeOK
    <3> QED
      BY <3>1, <3>2, <3>3, <3>4, KeyWritten
  <2>2. CASE Move(c)
    <3> PICK o \in Stored : o = target[c]
      BY <2>2 DEF Move, Current
    <3> PICK p : p = newParent[c]
      OBVIOUS
    <3>1. Rows' = Rows /\ code' = code /\ parent' = [parent EXCEPT ![o] = p]
      BY <2>2 DEF Move, Rows, Stored, Pending
    <3>2. ~Taken(o, p, code[o]) /\ ~KeyPending(p, code[o]) /\ o \in Orgs
      BY <2>2 DEF Move, Stored
    <3>3. \A x \in Rows \ {o} : parent'[x] = parent[x] /\ code'[x] = code[x]
      BY <1>0, <3>1, <3>2 DEF TypeOK, Rows, Stored, Pending
    <3>4. parent'[o] = p /\ code'[o] = code[o]
      BY <1>0, <3>1, <3>2 DEF TypeOK
    <3> QED
      BY <3>1, <3>2, <3>3, <3>4, KeyWritten
  <2>3. CASE Delete(c)
    <3> PICK o \in Stored : o = target[c]
      BY <2>3 DEF Delete, Current
    <3>1. /\ Rows' = Rows \ {o} /\ o \in Orgs
          /\ parent' = [parent EXCEPT ![o] = None]
          /\ code' = [code EXCEPT ![o] = None]
      BY <1>0, <2>3 DEF Delete, TypeOK, Rows, Stored, Pending
    <3>2. \A x \in Rows' : parent'[x] = parent[x] /\ code'[x] = code[x]
      BY <1>0, <3>1 DEF TypeOK, Rows, Stored, Pending
    <3> QED
      BY <3>1, <3>2, KeysKept
  <2> QED
    BY <1>1, <1>3, <2>1, <2>2, <2>3
    DEF ClientStep, Read, Abort, TransferBegin, TransferLock, Walk, WalkRefused,
        MoveRefused
<1>4. ASSUME NEW s \in Seeders, SeedStep(s)
      PROVE  KeysInv'
  <2>0. mine[s] \subseteq Pending
    BY DEF TreeInv, SeedInv
  <2>1. ASSUME NEW o \in Orgs, SeedInsert(s, o)
        PROVE  KeysInv'
    <3> PICK p, k : p = SeedParent(s) /\ k = Line(s).code
      OBVIOUS
    <3>1. Rows' \subseteq Rows \cup {o} /\ parent'[o] = p /\ code'[o] = k
      BY <1>0, <2>1 DEF SeedInsert, TypeOK, Rows, Stored, Pending
    <3>2. \A x \in Rows \ {o} : parent'[x] = parent[x] /\ code'[x] = code[x]
      BY <1>0, <2>1 DEF SeedInsert, TypeOK, Rows, Stored, Pending
    <3>3. ~Taken(o, p, k) /\ ~KeyPending(p, k)
      BY <2>1 DEF SeedInsert
    <3> QED
      BY <3>1, <3>2, <3>3, KeyWritten
  <2>2. CASE SeedCommit(s)
    <3>1. Rows' = Rows /\ parent' = parent /\ code' = code
      BY <1>0, <2>0, <2>2 DEF SeedCommit, TypeOK, Rows, Stored, Pending
    <3> QED
      BY <3>1, KeysKept
  <2>3. CASE SeedFail(s)
    <3>1. Rows' = Rows \ mine[s]
      BY <1>0, <2>0, <2>3 DEF SeedFail, TypeOK, Rows, Stored, Pending
    <3>2. \A x \in Rows' : parent'[x] = parent[x] /\ code'[x] = code[x]
      BY <2>3, <3>1 DEF SeedFail, Rows, Stored, Pending
    <3> QED
      BY <3>1, <3>2, KeysKept
  <2>4. CASE SeedBegin(s) \/ SeedConflict(s) \/ \E o \in Orgs : SeedFind(s, o)
    BY <1>1, <2>4 DEF SeedBegin, SeedConflict, SeedFind
  <2> QED
    BY <1>4, <2>1, <2>2, <2>3, <2>4 DEF SeedStep
<1>5. CASE UNCHANGED vars
  BY <1>1, <1>5 DEF vars
<1> QED
  BY <1>2, <1>3, <1>4, <1>5 DEF Next

(* Two rows with one path would be siblings with one code, or their        *)
(* parents two rows with one path, and so on to two roots.                 *)
LEMMA PathsFollow ==
    ASSUME TreeInv, KeysInv
    PROVE  PathsDistinct
<1> SUFFICES ASSUME NEW x \in Stored, NEW y \in Stored, SamePath(x, y), x # y
             PROVE  FALSE
  BY DEF PathsDistinct
<1>1. PICK R \in SUBSET (Stored \X Stored) :
          /\ <<x, y>> \in R
          /\ \A a, b \in Stored : <<a, b>> \in R =>
                /\ code[a] = code[b]
                /\ \/ parent[a] = None /\ parent[b] = None
                   \/ <<parent[a], parent[b]>> \in R
  BY DEF SamePath
<1> DEFINE S == {a \in Stored : \E b \in Stored : a # b /\ <<a, b>> \in R}
<1>2. S # {} /\ S \in SUBSET Rows
  BY <1>1 DEF Rows
<1>3. PICK a \in S : parent[a] \notin S
  <2> HIDE DEF S
  <2> QED
    BY <1>2 DEF TreeInv, Acyclic
<1>4. PICK b \in Stored : a # b /\ <<a, b>> \in R
  BY <1>3
<1>5. parent[a] # parent[b]
  BY <1>1, <1>3, <1>4 DEF KeysInv, Rows
<1>6. <<parent[a], parent[b]>> \in R
  BY <1>1, <1>3, <1>4, <1>5
<1>7. parent[a] \in Stored /\ parent[b] \in Stored
  BY <1>6
<1> QED
  BY <1>3, <1>5, <1>6, <1>7

(* No two stored organizations have one path, so what FindByPath reads is  *)
(* the one there is.                                                       *)
THEOREM PathsName == Spec => []PathsDistinct
<1>1. Init => KeysInv
  BY DEF Init, KeysInv, Rows, Stored, Pending
<1>2. TreeInv /\ KeysInv /\ [Next]_vars => KeysInv'
  BY KeysStep
<1>3. TreeInv /\ KeysInv => PathsDistinct
  BY PathsFollow
<1> QED
  BY <1>1, <1>2, <1>3, TreeInvariant, PTL DEF Spec

-----------------------------------------------------------------------------
(* The forest, which the tree implements: in particular, at the moment a   *)
(* transfer moves an organization its new parent is not beneath it,        *)
(* although the walk that found so was an earlier step.                    *)

(* The mapping of OrgTree's INSTANCE: each organization's parent, and the  *)
(* organizations removed.                                                  *)
Up   == [o \in Orgs |-> IF o \in Stored THEN parent[o] ELSE None]
Gone == {o \in Orgs : state[o] = "removed"}

(* A step that leaves the committed rows where they are is a stutter.      *)
LEMMA ForestStutters ==
    ASSUME Stored' = Stored, Gone' = Gone, \A o \in Stored : parent'[o] = parent[o]
    PROVE  UNCHANGED TheForest!forestVars
BY DEF TheForest!forestVars, Gone, Stored

(* Rows that become visible together are grafted.                          *)
LEMMA ForestGrafts ==
    ASSUME TreeInv, TreeInv', NEW New \in SUBSET Orgs, New \cap Issued = {},
           Stored' = Stored \cup New, Gone' = Gone,
           \A o \in Stored : parent'[o] = parent[o]
    PROVE  TheForest!Graft
<1>1. Up' = [o \in Orgs |-> IF o \in Stored' THEN parent'[o] ELSE None]
  BY DEF Up
<1>2. Stored \subseteq Stored' /\ Stored' \cap Gone = {} /\ Stored' \subseteq Orgs
  BY DEF Stored, Gone, Issued
<1>3. \A o \in Stored \cup (Orgs \ Stored') : Up'[o] = Up[o]
  BY <1>1, <1>2 DEF Up
<1>4. \A o \in Stored' \ Stored : Up'[o] \in Stored' \cup {None}
  BY <1>1, <1>2 DEF TreeInv, ParentsStand
<1>5. ASSUME NEW S \in SUBSET (Stored' \ Stored), S # {}
      PROVE  \E x \in S : Up'[x] \notin S
  <2>1. PICK x \in S : parent'[x] \notin S
    BY <1>5 DEF TreeInv, Acyclic, Rows
  <2> QED
    BY <1>1, <1>2, <2>1
<1> QED
  BY <1>2, <1>3, <1>4, <1>5 DEF TheForest!Graft, Up, Gone

LEMMA ForestMoves ==
    ASSUME TreeInv, NEW c \in Clients, Move(c)
    PROVE  \E o \in Orgs, p \in Orgs \cup {None} : TheForest!Move(o, p)
<1>0. TypeOK
  BY DEF TreeInv, TypeInv
<1> PICK o \in Stored : o = target[c]
  BY DEF Move, Current
<1> PICK p \in Stored \cup {None} : p = newParent[c]
  BY DEF Move
<1>1. /\ Stored' = Stored /\ Gone' = Gone /\ o \in Orgs
      /\ parent' = [parent EXCEPT ![o] = p]
  BY DEF Move, Stored, Gone
<1>2. Up' = [Up EXCEPT ![o] = p]
  BY <1>0, <1>1 DEF Up, TypeOK
<1>3. ASSUME p \in Stored
      PROVE  ~TheForest!Above(o, p)
  <2>1. PICK S \in SUBSET Stored : Closed(S) /\ p \in S /\ o \notin S
    BY <1>3 DEF Move, TreeInv, WalkInv, InSubtree
  <2>2. TheForest!ClosedUp(S)
    BY <2>1 DEF TheForest!ClosedUp, Closed, Stored
  <2> QED
    BY <2>1, <2>2 DEF TheForest!Above
<1>4. TheForest!Move(o, p)
  BY <1>1, <1>2, <1>3 DEF TheForest!Move, Up, Gone
<1> QED
  BY <1>1, <1>4 DEF Stored

LEMMA ForestRemoves ==
    ASSUME TreeInv, NEW c \in Clients, Delete(c)
    PROVE  \E o \in Orgs : TheForest!Remove(o)
<1>0. TypeOK
  BY DEF TreeInv, TypeInv
<1> PICK o \in Stored : o = target[c]
  BY DEF Delete, Current
<1>1. /\ Stored' = Stored \ {o} /\ Gone' = Gone \cup {o} /\ o \in Orgs
      /\ parent' = [parent EXCEPT ![o] = None]
      /\ \A x \in Stored : parent[x] # o
  BY <1>0 DEF Delete, Stored, Gone, Rows, TypeOK
<1>2. Up' = [Up EXCEPT ![o] = None]
  BY <1>0, <1>1 DEF Up, TypeOK, Stored
<1>3. \A x \in Stored : Up[x] # o
  BY <1>1 DEF Up, Stored
<1>4. TheForest!Remove(o)
  BY <1>1, <1>2, <1>3 DEF TheForest!Remove, Up, Gone
<1> QED
  BY <1>1, <1>4

LEMMA ForestStep ==
    ASSUME TreeInv, [Next]_vars
    PROVE  [TheForest!ForestNext]_(TheForest!forestVars)
<1>0. TypeOK /\ TreeInv'
  BY TreeStep DEF TreeInv, TypeInv
<1>1. ASSUME UNCHANGED <<state, parent>>
      PROVE  UNCHANGED TheForest!forestVars
  BY <1>1, ForestStutters DEF Stored, Gone
<1>2. ASSUME NEW o \in Orgs, NEW p \in OrgOrNone, NEW k \in Codes, Create(o, p, k)
      PROVE  TheForest!Graft
  <2>1. /\ Stored' = Stored \cup {o} /\ Gone' = Gone /\ {o} \cap Issued = {}
        /\ \A x \in Stored : parent'[x] = parent[x]
    BY <1>0, <1>2 DEF Create, Stored, Gone, Issued, Unborn, TypeOK
  <2> QED
    BY <1>0, <2>1, ForestGrafts
<1>3. ASSUME NEW c \in Clients, ClientStep(c)
      PROVE  [TheForest!ForestNext]_(TheForest!forestVars)
  <2>1. CASE Move(c)
    BY <2>1, ForestMoves DEF TheForest!ForestNext
  <2>2. CASE Delete(c)
    BY <2>2, ForestRemoves DEF TheForest!ForestNext
  <2>3. CASE ~Move(c) /\ ~Delete(c)
    BY <1>1, <1>3, <2>3
    DEF ClientStep, Read, Edit, Abort, TransferBegin, TransferLock, Walk,
        WalkRefused, MoveRefused, table
  <2> QED
    BY <2>1, <2>2, <2>3
<1>4. ASSUME NEW s \in Seeders, SeedStep(s)
      PROVE  [TheForest!ForestNext]_(TheForest!forestVars)
  <2>0. mine[s] \subseteq Pending
    BY DEF TreeInv, SeedInv
  <2>1. ASSUME NEW o \in Orgs, SeedInsert(s, o)
        PROVE  UNCHANGED TheForest!forestVars
    <3>1. /\ Stored' = Stored /\ Gone' = Gone
          /\ \A x \in Stored : parent'[x] = parent[x]
      BY <1>0, <2>1 DEF SeedInsert, Stored, Gone, Unborn, TypeOK
    <3> QED
      BY <3>1, ForestStutters
  <2>2. CASE SeedCommit(s)
    <3>1. /\ Stored' = Stored \cup mine[s] /\ Gone' = Gone
          /\ mine[s] \cap Issued = {} /\ parent' = parent /\ mine[s] \in SUBSET Orgs
      BY <1>0, <2>0, <2>2 DEF SeedCommit, Stored, Gone, Issued, Pending, TypeOK
    <3> QED
      BY <1>0, <3>1, ForestGrafts DEF TheForest!ForestNext
  <2>3. CASE SeedFail(s)
    <3>1. /\ Stored' = Stored /\ Gone' = Gone
          /\ \A x \in Stored : parent'[x] = parent[x]
      BY <1>0, <2>0, <2>3 DEF SeedFail, Stored, Gone, Pending, TypeOK
    <3> QED
      BY <3>1, ForestStutters
  <2>4. CASE SeedBegin(s) \/ SeedConflict(s) \/ \E o \in Orgs : SeedFind(s, o)
    BY <1>1, <2>4 DEF SeedBegin, SeedConflict, SeedFind, table
  <2> QED
    BY <1>4, <2>1, <2>2, <2>3, <2>4 DEF SeedStep
<1>5. CASE UNCHANGED vars
  BY <1>1, <1>5 DEF vars, table
<1> QED
  BY <1>2, <1>3, <1>4, <1>5 DEF Next, TheForest!ForestNext

LEMMA ForestStarts ==
    ASSUME Init
    PROVE  TheForest!ForestInit
<1>1. Stored = {}
  BY DEF Init, Stored
<1> QED
  BY <1>1 DEF Init, TheForest!ForestInit

(* Requests and seeds, with their locks, versions, uncommitted rows and    *)
(* refusals, change the tree only as the abstract forest does.             *)
THEOREM TreeImplements == Spec => ImplementsForest
<1>1. TreeInv /\ [Next]_vars => [TheForest!ForestNext]_(TheForest!forestVars)
  BY ForestStep
<1> QED
  BY <1>1, ForestStarts, TreeInvariant, PTL
  DEF Spec, ImplementsForest, TheForest!ForestSpec
=============================================================================
