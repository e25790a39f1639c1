----------------------------- MODULE OrgTreeProofs -----------------------------
(***************************************************************************)
(* The organization tree's type correctness, for any organizations, codes, *)
(* clients, seed runs and state file.  A version is bounded because a      *)
(* guarded update runs at the version its client read, which the bound's   *)
(* guard limits: RequestInv carries that from the read to the update.      *)
(***************************************************************************)
EXTENDS OrgTree, SequenceTheorems, TLAPS

(* A request in progress holds a row it read; a transfer's can still move. *)
RequestInv ==
    \A c \in Clients :
        /\ pc[c] # "idle" => target[c] \in Orgs /\ seen[c] \in Row
        /\ pc[c] \in {"lock", "walk", "move"} => seen[c].version < MaxVersion

TypeInv == TypeOK /\ RequestInv

-----------------------------------------------------------------------------
LEMMA RowTyped ==
    ASSUME TypeOK, NEW o \in Orgs
    PROVE  RowOf(o) \in Row
BY DEF TypeOK, RowOf, Row

LEMMA RowTypedNext ==
    ASSUME NEW o \in Orgs,
           parent'[o] \in OrgOrNone, code'[o] \in CodeOrNone,
           version'[o] \in 0..MaxVersion
    PROVE  [parent |-> parent'[o], code |-> code'[o], version |-> version'[o]] \in Row
BY DEF Row

(* What Finish leaves.                                                     *)
LEMMA FinishTyped ==
    ASSUME TypeInv, NEW c \in Clients, Finish(c)
    PROVE  /\ pc' \in [Clients -> {"idle", "holding", "lock", "walk", "move"}]
           /\ target' \in [Clients -> OrgOrNone]
           /\ seen' \in [Clients -> Row \cup {None}]
           /\ newParent' \in [Clients -> OrgOrNone]
           /\ lock' \in Clients \cup {None}
           /\ seedPc' \in [Seeders -> {"idle", "insert", "find"}]
           /\ at' \in [Seeders -> 1..(Len(SeedFile) + 1)]
           /\ ids' \in [Seeders -> [Codes -> OrgOrNone]]
           /\ mine' \in [Seeders -> SUBSET Orgs]
           /\ RequestInv'
<1>1. /\ pc' \in [Clients -> {"idle", "holding", "lock", "walk", "move"}]
      /\ target' \in [Clients -> OrgOrNone]
      /\ seen' \in [Clients -> Row \cup {None}]
      /\ newParent' \in [Clients -> OrgOrNone]
      /\ lock' \in Clients \cup {None}
  BY DEF TypeInv, TypeOK, Finish, OrgOrNone
<1>2. UNCHANGED seeding
  BY DEF Finish
<1>3. RequestInv'
  BY DEF TypeInv, TypeOK, RequestInv, Finish
<1> QED
  BY <1>1, <1>2, <1>3 DEF TypeInv, TypeOK, seeding

LEMMA LineTyped ==
    ASSUME TypeOK, NEW s \in Seeders, InFile(s)
    PROVE  /\ Line(s).code \in Codes
           /\ Line(s).parent \in Codes \cup {None}
           /\ SeedParent(s) \in OrgOrNone
           /\ at[s] + 1 \in 1..(Len(SeedFile) + 1)
<1>1. at[s] \in 1..Len(SeedFile) /\ Len(SeedFile) \in Nat
  BY OrgTreeAssumption DEF TypeOK, InFile
<1>2. SeedFile[at[s]] \in [code : Codes, parent : Codes \cup {None}]
  BY <1>1, OrgTreeAssumption, ElementOfSeq, Zenon
<1> QED
  BY <1>1, <1>2 DEF TypeOK, Line, SeedParent, OrgOrNone

LEMMA TypeStep ==
    ASSUME TypeInv, [Next]_vars
    PROVE  TypeInv'
<1> USE OrgTreeAssumption
<1>0. TypeOK /\ RequestInv
  BY DEF TypeInv
<1>1. ASSUME NEW o \in Orgs, NEW p \in OrgOrNone, NEW k \in Codes, Create(o, p, k)
      PROVE  TypeInv'
  <2>1. /\ state' \in [Orgs -> {"unborn", "seeding", "stored", "removed"}]
        /\ parent' \in [Orgs -> OrgOrNone]
        /\ code' \in [Orgs -> CodeOrNone]
        /\ version' \in [Orgs -> 0..MaxVersion]
    BY <1>0, <1>1 DEF TypeOK, Create, CodeOrNone
  <2>2. told' \in [Orgs -> Row \cup {None}]
    BY <1>0, <1>1, <2>1, RowTypedNext DEF TypeOK, Create, Tell
  <2> QED
    BY <1>0, <1>1, <2>1, <2>2
    DEF Create, TypeInv, TypeOK, RequestInv, request, seeding
<1>2. ASSUME NEW c \in Clients, NEW o \in Orgs, Read(c, o)
      PROVE  TypeInv'
  BY <1>0, <1>2, RowTyped
  DEF Read, TypeInv, TypeOK, RequestInv, table, seeding, OrgOrNone
<1>3. ASSUME NEW c \in Clients, NEW k \in Codes, Edit(c, k)
      PROVE  TypeInv'
  <2>1. target[c] \in Orgs /\ version[target[c]] + 1 \in 0..MaxVersion
    BY <1>0, <1>3 DEF Edit, RequestInv, TypeOK, Current, Stored, Row
  <2>2. /\ code' \in [Orgs -> CodeOrNone]
        /\ version' \in [Orgs -> 0..MaxVersion]
        /\ state' = state /\ parent' = parent
    BY <1>0, <1>3, <2>1 DEF TypeOK, Edit, CodeOrNone
  <2>3. told' \in [Orgs -> Row \cup {None}]
    BY <1>0, <1>3, <2>1, <2>2, RowTypedNext DEF TypeOK, Edit, Tell
  <2>4. Finish(c)
    BY <1>3 DEF Edit
  <2> QED
    BY <1>0, <2>2, <2>3, <2>4, FinishTyped DEF TypeInv, TypeOK
<1>4. ASSUME NEW c \in Clients, Delete(c)
      PROVE  TypeInv'
  <2>1. /\ state' \in [Orgs -> {"unborn", "seeding", "stored", "removed"}]
        /\ parent' \in [Orgs -> OrgOrNone]
        /\ code' \in [Orgs -> CodeOrNone]
    BY <1>0, <1>4 DEF TypeOK, Delete, CodeOrNone, OrgOrNone
  <2>4. version' \in [Orgs -> 0..MaxVersion]
    <3>1. version \in [Orgs -> 0..MaxVersion] /\ 0 \in 0..MaxVersion
      BY <1>0 DEF TypeOK
    <3>2. version' = [version EXCEPT ![target[c]] = 0]
      BY <1>4 DEF Delete
    <3> QED
      BY <3>1, <3>2
  <2>3. told' \in [Orgs -> Row \cup {None}]
    BY <1>0, <1>4 DEF TypeOK, Delete
  <2>2. Finish(c)
    BY <1>4 DEF Delete
  <2> QED
    BY <1>0, <2>1, <2>2, <2>3, <2>4, FinishTyped DEF TypeInv, TypeOK
<1>5. ASSUME NEW c \in Clients, Abort(c) \/ WalkRefused(c) \/ MoveRefused(c)
      PROVE  TypeInv'
  <2>1. Finish(c) /\ UNCHANGED <<table, told>>
    BY <1>5 DEF Abort, WalkRefused, MoveRefused
  <2> QED
    BY <1>0, <2>1, FinishTyped DEF TypeInv, TypeOK, table
<1>6. ASSUME NEW c \in Clients, NEW p \in OrgOrNone, TransferBegin(c, p)
      PROVE  TypeInv'
  BY <1>0, <1>6 DEF TransferBegin, TypeInv, TypeOK, RequestInv, table, seeding
<1>7. ASSUME NEW c \in Clients, TransferLock(c) \/ Walk(c)
      PROVE  TypeInv'
  BY <1>0, <1>7 DEF TransferLock, Walk, TypeInv, TypeOK, RequestInv, table, seeding
<1>8. ASSUME NEW c \in Clients, Move(c)
      PROVE  TypeInv'
  <2>1. target[c] \in Orgs /\ version[target[c]] + 1 \in 0..MaxVersion
    BY <1>0, <1>8 DEF Move, RequestInv, TypeOK, Current, Stored, Row
  <2>2. /\ parent' \in [Orgs -> OrgOrNone]
        /\ version' \in [Orgs -> 0..MaxVersion]
        /\ state' = state /\ code' = code
    BY <1>0, <1>8, <2>1 DEF TypeOK, Move
  <2>3. told' \in [Orgs -> Row \cup {None}]
    BY <1>0, <1>8, <2>1, <2>2, RowTypedNext DEF TypeOK, Move, Tell
  <2>4. Finish(c)
    BY <1>8 DEF Move
  <2> QED
    BY <1>0, <2>2, <2>3, <2>4, FinishTyped DEF TypeInv, TypeOK
<1>9. ASSUME NEW s \in Seeders, SeedBegin(s) \/ SeedConflict(s)
      PROVE  TypeInv'
  BY <1>0, <1>9 DEF SeedBegin, SeedConflict, TypeInv, TypeOK, RequestInv, table, request
<1>10. ASSUME NEW s \in Seeders, NEW o \in Orgs, SeedInsert(s, o)
       PROVE  TypeInv'
  <2>1. InFile(s)
    BY <1>10 DEF SeedInsert
  <2>2. /\ state' \in [Orgs -> {"unborn", "seeding", "stored", "removed"}]
        /\ parent' \in [Orgs -> OrgOrNone]
        /\ code' \in [Orgs -> CodeOrNone]
        /\ version' \in [Orgs -> 0..MaxVersion]
        /\ mine' \in [Seeders -> SUBSET Orgs]
    BY <1>0, <1>10, <2>1, LineTyped DEF TypeOK, SeedInsert, CodeOrNone
  <2>3. /\ ids' \in [Seeders -> [Codes -> OrgOrNone]]
        /\ at' \in [Seeders -> 1..(Len(SeedFile) + 1)]
        /\ seedPc' \in [Seeders -> {"idle", "insert", "find"}]
    BY <1>0, <1>10, <2>1, LineTyped DEF TypeOK, SeedInsert, Resolve, OrgOrNone
  <2> QED
    BY <1>0, <1>10, <2>2, <2>3 DEF SeedInsert, TypeInv, TypeOK, RequestInv, request
<1>11. ASSUME NEW s \in Seeders, NEW o \in Orgs, SeedFind(s, o)
       PROVE  TypeInv'
  <2>1. InFile(s)
    BY <1>11 DEF SeedFind
  <2>2. /\ ids' \in [Seeders -> [Codes -> OrgOrNone]]
        /\ at' \in [Seeders -> 1..(Len(SeedFile) + 1)]
        /\ seedPc' \in [Seeders -> {"idle", "insert", "find"}]
    BY <1>0, <1>11, <2>1, LineTyped DEF TypeOK, SeedFind, Resolve, OrgOrNone
  <2> QED
    BY <1>0, <1>11, <2>2 DEF SeedFind, TypeInv, TypeOK, RequestInv, request, table
<1>12. ASSUME NEW s \in Seeders, SeedCommit(s)
       PROVE  TypeInv'
  <2>1. state' \in [Orgs -> {"unborn", "seeding", "stored", "removed"}]
    BY <1>0, <1>12 DEF TypeOK, SeedCommit
  <2>2. told' \in [Orgs -> Row \cup {None}]
    BY <1>0, <1>12, RowTyped DEF TypeOK, SeedCommit
  <2>3. /\ ids' \in [Seeders -> [Codes -> OrgOrNone]]
        /\ at' \in [Seeders -> 1..(Len(SeedFile) + 1)]
        /\ seedPc' \in [Seeders -> {"idle", "insert", "find"}]
        /\ mine' \in [Seeders -> SUBSET Orgs]
    BY <1>0, <1>12 DEF TypeOK, SeedCommit, OrgOrNone
  <2> QED
    BY <1>0, <1>12, <2>1, <2>2, <2>3
    DEF SeedCommit, TypeInv, TypeOK, RequestInv, request
<1>13. ASSUME NEW s \in Seeders, SeedFail(s)
       PROVE  TypeInv'
  <2>1. /\ state' \in [Orgs -> {"unborn", "seeding", "stored", "removed"}]
        /\ parent' \in [Orgs -> OrgOrNone]
        /\ code' \in [Orgs -> CodeOrNone]
        /\ version' \in [Orgs -> 0..MaxVersion]
    BY <1>0, <1>13 DEF TypeOK, SeedFail, OrgOrNone, CodeOrNone
  <2>2. /\ ids' \in [Seeders -> [Codes -> OrgOrNone]]
        /\ at' \in [Seeders -> 1..(Len(SeedFile) + 1)]
        /\ seedPc' \in [Seeders -> {"idle", "insert", "find"}]
        /\ mine' \in [Seeders -> SUBSET Orgs]
    BY <1>0, <1>13 DEF TypeOK, SeedFail, OrgOrNone
  <2> QED
    BY <1>0, <1>13, <2>1, <2>2 DEF SeedFail, TypeInv, TypeOK, RequestInv, request
<1>14. CASE UNCHANGED vars
  BY <1>0, <1>14 DEF vars, table, request, seeding, TypeInv, TypeOK, RequestInv
<1> QED
  BY <1>1, <1>2, <1>3, <1>4, <1>5, <1>6, <1>7, <1>8, <1>9, <1>10, <1>11,
     <1>12, <1>13, <1>14
  DEF Next, ClientStep, SeedStep

LEMMA TypeInit ==
    ASSUME Init
    PROVE  TypeInv
BY OrgTreeAssumption
DEF Init, TypeInv, TypeOK, RequestInv, OrgOrNone, CodeOrNone

(* Every variable keeps its type; a version never passes MaxVersion.       *)
THEOREM TreeTyped == Spec => []TypeOK
<1>1. TypeInv => TypeOK
  BY DEF TypeInv
<1>2. TypeInv /\ [Next]_vars => TypeInv'
  BY TypeStep
<1> QED
  BY <1>1, <1>2, TypeInit, PTL DEF Spec
=============================================================================
