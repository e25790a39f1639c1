------------------------------ MODULE LogoProofs ------------------------------
(***************************************************************************)
(* Types of Logo, for any organizations, files, clients and seed runs: the *)
(* types of its variables, and which of a command's variables its next     *)
(* step finds set.                                                         *)
(***************************************************************************)
EXTENDS Logo, TLAPS

(* The types of a process's variables, which most steps only move.         *)
LocalsType ==
    /\ pc \in [Procs -> Labels]
    /\ org \in [Procs -> OrgOrNone]
    /\ file \in [Procs -> FileOrNone]
    /\ cur \in [Procs -> FileOrNone]
    /\ stored \in [Procs -> BOOLEAN]
    /\ refusal \in [Procs -> Refusals]

(* The types of the rows and objects, and of what is left.                 *)
RowsType ==
    /\ orgs \subseteq Orgs
    /\ row \in [Files -> Status]
    /\ object \in [Files -> BOOLEAN]
    /\ active \in [Orgs -> FileOrNone]

OthersType ==
    /\ sweeping \in FileOrNone
    /\ sweepPc \in {"object", "row"}
    /\ view \in [Orgs -> FileOrNone]
    /\ stray \subseteq Files
    /\ faults \in 0..MaxFaults

(* Ending a command forgets its variables and keeps their types (Finish).  *)
LEMMA FinishType ==
    ASSUME NEW p \in Procs, LocalsType, Finish(p)
    PROVE  LocalsType'
  BY DEF LocalsType, Finish, Goto, Labels, Refusals, OrgOrNone, FileOrNone

(* Removing an image leaves at most one image per organization (detach).   *)
LEMMA DetachType ==
    ASSUME NEW f \in FileOrNone, active \in [Orgs -> FileOrNone]
    PROVE  Detach(f) \in [Orgs -> FileOrNone]
  BY DEF Detach, FileOrNone

(* Beginning a delete, or purging, writes a status (Files.Delete, Purge).  *)
LEMMA DoomType ==
    ASSUME NEW f, row \in [Files -> Status]
    PROVE  Doom(f) \in [Files -> Status] /\ Purged(f) \in [Files -> Status]
  BY DEF Doom, Purged, Status

(* Every step keeps every variable in its type and sets the variables that *)
(* the process's next step uses: the organization it writes for, the file  *)
(* it writes, the file it purges.                                          *)
LEMMA TypeStep ==
    ASSUME TypeOK, LocalsInv, [Next]_vars
    PROVE  TypeOK' /\ LocalsInv'
<1> USE LogoAssumption DEF Procs
<1> /\ RowsType
    /\ LocalsType
    /\ OthersType
  BY DEF TypeOK, RowsType, LocalsType, OthersType
<1>0. ASSUME RowsType', LocalsType', OthersType', LocalsInv'
      PROVE  TypeOK' /\ LocalsInv'
  BY <1>0 DEF TypeOK, RowsType, LocalsType, OthersType
<1>1. CASE UNCHANGED vars
  <2> USE <1>1 DEF vars, rows, locals, sweep, events
  <2>1. RowsType'
    BY DEF RowsType
  <2>2. LocalsType'
    BY DEF RowsType, LocalsType, LocalsInv, Writing, Purging
  <2>3. OthersType'
    BY DEF OthersType
  <2>4. LocalsInv'
    BY DEF RowsType, LocalsInv, LocalsType, Writing, Purging
  <2> QED BY <2>1, <2>2, <2>3, <2>4, <1>0
<1>2. ASSUME NEW c \in Clients, CreatePending(c)
      PROVE  TypeOK' /\ LocalsInv'
  <2> USE <1>2 DEF CreatePending, Goto, Status, Labels, OrgOrNone, FileOrNone, sweep, events
  <2>1. RowsType'
    BY DEF RowsType
  <2>2. LocalsType'
    BY DEF RowsType, LocalsType, LocalsInv, Writing, Purging
  <2>3. OthersType'
    BY DEF OthersType
  <2>4. LocalsInv'
    BY DEF RowsType, LocalsInv, LocalsType, Writing, Purging
  <2> QED BY <2>1, <2>2, <2>3, <2>4, <1>0
<1>3. ASSUME NEW c \in Clients, ReadLogo(c)
      PROVE  TypeOK' /\ LocalsInv'
  <2> USE <1>3 DEF ReadLogo, Goto, Labels, OrgOrNone, FileOrNone, rows, sweep, events
  <2>1. RowsType'
    BY DEF RowsType
  <2>2. LocalsType'
    BY DEF RowsType, LocalsType, LocalsInv, Writing, Purging
  <2>3. OthersType'
    BY DEF OthersType
  <2>4. LocalsInv'
    BY DEF RowsType, LocalsInv, LocalsType, Writing, Purging
  <2> QED BY <2>1, <2>2, <2>3, <2>4, <1>0
<1>4. ASSUME NEW s \in Seeders, SeedStart(s)
      PROVE  TypeOK' /\ LocalsInv'
  <2> USE <1>4 DEF SeedStart, Goto, Labels, OrgOrNone, FileOrNone, rows, sweep, events
  <2>1. RowsType'
    BY DEF RowsType
  <2>2. LocalsType'
    BY DEF RowsType, LocalsType, LocalsInv, Writing, Purging
  <2>3. OthersType'
    BY DEF OthersType
  <2>4. LocalsInv'
    BY DEF RowsType, LocalsInv, LocalsType, Writing, Purging
  <2> QED BY <2>1, <2>2, <2>3, <2>4, <1>0
<1>5. ASSUME NEW p \in Procs, PutLost(p)
      PROVE  TypeOK' /\ LocalsInv'
  <2> USE <1>5 DEF PutLost, Goto, Labels, FileOrNone, sweep, events
  <2>1. RowsType'
    BY DEF RowsType
  <2>2. LocalsType'
    BY DEF RowsType, LocalsType, LocalsInv, Writing, Purging
  <2>3. OthersType'
    BY DEF OthersType
  <2>4. LocalsInv'
    BY DEF RowsType, LocalsInv, LocalsType, Writing, Purging
  <2> QED BY <2>1, <2>2, <2>3, <2>4, <1>0
<1>6. ASSUME NEW p \in Procs, Stop(p)
      PROVE  TypeOK' /\ LocalsInv'
  <2> USE <1>6 DEF Stop, rows, sweep, events
  <2>1. RowsType'
    BY DEF RowsType
  <2>2. LocalsType'
    BY FinishType DEF RowsType, LocalsType, LocalsInv, Writing, Purging
  <2>3. OthersType'
    BY DEF OthersType
  <2>4. LocalsInv'
    BY FinishType DEF Finish, Goto, RowsType, LocalsInv, LocalsType, Writing, Purging
  <2> QED BY <2>1, <2>2, <2>3, <2>4, <1>0
<1>7. ASSUME NEW p \in Procs, Proceed(p)
      PROVE  TypeOK' /\ LocalsInv'
  <2> USE DEF Goto, Labels, Refusals, FileOrNone, OrgOrNone, rows, sweep, events
  <2>1. CASE Put(p) \/ PutFails(p)
    <3> USE <2>1 DEF Put, PutFails
    <3>1. RowsType'
      BY DEF RowsType
    <3>2. LocalsType'
      BY DEF RowsType, LocalsType, LocalsInv, Writing, Purging
    <3>3. OthersType'
      BY DEF OthersType
    <3>4. LocalsInv'
      BY DEF RowsType, LocalsInv, LocalsType, Writing, Purging
    <3> QED BY <3>1, <3>2, <3>3, <3>4, <1>0
  <2>2. CASE Complete(p)
    <3> USE <2>2 DEF Complete, Status
    <3>1. RowsType'
      BY DEF RowsType
    <3>2. LocalsType'
      <4>1. pc' \in [Procs -> Labels] BY DEF LocalsType
      <4>2. stored' \in [Procs -> BOOLEAN] BY DEF LocalsType
      <4> QED BY <4>1, <4>2 DEF LocalsType
    <3>3. OthersType'
      BY DEF OthersType
    <3>4. LocalsInv'
      BY DEF RowsType, LocalsInv, LocalsType, Writing, Purging
    <3> QED BY <3>1, <3>2, <3>3, <3>4, <1>0
  <2>3. CASE CompletedByAnother(p) \/ CompletionRefused(p) \/ CompletionFails(p)
    <3> USE <2>3 DEF CompletedByAnother, CompletionRefused, CompletionFails
    <3>1. RowsType'
      BY DEF RowsType
    <3>2. LocalsType'
      BY DEF RowsType, LocalsType, LocalsInv, Writing, Purging
    <3>3. OthersType'
      BY DEF OthersType
    <3>4. LocalsInv'
      BY DEF RowsType, LocalsInv, LocalsType, Writing, Purging
    <3> QED BY <3>1, <3>2, <3>3, <3>4, <1>0
  <2>4. CASE Unput(p)
    <3> USE <2>4 DEF Unput, Finish
    <3>1. RowsType'
      BY DEF RowsType
    <3>2. LocalsType'
      BY FinishType DEF RowsType, LocalsType, LocalsInv, Writing, Purging
    <3>3. OthersType'
      BY DEF OthersType
    <3>4. LocalsInv'
      BY FinishType DEF RowsType, LocalsInv, LocalsType, Writing, Purging
    <3> QED BY <3>1, <3>2, <3>3, <3>4, <1>0
  <2>5. CASE Abandon(p)
    <3> USE <2>5 DEF Abandon
    <3>1. RowsType'
      BY DoomType DEF RowsType
    <3>2. LocalsType'
      BY DEF RowsType, LocalsType, LocalsInv, Writing, Purging
    <3>3. OthersType'
      BY DEF OthersType
    <3>4. LocalsInv'
      BY DEF RowsType, LocalsInv, LocalsType, Writing, Purging
    <3> QED BY <3>1, <3>2, <3>3, <3>4, <1>0
  <2>6. CASE AbandonNothing(p) \/ RetireNothing(p) \/ ReleaseFails(p)
    <3> USE <2>6 DEF AbandonNothing, RetireNothing, ReleaseFails, Finish
    <3>1. RowsType'
      BY DEF RowsType
    <3>2. LocalsType'
      BY FinishType DEF RowsType, LocalsType, LocalsInv, Writing, Purging
    <3>3. OthersType'
      BY DEF OthersType
    <3>4. LocalsInv'
      BY FinishType DEF RowsType, LocalsInv, LocalsType, Writing, Purging
    <3> QED BY <3>1, <3>2, <3>3, <3>4, <1>0
  <2>7. CASE Hold(p)
    <3> USE <2>7 DEF Hold
    <3>1. RowsType'
      BY DEF RowsType
    <3>2. LocalsType'
      BY DEF RowsType, LocalsType, LocalsInv, Writing, Purging
    <3>3. OthersType'
      BY DEF OthersType
    <3>4. LocalsInv'
      BY DEF RowsType, LocalsInv, LocalsType, Writing, Purging
    <3> QED BY <3>1, <3>2, <3>3, <3>4, <1>0
  <2>8. CASE HoldRefused(p)
    <3> USE <2>8 DEF HoldRefused
    <3>1. RowsType'
      BY DEF RowsType
    <3>2. LocalsType'
      <4>1. CASE Finish(p)
        BY <4>1, FinishType
      <4>2. CASE ~Finish(p)
        BY <4>2 DEF LocalsType
      <4> QED
        BY <4>1, <4>2
    <3>3. OthersType'
      BY DEF OthersType
    <3>4. LocalsInv'
      BY DEF Finish, RowsType, LocalsInv, LocalsType, Writing, Purging
    <3> QED BY <3>1, <3>2, <3>3, <3>4, <1>0
  <2>9. CASE Activate(p)
    <3> USE <2>9 DEF Activate, SeeUploaded, Bindable
    <3>1. RowsType'
      BY DetachType, DoomType DEF RowsType, LocalsType, LocalsInv, Writing
    <3>2. LocalsType'
      <4>1. CASE Finish(p)
        BY <4>1, FinishType
      <4>2. CASE ~Finish(p)
        BY <4>2 DEF LocalsType
      <4> QED
        BY <4>1, <4>2
    <3>3. OthersType'
      BY DEF OthersType, LocalsType
    <3>4. LocalsInv'
      BY DEF Finish, RowsType, LocalsInv, LocalsType, Writing, Purging
    <3> QED BY <3>1, <3>2, <3>3, <3>4, <1>0
  <2>10. CASE ActivationRefused(p)
    <3> USE <2>10 DEF ActivationRefused
    <3>1. RowsType'
      BY DEF RowsType
    <3>2. LocalsType'
      BY DEF RowsType, LocalsType, LocalsInv, Writing, Purging
    <3>3. OthersType'
      BY DEF OthersType
    <3>4. LocalsInv'
      BY DEF RowsType, LocalsInv, LocalsType, Writing, Purging
    <3> QED BY <3>1, <3>2, <3>3, <3>4, <1>0
  <2>11. CASE ActivationFails(p)
    <3> USE <2>11 DEF ActivationFails
    <3>1. RowsType'
      BY DEF RowsType
    <3>2. LocalsType'
      <4>1. CASE Finish(p)
        BY <4>1, FinishType
      <4>2. CASE ~Finish(p)
        BY <4>2 DEF LocalsType
      <4> QED
        BY <4>1, <4>2
    <3>3. OthersType'
      BY DEF OthersType
    <3>4. LocalsInv'
      BY DEF Finish, RowsType, LocalsInv, LocalsType, Writing, Purging
    <3> QED BY <3>1, <3>2, <3>3, <3>4, <1>0
  <2>12. CASE Retire(p)
    <3> USE <2>12 DEF Retire
    <3>1. RowsType'
      BY DoomType DEF RowsType
    <3>2. LocalsType'
      BY DEF RowsType, LocalsType, LocalsInv, Writing, Purging
    <3>3. OthersType'
      BY DEF OthersType
    <3>4. LocalsInv'
      BY DEF RowsType, LocalsInv, LocalsType, Writing, Purging
    <3> QED BY <3>1, <3>2, <3>3, <3>4, <1>0
  <2>13. CASE PurgeObject(p)
    <3> USE <2>13 DEF PurgeObject
    <3>1. RowsType'
      BY DEF RowsType
    <3>2. LocalsType'
      BY DEF RowsType, LocalsType, LocalsInv, Writing, Purging
    <3>3. OthersType'
      BY DEF OthersType
    <3>4. LocalsInv'
      BY DEF RowsType, LocalsInv, LocalsType, Writing, Purging
    <3> QED BY <3>1, <3>2, <3>3, <3>4, <1>0
  <2>14. CASE PurgeRow(p)
    <3> USE <2>14 DEF PurgeRow, Finish
    <3>1. RowsType'
      BY DoomType DEF RowsType
    <3>2. LocalsType'
      BY FinishType DEF RowsType, LocalsType, LocalsInv, Writing, Purging
    <3>3. OthersType'
      BY DEF OthersType
    <3>4. LocalsInv'
      BY FinishType DEF RowsType, LocalsInv, LocalsType, Writing, Purging
    <3> QED BY <3>1, <3>2, <3>3, <3>4, <1>0
  <2>15. CASE Release(p)
    <3> USE <2>15 DEF Release, SeeDeleted
    <3>1. RowsType'
      BY DetachType, DoomType DEF RowsType, LocalsType, LocalsInv
    <3>2. LocalsType'
      BY DEF RowsType, LocalsType, LocalsInv, Writing, Purging
    <3>3. OthersType'
      BY DEF OthersType, RowsType, LocalsType, LocalsInv
    <3>4. LocalsInv'
      BY DEF RowsType, LocalsInv, LocalsType, Writing, Purging
    <3> QED BY <3>1, <3>2, <3>3, <3>4, <1>0
  <2>16. CASE SeedEnsure(p)
    <3> USE <2>16 DEF SeedEnsure, Status
    <3>1. RowsType'
      BY DEF RowsType
    <3>2. LocalsType'
      <4>1. CASE Finish(p)
        BY <4>1, FinishType
      <4>2. CASE ~Finish(p)
        BY <4>2 DEF LocalsType
      <4> QED
        BY <4>1, <4>2
    <3>3. OthersType'
      BY DEF OthersType
    <3>4. LocalsInv'
      BY DEF Finish, RowsType, LocalsInv, LocalsType, Writing, Purging
    <3> QED BY <3>1, <3>2, <3>3, <3>4, <1>0
  <2>17. CASE SeedHold(p)
    <3> USE <2>17 DEF SeedHold
    <3>1. RowsType'
      BY DEF RowsType
    <3>2. LocalsType'
      BY FinishType DEF RowsType, LocalsType, LocalsInv, Writing, Purging
    <3>3. OthersType'
      BY DEF OthersType
    <3>4. LocalsInv'
      BY FinishType DEF Finish, RowsType, LocalsInv, LocalsType, Writing, Purging
    <3> QED BY <3>1, <3>2, <3>3, <3>4, <1>0
  <2>18. CASE SeedReread(p)
    <3> USE <2>18 DEF SeedReread
    <3>1. RowsType'
      BY DEF RowsType
    <3>2. LocalsType'
      BY FinishType DEF RowsType, LocalsType, LocalsInv, Writing, Purging
    <3>3. OthersType'
      BY DEF OthersType
    <3>4. LocalsInv'
      BY FinishType DEF Finish, RowsType, LocalsInv, LocalsType, Writing, Purging
    <3> QED BY <3>1, <3>2, <3>3, <3>4, <1>0
  <2>19. CASE SeedActivate(p)
    <3> USE <2>19 DEF SeedActivate, SeeUploaded, Finish
    <3>1. RowsType'
      BY DEF RowsType
    <3>2. LocalsType'
      BY FinishType DEF RowsType, LocalsType, LocalsInv, Writing, Purging
    <3>3. OthersType'
      BY DEF OthersType
    <3>4. LocalsInv'
      BY FinishType DEF RowsType, LocalsInv, LocalsType, Writing, Purging
    <3> QED BY <3>1, <3>2, <3>3, <3>4, <1>0
  <2>20. CASE SeedActivationRefused(p)
    <3> USE <2>20 DEF SeedActivationRefused
    <3>1. RowsType'
      BY DEF RowsType
    <3>2. LocalsType'
      BY FinishType DEF RowsType, LocalsType, LocalsInv, Writing, Purging
    <3>3. OthersType'
      BY DEF OthersType
    <3>4. LocalsInv'
      <4>1. CASE Finish(p)
        BY <4>1 DEF Finish, LocalsInv, LocalsType, Writing, Purging
      <4>2. CASE Goto(p, "reread") /\ UNCHANGED <<org, file, cur>>
        BY <4>2 DEF LocalsInv, LocalsType, Writing, Purging
      <4>3. CASE Goto(p, "retire") /\ UNCHANGED <<org, file, cur>>
        BY <4>3 DEF LocalsInv, LocalsType, Writing, Purging
      <4> QED BY <4>1, <4>2, <4>3
    <3> QED BY <3>1, <3>2, <3>3, <3>4, <1>0
  <2> QED
    BY <1>7, <2>1, <2>2, <2>3, <2>4, <2>5, <2>6, <2>7, <2>8, <2>9, <2>10, <2>11, <2>12, <2>13, <2>14, <2>15, <2>16, <2>17, <2>18, <2>19, <2>20 DEF Proceed
<1>8. ASSUME NEW o \in Orgs, DeleteOrganization(o)
      PROVE  TypeOK' /\ LocalsInv'
  <2> USE <1>8 DEF DeleteOrganization, locals, sweep, events
  <2>1. RowsType'
    BY DEF RowsType
  <2>2. LocalsType'
    BY DEF RowsType, LocalsType, LocalsInv, Writing, Purging
  <2>3. OthersType'
    BY DEF OthersType
  <2>4. LocalsInv'
    BY DEF RowsType, LocalsInv, LocalsType, Writing, Purging
  <2> QED BY <2>1, <2>2, <2>3, <2>4, <1>0
<1>9. CASE ReclaimBegin
  <2> USE <1>9 DEF ReclaimBegin, locals, events, FileOrNone
  <2>1. RowsType'
    BY DoomType DEF RowsType
  <2>2. LocalsType'
    BY DEF RowsType, LocalsType, LocalsInv, Writing, Purging
  <2>3. OthersType'
    BY DEF OthersType
  <2>4. LocalsInv'
    BY DEF RowsType, LocalsInv, LocalsType, Writing, Purging
  <2> QED BY <2>1, <2>2, <2>3, <2>4, <1>0
<1>10. CASE ReclaimObject
  <2> USE <1>10 DEF ReclaimObject, locals, events
  <2>1. RowsType'
    BY DEF RowsType
  <2>2. LocalsType'
    BY DEF RowsType, LocalsType, LocalsInv, Writing, Purging
  <2>3. OthersType'
    BY DEF OthersType
  <2>4. LocalsInv'
    BY DEF RowsType, LocalsInv, LocalsType, Writing, Purging
  <2> QED BY <2>1, <2>2, <2>3, <2>4, <1>0
<1>11. CASE ReclaimRow
  <2> USE <1>11 DEF ReclaimRow, locals, events, FileOrNone
  <2>1. RowsType'
    BY DoomType DEF RowsType
  <2>2. LocalsType'
    BY DEF RowsType, LocalsType, LocalsInv, Writing, Purging
  <2>3. OthersType'
    BY DEF OthersType
  <2>4. LocalsInv'
    BY DEF RowsType, LocalsInv, LocalsType, Writing, Purging
  <2> QED BY <2>1, <2>2, <2>3, <2>4, <1>0
<1>12. CASE SweepStop
  <2> USE <1>12 DEF SweepStop, rows, locals, events, FileOrNone
  <2>1. RowsType'
    BY DEF RowsType
  <2>2. LocalsType'
    BY DEF RowsType, LocalsType, LocalsInv, Writing, Purging
  <2>3. OthersType'
    BY DEF OthersType
  <2>4. LocalsInv'
    BY DEF RowsType, LocalsInv, LocalsType, Writing, Purging
  <2> QED BY <2>1, <2>2, <2>3, <2>4, <1>0
<1> QED
  BY <1>1, <1>2, <1>3, <1>4, <1>5, <1>6, <1>7, <1>8, <1>9, <1>10, <1>11, <1>12 DEF Next, Reclaim

(* Every variable keeps its type, whatever the clients and the seed runs   *)
(* do.                                                                     *)
THEOREM TypeCorrect == Spec => []TypeOK
<1>1. Init => TypeOK /\ LocalsInv
  BY LogoAssumption DEF Init, TypeOK, LocalsInv, Writing, Purging, Status, Labels, Refusals,
     OrgOrNone, FileOrNone
<1>2. TypeOK /\ LocalsInv /\ [Next]_vars => (TypeOK /\ LocalsInv)'
  BY TypeStep
<1> QED
  BY <1>1, <1>2, PTL DEF Spec
=============================================================================
