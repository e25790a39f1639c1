------------------------------ MODULE LogoSafety ------------------------------
(***************************************************************************)
(* Safety of the organization logo, for any instance, seed runs included:  *)
(* an active upload is available and whole, the events replay to the       *)
(* active logos, a leak takes a fault, and the routes implement the        *)
(* register of uploads.  The inductive invariant speaks of the files       *)
(* clients write: a file being written is its client's alone, and a logo   *)
(* that was read is available only while it is still the organization's.   *)
(* A seed writes one file, the state's, of which it says next to nothing.  *)
(***************************************************************************)
EXTENDS LogoProofs, FiniteSetTheorems

(* The parts of LogoInv that speak of the rows, and of the commands.       *)
Images   == UploadedLogoAvailable /\ StoredInv /\ ReplayIsCurrent /\ ImageInv /\ SweepInv
Commands == WriterInv /\ OwnerInv /\ ReadInv /\ SeedInv

(* Only p moves.                                                           *)
Alone(p) ==
    \A q \in Procs \ {p} :
        /\ pc'[q] = pc[q] /\ org'[q] = org[q]
        /\ file'[q] = file[q] /\ cur'[q] = cur[q]

(* What a client knows of its file, its rights to it, and what a command   *)
(* knows of the logo it read: the parts of LogoInv, one command at a time. *)
Owns(c) ==
    pc[c] \in Writing =>
        /\ file[c] # SeedFile
        /\ \A o \in Orgs : active[o] # file[c]
        /\ \A q \in Procs : cur[q] # file[c]
        /\ \A q \in Clients \ {c} : pc[q] \in Writing => file[q] # file[c]
HasRead(p) ==
    cur[p] \in Uploads =>
        /\ row[cur[p]] \in {"available", "deleting", "gone"}
        /\ pc[p] \in Purging => row[cur[p]] \in {"deleting", "gone"}
        /\ pc[p] \in {"apply", "release"} =>
               /\ \A o \in Orgs : active[o] = cur[p] => o = org[p]
               /\ row[cur[p]] = "available" => active[org[p]] = cur[p]

LEMMA Parts ==
    /\ LogoInv <=> TypeOK /\ LocalsInv /\ Images /\ Commands
    /\ OwnerInv <=> \A c \in Clients : Owns(c)
    /\ ReadInv <=> \A p \in Procs : HasRead(p)
BY DEF LogoInv, Images, Commands, OwnerInv, Owns, ReadInv, HasRead

(* What the step does to the rows leaves what commands P know of them.     *)
Served(P) ==
    /\ \A d \in Clients \cap P : Knows(pc[d], file[d])'
    /\ \A q \in P : cur[q] \in Uploads =>
          /\ row'[cur[q]] \in {"available", "deleting", "gone"}
          /\ pc[q] \in Purging => row'[cur[q]] \in {"deleting", "gone"}
          /\ row'[cur[q]] = "available" => row[cur[q]] = "available"

LEMMA ImagesKept ==
    ASSUME Images, UNCHANGED <<row, object, active, view, sweeping>>
    PROVE  Images'
BY DEF Images, UploadedLogoAvailable, StoredInv, ReplayIsCurrent, ImageInv, SweepInv

(* A file a client writes has a row, no image, and no one else's purge.    *)
LEMMA Written ==
    ASSUME LogoInv, NEW c \in Clients, pc[c] \in Writing
    PROVE  /\ file[c] \in Uploads /\ org[c] \in Orgs /\ c \in Procs
           /\ \A o \in Orgs : active[o] # file[c]
           /\ \A q \in Procs : cur[q] # file[c]
           /\ \A q \in Clients \ {c} : pc[q] \in Writing => file[q] # file[c]
           /\ row[file[c]] # "absent"
           /\ Knows(pc[c], file[c])
<1>1. file[c] \in Files /\ org[c] \in Orgs /\ c \in Procs
  BY DEF LogoInv, LocalsInv, Procs
<1>2. Knows(pc[c], file[c])
  BY DEF LogoInv, WriterInv
<1>3. row[file[c]] # "absent"
  BY <1>2 DEF Knows, Writing
<1> QED
  BY <1>1, <1>2, <1>3 DEF LogoInv, OwnerInv, Uploads

-----------------------------------------------------------------------------
(* Steps that move one command and touch no row, object or image.          *)

(* A command that stops writing, to end or to purge.                       *)
LEMMA WriterLeaves ==
    ASSUME LogoInv, NEW c \in Clients, Alone(c), Served(Procs \ {c}), active' = active,
           pc'[c] \in Purging \cup {"idle"},
           cur'[c] \notin {None, cur[c]} => pc[c] \in Writing /\ cur'[c] = file[c],
           cur'[c] \in Uploads => row'[cur'[c]] \in {"deleting", "gone"}
    PROVE  Commands'
<1>0. /\ None \notin Files /\ SeedFile # None
      /\ Clients \subseteq Procs /\ Seeders \subseteq Procs /\ Clients \cap Seeders = {}
  BY LogoAssumption DEF Procs
<1>1. pc'[c] \notin Writing /\ pc'[c] \notin {"apply", "release"}
  BY DEF Purging, Writing
<1>2. WriterInv'
  <2>1. Knows(pc[c], file[c])'
    BY <1>1 DEF Knows, Writing
  <2>2. \A d \in Clients \ {c} : Knows(pc[d], file[d])'
    BY <1>0 DEF Served
  <2> QED
    BY <2>1, <2>2 DEF WriterInv
<1>3. OwnerInv'
  <2> SUFFICES ASSUME NEW d \in Clients, pc'[d] \in Writing
               PROVE  Owns(d)'
    BY Parts DEF OwnerInv, Owns
  <2>1. d # c /\ pc[d] \in Writing /\ file'[d] = file[d]
    BY <1>0, <1>1 DEF Alone
  <2>2. cur'[c] # file[d]
    BY <1>0, <2>1, Written DEF Uploads
  <2> QED
    BY <1>0, <1>1, <2>1, <2>2 DEF LogoInv, OwnerInv, Owns, Alone
<1>4. ReadInv'
  <2>1. HasRead(c)'
    BY <1>1 DEF HasRead
  <2>2. \A q \in Procs \ {c} : HasRead(q)'
    BY DEF LogoInv, ReadInv, HasRead, Alone, Served
  <2> QED
    BY <2>1, <2>2 DEF ReadInv, HasRead
<1>5. SeedInv'
  BY <1>0, <1>1 DEF LogoInv, SeedInv, Alone
<1> QED
  BY <1>2, <1>3, <1>4, <1>5 DEF Commands

(* A step that changes no row and no object serves everyone.               *)
LEMMA NothingChanged ==
    ASSUME LogoInv, NEW c \in Clients, Alone(c), UNCHANGED <<row, object>>
    PROVE  Served(Procs \ {c})
BY DEF LogoInv, WriterInv, ReadInv, Served, Alone, Knows, Procs

LEMMA WriterMoves ==
    ASSUME LogoInv, NEW c \in Clients, NEW l \in Writing \ {"apply"},
           pc[c] \in Writing, pc' = [pc EXCEPT ![c] = l],
           UNCHANGED <<org, file, cur, row, object, active>>,
           Knows(l, file[c])
    PROVE  Commands'
<1>0. pc'[c] = l /\ Alone(c) /\ Clients \subseteq Procs /\ Clients \cap Seeders = {}
  BY LogoAssumption DEF LogoInv, TypeOK, Alone, Procs
<1>1. WriterInv'
  BY <1>0 DEF LogoInv, WriterInv, Knows, Alone
<1>2. OwnerInv'
  BY <1>0 DEF LogoInv, OwnerInv, Alone
<1>3. ReadInv'
  BY <1>0 DEF LogoInv, ReadInv, Alone, Writing, Purging
<1>4. SeedInv'
  BY <1>0 DEF LogoInv, SeedInv, Alone, Writing
<1> QED
  BY <1>1, <1>2, <1>3, <1>4 DEF Commands

(* Where a client that runs such a step goes.                              *)
LEMMA QuietCommand ==
    ASSUME LogoInv, NEW c \in Clients,
           \/ PutFails(c) \/ CompletedByAnother(c) \/ CompletionRefused(c)
           \/ CompletionFails(c) \/ AbandonNothing(c) \/ HoldRefused(c)
           \/ ActivationRefused(c) \/ ActivationFails(c) \/ RetireNothing(c)
           \/ ReleaseFails(c) \/ Stop(c)
    PROVE  Images' /\ Commands'
<1>0. c \in Procs /\ c \notin Seeders
  BY LogoAssumption DEF Procs
<1>1. Images'
  <2>1. UNCHANGED <<row, object, active, view, sweeping>>
    BY DEF PutFails, CompletedByAnother, CompletionRefused, CompletionFails,
           AbandonNothing, HoldRefused, ActivationRefused, ActivationFails,
           RetireNothing, ReleaseFails, Stop, rows, sweep, events
  <2> QED
    BY <2>1, ImagesKept DEF LogoInv, Images
<1>2. CASE AbandonNothing(c) \/ RetireNothing(c) \/ ReleaseFails(c) \/ Stop(c)
  <2>1. Finish(c) /\ UNCHANGED <<row, object, active>>
    BY <1>2 DEF AbandonNothing, RetireNothing, ReleaseFails, Stop, rows
  <2>2. Alone(c) /\ pc'[c] = "idle" /\ cur'[c] = None
    BY <1>0, <2>1 DEF Finish, Goto, Alone, LogoInv, TypeOK
  <2>3. Served(Procs \ {c}) /\ cur'[c] \notin Uploads
    BY <2>1, <2>2, NothingChanged, LogoAssumption DEF Uploads
  <2> QED
    BY <1>1, <2>1, <2>2, <2>3, WriterLeaves
<1>3. CASE CompletedByAnother(c) \/ HoldRefused(c)
  BY <1>3 DEF LogoInv, WriterInv, Knows, CompletedByAnother, HoldRefused
<1>4. CASE \/ PutFails(c) \/ CompletionRefused(c) \/ CompletionFails(c)
           \/ ActivationRefused(c) \/ ActivationFails(c)
  <2>1. PICK l \in {"abandon", "unput", "retire"} :
            /\ pc' = [pc EXCEPT ![c] = l]
            /\ UNCHANGED <<org, file, cur, row, object, active>>
            /\ l = "abandon" => pc[c] \in {"put", "complete"}
            /\ l = "unput" => pc[c] = "complete" /\ row[file[c]] \in {"deleting", "gone"}
            /\ l = "retire" => pc[c] \in {"activate", "apply"}
    BY <1>0, <1>4
    DEF PutFails, CompletionRefused, CompletionFails, ActivationRefused,
        ActivationFails, Goto, rows
  <2>2. pc[c] \in Writing /\ l \in Writing \ {"apply"}
    BY <2>1 DEF Writing
  <2>3. Knows(l, file[c])
    BY <2>1 DEF LogoInv, WriterInv, Knows
  <2> QED
    BY <1>1, <2>1, <2>2, <2>3, WriterMoves
<1> QED
  BY <1>2, <1>3, <1>4

(* The read of the logo to replace, and of the logo to delete.             *)
LEMMA LogoRead ==
    ASSUME LogoInv, NEW c \in Clients, Hold(c) \/ ReadLogo(c)
    PROVE  Images' /\ Commands'
<1> PICK o : o = org'[c]
  OBVIOUS
<1>0. /\ Clients \subseteq Procs /\ Seeders \subseteq Procs
      /\ Clients \cap Seeders = {} /\ None \notin Files
      /\ UNCHANGED <<row, object, active, view, sweeping, file>>
  BY LogoAssumption DEF Hold, ReadLogo, Procs, rows, sweep, events
<1>1. /\ Alone(c) /\ o \in Orgs
      /\ pc'[c] \in {"apply", "release"} /\ cur'[c] = active[o]
      /\ pc'[c] = "apply" => /\ pc[c] = "activate" /\ row[file[c]] = "available"
  BY <1>0 DEF Hold, ReadLogo, LogoInv, TypeOK, LocalsInv, Writing, Goto, Alone
<1>2. Images'
  BY <1>0, ImagesKept DEF LogoInv, Images
<1>3. WriterInv'
  BY <1>0, <1>1 DEF LogoInv, WriterInv, Knows, Alone
<1>4. OwnerInv'
  BY <1>0, <1>1 DEF LogoInv, OwnerInv, Alone, Writing
<1>5. ReadInv'
  <2>1. HasRead(c)'
    BY <1>0, <1>1
    DEF LogoInv, HasRead, UploadedLogoAvailable, ImageInv, Uploads, Purging
  <2>2. \A q \in Procs \ {c} : HasRead(q)'
    BY <1>0, <1>1 DEF LogoInv, ReadInv, HasRead, Alone
  <2> QED
    BY <2>1, <2>2 DEF ReadInv, HasRead
<1>6. SeedInv'
  BY <1>0, <1>1 DEF LogoInv, SeedInv, Alone
<1> QED
  BY <1>2, <1>3, <1>4, <1>5, <1>6 DEF Commands

-----------------------------------------------------------------------------
(* A client's own file: the pending row, the object, the completion.       *)

LEMMA FileCreated ==
    ASSUME LogoInv, NEW c \in Clients, CreatePending(c)
    PROVE  Images' /\ Commands'
<1>0. Clients \subseteq Procs /\ Clients \cap Seeders = {} /\ Seeders \subseteq Procs
  BY LogoAssumption DEF Procs
<1>1. PICK f \in Uploads :
          /\ row[f] = "absent" /\ row' = [row EXCEPT ![f] = "pending"]
          /\ file'[c] = f /\ pc'[c] = "put" /\ cur'[c] = cur[c] /\ Alone(c)
          /\ UNCHANGED <<object, active, view, sweeping>>
  BY <1>0
  DEF CreatePending, LogoInv, TypeOK, Goto, Alone, Uploads, events, sweep
<1>2. row'[f] = "pending" /\ \A g \in Files \ {f} : row'[g] = row[g]
  BY <1>1 DEF LogoInv, TypeOK, Uploads
<1>3. (\A o \in Orgs : active[o] # f) /\ sweeping # f
  BY <1>1, LogoAssumption DEF LogoInv, UploadedLogoAvailable, SweepInv, Uploads
<1>4. \A q \in Procs : cur[q] # f
  BY <1>1 DEF LogoInv, ReadInv
<1>5. \A d \in Clients : pc[d] \in Writing => file[d] # f /\ file[d] \in Files
  BY <1>1, Written DEF Uploads
<1>6. cur[c] = None
  BY <1>0 DEF CreatePending, LogoInv, LocalsInv
<1>7. Images'
  BY <1>1, <1>2, <1>3
  DEF LogoInv, TypeOK, FileOrNone, Images, UploadedLogoAvailable, StoredInv,
      ReplayIsCurrent, ImageInv, SweepInv, Uploads
<1>8. WriterInv'
  BY <1>0, <1>1, <1>2, <1>5 DEF LogoInv, WriterInv, Knows, Alone, Writing
<1>9. OwnerInv'
  BY <1>0, <1>1, <1>3, <1>4, <1>5 DEF LogoInv, OwnerInv, Alone, Uploads
<1>10. ReadInv'
  <2>1. \A q \in Procs : cur'[q] = cur[q] /\ cur[q] \in Uploads => row'[cur[q]] = row[cur[q]]
    BY <1>1, <1>2, <1>4 DEF Uploads
  <2>2. \A q \in Procs \ {c} : HasRead(q)'
    BY <1>1, <2>1 DEF LogoInv, ReadInv, HasRead, Alone
  <2>3. HasRead(c)'
    BY <1>1, <1>6, LogoAssumption DEF HasRead, Uploads
  <2> QED
    BY <2>2, <2>3 DEF ReadInv, HasRead
<1>11. SeedInv'
  BY <1>0, <1>1 DEF LogoInv, SeedInv, Alone
<1> QED
  BY <1>7, <1>8, <1>9, <1>10, <1>11 DEF Commands

LEMMA FilePut ==
    ASSUME LogoInv, NEW c \in Clients, Put(c) \/ PutLost(c)
    PROVE  Images' /\ Commands'
<1>0. /\ Clients \subseteq Procs /\ Seeders \subseteq Procs /\ Clients \cap Seeders = {}
      /\ pc[c] = "put" /\ pc[c] \in Writing
  BY LogoAssumption DEF Procs, Put, PutLost, Writing
<1>1. PICK f \in Uploads : f = file[c]
  BY <1>0, Written
<1>2. /\ pc'[c] \in {"complete", "abandon"} /\ Alone(c)
      /\ UNCHANGED <<row, active, view, sweeping, org, file, cur>>
      /\ object'[f] /\ \A g \in Files : object[g] => object'[g]
  BY <1>0, <1>1 DEF Put, PutLost, LogoInv, TypeOK, Goto, Alone, Uploads, events, sweep
<1>3. Images'
  BY <1>2
  DEF LogoInv, Images, UploadedLogoAvailable, StoredInv, ReplayIsCurrent, ImageInv,
      SweepInv, Uploads
<1>4. WriterInv'
  <2>1. Knows(pc[c], f)
    BY <1>1 DEF LogoInv, WriterInv
  <2>2. \A d \in Clients : pc[d] \in Writing => file[d] \in Files
    BY Written DEF Uploads
  <2>3. \A d \in Clients \ {c} : Knows(pc[d], file[d])'
    BY <1>0, <1>2, <2>2 DEF LogoInv, WriterInv, Knows, Alone, Writing
  <2>4. Knows(pc[c], file[c])'
    BY <1>0, <1>1, <1>2, <2>1 DEF Knows
  <2> QED
    BY <2>3, <2>4 DEF WriterInv
<1>5. OwnerInv'
  BY <1>0, <1>2 DEF LogoInv, OwnerInv, Alone, Writing
<1>6. ReadInv'
  BY <1>0, <1>2 DEF LogoInv, ReadInv, Alone, Purging
<1>7. SeedInv'
  BY <1>0, <1>2 DEF LogoInv, SeedInv, Alone
<1> QED
  BY <1>3, <1>4, <1>5, <1>6, <1>7 DEF Commands

LEMMA FileCompleted ==
    ASSUME LogoInv, NEW c \in Clients, Complete(c)
    PROVE  Images' /\ Commands'
<1>0. /\ Clients \subseteq Procs /\ Seeders \subseteq Procs /\ Clients \cap Seeders = {}
      /\ pc[c] = "complete" /\ pc[c] \in Writing
  BY LogoAssumption DEF Procs, Complete, Writing
<1>1. PICK f \in Uploads : f = file[c]
  BY <1>0, Written
<1>2. /\ pc'[c] = "activate" /\ Alone(c) /\ row[f] = "pending" /\ row'[f] = "available"
      /\ UNCHANGED <<object, active, view, sweeping, org, file, cur>>
      /\ \A g \in Files \ {f} : row'[g] = row[g]
  BY <1>0, <1>1 DEF Complete, LogoInv, TypeOK, Goto, Alone, Uploads, events, sweep
<1>3. object[f] /\ sweeping # f
  BY <1>0, <1>1, <1>2 DEF LogoInv, WriterInv, Knows, SweepInv
<1>4. /\ \A o \in Orgs : active[o] # f
      /\ \A q \in Procs : cur[q] # f
      /\ \A d \in Clients \ {c} : pc[d] \in Writing => file[d] \in Files \ {f}
  BY <1>0, <1>1, Written DEF Uploads
<1>5. Images'
  BY <1>2, <1>3, <1>4
  DEF LogoInv, TypeOK, FileOrNone, Images, UploadedLogoAvailable, StoredInv,
      ReplayIsCurrent, ImageInv, SweepInv, Uploads
<1>6. WriterInv'
  BY <1>0, <1>1, <1>2, <1>3, <1>4 DEF LogoInv, WriterInv, Knows, Alone, Writing
<1>7. OwnerInv'
  BY <1>0, <1>2 DEF LogoInv, OwnerInv, Alone, Writing
<1>8. ReadInv'
  <2>1. \A q \in Procs : cur[q] \in Uploads => row'[cur[q]] = row[cur[q]]
    BY <1>2, <1>4 DEF Uploads
  <2> QED
    BY <1>0, <1>2, <2>1 DEF LogoInv, ReadInv, Alone, Purging
<1>9. SeedInv'
  BY <1>0, <1>2 DEF LogoInv, SeedInv, Alone
<1> QED
  BY <1>5, <1>6, <1>7, <1>8, <1>9 DEF Commands

-----------------------------------------------------------------------------
(* Deletes: a row that retires, an object that goes.                       *)

(* Nothing a command knows, and no image, minds that an object goes whose  *)
(* row's delete has begun.                                                 *)
LEMMA ObjectRemoved ==
    ASSUME LogoInv, NEW f \in Files,
           object' = [object EXCEPT ![f] = FALSE],
           UNCHANGED <<row, active, view>>, sweeping' = sweeping,
           f \in Uploads => row[f] \in {"deleting", "gone"},
           NEW P \in SUBSET Procs, \A q \in P : pc'[q] = pc[q] /\ file'[q] = file[q]
    PROVE  Images' /\ Served(P)
<1>0. \A g \in Files \ {f} : object'[g] = object[g]
  BY DEF LogoInv, TypeOK
<1>1. Images'
  BY <1>0, LogoAssumption
  DEF LogoInv, Images, UploadedLogoAvailable, StoredInv, ReplayIsCurrent, ImageInv,
      SweepInv, Uploads
<1>2. ASSUME NEW d \in Clients \cap P
      PROVE  Knows(pc[d], file[d])'
  <2>1. CASE pc[d] \in Writing
    <3>1. PICK g \in Uploads : g = file[d] /\ g = file'[d] /\ Knows(pc[d], g)
      BY <2>1, Written
    <3> QED
      BY <1>0, <3>1 DEF Knows, Uploads
  <2>2. CASE pc[d] \notin Writing
    BY <2>2 DEF Knows, Writing
  <2> QED
    BY <2>1, <2>2
<1>3. \A q \in P : cur[q] \in Uploads =>
          /\ row'[cur[q]] \in {"available", "deleting", "gone"}
          /\ pc[q] \in Purging => row'[cur[q]] \in {"deleting", "gone"}
          /\ row'[cur[q]] = "available" => row[cur[q]] = "available"
  BY DEF LogoInv, ReadInv
<1> QED
  BY <1>1, <1>2, <1>3 DEF Served

(* Nor that a row retires which no image binds and no client activates.    *)
LEMMA RowRetired ==
    ASSUME LogoInv, NEW f \in Files,
           \A g \in Files \ {f} : row'[g] = row[g],
           UNCHANGED <<object, active, view>>, sweeping' \in {sweeping, None, f},
           f \in Uploads => /\ row'[f] \in {"deleting", "gone"}
                            /\ \A o \in Orgs : active[o] # f,
           NEW P \in SUBSET Procs, \A q \in P : pc'[q] = pc[q] /\ file'[q] = file[q],
           \A d \in Clients \cap P :
               pc[d] \in Writing /\ file[d] = f => row[f] \in {"pending", "deleting", "gone"}
    PROVE  Images' /\ Served(P)
<1>1. Images'
  BY LogoAssumption
  DEF LogoInv, TypeOK, FileOrNone, Images, UploadedLogoAvailable, StoredInv,
      ReplayIsCurrent, ImageInv, SweepInv, Uploads
<1>2. ASSUME NEW d \in Clients \cap P
      PROVE  Knows(pc[d], file[d])'
  <2>1. CASE pc[d] \in Writing
    <3>1. PICK g \in Uploads : g = file[d] /\ g = file'[d] /\ Knows(pc[d], g)
      BY <2>1, Written
    <3> QED
      BY <2>1, <3>1 DEF Knows, Uploads
  <2>2. CASE pc[d] \notin Writing
    BY <2>2 DEF Knows, Writing
  <2> QED
    BY <2>1, <2>2
<1>3. \A q \in P : cur[q] \in Uploads =>
          /\ row'[cur[q]] \in {"available", "deleting", "gone"}
          /\ pc[q] \in Purging => row'[cur[q]] \in {"deleting", "gone"}
          /\ row'[cur[q]] = "available" => row[cur[q]] = "available"
  BY DEF LogoInv, ReadInv, Uploads
<1> QED
  BY <1>1, <1>2, <1>3 DEF Served

(* A file purged has its delete begun, or is the state's.                  *)
LEMMA Purges ==
    ASSUME LogoInv, NEW p \in Procs, pc[p] \in Purging
    PROVE  /\ cur[p] \in Files
           /\ cur[p] \in Uploads => /\ row[cur[p]] \in {"deleting", "gone"}
                                    /\ \A o \in Orgs : active[o] # cur[p]
           /\ \A d \in Clients : pc[d] \in Writing => file[d] # cur[p]
BY LogoAssumption
DEF LogoInv, LocalsInv, ReadInv, UploadedLogoAvailable, OwnerInv, Uploads

LEMMA FileRetires ==
    ASSUME LogoInv, NEW c \in Clients, Abandon(c) \/ Retire(c)
    PROVE  Images' /\ Commands'
<1>0. pc[c] \in Writing /\ Clients \subseteq Procs
  BY DEF Abandon, Retire, Writing, Procs
<1>1. PICK f \in Uploads : f = file[c]
  BY <1>0, Written
<1>2. /\ row' = Doom(f) /\ cur'[c] = f /\ pc'[c] = "purgeObject" /\ Alone(c)
      /\ UNCHANGED <<object, active, view, sweeping>>
  BY <1>0, <1>1 DEF Abandon, Retire, LogoInv, TypeOK, Goto, Alone, events, sweep
<1>3. row'[f] = "deleting" /\ \A g \in Files \ {f} : row'[g] = row[g]
  BY <1>2 DEF Doom, LogoInv, TypeOK, Uploads
<1>4. /\ \A o \in Orgs : active[o] # f
      /\ \A d \in Clients \ {c} : pc[d] \in Writing => file[d] # f
  BY <1>0, <1>1, Written
<1>5. Images' /\ Served(Procs \ {c})
  BY <1>2, <1>3, <1>4, RowRetired DEF Alone, Uploads
<1> QED
  BY <1>0, <1>1, <1>2, <1>3, <1>5, WriterLeaves DEF Purging

LEMMA FilePurged ==
    ASSUME LogoInv, NEW c \in Clients, Unput(c) \/ PurgeObject(c) \/ PurgeRow(c)
    PROVE  Images' /\ Commands'
<1>0. c \in Procs
  BY DEF Procs
<1>1. CASE Unput(c)
  <2>1. PICK f \in Uploads : f = file[c] /\ row[f] \in {"deleting", "gone"}
    BY <1>1, Written DEF Unput, Writing, Knows
  <2>2. /\ object' = [object EXCEPT ![f] = FALSE]
        /\ UNCHANGED <<row, active, view, sweeping>>
        /\ Alone(c) /\ pc'[c] = "idle" /\ cur'[c] = None
    BY <1>0, <1>1, <2>1
    DEF Unput, Finish, Goto, LogoInv, TypeOK, Alone, events, sweep
  <2>3. Images' /\ Served(Procs \ {c})
    BY <2>1, <2>2, ObjectRemoved DEF Alone, Uploads
  <2> QED
    BY <2>2, <2>3, WriterLeaves, LogoAssumption DEF Uploads
<1>2. CASE PurgeObject(c)
  <2>1. PICK f \in Files : f = cur[c]
    BY <1>0, <1>2, Purges DEF PurgeObject, Purging
  <2>2. f \in Uploads => row[f] \in {"deleting", "gone"}
    BY <1>0, <1>2, <2>1, Purges DEF PurgeObject, Purging
  <2>3. /\ object' = [object EXCEPT ![f] = FALSE]
        /\ UNCHANGED <<row, active, view, sweeping>>
        /\ Alone(c) /\ pc'[c] = "purgeRow" /\ cur'[c] = f
    BY <1>0, <1>2, <2>1 DEF PurgeObject, Goto, LogoInv, TypeOK, Alone, events, sweep
  <2>4. Images' /\ Served(Procs \ {c})
    BY <2>2, <2>3, ObjectRemoved DEF Alone
  <2> QED
    BY <2>1, <2>2, <2>3, <2>4, WriterLeaves DEF Purging
<1>3. CASE PurgeRow(c)
  <2>1. PICK f \in Files : f = cur[c]
    BY <1>0, <1>3, Purges DEF PurgeRow, Purging
  <2>2. /\ f \in Uploads => /\ row[f] \in {"deleting", "gone"}
                            /\ \A o \in Orgs : active[o] # f
        /\ \A d \in Clients : pc[d] \in Writing => file[d] # f
    BY <1>0, <1>3, <2>1, Purges DEF PurgeRow, Purging
  <2>3. /\ row' = Purged(f) /\ UNCHANGED <<object, active, view, sweeping>>
        /\ Alone(c) /\ pc'[c] = "idle" /\ cur'[c] = None
    BY <1>0, <1>3, <2>1 DEF PurgeRow, Finish, Goto, LogoInv, TypeOK, Alone, events, sweep
  <2>4. /\ \A g \in Files \ {f} : row'[g] = row[g]
        /\ f \in Uploads => row'[f] \in {"deleting", "gone"}
    BY <2>2, <2>3 DEF Purged, LogoInv, TypeOK
  <2>5. Images' /\ Served(Procs \ {c})
    BY <2>2, <2>3, <2>4, RowRetired DEF Alone
  <2> QED
    BY <2>3, <2>5, WriterLeaves, LogoAssumption DEF Uploads
<1> QED
  BY <1>1, <1>2, <1>3

(* The reclaim moves no command.                                           *)
LEMMA AllServed ==
    ASSUME LogoInv, Served(Procs), UNCHANGED <<active, locals>>
    PROVE  Commands'
<1>0. Clients \subseteq Procs
  BY DEF Procs
<1>1. WriterInv'
  BY <1>0 DEF WriterInv, Served
<1>2. OwnerInv' /\ SeedInv'
  BY DEF LogoInv, OwnerInv, SeedInv, locals
<1>3. ReadInv'
  BY DEF LogoInv, ReadInv, Served, locals
<1> QED
  BY <1>1, <1>2, <1>3 DEF Commands

LEMMA ReclaimSafe ==
    ASSUME LogoInv, Reclaim \/ SweepStop
    PROVE  Images' /\ Commands'
<1>0. /\ UNCHANGED <<active, view, locals, pc, file>>
      /\ \A d \in Clients : pc[d] \in Writing => file[d] \in Uploads
  BY Written DEF Reclaim, ReclaimBegin, ReclaimObject, ReclaimRow, SweepStop, locals,
                 events, rows
<1>1. CASE ReclaimBegin
  <2>1. PICK f \in Files :
            /\ row[f] \in {"pending", "deleting"} /\ row' = Doom(f)
            /\ sweeping' = f /\ object' = object
    BY <1>1 DEF ReclaimBegin
  <2>2. row'[f] = "deleting" /\ \A g \in Files \ {f} : row'[g] = row[g]
    BY <2>1 DEF Doom, LogoInv, TypeOK
  <2>3. f \in Uploads => \A o \in Orgs : active[o] # f
    BY <2>1, LogoAssumption DEF LogoInv, UploadedLogoAvailable, Uploads
  <2>4. Images' /\ Served(Procs)
    BY <1>0, <2>1, <2>2, <2>3, RowRetired
  <2> QED
    BY <1>0, <2>4, AllServed
<1>2. CASE ReclaimObject
  <2>1. PICK f \in Files : f = sweeping
    BY <1>2 DEF ReclaimObject, LogoInv, TypeOK, FileOrNone
  <2>2. /\ object' = [object EXCEPT ![f] = FALSE] /\ UNCHANGED <<row, sweeping>>
        /\ f \in Uploads => row[f] \in {"deleting", "gone"}
    BY <1>2, <2>1 DEF ReclaimObject, LogoInv, SweepInv
  <2>3. Images' /\ Served(Procs)
    BY <1>0, <2>2, ObjectRemoved
  <2> QED
    BY <1>0, <2>3, AllServed
<1>3. CASE ReclaimRow
  <2>1. PICK f \in Files : f = sweeping
    BY <1>3 DEF ReclaimRow, LogoInv, TypeOK, FileOrNone
  <2>2. /\ row' = Purged(f) /\ object' = object /\ sweeping' = None
        /\ f \in Uploads => row[f] \in {"deleting", "gone"}
    BY <1>3, <2>1 DEF ReclaimRow, LogoInv, SweepInv
  <2>3. /\ \A g \in Files \ {f} : row'[g] = row[g]
        /\ f \in Uploads => row'[f] \in {"deleting", "gone"}
        /\ f \in Uploads => \A o \in Orgs : active[o] # f
    BY <2>2, LogoAssumption
    DEF Purged, LogoInv, TypeOK, UploadedLogoAvailable, Uploads
  <2>4. Images' /\ Served(Procs)
    BY <1>0, <2>2, <2>3, RowRetired
  <2> QED
    BY <1>0, <2>4, AllServed
<1>4. CASE SweepStop
  <2>1. UNCHANGED <<row, object>> /\ sweeping' = None
    BY <1>4 DEF SweepStop, rows
  <2>2. Images'
    BY <1>0, <2>1, LogoAssumption
    DEF LogoInv, Images, UploadedLogoAvailable, StoredInv, ReplayIsCurrent, ImageInv,
        SweepInv, Uploads
  <2>3. Served(Procs)
    BY <1>0, <2>1 DEF LogoInv, WriterInv, ReadInv, Served, Knows, locals
  <2> QED
    BY <1>0, <2>2, <2>3, AllServed
<1> QED
  BY <1>1, <1>2, <1>3, <1>4 DEF Reclaim

-----------------------------------------------------------------------------
(* The steps that move an image.                                           *)

(* The image a command removes is its organization's own, or there is none *)
(* left of the logo it read.                                               *)
LEMMA DetachesOwn ==
    ASSUME LogoInv, NEW c \in Clients, pc[c] \in {"apply", "release"}
    PROVE  /\ cur[c] \in FileOrNone
           /\ \A o \in Orgs : cur[c] # None /\ active[o] = cur[c] => o = org[c]
           /\ \A o \in Orgs \ {org[c]} : Detach(cur[c])[o] = active[o]
           /\ cur[c] \in Uploads /\ row[cur[c]] = "available" => active[org[c]] = cur[c]
<1>1. cur[c] \in FileOrNone
  BY DEF LogoInv, TypeOK, Procs
<1>2. \A o \in Orgs : cur[c] # None /\ active[o] = cur[c] => o = org[c]
  BY <1>1 DEF LogoInv, ReadInv, SeedInv, Uploads, FileOrNone, Procs
<1> QED
  BY <1>1, <1>2 DEF Detach, LogoInv, ReadInv, Procs

LEMMA LogoActivated ==
    ASSUME LogoInv, NEW c \in Clients, Activate(c)
    PROVE  Images' /\ Commands'
<1>0. /\ Clients \subseteq Procs /\ Seeders \subseteq Procs /\ Clients \cap Seeders = {}
      /\ pc[c] = "apply" /\ pc[c] \in Writing /\ None \notin Files /\ SeedFile # None
  BY LogoAssumption DEF Activate, Procs, Writing
<1>1. PICK f \in Uploads, o \in Orgs : f = file[c] /\ o = org[c]
  BY <1>0, Written
<1>2. PICK g \in FileOrNone : g = cur[c]
  BY <1>0, DetachesOwn
<1>3. /\ row[f] = "available" /\ object[f] /\ g # f
      /\ \A x \in Orgs : active[x] # f
      /\ \A q \in Procs : cur[q] # f
      /\ \A d \in Clients \ {c} : pc[d] \in Writing => file[d] \in Files \ {f, g}
  BY <1>0, <1>1, <1>2, Written DEF Knows, Uploads
<1>4. \A x \in Orgs : active'[x] = IF x = o THEN f ELSE active[x]
  <2>1. Detach(g) \in [Orgs -> FileOrNone]
    BY DetachType DEF LogoInv, TypeOK
  <2>2. active' = [Detach(g) EXCEPT ![o] = f]
    BY <1>1, <1>2 DEF Activate
  <2> QED
    BY <1>0, <1>1, <1>2, <2>1, <2>2, DetachesOwn
<1>5. active[o] \in {None, g} /\ \A x \in Orgs \ {o} : active[x] = None \/ active[x] # g
  BY <1>0, <1>1, <1>2, DetachesOwn DEF Activate, Bindable, Detach
<1>6. \A x \in Files : row'[x] = IF x = g THEN "deleting" ELSE row[x]
  BY <1>0, <1>2 DEF Activate, Doom, LogoInv, TypeOK
<1>7. object' = object /\ sweeping' = sweeping /\ view' = [view EXCEPT ![o] = f]
  BY <1>1 DEF Activate, SeeUploaded, sweep
<1>8. /\ pc'[c] \in {"idle", "purgeObject"} /\ cur'[c] \in {None, g} /\ Alone(c)
  BY <1>0, <1>2 DEF Activate, Finish, Goto, LogoInv, TypeOK, Alone
<1>9. Images'
  <2>1. UploadedLogoAvailable'
    BY <1>1, <1>3, <1>4, <1>5, <1>6
    DEF LogoInv, TypeOK, FileOrNone, UploadedLogoAvailable, Uploads
  <2>2. StoredInv'
    BY <1>3, <1>4, <1>7 DEF LogoInv, StoredInv
  <2>3. ReplayIsCurrent'
    <3>1. view = active /\ active \in [Orgs -> FileOrNone]
      BY DEF LogoInv, TypeOK, ReplayIsCurrent
    <3>2. active' \in [Orgs -> FileOrNone]
      BY <1>1, <1>2, <3>1, DetachType DEF Activate, Uploads, FileOrNone
    <3>3. view' = active'
      BY <1>4, <1>7, <3>1, <3>2
    <3> QED
      BY <3>3 DEF ReplayIsCurrent
  <2>4. ImageInv'
    BY <1>3, <1>4 DEF LogoInv, ImageInv
  <2>5. SweepInv'
    BY <1>6, <1>7 DEF LogoInv, SweepInv, Uploads
  <2> QED
    BY <2>1, <2>2, <2>3, <2>4, <2>5 DEF Images
<1>10. WriterInv'
  <2>1. \A d \in Clients \ {c} : Knows(pc[d], file[d])'
    BY <1>0, <1>3, <1>6, <1>7, <1>8 DEF LogoInv, WriterInv, Knows, Alone, Writing
  <2>2. Knows(pc[c], file[c])'
    BY <1>8 DEF Knows
  <2> QED
    BY <2>1, <2>2 DEF WriterInv
<1>11. OwnerInv'
  BY <1>0, <1>2, <1>3, <1>4, <1>8 DEF LogoInv, OwnerInv, Alone, Writing
<1>12. ReadInv'
  <2>1. HasRead(c)'
    BY <1>0, <1>6, <1>8 DEF HasRead, Uploads
  <2>2. ASSUME NEW q \in Procs \ {c}
        PROVE  HasRead(q)'
    <3> SUFFICES ASSUME cur[q] \in Uploads
                 PROVE  /\ row'[cur[q]] \in {"available", "deleting", "gone"}
                        /\ pc[q] \in Purging => row'[cur[q]] \in {"deleting", "gone"}
                        /\ pc[q] \in {"apply", "release"} =>
                              /\ \A x \in Orgs : active'[x] = cur[q] => x = org[q]
                              /\ row'[cur[q]] = "available" => active'[org[q]] = cur[q]
      BY <1>8 DEF HasRead, Alone
    <3>1. row'[cur[q]] = IF cur[q] = g THEN "deleting" ELSE row[cur[q]]
      BY <1>6 DEF Uploads
    <3>2. HasRead(q) /\ cur[q] # f /\ cur[q] # None
      BY <1>0, <1>3, Parts DEF LogoInv, Uploads
    <3>3. pc[q] \in {"apply", "release"} => org[q] \in Orgs
      BY DEF LogoInv, LocalsInv, Writing
    <3> QED
      BY <1>0, <1>4, <1>5, <3>1, <3>2, <3>3 DEF HasRead
  <2> QED
    BY <2>1, <2>2, Parts DEF ReadInv, HasRead
<1>13. SeedInv'
  BY <1>0, <1>1, <1>4, <1>8 DEF LogoInv, SeedInv, Alone, Uploads
<1> QED
  BY <1>9, <1>10, <1>11, <1>12, <1>13 DEF Commands

LEMMA LogoReleased ==
    ASSUME LogoInv, NEW c \in Clients, Release(c)
    PROVE  Images' /\ Commands'
<1>0. /\ Clients \subseteq Procs /\ Seeders \subseteq Procs /\ Clients \cap Seeders = {}
      /\ pc[c] = "release" /\ None \notin Files
  BY LogoAssumption DEF Release, Procs
<1>1. PICK g \in Files, o \in Orgs : g = cur[c] /\ o = org[c]
  BY <1>0 DEF LogoInv, LocalsInv
<1>2. \A x \in Orgs : /\ active[x] = g => x = o
                      /\ active'[x] = IF active[x] = g THEN None ELSE active[x]
  BY <1>0, <1>1, DetachesOwn DEF Release, Detach
<1>3. \A x \in Files : row'[x] = IF x = g THEN "deleting" ELSE row[x]
  BY <1>1 DEF Release, Doom, LogoInv, TypeOK
<1>4. /\ object' = object /\ sweeping' = sweeping
      /\ view' = [view EXCEPT ![o] = IF view[o] = g THEN None ELSE view[o]]
  BY <1>1 DEF Release, SeeDeleted, sweep
<1>5. /\ pc'[c] = "purgeObject" /\ cur'[c] = g /\ Alone(c)
  BY <1>0, <1>1 DEF Release, Goto, LogoInv, TypeOK, Alone
<1>6. \A d \in Clients \ {c} : pc[d] \in Writing => file[d] \in Files \ {g}
  BY <1>0, <1>1, Written DEF Uploads
<1>7. Images'
  <2>1. UploadedLogoAvailable'
    BY <1>2, <1>3 DEF LogoInv, TypeOK, FileOrNone, UploadedLogoAvailable
  <2>2. StoredInv'
    BY <1>0, <1>2, <1>4 DEF LogoInv, StoredInv, Uploads
  <2>3. ReplayIsCurrent'
    <3>1. view = active /\ active \in [Orgs -> FileOrNone]
      BY DEF LogoInv, TypeOK, ReplayIsCurrent
    <3>2. active' \in [Orgs -> FileOrNone]
      BY <1>1, <3>1, DetachType DEF Release, FileOrNone
    <3>3. view' = active'
      BY <1>2, <1>4, <3>1, <3>2
    <3> QED
      BY <3>3 DEF ReplayIsCurrent
  <2>4. ImageInv'
    BY <1>2 DEF LogoInv, ImageInv
  <2>5. SweepInv'
    BY <1>3, <1>4 DEF LogoInv, SweepInv, Uploads
  <2> QED
    BY <2>1, <2>2, <2>3, <2>4, <2>5 DEF Images
<1>8. WriterInv'
  <2>1. \A d \in Clients \ {c} : Knows(pc[d], file[d])'
    BY <1>0, <1>3, <1>4, <1>5, <1>6 DEF LogoInv, WriterInv, Knows, Alone, Writing
  <2>2. Knows(pc[c], file[c])'
    BY <1>5 DEF Knows
  <2> QED
    BY <2>1, <2>2 DEF WriterInv
<1>9. OwnerInv'
  <2>1. \A d \in Clients : pc[d] \in Writing => file[d] # None
    BY <1>0, Written DEF Uploads
  <2> QED
    BY <1>0, <1>1, <1>2, <1>5, <2>1 DEF LogoInv, OwnerInv, Alone, Writing
<1>10. ReadInv'
  <2>1. HasRead(c)'
    BY <1>3, <1>5 DEF HasRead
  <2>2. ASSUME NEW q \in Procs \ {c}
        PROVE  HasRead(q)'
    <3> SUFFICES ASSUME cur[q] \in Uploads
                 PROVE  /\ row'[cur[q]] \in {"available", "deleting", "gone"}
                        /\ pc[q] \in Purging => row'[cur[q]] \in {"deleting", "gone"}
                        /\ pc[q] \in {"apply", "release"} =>
                              /\ \A x \in Orgs : active'[x] = cur[q] => x = org[q]
                              /\ row'[cur[q]] = "available" => active'[org[q]] = cur[q]
      BY <1>5 DEF HasRead, Alone
    <3>1. row'[cur[q]] = IF cur[q] = g THEN "deleting" ELSE row[cur[q]]
      BY <1>3 DEF Uploads
    <3>2. HasRead(q) /\ cur[q] # None
      BY <1>0, Parts DEF LogoInv, Uploads
    <3>3. pc[q] \in {"apply", "release"} => org[q] \in Orgs
      BY DEF LogoInv, LocalsInv, Writing
    <3> QED
      BY <1>0, <1>2, <3>1, <3>2, <3>3 DEF HasRead
  <2> QED
    BY <2>1, <2>2, Parts DEF ReadInv, HasRead
<1>11. SeedInv'
  BY <1>0, <1>2, <1>5, LogoAssumption DEF LogoInv, SeedInv, Alone
<1> QED
  BY <1>7, <1>8, <1>9, <1>10, <1>11 DEF Commands

LEMMA OrganizationGone ==
    ASSUME LogoInv, NEW o \in Orgs, DeleteOrganization(o)
    PROVE  Images' /\ Commands'
<1>1. Images'
  BY ImagesKept DEF LogoInv, Images, DeleteOrganization, sweep, events
<1>2. WriterInv' /\ OwnerInv'
  BY DEF LogoInv, WriterInv, OwnerInv, Knows, DeleteOrganization, locals
<1>3. ReadInv' /\ SeedInv'
  BY DEF LogoInv, ReadInv, SeedInv, DeleteOrganization, locals
<1> QED
  BY <1>1, <1>2, <1>3 DEF Commands

-----------------------------------------------------------------------------
(* A seed's steps touch the state's file alone, until it binds it where no *)
(* image is.                                                               *)

SeedMove(s) ==
    SeedStart(s) \/ Proceed(s) \/ PutLost(s) \/ Stop(s)

LEMMA SeedTouchesItsOwn ==
    ASSUME LogoInv, NEW s \in Seeders, SeedMove(s)
    PROVE  /\ Alone(s) /\ UNCHANGED <<sweeping, sweepPc>>
           /\ \A g \in Uploads : row'[g] = row[g] /\ object'[g] = object[g]
           /\ cur'[s] \in {None, SeedFile}
           /\ pc'[s] \notin Purging => cur'[s] = None
           /\ ~SeedActivate(s) => UNCHANGED <<active, view>>
<1>0. /\ s \in Procs /\ s \notin Clients /\ SeedFile \in Files
      /\ pc[s] # "idle" => file[s] = SeedFile
      /\ cur[s] \in {None, SeedFile} /\ (pc[s] \notin Purging => cur[s] = None)
      /\ pc[s] # "release"
      /\ pc[s] \in Purging => cur[s] = SeedFile
      /\ TypeOK
  BY LogoAssumption DEF LogoInv, LocalsInv, SeedInv, Procs, Purging
<1>1. CASE \/ PutFails(s) \/ CompletedByAnother(s) \/ CompletionRefused(s)
           \/ CompletionFails(s) \/ AbandonNothing(s) \/ HoldRefused(s)
           \/ ActivationFails(s) \/ RetireNothing(s) \/ SeedStart(s) \/ SeedHold(s)
           \/ SeedActivationRefused(s) \/ SeedReread(s) \/ Stop(s)
  <2>1. UNCHANGED <<row, object, active, view, sweeping, sweepPc>>
    BY <1>1
    DEF PutFails, CompletedByAnother, CompletionRefused, CompletionFails,
        AbandonNothing, HoldRefused, ActivationFails, RetireNothing, SeedStart,
        SeedHold, SeedActivationRefused, SeedReread, Stop, rows, sweep, events
  <2>2. \/ Finish(s)
        \/ \E l \in Labels \ Purging :
              /\ pc' = [pc EXCEPT ![s] = l] /\ cur' = cur
              /\ \A q \in Procs \ {s} : file'[q] = file[q] /\ org'[q] = org[q]
              /\ pc[s] \notin Purging
    BY <1>0, <1>1
    DEF PutFails, CompletedByAnother, CompletionRefused, CompletionFails,
        AbandonNothing, HoldRefused, ActivationFails, RetireNothing, SeedStart,
        SeedHold, SeedActivationRefused, SeedReread, Stop, Goto, Labels, Purging, TypeOK
  <2>3. Alone(s) /\ cur'[s] \in {None, SeedFile} /\ (pc'[s] \notin Purging => cur'[s] = None)
    BY <1>0, <2>2 DEF Finish, Goto, Alone, TypeOK
  <2> QED
    BY <2>1, <2>3
<1>2. CASE Put(s) \/ PutLost(s)
  BY <1>0, <1>2 DEF Put, PutLost, Goto, Alone, TypeOK, Uploads, Purging, sweep, events
<1>3. CASE Complete(s)
  BY <1>0, <1>3 DEF Complete, Goto, Alone, TypeOK, Uploads, Purging, sweep, events
<1>4. CASE Abandon(s) \/ Retire(s)
  BY <1>0, <1>4
  DEF Abandon, Retire, Doom, Goto, Alone, TypeOK, Uploads, Purging, sweep, events
<1>5. CASE Unput(s)
  BY <1>0, <1>5 DEF Unput, Finish, Goto, Alone, TypeOK, Uploads, sweep, events
<1>6. CASE PurgeObject(s)
  <2>1. cur[s] = SeedFile
    BY <1>0, <1>6 DEF PurgeObject, Purging
  <2> QED
    BY <1>0, <1>6, <2>1 DEF PurgeObject, Goto, Alone, TypeOK, Uploads, Purging, sweep, events
<1>7. CASE PurgeRow(s)
  <2>1. \A g \in Files \ {SeedFile} : row'[g] = row[g]
    BY <1>0, <1>7 DEF PurgeRow, Purged, Purging, TypeOK
  <2> QED
    BY <1>0, <1>7, <2>1 DEF PurgeRow, Finish, Goto, Alone, TypeOK, Uploads, sweep, events
<1>8. CASE SeedEnsure(s)
  <2>1. \A g \in Files \ {SeedFile} : row'[g] = row[g]
    BY <1>0, <1>8 DEF SeedEnsure, TypeOK
  <2>2. Alone(s) /\ cur'[s] = None
    BY <1>0, <1>8 DEF SeedEnsure, Finish, Goto, Alone, TypeOK, Purging
  <2> QED
    BY <1>8, <2>1, <2>2 DEF SeedEnsure, Uploads, sweep, events
<1>9. CASE SeedActivate(s)
  BY <1>0, <1>9 DEF SeedActivate, Finish, Goto, Alone, TypeOK, Uploads, sweep
<1> QED
  BY <1>0, <1>1, <1>2, <1>3, <1>4, <1>5, <1>6, <1>7, <1>8, <1>9
  DEF SeedMove, Proceed, Hold, Activate, ActivationRefused, Release, ReleaseFails

LEMMA SeedImage ==
    ASSUME LogoInv, NEW s \in Seeders, SeedActivate(s)
    PROVE  /\ active[SeedOrg] = None
           /\ active' = [active EXCEPT ![SeedOrg] = SeedFile]
           /\ view' = [view EXCEPT ![SeedOrg] = SeedFile]
<1>1. cur[s] = None /\ org[s] = SeedOrg
  BY DEF LogoInv, LocalsInv, SeedInv, SeedActivate, Procs, Purging
<1> QED
  BY <1>1, LogoAssumption DEF SeedActivate, Bindable, Detach, SeeUploaded

LEMMA SeedSafe ==
    ASSUME LogoInv, NEW s \in Seeders, SeedMove(s)
    PROVE  Images' /\ Commands'
<1>0. /\ s \in Procs /\ s \notin Clients /\ Clients \subseteq Procs
      /\ Seeders \subseteq Procs /\ None \notin Files /\ SeedFile # None
      /\ SeedOrg \in Orgs
  BY LogoAssumption DEF Procs
<1>1. /\ Alone(s) /\ sweeping' = sweeping
      /\ \A g \in Uploads : row'[g] = row[g] /\ object'[g] = object[g]
      /\ cur'[s] \in {None, SeedFile}
      /\ pc'[s] \notin Purging => cur'[s] = None
  BY SeedTouchesItsOwn
(* The images: none changes, or the seed's comes where none is.            *)
<1>2. \A o \in Orgs :
          \/ active'[o] = active[o]
          \/ o = SeedOrg /\ active[o] = None /\ active'[o] = SeedFile
  BY SeedTouchesItsOwn, SeedImage DEF LogoInv, TypeOK
<1>3. view' = active'
  BY SeedTouchesItsOwn, SeedImage DEF LogoInv, ReplayIsCurrent
<1>4. Images'
  <2>1. UploadedLogoAvailable' /\ StoredInv'
    BY <1>1, <1>2
    DEF LogoInv, TypeOK, FileOrNone, UploadedLogoAvailable, StoredInv, Uploads
  <2>2. ImageInv'
    BY <1>2 DEF LogoInv, ImageInv, SeedInv
  <2>3. SweepInv'
    BY <1>1 DEF LogoInv, SweepInv
  <2> QED
    BY <1>3, <2>1, <2>2, <2>3 DEF Images, ReplayIsCurrent
<1>5. WriterInv'
  <2> SUFFICES ASSUME NEW d \in Clients
               PROVE  Knows(pc[d], file[d])'
    BY DEF WriterInv
  <2>1. pc'[d] = pc[d] /\ file'[d] = file[d]
    BY <1>0, <1>1 DEF Alone
  <2>2. CASE pc[d] \in Writing
    BY <1>1, <2>1, <2>2, Written DEF Knows
  <2>3. CASE pc[d] \notin Writing
    BY <2>1, <2>3 DEF Knows, Writing
  <2> QED
    BY <2>2, <2>3
<1>6. OwnerInv'
  BY <1>0, <1>1, <1>2, Written DEF LogoInv, OwnerInv, Alone, Uploads
<1>7. ReadInv'
  <2>1. HasRead(s)'
    BY <1>0, <1>1 DEF HasRead, Uploads
  <2>2. ASSUME NEW q \in Procs \ {s}
        PROVE  HasRead(q)'
    <3> SUFFICES ASSUME cur[q] \in Uploads
                 PROVE  /\ row'[cur[q]] \in {"available", "deleting", "gone"}
                        /\ pc[q] \in Purging => row'[cur[q]] \in {"deleting", "gone"}
                        /\ pc[q] \in {"apply", "release"} =>
                              /\ \A x \in Orgs : active'[x] = cur[q] => x = org[q]
                              /\ row'[cur[q]] = "available" => active'[org[q]] = cur[q]
      BY <1>1 DEF HasRead, Alone
    <3>1. row'[cur[q]] = row[cur[q]] /\ cur[q] \notin {None, SeedFile}
      BY <1>0, <1>1 DEF Uploads
    <3>2. HasRead(q)
      BY Parts DEF LogoInv
    <3>3. pc[q] \in {"apply", "release"} => org[q] \in Orgs
      BY DEF LogoInv, LocalsInv, Writing
    <3> QED
      BY <1>2, <3>1, <3>2, <3>3 DEF HasRead
  <2> QED
    BY <2>1, <2>2, Parts DEF ReadInv, HasRead
<1>8. SeedInv'
  BY <1>0, <1>1, <1>2 DEF LogoInv, SeedInv, Alone, Purging
<1> QED
  BY <1>4, <1>5, <1>6, <1>7, <1>8 DEF Commands

-----------------------------------------------------------------------------
LEMMA SafeStep ==
    ASSUME LogoInv, [Next]_vars
    PROVE  Images' /\ Commands'
<1>1. CASE UNCHANGED vars
  <2>1. Images'
    BY <1>1, ImagesKept DEF LogoInv, Images, vars, rows, sweep, events
  <2>2. WriterInv' /\ OwnerInv'
    BY <1>1 DEF LogoInv, WriterInv, OwnerInv, Knows, vars, rows, locals
  <2>3. ReadInv' /\ SeedInv'
    BY <1>1 DEF LogoInv, ReadInv, SeedInv, vars, rows, locals
  <2> QED
    BY <2>1, <2>2, <2>3 DEF Commands
<1>2. ASSUME NEW c \in Clients, CreatePending(c) \/ ReadLogo(c)
      PROVE  Images' /\ Commands'
  BY <1>2, FileCreated, LogoRead
<1>3. ASSUME NEW s \in Seeders, SeedStart(s)
      PROVE  Images' /\ Commands'
  BY <1>3, SeedSafe DEF SeedMove
<1>4. ASSUME NEW p \in Procs, Proceed(p) \/ PutLost(p) \/ Stop(p)
      PROVE  Images' /\ Commands'
  <2>1. CASE p \in Seeders
    BY <1>4, <2>1, SeedSafe DEF SeedMove
  <2>2. CASE p \in Clients
    <3>0. p \notin Seeders
      BY <2>2, LogoAssumption
    <3>1. ~SeedEnsure(p) /\ ~SeedReread(p)
      BY <1>4, <3>0 DEF SeedEnsure, SeedReread, LogoInv, LocalsInv
    <3>2. ~SeedHold(p) /\ ~SeedActivate(p) /\ ~SeedActivationRefused(p)
      BY <3>0 DEF SeedHold, SeedActivate, SeedActivationRefused
    <3>3. CASE \/ PutFails(p) \/ CompletedByAnother(p) \/ CompletionRefused(p)
               \/ CompletionFails(p) \/ AbandonNothing(p) \/ HoldRefused(p)
               \/ ActivationRefused(p) \/ ActivationFails(p) \/ RetireNothing(p)
               \/ ReleaseFails(p) \/ Stop(p)
      BY <2>2, <3>3, QuietCommand
    <3>4. CASE \/ Put(p) \/ PutLost(p) \/ Complete(p) \/ Hold(p)
      BY <2>2, <3>4, FilePut, FileCompleted, LogoRead
    <3>5. CASE \/ Unput(p) \/ PurgeObject(p) \/ PurgeRow(p) \/ Abandon(p) \/ Retire(p)
      BY <2>2, <3>5, FilePurged, FileRetires
    <3>6. CASE \/ Activate(p) \/ Release(p)
      BY <2>2, <3>6, LogoActivated, LogoReleased
    <3> QED
      BY <1>4, <3>1, <3>2, <3>3, <3>4, <3>5, <3>6 DEF Proceed
  <2> QED
    BY <2>1, <2>2 DEF Procs
<1>5. ASSUME NEW o \in Orgs, DeleteOrganization(o)
      PROVE  Images' /\ Commands'
  BY <1>5, OrganizationGone
<1>6. CASE Reclaim \/ SweepStop
  BY <1>6, ReclaimSafe
<1> QED
  BY <1>1, <1>2, <1>3, <1>4, <1>5, <1>6 DEF Next

LEMMA SafeInit ==
    ASSUME Init
    PROVE  LogoInv
<1>1. TypeOK /\ LocalsInv
  BY LogoAssumption DEF Init, TypeOK, LocalsInv, Writing, Purging, Status, Labels,
                        Refusals, OrgOrNone, FileOrNone
<1>2. /\ \A o \in Orgs : active[o] = None
      /\ \A p \in Procs : pc[p] = "idle" /\ cur[p] = None
      /\ view = active /\ sweeping = None
      /\ None \notin Uploads /\ SeedFile # None
      /\ Clients \subseteq Procs /\ Seeders \subseteq Procs
  BY LogoAssumption DEF Init, Uploads, Procs
<1>3. Images
  BY <1>2 DEF Images, UploadedLogoAvailable, StoredInv, ReplayIsCurrent, ImageInv, SweepInv
<1>4. Commands
  BY <1>2 DEF Commands, WriterInv, OwnerInv, ReadInv, SeedInv, Knows, Writing
<1> QED
  BY <1>1, <1>3, <1>4, Parts

(* The inductive invariant, with any clients and seed runs.                *)
THEOREM LogoSafe == Spec => []LogoInv
<1>1. LogoInv /\ [Next]_vars => LogoInv'
  <2> SUFFICES ASSUME LogoInv, [Next]_vars
               PROVE  LogoInv'
    OBVIOUS
  <2>1. TypeOK' /\ LocalsInv'
    BY TypeStep DEF LogoInv
  <2>2. Images' /\ Commands'
    BY SafeStep
  <2> QED
    BY <2>1, <2>2 DEF LogoInv, Images, Commands
<1> QED
  BY <1>1, SafeInit, PTL DEF Spec

(* An active logo that a client uploaded is never a file being deleted,    *)
(* whatever requests, reclaims and seed runs interleave.                   *)
THEOREM UploadsAvailable == Spec => []UploadedLogoAvailable
<1>1. LogoInv => UploadedLogoAvailable
  BY DEF LogoInv
<1> QED
  BY <1>1, LogoSafe, PTL

(* Its object is in the store: no purge, abandon, refused write or reclaim *)
(* of another file reaches it, a seed's late ones included.                *)
THEOREM UploadsStored == Spec => []StoredInv
<1>1. LogoInv => StoredInv
  BY DEF LogoInv
<1> QED
  BY <1>1, LogoSafe, PTL

(* The committed events, applied by file id, replay to the active logos,   *)
(* a repeated DELETE's event and a seed's among them.                      *)
THEOREM LogosReplay == Spec => []ReplayIsCurrent
<1>1. LogoInv => ReplayIsCurrent
  BY DEF LogoInv
<1> QED
  BY <1>1, LogoSafe, PTL

-----------------------------------------------------------------------------
(* A leak takes a fault.  Which files are spent, per file: its object was  *)
(* stored past its purge and no writer will take it back, or it is         *)
(* available with no image and no writer.                                  *)

Strayed(f) ==
    /\ object[f] /\ PastObject(f)
    /\ \A c \in Clients : pc[c] \in {"complete", "unput"} => file[c] # f
Loose(f) ==
    /\ row[f] = "available" /\ ~Bound(f)
    /\ \A c \in Clients : pc[c] \in Writing => file[c] # f

(* The step spends f only if f was spent.                                  *)
SpendsNot(f) == (Strayed(f) \/ Loose(f))' => Strayed(f) \/ Loose(f)

(* What one command's step must see to for that: a row goes, and an object *)
(* comes, only with its owner; a writer that leaves its file leaves it     *)
(* deleting, bound or without object, or finds its row as it left it.      *)
Careful(c, f) ==
    /\ row'[f] = "gone" => PastObject(f)
    /\ pc'[c] = "purgeRow" /\ cur'[c] = f => ~object'[f]
    /\ object'[f] => object[f] \/ (pc'[c] = "complete" /\ file'[c] = f)
    /\ row'[f] = "available" =>
          /\ row[f] = "available" \/ (pc'[c] \in Writing /\ file'[c] = f)
          /\ (\E o \in Orgs : active[o] = f) => \E o \in Orgs : active'[o] = f
    /\ pc[c] \in Writing /\ file[c] = f =>
          \/ pc'[c] \in Writing /\ file'[c] = f
          \/ row'[f] # "available"
          \/ \E o \in Orgs : active'[o] = f
    /\ pc[c] \in {"complete", "unput"} /\ file[c] = f =>
          \/ pc'[c] \in {"complete", "unput"} /\ file'[c] = f
          \/ ~object'[f]
          \/ row[f] = "pending" /\ row'[f] # "gone"

LEMMA CarefulSpendsNot ==
    ASSUME LogoInv, NEW c \in Clients, NEW f \in Uploads, Alone(c),
           UNCHANGED <<sweeping, sweepPc>>, Careful(c, f)
    PROVE  SpendsNot(f)
<1>0. Clients \subseteq Procs
  BY DEF Procs
<1>1. ASSUME Loose(f)'
      PROVE  Loose(f)
  <2>1. row[f] = "available" /\ ~Bound(f)
    BY <1>1 DEF Loose, Bound, Careful
  <2>2. ASSUME NEW d \in Clients, pc[d] \in Writing, file[d] = f
        PROVE  FALSE
    <3>1. CASE d = c
      BY <1>1, <2>2, <3>1 DEF Loose, Bound, Careful
    <3>2. CASE d # c
      BY <1>0, <1>1, <2>2, <3>2 DEF Loose, Alone
    <3> QED
      BY <3>1, <3>2
  <2> QED
    BY <2>1, <2>2 DEF Loose
<1>2. ASSUME Strayed(f)'
      PROVE  Strayed(f)
  <2>1. object[f]
    BY <1>2 DEF Strayed, Careful
  <2>2. PastObject(f)
    <3>1. CASE row'[f] = "gone"
      BY <3>1 DEF Careful
    <3>2. CASE sweeping' = f /\ sweepPc' = "row"
      BY <3>2 DEF PastObject
    <3>3. ASSUME NEW q \in Procs, pc'[q] = "purgeRow", cur'[q] = f
          PROVE  PastObject(f)
      <4>1. q # c
        BY <1>2, <3>3 DEF Strayed, Careful
      <4> QED
        BY <3>3, <4>1 DEF Alone, PastObject
    <3> QED
      BY <1>2, <3>1, <3>2, <3>3 DEF Strayed, PastObject
  <2>3. ASSUME NEW d \in Clients, pc[d] \in {"complete", "unput"}, file[d] = f
        PROVE  FALSE
    <3>1. CASE d = c
      <4>1. row[f] = "pending"
        BY <1>2, <2>3, <3>1 DEF Strayed, Careful
      <4>2. pc[c] \in Writing /\ \A q \in Procs : cur[q] # f
        BY <2>3, <3>1, Written DEF Writing
      <4>3. ~PastObject(f)
        BY <4>1, <4>2 DEF PastObject, LogoInv, SweepInv
      <4> QED
        BY <2>2, <4>3
    <3>2. CASE d # c
      BY <1>0, <1>2, <2>3, <3>2 DEF Strayed, Alone
    <3> QED
      BY <3>1, <3>2
  <2> QED
    BY <2>1, <2>2, <2>3 DEF Strayed
<1> QED
  BY <1>1, <1>2 DEF SpendsNot

(* A client's step is careful with every file, but the one it writes when  *)
(* it dies or loses the answer of a put.                                   *)
LEMMA ClientCareful ==
    ASSUME LogoInv, NEW c \in Clients, NEW f \in Uploads,
           \/ CreatePending(c) \/ ReadLogo(c) \/ Proceed(c)
           \/ (PutLost(c) \/ Stop(c)) /\ file[c] # f
    PROVE  Alone(c) /\ UNCHANGED <<sweeping, sweepPc>> /\ Careful(c, f)
<1>0. /\ c \in Procs /\ c \notin Seeders /\ f \in Files /\ TypeOK
      /\ pc[c] \in Writing =>
            /\ file[c] \in Files /\ Knows(pc[c], file[c])
            /\ \A q \in Procs : cur[q] # file[c]
            /\ \A o \in Orgs : active[o] # file[c]
  BY LogoAssumption, Written DEF Procs, LogoInv, Uploads
<1>1. CASE \/ PutFails(c) \/ CompletionRefused(c) \/ CompletionFails(c)
           \/ ActivationRefused(c) \/ ActivationFails(c)
  <2>1. /\ UNCHANGED <<row, object, active, sweeping, sweepPc, file, cur, org>>
        /\ pc[c] \in Writing /\ (pc[c] = "complete" => pc'[c] = "unput" \/ row[file[c]] = "pending")
        /\ pc[c] # "unput"
        /\ Alone(c) /\ pc'[c] \in {"abandon", "unput", "retire"}
    BY <1>0, <1>1
    DEF PutFails, CompletionRefused, CompletionFails, ActivationRefused, ActivationFails,
        Goto, Alone, TypeOK, rows, sweep, Writing
  <2> QED
    BY <2>1 DEF Careful, Writing, PastObject
<1>2. CASE \/ AbandonNothing(c) \/ RetireNothing(c) \/ ReleaseFails(c)
           \/ (Stop(c) /\ file[c] # f)
  <2>1. /\ UNCHANGED <<row, object, active, sweeping, sweepPc>>
        /\ Alone(c) /\ pc'[c] = "idle" /\ file'[c] = None
    BY <1>0, <1>2
    DEF AbandonNothing, RetireNothing, ReleaseFails, Stop, Finish, Goto, Alone, TypeOK,
        rows, sweep
  <2>2. pc[c] \in Writing /\ file[c] = f =>
           row[f] # "available" /\ pc[c] \notin {"complete", "unput"}
    BY <1>0, <1>2 DEF AbandonNothing, RetireNothing, ReleaseFails, Knows, Writing
  <2> QED
    BY <2>1, <2>2 DEF Careful, Writing, PastObject
<1>3. CASE Hold(c) \/ ReadLogo(c)
  <2>1. /\ UNCHANGED <<row, object, active, sweeping, sweepPc, file>>
        /\ Alone(c) /\ pc'[c] \in {"apply", "release"}
        /\ pc[c] = "idle" \/ (pc[c] = "activate" /\ pc'[c] = "apply")
    BY <1>0, <1>3 DEF Hold, ReadLogo, Goto, Alone, TypeOK, rows, sweep
  <2> QED
    BY <2>1 DEF Careful, Writing, PastObject
<1>4. CASE CreatePending(c)
  <2>1. /\ UNCHANGED <<object, active, sweeping, sweepPc>>
        /\ Alone(c) /\ pc'[c] = "put" /\ pc[c] = "idle"
        /\ row'[f] \in {row[f], "pending"}
    BY <1>0, <1>4 DEF CreatePending, Goto, Alone, TypeOK, sweep
  <2> QED
    BY <2>1 DEF Careful, Writing, PastObject
<1>5. CASE Put(c) \/ (PutLost(c) /\ file[c] # f)
  <2>1. /\ UNCHANGED <<row, active, sweeping, sweepPc, file>>
        /\ Alone(c) /\ pc'[c] \in {"complete", "abandon"} /\ pc[c] = "put"
        /\ file[c] = f => pc'[c] = "complete"
        /\ file[c] # f => object'[f] = object[f]
    BY <1>0, <1>5 DEF Put, PutLost, Goto, Alone, TypeOK, sweep
  <2> QED
    BY <2>1 DEF Careful, Writing, PastObject
<1>6. CASE Complete(c)
  <2>1. /\ UNCHANGED <<object, active, sweeping, sweepPc, file>>
        /\ Alone(c) /\ pc'[c] = "activate" /\ pc[c] = "complete"
        /\ file[c] = f => row[f] = "pending" /\ row'[f] = "available"
        /\ file[c] # f => row'[f] = row[f]
    BY <1>0, <1>6 DEF Complete, Goto, Alone, TypeOK, sweep
  <2> QED
    BY <1>0, <2>1 DEF Careful, Writing, PastObject
<1>7. CASE Unput(c)
  <2>1. /\ UNCHANGED <<row, active, sweeping, sweepPc>>
        /\ Alone(c) /\ pc'[c] = "idle" /\ pc[c] = "unput"
        /\ object'[f] = IF file[c] = f THEN FALSE ELSE object[f]
    BY <1>0, <1>7 DEF Unput, Finish, Goto, Alone, TypeOK, sweep
  <2>2. file[c] = f => row[f] # "available"
    BY <1>0, <2>1 DEF Knows, Writing
  <2> QED
    BY <2>1, <2>2 DEF Careful, Writing, PastObject
<1>8. CASE Abandon(c) \/ Retire(c)
  <2>1. /\ UNCHANGED <<object, active, sweeping, sweepPc>>
        /\ Alone(c) /\ pc'[c] = "purgeObject" /\ pc[c] \in {"abandon", "retire"}
        /\ row'[f] = IF file[c] = f THEN "deleting" ELSE row[f]
    BY <1>0, <1>8 DEF Abandon, Retire, Doom, Goto, Alone, TypeOK, sweep
  <2> QED
    BY <2>1 DEF Careful, Writing, PastObject
<1>9. CASE PurgeObject(c)
  <2>1. /\ UNCHANGED <<row, active, sweeping, sweepPc, cur>>
        /\ Alone(c) /\ pc'[c] = "purgeRow" /\ pc[c] = "purgeObject"
        /\ object'[f] = IF cur[c] = f THEN FALSE ELSE object[f]
    BY <1>0, <1>9 DEF PurgeObject, Goto, Alone, TypeOK, sweep
  <2> QED
    BY <2>1 DEF Careful, Writing, PastObject
<1>10. CASE PurgeRow(c)
  <2>1. /\ UNCHANGED <<object, active, sweeping, sweepPc>>
        /\ Alone(c) /\ pc'[c] = "idle" /\ pc[c] = "purgeRow"
        /\ row'[f] \in {row[f], "gone"} /\ (row'[f] # row[f] => cur[c] = f)
    BY <1>0, <1>10 DEF PurgeRow, Purged, Finish, Goto, Alone, TypeOK, sweep
  <2> QED
    BY <1>0, <2>1 DEF Careful, Writing, PastObject
<1>11. CASE Activate(c)
  <2>1. pc[c] = "apply" /\ pc[c] \in Writing /\ org[c] \in Orgs
    BY <1>0, <1>11 DEF Activate, Writing, LogoInv, LocalsInv
  <2>2. /\ UNCHANGED <<object, sweeping, sweepPc>>
        /\ Alone(c) /\ pc'[c] \in {"idle", "purgeObject"}
        /\ row'[f] = IF cur[c] = f THEN "deleting" ELSE row[f]
    BY <1>0, <1>11, LogoAssumption DEF Activate, Doom, Finish, Goto, Alone, TypeOK, sweep
  <2>3. /\ active'[org[c]] = file[c]
        /\ \A o \in Orgs \ {org[c]} : active'[o] = active[o]
        /\ active[org[c]] \in {None, cur[c]}
    <3>1. Detach(cur[c]) \in [Orgs -> FileOrNone]
      BY <1>0, DetachType DEF TypeOK
    <3> QED
      BY <1>11, <2>1, <3>1, DetachesOwn DEF Activate, Bindable, Detach
  <2> QED
    BY <1>0, <2>1, <2>2, <2>3, LogoAssumption DEF Careful, Writing, PastObject
<1>12. CASE Release(c)
  <2>1. /\ UNCHANGED <<object, sweeping, sweepPc>>
        /\ Alone(c) /\ pc'[c] = "purgeObject" /\ pc[c] = "release"
        /\ row'[f] = IF cur[c] = f THEN "deleting" ELSE row[f]
        /\ \A o \in Orgs : active'[o] \in {None, active[o]} /\ (active'[o] # active[o] => active[o] = cur[c])
    BY <1>0, <1>12 DEF Release, Doom, Detach, Goto, Alone, TypeOK, sweep
  <2> QED
    BY <2>1 DEF Careful, Writing, PastObject
<1>13. CASE CompletedByAnother(c) \/ HoldRefused(c) \/ SeedEnsure(c) \/ SeedReread(c)
  BY <1>0, <1>13
  DEF CompletedByAnother, HoldRefused, SeedEnsure, SeedReread, LogoInv, LocalsInv, Knows,
      Writing
<1> QED
  BY <1>0, <1>1, <1>2, <1>3, <1>4, <1>5, <1>6, <1>7, <1>8, <1>9, <1>10, <1>11, <1>12, <1>13
  DEF Proceed, SeedHold, SeedActivate, SeedActivationRefused

LEMMA SeedSpendsNot ==
    ASSUME LogoInv, NEW s \in Seeders, SeedMove(s), NEW f \in Uploads
    PROVE  SpendsNot(f)
<1>1. /\ s \in Procs /\ s \notin Clients /\ Clients \subseteq Procs /\ f # None /\ f # SeedFile
  BY LogoAssumption DEF Procs, Uploads
<1>2. /\ Alone(s) /\ UNCHANGED <<sweeping, sweepPc>>
      /\ row'[f] = row[f] /\ object'[f] = object[f] /\ cur'[s] # f
  BY <1>1, SeedTouchesItsOwn
<1>3. Bound(f) => Bound(f)'
  BY <1>1, SeedTouchesItsOwn, SeedImage DEF Bound, LogoInv, TypeOK
<1>4. \A c \in Clients : pc'[c] = pc[c] /\ file'[c] = file[c]
  BY <1>1, <1>2 DEF Alone
<1>5. PastObject(f)' => PastObject(f)
  BY <1>2 DEF PastObject, Alone
<1> QED
  BY <1>2, <1>3, <1>4, <1>5 DEF SpendsNot, Strayed, Loose

LEMMA ReclaimSpendsNot ==
    ASSUME LogoInv, Reclaim \/ SweepStop, NEW f \in Uploads
    PROVE  SpendsNot(f)
<1>1. /\ UNCHANGED <<active, pc, file, cur>> /\ f # None /\ f \in Files /\ TypeOK
  BY LogoAssumption
  DEF Reclaim, ReclaimBegin, ReclaimObject, ReclaimRow, SweepStop, rows, locals, Uploads,
      LogoInv
<1>2. /\ row'[f] = "available" => row[f] = "available"
      /\ object'[f] => object[f]
  BY <1>1
  DEF Reclaim, ReclaimBegin, ReclaimObject, ReclaimRow, SweepStop, rows, Doom, Purged, TypeOK
<1>3. row'[f] = "gone" => row[f] = "gone" \/ (sweeping = f /\ sweepPc = "row")
  BY <1>1
  DEF Reclaim, ReclaimBegin, ReclaimObject, ReclaimRow, SweepStop, rows, Doom, Purged, TypeOK
<1>4. object'[f] /\ sweeping' = f /\ sweepPc' = "row" => sweeping = f /\ sweepPc = "row"
  BY <1>1
  DEF Reclaim, ReclaimBegin, ReclaimObject, ReclaimRow, SweepStop, TypeOK
<1>5. Loose(f)' => Loose(f)
  BY <1>1, <1>2 DEF Loose, Bound
<1>6. Strayed(f)' => Strayed(f)
  BY <1>1, <1>2, <1>3, <1>4 DEF Strayed, PastObject
<1> QED
  BY <1>5, <1>6 DEF SpendsNot

(* A step that is not a fault spends no file, and a fault at most one.     *)
LEMMA SpentStep ==
    ASSUME LogoInv, [Next]_vars
    PROVE  \/ Spent' \subseteq Spent /\ faults' \in {faults, faults + 1}
           \/ \E g \in FileOrNone : Spent' \subseteq Spent \cup {g} /\ faults' = faults + 1
<1>0. /\ Spent = {f \in Uploads : Strayed(f) \/ Loose(f)}
      /\ Spent' = {f \in Uploads : (Strayed(f) \/ Loose(f))'}
  BY DEF Spent, Strayed, Loose
<1>1. ASSUME \A f \in Uploads : SpendsNot(f)
      PROVE  Spent' \subseteq Spent
  BY <1>0, <1>1 DEF SpendsNot
<1>2. CASE UNCHANGED vars
  BY <1>2 DEF vars, rows, locals, sweep, Spent, PastObject, Bound
<1>3. ASSUME NEW c \in Clients, CreatePending(c) \/ ReadLogo(c) \/ Proceed(c)
      PROVE  Spent' \subseteq Spent
  BY <1>1, <1>3, ClientCareful, CarefulSpendsNot
<1>4. ASSUME NEW c \in Clients, PutLost(c) \/ Stop(c)
      PROVE  \E g \in FileOrNone : Spent' \subseteq Spent \cup {g} /\ faults' = faults + 1
  <2>1. PICK g \in FileOrNone : g = file[c]
    BY DEF LogoInv, TypeOK, Procs
  <2>2. \A f \in Uploads \ {g} : SpendsNot(f)
    BY <1>4, <2>1, ClientCareful, CarefulSpendsNot
  <2>3. Spent' \subseteq Spent \cup {g}
    BY <1>0, <2>2 DEF SpendsNot
  <2> QED
    BY <1>4, <2>3 DEF PutLost, Stop
<1>5. ASSUME NEW s \in Seeders, SeedMove(s)
      PROVE  Spent' \subseteq Spent
  BY <1>1, <1>5, SeedSpendsNot
<1>6. ASSUME NEW o \in Orgs, DeleteOrganization(o)
      PROVE  Spent' \subseteq Spent
  BY <1>6 DEF DeleteOrganization, locals, sweep, Spent, PastObject, Bound
<1>7. ASSUME Reclaim \/ SweepStop
      PROVE  Spent' \subseteq Spent
  BY <1>1, <1>7, ReclaimSpendsNot
<1>8. \/ \E p \in Procs : PutLost(p) \/ Stop(p)
      \/ faults' \in {faults, faults + 1}
  BY DEF Next, vars, CreatePending, ReadLogo, SeedStart, DeleteOrganization, Reclaim,
         ReclaimBegin, ReclaimObject, ReclaimRow, SweepStop, Proceed, Put, PutFails,
         Complete, CompletedByAnother, CompletionRefused, CompletionFails, Unput, Abandon,
         AbandonNothing, Hold, HoldRefused, Activate, ActivationRefused, ActivationFails,
         Retire, RetireNothing, PurgeObject, PurgeRow, Release, ReleaseFails, SeedEnsure,
         SeedHold, SeedActivate, SeedActivationRefused, SeedReread
<1>9. ASSUME NEW p \in Procs, PutLost(p) \/ Stop(p)
      PROVE  faults' = faults + 1
  BY <1>9 DEF PutLost, Stop
<1> QED
  BY <1>2, <1>3, <1>4, <1>5, <1>6, <1>7, <1>8, <1>9 DEF Next, SeedMove, Procs

LEMMA LeaksBounded == Spec => []LeakInv
<1>1. Init => LeakInv
  <2>1. Init => Spent = {}
    BY LogoAssumption DEF Init, Spent, PastObject, Uploads, Procs
  <2> QED
    BY <2>1, FS_EmptySet DEF Init, LeakInv
<1>2. LogoInv /\ LeakInv /\ [Next]_vars => LeakInv'
  <2> SUFFICES ASSUME LogoInv, LeakInv, [Next]_vars
               PROVE  LeakInv'
    OBVIOUS
  <2>1. IsFiniteSet(Spent) /\ Cardinality(Spent) \in Nat /\ Cardinality(Spent) <= faults
        /\ faults \in Nat
    BY FS_CardinalityType, LogoAssumption DEF LeakInv, LogoInv, TypeOK
  <2>2. CASE Spent' \subseteq Spent /\ faults' \in {faults, faults + 1}
    <3>1. IsFiniteSet(Spent') /\ Cardinality(Spent') <= Cardinality(Spent)
      BY <2>1, <2>2, FS_Subset
    <3>2. Cardinality(Spent') \in Nat
      BY <3>1, FS_CardinalityType
    <3> QED
      BY <2>1, <2>2, <3>1, <3>2 DEF LeakInv
  <2>3. ASSUME NEW g \in FileOrNone, Spent' \subseteq Spent \cup {g}, faults' = faults + 1
        PROVE  LeakInv'
    <3>1. /\ IsFiniteSet(Spent \cup {g})
          /\ Cardinality(Spent \cup {g}) \in {Cardinality(Spent), Cardinality(Spent) + 1}
      BY <2>1, FS_AddElement
    <3>2. IsFiniteSet(Spent') /\ Cardinality(Spent') <= Cardinality(Spent \cup {g})
      BY <2>3, <3>1, FS_Subset
    <3>3. Cardinality(Spent') \in Nat
      BY <3>2, FS_CardinalityType
    <3> QED
      BY <2>1, <2>3, <3>1, <3>2, <3>3 DEF LeakInv
  <2> QED
    BY <2>2, <2>3, SpentStep
<1> QED
  BY <1>1, <1>2, LogoSafe, PTL DEF Spec

(* Hang-ups, lost races and refused puts leak no file or object: each that *)
(* leaked took a crash or a failed clean-up of its own (putLogo, the       *)
(* blobfs protocol).                                                       *)
THEOREM LeaksTakeFaults == Spec => []LeaksNeedFaults
<1>1. LogoInv /\ LeakInv => LeaksNeedFaults
  <2> SUFFICES ASSUME LogoInv, LeakInv
               PROVE  LeaksNeedFaults
    OBVIOUS
  <2> DEFINE Leaks == {f \in Files : Leaked(f)}
  <2>1. Leaks \subseteq Spent
    BY DEF Leaked, Spent, PastObject, Uploads, Procs
  <2>2. IsFiniteSet(Spent) /\ Cardinality(Spent) <= faults /\ faults \in Nat
    BY LogoAssumption DEF LeakInv, LogoInv, TypeOK
  <2>3. IsFiniteSet(Leaks) /\ Cardinality(Leaks) <= Cardinality(Spent)
    BY <2>1, <2>2, FS_Subset
  <2>4. Cardinality(Leaks) \in Nat /\ Cardinality(Spent) \in Nat
    BY <2>2, <2>3, FS_CardinalityType
  <2> QED
    BY <2>2, <2>3, <2>4 DEF LeaksNeedFaults
<1> QED
  BY <1>1, LogoSafe, LeaksBounded, PTL

-----------------------------------------------------------------------------
(* One seed run at a time keeps what two break: while it runs, no image    *)
(* binds the state's file, and the file it is about to bind stays          *)
(* available.                                                              *)

OneSeed == \A s, t \in Seeders : s = t

OneSeedInv ==
    /\ \A o \in Orgs : active[o] = SeedFile => row[SeedFile] = "available"
    /\ \A s \in Seeders :
          /\ pc[s] # "idle" => \A o \in Orgs : active[o] # SeedFile
          /\ pc[s] = "apply" => row[SeedFile] = "available"

(* A client binds no such file, and where it begins its delete the image   *)
(* goes in the same commit, and no run that holds the row is about to bind.*)
LEMMA ClientSparesSeed ==
    ASSUME LogoInv, NEW c \in Clients,
           CreatePending(c) \/ ReadLogo(c) \/ Proceed(c) \/ PutLost(c) \/ Stop(c)
    PROVE  /\ \A q \in Seeders : pc'[q] = pc[q]
           /\ \A o \in Orgs : active'[o] = SeedFile => active[o] = SeedFile
           /\ row[SeedFile] = "available" /\ row'[SeedFile] # "available" =>
                 /\ \A o \in Orgs : active'[o] # SeedFile
                 /\ \A q \in Procs \ {c} : pc[q] = "apply" => file[q] # SeedFile
<1>0. /\ c \in Procs /\ c \notin Seeders /\ Seeders \subseteq Procs /\ TypeOK
      /\ SeedFile \in Files /\ SeedFile # None
      /\ pc[c] \in Writing => file[c] \in Uploads
  BY LogoAssumption, Written DEF Procs, LogoInv
<1>1. CASE \/ PutFails(c) \/ CompletionRefused(c) \/ CompletionFails(c)
           \/ ActivationRefused(c) \/ ActivationFails(c) \/ Hold(c) \/ ReadLogo(c)
           \/ Put(c) \/ PutLost(c) \/ PurgeObject(c)
  BY <1>0, <1>1
  DEF PutFails, CompletionRefused, CompletionFails, ActivationRefused, ActivationFails,
      Hold, ReadLogo, Put, PutLost, PurgeObject, Goto, TypeOK, rows
<1>2. CASE \/ AbandonNothing(c) \/ RetireNothing(c) \/ ReleaseFails(c) \/ Stop(c) \/ Unput(c)
  BY <1>0, <1>2
  DEF AbandonNothing, RetireNothing, ReleaseFails, Stop, Unput, Finish, Goto, TypeOK, rows
<1>3. CASE CreatePending(c) \/ Complete(c)
  BY <1>0, <1>3 DEF CreatePending, Complete, Goto, TypeOK, Writing, Uploads
<1>4. CASE Abandon(c) \/ Retire(c)
  BY <1>0, <1>4 DEF Abandon, Retire, Doom, Goto, TypeOK, Writing, Uploads
<1>5. CASE PurgeRow(c)
  BY <1>0, <1>5 DEF PurgeRow, Purged, Finish, Goto, TypeOK
<1>6. CASE Activate(c)
  <2>1. pc[c] = "apply" /\ org[c] \in Orgs /\ file[c] # SeedFile
    BY <1>0, <1>6 DEF Activate, Writing, LogoInv, LocalsInv, Uploads
  <2>2. \A o \in Orgs : active'[o] = IF o = org[c] THEN file[c] ELSE Detach(cur[c])[o]
    <3>1. Detach(cur[c]) \in [Orgs -> FileOrNone]
      BY <1>0, DetachType DEF TypeOK
    <3> QED
      BY <1>6, <3>1 DEF Activate
  <2>3. /\ \A q \in Seeders : pc'[q] = pc[q]
        /\ row'[SeedFile] # row[SeedFile] => cur[c] = SeedFile /\ ~HeldByOther(c, SeedFile)
    BY <1>0, <1>6 DEF Activate, Doom, Finish, Goto, TypeOK
  <2> QED
    BY <1>0, <2>1, <2>2, <2>3 DEF Detach, HeldByOther
<1>7. CASE Release(c)
  <2>1. /\ \A q \in Seeders : pc'[q] = pc[q]
        /\ row'[SeedFile] # row[SeedFile] => cur[c] = SeedFile /\ ~HeldByOther(c, SeedFile)
        /\ active' = Detach(cur[c])
    BY <1>0, <1>7 DEF Release, Doom, Goto, TypeOK
  <2> QED
    BY <1>0, <2>1 DEF Detach, HeldByOther
<1>8. CASE CompletedByAnother(c) \/ HoldRefused(c) \/ SeedEnsure(c) \/ SeedReread(c)
  BY <1>0, <1>8
  DEF CompletedByAnother, HoldRefused, SeedEnsure, SeedReread, LogoInv, LocalsInv,
      WriterInv, Knows
<1> QED
  BY <1>0, <1>1, <1>2, <1>3, <1>4, <1>5, <1>6, <1>7, <1>8
  DEF Proceed, SeedHold, SeedActivate, SeedActivationRefused

LEMMA OneSeedStep ==
    ASSUME OneSeed, LogoInv, OneSeedInv, [Next]_vars
    PROVE  OneSeedInv'
<1>0. Seeders \subseteq Procs /\ TypeOK /\ SeedFile \in Files /\ SeedFile # None
  BY LogoAssumption DEF Procs, LogoInv
<1>1. ASSUME NEW c \in Clients,
             CreatePending(c) \/ ReadLogo(c) \/ Proceed(c) \/ PutLost(c) \/ Stop(c)
      PROVE  OneSeedInv'
  <2>1. \A s \in Seeders : pc[s] # "idle" => file[s] = SeedFile /\ s # c
    BY <1>0, LogoAssumption DEF LogoInv, LocalsInv
  <2> QED
    BY <1>0, <1>1, <2>1, ClientSparesSeed DEF OneSeedInv
<1>2. ASSUME NEW s \in Seeders, SeedMove(s)
      PROVE  OneSeedInv'
  <2>1. \A t \in Seeders : t = s
    BY DEF OneSeed
  <2>2. CASE SeedActivate(s)
    <3>1. UNCHANGED row /\ row[SeedFile] = "available" /\ pc'[s] = "idle"
      BY <1>0, <2>2 DEF SeedActivate, Finish, Goto, OneSeedInv, TypeOK
    <3> QED
      BY <2>1, <3>1 DEF OneSeedInv
  <2>3. CASE ~SeedActivate(s)
    <3>1. UNCHANGED active /\ \A o \in Orgs : active[o] # SeedFile
      <4>1. pc[s] = "idle" => active[SeedOrg] = None
        BY <1>2, <2>3 DEF SeedMove, SeedStart, Proceed, Put, PutFails, PutLost, Stop,
             Complete, CompletedByAnother, CompletionRefused, CompletionFails, Unput,
             Abandon, AbandonNothing, Hold, HoldRefused, Activate, ActivationRefused,
             ActivationFails, Retire, RetireNothing, PurgeObject, PurgeRow, Release,
             ReleaseFails, SeedEnsure, SeedHold, SeedActivationRefused, SeedReread
      <4>2. pc[s] = "idle" => \A o \in Orgs : active[o] # SeedFile
        BY <1>0, <4>1 DEF LogoInv, SeedInv
      <4> QED
        BY <1>2, <2>3, <4>2, SeedTouchesItsOwn DEF OneSeedInv
    <3>2. pc'[s] = "apply" => row'[SeedFile] = "available"
      <4>1. s \notin Clients /\ s \in Procs
        BY <1>0, LogoAssumption
      <4>2. CASE SeedHold(s)
        BY <1>0, <4>1, <4>2 DEF SeedHold, Finish, Goto, TypeOK, rows
      <4>3. CASE \/ PutFails(s) \/ CompletedByAnother(s) \/ CompletionRefused(s)
                 \/ CompletionFails(s) \/ AbandonNothing(s) \/ HoldRefused(s)
                 \/ ActivationFails(s) \/ RetireNothing(s) \/ SeedStart(s)
                 \/ SeedActivationRefused(s) \/ SeedReread(s) \/ Stop(s)
        BY <1>0, <4>1, <4>3
        DEF PutFails, CompletedByAnother, CompletionRefused, CompletionFails,
            AbandonNothing, HoldRefused, ActivationFails, RetireNothing, SeedStart,
            SeedActivationRefused, SeedReread, Stop, Finish, Goto, TypeOK
      <4>4. CASE \/ Put(s) \/ PutLost(s) \/ Complete(s) \/ Abandon(s) \/ Retire(s)
                 \/ Unput(s) \/ PurgeObject(s) \/ PurgeRow(s) \/ SeedEnsure(s)
        BY <1>0, <4>1, <4>4
        DEF Put, PutLost, Complete, Abandon, Retire, Unput, PurgeObject, PurgeRow,
            SeedEnsure, Finish, Goto, TypeOK
      <4>5. ~Release(s) /\ ~ReleaseFails(s)
        BY <4>1, LogoAssumption DEF Release, ReleaseFails, LogoInv, LocalsInv, SeedInv, Purging
      <4> QED
        BY <1>2, <2>3, <4>1, <4>2, <4>3, <4>4, <4>5
        DEF SeedMove, Proceed, Hold, Activate, ActivationRefused
    <3> QED
      BY <2>1, <3>1, <3>2 DEF OneSeedInv
  <2> QED
    BY <2>2, <2>3
<1>3. CASE UNCHANGED vars
  BY <1>3 DEF OneSeedInv, vars, rows, locals
<1>4. ASSUME NEW o \in Orgs, DeleteOrganization(o)
      PROVE  OneSeedInv'
  BY <1>4 DEF OneSeedInv, DeleteOrganization, locals
<1>5. CASE Reclaim \/ SweepStop
  <2>1. /\ UNCHANGED <<active, pc>>
        /\ row[SeedFile] = "available" => row'[SeedFile] = "available"
    BY <1>0, <1>5
    DEF Reclaim, ReclaimBegin, ReclaimObject, ReclaimRow, SweepStop, rows, locals, Doom,
        Purged, TypeOK
  <2> QED
    BY <2>1 DEF OneSeedInv
<1> QED
  BY <1>1, <1>2, <1>3, <1>4, <1>5 DEF Next, SeedMove, Procs

(* An organization's active logo is never a file being deleted: what a     *)
(* client reads between a command's transactions is one whole logo.  Two   *)
(* seed runs at once break this for the state's own file.                  *)
THEOREM LogosAvailable == ASSUME OneSeed PROVE Spec => []LogoAvailable
<1>1. Init => OneSeedInv
  BY LogoAssumption DEF Init, OneSeedInv, Procs
<1>2. LogoInv /\ OneSeedInv /\ [Next]_vars => OneSeedInv'
  BY OneSeedStep
<1>3. LogoInv /\ OneSeedInv => LogoAvailable
  BY DEF LogoInv, OneSeedInv, UploadedLogoAvailable, LogoAvailable
<1> QED
  BY <1>1, <1>2, <1>3, LogoSafe, PTL DEF Spec

(* So a single seed run retires only a file no image references, which is  *)
(* what seedLogo means to do and two runs at once do not.                  *)
THEOREM OneSeedSpares == ASSUME OneSeed PROVE Spec => SparesReferenced
<1>1. LogoInv /\ LogoInv' /\ LogoAvailable' =>
          [\A f \in Files : row[f] # "deleting" /\ row'[f] = "deleting" => ~Bound(f)']_vars
  <2> SUFFICES ASSUME LogoAvailable', NEW f \in Files, row'[f] = "deleting"
               PROVE  ~Bound(f)'
    OBVIOUS
  <2> QED
    BY LogoAssumption DEF LogoAvailable, Bound
<1> QED
  BY <1>1, LogosAvailable, LogoSafe, PTL DEF SparesReferenced

-----------------------------------------------------------------------------
(* Without seed runs the state's file is never written, and what holds of  *)
(* uploads holds of every logo.                                            *)

Unseeded ==
    /\ row[SeedFile] = "absent" /\ sweeping # SeedFile
    /\ \A o \in Orgs : active[o] # SeedFile
    /\ \A p \in Procs : cur[p] # SeedFile

LEMMA UnseededStep ==
    ASSUME Seeders = {}, LogoInv, Unseeded, [Next]_vars
    PROVE  Unseeded'
<1>0. /\ Procs = Clients /\ SeedFile \in Files /\ None \notin Files
      /\ TypeOK /\ SeedFile # None
      /\ \A c \in Clients : pc[c] \in Writing => file[c] \in Uploads
  BY LogoAssumption, Written DEF LogoInv, Procs
<1>1. ASSUME UNCHANGED <<row, active, sweeping>>,
             \A p \in Procs : cur'[p] \in {cur[p], None} \/ \E o \in Orgs : cur'[p] = active[o]
      PROVE  Unseeded'
  BY <1>0, <1>1 DEF Unseeded
<1>2. CASE UNCHANGED vars
  BY <1>1, <1>2 DEF vars, rows, locals, sweep
<1>3. ASSUME NEW p \in Procs, CreatePending(p) \/ Complete(p)
      PROVE  Unseeded'
  <2>1. row'[SeedFile] = row[SeedFile]
    BY <1>0, <1>3 DEF CreatePending, Complete, TypeOK, Writing, Uploads
  <2> QED
    BY <1>3, <2>1 DEF Unseeded, CreatePending, Complete, sweep
<1>4. ASSUME NEW p \in Procs,
             \/ Put(p) \/ PutFails(p) \/ PutLost(p) \/ CompletedByAnother(p)
             \/ CompletionRefused(p) \/ CompletionFails(p) \/ ActivationRefused(p)
             \/ ActivationFails(p) \/ PurgeObject(p)
      PROVE  Unseeded'
  BY <1>1, <1>4
  DEF Put, PutFails, PutLost, CompletedByAnother, CompletionRefused, CompletionFails,
      ActivationRefused, ActivationFails, PurgeObject, rows, sweep
<1>5. ASSUME NEW p \in Procs,
             \/ Unput(p) \/ AbandonNothing(p) \/ RetireNothing(p) \/ ReleaseFails(p) \/ Stop(p)
      PROVE  Unseeded'
  <2>1. Finish(p) /\ UNCHANGED <<row, active, sweeping>>
    BY <1>5 DEF Unput, AbandonNothing, RetireNothing, ReleaseFails, Stop, rows, sweep
  <2>2. \A q \in Procs : cur'[q] \in {cur[q], None}
    BY <1>0, <2>1 DEF Finish, TypeOK
  <2> QED
    BY <1>1, <2>1, <2>2
<1>6. ASSUME NEW p \in Procs, Hold(p) \/ ReadLogo(p)
      PROVE  Unseeded'
  <2>1. UNCHANGED <<row, active, sweeping>>
    BY <1>6 DEF Hold, ReadLogo, rows, sweep
  <2>2. \E o \in Orgs : cur' = [cur EXCEPT ![p] = active[o]]
    BY <1>6 DEF Hold, ReadLogo, LogoInv, LocalsInv, Writing
  <2> QED
    BY <1>0, <1>1, <2>1, <2>2 DEF TypeOK
<1>7. ASSUME NEW p \in Procs, Abandon(p) \/ Retire(p)
      PROVE  Unseeded'
  <2>1. file[p] \in Uploads
    BY <1>0, <1>7 DEF Abandon, Retire, Writing
  <2>2. row' = Doom(file[p]) /\ cur' = [cur EXCEPT ![p] = file[p]]
        /\ UNCHANGED <<active, sweeping>>
    BY <1>7 DEF Abandon, Retire, sweep
  <2> QED
    BY <1>0, <2>1, <2>2 DEF Unseeded, Doom, TypeOK, Uploads
<1>8. ASSUME NEW p \in Procs, Activate(p) \/ Release(p)
      PROVE  Unseeded'
  <2>1. cur[p] # SeedFile /\ (Activate(p) => file[p] \in Uploads)
    BY <1>0, <1>8 DEF Unseeded, Activate, Writing
  <2>2. row'[SeedFile] = row[SeedFile]
    BY <1>0, <1>8, <2>1 DEF Activate, Release, Doom, TypeOK
  <2>3. \A o \in Orgs : active'[o] \in {active[o], None} \/ (Activate(p) /\ active'[o] = file[p])
    <3>1. Detach(cur[p]) \in [Orgs -> FileOrNone]
      BY DetachType DEF LogoInv, TypeOK
    <3>2. \A o \in Orgs : Detach(cur[p])[o] \in {active[o], None}
      BY DEF Detach
    <3>3. CASE Activate(p)
      BY <3>1, <3>2, <3>3 DEF Activate
    <3>4. CASE Release(p)
      BY <3>2, <3>4 DEF Release
    <3> QED
      BY <1>8, <3>3, <3>4
  <2>4. \A q \in Procs : cur'[q] \in {cur[q], None}
    BY <1>0, <1>8 DEF Activate, Release, Finish, TypeOK
  <2>5. sweeping' = sweeping
    BY <1>8 DEF Activate, Release, sweep
  <2> QED
    BY <1>0, <2>1, <2>2, <2>3, <2>4, <2>5 DEF Unseeded, Uploads
<1>9. ASSUME NEW p \in Procs, PurgeRow(p)
      PROVE  Unseeded'
  <2>1. /\ row' = Purged(cur[p]) /\ UNCHANGED <<active, sweeping>>
        /\ \A q \in Procs : cur'[q] \in {cur[q], None}
    BY <1>0, <1>9 DEF PurgeRow, Finish, TypeOK, sweep
  <2> QED
    BY <1>0, <2>1 DEF Unseeded, Purged, TypeOK
<1>10. ASSUME NEW o \in Orgs, DeleteOrganization(o)
       PROVE  Unseeded'
  BY <1>1, <1>10 DEF DeleteOrganization, locals, sweep
<1>11. CASE Reclaim \/ SweepStop
  <2>1. UNCHANGED <<active, cur>>
    BY <1>11 DEF Reclaim, ReclaimBegin, ReclaimObject, ReclaimRow, SweepStop, rows, locals
  <2>2. row'[SeedFile] = row[SeedFile] /\ sweeping' # SeedFile
    BY <1>0, <1>11
    DEF Unseeded, Reclaim, ReclaimBegin, ReclaimObject, ReclaimRow, SweepStop, rows,
        Doom, Purged, TypeOK
  <2> QED
    BY <2>1, <2>2 DEF Unseeded
<1>12. ASSUME NEW p \in Procs, HoldRefused(p) \/ SeedEnsure(p) \/ SeedReread(p)
       PROVE  FALSE
  BY <1>0, <1>12
  DEF HoldRefused, SeedEnsure, SeedReread, LogoInv, LocalsInv, WriterInv, Knows
<1> QED
  BY <1>2, <1>3, <1>4, <1>5, <1>6, <1>7, <1>8, <1>9, <1>10, <1>11, <1>12
  DEF Next, Proceed, SeedHold, SeedActivate, SeedActivationRefused, Procs

LEMMA NeverSeeded ==
    ASSUME Seeders = {}
    PROVE  Spec => [](LogoInv /\ Unseeded)
<1>1. Init => Unseeded
  BY LogoAssumption DEF Init, Unseeded
<1>2. LogoInv /\ Unseeded /\ [Next]_vars => Unseeded'
  BY UnseededStep
<1> QED
  BY <1>1, <1>2, LogoSafe, PTL DEF Spec

(* Its object is in the store, whichever purge, reclaim or abandon runs    *)
(* beside the command that bound it.                                       *)
THEOREM LogosStored == ASSUME Seeders = {} PROVE Spec => []LogoStored
<1>1. LogoInv /\ Unseeded => LogoStored
  BY DEF LogoInv, TypeOK, FileOrNone, Unseeded, StoredInv, LogoStored, Uploads
<1> QED
  BY <1>1, NeverSeeded, PTL

-----------------------------------------------------------------------------
(* The register, which the routes implement whatever seed runs meet them.  *)

(* The uploads whose delete has begun: what the register calls retired.    *)
Retired == {f \in Uploads : row[f] \in {"deleting", "gone"}}

LEMMA RegisterUses ==
    /\ Register!registerVars = <<UploadsOf(active), UploadsOf(view), Retired>>
    /\ \A o \in Orgs, f \in Uploads :
          Register!Replace(o, f) => [Register!RegisterNext]_(Register!registerVars)
    /\ \A o \in Orgs :
          Register!Clear(o) => [Register!RegisterNext]_(Register!registerVars)
    /\ \A f \in Uploads :
          Register!Discard(f) => [Register!RegisterNext]_(Register!registerVars)
BY DEF Register!RegisterNext, Register!registerVars, Retired, Uploads

(* A step that changes no organization's upload, tells the consumer of     *)
(* none and leaves the retired files as they are is a stutter of it.       *)
LEMMA StepStutters ==
    ASSUME UploadsOf(active)' = UploadsOf(active), UploadsOf(view)' = UploadsOf(view),
           Retired' = Retired
    PROVE  [Register!RegisterNext]_(Register!registerVars)
  BY DEF Retired, Uploads, Register!registerVars

(* So is one that touches no image and no upload's row.                    *)
LEMMA StepAside ==
    ASSUME active' = active, view' = view, \A f \in Uploads : row'[f] = row[f]
    PROVE  [Register!RegisterNext]_(Register!registerVars)
  BY StepStutters DEF Retired, UploadsOf

(* A delete that begins on one unbound file is the register's Discard, or  *)
(* a stutter when it had begun or the file is the state's.                 *)
LEMMA StepDiscards ==
    ASSUME NEW f \in Files, row \in [Files -> Status], row' = Doom(f),
           f \in Uploads => \A o \in Orgs : active[o] # f,
           active' = active, view' = view
    PROVE  [Register!RegisterNext]_(Register!registerVars)
<1>1. CASE f = SeedFile
  <2>1. \A g \in Uploads : row'[g] = row[g]
    BY <1>1 DEF Doom, Uploads
  <2> QED BY <2>1, StepAside
<1>2. CASE f \in Uploads
  <2>1. Retired' = Retired \cup {f}
    BY <1>2 DEF Retired, Uploads, Doom
  <2>2. \A o \in Orgs : UploadsOf(active)[o] # f
    BY <1>2, LogoAssumption DEF UploadsOf, Uploads
  <2>3. UploadsOf(active)' = UploadsOf(active) /\ UploadsOf(view)' = UploadsOf(view)
    BY DEF UploadsOf
  <2>4. Register!Discard(f)
    BY <2>1, <2>2, <2>3 DEF Retired, Uploads, Register!Discard, Register!InUse
  <2> QED BY <1>2, <2>4, RegisterUses
<1> QED BY <1>1, <1>2 DEF Uploads

(* A seed run touches the state's file and its organization's image of it: *)
(* the register sees none of that.                                         *)
LEMMA SeedUnseen ==
    ASSUME LogoInv, NEW s \in Seeders, SeedMove(s)
    PROVE  [Register!RegisterNext]_(Register!registerVars)
<1>1. \A f \in Uploads : row'[f] = row[f]
  BY SeedTouchesItsOwn
<1>2. CASE SeedActivate(s)
  <2>1. /\ active[SeedOrg] = None /\ view = active
        /\ active' = [active EXCEPT ![SeedOrg] = SeedFile]
        /\ view' = active'
    BY <1>2, SeedImage DEF LogoInv, ReplayIsCurrent
  <2>2. \A o \in Orgs :
            \/ active'[o] = active[o]
            \/ active[o] = None /\ active'[o] = SeedFile
    BY <2>1 DEF LogoInv, TypeOK
  <2>3. UploadsOf(active)' = UploadsOf(active)
    BY <2>2, LogoAssumption DEF UploadsOf
  <2>4. UploadsOf(view)' = UploadsOf(view)
    BY <2>1, <2>3 DEF UploadsOf
  <2> QED BY <1>1, <2>3, <2>4, StepStutters DEF Retired
<1>3. CASE ~SeedActivate(s)
  BY <1>1, <1>3, SeedTouchesItsOwn, StepAside
<1> QED BY <1>2, <1>3

(* A purge takes a deleting row to gone, and is a stutter.                 *)
LEMMA PurgeUnseen ==
    ASSUME LogoInv, NEW f \in FileOrNone, row' = Purged(f), active' = active, view' = view
    PROVE  [Register!RegisterNext]_(Register!registerVars)
<1>1. Retired' = Retired
  BY DEF Retired, Uploads, Purged, LogoInv, TypeOK
<1> QED BY <1>1, StepStutters DEF UploadsOf

(* What a client that read a logo and goes on to write knows of it.        *)
LEMMA LogoInHand ==
    ASSUME LogoInv, NEW p \in Clients, pc[p] \in {"apply", "release"},
           cur[p] # None
    PROVE  /\ cur[p] \in Files /\ org[p] \in Orgs
           /\ \A o \in Orgs : active[o] = cur[p] => o = org[p]
           /\ cur[p] \in Uploads =>
                 /\ row[cur[p]] \in {"available", "deleting", "gone"}
                 /\ row[cur[p]] = "available" => active[org[p]] = cur[p]
<1>1. p \in Procs /\ cur[p] \in Files /\ org[p] \in Orgs
  BY DEF Procs, LogoInv, TypeOK, LocalsInv, FileOrNone, Writing
<1>2. CASE cur[p] \in Uploads
  BY <1>1, <1>2 DEF LogoInv, ReadInv
<1>3. CASE cur[p] = SeedFile
  BY <1>1, <1>3 DEF LogoInv, SeedInv, Uploads
<1> QED BY <1>1, <1>2, <1>3 DEF Uploads

(* An activation is the register's Replace.  Only an upload the            *)
(* organization still has is newly retired: one that it read and lost      *)
(* meanwhile is deleting already.                                          *)
LEMMA ActivateReplaces ==
    ASSUME LogoInv, NEW p \in Clients, Activate(p)
    PROVE  [Register!RegisterNext]_(Register!registerVars)
<1>1. /\ org[p] \in Orgs
      /\ file[p] \in Uploads
      /\ row[file[p]] = "available"
      /\ \A o \in Orgs : active[o] # file[p]
      /\ \A o \in Orgs : active[o] = cur[p] => cur[p] = None \/ o = org[p]
      /\ active[org[p]] \in {None, cur[p]}
  <2>1. pc[p] = "apply" /\ pc[p] \in Writing
    BY DEF Activate, Writing
  <2> QED
    BY <2>1, Written, LogoInHand DEF Activate, Bindable, Detach, Knows, Uploads
<1>2. active \in [Orgs -> FileOrNone] /\ row \in [Files -> Status]
      /\ cur[p] \in FileOrNone /\ view = active
  BY DEF Procs, LogoInv, TypeOK, ReplayIsCurrent
<1>3. active' = [active EXCEPT ![org[p]] = file[p]]
  <2>1. \A o \in Orgs \ {org[p]} : Detach(cur[p])[o] = active[o]
    BY <1>1 DEF Detach
  <2>2. active' = [Detach(cur[p]) EXCEPT ![org[p]] = file[p]]
    BY DEF Activate
  <2>3. Detach(cur[p]) \in [Orgs -> FileOrNone]
    BY <1>2, DetachType
  <2> QED BY <1>1, <1>2, <2>1, <2>2, <2>3
<1>4. view' = active'
  BY <1>2, <1>3 DEF Activate, SeeUploaded
<1>5. UploadsOf(active)' = [UploadsOf(active) EXCEPT ![org[p]] = file[p]]
  BY <1>1, <1>2, <1>3 DEF UploadsOf, Uploads
<1>6. UploadsOf(view)' = [UploadsOf(view) EXCEPT ![org[p]] = file[p]]
  BY <1>2, <1>4, <1>5 DEF UploadsOf
<1>7. Retired' = Retired \cup ({UploadsOf(active)[org[p]]} \ {None})
  <2>1. UploadsOf(active)[org[p]]
            = IF active[org[p]] = SeedFile THEN None ELSE active[org[p]]
    BY <1>1 DEF UploadsOf
  <2>2. CASE cur[p] = None
    <3>1. row' = row /\ active[org[p]] = None
      BY <1>1, <2>2 DEF Activate
    <3> QED BY <2>1, <3>1 DEF Retired
  <2>3. CASE cur[p] = SeedFile /\ cur[p] # None
    <3>1. row' = Doom(SeedFile)
      BY <2>3 DEF Activate
    <3>2. Retired' = Retired
      BY <3>1 DEF Retired, Uploads, Doom
    <3> QED BY <1>1, <2>1, <2>3, <3>2
  <2>4. CASE cur[p] \in Uploads
    <3>1. cur[p] # None /\ cur[p] # SeedFile
      BY <2>4, LogoAssumption DEF Uploads
    <3>2. row' = Doom(cur[p])
      BY <3>1 DEF Activate
    <3>3. Retired' = Retired \cup {cur[p]}
      BY <1>2, <2>4, <3>2 DEF Retired, Uploads, Doom
    <3>4. active[org[p]] = None => cur[p] \in Retired
      BY <2>4, <3>1, LogoInHand DEF Activate, Retired
    <3> QED BY <1>1, <2>1, <3>1, <3>3, <3>4
  <2> QED BY <1>2, <2>2, <2>3, <2>4 DEF FileOrNone, Uploads
<1>8. file[p] \notin Retired /\ \A o \in Orgs : UploadsOf(active)[o] # file[p]
  BY <1>1, LogoAssumption DEF Retired, UploadsOf, Uploads
<1>9. PICK o \in Orgs, f \in Uploads : o = org[p] /\ f = file[p]
  BY <1>1
<1>10. Register!Replace(o, f)
  BY <1>5, <1>6, <1>7, <1>8, <1>9 DEF Retired, Uploads, Register!Replace, Register!InUse
<1> QED BY <1>10, RegisterUses

(* A deletion is the register's Clear while the upload is still the        *)
(* organization's, and changes nothing once its delete has begun.          *)
LEMMA ReleaseClears ==
    ASSUME LogoInv, NEW p \in Clients, Release(p)
    PROVE  [Register!RegisterNext]_(Register!registerVars)
<1>1. pc[p] = "release" /\ p \in Procs /\ cur[p] \in Files /\ cur[p] # None
  BY LogoAssumption DEF Release, LogoInv, LocalsInv, Procs
<1>2. /\ org[p] \in Orgs
      /\ active \in [Orgs -> FileOrNone]
      /\ row \in [Files -> Status]
      /\ view = active
      /\ \A o \in Orgs : active[o] = cur[p] => o = org[p]
  BY <1>1, LogoInHand DEF LogoInv, TypeOK, ReplayIsCurrent
<1>3. active' = Detach(cur[p]) /\ row' = Doom(cur[p])
  BY DEF Release
<1>4. /\ \A o \in Orgs \ {org[p]} : active'[o] = active[o]
      /\ active'[org[p]] = IF active[org[p]] = cur[p] THEN None ELSE active[org[p]]
      /\ active' \in [Orgs -> FileOrNone]
  BY <1>1, <1>2, <1>3, DetachType DEF Detach, LogoInv
<1>5. view' = active'
  BY <1>2, <1>4 DEF Release, SeeDeleted
<1>6. CASE cur[p] = SeedFile
  <2>1. UploadsOf(active)' = UploadsOf(active)
    BY <1>4, <1>6, LogoAssumption DEF UploadsOf
  <2>2. UploadsOf(view)' = UploadsOf(view)
    BY <1>2, <1>5, <2>1 DEF UploadsOf
  <2>3. Retired' = Retired
    BY <1>3, <1>6 DEF Retired, Uploads, Doom
  <2> QED BY <2>1, <2>2, <2>3, StepStutters
<1>7. CASE cur[p] \in Uploads
  <2>1. Retired' = Retired \cup {cur[p]}
    BY <1>2, <1>3, <1>7 DEF Retired, Uploads, Doom
  <2>2. CASE active[org[p]] = cur[p]
    <3>1. UploadsOf(active)[org[p]] = cur[p] /\ UploadsOf(active)[org[p]] # None
      BY <1>1, <1>2, <1>7, <2>2 DEF UploadsOf, Uploads
    <3>2. UploadsOf(active)' = [UploadsOf(active) EXCEPT ![org[p]] = None]
      BY <1>2, <1>4, <2>2, LogoAssumption DEF UploadsOf
    <3>3. UploadsOf(view)' = [UploadsOf(view) EXCEPT ![org[p]] = None]
      BY <1>2, <1>5, <3>2 DEF UploadsOf
    <3>4. PICK o \in Orgs : o = org[p]
      BY <1>2
    <3>5. Register!Clear(o)
      BY <2>1, <3>1, <3>2, <3>3, <3>4 DEF Retired, Uploads, Register!Clear
    <3> QED BY <3>5, RegisterUses
  <2>3. CASE active[org[p]] # cur[p]
    <3>1. active' = active
      BY <1>2, <1>4, <2>3
    <3>2. cur[p] \in Retired
      <4>1. row[cur[p]] \in {"available", "deleting"}
        BY <1>1, <1>7, LogoInHand DEF Release, ReplacedGone
      <4> QED BY <1>1, <1>7, <2>3, <4>1, LogoInHand DEF Retired
    <3> QED BY <1>2, <1>5, <2>1, <3>1, <3>2, StepStutters DEF UploadsOf
  <2> QED BY <2>2, <2>3
<1> QED BY <1>1, <1>6, <1>7 DEF Uploads

(* A client's step, and the reclaim's, is a step of the register, or one   *)
(* it does not see.                                                        *)
LEMMA ClientRegisters ==
    ASSUME LogoInv, NEW p \in Clients,
           CreatePending(p) \/ ReadLogo(p) \/ Proceed(p) \/ PutLost(p) \/ Stop(p)
    PROVE  [Register!RegisterNext]_(Register!registerVars)
<1>0. p \in Procs /\ p \notin Seeders /\ row \in [Files -> Status]
  BY LogoAssumption DEF Procs, LogoInv, TypeOK
<1>1. CASE CreatePending(p) \/ Complete(p)
  <2>1. PICK f \in Files, st \in {"pending", "available"} :
            row[f] \in {"absent", "pending"} /\ row' = [row EXCEPT ![f] = st]
    BY <1>0, <1>1 DEF CreatePending, Complete, LogoInv, LocalsInv, Writing
  <2>2. Retired' = Retired
    BY <1>0, <2>1 DEF Retired, Uploads
  <2> QED BY <1>1, <2>2, StepStutters DEF CreatePending, Complete, events, UploadsOf
<1>2. CASE \/ Put(p) \/ PutFails(p) \/ PutLost(p) \/ CompletionRefused(p)
           \/ CompletionFails(p) \/ CompletedByAnother(p) \/ Unput(p) \/ AbandonNothing(p)
           \/ Hold(p) \/ HoldRefused(p) \/ ActivationRefused(p) \/ ActivationFails(p)
           \/ RetireNothing(p) \/ PurgeObject(p) \/ ReadLogo(p) \/ ReleaseFails(p)
           \/ SeedReread(p) \/ Stop(p)
  <2>1. UNCHANGED <<row, active, view>>
    BY <1>2
    DEF Put, PutFails, PutLost, CompletionRefused, CompletionFails, CompletedByAnother,
        Unput, AbandonNothing, Hold, HoldRefused, ActivationRefused, ActivationFails,
        RetireNothing, PurgeObject, ReadLogo, ReleaseFails, SeedReread, Stop, rows, events
  <2> QED BY <2>1, StepAside
<1>3. CASE Abandon(p) \/ Retire(p)
  <2>1. file[p] \in Files /\ \A o \in Orgs : active[o] # file[p]
    BY <1>0, <1>3 DEF Abandon, Retire, LogoInv, LocalsInv, OwnerInv, Writing
  <2>2. row' = Doom(file[p]) /\ active' = active /\ view' = view
    BY <1>3 DEF Abandon, Retire, events
  <2> QED BY <1>0, <2>1, <2>2, StepDiscards
<1>4. CASE PurgeRow(p)
  <2>1. cur[p] \in FileOrNone
    BY <1>0 DEF LogoInv, TypeOK
  <2> QED BY <1>4, <2>1, PurgeUnseen DEF PurgeRow, events
<1>5. ~SeedEnsure(p) /\ ~SeedHold(p) /\ ~SeedActivate(p) /\ ~SeedActivationRefused(p)
  BY <1>0 DEF SeedEnsure, SeedHold, SeedActivate, SeedActivationRefused, LogoInv, LocalsInv
<1> QED
  BY <1>1, <1>2, <1>3, <1>4, <1>5, ActivateReplaces, ReleaseClears DEF Proceed

LEMMA ReclaimRegisters ==
    ASSUME LogoInv, Reclaim \/ SweepStop
    PROVE  [Register!RegisterNext]_(Register!registerVars)
<1>1. CASE ReclaimBegin
  <2>1. PICK f \in Files : row[f] \in {"pending", "deleting"} /\ row' = Doom(f)
    BY <1>1 DEF ReclaimBegin
  <2>2. f \in Uploads => \A o \in Orgs : active[o] # f
    BY <2>1, LogoAssumption DEF LogoInv, UploadedLogoAvailable, Uploads
  <2> QED BY <1>1, <2>1, <2>2, StepDiscards DEF ReclaimBegin, events, LogoInv, TypeOK
<1>2. CASE ReclaimObject \/ SweepStop
  <2>1. UNCHANGED <<row, active, view>>
    BY <1>2 DEF ReclaimObject, SweepStop, rows, events
  <2> QED BY <2>1, StepAside
<1>3. CASE ReclaimRow
  BY <1>3, PurgeUnseen DEF ReclaimRow, events, LogoInv, TypeOK
<1> QED BY <1>1, <1>2, <1>3 DEF Reclaim

LEMMA RegisterStep ==
    ASSUME LogoInv, [Next]_vars
    PROVE  [Register!RegisterNext]_(Register!registerVars)
<1>1. CASE UNCHANGED vars
  <2>1. UNCHANGED <<row, active, view>>
    BY <1>1 DEF vars, rows, events
  <2> QED BY <2>1, StepAside
<1>2. ASSUME NEW c \in Clients, CreatePending(c) \/ ReadLogo(c)
      PROVE  [Register!RegisterNext]_(Register!registerVars)
  BY <1>2, ClientRegisters
<1>3. ASSUME NEW s \in Seeders, SeedStart(s)
      PROVE  [Register!RegisterNext]_(Register!registerVars)
  BY <1>3, SeedUnseen DEF SeedMove
<1>4. ASSUME NEW p \in Procs, Proceed(p) \/ PutLost(p) \/ Stop(p)
      PROVE  [Register!RegisterNext]_(Register!registerVars)
  BY <1>4, ClientRegisters, SeedUnseen DEF SeedMove, Procs
<1>5. ASSUME NEW o \in Orgs, DeleteOrganization(o)
      PROVE  [Register!RegisterNext]_(Register!registerVars)
  BY <1>5, StepAside DEF DeleteOrganization, events
<1>6. CASE Reclaim \/ SweepStop
  BY <1>6, ReclaimRegisters
<1> QED
  BY <1>1, <1>2, <1>3, <1>4, <1>5, <1>6 DEF Next

LEMMA RegisterStarts ==
    ASSUME Init
    PROVE  Register!RegisterInit
<1>1. active = [o \in Orgs |-> None] /\ view = [o \in Orgs |-> None]
  BY DEF Init
<1>2. Retired = {}
  BY DEF Init, Retired, Uploads
<1>3. UploadsOf(active) = [o \in Orgs |-> None] /\ UploadsOf(view) = [o \in Orgs |-> None]
  BY <1>1 DEF UploadsOf
<1> QED BY <1>2, <1>3 DEF Register!RegisterInit, Retired, Uploads

(* The routes implement the register, whatever seed runs meet them: what   *)
(* clients and consumers see of the two-phase writes, the activations, the *)
(* deletes and the reclaim is uploads replaced and cleared in one step,    *)
(* and none that comes back; of the seed, which shares their rows and      *)
(* binds its own file where no logo is, they see no upload change.         *)
THEOREM LogoImplements == Spec => ImplementsRegister
<1>1. Init => Register!RegisterInit
  BY RegisterStarts
<1>2. LogoInv /\ [Next]_vars => [Register!RegisterNext]_(Register!registerVars)
  BY RegisterStep
<1>3. Spec => []LogoInv
  BY LogoSafe
<1> QED
  BY <1>1, <1>2, <1>3, PTL DEF Spec, ImplementsRegister, Register!RegisterSpec
=============================================================================
