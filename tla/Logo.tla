--------------------------------- MODULE Logo ---------------------------------
(***************************************************************************)
(* An organization's logo: PUT and DELETE of /organizations/{id}/logo, the *)
(* logo seed, and the stale reclaim they race with.  A logo is three       *)
(* things that no one transaction covers: a file row (blobfs_file), an     *)
(* object in the object store, and an organization_image row that binds    *)
(* the file to the organization.  Each action below is one transaction,    *)
(* one object-store call, or one autocommitted statement of                *)
(* domain/organization/storage.go and of the blobfs protocol it drives.    *)
(*                                                                         *)
(* The database runs READ COMMITTED.  A transaction that first reads the   *)
(* active logo and then writes is two actions, the read and the writes     *)
(* with the commit, because a concurrent commit may fall between them; the *)
(* row locks its writes take are held to the commit, so the writes are one *)
(* action.                                                                 *)
(***************************************************************************)
EXTENDS Naturals, FiniteSets

CONSTANTS
    Orgs,        \* organization ids
    Files,       \* file ids, the pool blobfs.NewID and the seed draw from
    Clients,     \* request slots: each runs one logo command at a time
    Seeders,     \* concurrent seed runs: replicas' startup seeds, an admin seed
    SeedOrg,     \* the organization a named state gives a logo
    SeedFile,    \* the fixed file id the state gives that logo
    None,        \* no file, no organization
    MaxFaults    \* bound: crashes, failed clean-ups, lost answers, failed passes

Procs == Clients \cup Seeders

ASSUME LogoAssumption ==
    /\ None \notin Files
    /\ None \notin Orgs
    /\ SeedOrg \in Orgs
    /\ SeedFile \in Files
    /\ Clients \cap Seeders = {}
    /\ MaxFaults \in Nat

VARIABLES
    orgs,        \* the organizations that exist
    row,         \* status of each file's row
    object,      \* whether the file's object is stored
    active,      \* the file each organization's active image binds
    pc,          \* what each command or seed run does next
    org,         \* the organization it acts on
    file,        \* the file it writes
    cur,         \* the active logo it read; then the file it purges
    stored,      \* a seed run's EnsureFile flag: this run completed the file
    refusal,     \* why a PUT's activation rolled back
    sweeping,    \* the file the stale reclaim is removing
    sweepPc,     \* the reclaim's next step on it
    view,        \* a consumer's replay of the committed logo events
    stray,       \* files whose LogoDeleted committed though no image bound them
    faults       \* how many of those have happened

rows    == <<orgs, row, object, active>>
locals  == <<pc, org, file, cur, stored, refusal>>
sweep   == <<sweeping, sweepPc>>
events  == <<view, stray>>
vars    == <<rows, locals, sweep, events, faults>>

Status   == {"absent", "pending", "available", "deleting", "gone"}
Labels   == {"idle", "put", "complete", "unput", "abandon", "activate", "apply",
             "release", "retire", "purgeObject", "purgeRow", "ensure", "reread"}
Refusals == {"none", "conflict", "missing", "failure"}

FileOrNone == Files \cup {None}
OrgOrNone  == Orgs \cup {None}

TypeOK ==
    /\ orgs \subseteq Orgs
    /\ row \in [Files -> Status]
    /\ object \in [Files -> BOOLEAN]
    /\ active \in [Orgs -> FileOrNone]
    /\ pc \in [Procs -> Labels]
    /\ org \in [Procs -> OrgOrNone]
    /\ file \in [Procs -> FileOrNone]
    /\ cur \in [Procs -> FileOrNone]
    /\ stored \in [Procs -> BOOLEAN]
    /\ refusal \in [Procs -> Refusals]
    /\ sweeping \in FileOrNone
    /\ sweepPc \in {"object", "row"}
    /\ view \in [Orgs -> FileOrNone]
    /\ stray \subseteq Files
    /\ faults \in 0..MaxFaults

Init ==
    /\ orgs = Orgs
    /\ row = [f \in Files |-> "absent"]
    /\ object = [f \in Files |-> FALSE]
    /\ active = [o \in Orgs |-> None]
    /\ pc = [p \in Procs |-> "idle"]
    /\ org = [p \in Procs |-> None]
    /\ file = [p \in Procs |-> None]
    /\ cur = [p \in Procs |-> None]
    /\ stored = [p \in Procs |-> FALSE]
    /\ refusal = [p \in Procs |-> "none"]
    /\ sweeping = None
    /\ sweepPc = "object"
    /\ view = [o \in Orgs |-> None]
    /\ stray = {}
    /\ faults = 0

-----------------------------------------------------------------------------
(* The pieces the actions are built from.                                  *)

Bound(f) == \E o \in Orgs : active[o] = f

(* Files.Hold locks the available row to the end of the activation's       *)
(* transaction, so no delete of it commits meanwhile.  Two activations may *)
(* hold one file.                                                          *)
HeldByOther(p, f) ==
    \E q \in Procs \ {p} : pc[q] = "apply" /\ file[q] = f

(* Mutation: the delete's first transaction writes a state of its own.     *)
DoomToRemoved(f) == [row EXCEPT ![f] = "removed"]

(* Files.Delete: a live row turns deleting; on one deleting already it is  *)
(* a retry that changes nothing.                                           *)
Doom(f) == [row EXCEPT ![f] = "deleting"]

(* Mutation: the image stays when its file's delete begins.                *)
DetachNothing(f) == active

(* DELETE FROM organization_image WHERE file_id: no row is no error.       *)
Detach(f) == [o \in Orgs |-> IF f # None /\ active[o] = f THEN None ELSE active[o]]

Goto(p, label) == pc' = [pc EXCEPT ![p] = label]

(* The request or the seed run ends; its variables are forgotten.          *)
Finish(p) ==
    /\ Goto(p, "idle")
    /\ org' = [org EXCEPT ![p] = None]
    /\ file' = [file EXCEPT ![p] = None]
    /\ cur' = [cur EXCEPT ![p] = None]
    /\ stored' = [stored EXCEPT ![p] = FALSE]
    /\ refusal' = [refusal EXCEPT ![p] = "none"]

(* A consumer applies each committed event in commit order, by file id: an *)
(* upload is the organization's logo, and a deletion clears it only if it  *)
(* names the file held.                                                    *)
SeeUploaded(o, f) ==
    /\ view' = [view EXCEPT ![o] = f]
    /\ UNCHANGED stray

SeeDeleted(o, f) ==
    /\ view' = [view EXCEPT ![o] = IF view[o] = f THEN None ELSE view[o]]
    /\ stray' = IF active[o] = f THEN stray ELSE stray \cup {f}

-----------------------------------------------------------------------------
(* PUT: blobfs's two-phase write.                                          *)

(* The write's first transaction: the organization is read and the pending *)
(* row inserted under a fresh id.                                          *)
CreatePending(c) ==
    /\ pc[c] = "idle"
    /\ \E o \in orgs, f \in Files \ {SeedFile} :
        /\ row[f] = "absent"
        /\ row' = [row EXCEPT ![f] = "pending"]
        /\ org' = [org EXCEPT ![c] = o]
        /\ file' = [file EXCEPT ![c] = f]
    /\ Goto(c, "put")
    /\ UNCHANGED <<orgs, object, active, cur, stored, refusal, sweep, events, faults>>

(* The object put lands.                                                   *)
Put(p) ==
    /\ pc[p] = "put"
    /\ object' = [object EXCEPT ![file[p]] = TRUE]
    /\ Goto(p, "complete")
    /\ UNCHANGED <<orgs, row, active, org, file, cur, stored, refusal, sweep, events, faults>>

(* The put fails, at the store or in reading the body, and the write is    *)
(* abandoned.                                                              *)
PutFails(p) ==
    /\ pc[p] = "put"
    /\ Goto(p, "abandon")
    /\ UNCHANGED <<rows, org, file, cur, stored, refusal, sweep, events, faults>>

(* The store keeps the object and its answer is lost.                      *)
PutLost(p) ==
    /\ pc[p] = "put"
    /\ faults < MaxFaults
    /\ faults' = faults + 1
    /\ object' = [object EXCEPT ![file[p]] = TRUE]
    /\ Goto(p, "abandon")
    /\ UNCHANGED <<orgs, row, active, org, file, cur, stored, refusal, sweep, events>>

(* Mutation: the completion does not check that the row is still pending.  *)
CompleteDeleting(p) ==
    /\ pc[p] = "complete"
    /\ row[file[p]] \in {"pending", "deleting"}
    /\ row' = [row EXCEPT ![file[p]] = "available"]
    /\ stored' = [stored EXCEPT ![p] = p \in Seeders]
    /\ Goto(p, "activate")
    /\ UNCHANGED <<orgs, object, active, org, file, cur, refusal, sweep, events, faults>>

(* The completion's transaction takes the pending row to available.        *)
Complete(p) ==
    /\ pc[p] = "complete"
    /\ row[file[p]] = "pending"
    /\ row' = [row EXCEPT ![file[p]] = "available"]
    /\ stored' = [stored EXCEPT ![p] = p \in Seeders]
    /\ Goto(p, "activate")
    /\ UNCHANGED <<orgs, object, active, org, file, cur, refusal, sweep, events, faults>>

(* Two seeds share the row: the other one completed it first.              *)
CompletedByAnother(p) ==
    /\ pc[p] = "complete"
    /\ row[file[p]] = "available"
    /\ Goto(p, "activate")
    /\ UNCHANGED <<rows, org, file, cur, stored, refusal, sweep, events, faults>>

(* The reclaim reached the row, or removed it: the completion is refused   *)
(* and the writer deletes the object it just put.                          *)
CompletionRefused(p) ==
    /\ pc[p] = "complete"
    /\ row[file[p]] \in {"deleting", "gone"}
    /\ Goto(p, "unput")
    /\ UNCHANGED <<rows, org, file, cur, stored, refusal, sweep, events, faults>>

(* The completion's transaction fails on the row still pending.            *)
CompletionFails(p) ==
    /\ pc[p] = "complete"
    /\ row[file[p]] = "pending"
    /\ Goto(p, "abandon")
    /\ UNCHANGED <<rows, org, file, cur, stored, refusal, sweep, events, faults>>

Unput(p) ==
    /\ pc[p] = "unput"
    /\ object' = [object EXCEPT ![file[p]] = FALSE]
    /\ Finish(p)
    /\ UNCHANGED <<orgs, row, active, sweep, events, faults>>

(* The abandon begins the pending row's delete, at its pending version.    *)
Abandon(p) ==
    /\ pc[p] = "abandon"
    /\ row[file[p]] \in {"pending", "deleting"}
    /\ row' = Doom(file[p])
    /\ cur' = [cur EXCEPT ![p] = file[p]]
    /\ Goto(p, "purgeObject")
    /\ UNCHANGED <<orgs, object, active, org, file, stored, refusal, sweep, events, faults>>

(* The row is gone, or another seed completed it: nothing to abandon.      *)
AbandonNothing(p) ==
    /\ pc[p] = "abandon"
    /\ row[file[p]] \in {"available", "gone"}
    /\ Finish(p)
    /\ UNCHANGED <<rows, sweep, events, faults>>

-----------------------------------------------------------------------------
(* PUT: the activation's transaction, and the retire of a file it could    *)
(* not activate.                                                           *)

(* The hold on the completed file, then the read of the logo to replace.   *)
Hold(c) ==
    /\ c \in Clients
    /\ pc[c] = "activate"
    /\ row[file[c]] = "available"
    /\ cur' = [cur EXCEPT ![c] = active[org[c]]]
    /\ Goto(c, "apply")
    /\ UNCHANGED <<rows, org, file, stored, refusal, sweep, events, faults>>

(* A file no longer available refuses the hold.  A PUT retires it; a seed  *)
(* leaves a file whose delete is under way, or that it did not store.      *)
HoldRefused(p) ==
    /\ pc[p] = "activate"
    /\ row[file[p]] # "available"
    /\ IF p \in Seeders /\ (row[file[p]] = "deleting" \/ ~stored[p])
         THEN Finish(p)
         ELSE /\ refusal' = [refusal EXCEPT ![p] = "conflict"]
              /\ Goto(p, "retire")
              /\ UNCHANGED <<org, file, cur, stored>>
    /\ UNCHANGED <<rows, sweep, events, faults>>

(* The replaced logo's row is purged already, so Files.Delete finds none.  *)
ReplacedGone(c) == cur[c] # None /\ row[cur[c]] = "gone"

(* Once cur's image is removed, another image still makes the bind a       *)
(* unique violation, and a deleted organization a foreign-key violation.   *)
Bindable(c) ==
    /\ org[c] \in orgs
    /\ Detach(cur[c])[org[c]] = None
    /\ ~Bound(file[c])

(* Mutation: the replaced logo's image goes, its file's delete is not      *)
(* begun.                                                                  *)
ActivateKeepingReplaced(c) ==
    /\ c \in Clients
    /\ pc[c] = "apply"
    /\ ~ReplacedGone(c)
    /\ Bindable(c)
    /\ active' = [Detach(cur[c]) EXCEPT ![org[c]] = file[c]]
    /\ SeeUploaded(org[c], file[c])
    /\ Finish(c)
    /\ UNCHANGED <<orgs, row, object, sweep, faults>>

(* Release the replaced logo, bind the new file, emit LogoUploaded, and    *)
(* commit; the replaced file's purge follows.                              *)
Activate(c) ==
    /\ c \in Clients
    /\ pc[c] = "apply"
    /\ ~ReplacedGone(c)
    /\ Bindable(c)
    /\ cur[c] # None => ~HeldByOther(c, cur[c])
    /\ active' = [Detach(cur[c]) EXCEPT ![org[c]] = file[c]]
    /\ SeeUploaded(org[c], file[c])
    /\ IF cur[c] = None
         THEN Finish(c) /\ UNCHANGED row
         ELSE /\ row' = Doom(cur[c])
              /\ Goto(c, "purgeObject")
              /\ UNCHANGED <<org, file, cur, stored, refusal>>
    /\ UNCHANGED <<orgs, object, sweep, faults>>

(* Mutation: a refused activation answers without retiring the new file.   *)
RefusedWithoutRetire(c) ==
    /\ c \in Clients
    /\ pc[c] = "apply"
    /\ ReplacedGone(c) \/ ~Bindable(c)
    /\ Finish(c)
    /\ UNCHANGED <<rows, sweep, events, faults>>

(* The activation's statements are refused: nothing commits, and the new   *)
(* file is retired under the refusal the request answers.                  *)
ActivationRefused(c) ==
    /\ c \in Clients
    /\ pc[c] = "apply"
    /\ ReplacedGone(c) \/ ~Bindable(c)
    /\ refusal' = [refusal EXCEPT ![c] =
                       IF ReplacedGone(c) THEN "missing" ELSE "conflict"]
    /\ Goto(c, "retire")
    /\ UNCHANGED <<rows, org, file, cur, stored, sweep, events, faults>>

(* The activation fails for any other cause: the client hung up, the       *)
(* database dropped the connection, the outbox refused the event.  A seed  *)
(* retires only a file it stored.                                          *)
ActivationFails(p) ==
    /\ pc[p] \in {"activate", "apply"}
    /\ IF p \in Seeders /\ ~stored[p]
         THEN Finish(p)
         ELSE /\ refusal' = [refusal EXCEPT ![p] = "failure"]
              /\ Goto(p, "retire")
              /\ UNCHANGED <<org, file, cur, stored>>
    /\ UNCHANGED <<rows, sweep, events, faults>>

(* RemoveFileID's first transaction.  A seed asks for it at the version    *)
(* its file completed at, which an available file still has.               *)
Retire(p) ==
    /\ pc[p] = "retire"
    /\ row[file[p]] \in {"available", "deleting"}
    /\ ~HeldByOther(p, file[p])
    /\ row' = Doom(file[p])
    /\ cur' = [cur EXCEPT ![p] = file[p]]
    /\ Goto(p, "purgeObject")
    /\ UNCHANGED <<orgs, object, active, org, file, stored, refusal, sweep, events, faults>>

(* The row is gone, which the refusal hides (abandoned), or it is a later  *)
(* seed's pending row, at another version.                                 *)
RetireNothing(p) ==
    /\ pc[p] = "retire"
    /\ row[file[p]] \in {"gone", "pending"}
    /\ Finish(p)
    /\ UNCHANGED <<rows, sweep, events, faults>>

(* PurgeFile: the object first, then the row, if it is still deleting and  *)
(* no image references it.                                                 *)
PurgeObject(p) ==
    /\ pc[p] = "purgeObject"
    /\ object' = [object EXCEPT ![cur[p]] = FALSE]
    /\ Goto(p, "purgeRow")
    /\ UNCHANGED <<orgs, row, active, org, file, cur, stored, refusal, sweep, events, faults>>

Purged(f) ==
    IF row[f] = "deleting" /\ ~Bound(f) THEN [row EXCEPT ![f] = "gone"] ELSE row

PurgeRow(p) ==
    /\ pc[p] = "purgeRow"
    /\ row' = Purged(cur[p])
    /\ Finish(p)
    /\ UNCHANGED <<orgs, object, active, sweep, events, faults>>

-----------------------------------------------------------------------------
(* DELETE of the logo, and of the organization.                            *)

(* The transaction's read of the active logo; none ends it as not found.   *)
ReadLogo(c) ==
    /\ pc[c] = "idle"
    /\ \E o \in Orgs :
        /\ active[o] # None
        /\ org' = [org EXCEPT ![c] = o]
        /\ cur' = [cur EXCEPT ![c] = active[o]]
    /\ Goto(c, "release")
    /\ UNCHANGED <<rows, file, stored, refusal, sweep, events, faults>>

(* Mutation: the deletion commits no event.                                *)
ReleaseSilently(c) ==
    /\ pc[c] = "release"
    /\ ~ReplacedGone(c)
    /\ ~HeldByOther(c, cur[c])
    /\ active' = Detach(cur[c])
    /\ row' = Doom(cur[c])
    /\ Goto(c, "purgeObject")
    /\ UNCHANGED <<orgs, object, org, file, cur, stored, refusal, sweep, events, faults>>

(* Its writes: the image removed, the file's delete begun, LogoDeleted.    *)
Release(c) ==
    /\ pc[c] = "release"
    /\ ~ReplacedGone(c)
    /\ ~HeldByOther(c, cur[c])
    /\ active' = Detach(cur[c])
    /\ row' = Doom(cur[c])
    /\ SeeDeleted(org[c], cur[c])
    /\ Goto(c, "purgeObject")
    /\ UNCHANGED <<orgs, object, org, file, cur, stored, refusal, sweep, faults>>

(* The file's row is gone, or the transaction fails: nothing commits.      *)
ReleaseFails(c) ==
    /\ pc[c] = "release"
    /\ Finish(c)
    /\ UNCHANGED <<rows, sweep, events, faults>>

(* DELETE /organizations/{id}: an image's foreign key blocks it.           *)
DeleteOrganization(o) ==
    /\ o \in orgs
    /\ active[o] = None
    /\ orgs' = orgs \ {o}
    /\ UNCHANGED <<row, object, active, locals, sweep, events, faults>>

-----------------------------------------------------------------------------
(* The logo seed: seedLogo for the one logo a state names.                 *)

(* The organization has no logo, as read on the pool: write the fixture.   *)
SeedStart(s) ==
    /\ pc[s] = "idle"
    /\ SeedOrg \in orgs
    /\ active[SeedOrg] = None
    /\ org' = [org EXCEPT ![s] = SeedOrg]
    /\ file' = [file EXCEPT ![s] = SeedFile]
    /\ Goto(s, "ensure")
    /\ UNCHANGED <<rows, cur, stored, refusal, sweep, events, faults>>

(* EnsureFile's first transaction under the fixed id: insert the pending   *)
(* row or resume it, or find the file; one being deleted is left alone.    *)
SeedEnsure(s) ==
    /\ pc[s] = "ensure"
    /\ \/ /\ row[SeedFile] \in {"absent", "gone", "pending"}
          /\ row' = [row EXCEPT ![SeedFile] = "pending"]
          /\ Goto(s, "put")
          /\ UNCHANGED <<org, file, cur, stored, refusal>>
       \/ /\ row[SeedFile] = "available"
          /\ Goto(s, "activate")
          /\ UNCHANGED <<row, org, file, cur, stored, refusal>>
       \/ /\ row[SeedFile] = "deleting"
          /\ Finish(s)
          /\ UNCHANGED row
    /\ UNCHANGED <<orgs, object, active, sweep, events, faults>>

(* The activation finds no logo and goes on to bind, or finds one and      *)
(* commits nothing: another logo leaves a file this run stored to retire.  *)
SeedHold(s) ==
    /\ s \in Seeders
    /\ pc[s] = "activate"
    /\ row[SeedFile] = "available"
    /\ \/ /\ active[SeedOrg] = None
          /\ Goto(s, "apply")
          /\ UNCHANGED <<org, file, cur, stored, refusal>>
       \/ /\ active[SeedOrg] \notin {None, SeedFile}
          /\ stored[s]
          /\ Goto(s, "retire")
          /\ UNCHANGED <<org, file, cur, stored, refusal>>
       \/ /\ active[SeedOrg] = SeedFile \/ (active[SeedOrg] # None /\ ~stored[s])
          /\ Finish(s)
    /\ UNCHANGED <<rows, sweep, events, faults>>

SeedActivate(s) ==
    /\ s \in Seeders
    /\ pc[s] = "apply"
    /\ Bindable(s)
    /\ active' = [active EXCEPT ![SeedOrg] = SeedFile]
    /\ SeeUploaded(SeedOrg, SeedFile)
    /\ Finish(s)
    /\ UNCHANGED <<orgs, row, object, sweep, faults>>

(* The bind is refused: an image binding the file is left alone, another   *)
(* active image is read again, a deleted organization is an error.         *)
SeedActivationRefused(s) ==
    /\ s \in Seeders
    /\ pc[s] = "apply"
    /\ \/ /\ Bound(SeedFile)
          /\ Finish(s)
       \/ /\ active[SeedOrg] # None
          /\ Goto(s, "reread")
          /\ UNCHANGED <<org, file, cur, stored, refusal>>
       \/ /\ SeedOrg \notin orgs
          /\ stored[s]
          /\ Goto(s, "retire")
          /\ UNCHANGED <<org, file, cur, stored, refusal>>
       \/ /\ SeedOrg \notin orgs
          /\ ~stored[s]
          /\ Finish(s)
    /\ UNCHANGED <<rows, sweep, events, faults>>

(* The active logo read again, on the pool: another logo leaves a file     *)
(* this run stored to retire; its own file, no logo, or a failed read      *)
(* retires nothing.                                                        *)
SeedReread(s) ==
    /\ pc[s] = "reread"
    /\ \/ /\ active[SeedOrg] \notin {None, SeedFile}
          /\ stored[s]
          /\ Goto(s, "retire")
          /\ UNCHANGED <<org, file, cur, stored, refusal>>
       \/ Finish(s)
    /\ UNCHANGED <<rows, sweep, events, faults>>

-----------------------------------------------------------------------------
(* The stale reclaim, which one process runs at a time under the lock      *)
(* sweep.files.  Age is abstracted: any pending or deleting row may be     *)
(* stale, and no available one ever is.                                    *)

(* Mutations: the reclaim forgets one status, or reaches one too many.     *)
ReclaimDeletingOnly ==
    /\ sweeping = None
    /\ \E f \in Files : row[f] = "deleting" /\ sweeping' = f
    /\ sweepPc' = "object"
    /\ UNCHANGED <<rows, locals, events, faults>>

ReclaimPendingOnly ==
    /\ sweeping = None
    /\ \E f \in Files :
        /\ row[f] = "pending"
        /\ row' = Doom(f)
        /\ sweeping' = f
    /\ sweepPc' = "object"
    /\ UNCHANGED <<orgs, object, active, locals, events, faults>>

ReclaimAny ==
    /\ sweeping = None
    /\ \E f \in Files :
        /\ row[f] \in {"pending", "available", "deleting"}
        /\ row' = Doom(f)
        /\ sweeping' = f
    /\ sweepPc' = "object"
    /\ UNCHANGED <<orgs, object, active, locals, events, faults>>

ReclaimBegin ==
    /\ sweeping = None
    /\ \E f \in Files :
        /\ row[f] \in {"pending", "deleting"}
        /\ row' = Doom(f)
        /\ sweeping' = f
    /\ sweepPc' = "object"
    /\ UNCHANGED <<orgs, object, active, locals, events, faults>>

ReclaimObject ==
    /\ sweeping # None
    /\ sweepPc = "object"
    /\ object' = [object EXCEPT ![sweeping] = FALSE]
    /\ sweepPc' = "row"
    /\ UNCHANGED <<orgs, row, active, locals, sweeping, events, faults>>

ReclaimRow ==
    /\ sweeping # None
    /\ sweepPc = "row"
    /\ row' = Purged(sweeping)
    /\ sweeping' = None
    /\ sweepPc' = "object"
    /\ UNCHANGED <<orgs, object, active, locals, events, faults>>

-----------------------------------------------------------------------------
(* Failure: the process dies, or a clean-up step's own call fails and is   *)
(* logged or joined to the answer.  What it left is the reclaim's.         *)

Stop(p) ==
    /\ pc[p] # "idle"
    /\ faults < MaxFaults
    /\ faults' = faults + 1
    /\ Finish(p)
    /\ UNCHANGED <<rows, sweep, events>>

SweepStop ==
    /\ sweeping # None
    /\ faults < MaxFaults
    /\ faults' = faults + 1
    /\ sweeping' = None
    /\ sweepPc' = "object"
    /\ UNCHANGED <<rows, locals, events>>

-----------------------------------------------------------------------------
(* What a process in the middle of a command or a seed does next.          *)
Proceed(p) ==
    \/ Put(p) \/ PutFails(p)
    \/ Complete(p) \/ CompletedByAnother(p) \/ CompletionRefused(p)
    \/ CompletionFails(p) \/ Unput(p)
    \/ Abandon(p) \/ AbandonNothing(p)
    \/ Hold(p) \/ HoldRefused(p)
    \/ Activate(p) \/ ActivationRefused(p) \/ ActivationFails(p)
    \/ Retire(p) \/ RetireNothing(p)
    \/ PurgeObject(p) \/ PurgeRow(p)
    \/ Release(p) \/ ReleaseFails(p)
    \/ SeedEnsure(p) \/ SeedHold(p)
    \/ SeedActivate(p) \/ SeedActivationRefused(p) \/ SeedReread(p)

Reclaim == ReclaimBegin \/ ReclaimObject \/ ReclaimRow

Next ==
    \/ \E c \in Clients : CreatePending(c) \/ ReadLogo(c)
    \/ \E s \in Seeders : SeedStart(s)
    \/ \E p \in Procs : Proceed(p) \/ PutLost(p) \/ Stop(p)
    \/ \E o \in Orgs : DeleteOrganization(o)
    \/ Reclaim
    \/ SweepStop

Spec == Init /\ [][Next]_vars

(* A handler or a seed run that began takes its steps, failures among      *)
(* them, and the sweeper's reactor keeps running its passes.  No client    *)
(* has to send a request.                                                  *)
Fairness ==
    /\ \A p \in Procs : WF_vars(Proceed(p))
    /\ WF_vars(Reclaim)

FairSpec == Spec /\ Fairness
-----------------------------------------------------------------------------
(* Properties.                                                             *)

(* No delete begins on a file an image references: an organization's       *)
(* active logo is never a file being deleted, whichever PUTs, DELETEs and  *)
(* reclaims interleave (putLogo, deleteLogo, release).                     *)
LogoAvailable ==
    \A o \in Orgs : active[o] # None => row[active[o]] = "available"

(* A logo a client uploaded keeps that whatever seed runs meet it: two of  *)
(* them can begin the delete of the active file only where it is their own *)
(* fixed one (seedLogo, retire).                                           *)
UploadedLogoAvailable ==
    \A o \in Orgs :
        active[o] \notin {None, SeedFile} => row[active[o]] = "available"

(* The active logo's object is in the store, so a GET that finds the logo  *)
(* can open it: no clean-up of another file, a lost write's or a replaced  *)
(* logo's, removes it.                                                     *)
LogoStored ==
    \A o \in Orgs : active[o] # None => object[active[o]]

(* Replaying the committed events in order by file id gives exactly the    *)
(* active logos, though a replacement emits no LogoDeleted.                *)
ReplayIsCurrent == view = active

(* A file or object nothing references, no command still owns and no       *)
(* reclaim reaches: an available row, or an object without a row.          *)
Leaked(f) ==
    /\ f # SeedFile
    /\ \A p \in Procs : file[p] # f /\ cur[p] # f
    /\ ~Bound(f)
    /\ row[f] = "available" \/ (row[f] = "gone" /\ object[f])

(* putLogo and the protocol it drives leave such a file only when a        *)
(* process died or a clean-up failed, and each such fault leaves at most   *)
(* one: a hang-up, a lost race or a refused put leaves none.               *)
LeaksNeedFaults == Cardinality({f \in Files : Leaked(f)}) <= faults

(* The reclaim finishes every delete that began, whichever process began   *)
(* it and died.                                                            *)
DeletesFinish == \A f \in Files : row[f] = "deleting" ~> row[f] # "deleting"

(* Once requests stop, every file is an active logo, has left no row and   *)
(* no object, or is one of the few a fault leaked (LeaksNeedFaults): none  *)
(* is left half written or half deleted, a crashed request's included.     *)
Settles ==
    <>[] \A f \in Files :
            \/ Bound(f)
            \/ Leaked(f)
            \/ row[f] \in {"absent", "gone"} /\ ~object[f]

(* storage.go, seedLogo: a seed retires only a file it stored and could    *)
(* not activate, so no delete begins on a file an image may reference.     *)
SparesReferenced ==
    [][\A f \in Files : row[f] # "deleting" /\ row'[f] = "deleting" => ~Bound(f)']_vars

(* README, the event convention: each event commits exactly when its       *)
(* state change does, and a retry of a delete already under way commits    *)
(* none, so a LogoDeleted is committed only with an image's removal.       *)
EventIsAChange == stray = {}

(* README, the organization routes: a concurrent logo replacement answers  *)
(* 409; only a missing organization or logo is not found.                  *)
LostRaceIsConflict == \A c \in Clients : refusal[c] = "missing" => org[c] \notin orgs

(* The uploads the images, or a replay, give the organizations: the        *)
(* state's fixed file, whose id comes back under every seed, is no upload. *)
UploadsOf(logos) ==
    [o \in Orgs |-> IF logos[o] = SeedFile THEN None ELSE logos[o]]

(* The routes implement the register: the uploads among the active images  *)
(* are the logos, and an upload whose delete began is retired.             *)
Register == INSTANCE LogoRegister WITH
    Files   <- Files \ {SeedFile},
    current <- UploadsOf(active),
    told    <- UploadsOf(view),
    retired <- {f \in Files \ {SeedFile} : row[f] \in {"deleting", "gone"}}

(* The PUT, DELETE and reclaim protocols, step by step, do nothing a       *)
(* consumer or a reader of the uploads could tell from that register, and  *)
(* seed runs beside them nothing at all (putLogo, deleteLogo, seedLogo).   *)
ImplementsRegister == Register!RegisterSpec

-----------------------------------------------------------------------------
(* The inductive invariant behind the safety properties.  It speaks of the *)
(* files clients write: the state's one file comes back under its id, and  *)
(* nothing of this kind holds of it.                                       *)

Uploads == Files \ {SeedFile}

Writing == {"put", "complete", "unput", "abandon", "activate", "apply", "retire"}
Purging == {"purgeObject", "purgeRow"}

(* Which of a command's variables are set, by what it does next.           *)
LocalsInv ==
    \A p \in Procs :
        /\ pc[p] = "idle" => cur[p] = None
        /\ p \in Seeders /\ pc[p] # "idle" => file[p] = SeedFile /\ org[p] = SeedOrg
        /\ pc[p] \in {"ensure", "reread"} => p \in Seeders
        /\ pc[p] \in Writing => file[p] \in Files /\ org[p] \in Orgs
        /\ pc[p] = "release" => cur[p] \in Files /\ org[p] \in Orgs
        /\ pc[p] \in Purging => cur[p] \in Files

(* What a writer whose next step is l knows of its file's row and object.  *)
Knows(l, f) ==
    /\ l \in {"put", "complete", "abandon"} => row[f] \in {"pending", "deleting", "gone"}
    /\ l = "complete" /\ row[f] = "pending" => object[f]
    /\ l = "unput" => row[f] \in {"deleting", "gone"}
    /\ l \in {"activate", "apply", "retire"} => row[f] = "available" /\ object[f]

WriterInv == \A c \in Clients : Knows(pc[c], file[c])

(* A file a client writes is that client's alone: no image binds it and no *)
(* other command writes, releases or purges it.                            *)
OwnerInv ==
    \A c \in Clients :
        pc[c] \in Writing =>
            /\ file[c] # SeedFile
            /\ \A o \in Orgs : active[o] # file[c]
            /\ \A q \in Procs : cur[q] # file[c]
            /\ \A q \in Clients \ {c} : pc[q] \in Writing => file[q] # file[c]

(* A logo a command read or purges was completed once; it is available     *)
(* only while it is still the logo of the organization it was read for,    *)
(* and no other organization's image binds it.                             *)
ReadInv ==
    \A p \in Procs :
        cur[p] \in Uploads =>
            /\ row[cur[p]] \in {"available", "deleting", "gone"}
            /\ pc[p] \in Purging => row[cur[p]] \in {"deleting", "gone"}
            /\ pc[p] \in {"apply", "release"} =>
                   /\ \A o \in Orgs : active[o] = cur[p] => o = org[p]
                   /\ row[cur[p]] = "available" => active[org[p]] = cur[p]

(* The state's file is one organization's, and a seed purges no other.     *)
SeedInv ==
    /\ \A o \in Orgs : active[o] = SeedFile => o = SeedOrg
    /\ \A p \in Procs :
          cur[p] = SeedFile /\ pc[p] \in {"apply", "release"} => org[p] = SeedOrg
    /\ \A s \in Seeders :
          /\ cur[s] \in {None, SeedFile}
          /\ pc[s] \notin Purging => cur[s] = None

(* No two organizations' images bind one file.                             *)
ImageInv ==
    \A o1, o2 \in Orgs : active[o1] # None /\ active[o1] = active[o2] => o1 = o2

(* The active upload's object is stored.                                   *)
StoredInv == \A o \in Orgs : active[o] \in Uploads => object[active[o]]

(* The reclaim only ever works on a file whose delete has begun.           *)
SweepInv == sweeping \in Uploads => row[sweeping] \in {"deleting", "gone"}

LogoInv ==
    /\ TypeOK
    /\ LocalsInv
    /\ UploadedLogoAvailable
    /\ StoredInv
    /\ ReplayIsCurrent
    /\ WriterInv
    /\ OwnerInv
    /\ ReadInv
    /\ SeedInv
    /\ ImageInv
    /\ SweepInv

(* A file whose row's purge is under way or done: nothing will remove its  *)
(* object again.                                                           *)
PastObject(f) ==
    \/ row[f] = "gone"
    \/ sweeping = f /\ sweepPc = "row"
    \/ \E p \in Procs : pc[p] = "purgeRow" /\ cur[p] = f

(* The files that leaked or will: an object put past that point which its  *)
(* writer will not take back, or an available file without image or writer.*)
Spent ==
    {f \in Uploads :
        \/ /\ object[f] /\ PastObject(f)
           /\ \A c \in Clients : pc[c] \in {"complete", "unput"} => file[c] # f
        \/ /\ row[f] = "available" /\ ~Bound(f)
           /\ \A c \in Clients : pc[c] \in Writing => file[c] # f}

LeakInv == IsFiniteSet(Spent) /\ Cardinality(Spent) <= faults
=============================================================================
