----------------------------- MODULE DocumentFiles -----------------------------
(***************************************************************************)
(* The files of an organization's directories, /documents/{org}/files: the *)
(* upload, the move, the delete, the recursive delete that reaches them,   *)
(* the sweep that removes what is marked, and the seed that writes a       *)
(* directory and a file under fixed ids.  A file is a row and an object,   *)
(* which no transaction covers together.                                   *)
(*                                                                         *)
(* The directories stand side by side beneath one root; DocumentTree has   *)
(* their nesting, their commands' own steps and the tree lock, so here a   *)
(* directory's create, rename and plain delete are one step each.  A       *)
(* file's create and move check the directory in one statement and commit  *)
(* in another: a mark may commit between them.                             *)
(***************************************************************************)
EXTENDS Naturals, FiniteSets

CONSTANTS
    Dirs,        \* directory ids
    Files,       \* file ids
    SeedDir,     \* the fixed ids the state gives its directory
    SeedFile,    \*   and the file in it
    Clients,     \* request slots
    Seeders,     \* concurrent seed runs
    MaxVersion,  \* bound: a file is moved below this version
    MaxFaults,   \* bound: runs and requests cut short, lost answers
    None

Procs == Clients \cup Seeders

ASSUME DocumentFilesAssumption ==
    /\ SeedDir \in Dirs /\ SeedFile \in Files
    /\ Clients \cap Seeders = {}
    /\ None \notin Dirs \cup Files
    /\ None \notin [status : {"pending", "available", "deleting"},
                    dir : Dirs, named : BOOLEAN, version : Nat]
    /\ None \notin [dir : Dirs, version : Nat, whole : BOOLEAN]
    /\ None \notin [dir : Dirs, version : Nat]
    /\ MaxVersion \in Nat /\ MaxFaults \in Nat

VARIABLES
    dir,         \* each directory: "absent", "active", "deleting" or "gone"
    titled,      \* the directories under the name the state gives
    row,         \* each file's row, None when there is none
    issued,      \* the files whose id has been taken
    object,      \* the files whose object is stored
    heard,       \* the directories a consumer of the events holds
    told,        \* its copy of each file, or None
    pc,          \* what each request or seed run does next
    file,        \* the file it works on
    at,          \* the directory its write is to stand in
    seen,        \* the version it holds: If-Match's, or its pending row's
    locked,      \* the files a mark has updated and not committed
    rerun,       \* a seed's directory is being ensured for the second time
    calm,        \* the seed runs at their directory since whose start no
                 \*   directory was moved or removed
    faults

store  == <<dir, titled, row, issued, object>>
copy   == <<heard, told>>
requests == <<pc, file, at, seen, locked, rerun>>
work     == <<file, at, seen, locked, rerun, calm>>
locals   == <<pc, work>>
vars   == <<store, copy, locals, faults>>

Versions == 0..(MaxVersion + 3)
Statuses == {"pending", "available", "deleting"}
Rows     == [status : Statuses, dir : Dirs, named : BOOLEAN, version : Versions]
Tellings == [dir : Dirs, version : Versions, whole : BOOLEAN]
Labels   == {"idle", "create", "put", "complete", "unput", "abandon", "purgeObject",
             "purgeRow", "moving", "marked",
             "find", "insert", "ensureFile", "failed"}

TypeOK ==
    /\ dir \in [Dirs -> {"absent", "active", "deleting", "gone"}]
    /\ titled \subseteq Dirs
    /\ row \in [Files -> Rows \cup {None}]
    /\ issued \subseteq Files /\ object \subseteq Files /\ heard \subseteq Dirs
    /\ told \in [Files -> Tellings \cup {None}]
    /\ pc \in [Procs -> Labels]
    /\ file \in [Procs -> Files \cup {None}]
    /\ at \in [Procs -> Dirs \cup {None}]
    /\ seen \in [Procs -> Versions]
    /\ locked \in [Procs -> SUBSET Files]
    /\ rerun \in [Procs -> BOOLEAN]
    /\ calm \subseteq Seeders
    /\ faults \in 0..MaxFaults

Init ==
    /\ dir = [d \in Dirs |-> "absent"]
    /\ titled = {}
    /\ row = [f \in Files |-> None]
    /\ issued = {} /\ object = {} /\ heard = {}
    /\ told = [f \in Files |-> None]
    /\ pc = [p \in Procs |-> "idle"]
    /\ file = [p \in Procs |-> None]
    /\ at = [p \in Procs |-> None]
    /\ seen = [p \in Procs |-> 0]
    /\ locked = [p \in Procs |-> {}]
    /\ rerun = [p \in Procs |-> FALSE]
    /\ calm = {}
    /\ faults = 0

-----------------------------------------------------------------------------
Active    == {d \in Dirs : dir[d] = "active"}
Live      == {d \in Dirs : dir[d] \in {"active", "deleting"}}
Is(f, s)  == row[f] # None /\ row[f].status = s
In(d)     == {f \in Files : row[f] # None /\ row[f].dir = d}
Free(f)   == \A p \in Procs : f \notin locked[p]

(* blobfs keeps the names in a directory distinct.                         *)
Taken(d, named) == named /\ \E f \in In(d) : row[f].named
Titled          == titled \cap Live

Goto(p, label) == pc' = [pc EXCEPT ![p] = label]

Finish(p) ==
    /\ Goto(p, "idle")
    /\ file' = [file EXCEPT ![p] = None]
    /\ at' = [at EXCEPT ![p] = None]
    /\ seen' = [seen EXCEPT ![p] = 0]
    /\ locked' = [locked EXCEPT ![p] = {}]
    /\ rerun' = [rerun EXCEPT ![p] = FALSE]
    /\ calm' = calm \ {p}

(* A consumer drops a directory's files with it, and an event about a file *)
(* in a directory it does not hold.                                        *)
Hears(f, d, v, whole) ==
    told' = [told EXCEPT ![f] =
                IF d \in heard THEN [dir |-> d, version |-> v, whole |-> whole] ELSE None]
HearsGone(d) ==
    /\ heard' = heard \ {d}
    /\ told' = [f \in Files |-> IF told[f] # None /\ told[f].dir = d THEN None ELSE told[f]]

(* Files.Delete: the row turns deleting; on one deleting already nothing.  *)
Doomed(f) == [row EXCEPT ![f].status = "deleting", ![f].version = @ + 1]

-----------------------------------------------------------------------------
(* Directories, as far as their files and the seed's entries meet them.    *)

CreateDirectory(d, named) ==
    /\ dir[d] = "absent" /\ d # SeedDir
    /\ named => Titled = {}
    /\ dir' = [dir EXCEPT ![d] = "active"]
    /\ titled' = IF named THEN titled \cup {d} ELSE titled
    /\ heard' = heard \cup {d}
    /\ UNCHANGED <<row, issued, object, told, locals, faults>>

(* A mark's update locks an active directory's row till it commits.        *)
Unmarked(d) == \A c \in Procs : pc[c] = "marked" => at[c] # d

(* A directory moved away from the state's name.                           *)
RenameDirectory(d) ==
    /\ d \in Active \cap titled /\ Unmarked(d)
    /\ titled' = titled \ {d}
    /\ calm' = {}
    /\ UNCHANGED <<dir, row, issued, object, copy, requests, faults>>

(* The plain delete of a directory in which no file's row stands.          *)
DeleteDirectory(d) ==
    /\ d \in Live /\ In(d) = {}
    /\ d \in Active => Unmarked(d)
    /\ dir' = [dir EXCEPT ![d] = "gone"]
    /\ titled' = titled \ {d}
    /\ HearsGone(d)
    /\ calm' = {}
    /\ UNCHANGED <<row, issued, object, requests, faults>>

(* The recursive delete: the rows its statements see, then the commit.     *)
MarkBegin(c, d) ==
    /\ pc[c] = "idle" /\ d \in Live
    /\ \A p \in Procs : pc[p] # "marked"
    /\ Goto(c, "marked")
    /\ at' = [at EXCEPT ![c] = d]
    /\ locked' = [locked EXCEPT ![c] = {f \in In(d) : row[f].status # "deleting" /\ Free(f)}]
    /\ UNCHANGED <<store, copy, file, seen, rerun, calm, faults>>

MarkCommit(c) ==
    LET d == at[c] IN
    /\ pc[c] = "marked"
    /\ d \in Live
    /\ dir' = [dir EXCEPT ![d] = "deleting"]
    /\ row' = [f \in Files |-> IF f \in locked[c] THEN Doomed(f)[f] ELSE row[f]]
    /\ IF d \in Active THEN HearsGone(d) ELSE UNCHANGED copy
    /\ Finish(c)
    /\ UNCHANGED <<titled, issued, object, faults>>

-----------------------------------------------------------------------------
(* The upload: blobfs's two-phase write.                                   *)

(* The scope check and Files.Create read an active directory ...           *)
UploadBegin(c, d) ==
    /\ pc[c] = "idle" /\ d \in Active
    /\ Goto(c, "create")
    /\ at' = [at EXCEPT ![c] = d]
    /\ UNCHANGED <<store, copy, file, seen, locked, rerun, calm, faults>>

(* ... and the pending row commits, in a directory marked since, if so.    *)
UploadCreate(c, f, named) ==
    /\ pc[c] = "create"
    /\ at[c] \in Live /\ ~Taken(at[c], named)
    /\ f \notin issued /\ f # SeedFile
    /\ row' = [row EXCEPT ![f] = [status |-> "pending", dir |-> at[c], named |-> named, version |-> 1]]
    /\ issued' = issued \cup {f}
    /\ file' = [file EXCEPT ![c] = f]
    /\ at' = [at EXCEPT ![c] = None]
    /\ seen' = [seen EXCEPT ![c] = 1]
    /\ Goto(c, "put")
    /\ UNCHANGED <<dir, titled, object, copy, locked, rerun, calm, faults>>

Put(p) ==
    /\ pc[p] = "put"
    /\ object' = object \cup {file[p]}
    /\ Goto(p, "complete")
    /\ UNCHANGED <<dir, titled, row, issued, copy, work, faults>>

(* The store or the body fails the put, or its answer is lost.             *)
PutFails(p) ==
    /\ pc[p] = "put"
    /\ \/ UNCHANGED <<object, faults>>
       \/ /\ faults < MaxFaults
          /\ faults' = faults + 1
          /\ object' = object \cup {file[p]}
    /\ Goto(p, "abandon")
    /\ UNCHANGED <<dir, titled, row, issued, copy, work>>

(* Mutations: the event is not the completed row's; the completion does    *)
(* not check that the row is still pending.                                *)
CompleteToldPending(p) ==
    LET f == file[p] IN
    /\ pc[p] = "complete" /\ Free(f) /\ Is(f, "pending")
    /\ row' = [row EXCEPT ![f].status = "available", ![f].version = @ + 1]
    /\ Hears(f, row[f].dir, seen[p] + 1, TRUE)
    /\ Finish(p)
    /\ UNCHANGED <<dir, titled, issued, object, heard, faults>>

CompleteDeleting(p) ==
    LET f == file[p] IN
    /\ pc[p] = "complete" /\ Free(f) /\ (Is(f, "pending") \/ Is(f, "deleting"))
    /\ row' = [row EXCEPT ![f].status = "available", ![f].version = @ + 1]
    /\ Hears(f, row[f].dir, row[f].version + 1, TRUE)
    /\ Finish(p)
    /\ UNCHANGED <<dir, titled, issued, object, heard, faults>>

(* The completion and FileUploaded, at whatever version the row is by now. *)
Complete(p) ==
    LET f == file[p] IN
    /\ pc[p] = "complete" /\ Free(f) /\ Is(f, "pending")
    /\ row' = [row EXCEPT ![f].status = "available", ![f].version = @ + 1]
    /\ Hears(f, row[f].dir, row[f].version + 1, TRUE)
    /\ Finish(p)
    /\ UNCHANGED <<dir, titled, issued, object, heard, faults>>

(* Another seed completed the row, or the completion's transaction fails.  *)
CompleteFails(p) ==
    /\ pc[p] = "complete"
    /\ \/ Is(file[p], "available") /\ Finish(p)
       \/ /\ Is(file[p], "pending")
          /\ Goto(p, "abandon")
          /\ UNCHANGED work
    /\ UNCHANGED <<store, copy, faults>>

(* Mutation: a refused completion leaves the object it put.                *)
CompleteRefusedKeeping(p) ==
    /\ pc[p] = "complete" /\ Free(file[p])
    /\ row[file[p]] = None \/ Is(file[p], "deleting")
    /\ Finish(p)
    /\ UNCHANGED <<store, copy, faults>>

(* A mark or a delete reached the row, or the sweep removed it.            *)
CompleteRefused(p) ==
    /\ pc[p] = "complete" /\ Free(file[p])
    /\ row[file[p]] = None \/ Is(file[p], "deleting")
    /\ Goto(p, "unput")
    /\ UNCHANGED <<store, copy, work, faults>>

Unput(p) ==
    /\ pc[p] = "unput"
    /\ object' = object \ {file[p]}
    /\ Finish(p)
    /\ UNCHANGED <<dir, titled, row, issued, copy, faults>>

(* The abandon deletes the row at the version it was pending at; one moved *)
(* since, or completed, is left.                                            *)
Abandon(p) ==
    LET f == file[p] IN
    /\ pc[p] = "abandon" /\ Free(f)
    /\ IF Is(f, "deleting") \/ (Is(f, "pending") /\ row[f].version = seen[p])
         THEN /\ row' = IF Is(f, "pending") THEN Doomed(f) ELSE row
              /\ Goto(p, "purgeObject")
              /\ UNCHANGED work
         ELSE Finish(p) /\ UNCHANGED row
    /\ UNCHANGED <<dir, titled, issued, object, copy, faults>>

-----------------------------------------------------------------------------
(* The move and the delete, at the version the client read.                *)

(* The scope, and the directories the update's snapshot reads as active;   *)
(* the version is the one the client's If-Match turns out to match.        *)
MoveCheck(c, f, d) ==
    /\ pc[c] = "idle"
    /\ row[f] # None /\ row[f].version < MaxVersion
    /\ {row[f].dir, d} \subseteq Active
    /\ file' = [file EXCEPT ![c] = f]
    /\ seen' = [seen EXCEPT ![c] = row[f].version]
    /\ at' = [at EXCEPT ![c] = d]
    /\ Goto(c, "moving")
    /\ UNCHANGED <<store, copy, locked, rerun, calm, faults>>

(* A pending file moves too, and its event carries no size and no tag.     *)
MoveCommit(c, named) ==
    LET f == file[c] IN
    /\ pc[c] = "moving" /\ row[f] # None /\ Free(f)
    /\ row[f].status # "deleting" /\ row[f].version = seen[c]
    /\ at[c] \in Live /\ ~Taken(at[c], named)
    /\ row' = [row EXCEPT ![f].dir = at[c], ![f].named = named, ![f].version = @ + 1]
    /\ Hears(f, at[c], row[f].version + 1, row[f].status = "available")
    /\ Finish(c)
    /\ UNCHANGED <<dir, titled, issued, object, heard, faults>>

(* Mutation: a repeated delete updates the row and tells once more.        *)
DeleteRowAgain(c, f) ==
    /\ pc[c] = "idle" /\ row[f] # None /\ Free(f)
    /\ row' = Doomed(f)
    /\ told' = [told EXCEPT ![f] = None]
    /\ file' = [file EXCEPT ![c] = f]
    /\ Goto(c, "purgeObject")
    /\ UNCHANGED <<dir, titled, issued, object, heard, at, seen, locked, rerun, calm, faults>>

(* The first delete tells; one that finds the file deleting goes on to the *)
(* purge at any version, and tells nothing.                                *)
DeleteRow(c, f) ==
    /\ pc[c] = "idle" /\ row[f] # None /\ Free(f)
    /\ IF Is(f, "deleting")
         THEN UNCHANGED <<row, told>>
         ELSE row' = Doomed(f) /\ told' = [told EXCEPT ![f] = None]
    /\ file' = [file EXCEPT ![c] = f]
    /\ Goto(c, "purgeObject")
    /\ UNCHANGED <<dir, titled, issued, object, heard, at, seen, locked, rerun, calm, faults>>

PurgeObject(p) ==
    /\ pc[p] = "purgeObject"
    /\ object' = object \ {file[p]}
    /\ Goto(p, "purgeRow")
    /\ UNCHANGED <<dir, titled, row, issued, copy, work, faults>>

PurgeRow(p) ==
    LET f == file[p] IN
    /\ pc[p] = "purgeRow"
    /\ row' = IF Is(f, "deleting") THEN [row EXCEPT ![f] = None] ELSE row
    /\ Finish(p)
    /\ UNCHANGED <<dir, titled, issued, object, copy, faults>>

(* Out of scope, stale, a taken name, a gone row: the command is refused.  *)
Refused(c) ==
    /\ pc[c] \in {"create", "moving", "marked"}
    /\ Finish(c)
    /\ UNCHANGED <<store, copy, faults>>

-----------------------------------------------------------------------------
(* The sweep's pass: a deleting row's object, then the row, then the       *)
(* directory it leaves empty; a pending row of any age may be stale.       *)

SweepStale(f) ==
    /\ Is(f, "pending") /\ Free(f)
    /\ row' = Doomed(f)
    /\ UNCHANGED <<dir, titled, issued, object, copy, locals, faults>>

(* Mutation: an object that is gone already fails the file's removal.      *)
SweepFileStored(f) ==
    /\ Is(f, "deleting") /\ f \in object
    /\ object' = object \ {f}
    /\ row' = [row EXCEPT ![f] = None]
    /\ UNCHANGED <<dir, titled, issued, copy, locals, faults>>

(* A put that lands between the object's delete and the row's leaves what  *)
(* one that lands after both does.                                         *)
SweepFile(f) ==
    /\ Is(f, "deleting")
    /\ IF f \in object
         THEN object' = object \ {f} /\ UNCHANGED row
         ELSE row' = [row EXCEPT ![f] = None] /\ UNCHANGED object
    /\ UNCHANGED <<dir, titled, issued, copy, locals, faults>>

SweepDirectory(d) ==
    /\ dir[d] = "deleting" /\ In(d) = {}
    /\ dir' = [dir EXCEPT ![d] = "gone"]
    /\ titled' = titled \ {d}
    /\ calm' = {}
    /\ UNCHANGED <<row, issued, object, copy, requests, faults>>

-----------------------------------------------------------------------------
(* The seed: a directory under its fixed id and name, then its file.       *)

SeedBegin(s) ==
    /\ pc[s] \in {"idle", "failed"}
    /\ Goto(s, "find")
    /\ rerun' = [rerun EXCEPT ![s] = FALSE]
    /\ calm' = calm \cup {s}
    /\ UNCHANGED <<store, copy, file, at, seen, locked, faults>>

(* Directories.Ensure finds the name, whoever made it; one that is being   *)
(* deleted is left, with the entries beneath it.                            *)
SeedFind(s) ==
    /\ pc[s] = "find"
    /\ \/ \E d \in Titled \cap Active :
            /\ at' = [at EXCEPT ![s] = d]
            /\ calm' = calm \ {s}
            /\ Goto(s, "ensureFile")
            /\ UNCHANGED <<file, seen, locked, rerun>>
       \/ Titled \ Active # {} /\ Finish(s)
       \/ /\ Titled = {}
          /\ Goto(s, "insert")
          /\ UNCHANGED work
    /\ UNCHANGED <<store, copy, faults>>

(* Mutation: the second attempt's directory goes untold.                   *)
SeedInsertRerunSilent(s) ==
    /\ pc[s] = "insert"
    /\ Titled = {} /\ SeedDir \notin Live
    /\ dir' = [dir EXCEPT ![SeedDir] = "active"]
    /\ titled' = titled \cup {SeedDir}
    /\ heard' = IF rerun[s] THEN heard ELSE heard \cup {SeedDir}
    /\ at' = [at EXCEPT ![s] = SeedDir]
    /\ calm' = calm \ {s}
    /\ Goto(s, "ensureFile")
    /\ UNCHANGED <<row, issued, object, told, file, seen, locked, rerun, faults>>

SeedInsert(s) ==
    /\ pc[s] = "insert"
    /\ Titled = {} /\ SeedDir \notin Live
    /\ dir' = [dir EXCEPT ![SeedDir] = "active"]
    /\ titled' = titled \cup {SeedDir}
    /\ heard' = heard \cup {SeedDir}
    /\ at' = [at EXCEPT ![s] = SeedDir]
    /\ calm' = calm \ {s}
    /\ Goto(s, "ensureFile")
    /\ UNCHANGED <<row, issued, object, told, file, seen, locked, rerun, faults>>

(* Postgres checks the primary key first: an id another name holds refuses *)
(* the insert as taken, and only then does the name.                       *)
SeedIdTaken   == SeedDir \in Live
SeedNameTaken == SeedDir \notin Live /\ Titled # {}

(* Mutation: a name taken is the seed's error at once.                     *)
SeedInsertRefusedOnce(s) ==
    /\ pc[s] = "insert"
    /\ \/ SeedIdTaken /\ Finish(s)
       \/ /\ SeedNameTaken
          /\ Goto(s, "failed")
          /\ UNCHANGED work
    /\ UNCHANGED <<store, copy, faults>>

(* Once more in a fresh transaction; then an id that a moved directory     *)
(* holds is left alone, and the name is the seed's error.                  *)
SeedInsertRefused(s) ==
    /\ pc[s] = "insert"
    /\ SeedIdTaken \/ SeedNameTaken
    /\ \/ /\ ~rerun[s]
          /\ rerun' = [rerun EXCEPT ![s] = TRUE]
          /\ Goto(s, "find")
          /\ UNCHANGED <<file, at, seen, locked, calm>>
       \/ rerun[s] /\ SeedIdTaken /\ Finish(s)
       \/ /\ rerun[s] /\ SeedNameTaken
          /\ Goto(s, "failed")
          /\ UNCHANGED work
    /\ UNCHANGED <<store, copy, faults>>

(* Mutation: a row found pending counts as found complete.                 *)
SeedLeavesPending(s) ==
    row[SeedFile] # None \/ Taken(at[s], TRUE)

(* What EnsureFile leaves as it stands: its file complete, its id under    *)
(* another name or directory, another file under its name, a delete.       *)
SeedLeaves(s) ==
    \/ Is(SeedFile, "available") \/ Is(SeedFile, "deleting")
    \/ row[SeedFile] # None /\ ~(row[SeedFile].named /\ row[SeedFile].dir = at[s])
    \/ row[SeedFile] = None /\ Taken(at[s], TRUE)

(* Files.Ensure's row, in a directory read active, or the pending one it   *)
(* resumes; a directory that is deleting refuses it.                       *)
SeedEnsureFile(s) ==
    /\ pc[s] = "ensureFile"
    /\ \/ SeedLeaves(s) /\ Finish(s) /\ UNCHANGED <<row, issued>>
       \/ /\ ~SeedLeaves(s)
          /\ row[SeedFile] = None => at[s] \in Live
          /\ row' = IF row[SeedFile] # None THEN row
                    ELSE [row EXCEPT ![SeedFile] =
                            [status |-> "pending", dir |-> at[s], named |-> TRUE, version |-> 1]]
          /\ issued' = issued \cup {SeedFile}
          /\ file' = [file EXCEPT ![s] = SeedFile]
          /\ seen' = [seen EXCEPT ![s] = IF row[SeedFile] = None THEN 1 ELSE row[SeedFile].version]
          /\ at' = [at EXCEPT ![s] = None]
          /\ rerun' = [rerun EXCEPT ![s] = FALSE]
          /\ Goto(s, "put")
          /\ UNCHANGED <<locked, calm>>
       \/ at[s] \notin Active /\ Finish(s) /\ UNCHANGED <<row, issued>>
    /\ UNCHANGED <<dir, titled, object, copy, faults>>

(* The process stops, or a clean-up's own call fails; a seed is run again. *)
Stop(p) ==
    /\ pc[p] # "idle"
    /\ IF p \in Seeders THEN UNCHANGED faults
       ELSE faults < MaxFaults /\ faults' = faults + 1
    /\ Finish(p)
    /\ UNCHANGED <<store, copy>>

-----------------------------------------------------------------------------
Request(c) ==
    \/ \E d \in Dirs : UploadBegin(c, d) \/ MarkBegin(c, d)
    \/ \E f \in Files : DeleteRow(c, f) \/ \E d \in Dirs : MoveCheck(c, f, d)

Proceed(p) ==
    \/ \E f \in Files, named \in BOOLEAN : UploadCreate(p, f, named)
    \/ Put(p) \/ PutFails(p) \/ Complete(p) \/ CompleteFails(p)
    \/ CompleteRefused(p) \/ Unput(p) \/ Abandon(p)
    \/ \E named \in BOOLEAN : MoveCommit(p, named)
    \/ PurgeObject(p) \/ PurgeRow(p) \/ MarkCommit(p) \/ Refused(p)

SeedStep(s) ==
    SeedFind(s) \/ SeedInsert(s) \/ SeedInsertRefused(s) \/ SeedEnsureFile(s) \/ Proceed(s)

Next ==
    \/ \E d \in Dirs : \/ \E named \in BOOLEAN : CreateDirectory(d, named)
                       \/ RenameDirectory(d) \/ DeleteDirectory(d) \/ SweepDirectory(d)
    \/ \E c \in Clients : Request(c) \/ Proceed(c)
    \/ \E s \in Seeders : SeedBegin(s) \/ SeedStep(s)
    \/ \E f \in Files : SweepStale(f) \/ SweepFile(f)
    \/ \E p \in Procs : Stop(p)

Spec == Init /\ [][Next]_vars

(* A request or a seed taken up goes on; the sweep comes back and finds    *)
(* what is deleting, but no row need ever be stale.                        *)
Fairness ==
    /\ \A c \in Clients : WF_vars(Proceed(c))
    /\ \A s \in Seeders : WF_vars(SeedStep(s))
    /\ \A f \in Files : WF_vars(SweepFile(f))
    /\ \A d \in Dirs : WF_vars(SweepDirectory(d))

FairSpec == Spec /\ Fairness

-----------------------------------------------------------------------------
(* Properties.                                                             *)

(* A consumer that applies the events in order holds exactly the files a   *)
(* client can download from the directories it can list, each where its    *)
(* row is and at its version: one event hides a branch with the files an   *)
(* upload or a move races into it, a pending file's move shows none, and   *)
(* the clean-ups of deletes, failed writes and marked branches tell        *)
(* nothing that is missed.                                                 *)
ConsumerSeesFiles ==
    LET shown == {f \in Files : Is(f, "available") /\ row[f].dir \in Active}
    IN  /\ heard = Active
        /\ {f \in Files : told[f] # None /\ told[f].whole} = shown
        /\ \A f \in shown : told[f].dir = row[f].dir /\ told[f].version = row[f].version

(* An available file's bytes are in the store, whatever deletes, marks and *)
(* sweeps clean up beside it.  Not stated of the seed's file, whose key is *)
(* written again while an older delete of it may still be under way.       *)
Downloadable == \A f \in Files \ {SeedFile} : Is(f, "available") => f \in object

(* An object without a row is one an upload still has in hand: the upload  *)
(* whose row was marked and swept while its put was under way removes what *)
(* it put, and only a process that stops leaves it.                        *)
NoOrphans ==
    faults = 0 =>
        \A f \in object \ {SeedFile} :
            row[f] = None => \E p \in Procs : file[p] = f /\ pc[p] \in {"complete", "unput"}

(* A seed's one rerun is enough beside any number of other seeds and       *)
(* creates: a run fails on the name only if a directory was moved or      *)
(* removed while it ran.                                                   *)
OneRerunSuffices == \A s \in Seeders : pc[s] = "failed" => s \notin calm

(* A seed that finds its file's pending row, another run's or one that     *)
(* stopped between its two files, resumes it: it never takes the entry for *)
(* seeded and ends while the row is pending in the entry's place.          *)
SeedResumes ==
    [][\A s \in Seeders :
          SeedEnsureFile(s) /\ at[s] \in Active /\ pc'[s] = "idle" =>
              ~(Is(SeedFile, "pending") /\ row[SeedFile].named /\ row[SeedFile].dir = at[s])]_vars

(* The shelf the statements make: what is pending, what is available, what *)
(* the events have told of the latter.                                     *)
Place(x)  == [dir |-> x.dir, version |-> x.version]
Drafts    == [f \in Files |-> IF Is(f, "pending") THEN Place(row[f]) ELSE None]
Shelved   == [f \in Files |-> IF Is(f, "available") THEN Place(row[f]) ELSE None]
Copies    == [f \in Files |-> IF told[f] # None /\ told[f].whole THEN Place(told[f]) ELSE None]

Shelf == INSTANCE DocumentShelf
    WITH used <- issued, drafts <- Drafts, shelf <- Shelved, held <- Copies

(* Whatever uploads, moves, deletes, seeds and the sweep do between each    *)
(* other's statements, each commit is one step of the abstract shelf and    *)
(* tells exactly what that step owes, or nothing a client could notice: no *)
(* file is completed twice or after it was taken, loses or repeats a       *)
(* version, comes back under its id, or outlives its directory.            *)
ImplementsShelf == Shelf!ShelfSpec

(* What is deleting is gone in the end, the directory once every file in   *)
(* it is, unless one that raced into the branch stands in it, for a        *)
(* repeated delete to mark.                                                *)
Swept ==
    /\ \A f \in Files : Is(f, "deleting") ~> ~Is(f, "deleting")
    /\ \A d \in Dirs :
          dir[d] = "deleting" ~>
              dir[d] # "deleting" \/ \E f \in In(d) : row[f].status # "deleting"
=============================================================================
