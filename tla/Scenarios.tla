------------------------------- MODULE Scenarios -------------------------------
(***************************************************************************)
(* The slab client against the service: its scenarios, each a sequence of  *)
(* requests and what it expects of every answer, run one after another,    *)
(* any of them stopped anywhere; its commands, given by hand beside them;  *)
(* and the sweeper's files passes with their count, which three of the     *)
(* scenarios wait for.  A step of a scenario that makes several changes is *)
(* an action for each, so that a stop may fall between.                    *)
(***************************************************************************)
EXTENDS Api

LOCAL INSTANCE SequencesExt

CONSTANTS
    MaxTurns,   \* bound: runs of scenarios, and a command given by hand
    MaxPasses,  \* bound: passes counted while the sweeper scenario runs
    Targets     \* the names of the rows a command is given for

VARIABLES
    rows,     \* the service's rows
    pass,     \* the files reclaimer: "idle" or "running"
    scn,      \* the scenario running, None between two
    step,     \* the one of its steps it is at
    mem,      \* what its steps hand forward: identities by name
    told,     \* the events its requests had committed
    runs,     \* how many scenarios were started
    failed,   \* the step that got an answer it does not expect, and its scenario
    meter,    \* passes counted, and exported, since the sweeper scenario's first step
    cli,      \* a command: the row its caller read, and what it said in the end
    foreign   \* a command changed rows under a scenario, or since the last reset

run  == <<scn, step, mem, told, runs, failed>>
vars == <<rows, pass, run, meter, cli, foreign>>

StorageSteps == <<
    "additiveSeed", "readLogo", "revalidateLogo", "replaceLogo", "deleteLogo",
    "documentTree", "cursorWalk", "missingIfMatch", "staleIfMatch", "takenName",
    "anotherOrganization", "createBranch", "createDrafts", "createNotes", "readBranch",
    "recursiveDelete", "readMarked", "sweep", "reset">>
EventsSteps == <<
    "createOrganization", "editOrganization", "transferOrganization", "uploadLogo",
    "replaceLogo", "deleteLogo", "firstDirectory", "moreDirectories", "lastDirectory",
    "uploadFiles", "uploadScratch", "moveDirectory", "moveFile", "deleteFile",
    "deleteEmptyDirectory", "readScratch", "deleteBranch", "sweep", "readRoot",
    "deleteDocumentRoot", "sweep", "deleteOrganization">>
DomainSteps == <<
    "initialization", "rawList", "find", "findByPath", "create", "edit", "transfer",
    "results", "delete">>
ProblemsSteps == <<
    "initialization", "list", "malformedIdentifier", "malformedQuery", "malformedBody",
    "oversizedBody", "domainValidation", "missingIfMatch", "malformedIfMatch",
    "staleVersion", "notFound", "duplicateCode", "transferCycle">>
SweeperSteps == <<
    "passCounts", "createBranch", "createNotes", "readBranch", "deleteRecursively",
    "sweep", "nextExport">>

Steps == [storage |-> StorageSteps, events |-> EventsSteps, domain |-> DomainSteps,
          problems |-> ProblemsSteps, sweeper |-> SweeperSteps]

Names == DOMAIN Steps
At(name, s) == scn = name /\ Steps[name][step] = s

Nothing == [counted |-> 0, exported |-> 0, fresh |-> FALSE, early |-> FALSE]
Unused  == [held |-> None, says |-> None, at |-> None]

TypeOK ==
    /\ \A i \in DOMAIN rows :
        /\ rows[i].kind \in Kinds
        /\ rows[i].version > 0
        /\ rows[i].parent \in DOMAIN rows \cup {None}
        /\ rows[i].org \in Of(rows, "org") \cup {None}
    /\ pass \in {"idle", "running"}
    /\ scn \in Names \cup {None}
    /\ step \in 1 .. (IF scn = None THEN 1 ELSE Len(Steps[scn]))
    /\ \A l \in DOMAIN mem : mem[l].version \in Nat
    /\ runs \in 0 .. MaxTurns
    /\ meter.exported <= meter.counted
    /\ cli.says \in {None, "done", "failed", "unsent", "waiting"}
    /\ foreign \in BOOLEAN

Init ==
    /\ rows = Default
    /\ pass = "idle"
    /\ scn = None /\ step = 1 /\ mem = <<>> /\ told = <<>> /\ runs = 0
    /\ failed = None
    /\ meter = Nothing
    /\ cli = Unused
    /\ foreign = FALSE

-----------------------------------------------------------------------------
(* A run, its steps and their requests.                                    *)

Turns == runs + (IF cli = Unused THEN 0 ELSE 1)

Start(name) ==
    /\ scn = None /\ Turns < MaxTurns
    /\ scn' = name /\ runs' = runs + 1 /\ told' = <<>> /\ failed' = None
    /\ UNCHANGED <<rows, pass, step, mem, meter, cli, foreign>>

Leave ==
    /\ scn' = None /\ step' = 1 /\ mem' = <<>> /\ meter' = Nothing
    /\ UNCHANGED runs

(* An interrupt, between two requests.                                     *)
Stop ==
    /\ scn # None
    /\ Leave
    /\ told' = <<>>
    /\ UNCHANGED <<rows, pass, failed, cli, foreign>>

Advance(kept) ==
    IF step = Len(Steps[scn]) THEN Leave
    ELSE /\ step' = step + 1 /\ mem' = kept
         /\ UNCHANGED <<scn, runs, meter>>

Fail ==
    /\ failed' = <<scn, Steps[scn][step]>>
    /\ Leave
    /\ told' = <<>>

Id(l)     == mem[l].id
Seen(l)   == mem[l].version
Minted(l) == <<runs, l>>

(* A name for the run alone, and the same one every time.                  *)
Unstamped(l) == l   \* mutation
Stamped(l) == l \o "-" \o ToString(runs)

Answered(q) ==
    CASE q.verb = "create" -> q.fresh
      [] q.verb = "lookup" -> CHOOSE i \in OrgAt(rows, q.name) : TRUE
      [] OTHER             -> Target(q)
Identity(q) == [id |-> Answered(q), version |-> After(rows, q)[Answered(q)].version]
Keep(l, q)  == (l :> Identity(q)) @@ mem

(* One request and what its step asks of the answer: the status, whatever  *)
(* else ok says, and what it hands forward.                                *)
Expect(name, s, q, want, ok, kept) ==
    /\ At(name, s)
    /\ rows' = After(rows, q)
    /\ IF Status(rows, q) = want /\ ok
       THEN /\ Advance(kept)
            /\ told' = IF name = "events" THEN told \o Told(rows, q) ELSE told
            /\ UNCHANGED failed
       ELSE Fail
    /\ UNCHANGED <<pass, cli, foreign>>

(* A request that is to change nothing, whose answer alone matters.        *)
Observe(name, s, q, want) == Expect(name, s, q, want, TRUE, mem)

(* lookup.                                                                 *)
Acme == CHOOSE i \in OrgAt(rows, <<"acme">>) : TRUE

CreateUnder(name, s, l, parent, dir) ==
    LET q == CreateDirectoryReq(Id("org"), parent, dir, Minted(l))
    IN  Expect(name, s, q, 201, TRUE, Keep(l, q))

(* AwaitSweep polls the Location until it is not found.                    *)
Swept(org, id) == Status(rows, DirectoryReq(org, id)) = 404

Sweep ==
    /\ scn # None /\ Steps[scn][step] = "sweep"
    /\ Swept(Id("org"), Id("branch"))
    /\ Advance(mem)
    /\ UNCHANGED <<rows, pass, told, failed, cli, foreign>>

(* The service drains the sweeper before it resets.                        *)
ResetState ==
    /\ pass = "idle"
    /\ rows' = Default
    /\ foreign' = FALSE
    /\ UNCHANGED <<pass, cli>>

SeedCounts == [organizations |-> Len(SeedOrgs), logos |-> Len(SeedOrgs),
               documents |-> Len(SeedTree)]

Reset ==
    /\ At("storage", "reset")
    /\ ResetState
    /\ IF Counts(Empty, rows') = SeedCounts
       THEN Advance(mem) /\ UNCHANGED <<told, failed>> ELSE Fail

Initialize(name) ==
    /\ At(name, "initialization")
    /\ ResetState
    /\ Advance(mem)
    /\ UNCHANGED <<told, failed>>

-----------------------------------------------------------------------------
(* storage.                                                                *)

SeededID(path) == (CHOOSE e \in Range(SeedTree) : e.path = path).id
Guarding(version) == DeleteFileReq(Id("org"), SeededID(<<"README.txt">>), version)

AdditiveSeed ==
    /\ At("storage", "additiveSeed")
    /\ rows' = Seed(rows)
    /\ LET at(path) == CHOOSE i \in OrgAt(rows', path) : TRUE
       IN  Advance("org" :> [id |-> at(<<"acme">>), version |-> 1]
                   @@ "other" :> [id |-> at(<<"acme", "finance">>), version |-> 1])
    /\ UNCHANGED <<pass, told, failed, cli, foreign>>

ReadLogo ==
    LET q == LogoReq(Id("org"), None)
    IN  Expect("storage", "readLogo", q, 200, TRUE, Keep("logo", q))

RevalidateLogo ==
    Observe("storage", "revalidateLogo", LogoReq(Id("org"), Seen("logo")), 304)

ReplaceLogo ==
    LET q == PutLogoReq(Id("org"), "engineering")
    IN  Expect("storage", "replaceLogo", q, 201,
               LET new == After(rows, q)[Target(q)]
               IN  new.title = "engineering" /\ new.version # Seen("logo"), mem)

DeleteLogo ==
    LET q == DeleteLogoReq(Id("org"))
    IN  Expect("storage", "deleteLogo", q, 204,
               Status(After(rows, q), LogoReq(Id("org"), None)) = 404, mem)

(* The tree walked from the root a listing at a time.                      *)
Walked(id, path) ==
    /\ id \in DOMAIN rows
    /\ Path(rows, id) = <<"/">> \o path
    /\ \A i \in Above(rows, id) : ~rows[i].marked

DocumentTree ==
    Expect("storage", "documentTree", ListDirectoriesReq(Id("org"), Alias), 200,
           /\ Status(rows, ListFilesReq(Id("org"), Alias)) = 200
           /\ \A e \in Range(SeedTree) : Walked(e.id, e.path), mem)

(* The top level's pages, one directory each, in the order of their names. *)
CursorWalk ==
    Expect("storage", "cursorWalk", ListDirectoriesReq(Id("org"), Alias), 200,
           \A e \in Range(SeedTree) : Len(e.path) = 1 /\ e.kind = "dir" =>
              \E i \in Listed(rows, RootOf(Id("org"))) : rows[i].name = Last(e.path), mem)

MissingIfMatch ==
    LET q == FileReq(Id("org"), SeededID(<<"README.txt">>))
    IN  Expect("storage", "missingIfMatch", q, 200,
               Status(rows, Guarding(None)) = 428, Keep("guarded", q))

StaleVersion == IF Seen("guarded") > 1 THEN Seen("guarded") - 1 ELSE Seen("guarded") + 1

StaleIfMatch == Observe("storage", "staleIfMatch", Guarding(StaleVersion), 412)

TakenName ==
    LET q == CreateDirectoryReq(Id("org"), Alias, "engineering", Minted("taken"))
    IN  Expect("storage", "takenName", q, 409, Detail(rows, q) = "taken", mem)

AnotherOrganization ==
    LET id == SeededID(<<"engineering">>)
    IN  Expect("storage", "anotherOrganization", DirectoryReq(Id("org"), id), 200,
               Status(rows, DirectoryReq(Id("other"), id)) = 404, mem)

CreateBranch == CreateUnder("storage", "createBranch", "branch", Alias, Stamped("storage-demo"))
CreateDrafts == CreateUnder("storage", "createDrafts", "drafts", Id("branch"), "drafts")
CreateNotes ==
    Observe("storage", "createNotes",
            UploadFileReq(Id("org"), Id("drafts"), "notes.txt", Minted("notes")), 201)

ReadBranch ==
    LET q == DirectoryReq(Id("org"), Id("branch"))
    IN  Expect("storage", "readBranch", q, 200, ~rows[Id("branch")].marked, Keep("branch", q))

RecursiveDelete ==
    Observe("storage", "recursiveDelete",
            DeleteDirectoryReq(Id("org"), Id("branch"), Seen("branch"), TRUE), 202)

(* The nudged pass may be done with the branch before it is read.          *)
ReadMarked ==
    Expect("storage", "readMarked", ListDirectoriesReq(Id("org"), Id("branch")), 404,
           Status(rows, DirectoryReq(Id("org"), Id("branch"))) = 200 =>
              rows[Id("branch")].marked, mem)

-----------------------------------------------------------------------------
(* events.                                                                 *)

CreateOrganization ==
    LET q == CreateReq(Acme, Stamped("events"), Minted("org"))
    IN  Expect("events", "createOrganization", q, 201, TRUE, Keep("org", q))

WriteOrganization(name, s, l, q) ==
    Expect(name, s, q, 200, Identity(q).version = Seen(l) + 1, Keep(l, q))

EditOrganization ==
    WriteOrganization("events", "editOrganization", "org",
        EditReq(Id("org"), Seen("org"), Stamped("events"), "edited"))

TransferOrganization ==
    WriteOrganization("events", "transferOrganization", "org",
        TransferReq(Id("org"), Seen("org"), None))

PutLogo(s, fixture) == Observe("events", s, PutLogoReq(Id("org"), fixture), 201)
UploadFirstLogo  == PutLogo("uploadLogo", "operations")
UploadSecondLogo == PutLogo("replaceLogo", "product")
RemoveLogo       == Observe("events", "deleteLogo", DeleteLogoReq(Id("org")), 204)

CreateDirectory(s, name) == CreateUnder("events", s, name, Alias, name)
FirstDirectory  == CreateDirectory("firstDirectory", "reports")
MoreDirectories == \/ CreateDirectory("moreDirectories", "scratch")
                   \/ CreateDirectory("lastDirectory", "empty")

UploadFile(s, dir, name) ==
    LET q == UploadFileReq(Id("org"), Id(dir), name, Minted(name))
    IN  Expect("events", s, q, 201, TRUE, Keep(name, q))

UploadFiles == \/ UploadFile("uploadFiles", "reports", "summary.txt")
               \/ UploadFile("uploadScratch", "scratch", "notes.txt")

Move(s, l, q) == Expect("events", s, q, 200, TRUE, Keep(l, q))
MoveDirectory ==
    Move("moveDirectory", "empty",
         MoveDirectoryReq(Id("org"), Id("empty"), Seen("empty"), Id("reports"), "archive"))
MoveFile ==
    LET l == "summary.txt"
    IN  Move("moveFile", l,
             MoveFileReq(Id("org"), Id(l), Seen(l), Id("reports"), "summary-final.txt"))

DeleteFile ==
    Observe("events", "deleteFile",
            DeleteFileReq(Id("org"), Id("summary.txt"), Seen("summary.txt")), 204)
DeleteEmptyDirectory ==
    Observe("events", "deleteEmptyDirectory",
            DeleteDirectoryReq(Id("org"), Id("empty"), Seen("empty"), FALSE), 204)

(* deleteRecursively: the read its version comes from, the delete, and the *)
(* wait in a sweep step.                                                   *)
ReadVersion(name, s, id) ==
    LET q == DirectoryReq(Id("org"), id)
    IN  Expect(name, s, q, 200, TRUE, Keep("branch", q))
Recursively(name, s, id) ==
    Observe(name, s, DeleteDirectoryReq(Id("org"), id, Seen("branch"), TRUE), 202)

DeleteBranch == \/ ReadVersion("events", "readScratch", Id("scratch"))
                \/ Recursively("events", "deleteBranch", Id("scratch"))
DeleteDocumentRoot == \/ ReadVersion("events", "readRoot", Alias)
                      \/ Recursively("events", "deleteDocumentRoot", Alias)

(* At the version a read shows.                                            *)
DeleteOrganization ==
    LET org == Id("org")
    IN  Observe("events", "deleteOrganization",
            DeleteReq(org, IF org \in DOMAIN rows THEN rows[org].version ELSE None), 204)

-----------------------------------------------------------------------------
(* domain and problems, which keep the listed organizations by code.       *)

List(name, s) ==
    Expect(name, s, ListReq, 200, TRUE,
           [c \in {rows[i].name : i \in Of(rows, "org")} |->
               LET o == CHOOSE i \in Of(rows, "org") : rows[i].name = c
               IN  [id |-> o, version |-> rows[o].version]])

DomainInitialization == Initialize("domain")
RawList == List("domain", "rawList")

Find == Observe("domain", "find", FindReq(Id("acme")), 200)
FindByPath ==
    Observe("domain", "findByPath", LookupReq(<<"acme", "engineering", "platform">>), 200)

Create ==
    LET q == CreateReq(Id("acme"), "created", Minted("created"))
    IN  Expect("domain", "create", q, 201, TRUE, Keep("created", q))

Edit ==
    WriteOrganization("domain", "edit", "finance",
        EditReq(Id("finance"), Seen("finance"), "finance", "edited"))

Transfer ==
    WriteOrganization("domain", "transfer", "logistics",
        TransferReq(Id("logistics"), Seen("logistics"), Id("engineering")))

Results ==
    Expect("domain", "results", ListReq, 200,
           /\ Id("created") \in Of(rows, "org")
           /\ rows[Id("finance")].title = "edited"
           /\ rows[Id("logistics")].parent = Id("engineering"), mem)

DeleteCreated ==
    Observe("domain", "delete", DeleteReq(Id("created"), Seen("created")), 204)

ProblemsInitialization == Initialize("problems")
ProblemsList == List("problems", "list")

Rename(version) == EditReq(Id("acme"), version, "acme", "renamed")
Sales(body) == [CreateReq(None, "sales", Minted("sales")) EXCEPT !.body = body]
Malformed(q) == [q EXCEPT !.path = Bad]
Problem(s, q, want) == Observe("problems", s, q, want)

MalformedIdentifier == Problem("malformedIdentifier", Malformed(FindReq(None)), 400)
MalformedQuery   == Problem("malformedQuery", Malformed(ListReq), 400)
MalformedBody    == Problem("malformedBody", Sales("cut short"), 400)
OversizedBody    == Problem("oversizedBody", Sales("oversized"), 413)
DomainValidation == Problem("domainValidation", Sales("invalid"), 400)
UnguardedEdit    == Problem("missingIfMatch", Rename(None), 428)
MalformedIfMatch == Problem("malformedIfMatch", Rename(Bad), 400)
StaleEdit        == Problem("staleVersion", Rename(Seen("acme") + 1), 412)
NotFound         == Problem("notFound", FindReq(<<0, "absent">>), 404)
DuplicateCode ==
    Problem("duplicateCode", CreateReq(None, "acme", Minted("sales")), 409)
TransferCycle ==
    Problem("transferCycle", TransferReq(Id("acme"), Seen("acme"), Id("platform")), 409)

-----------------------------------------------------------------------------
(* sweeper: the count its nudged pass moves, read through the exports.     *)

(* The time of an export is read before its counts, so a pass may have     *)
(* been counted since.                                                     *)
PassCounts ==
    /\ At("sweeper", "passCounts")
    /\ step' = step + 1
    /\ meter' \in {[Nothing EXCEPT !.counted = n] : n \in 0 .. 1}
    /\ UNCHANGED <<rows, pass, scn, mem, told, runs, failed, cli, foreign>>

SweeperBranch ==
    LET q == CreateDirectoryReq(Acme, Alias, Stamped("sweeper"), Minted("branch"))
    IN  Expect("sweeper", "createBranch", q, 201, TRUE,
               "org" :> [id |-> Acme, version |-> 1] @@ Keep("branch", q))
SweeperNotes ==
    Observe("sweeper", "createNotes",
            UploadFileReq(Id("org"), Id("branch"), "notes.txt", Minted("notes")), 201)
SweeperRead      == ReadVersion("sweeper", "readBranch", Id("branch"))
DeleteRecursively == Recursively("sweeper", "deleteRecursively", Id("branch"))

(* Waits for an export after the sweep, and asks that files has moved.  An *)
(* export may fall between the branch's last row and the count of the pass *)
(* that removed it: "uncounted", a failure of its own.                     *)
NextExport ==
    /\ At("sweeper", "nextExport")
    /\ meter.fresh
    /\ failed' = IF meter.exported > 0 THEN None
                 ELSE <<"sweeper", IF meter.early THEN "uncounted" ELSE "nextExport">>
    /\ Leave
    /\ UNCHANGED <<rows, pass, told, cli, foreign>>

-----------------------------------------------------------------------------
(* The sweeper's files reclaimer and the export of its count.  A pass is   *)
(* nudged by a mark, or comes of its interval, which only the sweeper      *)
(* scenario looks at.                                                      *)

AllMarked == {i \in DOMAIN rows : rows[i].marked}
Measured  == scn = "sweeper" /\ step > 1

PassBegin ==
    /\ pass = "idle"
    /\ AllMarked # {} \/ (Measured /\ meter.counted < MaxPasses)
    /\ pass' = "running"
    /\ UNCHANGED <<rows, run, meter, cli, foreign>>

(* Leaves first.                                                           *)
PassRemove ==
    /\ pass = "running"
    /\ \E i \in AllMarked :
        /\ \A j \in DOMAIN rows : rows[j].parent # i
        /\ rows' = Without(rows, {i})
    /\ UNCHANGED <<pass, run, meter, cli, foreign>>

PassEnd ==
    /\ pass = "running" /\ AllMarked = {}
    /\ pass' = "idle"
    /\ meter' = IF Measured /\ meter.counted < MaxPasses
                THEN [meter EXCEPT !.counted = @ + 1] ELSE meter
    /\ UNCHANGED <<rows, run, cli, foreign>>

Export ==
    /\ Measured
    /\ meter' = [meter EXCEPT !.exported = meter.counted,
                              !.fresh = At("sweeper", "nextExport"),
                              !.early = pass = "running" /\ meter.counted = 0]
    /\ meter' # meter
    /\ UNCHANGED <<rows, pass, run, cli, foreign>>

-----------------------------------------------------------------------------
(* A command given by hand, beside whatever runs.  One on a row names the  *)
(* version of the row its caller was shown.                                *)

Show(kind) ==
    /\ cli = Unused /\ Turns < MaxTurns
    /\ \E i \in Of(rows, kind) :
        /\ i[2] \in Targets
        /\ cli' = [cli EXCEPT !.held = [id |-> i, row |-> rows[i]]]
    /\ UNCHANGED <<rows, pass, run, meter, foreign>>

GetCommand       == Show("org")
DirsGetCommand   == Show("dir")
FilesShowCommand == Show("file")

(* Mutation: the version in the body is sent over the flag's.              *)
BodyWins(flag, body) == IF body # None THEN body ELSE flag
IfMatch(flag, body)  == IF flag # None THEN flag ELSE body

(* The flag and the body's version: either, both, the body's ahead, none.  *)
VersionsNamed ==
    LET v == cli.held.row.version
    IN  {<<v, None>>, <<None, v>>, <<v, v + 1>>, <<None, None>>}

Wanted(q) ==
    CASE q.verb \in {"create", "put"} -> 201
      [] q.verb = "branch" -> 202
      [] q.verb = "delete" -> 204
      [] OTHER -> 200

(* A command says it is done when its answer is the one it wants, which    *)
(* after a recursive delete may be the first of the polls of --wait.       *)
Say(q, wait) ==
    /\ rows' = After(rows, q)
    /\ foreign' = (foreign \/ rows' # rows)
    /\ cli' = [cli EXCEPT !.says = CASE Status(rows, q) # Wanted(q) -> "failed"
                                     [] wait -> "waiting"
                                     [] OTHER -> "done",
                          !.at = IF wait THEN q ELSE None]
    /\ UNCHANGED <<pass, run, meter>>

Unsent ==
    /\ cli' = [cli EXCEPT !.says = "unsent"]
    /\ UNCHANGED <<rows, pass, run, meter, foreign>>

Holding(kind) == cli.held # None /\ cli.says = None /\ cli.held.row.kind = kind
HeldId  == cli.held.id
HeldOrg == cli.held.row.org

GuardedBody(kind, q) ==
    /\ Holding(kind)
    /\ \E v \in VersionsNamed :
        IF IfMatch(v[1], v[2]) = None THEN Unsent
        ELSE Say([q EXCEPT !.ifMatch = IfMatch(v[1], v[2])], FALSE)

EditCommand ==
    GuardedBody("org", EditReq(HeldId, None, cli.held.row.name, "by hand"))
TransferCommand  == GuardedBody("org", TransferReq(HeldId, None, None))
DirsMoveCommand  ==
    GuardedBody("dir", MoveDirectoryReq(HeldOrg, HeldId, None, Alias, "by hand"))
FilesMoveCommand ==
    GuardedBody("file", MoveFileReq(HeldOrg, HeldId, None, Alias, "by hand"))

(* Without a body the flag is required.                                    *)
DeleteCommand ==
    Holding("org") /\ Say(DeleteReq(HeldId, cli.held.row.version), FALSE)
DirsDeleteCommand ==
    /\ Holding("dir")
    /\ \E recursive, wait \in BOOLEAN :
        /\ wait => recursive
        /\ Say(DeleteDirectoryReq(HeldOrg, HeldId, cli.held.row.version, recursive), wait)
FilesDeleteCommand ==
    Holding("file") /\ Say(DeleteFileReq(HeldOrg, HeldId, cli.held.row.version), FALSE)

Waiting(says) ==
    /\ cli.says = "waiting"
    /\ cli' = [cli EXCEPT !.says = says, !.at = None]
    /\ UNCHANGED <<rows, pass, run, meter, foreign>>

WaitDone  == Waiting("done") /\ Swept(cli.at.org, cli.at.id)
WaitLimit == Waiting("failed") /\ ~Swept(cli.at.org, cli.at.id)

ByHand(q) == cli = Unused /\ Turns < MaxTurns /\ Say(q, FALSE)
Given == <<0, "by hand">>

DirsCreateCommand ==
    \E name \in {"by hand", "engineering"} :
        ByHand(CreateDirectoryReq(Acme, Alias, name, Given))
FilesPutCommand ==
    \E name \in {"by hand", "README.txt"} : ByHand(UploadFileReq(Acme, Alias, name, Given))
CreateCommand == \E parent \in {None, Acme} : ByHand(CreateReq(parent, "acme", Given))
LogoPutCommand    == ByHand(PutLogoReq(Acme, "by hand"))
LogoDeleteCommand == ByHand(DeleteLogoReq(Acme))

Written(changed) ==
    /\ cli = Unused /\ Turns < MaxTurns
    /\ cli' = [cli EXCEPT !.says = "done"]
    /\ rows' = changed
    /\ UNCHANGED <<pass, run, meter>>

SeedCommand == Written(Seed(rows)) /\ foreign' = (foreign \/ rows' # rows)

(* state --confirm; without it the service refuses.                        *)
StateCommand ==
    \/ /\ pass = "idle"
       /\ Written(Default) /\ foreign' = (scn # None)
    \/ /\ cli = Unused /\ Turns < MaxTurns
       /\ cli' = [cli EXCEPT !.says = "failed"]
       /\ UNCHANGED <<rows, pass, run, meter, foreign>>

-----------------------------------------------------------------------------
StorageStep ==
    \/ AdditiveSeed \/ ReadLogo \/ RevalidateLogo \/ ReplaceLogo \/ DeleteLogo
    \/ DocumentTree \/ CursorWalk \/ MissingIfMatch \/ StaleIfMatch \/ TakenName
    \/ AnotherOrganization \/ CreateBranch \/ CreateDrafts \/ CreateNotes
    \/ ReadBranch \/ RecursiveDelete \/ ReadMarked

EventsStep ==
    \/ CreateOrganization \/ EditOrganization \/ TransferOrganization
    \/ UploadFirstLogo \/ UploadSecondLogo \/ RemoveLogo
    \/ FirstDirectory \/ MoreDirectories \/ UploadFiles \/ MoveDirectory
    \/ MoveFile \/ DeleteFile \/ DeleteEmptyDirectory \/ DeleteBranch
    \/ DeleteDocumentRoot \/ DeleteOrganization

DomainStep ==
    \/ DomainInitialization \/ RawList \/ Find \/ FindByPath \/ Create \/ Edit
    \/ Transfer \/ Results \/ DeleteCreated

ProblemsStep ==
    \/ ProblemsInitialization \/ ProblemsList \/ MalformedIdentifier
    \/ MalformedQuery \/ MalformedBody \/ OversizedBody \/ DomainValidation
    \/ UnguardedEdit \/ MalformedIfMatch \/ StaleEdit \/ NotFound
    \/ DuplicateCode \/ TransferCycle

SweeperStep ==
    \/ PassCounts \/ SweeperBranch \/ SweeperNotes \/ SweeperRead
    \/ DeleteRecursively \/ NextExport

ScenarioStep ==
    \/ StorageStep \/ EventsStep \/ DomainStep \/ ProblemsStep \/ SweeperStep
    \/ Sweep \/ Reset

Pass == PassBegin \/ PassRemove \/ PassEnd

Command ==
    \/ GetCommand \/ DirsGetCommand \/ FilesShowCommand
    \/ EditCommand \/ TransferCommand \/ DeleteCommand
    \/ DirsMoveCommand \/ DirsDeleteCommand \/ FilesMoveCommand \/ FilesDeleteCommand
    \/ CreateCommand \/ DirsCreateCommand \/ FilesPutCommand
    \/ LogoPutCommand \/ LogoDeleteCommand \/ SeedCommand \/ StateCommand
    \/ WaitDone \/ WaitLimit

Next ==
    \/ \E name \in Names : Start(name)
    \/ Stop
    \/ ScenarioStep
    \/ Pass
    \/ Export
    \/ Command

Spec == Init /\ [][Next]_vars

-----------------------------------------------------------------------------
(* A scenario left to itself is answered as it expects, whatever the       *)
(* scenarios run or stopped before it left behind: none of them leaves a   *)
(* row another's expectations, or its own second run, would meet.  Only    *)
(* the export may come too early.                                          *)
ScenariosSucceed ==
    failed \in {None, <<"sweeper", "uncounted">>} \/ foreign

(* A whole run of the events scenario commits one event of each of the     *)
(* kinds it walks, replacements, branches and roots adding none of their   *)
(* own, and leaves none of its rows.                                       *)
EventsTold ==
    told # <<>> /\ scn = None /\ ~foreign =>
        /\ Len(told) = 19
        /\ Cardinality({n \in DOMAIN told : told[n][1] \in {"org", "logo"}}) = 7
        /\ \A i \in DOMAIN rows : <<runs, "org">> \notin {i, rows[i].org}

(* A command that did not go through changed nothing, and one on a row     *)
(* changes it only as its caller was shown it, whichever of the flag and   *)
(* the body named the version, or finishes what is being deleted already.  *)
HonestCommands ==
    [][cli'.says # cli.says /\ rows' # rows =>
        /\ cli'.says \in {"done", "waiting"}
        /\ cli.held # None =>
              /\ cli.held.id \in DOMAIN rows
              /\ \/ rows[cli.held.id] = cli.held.row
                 \/ rows[cli.held.id].marked /\ cli.held.id \notin DOMAIN rows']_vars
================================================================================
