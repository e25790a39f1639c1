----------------------------- MODULE DocumentShelf -----------------------------
(***************************************************************************)
(* What the file routes promise, without objects, names, locks, requests   *)
(* or statements.  A file is drafted when its upload begins and on the     *)
(* shelf once that is complete; it moves, a version further each time, and *)
(* goes by itself, or hidden with its directory at one blow.  A consumer   *)
(* of the events gets each complete file, each move of one and each        *)
(* removal in the step that makes it, and sees no file in what is drafted. *)
(* An id serves once, the seed's aside.                                    *)
(***************************************************************************)
EXTENDS Naturals

CONSTANTS Dirs, Files, SeedDir, SeedFile, None

VARIABLES
    dir,      \* each directory: "absent", "active", "deleting" or "gone"
    used,     \* the file ids taken
    drafts,   \* where each file being written is, and its version, or None
    shelf,    \* the same of each complete file
    held      \* and of each complete file a consumer holds

shelfVars == <<dir, used, drafts, shelf, held>>

ShelfInit ==
    /\ dir = [d \in Dirs |-> "absent"]
    /\ used = {}
    /\ drafts = [f \in Files |-> None]
    /\ shelf = [f \in Files |-> None]
    /\ held = [f \in Files |-> None]

There(d)     == dir[d] \in {"active", "deleting"}
InDir(x, d)  == x # None /\ x.dir = d
Bare(d)      == \A f \in Files : ~InDir(drafts[f], d) /\ ~InDir(shelf[f], d)
Later(x, d)  == [dir |-> d, version |-> x.version + 1]

(* Only the seed's directory opens again.                                  *)
Open(d) ==
    /\ dir[d] = "absent" \/ (dir[d] = "gone" /\ d = SeedDir)
    /\ Bare(d)
    /\ dir' = [dir EXCEPT ![d] = "active"]
    /\ UNCHANGED <<used, drafts, shelf, held>>

(* A DELETE of an empty directory, or the sweep's removal of a closed one. *)
Remove(d) ==
    /\ There(d) /\ Bare(d)
    /\ dir' = [dir EXCEPT ![d] = "gone"]
    /\ UNCHANGED <<used, drafts, shelf, held>>

(* A recursive DELETE takes the files it saw in the directory, and hides   *)
(* those that raced into it, all with the one event.                       *)
Takes(here, left, d) ==
    \A f \in Files : left[f] = here[f] \/ (InDir(here[f], d) /\ left[f] = None)
Close(d) ==
    /\ There(d)
    /\ dir' = [dir EXCEPT ![d] = "deleting"]
    /\ Takes(drafts, drafts', d) /\ Takes(shelf, shelf', d)
    /\ held' = [f \in Files |-> IF InDir(held[f], d) THEN None ELSE held[f]]
    /\ UNCHANGED used

(* A file shelved in a closed directory is hidden from the start.          *)
Shelve(f, x) ==
    /\ shelf' = [shelf EXCEPT ![f] = x]
    /\ held' = [held EXCEPT ![f] = IF dir[x.dir] = "active" THEN x ELSE None]
    /\ UNCHANGED <<dir, used>>

Begin(f, d) ==
    /\ f \notin used \/ f = SeedFile
    /\ drafts[f] = None /\ shelf[f] = None
    /\ There(d)
    /\ used' = used \cup {f}
    /\ drafts' = [drafts EXCEPT ![f] = [dir |-> d, version |-> 1]]
    /\ UNCHANGED <<dir, shelf, held>>

Complete(f) ==
    /\ drafts[f] # None
    /\ drafts' = [drafts EXCEPT ![f] = None]
    /\ Shelve(f, Later(drafts[f], drafts[f].dir))

GiveUp(f) ==
    /\ drafts[f] # None
    /\ drafts' = [drafts EXCEPT ![f] = None]
    /\ UNCHANGED <<dir, used, shelf, held>>

(* A file may move while it is written; its event shows no file.           *)
MoveDraft(f, d) ==
    /\ drafts[f] # None /\ There(d)
    /\ drafts' = [drafts EXCEPT ![f] = Later(drafts[f], d)]
    /\ UNCHANGED <<dir, used, shelf, held>>

Move(f, d) ==
    /\ shelf[f] # None /\ There(d)
    /\ Shelve(f, Later(shelf[f], d))
    /\ UNCHANGED drafts

Delete(f) ==
    /\ shelf[f] # None
    /\ shelf' = [shelf EXCEPT ![f] = None]
    /\ held' = [held EXCEPT ![f] = None]
    /\ UNCHANGED <<dir, used, drafts>>

ShelfNext ==
    \/ \E d \in Dirs : Open(d) \/ Remove(d) \/ Close(d)
    \/ \E f \in Files : Complete(f) \/ GiveUp(f) \/ Delete(f)
    \/ \E f \in Files, d \in Dirs : Begin(f, d) \/ MoveDraft(f, d) \/ Move(f, d)

ShelfSpec == ShelfInit /\ [][ShelfNext]_shelfVars
=============================================================================
