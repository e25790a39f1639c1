-------------------------- MODULE DocumentFilesProofs --------------------------
(***************************************************************************)
(* The documents' files, their objects and their events agree, and the     *)
(* seed's one rerun suffices, for any instance of DocumentFiles.           *)
(***************************************************************************)
EXTENDS DocumentFiles, TLAPS

(* A file's row stands in a directory that is there, at a version that     *)
(* leaves room for a completion, a mark and a delete.                      *)
RowsInv ==
    \A f \in Files : row[f] # None =>
        /\ f \in issued /\ row[f].dir \in Live
        /\ row[f].status = "pending" => row[f].version <= MaxVersion + 1
        /\ row[f].status = "available" => row[f].version <= MaxVersion + 2

(* What a request or a seed run has in hand.                               *)
Writing == {"put", "complete", "unput", "abandon", "purgeObject", "purgeRow"}
Hand(p) ==
    /\ pc[p] \in Writing \cup {"moving"} => file[p] \in issued
    /\ pc[p] \in {"create", "moving", "marked", "ensureFile"} => at[p] \in Dirs
    /\ pc[p] = "moving" => seen[p] < MaxVersion
    /\ p \in Seeders => file[p] \in {None, SeedFile} /\ pc[p] \notin {"create", "moving", "marked"}
HandInv == \A p \in Procs : Hand(p)

(* The rows of a mark stay as its statements found them.                   *)
MarkInv ==
    /\ \A p \in Procs : /\ pc[p] # "marked" => locked[p] = {}
                        /\ \A f \in locked[p] :
                              row[f] # None /\ row[f].dir = at[p] /\ row[f].status # "deleting"
    /\ \A p, q \in Procs : pc[p] = "marked" /\ pc[q] = "marked" => p = q

(* An id is never taken again, the seed's aside: a row that is deleting or *)
(* gone has its object removed by whoever comes to it, and a row that is   *)
(* to be completed keeps the object it was put under.                      *)
Dying(f) == row[f] = None \/ Is(f, "deleting")
ObjectInv ==
    /\ Downloadable
    /\ \A p \in Procs : file[p] # SeedFile =>
          /\ pc[p] = "complete" /\ Is(file[p], "pending") => file[p] \in object
          /\ pc[p] \in {"unput", "purgeObject", "purgeRow"} => Dying(file[p])

(* A purge about to remove a row has removed its object; one put after     *)
(* that is its upload's to take back.                                      *)
Held(f)    == \E p \in Procs : file[p] = f /\ pc[p] \in {"complete", "unput"}
Purged(f)  == \E p \in Procs : file[p] = f /\ pc[p] = "purgeRow"
OrphanInv  ==
    faults = 0 => \A f \in object \ {SeedFile} : row[f] = None \/ Purged(f) => Held(f)

(* The consumer's copy, file by file.                                      *)
ToldInv ==
    /\ heard = Active
    /\ \A f \in Files :
          /\ told[f] # None => told[f].dir \in Active
          /\ told[f] # None /\ told[f].whole =>
                Is(f, "available") /\ told[f].dir = row[f].dir /\ told[f].version = row[f].version
          /\ Is(f, "available") /\ row[f].dir \in Active => told[f] # None /\ told[f].whole

(* What refused a calm run's insert once is still there: the name for its  *)
(* second look, or the id for its second insert.                           *)
Seeding(s) ==
    /\ pc[s] = "failed" => s \notin calm
    /\ s \in calm /\ rerun[s] /\ pc[s] \in {"find", "insert"} =>
          SeedDir \in Live \/ (pc[s] = "find" /\ Titled # {})
SeedInv == \A s \in Seeders : Seeding(s)

FilesInv ==
    /\ TypeOK /\ RowsInv /\ HandInv /\ MarkInv
    /\ ObjectInv /\ OrphanInv /\ ToldInv /\ SeedInv

-----------------------------------------------------------------------------
(* Types, and what a write makes of a row.                                 *)

USE DocumentFilesAssumption DEF Procs

LEMMA NoneIsNone == None \notin Rows /\ None \notin Tellings
<1>1. Rows \subseteq [status : {"pending", "available", "deleting"},
                     dir : Dirs, named : BOOLEAN, version : Nat]
  BY DEF Rows, Statuses, Versions
<1>2. Tellings \subseteq [dir : Dirs, version : Nat, whole : BOOLEAN]
  BY DEF Tellings, Versions
<1> QED
  BY <1>1, <1>2

LEMMA FinishTyped ==
    ASSUME TypeOK, NEW p \in Procs, Finish(p)
    PROVE  /\ pc' \in [Procs -> Labels]
           /\ file' \in [Procs -> Files \cup {None}]
           /\ at' \in [Procs -> Dirs \cup {None}]
           /\ seen' \in [Procs -> Versions]
           /\ locked' \in [Procs -> SUBSET Files]
           /\ rerun' \in [Procs -> BOOLEAN]
           /\ calm' \subseteq Seeders
BY DEF TypeOK, Finish, Goto, Labels, Versions

LEMMA RowFields ==
    ASSUME TypeOK, NEW f \in Files, row[f] # None
    PROVE  /\ row[f] \in Rows /\ row[f].status \in Statuses /\ row[f].dir \in Dirs
           /\ row[f].named \in BOOLEAN /\ row[f].version \in Nat
<1>1. row[f] \in Rows
  BY DEF TypeOK
<1> QED
  BY <1>1 DEF Rows, Versions

(* The row a file gets, by the fields that matter.                         *)
Became(f, status, d, v) ==
    /\ row'[f] \in Rows
    /\ row'[f].status = status /\ row'[f].dir = d /\ row'[f].version = v
OneRow(f) == \A g \in Files \ {f} : row'[g] = row[g]

(* An update of two fields of a row, or of three, as one of the row.       *)
LEMMA TwoFields ==
    ASSUME TypeOK, NEW f \in Files, row[f] # None, NEW s
    PROVE  [row EXCEPT ![f].status = s, ![f].version = @ + 1] =
           [row EXCEPT ![f] = [status |-> s, dir |-> row[f].dir, named |-> row[f].named,
                               version |-> row[f].version + 1]]
<1> DEFINE r   == row[f]
           one == [row EXCEPT ![f].status = s]
           two == [one EXCEPT ![f].version = @ + 1]
<1>1. r \in Rows
  BY RowFields
<1>2. one = [row EXCEPT ![f] = [r EXCEPT !.status = s]]
  OBVIOUS
<1>3. DOMAIN row = Files
  BY DEF TypeOK
<1>4. two = [row EXCEPT ![f] = [[r EXCEPT !.status = s] EXCEPT !.version = @ + 1]]
  BY <1>2, <1>3
<1>5. [[r EXCEPT !.status = s] EXCEPT !.version = @ + 1] =
      [status |-> s, dir |-> r.dir, named |-> r.named, version |-> r.version + 1]
  <2>1. r = [status |-> r.status, dir |-> r.dir, named |-> r.named, version |-> r.version]
    BY <1>1 DEF Rows
  <2>2. [r EXCEPT !.status = s] = [status |-> s, dir |-> r.dir, named |-> r.named, version |-> r.version]
    BY <2>1
  <2>3. [[status |-> s, dir |-> r.dir, named |-> r.named, version |-> r.version] EXCEPT !.version = @ + 1] =
        [status |-> s, dir |-> r.dir, named |-> r.named, version |-> r.version + 1]
    OBVIOUS
  <2> QED
    BY <2>2, <2>3
<1> QED
  BY <1>4, <1>5

Placed(f, d, n) == [row EXCEPT ![f].dir = d, ![f].named = n, ![f].version = @ + 1]
LEMMA ThreeFields ==
    ASSUME TypeOK, NEW f \in Files, row[f] # None, NEW d, NEW n
    PROVE  Placed(f, d, n) =
           [row EXCEPT ![f] = [status |-> row[f].status, dir |-> d, named |-> n,
                               version |-> row[f].version + 1]]
<1> DEFINE r     == row[f]
           one   == [row EXCEPT ![f].dir = d]
           two   == [one EXCEPT ![f].named = n]
           three == [two EXCEPT ![f].version = @ + 1]
           x     == [r EXCEPT !.dir = d]
           y     == [x EXCEPT !.named = n]
           z     == [y EXCEPT !.version = @ + 1]
<1>1. r \in Rows
  BY RowFields
<1>2. one = [row EXCEPT ![f] = x]
  OBVIOUS
<1>3. DOMAIN row = Files
  BY DEF TypeOK
<1>4. two = [row EXCEPT ![f] = y]
  BY <1>2, <1>3
<1>5. three = [row EXCEPT ![f] = z]
  <2>1. three = [two EXCEPT ![f] = [two[f] EXCEPT !.version = @ + 1]]
    OBVIOUS
  <2>2. two[f] = y
    BY <1>3, <1>4
  <2>3. three = [two EXCEPT ![f] = z]
    BY <2>1, <2>2
  <2> HIDE DEF two, three, y, z
  <2> QED
    BY <1>3, <1>4, <2>3
<1>6. z = [status |-> r.status, dir |-> d, named |-> n, version |-> r.version + 1]
  <2>1. r = [status |-> r.status, dir |-> r.dir, named |-> r.named, version |-> r.version]
    BY <1>1 DEF Rows
  <2>2. x = [status |-> r.status, dir |-> d, named |-> r.named, version |-> r.version]
    BY <2>1
  <2>3. [[status |-> r.status, dir |-> d, named |-> r.named, version |-> r.version] EXCEPT !.named = n] =
        [status |-> r.status, dir |-> d, named |-> n, version |-> r.version]
    OBVIOUS
  <2>4. [[status |-> r.status, dir |-> d, named |-> n, version |-> r.version] EXCEPT !.version = @ + 1] =
        [status |-> r.status, dir |-> d, named |-> n, version |-> r.version + 1]
    OBVIOUS
  <2>5. y = [status |-> r.status, dir |-> d, named |-> n, version |-> r.version]
    BY <2>2, <2>3
  <2> HIDE DEF x, y
  <2> QED
    BY <2>4, <2>5
<1>7. Placed(f, d, n) = three
  BY DEF Placed
<1> HIDE DEF three, z
<1> QED
  BY <1>5, <1>6, <1>7

LEMMA RowSet ==
    ASSUME TypeOK, NEW f \in Files, NEW r \in Rows \cup {None}, row' = [row EXCEPT ![f] = r]
    PROVE  row' \in [Files -> Rows \cup {None}] /\ row'[f] = r /\ OneRow(f)
BY DEF TypeOK, OneRow

LEMMA RowUpdated ==
    ASSUME TypeOK, NEW f \in Files, row[f] # None, NEW s \in Statuses,
           row[f].version <= MaxVersion + 2,
           row' = [row EXCEPT ![f].status = s, ![f].version = @ + 1]
    PROVE  /\ row' \in [Files -> Rows \cup {None}]
           /\ Became(f, s, row[f].dir, row[f].version + 1)
           /\ OneRow(f)
<1> DEFINE r == [status |-> s, dir |-> row[f].dir, named |-> row[f].named, version |-> row[f].version + 1]
<1>2. r \in Rows
  BY RowFields DEF Rows, Versions
<1>3. row' = [row EXCEPT ![f] = r]
  BY TwoFields
<1> HIDE DEF r
<1>4. row' \in [Files -> Rows \cup {None}] /\ row'[f] = r /\ OneRow(f)
  BY <1>2, <1>3, RowSet
<1> QED
  BY <1>2, <1>4 DEF Became, r

(* A file not deleting is marked so at the version after its own.          *)
LEMMA RowDoomed ==
    ASSUME TypeOK, RowsInv, NEW f \in Files, row[f] # None, row[f].status # "deleting"
    PROVE  /\ Doomed(f) \in [Files -> Rows \cup {None}]
           /\ \A g \in Files \ {f} : Doomed(f)[g] = row[g]
           /\ Doomed(f)[f] \in Rows
           /\ Doomed(f)[f].status = "deleting" /\ Doomed(f)[f].dir = row[f].dir
           /\ Doomed(f)[f].version = row[f].version + 1
<1> DEFINE r == [status |-> "deleting", dir |-> row[f].dir, named |-> row[f].named,
                 version |-> row[f].version + 1]
<1>2. r \in Rows
  BY RowFields DEF RowsInv, Rows, Versions, Statuses
<1>3. Doomed(f) = [row EXCEPT ![f] = r]
  BY TwoFields DEF Doomed
<1> HIDE DEF r
<1>4. /\ Doomed(f) \in [Files -> Rows \cup {None}] /\ Doomed(f)[f] = r
      /\ \A g \in Files \ {f} : Doomed(f)[g] = row[g]
  BY <1>2, <1>3 DEF TypeOK
<1> QED
  BY <1>2, <1>4 DEF r

-----------------------------------------------------------------------------
(* The fates of a file: a step leaves its row, creates, completes, moves,  *)
(* marks or drops it, and tells the consumer what that owes.               *)

Retold(f) ==
    told'[f] = IF told[f] # None /\ told[f].dir \in heard' THEN told[f] ELSE None
Tells(f, whole) ==
    told'[f] = IF row'[f].dir \in heard'
                 THEN [dir |-> row'[f].dir, version |-> row'[f].version, whole |-> whole] ELSE None

Stays(f) == row'[f] = row[f] /\ Retold(f)
Born(f) ==
    /\ row[f] = None /\ (f \notin issued \/ f = SeedFile)
    /\ \E d \in Live' : Became(f, "pending", d, 1)
    /\ Retold(f)
Completes(f) ==
    /\ Is(f, "pending") /\ Free(f)
    /\ Became(f, "available", row[f].dir, row[f].version + 1)
    /\ f = SeedFile \/ f \in object'
    /\ Tells(f, TRUE)
Moves(f) ==
    /\ row[f] # None /\ ~Is(f, "deleting") /\ Free(f) /\ row[f].version < MaxVersion
    /\ \E d \in Live' : Became(f, row[f].status, d, row[f].version + 1)
    /\ Tells(f, row[f].status = "available")
Dies(f) ==
    /\ row[f] # None /\ ~Is(f, "deleting")
    /\ \A p \in Procs : f \in locked[p] => locked'[p] = {}
    /\ Became(f, "deleting", row[f].dir, row[f].version + 1)
    /\ told'[f] # None => told[f] # None /\ told'[f] = told[f] /\ ~told[f].whole /\ told[f].dir \in heard'
Drops(f) ==
    /\ Is(f, "deleting") /\ row'[f] = None /\ Retold(f)
    /\ Purged(f) \/ f \notin object'

Fate(f) == Stays(f) \/ Born(f) \/ Completes(f) \/ Moves(f) \/ Dies(f) \/ Drops(f)

Fated ==
    /\ row' \in [Files -> Rows \cup {None}]
    /\ told' \in [Files -> Tellings \cup {None}]
    /\ issued \subseteq issued'
    /\ \A f \in Files : Fate(f)
    /\ \A f \in Files : Born(f) => f \in issued'

LEMMA RetoldSame ==
    ASSUME ToldInv, NEW f \in Files, told'[f] = told[f], heard' = heard
    PROVE  Retold(f)
BY DEF ToldInv, Retold

LEMMA RetoldGone ==
    ASSUME TypeOK, ToldInv, NEW d, HearsGone(d), NEW f \in Files
    PROVE  Retold(f) /\ told' \in [Files -> Tellings \cup {None}]
BY DEF TypeOK, ToldInv, HearsGone, Retold

(* Steps that leave every row.                                             *)
LEMMA StaysFated ==
    ASSUME TypeOK, UNCHANGED row, issued \subseteq issued',
           told' \in [Files -> Tellings \cup {None}], \A f \in Files : Retold(f)
    PROVE  Fated
<1>1. \A f \in Files : ~Born(f)
  BY NoneIsNone DEF Born, Became
<1> QED
  BY <1>1 DEF Fated, Fate, Stays, TypeOK

LEMMA QuietFated ==
    ASSUME TypeOK, ToldInv, UNCHANGED <<row, told, heard>>, issued \subseteq issued'
    PROVE  Fated
BY StaysFated, RetoldSame DEF TypeOK

(* Steps that write one.                                                   *)
LEMMA OneFated ==
    ASSUME TypeOK, ToldInv, NEW f \in Files, Fate(f), OneRow(f),
           row' \in [Files -> Rows \cup {None}],
           told' \in [Files -> Tellings \cup {None}],
           \A g \in Files \ {f} : told'[g] = told[g], heard' = heard,
           issued \subseteq issued', Born(f) => f \in issued'
    PROVE  Fated
<1>1. \A g \in Files \ {f} : Stays(g) /\ ~Born(g)
  BY RetoldSame, NoneIsNone DEF Stays, OneRow, Born, Became
<1> QED
  BY <1>1 DEF Fated, Fate

LEMMA BornFated ==
    ASSUME TypeOK, ToldInv, NEW f \in Files, row[f] = None, f \notin issued \/ f = SeedFile,
           NEW d \in Live, NEW named \in BOOLEAN,
           row' = [row EXCEPT ![f] = [status |-> "pending", dir |-> d, named |-> named, version |-> 1]],
           issued' = issued \cup {f}, UNCHANGED <<dir, heard, told>>
    PROVE  Fated
<1> DEFINE r == [status |-> "pending", dir |-> d, named |-> named, version |-> 1]
<1>1. r \in Rows
  BY DEF Rows, Statuses, Versions, Live
<1> HIDE DEF r
<1>2. row' \in [Files -> Rows \cup {None}] /\ row'[f] = r /\ OneRow(f)
  BY <1>1, RowSet DEF r
<1>3. Became(f, "pending", d, 1) /\ d \in Live'
  BY <1>1, <1>2 DEF Became, r, Live
<1>4. Born(f)
  BY <1>3, RetoldSame DEF Born
<1> QED
  BY <1>2, <1>4, OneFated DEF Fate, TypeOK

LEMMA DiesFated ==
    ASSUME TypeOK, RowsInv, ToldInv, NEW f \in Files, row[f] # None, ~Is(f, "deleting"), Free(f),
           row' = Doomed(f), UNCHANGED <<heard, issued>>,
           told' = [told EXCEPT ![f] = None] \/ (Is(f, "pending") /\ told' = told)
    PROVE  Fated
<1>1. /\ row' \in [Files -> Rows \cup {None}] /\ OneRow(f)
      /\ Became(f, "deleting", row[f].dir, row[f].version + 1)
  BY RowDoomed DEF Is, OneRow, Became
<1>2. told' \in [Files -> Tellings \cup {None}] /\ \A g \in Files \ {f} : told'[g] = told[g]
  BY DEF TypeOK
<1>3. told'[f] # None => told[f] # None /\ told'[f] = told[f] /\ ~told[f].whole /\ told[f].dir \in heard'
  BY DEF TypeOK, ToldInv, Is
<1>4. Dies(f)
  BY <1>1, <1>3 DEF Dies, Free
<1>5. ~Born(f)
  BY DEF Born
<1> QED
  BY <1>1, <1>2, <1>4, <1>5, OneFated DEF Fate

LEMMA DropsFated ==
    ASSUME TypeOK, ToldInv, NEW f \in Files, Is(f, "deleting"), row' = [row EXCEPT ![f] = None],
           Purged(f) \/ f \notin object', UNCHANGED <<heard, told, issued>>
    PROVE  Fated
<1>1. row' \in [Files -> Rows \cup {None}] /\ row'[f] = None /\ OneRow(f)
  BY RowSet
<1>2. Drops(f) /\ ~Born(f)
  BY <1>1, RetoldSame DEF Drops, Born, Is
<1> QED
  BY <1>1, <1>2, OneFated DEF Fate, TypeOK

LEMMA CompleteFated ==
    ASSUME FilesInv, NEW p \in Procs, Complete(p)
    PROVE  Fated
<1> PICK f \in Files : f = file[p]
  BY DEF FilesInv, TypeOK, HandInv, Hand, Writing, Complete
<1>0. TypeOK /\ RowsInv /\ ToldInv /\ ObjectInv
  BY DEF FilesInv
<1>1. /\ pc[p] = "complete" /\ Is(f, "pending") /\ Free(f) /\ row[f] # None
      /\ row' = [row EXCEPT ![f].status = "available", ![f].version = @ + 1]
      /\ UNCHANGED <<issued, object, heard>>
  BY DEF Complete, Is
<1>2. row[f].version <= MaxVersion + 1 /\ row[f].version \in Nat /\ row[f].dir \in Dirs
  BY <1>0, <1>1, RowFields DEF RowsInv, Is
<1>3. /\ row' \in [Files -> Rows \cup {None}] /\ OneRow(f)
      /\ Became(f, "available", row[f].dir, row[f].version + 1)
  <2>1. "available" \in Statuses /\ row[f].version <= MaxVersion + 2
    BY <1>2 DEF Statuses
  <2> QED
    BY <1>0, <1>1, <2>1, RowUpdated
<1> DEFINE t == IF row[f].dir \in heard
                  THEN [dir |-> row[f].dir, version |-> row[f].version + 1, whole |-> TRUE] ELSE None
<1>4. t \in Tellings \cup {None} /\ told' = [told EXCEPT ![f] = t]
  BY <1>2 DEF Tellings, Versions, Complete, Hears
<1>5. /\ told' \in [Files -> Tellings \cup {None}] /\ told'[f] = t
      /\ \A g \in Files \ {f} : told'[g] = told[g]
  BY <1>0, <1>4 DEF TypeOK
<1>6. Tells(f, TRUE)
  <2>1. row'[f].dir = row[f].dir /\ row'[f].version = row[f].version + 1 /\ heard' = heard
    BY <1>1, <1>3 DEF Became
  <2> QED
    BY <1>5, <2>1 DEF Tells
<1>7. f = SeedFile \/ f \in object'
  BY <1>0, <1>1 DEF ObjectInv
<1>8. Completes(f) /\ ~Born(f)
  BY <1>1, <1>3, <1>6, <1>7 DEF Completes, Born
<1> QED
  BY <1>0, <1>1, <1>3, <1>5, <1>8, OneFated DEF Fate

LEMMA MoveFated ==
    ASSUME FilesInv, NEW c \in Procs, NEW named \in BOOLEAN, MoveCommit(c, named)
    PROVE  Fated
<1> PICK f \in Files : f = file[c]
  BY DEF FilesInv, TypeOK, HandInv, Hand, MoveCommit
<1> PICK d \in Live : d = at[c]
  BY DEF MoveCommit
<1>0. TypeOK /\ RowsInv /\ ToldInv
  BY DEF FilesInv
<1>1. /\ pc[c] = "moving" /\ Free(f) /\ row[f] # None /\ row[f].status # "deleting"
      /\ row' = [row EXCEPT ![f].dir = d, ![f].named = named, ![f].version = @ + 1]
      /\ UNCHANGED <<dir, issued, object, heard>>
  BY DEF MoveCommit
<1>2. /\ row[f].version < MaxVersion /\ row[f].version \in Nat /\ row[f] \in Rows
      /\ row[f].status \in {"pending", "available"} /\ d \in Dirs
  BY <1>0, <1>1, RowFields DEF FilesInv, HandInv, Hand, MoveCommit, Statuses, Live
<1> DEFINE r == [status |-> row[f].status, dir |-> d, named |-> named, version |-> row[f].version + 1]
<1>3. r \in Rows
  BY <1>2 DEF Rows, Statuses, Versions
<1>4. row' = [row EXCEPT ![f] = r]
  <2>1. row' = Placed(f, d, named)
    BY <1>1 DEF Placed
  <2>2. Placed(f, d, named) = [row EXCEPT ![f] = r]
    <3>1. TypeOK /\ row[f] # None
      BY <1>0, <1>1
    <3> QED
      BY <3>1, ThreeFields, ZenonT(40)
  <2> QED
    BY <2>1, <2>2
<1> HIDE DEF r
<1>5. row' \in [Files -> Rows \cup {None}] /\ row'[f] = r /\ OneRow(f)
  BY <1>0, <1>3, <1>4, RowSet
<1>6. Became(f, row[f].status, d, row[f].version + 1) /\ d \in Live'
  <2>1. r.status = row[f].status /\ r.dir = d /\ r.version = row[f].version + 1
    BY DEF r
  <2> QED
    BY <1>1, <1>3, <1>5, <2>1 DEF Became, Live
<1> PICK w \in BOOLEAN : w = (row[f].status = "available")
  OBVIOUS
<1> DEFINE t == IF d \in heard THEN [dir |-> d, version |-> row[f].version + 1, whole |-> w] ELSE None
<1>7. t \in Tellings \cup {None} /\ told' = [told EXCEPT ![f] = t]
  <2>1. t \in Tellings \cup {None}
    BY <1>2 DEF Tellings, Versions
  <2>2. Hears(f, d, row[f].version + 1, row[f].status = "available")
    BY DEF MoveCommit
  <2>3. told' = [told EXCEPT ![f] =
                   IF d \in heard THEN [dir |-> d, version |-> row[f].version + 1,
                                        whole |-> row[f].status = "available"] ELSE None]
    BY <2>2 DEF Hears
  <2> QED
    BY <2>1, <2>3
<1>8. /\ told' \in [Files -> Tellings \cup {None}] /\ told'[f] = t
      /\ \A g \in Files \ {f} : told'[g] = told[g]
  BY <1>0, <1>7 DEF TypeOK
<1>9. Tells(f, row[f].status = "available")
  <2>1. row'[f].dir = d /\ row'[f].version = row[f].version + 1 /\ heard' = heard
    BY <1>1, <1>6 DEF Became
  <2> QED
    BY <1>8, <2>1 DEF Tells
<1>10. Moves(f) /\ ~Born(f)
  BY <1>1, <1>2, <1>6, <1>9 DEF Moves, Born, Is
<1> QED
  BY <1>0, <1>1, <1>5, <1>8, <1>10, OneFated DEF Fate

LEMMA MarkFated ==
    ASSUME FilesInv, NEW c \in Procs, MarkCommit(c)
    PROVE  Fated
<1> PICK d, D : d = at[c] /\ D = locked[c]
  OBVIOUS
<1>0. TypeOK /\ RowsInv /\ ToldInv /\ MarkInv
  BY DEF FilesInv
<1>1. /\ pc[c] = "marked" /\ d \in Live /\ D \subseteq Files
      /\ row' = [f \in Files |-> IF f \in D THEN Doomed(f)[f] ELSE row[f]]
      /\ issued' = issued /\ locked'[c] = {}
      /\ IF d \in Active THEN HearsGone(d) ELSE UNCHANGED copy
  BY <1>0 DEF MarkCommit, Finish, TypeOK
<1>2. \A f \in D : row[f] # None /\ row[f].status # "deleting" /\ row[f].dir = d
  BY <1>0 DEF MarkInv
<1>3. \A f \in D : Became(f, "deleting", row[f].dir, row[f].version + 1)
  <2> SUFFICES ASSUME NEW f \in D
               PROVE  Became(f, "deleting", row[f].dir, row[f].version + 1)
    OBVIOUS
  <2>1. row'[f] = Doomed(f)[f]
    BY <1>1
  <2> QED
    BY <1>0, <1>1, <1>2, <2>1, RowDoomed DEF Became
<1>4. \A f \in Files \ D : row'[f] = row[f]
  BY <1>1
<1>5. row' \in [Files -> Rows \cup {None}]
  BY <1>0, <1>1, <1>2, RowDoomed DEF TypeOK
<1>6. \A f \in Files : Retold(f) /\ told' \in [Files -> Tellings \cup {None}]
  BY <1>0, <1>1, RetoldGone, RetoldSame DEF copy, TypeOK
<1>7. \A f \in Files \ D : Stays(f) /\ ~Born(f)
  BY <1>4, <1>6, NoneIsNone DEF Stays, Born, Became
<1>8. ASSUME NEW f \in D
      PROVE  Dies(f) /\ ~Born(f)
  <2>1. \A p \in Procs : f \in locked[p] => p = c
    BY <1>0, <1>1 DEF MarkInv
  <2>2. d \notin heard'
    BY <1>0, <1>1 DEF HearsGone, copy, ToldInv
  <2>3. told'[f] # None => told[f] # None /\ told'[f] = told[f] /\ told[f].dir \in heard'
    BY <1>1, <1>6 DEF Retold
  <2>4. told'[f] # None => ~told[f].whole
    BY <1>0, <1>1, <1>2, <2>2, <2>3 DEF ToldInv
  <2> QED
    BY <1>1, <1>2, <1>3, <2>1, <2>3, <2>4 DEF Dies, Born, Is
<1>9. told' \in [Files -> Tellings \cup {None}]
  BY <1>0, <1>1, RetoldGone DEF copy, TypeOK
<1> QED
  BY <1>1, <1>5, <1>7, <1>8, <1>9 DEF Fated, Fate

-----------------------------------------------------------------------------
(* Every step decides one fate for each file.                              *)

LEMMA DirectoriesFated ==
    ASSUME FilesInv, NEW d \in Dirs,
           \/ \E named \in BOOLEAN : CreateDirectory(d, named)
           \/ RenameDirectory(d) \/ DeleteDirectory(d) \/ SweepDirectory(d)
    PROVE  Fated
<1>0. TypeOK /\ ToldInv
  BY DEF FilesInv
<1>1. CASE \E named \in BOOLEAN : CreateDirectory(d, named)
  <2>1. UNCHANGED <<row, told, issued>> /\ heard \subseteq heard'
    BY <1>1 DEF CreateDirectory
  <2>2. \A f \in Files : Retold(f)
    BY <1>0, <2>1 DEF ToldInv, Retold
  <2> QED
    BY <1>0, <2>1, <2>2, StaysFated DEF TypeOK
<1>2. CASE DeleteDirectory(d)
  <2>1. UNCHANGED <<row, issued>> /\ HearsGone(d)
    BY <1>2 DEF DeleteDirectory
  <2>2. \A f \in Files : Retold(f)
    BY <1>0, <2>1, RetoldGone
  <2>3. told' \in [Files -> Tellings \cup {None}]
    BY <1>0, <2>1, RetoldGone
  <2> QED
    BY <1>0, <2>1, <2>2, <2>3, StaysFated
<1>3. CASE RenameDirectory(d) \/ SweepDirectory(d)
  BY <1>0, <1>3, QuietFated DEF RenameDirectory, SweepDirectory, copy
<1> QED
  BY <1>1, <1>2, <1>3

LEMMA RequestsFated ==
    ASSUME FilesInv, NEW c \in Procs, Request(c)
    PROVE  Fated
<1>0. TypeOK /\ ToldInv /\ RowsInv
  BY DEF FilesInv
<1>1. CASE \E f \in Files : DeleteRow(c, f)
  <2> PICK f \in Files : DeleteRow(c, f)
    BY <1>1
  <2>1. row[f] # None /\ Free(f) /\ UNCHANGED <<heard, issued>>
    BY DEF DeleteRow
  <2>2. CASE Is(f, "deleting")
    BY <1>0, <2>1, <2>2, QuietFated DEF DeleteRow
  <2>3. CASE ~Is(f, "deleting")
    BY <1>0, <2>1, <2>3, DiesFated DEF DeleteRow
  <2> QED
    BY <2>2, <2>3
<1>2. CASE \E d \in Dirs : UploadBegin(c, d) \/ MarkBegin(c, d) \/ \E f \in Files : MoveCheck(c, f, d)
  BY <1>0, <1>2, QuietFated DEF UploadBegin, MarkBegin, MoveCheck, store, copy
<1> QED
  BY <1>1, <1>2 DEF Request

LEMMA ProceedsFated ==
    ASSUME FilesInv, NEW p \in Procs, Proceed(p)
    PROVE  Fated
<1>0. TypeOK /\ ToldInv /\ RowsInv
  BY DEF FilesInv
<1>1. ASSUME NEW f \in Files, NEW named \in BOOLEAN, UploadCreate(p, f, named)
      PROVE  Fated
  <2> PICK d \in Live : d = at[p]
    BY <1>1 DEF UploadCreate
  <2>1. f \notin issued /\ row[f] = None
    BY <1>0, <1>1 DEF UploadCreate, RowsInv
  <2>2. /\ row' = [row EXCEPT ![f] = [status |-> "pending", dir |-> d, named |-> named, version |-> 1]]
        /\ issued' = issued \cup {f} /\ UNCHANGED <<dir, heard, told>>
    BY <1>1 DEF UploadCreate, copy
  <2> QED
    BY <1>0, <2>1, <2>2, BornFated
<1>2. CASE Abandon(p)
  <2> PICK f : f = file[p]
    OBVIOUS
  <2>1. f \in Files
    BY <1>0, <1>2 DEF FilesInv, HandInv, Hand, Writing, Abandon, TypeOK
  <2>2. UNCHANGED <<heard, told, issued>> /\ Free(f)
    BY <1>2 DEF Abandon, copy
  <2>3. CASE row' = row
    BY <1>0, <2>2, <2>3, QuietFated
  <2>4. CASE row' # row
    <3>1. Is(f, "pending") /\ row' = Doomed(f)
      BY <1>2, <2>4 DEF Abandon
    <3> QED
      BY <1>0, <2>1, <2>2, <3>1, DiesFated DEF Is
  <2> QED
    BY <2>3, <2>4
<1>3. CASE PurgeRow(p)
  <2> PICK f : f = file[p]
    OBVIOUS
  <2>1. UNCHANGED <<heard, told, issued>> /\ f \in Files
    BY <1>0, <1>3 DEF FilesInv, HandInv, Hand, Writing, PurgeRow, copy, TypeOK
  <2>2. CASE Is(f, "deleting")
    <3>1. row' = [row EXCEPT ![f] = None] /\ Purged(f)
      BY <1>3, <2>2 DEF PurgeRow, Purged
    <3> QED
      BY <1>0, <2>1, <2>2, <3>1, DropsFated
  <2>3. CASE ~Is(f, "deleting")
    BY <1>0, <1>3, <2>1, <2>3, QuietFated DEF PurgeRow
  <2> QED
    BY <2>2, <2>3
<1>4. CASE \/ Put(p) \/ PutFails(p) \/ CompleteFails(p) \/ CompleteRefused(p)
           \/ Unput(p) \/ PurgeObject(p) \/ Refused(p)
  BY <1>0, <1>4, QuietFated
     DEF Put, PutFails, CompleteFails, CompleteRefused, Unput, PurgeObject, Refused, store, copy
<1>5. CASE Complete(p) \/ MarkCommit(p)
  BY <1>5, CompleteFated, MarkFated
<1>6. CASE \E named \in BOOLEAN : MoveCommit(p, named)
  BY <1>6, MoveFated
<1> QED
  BY <1>1, <1>2, <1>3, <1>4, <1>5, <1>6 DEF Proceed

LEMMA SeedsFated ==
    ASSUME FilesInv, NEW s \in Seeders, SeedBegin(s) \/ SeedStep(s)
    PROVE  Fated
<1>0. TypeOK /\ ToldInv /\ RowsInv
  BY DEF FilesInv
<1>1. CASE SeedInsert(s)
  <2>1. UNCHANGED <<row, told, issued>> /\ heard \subseteq heard'
    BY <1>1 DEF SeedInsert
  <2>2. \A f \in Files : Retold(f)
    BY <1>0, <2>1 DEF ToldInv, Retold
  <2> QED
    BY <1>0, <2>1, <2>2, StaysFated DEF TypeOK
<1>2. CASE SeedEnsureFile(s)
  <2> PICK d : d = at[s]
    OBVIOUS
  <2>1. UNCHANGED <<dir, heard, told>> /\ issued \subseteq issued'
    BY <1>2 DEF SeedEnsureFile, copy
  <2>2. CASE row' = row
    BY <1>0, <2>1, <2>2, QuietFated
  <2>3. CASE row' # row
    <3>1. /\ row[SeedFile] = None /\ d \in Live /\ issued' = issued \cup {SeedFile}
          /\ row' = [row EXCEPT ![SeedFile] =
                        [status |-> "pending", dir |-> d, named |-> TRUE, version |-> 1]]
      BY <1>2, <2>3 DEF SeedEnsureFile
    <3> QED
      BY <1>0, <2>1, <3>1, BornFated
  <2> QED
    BY <2>2, <2>3
<1>3. CASE SeedBegin(s) \/ SeedFind(s) \/ SeedInsertRefused(s)
  BY <1>0, <1>3, QuietFated DEF SeedBegin, SeedFind, SeedInsertRefused, store, copy
<1>4. CASE Proceed(s)
  BY <1>4, ProceedsFated
<1> QED
  BY <1>1, <1>2, <1>3, <1>4 DEF SeedStep

LEMMA StepsFated ==
    ASSUME FilesInv, [Next]_vars
    PROVE  Fated
<1>0. TypeOK /\ ToldInv /\ RowsInv
  BY DEF FilesInv
<1>1. CASE UNCHANGED vars
  BY <1>0, <1>1, QuietFated DEF vars, store, copy
<1>2. ASSUME NEW f \in Files, SweepStale(f)
      PROVE  Fated
  <2>1. /\ Is(f, "pending") /\ Free(f) /\ row' = Doomed(f) /\ row[f] # None
        /\ UNCHANGED <<heard, issued, told>>
    BY <1>2 DEF SweepStale, copy, Is
  <2> QED
    BY <1>0, <2>1, DiesFated DEF Is
<1>3. ASSUME NEW f \in Files, SweepFile(f)
      PROVE  Fated
  <2>1. Is(f, "deleting") /\ UNCHANGED <<heard, issued, told>>
    BY <1>3 DEF SweepFile, copy
  <2>2. CASE f \in object
    BY <1>0, <1>3, <2>1, <2>2, QuietFated DEF SweepFile
  <2>3. CASE f \notin object
    <3>1. row' = [row EXCEPT ![f] = None] /\ f \notin object'
      BY <1>3, <2>3 DEF SweepFile
    <3> QED
      BY <1>0, <2>1, <3>1, DropsFated
  <2> QED
    BY <2>2, <2>3
<1>4. ASSUME NEW p \in Procs, Stop(p)
      PROVE  Fated
  BY <1>0, <1>4, QuietFated DEF Stop, store, copy
<1>5. ASSUME NEW c \in Clients, Request(c) \/ Proceed(c)
      PROVE  Fated
  BY <1>5, RequestsFated, ProceedsFated
<1>6. ASSUME NEW s \in Seeders, SeedBegin(s) \/ SeedStep(s)
      PROVE  Fated
  BY <1>6, SeedsFated
<1> QED
  BY <1>1, <1>2, <1>3, <1>4, <1>5, <1>6, DirectoriesFated DEF Next

-----------------------------------------------------------------------------
(* A step leaves the types; what it does to the slots it does in one.      *)

StoreTyped ==
    /\ dir \in [Dirs -> {"absent", "active", "deleting", "gone"}]
    /\ titled \subseteq Dirs
    /\ issued \subseteq Files /\ object \subseteq Files /\ heard \subseteq Dirs
    /\ faults \in 0..MaxFaults
SlotsTyped ==
    /\ pc \in [Procs -> Labels]
    /\ file \in [Procs -> Files \cup {None}]
    /\ at \in [Procs -> Dirs \cup {None}]
    /\ seen \in [Procs -> Versions]
    /\ locked \in [Procs -> SUBSET Files]
    /\ rerun \in [Procs -> BOOLEAN]
    /\ calm \subseteq Seeders

Kept(q) ==
    /\ pc'[q] = pc[q] /\ file'[q] = file[q] /\ at'[q] = at[q] /\ seen'[q] = seen[q]
    /\ locked'[q] = locked[q] /\ rerun'[q] = rerun[q]
Done(p) == pc'[p] = "idle" /\ file'[p] = None /\ locked'[p] = {}
Others(p) == \A q \in Procs \ {p} : Kept(q)

LEMMA FinishKeeps ==
    ASSUME TypeOK, NEW p \in Procs, Finish(p)
    PROVE  SlotsTyped' /\ Others(p) /\ Done(p)
<1>1. SlotsTyped'
  BY FinishTyped DEF SlotsTyped
<1>2. Others(p) /\ Done(p)
  BY DEF TypeOK, Finish, Goto, Others, Kept, Done
<1> QED
  BY <1>1, <1>2

LEMMA DirectoriesTypes ==
    ASSUME FilesInv, NEW d \in Dirs,
           \/ \E named \in BOOLEAN : CreateDirectory(d, named)
           \/ RenameDirectory(d) \/ DeleteDirectory(d) \/ SweepDirectory(d)
    PROVE  StoreTyped' /\ SlotsTyped' /\ \A q \in Procs : Kept(q)
<1>1. UNCHANGED requests /\ calm' \subseteq calm
  BY DEF CreateDirectory, RenameDirectory, DeleteDirectory, SweepDirectory, locals, work, requests
<1>2. SlotsTyped' /\ \A q \in Procs : Kept(q)
  BY <1>1 DEF FilesInv, TypeOK, SlotsTyped, Kept, requests
<1>3. StoreTyped'
  BY DEF FilesInv, TypeOK, StoreTyped, CreateDirectory, RenameDirectory, DeleteDirectory,
         SweepDirectory, HearsGone, copy
<1> QED
  BY <1>2, <1>3

LEMMA RequestsTypes ==
    ASSUME FilesInv, NEW c \in Procs, Request(c)
    PROVE  StoreTyped' /\ SlotsTyped' /\ Others(c)
<1>0. TypeOK
  BY DEF FilesInv
<1>1. ASSUME NEW d \in Dirs, UploadBegin(c, d)
      PROVE  StoreTyped' /\ SlotsTyped' /\ Others(c)
  BY <1>0, <1>1 DEF TypeOK, StoreTyped, SlotsTyped, Others, Kept, UploadBegin, Goto, Labels, store, copy
<1>2. ASSUME NEW d \in Dirs, MarkBegin(c, d)
      PROVE  StoreTyped' /\ SlotsTyped' /\ Others(c)
  BY <1>0, <1>2
     DEF TypeOK, StoreTyped, SlotsTyped, Others, Kept, MarkBegin, Goto, Labels, store, copy, In
<1>3. ASSUME NEW f \in Files, DeleteRow(c, f)
      PROVE  StoreTyped' /\ SlotsTyped' /\ Others(c)
  BY <1>0, <1>3 DEF TypeOK, StoreTyped, SlotsTyped, Others, Kept, DeleteRow, Goto, Labels
<1>4. ASSUME NEW f \in Files, NEW d \in Dirs, MoveCheck(c, f, d)
      PROVE  StoreTyped' /\ SlotsTyped' /\ Others(c)
  <2>1. row[f].version \in Versions
    BY <1>0, <1>4 DEF TypeOK, Rows, MoveCheck
  <2> QED
    BY <1>0, <1>4, <2>1
       DEF TypeOK, StoreTyped, SlotsTyped, Others, Kept, MoveCheck, Goto, Labels, store, copy
<1> QED
  BY <1>1, <1>2, <1>3, <1>4 DEF Request

LEMMA ProceedsTypes ==
    ASSUME FilesInv, NEW p \in Procs, Proceed(p)
    PROVE  StoreTyped' /\ SlotsTyped' /\ Others(p)
<1>0. TypeOK /\ HandInv /\ 1 \in Versions
  BY DEF FilesInv, Versions
<1>1. pc[p] \in Writing => file[p] \in Files
  BY <1>0 DEF HandInv, Hand, TypeOK
<1>2. ASSUME NEW f \in Files, NEW named \in BOOLEAN, UploadCreate(p, f, named)
      PROVE  StoreTyped' /\ SlotsTyped' /\ Others(p)
  BY <1>0, <1>2 DEF TypeOK, StoreTyped, SlotsTyped, Others, Kept, UploadCreate, Goto, Labels, copy
<1>3. CASE Put(p) \/ PutFails(p) \/ CompleteRefused(p) \/ PurgeObject(p)
  <2>1. StoreTyped'
    BY <1>0, <1>1, <1>3
       DEF TypeOK, StoreTyped, Writing, Put, PutFails, CompleteRefused, PurgeObject, copy, store
  <2>2. SlotsTyped' /\ Others(p)
    BY <1>0, <1>3
       DEF TypeOK, SlotsTyped, Others, Kept, Put, PutFails, CompleteRefused, PurgeObject, Goto, Labels, work
  <2> QED
    BY <2>1, <2>2
<1>4. CASE CompleteFails(p) \/ Abandon(p)
  <2>1. StoreTyped'
    BY <1>0, <1>4 DEF TypeOK, StoreTyped, CompleteFails, Abandon, copy, store
  <2>2. Finish(p) \/ (\E l \in Labels : Goto(p, l) /\ UNCHANGED work)
    BY <1>4 DEF CompleteFails, Abandon, Labels
  <2>3. SlotsTyped' /\ Others(p)
    BY <1>0, <2>2, FinishKeeps DEF TypeOK, SlotsTyped, Others, Kept, Goto, work
  <2> QED
    BY <2>1, <2>3
<1>5. CASE Complete(p) \/ Unput(p) \/ PurgeRow(p) \/ Refused(p) \/ MarkCommit(p)
           \/ \E named \in BOOLEAN : MoveCommit(p, named)
  <2>1. Finish(p)
    BY ZenonT(30), <1>5 DEF Complete, Unput, PurgeRow, Refused, MarkCommit, MoveCommit
  <2>2. StoreTyped'
    BY ZenonT(30), <1>0, <1>5
       DEF TypeOK, StoreTyped, Complete, Unput, PurgeRow, Refused, MarkCommit, MoveCommit,
           HearsGone, copy, store
  <2> QED
    BY <1>0, <2>1, <2>2, FinishKeeps
<1> QED
  BY <1>2, <1>3, <1>4, <1>5 DEF Proceed

LEMMA SeedsTypes ==
    ASSUME FilesInv, NEW s \in Seeders, SeedBegin(s) \/ SeedStep(s)
    PROVE  StoreTyped' /\ SlotsTyped' /\ Others(s)
<1>0. TypeOK /\ 1 \in Versions
  BY DEF FilesInv, Versions
<1>1. CASE SeedBegin(s)
  BY <1>0, <1>1 DEF TypeOK, StoreTyped, SlotsTyped, Others, Kept, SeedBegin, Goto, Labels, store, copy
<1>2. CASE SeedFind(s)
  <2>1. StoreTyped'
    BY <1>0, <1>2 DEF TypeOK, StoreTyped, SeedFind, store, copy
  <2>2. CASE Finish(s)
    BY <1>0, <2>1, <2>2, FinishKeeps
  <2>3. CASE ~Finish(s)
    <3>1. /\ \E l \in Labels : Goto(s, l)
          /\ at' = at \/ \E d \in Dirs : at' = [at EXCEPT ![s] = d]
          /\ calm' \subseteq calm /\ UNCHANGED <<file, seen, locked, rerun>>
      BY <1>2, <2>3 DEF SeedFind, Active, Labels, work
    <3> QED
      BY <1>0, <2>1, <3>1 DEF TypeOK, SlotsTyped, Others, Kept, Goto
  <2> QED
    BY <2>2, <2>3
<1>3. CASE SeedInsert(s)
  BY <1>0, <1>3 DEF TypeOK, StoreTyped, SlotsTyped, Others, Kept, SeedInsert, Goto, Labels
<1>4. CASE SeedInsertRefused(s)
  <2>1. StoreTyped'
    BY <1>0, <1>4 DEF TypeOK, StoreTyped, SeedInsertRefused, store, copy
  <2>2. CASE Finish(s)
    BY <1>0, <2>1, <2>2, FinishKeeps
  <2>3. CASE ~Finish(s)
    <3>1. /\ \E l \in Labels : Goto(s, l)
          /\ rerun' = rerun \/ rerun' = [rerun EXCEPT ![s] = TRUE]
          /\ UNCHANGED <<file, at, seen, locked, calm>>
      BY <1>4, <2>3 DEF SeedInsertRefused, Labels, work
    <3>2. rerun' \in [Procs -> BOOLEAN] /\ \A q \in Procs \ {s} : rerun'[q] = rerun[q]
      BY <1>0, <3>1 DEF TypeOK
    <3>3. pc' \in [Procs -> Labels] /\ \A q \in Procs \ {s} : pc'[q] = pc[q]
      BY <1>0, <3>1 DEF TypeOK, Goto
    <3>4. SlotsTyped'
      BY <1>0, <3>1, <3>2, <3>3 DEF TypeOK, SlotsTyped
    <3>5. Others(s)
      BY <1>0, <3>1, <3>2, <3>3 DEF Others, Kept
    <3> QED
      BY <2>1, <3>4, <3>5
  <2> QED
    BY <2>2, <2>3
<1>5. CASE SeedEnsureFile(s)
  <2>1. StoreTyped'
    BY <1>0, <1>5 DEF TypeOK, StoreTyped, SeedEnsureFile, copy
  <2>2. CASE Finish(s)
    BY <1>0, <2>1, <2>2, FinishKeeps
  <2>3. CASE ~Finish(s)
    <3>1. row[SeedFile] # None => row[SeedFile].version \in Versions
      BY <1>0 DEF TypeOK, Rows
    <3>2. /\ file' = [file EXCEPT ![s] = SeedFile] /\ at' = [at EXCEPT ![s] = None]
          /\ \E v \in Versions : seen' = [seen EXCEPT ![s] = v]
          /\ rerun' = [rerun EXCEPT ![s] = FALSE] /\ pc' = [pc EXCEPT ![s] = "put"]
          /\ UNCHANGED <<locked, calm>>
      BY <1>0, <1>5, <2>3, <3>1 DEF SeedEnsureFile, Goto
    <3>3. rerun' \in [Procs -> BOOLEAN] /\ \A q \in Procs \ {s} : rerun'[q] = rerun[q]
      BY <1>0, <3>2 DEF TypeOK
    <3>4. SlotsTyped'
      BY <1>0, <3>2, <3>3 DEF TypeOK, SlotsTyped, Labels
    <3>5. Others(s)
      BY <1>0, <3>2, <3>3 DEF TypeOK, Others, Kept
    <3> QED
      BY <2>1, <3>4, <3>5
  <2> QED
    BY <2>2, <2>3
<1>6. CASE Proceed(s)
  BY <1>6, ProceedsTypes
<1> QED
  BY <1>1, <1>2, <1>3, <1>4, <1>5, <1>6 DEF SeedStep

LEMMA StopTypes ==
    ASSUME FilesInv, NEW p \in Procs, Stop(p)
    PROVE  StoreTyped' /\ SlotsTyped' /\ Others(p)
<1>0. TypeOK
  BY DEF FilesInv
<1>1. StoreTyped'
  BY <1>0 DEF TypeOK, StoreTyped, Stop, store, copy
<1> QED
  BY <1>0, <1>1, FinishKeeps DEF Stop

LEMMA SweepTypes ==
    ASSUME FilesInv, UNCHANGED vars \/ \E f \in Files : SweepStale(f) \/ SweepFile(f)
    PROVE  StoreTyped' /\ SlotsTyped' /\ \A q \in Procs : Kept(q)
<1>0. TypeOK
  BY DEF FilesInv
<1>1. StoreTyped'
  BY <1>0 DEF TypeOK, StoreTyped, SweepStale, SweepFile, vars, store, copy
<1>2. UNCHANGED locals
  BY DEF SweepStale, SweepFile, vars
<1>3. SlotsTyped' /\ \A q \in Procs : Kept(q)
  BY <1>0, <1>2 DEF TypeOK, SlotsTyped, Kept, locals, work
<1> QED
  BY <1>1, <1>3

LEMMA TypesKept ==
    ASSUME FilesInv, [Next]_vars
    PROVE  TypeOK'
<1>1. StoreTyped' /\ SlotsTyped'
  <2>1. ASSUME NEW c \in Clients, Request(c) \/ Proceed(c)
        PROVE  StoreTyped' /\ SlotsTyped'
    BY <2>1, RequestsTypes, ProceedsTypes
  <2>2. ASSUME NEW s \in Seeders, SeedBegin(s) \/ SeedStep(s)
        PROVE  StoreTyped' /\ SlotsTyped'
    BY <2>2, SeedsTypes
  <2> QED
    BY <2>1, <2>2, StopTypes, SweepTypes, DirectoriesTypes DEF Next
<1>2. row' \in [Files -> Rows \cup {None}] /\ told' \in [Files -> Tellings \cup {None}]
  BY StepsFated DEF Fated
<1> QED
  BY <1>1, <1>2 DEF StoreTyped, SlotsTyped, TypeOK

-----------------------------------------------------------------------------
(* What a step may do to the directories, and so the rows in them and the  *)
(* consumer's copy.                                                        *)

DirsStep ==
    /\ heard' = Active'
    /\ Live \cap Active' \subseteq Active
    /\ \A d \in Live \ Live' : In(d) = {}
    /\ calm' # {} => Live \subseteq Live' /\ Titled \subseteq Titled'

LEMMA SameDirs ==
    ASSUME ToldInv, UNCHANGED <<dir, titled, heard>>
    PROVE  DirsStep
BY DEF ToldInv, DirsStep, Active, Live, Titled

LEMMA NewDir ==
    ASSUME TypeOK, ToldInv, NEW d \in Dirs, d \notin Live,
           dir' = [dir EXCEPT ![d] = "active"], titled \subseteq titled', heard' = heard \cup {d}
    PROVE  DirsStep
<1>1. Active' = Active \cup {d}
  BY DEF TypeOK, Active
<1>2. Live' = Live \cup {d}
  BY DEF TypeOK, Live
<1> QED
  BY <1>1, <1>2 DEF ToldInv, DirsStep, Titled

LEMMA GoneDir ==
    ASSUME TypeOK, ToldInv, NEW d \in Dirs, In(d) = {},
           dir' = [dir EXCEPT ![d] = "gone"], heard' = heard \ {d}, calm' = {}
    PROVE  DirsStep
<1>1. Active' = Active \ {d}
  BY DEF TypeOK, Active
<1>2. Live' = Live \ {d}
  BY DEF TypeOK, Live
<1> QED
  BY <1>1, <1>2 DEF ToldInv, DirsStep

LEMMA MarkedDir ==
    ASSUME FilesInv, NEW c \in Procs, MarkCommit(c)
    PROVE  DirsStep
<1>0. TypeOK /\ ToldInv
  BY DEF FilesInv
<1> PICK d : d = at[c]
  OBVIOUS
<1>1. d \in Live /\ dir' = [dir EXCEPT ![d] = "deleting"] /\ titled' = titled
  BY DEF MarkCommit
<1>2. Active' = Active \ {d}
  BY <1>0, <1>1 DEF TypeOK, Active
<1>3. Live' = Live
  BY <1>0, <1>1 DEF TypeOK, Live
<1>4. heard' = heard \ {d}
  BY <1>0, <1>1 DEF MarkCommit, HearsGone, copy, ToldInv
<1> QED
  BY <1>0, <1>1, <1>2, <1>3, <1>4 DEF ToldInv, DirsStep, Titled

LEMMA DirectoriesStep ==
    ASSUME FilesInv, [Next]_vars
    PROVE  DirsStep
<1>0. TypeOK /\ ToldInv
  BY DEF FilesInv
<1>1. ASSUME NEW d \in Dirs, NEW named \in BOOLEAN, CreateDirectory(d, named)
      PROVE  DirsStep
  BY <1>0, <1>1, NewDir DEF CreateDirectory, Live
<1>2. ASSUME NEW d \in Dirs, RenameDirectory(d)
      PROVE  DirsStep
  BY <1>0, <1>2 DEF RenameDirectory, DirsStep, ToldInv, Active, Live, copy
<1>3. ASSUME NEW d \in Dirs, DeleteDirectory(d)
      PROVE  DirsStep
  BY <1>0, <1>3, GoneDir DEF DeleteDirectory, HearsGone
<1>4. ASSUME NEW d \in Dirs, SweepDirectory(d)
      PROVE  DirsStep
  <2>1. heard' = heard \ {d}
    BY <1>0, <1>4 DEF SweepDirectory, copy, ToldInv, Active
  <2> QED
    BY <1>0, <1>4, <2>1, GoneDir DEF SweepDirectory
<1>5. ASSUME NEW p \in Procs, Request(p)
      PROVE  DirsStep
  BY <1>0, <1>5, SameDirs DEF Request, UploadBegin, MarkBegin, DeleteRow, MoveCheck, store, copy
<1>6. ASSUME NEW p \in Procs, Proceed(p)
      PROVE  DirsStep
  <2>1. CASE MarkCommit(p)
    BY <2>1, MarkedDir
  <2>2. CASE ~MarkCommit(p)
    <3>1. UNCHANGED <<dir, titled, heard>>
      BY <1>6, <2>2
         DEF Proceed, UploadCreate, Put, PutFails, Complete, CompleteFails, CompleteRefused, Unput,
             Abandon, MoveCommit, PurgeObject, PurgeRow, Refused, store, copy
    <3> QED
      BY <1>0, <3>1, SameDirs
  <2> QED
    BY <2>1, <2>2
<1>7. ASSUME NEW s \in Seeders, SeedBegin(s) \/ SeedStep(s)
      PROVE  DirsStep
  <2>1. CASE SeedInsert(s)
    BY <1>0, <2>1, NewDir DEF SeedInsert
  <2>2. CASE SeedBegin(s) \/ SeedFind(s) \/ SeedInsertRefused(s) \/ SeedEnsureFile(s)
    BY <1>0, <2>2, SameDirs DEF SeedBegin, SeedFind, SeedInsertRefused, SeedEnsureFile, store, copy
  <2> QED
    BY <1>6, <1>7, <2>1, <2>2 DEF SeedStep
<1>8. CASE \/ \E f \in Files : SweepStale(f) \/ SweepFile(f)
           \/ \E p \in Procs : Stop(p)
           \/ UNCHANGED vars
  BY <1>0, <1>8, SameDirs DEF SweepStale, SweepFile, Stop, vars, store, copy
<1> QED
  BY <1>1, <1>2, <1>3, <1>4, <1>5, <1>6, <1>7, <1>8 DEF Next

LEMMA RowsKept ==
    ASSUME FilesInv, Fated, DirsStep
    PROVE  RowsInv'
<1>0. TypeOK /\ RowsInv
  BY DEF FilesInv
<1> SUFFICES ASSUME NEW f \in Files, row'[f] # None
             PROVE  /\ f \in issued' /\ row'[f].dir \in Live'
                    /\ row'[f].status = "pending" => row'[f].version <= MaxVersion + 1
                    /\ row'[f].status = "available" => row'[f].version <= MaxVersion + 2
  BY DEF RowsInv
<1>1. row[f] # None => /\ f \in issued' /\ row[f].dir \in Live' /\ row[f].version \in Nat
                       /\ row[f].status = "pending" => row[f].version <= MaxVersion + 1
                       /\ row[f].status = "available" => row[f].version <= MaxVersion + 2
  <2> SUFFICES ASSUME row[f] # None
               PROVE  /\ f \in issued' /\ row[f].dir \in Live' /\ row[f].version \in Nat
                      /\ row[f].status = "pending" => row[f].version <= MaxVersion + 1
                      /\ row[f].status = "available" => row[f].version <= MaxVersion + 2
    OBVIOUS
  <2>1. f \in In(row[f].dir) /\ row[f].dir \in Live
    BY <1>0 DEF In, RowsInv
  <2>2. row[f].dir \in Live'
    BY <2>1 DEF DirsStep
  <2>3. row[f].version \in Nat
    BY <1>0, RowFields
  <2> QED
    BY <1>0, <2>2, <2>3 DEF RowsInv, Fated
<1>2. CASE Stays(f)
  BY <1>1, <1>2 DEF Stays
<1>3. CASE Born(f)
  BY <1>3 DEF Born, Became, Fated
<1>4. CASE Completes(f)
  BY <1>1, <1>4 DEF Completes, Became, Is
<1>5. CASE Moves(f)
  BY <1>1, <1>5 DEF Moves, Became
<1>6. CASE Dies(f)
  BY <1>1, <1>6 DEF Dies, Became
<1>7. CASE Drops(f)
  BY <1>7 DEF Drops
<1> QED
  BY <1>2, <1>3, <1>4, <1>5, <1>6, <1>7 DEF Fated, Fate

LEMMA ToldKept ==
    ASSUME FilesInv, Fated, DirsStep
    PROVE  ToldInv'
<1>0. TypeOK /\ RowsInv /\ ToldInv /\ heard' = Active'
  BY DEF FilesInv, DirsStep
<1> SUFFICES ASSUME NEW f \in Files
             PROVE  /\ told'[f] # None => told'[f].dir \in Active'
                    /\ told'[f] # None /\ told'[f].whole =>
                          /\ row'[f] # None /\ row'[f].status = "available"
                          /\ told'[f].dir = row'[f].dir /\ told'[f].version = row'[f].version
                    /\ row'[f] # None /\ row'[f].status = "available" /\ row'[f].dir \in Active' =>
                          told'[f] # None /\ told'[f].whole
  BY <1>0 DEF ToldInv, Is
<1>1. None \notin Rows
  BY NoneIsNone
<1>2. CASE Stays(f)
  <2>1. row'[f] # None /\ row'[f].dir \in Active' => row[f].dir \in Active
    BY <1>0, <1>2 DEF Stays, RowsInv, DirsStep
  <2> QED
    BY <1>0, <1>2, <2>1 DEF Stays, Retold, ToldInv, Is
<1>3. CASE Born(f)
  BY <1>0, <1>3 DEF Born, Became, Retold, ToldInv, Is
<1>4. CASE Completes(f)
  <2>1. /\ row'[f] \in Rows /\ row'[f] # None /\ row'[f].status = "available"
        /\ row'[f].dir \in Dirs /\ row'[f].version \in Nat
    BY <1>1, <1>4 DEF Completes, Became, Rows, Versions
  <2>2. told'[f] = IF row'[f].dir \in Active'
                     THEN [dir |-> row'[f].dir, version |-> row'[f].version, whole |-> TRUE] ELSE None
    BY <1>0, <1>4 DEF Completes, Tells
  <2>3. CASE row'[f].dir \in Active'
    <3> PICK d \in Dirs : d = row'[f].dir
      BY <2>1
    <3> PICK v \in Nat : v = row'[f].version
      BY <2>1
    <3> PICK t : t = told'[f]
      OBVIOUS
    <3>1. t = [dir |-> d, version |-> v, whole |-> TRUE]
      BY <2>2, <2>3
    <3>2. t \in [dir : Dirs, version : Nat, whole : BOOLEAN]
      BY <3>1
    <3>3. t # None
      BY <3>2
    <3>4. t.dir = d /\ t.version = v /\ t.whole = TRUE
      BY <3>1
    <3> QED
      BY <2>1, <2>3, <3>3, <3>4
  <2> QED
    BY <2>2, <2>3
<1>5. CASE Moves(f)
  <2>1. /\ row'[f] \in Rows /\ row'[f] # None /\ row'[f].status = row[f].status
        /\ row'[f].dir \in Dirs /\ row'[f].version \in Nat
    BY <1>1, <1>5 DEF Moves, Became, Rows, Versions
  <2> PICK w \in BOOLEAN : w = (row[f].status = "available")
    OBVIOUS
  <2>2. told'[f] = IF row'[f].dir \in Active'
                     THEN [dir |-> row'[f].dir, version |-> row'[f].version, whole |-> w] ELSE None
    BY <1>0, <1>5 DEF Moves, Tells
  <2>3. CASE row'[f].dir \in Active'
    <3> PICK d \in Dirs : d = row'[f].dir
      BY <2>1
    <3> PICK v \in Nat : v = row'[f].version
      BY <2>1
    <3> PICK t : t = told'[f]
      OBVIOUS
    <3>1. t = [dir |-> d, version |-> v, whole |-> w]
      BY <2>2, <2>3
    <3>2. t \in [dir : Dirs, version : Nat, whole : BOOLEAN]
      BY <3>1
    <3>3. t # None
      BY <3>2
    <3>4. t.dir = d /\ t.version = v /\ t.whole = w
      BY <3>1
    <3> QED
      BY <2>1, <2>3, <3>3, <3>4
  <2> QED
    BY <2>2, <2>3
<1>6. CASE Dies(f)
  BY <1>0, <1>6 DEF Dies, Became, ToldInv
<1>7. CASE Drops(f)
  BY <1>0, <1>7 DEF Drops, Retold, ToldInv, Is
<1> QED
  BY <1>2, <1>3, <1>4, <1>5, <1>6, <1>7 DEF Fated, Fate

-----------------------------------------------------------------------------
(* What a step does to a slot and the objects, and what that keeps.  The   *)
(* slots in P take the step: one, or none when it is the sweep's or a      *)
(* directory's.                                                            *)

Deals(p) ==
    /\ Hand(p)'
    /\ pc'[p] = "complete" => file'[p] \in object'
    /\ pc'[p] = "purgeRow" => file'[p] \notin object'
    /\ pc'[p] \in {"unput", "purgeObject", "purgeRow"} => file'[p] = SeedFile \/ Dying(file[p])'
    /\ pc[p] \in {"complete", "unput"} /\ faults' = 0 /\ file[p] \in object' \ {SeedFile} /\ Dying(file[p]) =>
          file'[p] = file[p] /\ pc'[p] = "unput"
    /\ p \in Seeders => Seeding(p)'

Stored(P) ==
    /\ faults' = 0 => faults = 0
    /\ \A f \in object \ object' : f = SeedFile \/ Dying(f)
    /\ \A f \in object' \ object : faults' # 0 \/ \E p \in P : file'[p] = f /\ pc'[p] = "complete"
    /\ calm' \ calm \subseteq P

Works(P) ==
    /\ Stored(P)
    /\ \A q \in Procs \ P : Kept(q)
    /\ \A p \in P : Deals(p)

LEMMA HandKept ==
    ASSUME FilesInv, Fated, NEW P \in SUBSET Procs, Works(P)
    PROVE  HandInv'
BY DEF FilesInv, Fated, Works, Deals, HandInv, Hand, Kept

LEMMA SeedKept ==
    ASSUME FilesInv, DirsStep, NEW P \in SUBSET Procs, Works(P)
    PROVE  SeedInv'
<1> SUFFICES ASSUME NEW s \in Seeders
             PROVE  Seeding(s)'
  BY DEF SeedInv
<1>1. CASE s \in P
  BY <1>1 DEF Works, Deals
<1>2. CASE s \notin P
  <2>1. Seeding(s) /\ Kept(s)
    BY <1>2 DEF FilesInv, SeedInv, Works
  <2>2. s \in calm' => s \in calm /\ Live \subseteq Live' /\ Titled \subseteq Titled'
    BY <1>2 DEF Works, Stored, DirsStep
  <2> QED
    BY <2>1, <2>2 DEF Seeding, Kept
<1> QED
  BY <1>1, <1>2

LEMMA MarkKept ==
    ASSUME FilesInv, Fated,
           \A q \in Procs : Kept(q) \/ (pc'[q] # "marked" /\ locked'[q] = {})
    PROVE  MarkInv'
<1>0. MarkInv
  BY DEF FilesInv
<1>1. ASSUME NEW q \in Procs, NEW f \in locked'[q]
      PROVE  row'[f] # None /\ row'[f].dir = at'[q] /\ row'[f].status # "deleting"
  <2>1. Kept(q) /\ f \in locked[q] /\ f \in Files
    BY <1>1 DEF Kept, FilesInv, TypeOK
  <2>2. row[f] # None /\ row[f].dir = at[q] /\ row[f].status # "deleting" /\ ~Free(f)
    BY <1>0, <2>1 DEF MarkInv, Free
  <2>3. Fate(f)
    BY <2>1 DEF Fated
  <2>4. Stays(f)
    BY <1>1, <2>1, <2>2, <2>3 DEF Fate, Born, Completes, Moves, Dies, Drops, Is
  <2> QED
    BY <2>1, <2>2, <2>4 DEF Stays, Kept
<1>2. \A q \in Procs : pc'[q] # "marked" => locked'[q] = {}
  BY <1>0 DEF MarkInv, Kept
<1>3. \A p, q \in Procs : pc'[p] = "marked" /\ pc'[q] = "marked" => p = q
  BY <1>0 DEF MarkInv, Kept
<1> QED
  BY <1>1, <1>2, <1>3 DEF MarkInv

LEMMA ObjectsKept ==
    ASSUME FilesInv, Fated, NEW P \in SUBSET Procs, Works(P)
    PROVE  ObjectInv'
<1>0. ObjectInv /\ HandInv /\ TypeOK
  BY DEF FilesInv
<1>1. ASSUME NEW f \in Files \ {SeedFile}, row'[f] # None, row'[f].status = "available"
      PROVE  f \in object'
  <2>1. Fate(f)
    BY DEF Fated
  <2>2. Is(f, "available") => f \in object'
    BY <1>0 DEF ObjectInv, Downloadable, Works, Stored, Dying, Is
  <2> QED
    BY <1>1, <2>1, <2>2 DEF Fate, Stays, Born, Completes, Moves, Dies, Drops, Became, Is
<1>2. ASSUME NEW p \in Procs, file'[p] # SeedFile,
             pc'[p] = "complete", row'[file'[p]] # None, row'[file'[p]].status = "pending"
      PROVE  file'[p] \in object'
  <2>1. CASE p \in P
    BY <1>2, <2>1 DEF Works, Deals
  <2>2. CASE p \notin P
    <3> PICK f : f = file[p]
      OBVIOUS
    <3>1. Kept(p) /\ file'[p] = f /\ pc[p] = "complete" /\ f \in issued /\ f \in Files
      BY <1>0, <1>2, <2>2 DEF Works, Kept, HandInv, Hand, Writing, TypeOK
    <3>2. Is(f, "pending")
      BY <1>2, <3>1 DEF Fated, Fate, Stays, Born, Completes, Moves, Dies, Drops, Became, Is
    <3>3. f \in object
      BY <1>0, <1>2, <3>1, <3>2 DEF ObjectInv
    <3> QED
      BY <1>2, <3>1, <3>2, <3>3 DEF Works, Stored, Dying, Is
  <2> QED
    BY <2>1, <2>2
<1>3. ASSUME NEW p \in Procs, file'[p] # SeedFile, pc'[p] \in {"unput", "purgeObject", "purgeRow"}
      PROVE  Dying(file[p])'
  <2>1. CASE p \in P
    BY <1>3, <2>1 DEF Works, Deals
  <2>2. CASE p \notin P
    <3> PICK f : f = file[p]
      OBVIOUS
    <3>1. Kept(p) /\ file'[p] = f /\ f \in issued /\ f \in Files /\ f # SeedFile
      BY <1>0, <1>3, <2>2 DEF Works, Kept, HandInv, Hand, Writing, TypeOK
    <3>2. row[f] = None \/ Is(f, "deleting")
      BY <1>0, <1>3, <3>1 DEF ObjectInv, Dying, Kept
    <3>3. row'[f] = None \/ row'[f].status = "deleting"
      BY <3>1, <3>2 DEF Fated, Fate, Stays, Born, Completes, Moves, Dies, Drops, Became, Is
    <3> QED
      BY <3>1, <3>3 DEF Dying, Is
  <2> QED
    BY <2>1, <2>2
<1>4. Downloadable'
  BY <1>1 DEF Downloadable, Is
<1> QED
  BY <1>2, <1>3, <1>4 DEF ObjectInv, Is

LEMMA OrphansKept ==
    ASSUME FilesInv, Fated, NEW P \in SUBSET Procs, Works(P)
    PROVE  OrphanInv'
<1>0. ObjectInv /\ HandInv /\ TypeOK /\ OrphanInv
  BY DEF FilesInv
<1> SUFFICES ASSUME faults' = 0, NEW f \in object' \ {SeedFile}, row'[f] = None \/ Purged(f)'
             PROVE  Held(f)'
  BY DEF OrphanInv
<1>1. faults = 0
  BY DEF Works, Stored
<1>2. CASE f \notin object
  BY <1>2 DEF Works, Stored, Held
<1>3. CASE f \in object
  <2>1. f \in Files
    BY <1>0, <1>3 DEF TypeOK
  <2>2. Purged(f)' => Purged(f)
    BY DEF Works, Deals, Kept, Purged
  <2>3. row'[f] = None => row[f] = None \/ Purged(f)
    BY <2>1, NoneIsNone
       DEF Fated, Fate, Stays, Born, Completes, Moves, Dies, Drops, Became
  <2>4. row[f] = None \/ Purged(f)
    BY <2>2, <2>3
  <2> PICK p \in Procs : file[p] = f /\ pc[p] \in {"complete", "unput"}
    BY <1>0, <1>1, <1>3, <2>4 DEF OrphanInv, Held
  <2>5. Dying(f)
    BY <1>0, <2>4 DEF Dying, Purged, ObjectInv
  <2> QED
    BY <2>5 DEF Works, Deals, Kept, Held
<1> QED
  BY <1>2, <1>3

-----------------------------------------------------------------------------
(* Each step works so.                                                     *)

LEMMA SameStore ==
    ASSUME NEW P, object' = object, faults' = faults, calm' \ calm \subseteq P
    PROVE  Stored(P)
BY DEF Stored

LEMMA OneWorks ==
    ASSUME NEW p \in Procs, Others(p), Stored({p}), Deals(p)
    PROVE  \E P \in SUBSET Procs : Works(P)
BY DEF Works, Others

LEMMA NoneWorks ==
    ASSUME \A q \in Procs : Kept(q), Stored({})
    PROVE  \E P \in SUBSET Procs : Works(P)
BY DEF Works

LEMMA DoneDeals ==
    ASSUME FilesInv, NEW p \in Procs, Done(p),
           pc[p] \in {"complete", "unput"} /\ faults' = 0 /\ file[p] \in object' \ {SeedFile} =>
              ~Dying(file[p])
    PROVE  Deals(p)
BY DEF Done, Deals, Hand, Writing, Seeding

LEMMA FinishWorks ==
    ASSUME FilesInv, NEW p \in Procs, Finish(p), Stored({p}),
           pc[p] \in {"complete", "unput"} /\ faults' = 0 /\ file[p] \in object' \ {SeedFile} =>
              ~Dying(file[p])
    PROVE  \E P \in SUBSET Procs : Works(P)
BY FinishKeeps, DoneDeals, OneWorks DEF FilesInv

LEMMA RequestsWork ==
    ASSUME FilesInv, NEW c \in Clients, Request(c)
    PROVE  \E P \in SUBSET Procs : Works(P)
<1>0. TypeOK /\ HandInv /\ RowsInv /\ c \in Procs /\ c \notin Seeders
  BY DEF FilesInv
<1>1. Others(c)
  BY RequestsTypes
<1>2. ASSUME NEW d \in Dirs, UploadBegin(c, d) \/ MarkBegin(c, d)
      PROVE  Deals(c) /\ Stored({c})
  <2>1. pc'[c] \in {"create", "marked"} /\ at'[c] = d /\ pc[c] = "idle"
        /\ UNCHANGED <<object, faults, calm>>
    BY <1>0, <1>2 DEF UploadBegin, MarkBegin, Goto, TypeOK, store
  <2> QED
    BY <1>0, <2>1, SameStore DEF Deals, Hand, Writing
<1>3. ASSUME NEW f \in Files, DeleteRow(c, f)
      PROVE  Deals(c) /\ Stored({c})
  <2>1. /\ pc'[c] = "purgeObject" /\ file'[c] = f /\ pc[c] = "idle" /\ row[f] # None
        /\ UNCHANGED <<object, issued, faults, calm>>
    BY <1>0, <1>3 DEF DeleteRow, Goto, TypeOK
  <2>2. row'[f].status = "deleting" /\ row'[f] # None
    <3>1. CASE Is(f, "deleting")
      BY <1>3, <3>1 DEF DeleteRow, Is
    <3>2. CASE ~Is(f, "deleting")
      BY <1>0, <1>3, <2>1, <3>2, RowDoomed, NoneIsNone DEF DeleteRow, Is
    <3> QED
      BY <3>1, <3>2
  <2>3. f \in issued
    BY <1>0, <2>1 DEF RowsInv
  <2> QED
    BY <1>0, <2>1, <2>2, <2>3, SameStore DEF Deals, Hand, Writing, Dying, Is
<1>4. ASSUME NEW f \in Files, NEW d \in Dirs, MoveCheck(c, f, d)
      PROVE  Deals(c) /\ Stored({c})
  <2>1. /\ pc'[c] = "moving" /\ file'[c] = f /\ at'[c] = d /\ pc[c] = "idle" /\ row[f] # None
        /\ seen'[c] < MaxVersion /\ UNCHANGED <<object, issued, faults, calm>>
    BY <1>0, <1>4 DEF MoveCheck, Goto, TypeOK, store
  <2>2. f \in issued
    BY SMTT(30), <1>0, <2>1 DEF RowsInv
  <2> QED
    BY <1>0, <2>1, <2>2, SameStore DEF Deals, Hand, Writing
<1> QED
  BY <1>0, <1>1, <1>2, <1>3, <1>4, OneWorks DEF Request

LEMMA ProceedsWork ==
    ASSUME FilesInv, NEW p \in Procs, Proceed(p)
    PROVE  \E P \in SUBSET Procs : Works(P)
<1>0. TypeOK /\ HandInv /\ RowsInv /\ ObjectInv
  BY DEF FilesInv
<1>1. Others(p)
  BY ProceedsTypes
<1> PICK f : f = file[p]
  OBVIOUS
<1>2. /\ pc[p] \in Writing \cup {"moving"} => f \in issued /\ f \in Files
      /\ p \in Seeders => f \in {None, SeedFile} /\ pc[p] \notin {"create", "moving", "marked"}
  BY <1>0 DEF HandInv, Hand, TypeOK
<1>3. ASSUME NEW g \in Files, NEW named \in BOOLEAN, UploadCreate(p, g, named)
      PROVE  Deals(p) /\ Stored({p})
  <2>1. /\ pc'[p] = "put" /\ file'[p] = g /\ pc[p] = "create" /\ g \in issued'
        /\ UNCHANGED <<object, faults, calm>>
    BY <1>0, <1>3 DEF UploadCreate, Goto, TypeOK
  <2> QED
    BY <1>2, <2>1, SameStore DEF Deals, Hand, Writing
<1>4. CASE Put(p)
  <2>1. /\ pc'[p] = "complete" /\ file'[p] = f /\ pc[p] = "put" /\ object' = object \cup {f}
        /\ UNCHANGED <<issued, faults, calm>>
    BY <1>0, <1>4 DEF Put, Goto, TypeOK, work
  <2>2. Stored({p})
    BY <2>1 DEF Stored
  <2>3. Deals(p)
    BY <1>2, <2>1 DEF Deals, Hand, Writing, Seeding
  <2> QED
    BY <1>1, <2>2, <2>3, OneWorks
<1>5. CASE PutFails(p)
  <2>1. /\ pc'[p] = "abandon" /\ file'[p] = f /\ pc[p] = "put" /\ UNCHANGED <<issued, calm>>
        /\ \/ object' = object /\ faults' = faults
           \/ object' = object \cup {f} /\ faults' = faults + 1 /\ faults \in Nat
    BY <1>0, <1>5 DEF PutFails, Goto, TypeOK, work
  <2>2. Stored({p})
    BY <2>1 DEF Stored
  <2>3. Deals(p)
    BY <1>2, <2>1 DEF Deals, Hand, Writing, Seeding
  <2> QED
    BY <1>1, <2>2, <2>3, OneWorks
<1>6. CASE CompleteRefused(p)
  <2>1. /\ pc'[p] = "unput" /\ file'[p] = f /\ pc[p] = "complete"
        /\ UNCHANGED <<row, object, issued, faults, calm>>
        /\ row[f] = None \/ row[f].status = "deleting"
    BY <1>0, <1>6 DEF CompleteRefused, Goto, TypeOK, work, store, Is
  <2>2. Deals(p)
    BY <1>2, <2>1 DEF Deals, Hand, Writing, Seeding, Dying, Is
  <2> QED
    BY <1>1, <2>1, <2>2, SameStore, OneWorks
<1>7. CASE PurgeObject(p)
  <2>1. /\ pc'[p] = "purgeRow" /\ file'[p] = f /\ pc[p] = "purgeObject" /\ object' = object \ {f}
        /\ UNCHANGED <<row, issued, faults, calm>>
    BY <1>0, <1>7 DEF PurgeObject, Goto, TypeOK, work
  <2>2. f = SeedFile \/ Dying(f)
    BY <1>0, <2>1 DEF ObjectInv
  <2>3. Stored({p})
    BY <2>1, <2>2 DEF Stored
  <2>4. Deals(p)
    BY <1>2, <2>1, <2>2 DEF Deals, Hand, Writing, Seeding, Dying, Is
  <2> QED
    BY <1>1, <2>3, <2>4, OneWorks
<1>8. CASE Abandon(p) /\ ~Finish(p)
  <2>1. /\ pc'[p] = "purgeObject" /\ file'[p] = f /\ pc[p] = "abandon"
        /\ UNCHANGED <<object, issued, faults, calm>>
    BY <1>0, <1>8 DEF Abandon, Goto, TypeOK, work
  <2>2. row'[f] # None /\ row'[f].status = "deleting"
    <3>1. CASE Is(f, "pending")
      <4>1. row' = Doomed(f) /\ row[f] # None /\ row[f].status # "deleting" /\ f \in Files
        BY <1>2, <1>8, <2>1, <3>1 DEF Abandon, Is, Writing
      <4> QED
        BY <1>0, <4>1, RowDoomed, NoneIsNone
    <3>2. CASE ~Is(f, "pending")
      BY <1>8, <3>2 DEF Abandon, Is
    <3> QED
      BY <3>1, <3>2
  <2>3. Deals(p)
    BY <1>2, <2>1, <2>2 DEF Deals, Hand, Writing, Seeding, Dying, Is
  <2> QED
    BY <1>1, <2>1, <2>3, SameStore, OneWorks
<1>9. CASE CompleteFails(p) /\ ~Finish(p)
  <2>1. /\ pc'[p] = "abandon" /\ file'[p] = f /\ pc[p] = "complete" /\ Is(f, "pending")
        /\ UNCHANGED <<row, object, issued, faults, calm>>
    BY <1>0, <1>9 DEF CompleteFails, Goto, TypeOK, work, store
  <2>2. Deals(p)
    BY <1>2, <2>1 DEF Deals, Hand, Writing, Seeding, Dying, Is
  <2> QED
    BY <1>1, <2>1, <2>2, SameStore, OneWorks
<1>10. CASE Unput(p)
  <2>1. /\ Finish(p) /\ pc[p] = "unput" /\ object' = object \ {f} /\ faults' = faults /\ calm' \subseteq calm
    BY <1>10 DEF Unput, Finish
  <2>2. f = SeedFile \/ Dying(f)
    BY <1>0, <2>1 DEF ObjectInv
  <2>3. Stored({p})
    BY <2>1, <2>2 DEF Stored
  <2> QED
    BY <2>1, <2>3, FinishWorks
<1>11. CASE /\ Finish(p)
            /\ \/ Complete(p) \/ CompleteFails(p) \/ Abandon(p) \/ PurgeRow(p) \/ Refused(p) \/ MarkCommit(p)
               \/ \E named \in BOOLEAN : MoveCommit(p, named)
  <2>1. UNCHANGED <<object, faults>> /\ calm' \subseteq calm
    BY <1>11 DEF Complete, CompleteFails, Abandon, PurgeRow, Refused, MarkCommit, MoveCommit, Finish, store
  <2>2. pc[p] \in {"complete", "unput"} => Is(f, "pending") \/ Is(f, "available")
    BY <1>11 DEF Complete, CompleteFails, Abandon, PurgeRow, Refused, MarkCommit, MoveCommit
  <2> QED
    BY <1>11, <2>1, <2>2, SameStore, FinishWorks DEF Dying, Is
<1> QED
  BY <1>1, <1>3, <1>4, <1>5, <1>6, <1>7, <1>8, <1>9, <1>10, <1>11, OneWorks
     DEF Proceed, Complete, PurgeRow, Refused, MarkCommit, MoveCommit

LEMMA SeedsWork ==
    ASSUME FilesInv, NEW s \in Seeders, SeedBegin(s) \/ SeedStep(s)
    PROVE  \E P \in SUBSET Procs : Works(P)
<1>0. TypeOK /\ HandInv /\ SeedInv /\ s \in Procs
  BY DEF FilesInv
<1>1. Others(s)
  BY SeedsTypes
<1>2. Hand(s) /\ Seeding(s) /\ pc[s] \in Labels /\ file[s] \in Files \cup {None}
  BY <1>0 DEF HandInv, SeedInv, TypeOK
<1>3. CASE SeedBegin(s)
  <2>1. /\ pc'[s] = "find" /\ file'[s] = file[s] /\ rerun'[s] = FALSE /\ pc[s] \in {"idle", "failed"}
        /\ UNCHANGED <<object, faults>> /\ calm' \ calm \subseteq {s}
    BY <1>0, <1>3 DEF SeedBegin, Goto, TypeOK, store
  <2>2. Deals(s)
    BY <1>2, <2>1 DEF Deals, Hand, Writing, Seeding
  <2> QED
    BY <1>0, <1>1, <2>1, <2>2, SameStore, OneWorks
<1>4. CASE SeedFind(s) /\ ~Finish(s)
  <2>1. /\ pc[s] = "find" /\ file'[s] = file[s] /\ rerun'[s] = rerun[s]
        /\ UNCHANGED <<object, faults, dir, titled>> /\ calm' \subseteq calm
        /\ \/ pc'[s] = "ensureFile" /\ at'[s] \in Dirs
           \/ pc'[s] = "insert" /\ Titled = {}
    BY <1>0, <1>4 DEF SeedFind, Goto, TypeOK, store, work, Active
  <2>2. Deals(s)
    BY <1>2, <2>1 DEF Deals, Hand, Writing, Seeding, Live, Titled
  <2> QED
    BY <1>0, <1>1, <2>1, <2>2, SameStore, OneWorks
<1>5. CASE SeedInsert(s)
  <2>1. /\ pc[s] = "insert" /\ pc'[s] = "ensureFile" /\ at'[s] \in Dirs /\ file'[s] = file[s]
        /\ UNCHANGED <<object, faults>> /\ calm' \subseteq calm
    BY <1>0, <1>5 DEF SeedInsert, Goto, TypeOK
  <2>2. Deals(s)
    BY <1>2, <2>1 DEF Deals, Hand, Writing, Seeding
  <2> QED
    BY <1>0, <1>1, <2>1, <2>2, SameStore, OneWorks
<1>6. CASE SeedInsertRefused(s) /\ ~Finish(s)
  <2>1. /\ pc[s] = "insert" /\ file'[s] = file[s] /\ UNCHANGED <<object, faults, dir, titled, calm>>
        /\ \/ pc'[s] = "find" /\ (SeedDir \in Live \/ Titled # {})
           \/ pc'[s] = "failed" /\ rerun[s] /\ SeedDir \notin Live
    BY <1>0, <1>6 DEF SeedInsertRefused, SeedIdTaken, SeedNameTaken, Goto, TypeOK, store, work
  <2>2. Deals(s)
    BY <1>2, <2>1 DEF Deals, Hand, Writing, Seeding, Live, Titled
  <2> QED
    BY <1>0, <1>1, <2>1, <2>2, SameStore, OneWorks
<1>7. CASE SeedEnsureFile(s) /\ ~Finish(s)
  <2>1. /\ pc[s] = "ensureFile" /\ pc'[s] = "put" /\ file'[s] = SeedFile /\ SeedFile \in issued'
        /\ UNCHANGED <<object, faults, calm>>
    BY <1>0, <1>7 DEF SeedEnsureFile, Goto, TypeOK
  <2>2. Deals(s)
    BY <1>2, <2>1 DEF Deals, Hand, Writing, Seeding
  <2> QED
    BY <1>0, <1>1, <2>1, <2>2, SameStore, OneWorks
<1>8. CASE Finish(s) /\ (SeedFind(s) \/ SeedInsertRefused(s) \/ SeedEnsureFile(s))
  <2>1. UNCHANGED <<object, faults>> /\ calm' \subseteq calm /\ pc[s] \notin {"complete", "unput"}
    BY <1>8 DEF SeedFind, SeedInsertRefused, SeedEnsureFile, Finish, store
  <2> QED
    BY <1>0, <1>8, <2>1, SameStore, FinishWorks
<1>9. CASE Proceed(s)
  BY <1>0, <1>9, ProceedsWork
<1> QED
  BY <1>3, <1>4, <1>5, <1>6, <1>7, <1>8, <1>9 DEF SeedStep

LEMMA StepsWork ==
    ASSUME FilesInv, [Next]_vars
    PROVE  \E P \in SUBSET Procs : Works(P)
<1>0. TypeOK /\ HandInv
  BY DEF FilesInv
<1>1. ASSUME NEW d \in Dirs,
             \/ \E named \in BOOLEAN : CreateDirectory(d, named)
             \/ RenameDirectory(d) \/ DeleteDirectory(d) \/ SweepDirectory(d)
      PROVE  \E P \in SUBSET Procs : Works(P)
  <2>1. UNCHANGED <<object, faults>> /\ calm' \subseteq calm
    BY <1>1 DEF CreateDirectory, RenameDirectory, DeleteDirectory, SweepDirectory, locals, work
  <2> QED
    BY <1>1, <2>1, DirectoriesTypes, SameStore, NoneWorks
<1>2. ASSUME NEW f \in Files, SweepStale(f) \/ SweepFile(f)
      PROVE  \E P \in SUBSET Procs : Works(P)
  <2>1. UNCHANGED <<faults, calm>> /\ (object' = object \/ (Is(f, "deleting") /\ object' = object \ {f}))
    BY <1>2 DEF SweepStale, SweepFile, locals, work
  <2>2. Stored({})
    BY <2>1 DEF Stored, Dying
  <2> QED
    BY <1>2, <2>2, SweepTypes, NoneWorks
<1>3. CASE UNCHANGED vars
  <2>1. UNCHANGED <<object, faults, calm>>
    BY <1>3 DEF vars, store, locals, work
  <2> QED
    BY <1>3, <2>1, SweepTypes, SameStore, NoneWorks
<1>4. ASSUME NEW p \in Procs, Stop(p)
      PROVE  \E P \in SUBSET Procs : Works(P)
  <2>1. Finish(p) /\ object' = object /\ calm' \subseteq calm
    BY <1>4 DEF Stop, Finish, store
  <2>2. faults' = faults \/ (p \notin Seeders /\ faults' = faults + 1 /\ faults \in Nat)
    BY <1>0, <1>4 DEF Stop, TypeOK
  <2>3. Stored({p})
    BY <2>1, <2>2 DEF Stored
  <2>4. pc[p] \in {"complete", "unput"} /\ p \in Seeders => file[p] = SeedFile
    BY <1>0 DEF HandInv, Hand, Writing, TypeOK
  <2>5. pc[p] \in {"complete", "unput"} /\ faults' = 0 => file[p] = SeedFile
    BY <1>4, <2>2, <2>4 DEF Stop
  <2> QED
    BY <2>1, <2>3, <2>5, FinishWorks
<1>5. ASSUME NEW c \in Clients, Request(c) \/ Proceed(c)
      PROVE  \E P \in SUBSET Procs : Works(P)
  BY <1>5, RequestsWork, ProceedsWork
<1>6. ASSUME NEW s \in Seeders, SeedBegin(s) \/ SeedStep(s)
      PROVE  \E P \in SUBSET Procs : Works(P)
  BY <1>6, SeedsWork
<1> QED
  BY <1>1, <1>2, <1>3, <1>4, <1>5, <1>6 DEF Next

LEMMA MarksKept ==
    ASSUME FilesInv, [Next]_vars
    PROVE  MarkInv'
<1>0. TypeOK /\ MarkInv
  BY DEF FilesInv
<1>1. ASSUME NEW c \in Clients, NEW d \in Dirs, MarkBegin(c, d)
      PROVE  MarkInv'
  <2> PICK D : D = {f \in In(d) : row[f].status # "deleting" /\ Free(f)}
    OBVIOUS
  <2>1. /\ row' = row /\ pc'[c] = "marked" /\ at'[c] = d /\ locked'[c] = D
        /\ \A p \in Procs : pc[p] # "marked"
    BY <1>0, <1>1 DEF MarkBegin, Goto, TypeOK, store
  <2>2. \A q \in Procs \ {c} : pc'[q] # "marked" /\ locked'[q] = {}
    <3>1. \A q \in Procs \ {c} : pc'[q] = pc[q] /\ locked'[q] = locked[q]
      BY <1>0, <1>1 DEF MarkBegin, Goto, TypeOK
    <3> QED
      BY <1>0, <2>1, <3>1 DEF MarkInv
  <2>3. \A f \in D : row[f] # None /\ row[f].dir = d /\ row[f].status # "deleting"
    BY DEF In
  <2> QED
    BY <2>1, <2>2, <2>3 DEF MarkInv
<1> DEFINE Moved(q) == Kept(q) \/ (pc'[q] # "marked" /\ locked'[q] = {})
<1>2. ASSUME NEW p \in Procs, Others(p), Moved(p)
      PROVE  MarkInv'
  BY <1>2, StepsFated, MarkKept DEF Others
<1>3. ASSUME \A q \in Procs : Kept(q)
      PROVE  MarkInv'
  BY <1>3, StepsFated, MarkKept
<1>4. ASSUME NEW p \in Procs, Finish(p)
      PROVE  MarkInv'
  BY <1>0, <1>2, <1>4, FinishKeeps DEF Done
<1>5. ASSUME NEW c \in Clients, Request(c)
      PROVE  MarkInv'
  <2>1. Others(c)
    BY <1>5, RequestsTypes
  <2>2. CASE \E d \in Dirs : MarkBegin(c, d)
    BY <1>1, <2>2
  <2>3. CASE ~\E d \in Dirs : MarkBegin(c, d)
    <3>1. pc[c] = "idle" /\ pc'[c] \in {"create", "purgeObject", "moving"} /\ locked' = locked
      BY <1>0, <1>5, <2>3 DEF Request, UploadBegin, DeleteRow, MoveCheck, Goto, TypeOK
    <3> QED
      BY <1>0, <1>2, <2>1, <3>1 DEF MarkInv
  <2> QED
    BY <2>2, <2>3
<1>6. ASSUME NEW p \in Procs, Proceed(p)
      PROVE  MarkInv'
  <2>1. Others(p)
    BY <1>6, ProceedsTypes
  <2>2. CASE ~Finish(p)
    <3>1. /\ pc[p] \in {"create", "put", "complete", "abandon", "purgeObject"} /\ locked' = locked
          /\ pc'[p] \in {"put", "complete", "abandon", "unput", "purgeObject", "purgeRow"}
      BY <1>0, <1>6, <2>2
         DEF Proceed, UploadCreate, Put, PutFails, Complete, CompleteFails, CompleteRefused, Unput,
             Abandon, MoveCommit, PurgeObject, PurgeRow, MarkCommit, Refused, Goto, TypeOK, work
    <3> QED
      BY SMTT(30), <1>0, <1>2, <2>1, <3>1 DEF MarkInv
  <2> QED
    BY <1>4, <2>2
<1>7. ASSUME NEW s \in Seeders, SeedBegin(s) \/ SeedStep(s)
      PROVE  MarkInv'
  <2>1. Others(s)
    BY <1>7, SeedsTypes
  <2>2. CASE ~Finish(s) /\ ~Proceed(s)
    <3>1. /\ pc[s] \in {"idle", "failed", "find", "insert", "ensureFile"} /\ locked' = locked
          /\ pc'[s] \in {"find", "insert", "ensureFile", "failed", "put"}
      BY <1>0, <1>7, <2>2
         DEF SeedBegin, SeedStep, SeedFind, SeedInsert, SeedInsertRefused, SeedEnsureFile, Goto, TypeOK, work
    <3> QED
      BY <1>0, <1>2, <2>1, <3>1 DEF MarkInv
  <2> QED
    BY <1>4, <1>6, <2>2
<1>8. CASE UNCHANGED vars \/ \E f \in Files : SweepStale(f) \/ SweepFile(f)
  BY <1>3, <1>8, SweepTypes
<1>9. ASSUME NEW d \in Dirs,
             \/ \E named \in BOOLEAN : CreateDirectory(d, named)
             \/ RenameDirectory(d) \/ DeleteDirectory(d) \/ SweepDirectory(d)
      PROVE  MarkInv'
  BY <1>3, <1>9, DirectoriesTypes
<1>10. ASSUME NEW p \in Procs, Stop(p)
       PROVE  MarkInv'
  BY <1>4, <1>10 DEF Stop
<1> QED
  BY <1>5, <1>6, <1>7, <1>8, <1>9, <1>10 DEF Next

-----------------------------------------------------------------------------
(* The invariant and the theorems.                                         *)

LEMMA InitFiles == Init => FilesInv
<1> SUFFICES ASSUME Init
             PROVE  FilesInv
  OBVIOUS
<1>1. /\ \A f \in Files : row[f] = None /\ told[f] = None
      /\ \A p \in Procs : pc[p] = "idle" /\ file[p] = None /\ locked[p] = {}
      /\ object = {} /\ heard = {} /\ calm = {}
  BY DEF Init
<1>2. TypeOK
  BY DEF Init, TypeOK, Labels, Versions
<1>3. RowsInv /\ HandInv /\ MarkInv /\ OrphanInv /\ SeedInv
  BY <1>1 DEF RowsInv, HandInv, Hand, Writing, MarkInv, OrphanInv, SeedInv, Seeding
<1>4. ObjectInv
  BY <1>1 DEF ObjectInv, Downloadable, Is
<1>5. ToldInv
  <2>1. Active = {}
    BY DEF Init, Active
  <2> QED
    BY <1>1, <2>1 DEF ToldInv, Is
<1> QED
  BY <1>2, <1>3, <1>4, <1>5 DEF FilesInv

LEMMA NextFiles == FilesInv /\ [Next]_vars => FilesInv'
<1> SUFFICES ASSUME FilesInv, [Next]_vars
             PROVE  FilesInv'
  OBVIOUS
<1>1. Fated /\ DirsStep /\ TypeOK' /\ MarkInv'
  BY StepsFated, DirectoriesStep, TypesKept, MarksKept
<1> PICK P \in SUBSET Procs : Works(P)
  BY StepsWork
<1>2. HandInv' /\ ObjectInv' /\ OrphanInv' /\ SeedInv'
  BY <1>1, HandKept, ObjectsKept, OrphansKept, SeedKept
<1>3. RowsInv' /\ ToldInv'
  BY <1>1, RowsKept, ToldKept
<1> QED
  BY <1>1, <1>2, <1>3 DEF FilesInv

(* FilesInv is inductive: it holds in every state of every interleaving of *)
(* uploads, moves, deletes, marks, sweeps and seeds.                       *)
THEOREM FilesInvariant == Spec => []FilesInv
BY InitFiles, NextFiles, PTL DEF Spec

(* Every variable keeps to its type, a row's version within the room the   *)
(* bound on moves leaves for its completion, its mark and its delete.      *)
THEOREM FilesTyped == Spec => []TypeOK
<1>1. FilesInv => TypeOK
  BY DEF FilesInv
<1> QED
  BY <1>1, FilesInvariant, PTL

(* A consumer of the directories' and the files' events holds the active   *)
(* directories and, whole, the available files in them, each where its row *)
(* is and at its version, whatever a mark hides or a commit races in.      *)
THEOREM EventsShowFiles == Spec => []ConsumerSeesFiles
<1>1. FilesInv => ConsumerSeesFiles
  BY DEF FilesInv, ToldInv, ConsumerSeesFiles
<1> QED
  BY <1>1, FilesInvariant, PTL

(* A file that shows as available has its bytes stored: no purge, abandon, *)
(* refused completion or sweep removes an object another's write needs.    *)
THEOREM FilesDownloadable == Spec => []Downloadable
<1>1. FilesInv => Downloadable
  BY DEF FilesInv, ObjectInv
<1> QED
  BY <1>1, FilesInvariant, PTL

(* While no request is cut short and no answer lost, an object whose row   *)
(* is gone is in the hands of the upload that put it.                      *)
THEOREM NoObjectOrphaned == Spec => []NoOrphans
<1>1. FilesInv => NoOrphans
  BY DEF FilesInv, OrphanInv, Held, NoOrphans
<1> QED
  BY <1>1, FilesInvariant, PTL

(* A run of the seed fails on its directory's name only if a directory was *)
(* moved or removed since it began, whatever other seeds and creates do.   *)
THEOREM RerunSuffices == Spec => []OneRerunSuffices
<1>1. FilesInv => OneRerunSuffices
  BY DEF FilesInv, SeedInv, Seeding, OneRerunSuffices
<1> QED
  BY <1>1, FilesInvariant, PTL

(* No step of a seed takes for seeded, and ends at, an entry whose row is  *)
(* still pending in an active directory.                                   *)
THEOREM SeedsResume == Spec => SeedResumes
<1>1. ASSUME FilesInv, [Next]_vars, NEW s \in Seeders,
             SeedEnsureFile(s), at[s] \in Active, pc'[s] = "idle"
      PROVE  ~(Is(SeedFile, "pending") /\ row[SeedFile].named /\ row[SeedFile].dir = at[s])
  <2>1. pc \in [Procs -> Labels] /\ s \in Procs
    BY <1>1 DEF FilesInv, TypeOK
  <2>2. SeedLeaves(s)
    BY <1>1, <2>1 DEF SeedEnsureFile, Goto
  <2> QED
    BY <2>2 DEF SeedLeaves, Is
<1>2. FilesInv /\ [Next]_vars =>
        [\A s \in Seeders :
            SeedEnsureFile(s) /\ at[s] \in Active /\ pc'[s] = "idle" =>
                ~(Is(SeedFile, "pending") /\ row[SeedFile].named /\ row[SeedFile].dir = at[s])]_vars
  BY <1>1
<1> QED
  BY <1>2, FilesInvariant, PTL DEF Spec, SeedResumes
-----------------------------------------------------------------------------
(* The files implement the shelf: what the events hold is what is shelved  *)
(* in the active directories, so a step is known by its directories and    *)
(* rows, and all but a mark write at most one row.                         *)

LEMMA PlacesNamed ==
    ASSUME TypeOK
    PROVE  /\ \A f \in Files : row[f] # None => Place(row[f]) # None
           /\ \A f \in Files : told[f] # None => Place(told[f]) # None
<1>1. \A d \in Dirs, v \in Nat : [dir |-> d, version |-> v] # None
  OBVIOUS
<1>2. \A f \in Files : row[f] # None => row[f].dir \in Dirs /\ row[f].version \in Nat
  BY RowFields
<1>3. \A f \in Files : told[f] # None => told[f].dir \in Dirs /\ told[f].version \in Nat
  BY DEF TypeOK, Tellings, Versions
<1> QED
  BY <1>1, <1>2, <1>3 DEF Place

Shown(f) == Shelved[f] # None /\ dir[Shelved[f].dir] = "active"
CopiesInv == \A f \in Files : Copies[f] = IF Shown(f) THEN Shelved[f] ELSE None

LEMMA CopiesShown == FilesInv => CopiesInv
<1> SUFFICES ASSUME FilesInv, NEW f \in Files
             PROVE  Copies[f] = IF Shown(f) THEN Shelved[f] ELSE None
  BY DEF CopiesInv
<1>0. TypeOK /\ ToldInv
  BY DEF FilesInv
<1>1. Shown(f) <=> Is(f, "available") /\ row[f].dir \in Active
  <2>1. Is(f, "available") => Shelved[f] = Place(row[f]) /\ Shelved[f] # None
    BY <1>0, PlacesNamed DEF Shelved, Is
  <2>2. ~Is(f, "available") => Shelved[f] = None
    BY DEF Shelved
  <2>3. row[f] # None => row[f].dir \in Dirs
    BY <1>0, RowFields
  <2> QED
    BY <2>1, <2>2, <2>3 DEF Shown, Active, Place, Is
<1>2. CASE Shown(f)
  <2>1. told[f] # None /\ told[f].whole /\ told[f].dir = row[f].dir /\ told[f].version = row[f].version
    BY <1>0, <1>1, <1>2 DEF ToldInv
  <2> QED
    BY <1>1, <1>2, <2>1 DEF Copies, Shelved, Place
<1>3. CASE ~Shown(f)
  <2>1. ~(told[f] # None /\ told[f].whole)
    BY <1>0, <1>1, <1>3 DEF ToldInv
  <2> QED
    BY <1>3, <2>1 DEF Copies
<1> QED
  BY <1>2, <1>3
LEMMA CopiesKept ==
    ASSUME FilesInv, [Next]_vars
    PROVE  CopiesInv /\ CopiesInv'
<1>1. FilesInv'
  BY NextFiles
<1>2. (FilesInv => CopiesInv)'
  BY CopiesShown, PTL
<1> QED
  BY <1>1, <1>2, CopiesShown

LEMMA OneEntry ==
    ASSUME NEW F, NEW G, F = [x \in Files |-> F[x]], G = [x \in Files |-> G[x]],
           NEW f \in Files, \A g \in Files \ {f} : G[g] = F[g]
    PROVE  G = [F EXCEPT ![f] = G[f]] /\ (G[f] = F[f] => G = F)
OBVIOUS

LEMMA Entries ==
    /\ Drafts = [f \in Files |-> Drafts[f]] /\ Drafts' = [f \in Files |-> Drafts'[f]]
    /\ Shelved = [f \in Files |-> Shelved[f]] /\ Shelved' = [f \in Files |-> Shelved'[f]]
    /\ Copies = [f \in Files |-> Copies[f]] /\ Copies' = [f \in Files |-> Copies'[f]]
BY DEF Drafts, Shelved, Copies

(* A step that writes a file's row, and takes its id when it had none.     *)
Solo(f) ==
    /\ OneRow(f) /\ dir' = dir
    /\ IF row[f] = None THEN row'[f] # None /\ issued' = issued \cup {f} ELSE issued' = issued

LEMMA SoloEntries ==
    ASSUME CopiesInv, CopiesInv', NEW f \in Files, Solo(f)
    PROVE  /\ Drafts' = [Drafts EXCEPT ![f] = Drafts'[f]] /\ (Drafts'[f] = Drafts[f] => Drafts' = Drafts)
           /\ Shelved' = [Shelved EXCEPT ![f] = Shelved'[f]]
           /\ Copies' = [Copies EXCEPT ![f] = Copies'[f]]
           /\ Shelved'[f] = Shelved[f] => Shelved' = Shelved /\ Copies' = Copies
           /\ Copies'[f] = IF Shelved'[f] # None /\ dir[Shelved'[f].dir] = "active"
                             THEN Shelved'[f] ELSE None
<1>1. \A g \in Files \ {f} : Drafts'[g] = Drafts[g] /\ Shelved'[g] = Shelved[g]
  BY DEF Solo, OneRow, Drafts, Shelved, Is
<1>2. /\ \A g \in Files : Copies[g] = IF Shown(g) THEN Shelved[g] ELSE None
      /\ \A g \in Files : Copies'[g] = IF Shelved'[g] # None /\ dir[Shelved'[g].dir] = "active"
                                         THEN Shelved'[g] ELSE None
  BY DEF CopiesInv, Shown, Solo
<1>3. \A g \in Files \ {f} : Copies'[g] = Copies[g]
  BY <1>1, <1>2 DEF Shown
<1>4. /\ Drafts' = [Drafts EXCEPT ![f] = Drafts'[f]] /\ (Drafts'[f] = Drafts[f] => Drafts' = Drafts)
      /\ Shelved' = [Shelved EXCEPT ![f] = Shelved'[f]] /\ (Shelved'[f] = Shelved[f] => Shelved' = Shelved)
      /\ Copies' = [Copies EXCEPT ![f] = Copies'[f]] /\ (Copies'[f] = Copies[f] => Copies' = Copies)
  BY <1>1, <1>3, Entries, OneEntry
<1>5. Shelved'[f] = Shelved[f] => Copies'[f] = Copies[f]
  BY <1>2 DEF Shown
<1> QED
  BY <1>2, <1>4, <1>5

(* Each fate of the row written is one action of the shelf, or none.       *)
LEMMA SoloShelf ==
    ASSUME FilesInv, [Next]_vars, NEW f \in Files, Solo(f)
    PROVE  [Shelf!ShelfNext]_(Shelf!shelfVars)
<1>0. TypeOK /\ RowsInv /\ CopiesInv /\ CopiesInv'
  BY CopiesKept DEF FilesInv
<1>1. Fate(f)
  BY StepsFated DEF Fated
<1>2. /\ Drafts[f] = IF Is(f, "pending") THEN Place(row[f]) ELSE None
      /\ Shelved[f] = IF Is(f, "available") THEN Place(row[f]) ELSE None
      /\ Drafts'[f] = IF row'[f] # None /\ row'[f].status = "pending" THEN Place(row'[f]) ELSE None
      /\ Shelved'[f] = IF row'[f] # None /\ row'[f].status = "available" THEN Place(row'[f]) ELSE None
  BY DEF Drafts, Shelved, Is
<1>3. \A x \in Live : Shelf!There(x)
  BY DEF Live, Shelf!There
<1>4. Live' = Live
  BY DEF Solo, Live
<1>5. Shelved'[f] # None /\ issued' = issued => Shelf!Shelve(f, Shelved'[f])
  BY <1>0, SoloEntries DEF Shelf!Shelve, Solo
<1>6. CASE Stays(f)
  <2>1. row[f] # None /\ issued' = issued
    BY <1>6 DEF Solo, Stays
  <2>2. Drafts' = Drafts /\ Shelved' = Shelved /\ Copies' = Copies
    BY <1>0, <1>2, <1>6, SoloEntries DEF Stays, Is
  <2> QED
    BY <2>1, <2>2 DEF Shelf!shelfVars, Solo
<1>7. CASE Born(f)
  <2> PICK d \in Live : Became(f, "pending", d, 1)
    BY <1>4, <1>7 DEF Born
  <2>1. /\ Drafts[f] = None /\ Shelved[f] = None /\ Shelved'[f] = None
        /\ Drafts'[f] = [dir |-> d, version |-> 1]
    BY <1>2, <1>7, NoneIsNone DEF Born, Became, Is, Place
  <2>2. /\ Drafts' = [Drafts EXCEPT ![f] = [dir |-> d, version |-> 1]]
        /\ Shelved' = Shelved /\ Copies' = Copies
    BY <1>0, <2>1, SoloEntries
  <2>3. Shelf!Begin(f, d)
    BY <1>3, <1>7, <2>1, <2>2 DEF Shelf!Begin, Born, Solo
  <2> QED
    BY <2>3 DEF Shelf!ShelfNext, Live
<1>8. CASE Completes(f)
  <2>1. /\ Drafts[f] = Place(row[f]) /\ Drafts[f] # None /\ Drafts'[f] = None
        /\ Shelved'[f] = Shelf!Later(Drafts[f], Drafts[f].dir) /\ Shelved'[f] # None
    <3>1. row[f] # None /\ row'[f] # None /\ Place(row[f]) # None
      BY <1>0, <1>8, PlacesNamed, NoneIsNone DEF Completes, Became, Is
    <3>2. Place(row'[f]) = Shelf!Later(Place(row[f]), row[f].dir)
      BY <1>8 DEF Completes, Became, Place, Shelf!Later
    <3>3. Place(row'[f]) # None
      BY <1>0, <1>8, RowFields DEF Completes, Became, Place, Is
    <3>4. Place(row[f]).dir = row[f].dir
      BY DEF Place
    <3> QED
      BY <1>2, <1>8, <3>1, <3>2, <3>3, <3>4 DEF Completes, Became, Is
  <2>2. Drafts' = [Drafts EXCEPT ![f] = None]
    BY <1>0, <2>1, SoloEntries
  <2>3. issued' = issued
    BY <1>8 DEF Solo, Completes, Is
  <2>4. Shelf!Complete(f)
    BY <1>5, <2>1, <2>2, <2>3 DEF Shelf!Complete
  <2> QED
    BY <2>4 DEF Shelf!ShelfNext
<1>9. CASE Moves(f)
  <2> PICK d \in Live : Became(f, row[f].status, d, row[f].version + 1)
    BY <1>4, <1>9 DEF Moves
  <2>0. /\ row[f] # None /\ row'[f] # None /\ issued' = issued
        /\ row[f].status \in {"pending", "available"} /\ row'[f].status = row[f].status
    BY <1>0, <1>9, RowFields, NoneIsNone DEF Moves, Became, Is, Statuses, Solo
  <2>1. Place(row'[f]) = Shelf!Later(Place(row[f]), d) /\ Place(row[f]) # None /\ Place(row'[f]) # None
    <3>1. Place(row'[f]) = Shelf!Later(Place(row[f]), d)
      BY DEF Became, Place, Shelf!Later
    <3>2. Place(row'[f]) # None
      BY <1>0, <2>0, RowFields DEF Became, Place, Live
    <3> QED
      BY <1>0, <2>0, <3>1, <3>2, PlacesNamed
  <2>2. CASE row[f].status = "pending"
    <3>1. /\ Drafts[f] # None /\ Drafts'[f] = Shelf!Later(Drafts[f], d)
          /\ Shelved[f] = None /\ Shelved'[f] = None
      BY <1>2, <2>0, <2>1, <2>2 DEF Is
    <3>2. /\ Drafts' = [Drafts EXCEPT ![f] = Shelf!Later(Drafts[f], d)]
          /\ Shelved' = Shelved /\ Copies' = Copies
      BY <1>0, <3>1, SoloEntries
    <3>3. Shelf!MoveDraft(f, d)
      BY <1>3, <2>0, <3>1, <3>2 DEF Shelf!MoveDraft, Solo
    <3> QED
      BY <3>3 DEF Shelf!ShelfNext, Live
  <2>3. CASE row[f].status = "available"
    <3>1. /\ Shelved[f] # None /\ Shelved'[f] = Shelf!Later(Shelved[f], d) /\ Shelved'[f] # None
          /\ Drafts[f] = None /\ Drafts'[f] = None
      BY <1>2, <2>0, <2>1, <2>3 DEF Is
    <3>2. Drafts' = Drafts
      BY <1>0, <3>1, SoloEntries
    <3>3. Shelf!Move(f, d)
      BY <1>3, <1>5, <2>0, <3>1, <3>2 DEF Shelf!Move
    <3> QED
      BY <3>3 DEF Shelf!ShelfNext, Live
  <2> QED
    BY <2>0, <2>2, <2>3
<1>10. CASE Dies(f)
  <2>0. /\ row[f] # None /\ issued' = issued /\ Place(row[f]) # None
        /\ row[f].status \in {"pending", "available"} /\ row'[f].status = "deleting"
    BY <1>0, <1>10, RowFields, PlacesNamed DEF Dies, Became, Is, Statuses, Solo
  <2>1. Drafts'[f] = None /\ Shelved'[f] = None
    BY <1>2, <2>0
  <2>2. CASE row[f].status = "pending"
    <3>1. Drafts[f] # None /\ Shelved[f] = None
      BY <1>2, <2>0, <2>2 DEF Is
    <3>2. Drafts' = [Drafts EXCEPT ![f] = None] /\ Shelved' = Shelved /\ Copies' = Copies
      BY <1>0, <2>1, <3>1, SoloEntries
    <3>3. Shelf!GiveUp(f)
      BY <2>0, <3>1, <3>2 DEF Shelf!GiveUp, Solo
    <3> QED
      BY <3>3 DEF Shelf!ShelfNext
  <2>3. CASE row[f].status = "available"
    <3>1. Shelved[f] # None /\ Drafts[f] = None
      BY <1>2, <2>0, <2>3 DEF Is
    <3>2. /\ Drafts' = Drafts /\ Shelved' = [Shelved EXCEPT ![f] = None]
          /\ Copies' = [Copies EXCEPT ![f] = None]
      BY <1>0, <2>1, <3>1, SoloEntries
    <3>3. Shelf!Delete(f)
      BY <2>0, <3>1, <3>2 DEF Shelf!Delete, Solo
    <3> QED
      BY <3>3 DEF Shelf!ShelfNext
  <2> QED
    BY <2>0, <2>2, <2>3
<1>11. CASE Drops(f)
  <2>1. issued' = issued
    BY <1>11 DEF Drops, Is, Solo
  <2>2. Drafts[f] = None /\ Shelved[f] = None /\ Drafts'[f] = None /\ Shelved'[f] = None
    BY <1>2, <1>11 DEF Drops, Is
  <2>3. Drafts' = Drafts /\ Shelved' = Shelved /\ Copies' = Copies
    BY <1>0, <2>2, SoloEntries
  <2> QED
    BY <2>1, <2>3 DEF Shelf!shelfVars, Solo
<1> QED
  BY <1>1, <1>6, <1>7, <1>8, <1>9, <1>10, <1>11 DEF Fate

(* A step that writes no row and takes no id leaves, opens or removes.     *)
LEMMA SameShelf ==
    ASSUME FilesInv, [Next]_vars, UNCHANGED <<dir, row, issued>>
    PROVE  UNCHANGED Shelf!shelfVars
<1>1. Drafts' = Drafts /\ Shelved' = Shelved
  BY DEF Drafts, Shelved, Is
<1>2. \A f \in Files : Copies'[f] = Copies[f]
  BY <1>1, CopiesKept DEF CopiesInv, Shown
<1>3. Copies' = Copies
  BY <1>2, Entries
<1> QED
  BY <1>1, <1>3 DEF Shelf!shelfVars

LEMMA BareShelf ==
    ASSUME FilesInv, [Next]_vars, UNCHANGED <<row, issued>>, NEW d \in Dirs, In(d) = {},
           NEW x, dir' = [dir EXCEPT ![d] = x]
    PROVE  Shelf!Bare(d) /\ UNCHANGED <<issued, Drafts, Shelved, Copies>>
<1>0. TypeOK
  BY DEF FilesInv
<1>1. Drafts' = Drafts /\ Shelved' = Shelved
  BY DEF Drafts, Shelved, Is
<1>2. \A f \in Files : /\ Drafts[f] # None => Drafts[f].dir # d
                       /\ Shelved[f] # None => Shelved[f].dir # d
  BY DEF Drafts, Shelved, Is, Place, In
<1>3. \A f \in Files : Shelved[f] # None => dir'[Shelved[f].dir] = dir[Shelved[f].dir]
  <2>1. \A f \in Files : Shelved[f] # None => Shelved[f].dir \in Dirs
    BY <1>0, RowFields DEF Shelved, Is, Place
  <2> QED
    BY <1>0, <1>2, <2>1 DEF TypeOK
<1>4. \A f \in Files : Copies'[f] = Copies[f]
  BY <1>1, <1>3, CopiesKept DEF CopiesInv, Shown
<1>5. Copies' = Copies
  BY <1>4, Entries
<1> QED
  BY <1>1, <1>2, <1>5 DEF Shelf!Bare, Shelf!InDir

LEMMA DirectoryOpened ==
    ASSUME FilesInv, [Next]_vars, UNCHANGED <<row, issued>>, NEW d \in Dirs,
           dir[d] = "absent" \/ (d = SeedDir /\ d \notin Live), dir' = [dir EXCEPT ![d] = "active"]
    PROVE  Shelf!ShelfNext
<1>1. d \notin Live /\ (dir[d] = "absent" \/ (d = SeedDir /\ dir[d] = "gone"))
  BY DEF FilesInv, TypeOK, Live
<1>2. In(d) = {}
  BY <1>1 DEF FilesInv, RowsInv, In
<1>3. Shelf!Open(d)
  BY <1>1, <1>2, BareShelf DEF Shelf!Open
<1> QED
  BY <1>3 DEF Shelf!ShelfNext

LEMMA DirectoryRemoved ==
    ASSUME FilesInv, [Next]_vars, UNCHANGED <<row, issued>>, NEW d \in Live,
           In(d) = {}, dir' = [dir EXCEPT ![d] = "gone"]
    PROVE  Shelf!ShelfNext
<1>1. d \in Dirs /\ Shelf!There(d)
  BY DEF Live, Shelf!There
<1>2. Shelf!Remove(d)
  BY <1>1, BareShelf DEF Shelf!Remove
<1> QED
  BY <1>1, <1>2 DEF Shelf!ShelfNext

(* A mark's commit: its rows leave, the rest of the directory is hidden.   *)
LEMMA DirectoryClosed ==
    ASSUME FilesInv, [Next]_vars, NEW c \in Procs, MarkCommit(c)
    PROVE  Shelf!ShelfNext
<1> PICK d, D : d = at[c] /\ D = locked[c]
  OBVIOUS
<1>0. TypeOK /\ RowsInv /\ MarkInv /\ CopiesInv /\ CopiesInv'
  BY CopiesKept DEF FilesInv
<1>1. /\ d \in Live /\ d \in Dirs /\ D \subseteq Files /\ issued' = issued
      /\ dir' = [dir EXCEPT ![d] = "deleting"]
      /\ row' = [f \in Files |-> IF f \in D THEN Doomed(f)[f] ELSE row[f]]
  BY <1>0 DEF MarkCommit, Live, TypeOK
<1>2. \A f \in D : /\ row[f] # None /\ row[f].dir = d /\ row[f].status # "deleting"
                   /\ row'[f].status = "deleting"
  <2>1. \A f \in D : row[f] # None /\ row[f].dir = d /\ row[f].status # "deleting"
    BY <1>0 DEF MarkInv
  <2> QED
    BY <1>0, <1>1, <2>1, RowDoomed
<1>3. \A f \in Files \ D : row'[f] = row[f]
  BY <1>1
<1>4. /\ \A f \in D : Drafts'[f] = None /\ Shelved'[f] = None
      /\ \A f \in D : Drafts[f] = Place(row[f]) \/ Drafts[f] = None
      /\ \A f \in D : Shelved[f] = Place(row[f]) \/ Shelved[f] = None
      /\ \A f \in D : Place(row[f]).dir = d /\ Place(row[f]) # None
      /\ \A f \in Files \ D : Drafts'[f] = Drafts[f] /\ Shelved'[f] = Shelved[f]
  <2>1. \A f \in D : Drafts'[f] = None /\ Shelved'[f] = None
    BY <1>1, <1>2 DEF Drafts, Shelved, Is
  <2>2. \A f \in D : /\ Drafts[f] = Place(row[f]) \/ Drafts[f] = None
                     /\ Shelved[f] = Place(row[f]) \/ Shelved[f] = None
    BY <1>1 DEF Drafts, Shelved
  <2>3. \A f \in D : Place(row[f]).dir = d /\ Place(row[f]) # None
    BY <1>0, <1>1, <1>2, PlacesNamed DEF Place
  <2>4. \A f \in Files \ D : Drafts'[f] = Drafts[f] /\ Shelved'[f] = Shelved[f]
    BY <1>3 DEF Drafts, Shelved, Is
  <2> QED
    BY <2>1, <2>2, <2>3, <2>4
<1>5. Shelf!Takes(Drafts, Drafts', d) /\ Shelf!Takes(Shelved, Shelved', d)
  BY <1>4 DEF Shelf!Takes, Shelf!InDir
<1>6. \A f \in Files : Copies'[f] = IF Shelf!InDir(Copies[f], d) THEN None ELSE Copies[f]
  <2> SUFFICES ASSUME NEW f \in Files
               PROVE  Copies'[f] = IF Shelf!InDir(Copies[f], d) THEN None ELSE Copies[f]
    OBVIOUS
  <2>1. /\ Copies[f] = IF Shown(f) THEN Shelved[f] ELSE None
        /\ Copies'[f] = IF Shelved'[f] # None /\ dir'[Shelved'[f].dir] = "active"
                          THEN Shelved'[f] ELSE None
    BY <1>0 DEF CopiesInv, Shown
  <2>2. Shelved[f] # None => Shelved[f].dir \in Dirs
    BY <1>0, RowFields DEF Shelved, Is, Place
  <2>3. Shelved[f] # None => dir'[Shelved[f].dir] = IF Shelved[f].dir = d THEN "deleting"
                                                    ELSE dir[Shelved[f].dir]
    BY <1>0, <1>1, <2>2 DEF TypeOK
  <2>4. CASE f \in D
    BY <1>4, <2>1, <2>4 DEF Shown, Shelf!InDir
  <2>5. CASE f \notin D
    BY <1>4, <2>1, <2>3, <2>5 DEF Shown, Shelf!InDir
  <2> QED
    BY <2>4, <2>5
<1>7. Copies' = [f \in Files |-> IF Shelf!InDir(Copies[f], d) THEN None ELSE Copies[f]]
  <2>1. Copies' = [f \in Files |-> Copies'[f]]
    BY Entries
  <2> QED
    BY <1>6, <2>1
<1>8. Shelf!Close(d)
  BY <1>1, <1>5, <1>7 DEF Shelf!Close, Shelf!There, Live
<1> QED
  BY <1>1, <1>8 DEF Shelf!ShelfNext

(* Every step of the model is one of these.                                *)
Shelves == [Shelf!ShelfNext]_(Shelf!shelfVars)

LEMMA RowWritten ==
    ASSUME FilesInv, [Next]_vars, NEW f \in Files, row[f] # None, UNCHANGED <<dir, issued>>,
           \/ \E s : row' = [row EXCEPT ![f].status = s, ![f].version = @ + 1]
           \/ \E d, n : row' = [row EXCEPT ![f].dir = d, ![f].named = n, ![f].version = @ + 1]
           \/ row' = [row EXCEPT ![f] = None]
    PROVE  Shelves
<1>1. OneRow(f)
  BY DEF FilesInv, TypeOK, OneRow
<1> QED
  BY <1>1, SoloShelf DEF Solo, Shelves

LEMMA RowBegun ==
    ASSUME FilesInv, [Next]_vars, NEW f \in Files, row[f] = None, NEW r \in Rows,
           row' = [row EXCEPT ![f] = r], issued' = issued \cup {f}, dir' = dir
    PROVE  Shelves
<1>1. row'[f] # None /\ OneRow(f)
  BY RowSet, NoneIsNone DEF FilesInv
<1> QED
  BY <1>1, SoloShelf DEF Solo, Shelves

LEMMA DirectoriesShelf ==
    ASSUME FilesInv, [Next]_vars, NEW d \in Dirs,
           \/ \E named \in BOOLEAN : CreateDirectory(d, named)
           \/ RenameDirectory(d) \/ DeleteDirectory(d) \/ SweepDirectory(d)
    PROVE  Shelves
<1>1. CASE \E named \in BOOLEAN : CreateDirectory(d, named)
  BY <1>1, DirectoryOpened DEF CreateDirectory, Shelves
<1>2. CASE RenameDirectory(d)
  BY <1>2, SameShelf DEF RenameDirectory, Shelves
<1>3. CASE DeleteDirectory(d) \/ SweepDirectory(d)
  BY <1>3, DirectoryRemoved DEF DeleteDirectory, SweepDirectory, Live, Shelves
<1> QED
  BY <1>1, <1>2, <1>3

LEMMA RequestsShelf ==
    ASSUME FilesInv, [Next]_vars, NEW c \in Procs, Request(c)
    PROVE  Shelves
<1>1. ASSUME NEW f \in Files, DeleteRow(c, f)
      PROVE  Shelves
  <2>1. row[f] # None /\ UNCHANGED <<dir, issued>> /\ (row' = row \/ row' = Doomed(f))
    BY <1>1 DEF DeleteRow
  <2> QED
    BY <2>1, SameShelf, RowWritten DEF Doomed, Shelves
<1>2. ASSUME NEW d \in Dirs, UploadBegin(c, d) \/ MarkBegin(c, d) \/ \E f \in Files : MoveCheck(c, f, d)
      PROVE  Shelves
  BY <1>2, SameShelf DEF UploadBegin, MarkBegin, MoveCheck, store, Shelves
<1> QED
  BY <1>1, <1>2 DEF Request

LEMMA ProceedsShelf ==
    ASSUME FilesInv, [Next]_vars, NEW p \in Procs, Proceed(p)
    PROVE  Shelves
<1>0. TypeOK /\ RowsInv /\ HandInv
  BY DEF FilesInv
<1>1. ASSUME NEW f \in Files, NEW named \in BOOLEAN, UploadCreate(p, f, named)
      PROVE  Shelves
  <2> DEFINE r == [status |-> "pending", dir |-> at[p], named |-> named, version |-> 1]
  <2>1. r \in Rows
    BY <1>1 DEF UploadCreate, Live, Rows, Statuses, Versions
  <2>2. /\ row[f] = None /\ row' = [row EXCEPT ![f] = r]
        /\ issued' = issued \cup {f} /\ dir' = dir
    BY <1>0, <1>1 DEF UploadCreate, RowsInv
  <2> HIDE DEF r
  <2> QED
    BY <2>1, <2>2, RowBegun
<1>2. CASE Complete(p) \/ Abandon(p) \/ PurgeRow(p) \/ \E named \in BOOLEAN : MoveCommit(p, named)
  <2> PICK f : f = file[p]
    OBVIOUS
  <2>1. f \in Files /\ UNCHANGED <<dir, issued>>
    BY <1>0, <1>2
       DEF TypeOK, HandInv, Hand, Writing, Complete, Abandon, PurgeRow, MoveCommit
  <2>2. CASE Complete(p)
    <3>1. row[f] # None /\ \E s : row' = [row EXCEPT ![f].status = s, ![f].version = @ + 1]
      BY <2>2 DEF Complete, Is
    <3> QED
      BY <2>1, <3>1, RowWritten
  <2>3. CASE Abandon(p)
    <3>1. row' = row \/ (row[f] # None /\ row' = Doomed(f))
      BY <2>3 DEF Abandon, Is
    <3> QED
      BY <2>1, <3>1, SameShelf, RowWritten DEF Doomed, Shelves
  <2>4. CASE PurgeRow(p)
    <3>1. row' = row \/ (row[f] # None /\ row' = [row EXCEPT ![f] = None])
      BY <2>4 DEF PurgeRow, Is
    <3> QED
      BY <2>1, <3>1, SameShelf, RowWritten DEF Shelves
  <2>5. CASE \E named \in BOOLEAN : MoveCommit(p, named)
    <3> PICK named \in BOOLEAN : MoveCommit(p, named)
      BY <2>5
    <3> PICK d : d = at[p]
      OBVIOUS
    <3>1. /\ row[f] # None
          /\ row' = [row EXCEPT ![f].dir = d, ![f].named = named, ![f].version = @ + 1]
      BY DEF MoveCommit
    <3> QED
      BY <2>1, <3>1, RowWritten
  <2> QED
    BY <1>2, <2>2, <2>3, <2>4, <2>5
<1>3. CASE MarkCommit(p)
  BY <1>3, DirectoryClosed DEF Shelves
<1>4. CASE \/ Put(p) \/ PutFails(p) \/ CompleteFails(p) \/ CompleteRefused(p)
           \/ Unput(p) \/ PurgeObject(p) \/ Refused(p)
  <2>1. UNCHANGED <<dir, row, issued>>
    BY <1>4 DEF Put, PutFails, CompleteFails, CompleteRefused, Unput, PurgeObject, Refused, store
  <2> QED
    BY <2>1, SameShelf DEF Shelves
<1> QED
  BY <1>1, <1>2, <1>3, <1>4 DEF Proceed

LEMMA SeedsShelf ==
    ASSUME FilesInv, [Next]_vars, NEW s \in Seeders, SeedBegin(s) \/ SeedStep(s)
    PROVE  Shelves
<1>1. CASE SeedInsert(s)
  BY <1>1, DirectoryOpened DEF SeedInsert, Shelves
<1>2. CASE SeedEnsureFile(s)
  <2> DEFINE r == [status |-> "pending", dir |-> at[s], named |-> TRUE, version |-> 1]
  <2>1. dir' = dir
    BY <1>2 DEF SeedEnsureFile
  <2>2. CASE UNCHANGED <<row, issued>>
    BY <2>1, <2>2, SameShelf DEF Shelves
  <2>3. CASE ~UNCHANGED <<row, issued>>
    <3>1. issued' = issued \cup {SeedFile} /\ (row' = row \/ row[SeedFile] = None)
      BY <1>2, <2>3 DEF SeedEnsureFile
    <3>2. row[SeedFile] = None
      BY <2>3, <3>1 DEF FilesInv, RowsInv
    <3>3. at[s] \in Live /\ row' = [row EXCEPT ![SeedFile] = r]
      BY <1>2, <2>3, <3>2 DEF SeedEnsureFile
    <3>4. r \in Rows
      BY <3>3 DEF Live, Rows, Statuses, Versions
    <3> HIDE DEF r
    <3> QED
      BY <2>1, <3>1, <3>2, <3>3, <3>4, RowBegun
  <2> QED
    BY <2>2, <2>3
<1>3. CASE SeedBegin(s) \/ SeedFind(s) \/ SeedInsertRefused(s)
  BY <1>3, SameShelf DEF SeedBegin, SeedFind, SeedInsertRefused, store, Shelves
<1>4. CASE Proceed(s)
  BY <1>4, ProceedsShelf
<1> QED
  BY <1>1, <1>2, <1>3, <1>4 DEF SeedStep

LEMMA StepsShelf ==
    ASSUME FilesInv, [Next]_vars
    PROVE  Shelves
<1>1. ASSUME NEW f \in Files, SweepStale(f) \/ SweepFile(f)
      PROVE  Shelves
  <2>1. row[f] # None /\ UNCHANGED <<dir, issued>>
    BY <1>1 DEF SweepStale, SweepFile, Is
  <2>2. row' = row \/ row' = Doomed(f) \/ row' = [row EXCEPT ![f] = None]
    BY <1>1 DEF SweepStale, SweepFile
  <2> QED
    BY <2>1, <2>2, SameShelf, RowWritten DEF Doomed, Shelves
<1>2. CASE UNCHANGED vars \/ \E p \in Procs : Stop(p)
  BY <1>2, SameShelf DEF vars, Stop, store, Shelves
<1>3. ASSUME NEW c \in Clients, Request(c) \/ Proceed(c)
      PROVE  Shelves
  BY <1>3, RequestsShelf, ProceedsShelf
<1>4. ASSUME NEW s \in Seeders, SeedBegin(s) \/ SeedStep(s)
      PROVE  Shelves
  BY <1>4, SeedsShelf
<1> QED
  BY <1>1, <1>2, <1>3, <1>4, DirectoriesShelf DEF Next

LEMMA ShelfStarts == Init => Shelf!ShelfInit
<1> SUFFICES ASSUME Init
             PROVE  Shelf!ShelfInit
  OBVIOUS
<1>1. \A f \in Files : row[f] = None /\ told[f] = None
  BY DEF Init
<1>2. /\ Drafts = [f \in Files |-> None] /\ Shelved = [f \in Files |-> None]
      /\ Copies = [f \in Files |-> None]
  BY <1>1 DEF Drafts, Shelved, Copies, Is
<1> QED
  BY <1>2 DEF Init, Shelf!ShelfInit

(* Uploads, moves, deletes, recursive deletes, seeds and the sweep, with   *)
(* their objects, locks and statements, do nothing that the abstract shelf *)
(* does not: a commit is one of its actions, told as that action says, and *)
(* every other step, a clean-up's above all, is none.                      *)
THEOREM FilesImplement == Spec => ImplementsShelf
<1>1. FilesInv /\ [Next]_vars => [Shelf!ShelfNext]_(Shelf!shelfVars)
  BY StepsShelf DEF Shelves
<1> QED
  BY <1>1, ShelfStarts, FilesInvariant, PTL
  DEF Spec, ImplementsShelf, Shelf!ShelfSpec
=============================================================================
