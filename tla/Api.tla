---------------------------------- MODULE Api ----------------------------------
(***************************************************************************)
(* What the service answers one request at a time, as a client sees it:    *)
(* each route's refusals in the order the code comes to them, its status,  *)
(* the rows it leaves and the events it commits.  The modules beside this  *)
(* one take each request apart into its statements and interleave them;    *)
(* here a request is one step, so that whole sequences of them, and what   *)
(* an earlier one left behind, can be looked at.                           *)
(*                                                                         *)
(* rows is a function from ids to rows.  An id is a tuple: <<n, "name">>,  *)
(* n telling the runs that minted it apart, or three elements long for a   *)
(* document root and a logo, of which an organization has one at most.  A  *)
(* seeded logo's name stands for its fixed id, and its version is the tag  *)
(* of its bytes.                                                           *)
(***************************************************************************)
EXTENDS Integers, Sequences, FiniteSets, TLC

CONSTANTS
    None,
    Alias,      \* "root" where a directory's id is expected
    Bad,        \* an id, query or If-Match that does not parse
    SeedOrgs,   \* the state's organizations by path, parents first
    SeedTree    \* its document entries: id, kind and path, parents first

LOCAL INSTANCE SequencesExt

Kinds == {"org", "dir", "file", "logo"}

Row(kind, org, parent, name, title) ==
    [kind |-> kind, org |-> org, parent |-> parent, name |-> name,
     title |-> title, version |-> 1, marked |-> FALSE]

Of(rows, kind) == {i \in DOMAIN rows : rows[i].kind = kind}
RootOf(org)    == <<org[1], "/", org[2]>>
LogoOf(org)    == <<org[1], "logo", org[2]>>

RECURSIVE Above(_, _), Path(_, _)
Above(rows, i) ==
    IF i \in DOMAIN rows THEN {i} \cup Above(rows, rows[i].parent) ELSE {}
Below(rows, i) == {j \in DOMAIN rows : i \in Above(rows, j)}

Path(rows, i) ==
    IF i \in DOMAIN rows THEN Append(Path(rows, rows[i].parent), rows[i].name)
    ELSE <<>>

(* Find by path; and the name a parent's children share a namespace under. *)
OrgAt(rows, path) == {i \in Of(rows, "org") : Path(rows, i) = path}
Named(rows, kind, parent, name) ==
    {i \in Of(rows, kind) : rows[i].parent = parent /\ rows[i].name = name}

(* A listing hides what is being deleted.                                  *)
Listed(rows, dir) ==
    {i \in Of(rows, "dir") \cup Of(rows, "file") :
        rows[i].parent = dir /\ ~rows[i].marked}

-----------------------------------------------------------------------------
(* A request.  ifMatch is a version, Bad, or None where none is sent;      *)
(* unless the tag of an If-None-Match.                                     *)

Blank == [id |-> None, org |-> None, path |-> "ok", ifMatch |-> None,
          unless |-> None, body |-> "ok", fresh |-> None, parent |-> None,
          name |-> "", title |-> ""]

Guarded(q) == \/ q.verb \in {"edit", "move", "branch"}
              \/ q.verb = "delete" /\ q.kind # "logo"

Resolve(id, org) == IF id = Alias THEN RootOf(org) ELSE id
Target(q) == IF q.kind = "logo" THEN LogoOf(q.org) ELSE Resolve(q.id, q.org)
Parent(q) == Resolve(q.parent, q.org)

(* The routes.                                                             *)
Req(verb, kind, fields) == [verb |-> verb, kind |-> kind] @@ fields @@ Blank

CreateDirectoryReq(org, parent, name, fresh) ==
    Req("create", "dir", [org |-> org, parent |-> parent, name |-> name, fresh |-> fresh])
DirectoryReq(org, id)       == Req("read", "dir", [org |-> org, id |-> id])
ListDirectoriesReq(org, id) == Req("list", "dir", [org |-> org, id |-> id])
ListFilesReq(org, id)       == Req("list", "file", [org |-> org, id |-> id])
DeleteDirectoryReq(org, id, version, recursive) ==
    Req(IF recursive THEN "branch" ELSE "delete", "dir",
        [org |-> org, id |-> id, ifMatch |-> version])
MoveDirectoryReq(org, id, version, parent, name) ==
    Req("move", "dir", [org |-> org, id |-> id, ifMatch |-> version,
                        parent |-> parent, name |-> name])
UploadFileReq(org, dir, name, fresh) ==
    Req("create", "file", [org |-> org, parent |-> dir, name |-> name, fresh |-> fresh])
FileReq(org, id) == Req("read", "file", [org |-> org, id |-> id])
DeleteFileReq(org, id, version) ==
    Req("delete", "file", [org |-> org, id |-> id, ifMatch |-> version])
MoveFileReq(org, id, version, dir, name) ==
    Req("move", "file", [org |-> org, id |-> id, ifMatch |-> version,
                         parent |-> dir, name |-> name])

ListReq         == Req("list", "org", <<>>)
FindReq(id)     == Req("read", "org", [id |-> id])
LookupReq(path) == Req("lookup", "org", [name |-> path])
CreateReq(parent, code, fresh) ==
    Req("create", "org", [parent |-> parent, name |-> code, fresh |-> fresh])
EditReq(id, version, code, name) ==
    Req("edit", "org", [id |-> id, ifMatch |-> version, name |-> code, title |-> name])
TransferReq(id, version, parent) ==
    Req("move", "org", [id |-> id, ifMatch |-> version, parent |-> parent])
DeleteReq(id, version) == Req("delete", "org", [id |-> id, ifMatch |-> version])
PutLogoReq(org, bytes) == Req("put", "logo", [org |-> org, title |-> bytes])
LogoReq(org, tag)      == Req("read", "logo", [org |-> org, unless |-> tag])
DeleteLogoReq(org)     == Req("delete", "logo", [org |-> org])

-----------------------------------------------------------------------------
(* The hierarchy a route's ids must lie in: an id outside the addressed    *)
(* organization's root is not found, nor is any before there is one, but   *)
(* for the root alias, which a write ensures and a listing reads as empty. *)
Within(rows, q, i) == RootOf(q.org) \in Above(rows, i)

ListScoped(rows, q) ==
    IF q.id = Alias
    THEN /\ q.org \in Of(rows, "org")
         /\ RootOf(q.org) \in DOMAIN rows => ~rows[RootOf(q.org)].marked
    ELSE Within(rows, q, q.id) /\ ~rows[q.id].marked

Scoped(rows, q) ==
    CASE q.verb = "create" ->
            IF q.parent = Alias THEN q.org \in Of(rows, "org")
            ELSE Within(rows, q, q.parent)
      [] q.verb = "list" -> ListScoped(rows, q)
      [] q.verb = "move" ->
            Within(rows, q, Target(q)) /\ Within(rows, q, Parent(q))
      [] OTHER -> Target(q) \in Of(rows, q.kind) /\ Within(rows, q, Target(q))

Found(rows, q) ==
    CASE q.kind = "org" /\ q.verb = "lookup" -> OrgAt(rows, q.name) # {}
      [] q.kind = "org" -> q.verb \in {"create", "list"} \/ q.id \in Of(rows, "org")
      [] q.kind = "logo" /\ q.verb = "put" -> q.org \in Of(rows, "org")
      [] q.kind = "logo" -> LogoOf(q.org) \in DOMAIN rows
      [] OTHER -> Scoped(rows, q)

(* A branch marked already, a file deleting already: the delete's retry,   *)
(* which converges at any version and says nothing again.                  *)
Retried(rows, q) ==
    /\ <<q.verb, q.kind>> \in {<<"branch", "dir">>, <<"delete", "file">>}
    /\ rows[Target(q)].marked

(* A guarded statement matches no row at the version named.                *)
Stale(rows, q) ==
    /\ Guarded(q)
    /\ Target(q) \in DOMAIN rows
    /\ rows[Target(q)].version # q.ifMatch
    /\ ~Retried(rows, q)

RootMoved(q) == q.kind = "dir" /\ q.verb = "move" /\ Target(q) = RootOf(q.org)

(* A transfer looks for a cycle before its guarded update.                 *)
Cycle(rows, q) ==
    q.kind = "org" /\ q.verb = "move" /\ q.id \in Above(rows, q.parent)

Placed(q)  == q.verb \in {"create", "edit", "move"}
NewParent(rows, q) == IF q.verb = "edit" THEN rows[q.id].parent ELSE Parent(q)
NewName(rows, q)   == IF q.kind = "org" /\ q.verb = "move" THEN rows[q.id].name ELSE q.name

(* What refuses a request whose rows are there, at the version it names:   *)
(* the details of the 409s.                                                *)
Clashes(rows, q) ==
    Placed(q) /\ Named(rows, q.kind, NewParent(rows, q), NewName(rows, q))
                    \ {Target(q)} # {}
Absent(rows, q)   == Placed(q) /\ q.kind = "org"
                     /\ NewParent(rows, q) \notin Of(rows, "org") \cup {None}
Held(rows, q)     == q.verb = "delete" /\ q.kind = "org"
                     /\ \E i \in DOMAIN rows : q.id \in {rows[i].parent, rows[i].org}
(* Mutation: a directory goes with rows still in it.                       *)
NotEmptyUnchecked(rows, q) == FALSE
NotEmpty(rows, q) == q.verb = "delete" /\ q.kind = "dir"
                     /\ \E i \in DOMAIN rows : rows[i].parent = Target(q)
Reaches(rows, q)  ==
    /\ Placed(q) /\ q.kind \in {"dir", "file"}
    /\ \E i \in {Target(q), Parent(q)} \cap DOMAIN rows : rows[i].marked
Knots(rows, q)    == q.kind = "dir" /\ q.verb = "move"
                     /\ Target(q) \in Above(rows, Parent(q))

Detail(rows, q) ==
    CASE Absent(rows, q) \/ Held(rows, q) \/ Cycle(rows, q) -> "conflict"
      [] Reaches(rows, q) -> "deleting"
      [] Knots(rows, q) -> "conflict"
      [] Clashes(rows, q) -> IF q.kind = "org" THEN "conflict" ELSE "taken"
      [] NotEmpty(rows, q) -> "not empty"
      [] OTHER -> None

-----------------------------------------------------------------------------
(* The answer.                                                             *)

Accepted(rows, q) ==
    CASE q.verb \in {"create", "put"} -> 201
      [] q.verb = "branch" -> 202
      [] q.verb = "delete" -> 204
      [] q.verb = "read" /\ q.kind = "logo" ->
            IF q.unless = rows[LogoOf(q.org)].version THEN 304 ELSE 200
      [] OTHER -> 200

BodyStatus(q) == IF q.body = "oversized" THEN 413 ELSE 400

Status(rows, q) ==
    CASE q.path = Bad                       -> 400
      [] Guarded(q) /\ q.ifMatch = None     -> 428
      [] Guarded(q) /\ q.ifMatch = Bad      -> 400
      [] q.body # "ok"                      -> BodyStatus(q)
      [] RootMoved(q) /\ q.id = Alias        -> 400
      [] OTHER ->
            IF ~Found(rows, q) THEN 404
            ELSE IF RootMoved(q) THEN 400
            ELSE IF Cycle(rows, q) THEN 409
            ELSE IF Stale(rows, q) THEN 412
            ELSE IF Detail(rows, q) # None THEN 409
            ELSE Accepted(rows, q)

Succeeds(rows, q) == Status(rows, q) \in 200..299

(* ensureRoot: the first document write under the alias writes the root.   *)
Ensures(rows, q) ==
    q.verb = "create" /\ q.parent = Alias /\ RootOf(q.org) \notin DOMAIN rows
RootRow(q) == RootOf(q.org) :> Row("dir", q.org, None, "/", "")

Placing(rows, q) ==
    Row(q.kind, IF q.kind = "org" THEN None ELSE q.org, Parent(q), q.name, q.title)

Put(rows, q) ==
    LET i == LogoOf(q.org)
        new == Row("logo", q.org, None, "", q.title)
    IN  (i :> IF i \in DOMAIN rows THEN [new EXCEPT !.version = rows[i].version + 1]
              ELSE new) @@ rows

Without(rows, ids) == [i \in DOMAIN rows \ ids |-> rows[i]]

Marked(rows, top) ==
    [i \in DOMAIN rows |->
        IF top \in Above(rows, i) /\ ~rows[i].marked
        THEN [rows[i] EXCEPT !.marked = TRUE, !.version = @ + 1] ELSE rows[i]]

After(rows, q) ==
    IF ~Succeeds(rows, q) THEN rows
    ELSE CASE q.verb = "create" ->
                (q.fresh :> Placing(rows, q))
                    @@ (IF Ensures(rows, q) THEN RootRow(q) @@ rows ELSE rows)
           [] q.verb \in {"edit", "move"} ->
                [rows EXCEPT ![Target(q)] =
                    [@ EXCEPT !.parent = NewParent(rows, q), !.name = NewName(rows, q),
                              !.title = IF q.verb = "edit" THEN q.title ELSE @,
                              !.version = @ + 1]]
           [] q.verb = "put"    -> Put(rows, q)
           [] q.verb = "delete" -> Without(rows, {Target(q)})
           [] q.verb = "branch" -> Marked(rows, Target(q))
           [] OTHER             -> rows

(* Mutation: replacing a logo tells of the end of the one it replaces.     *)
OwnBoth(rows, q) ==
    (IF q.verb = "put" /\ LogoOf(q.org) \in DOMAIN rows
     THEN << <<"logo", "delete">> >> ELSE <<>>) \o << <<q.kind, q.verb>> >>

Own(rows, q) ==
    CASE q.verb \in {"read", "list", "lookup"} -> <<>>
      [] Retried(rows, q) -> <<>>
      [] q.verb = "branch" -> << <<"dir", "delete">> >>
      [] OTHER -> << <<q.kind, q.verb>> >>

(* The events committed with it.  A logo's replacement says nothing of the *)
(* logo replaced, a branch's mark nothing of what is beneath.              *)
Told(rows, q) ==
    IF ~Succeeds(rows, q) THEN <<>>
    ELSE (IF Ensures(rows, q) THEN << <<"dir", "create">> >> ELSE <<>>) \o Own(rows, q)

-----------------------------------------------------------------------------
(* The seeder: organizations by parent and code, logos by organization,    *)
(* then the documents, each entry by parent and name or under its fixed    *)
(* id.  What is there stays as it is.                                      *)

SeedRow(rows, i, row) == rows @@ (i :> row)

SeedOrg(rows, path) ==
    IF OrgAt(rows, path) # {} THEN rows
    ELSE LET up == OrgAt(rows, Front(path))
             parent == IF up = {} THEN None ELSE CHOOSE i \in up : TRUE
             n == CHOOSE k \in 0 .. Cardinality(DOMAIN rows) :
                    <<k, Last(path)>> \notin DOMAIN rows
         IN  SeedRow(rows, <<n, Last(path)>>, Row("org", None, parent, Last(path), ""))

SeedLogo(rows, path) ==
    LET org == CHOOSE i \in OrgAt(rows, path) : TRUE
    IN  IF Named(rows, "logo", None, Last(path)) # {} THEN rows
        ELSE SeedRow(rows, LogoOf(org), Row("logo", org, None, Last(path), Last(path)))

(* An entry whose parent was left, whose id another row holds, or that a   *)
(* mark has reached is left, and so is what the state has beneath it.      *)
SeedEntry(org, done, e) ==
    LET rows   == done.rows
        parent == IF Len(e.path) = 1 THEN RootOf(org) ELSE done.at[Front(e.path)]
        there  == Named(rows, e.kind, parent, Last(e.path))
        left   == \/ parent = None
                  \/ parent # None /\ rows[parent].marked
                  \/ \E i \in there : rows[i].marked
                  \/ there = {} /\ e.id \in DOMAIN rows
        at     == IF left THEN None
                  ELSE IF there = {} THEN e.id ELSE CHOOSE i \in there : TRUE
    IN  [at |-> (e.path :> at) @@ done.at,
         rows |-> IF left THEN rows
                  ELSE SeedRow(rows, at, Row(e.kind, org, parent, Last(e.path), ""))]

Seed(rows) ==
    LET orgs  == FoldLeft(SeedOrg, rows, SeedOrgs)
        logos == FoldLeft(SeedLogo, orgs, SeedOrgs)
        org   == CHOOSE i \in OrgAt(orgs, SeedOrgs[1]) : TRUE
        root  == SeedRow(logos, RootOf(org), Row("dir", org, None, "/", ""))
    IN  FoldLeft(LAMBDA done, e : SeedEntry(org, done, e),
                 [rows |-> root, at |-> <<>>], SeedTree).rows

Empty == [i \in {} |-> None]
Default == Seed(Empty)

(* What a seed counts: what it wrote, the roots not among it.              *)
Counts(was, rows) ==
    LET new == DOMAIN rows \ DOMAIN was
    IN  [organizations |-> Cardinality({i \in new : rows[i].kind = "org"}),
         logos         |-> Cardinality({i \in new : rows[i].kind = "logo"}),
         documents     |-> Cardinality({i \in new : rows[i].kind \in {"dir", "file"}
                                                    /\ rows[i].parent # None})]
================================================================================
