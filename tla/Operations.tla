------------------------------ MODULE Operations ------------------------------
(***************************************************************************)
(* One service process over its database, from start to drain: the quiesce *)
(* gate, the verbs that hold it while they change the schema, the sweep's  *)
(* passes and the relay's rows that share it, the seed that does neither,  *)
(* and the consumer the relay publishes to.  The process may stop at any   *)
(* step; the tables, the outbox and the stream stay.                       *)
(*                                                                         *)
(* The gate is the process's own: a second replica's sweep is not held by  *)
(* it (admin/database/handler.go, RouteGroup), and is not modelled.        *)
(***************************************************************************)
EXTENDS Naturals, Sequences

CONSTANTS
    SeedRow,     \* the rows the state names, stored in one transaction
    SeedFiles,   \* its files, a sequence, stored one by one after
    Branches,    \* directories the clients create and mark
    Admins,      \* slots for the verbs that hold the gate
    MaxWrites,   \* bound: client commands
    MaxVerbs,    \* bound: verbs
    MaxTrouble,  \* bound: stops, drains, failures of a pass or a verb
    None

Files    == {SeedFiles[i] : i \in DOMAIN SeedFiles}
Entities == {SeedRow} \cup Files \cup Branches
Seeds    == {"start", "reset", "verb"}
Sets     == {"service", "messaging"}     \* the migration sets that hold rows
Kinds    == {"up", "down", "state"}
Stages   == {"waiting", "held", "reverted", "applied", "told"}

ASSUME OperationsAssumption ==
    /\ SeedFiles \in Seq(Files)
    /\ SeedRow \notin Files \cup Branches /\ Files \cap Branches = {}
    /\ None \notin 0..Len(SeedFiles)
    /\ None \notin [kind : Kinds, stage : Stages]
    /\ MaxWrites \in Nat /\ MaxVerbs \in Nat /\ MaxTrouble \in Nat

Reset    == [kind |-> "reset"]
Made(e)  == [kind |-> "made", entity |-> e]
Gone(e)  == [kind |-> "gone", entity |-> e]
Events   == {Reset} \cup {Made(e) : e \in Entities} \cup {Gone(e) : e \in Entities}

VARIABLES
    schema,    \* the migration sets that are applied
    store,     \* each entity: "absent", "live" or "marked"
    outbox,    \* the rows not yet recorded as published
    copy,      \* what a consumer of the stream holds
    behind,    \* rows were dropped, or missed, of which no event will tell
    proc,      \* "down", "starting", "serving", "draining" or "drained"
    clean,     \* the process drains, and nothing has cut its drain short
    client,    \* a command in flight: "none", "begun" or "marked"
    verb,      \* each gated verb's kind and stage, or None
    seed,      \* each seed run: None, 0 before its rows, i before file i
    pass,      \* the sweep: "idle", "running", or "worked" once it removed something
    due,       \* the files reclaimer is due
    relay,     \* "idle", "row", "sent" or "closed"
    writes, verbs, trouble

database == <<schema, store, outbox, behind>>
memory   == <<proc, clean, client, verb, seed, pass, due, relay>>
counts   == <<writes, verbs, trouble>>
vars     == <<database, copy, memory, counts>>

TypeOK ==
    /\ schema \subseteq Sets
    /\ store \in [Entities -> {"absent", "live", "marked"}]
    /\ outbox \in Seq(Events)
    /\ copy \subseteq Entities /\ behind \in BOOLEAN
    /\ proc \in {"down", "starting", "serving", "draining", "drained"}
    /\ clean \in BOOLEAN /\ client \in {"none", "begun", "marked"}
    /\ verb \in [Admins -> [kind : Kinds, stage : Stages] \cup {None}]
    /\ seed \in [Seeds -> 0..Len(SeedFiles) \cup {None}]
    /\ pass \in {"idle", "running", "worked"} /\ due \in BOOLEAN
    /\ relay \in {"idle", "row", "sent", "closed"}
    /\ writes \in 0..MaxWrites /\ verbs \in 0..MaxVerbs /\ trouble \in 0..MaxTrouble

Init ==
    /\ schema = {} /\ store = [e \in Entities |-> "absent"]
    /\ outbox = <<>> /\ copy = {} /\ behind = FALSE
    /\ proc = "down" /\ clean = FALSE /\ client = "none"
    /\ verb = [a \in Admins |-> None] /\ seed = [s \in Seeds |-> None]
    /\ pass = "idle" /\ due = FALSE /\ relay = "idle"
    /\ writes = 0 /\ verbs = 0 /\ trouble = 0

Live     == {e \in Entities : store[e] = "live"}
Empty    == [e \in Entities |-> "absent"]
At(a, s) == verb[a] # None /\ verb[a].stage = s
Holds(a) == verb[a] # None /\ verb[a].stage # "waiting"

Trouble  == trouble < MaxTrouble /\ trouble' = trouble + 1

(* A consumer drops all it holds on a reset.                               *)
Heard(held, event) ==
    CASE event.kind = "reset" -> {}
      [] event.kind = "made"  -> held \cup {event.entity}
      [] event.kind = "gone"  -> held \ {event.entity}

-----------------------------------------------------------------------------
(* The process.                                                            *)

(* The schema's node starts first: it corrects the schema and seeds.       *)
Start ==
    /\ proc = "down"
    /\ proc' = "starting" /\ clean' = FALSE
    /\ schema' = Sets
    /\ seed' = [seed EXCEPT !["start"] = 0]
    /\ UNCHANGED <<store, outbox, behind, copy, client, verb, pass, due, relay, counts>>

(* The sweeper and the relay, which order themselves after the schema,     *)
(* then the server after both; every reclaimer is due.                     *)
Serve ==
    /\ proc = "starting" /\ seed["start"] = None
    /\ proc' = "serving" /\ due' = TRUE
    /\ UNCHANGED <<database, copy, clean, client, verb, seed, pass, relay, counts>>

(* The process is killed, or its startup seed fails.                       *)
Stop ==
    /\ proc # "down" /\ Trouble
    /\ proc' = "down" /\ clean' = FALSE /\ client' = "none"
    /\ verb' = [a \in Admins |-> None] /\ seed' = [s \in Seeds |-> None]
    /\ pass' = "idle" /\ due' = FALSE /\ relay' = "idle"
    /\ UNCHANGED <<database, copy, writes, verbs>>

Drain ==
    /\ proc = "serving" /\ Trouble
    /\ proc' = "draining" /\ clean' = TRUE
    /\ UNCHANGED <<database, copy, client, verb, seed, pass, due, relay, writes, verbs>>

(* The server drains first: its requests, the admin verbs among them, end. *)
ServerDrained ==
    /\ proc = "draining"
    /\ client = "none" /\ seed["verb"] = None /\ \A a \in Admins : verb[a] = None
    /\ proc' = "drained"
    /\ UNCHANGED <<database, copy, clean, client, verb, seed, pass, due, relay, counts>>

(* Mutation: nothing orders the server after the relay.                    *)
RelayClosesAnywhere ==
    /\ proc \in {"draining", "drained"} /\ relay = "idle"
    /\ outbox = <<>> \/ "messaging" \notin schema
    /\ relay' = "closed"
    /\ UNCHANGED <<database, copy, proc, clean, client, verb, seed, pass, due, counts>>

(* The last pass ends once it finds nothing unpublished.                   *)
RelayCloses ==
    /\ proc = "drained" /\ relay = "idle"
    /\ outbox = <<>> \/ "messaging" \notin schema
    /\ relay' = "closed"
    /\ UNCHANGED <<database, copy, proc, clean, client, verb, seed, pass, due, counts>>

(* Its quarter of the shutdown timeout is over: the rest waits for a start. *)
RelayGivesUp ==
    /\ proc = "drained" /\ relay # "closed"
    /\ relay' = "closed" /\ clean' = FALSE
    /\ UNCHANGED <<database, copy, proc, client, verb, seed, pass, due, counts>>

Exit ==
    /\ proc = "drained" /\ relay = "closed" /\ pass = "idle"
    /\ proc' = "down" /\ due' = FALSE /\ relay' = "idle"
    /\ UNCHANGED <<database, copy, clean, client, verb, seed, pass, counts>>

-----------------------------------------------------------------------------
(* The clients: a command takes no gate, and its event commits with it.    *)

Begin ==
    /\ proc = "serving" /\ client = "none" /\ writes < MaxWrites
    /\ client' = "begun" /\ writes' = writes + 1
    /\ UNCHANGED <<database, copy, proc, clean, verb, seed, pass, due, relay, verbs, trouble>>

Create(b) ==
    /\ client = "begun" /\ schema = Sets /\ store[b] = "absent"
    /\ store' = [store EXCEPT ![b] = "live"]
    /\ outbox' = Append(outbox, Made(b))
    /\ client' = "none"
    /\ UNCHANGED <<schema, behind, copy, proc, clean, verb, seed, pass, due, relay, counts>>

Mark(b) ==
    /\ client = "begun" /\ schema = Sets /\ store[b] = "live"
    /\ store' = [store EXCEPT ![b] = "marked"]
    /\ outbox' = Append(outbox, Gone(b))
    /\ client' = "marked"
    /\ UNCHANGED <<schema, behind, copy, proc, clean, verb, seed, pass, due, relay, counts>>

Nudge ==
    /\ client = "marked"
    /\ due' = TRUE /\ client' = "none"
    /\ UNCHANGED <<database, copy, proc, clean, verb, seed, pass, relay, counts>>

Refused ==
    /\ client = "begun"
    /\ client' = "none"
    /\ UNCHANGED <<database, copy, proc, clean, verb, seed, pass, due, relay, counts>>

-----------------------------------------------------------------------------
(* The gate: shared by a pass and a relayed row, held alone by a verb.     *)

(* Mutations: a waiting verb does not keep the next pass out; a verb takes *)
(* the gate over a pass.                                                   *)
OpenToPasses == \A a \in Admins : ~Holds(a)

(* A verb that waits keeps new holders out.                                *)
Open == \A a \in Admins : verb[a] = None

AloneButPass(a) ==
    relay \in {"idle", "closed"} /\ \A o \in Admins \ {a} : ~Holds(o)

Alone(a) == pass = "idle" /\ relay \in {"idle", "closed"} /\ \A o \in Admins \ {a} : ~Holds(o)

Become(a, stage) == verb' = [verb EXCEPT ![a].stage = stage]
Release(a)       == verb' = [verb EXCEPT ![a] = None]

(* up, down (and steps), and state once it is confirmed.                   *)
Ask(a, kind) ==
    /\ proc = "serving" /\ verb[a] = None /\ verbs < MaxVerbs
    /\ verb' = [verb EXCEPT ![a] = [kind |-> kind, stage |-> "waiting"]]
    /\ verbs' = verbs + 1
    /\ UNCHANGED <<database, copy, proc, clean, client, seed, pass, due, relay, writes, trouble>>

Acquire(a) ==
    /\ At(a, "waiting") /\ Alone(a)
    /\ Become(a, "held")
    /\ UNCHANGED <<database, copy, proc, clean, client, seed, pass, due, relay, counts>>

(* The request ends before the gate is held: nothing runs.                 *)
GiveUp(a) ==
    /\ At(a, "waiting")
    /\ Release(a)
    /\ UNCHANGED <<database, copy, proc, clean, client, seed, pass, due, relay, counts>>

Up(a) ==
    /\ At(a, "held") /\ verb[a].kind = "up"
    /\ schema' = Sets
    /\ Release(a)
    /\ UNCHANGED <<store, outbox, behind, copy, proc, clean, client, seed, pass, due, relay, counts>>

(* A set's tables go, and no event tells.                                  *)
Down(a, set) ==
    /\ At(a, "held") /\ verb[a].kind = "down"
    /\ set \in schema
    /\ schema' = schema \ {set}
    /\ IF set = "service"
         THEN store' = Empty /\ behind' = (behind \/ Live # {}) /\ UNCHANGED outbox
         ELSE outbox' = <<>> /\ behind' = (behind \/ outbox # <<>>) /\ UNCHANGED store
    /\ Release(a)
    /\ UNCHANGED <<copy, proc, clean, client, seed, pass, due, relay, counts>>

(* The reset: revert, apply, StateReset, then the state's own seed.        *)
Revert(a) ==
    /\ At(a, "held") /\ verb[a].kind = "state"
    /\ schema' = {} /\ store' = Empty /\ outbox' = <<>> /\ behind' = TRUE
    /\ Become(a, "reverted")
    /\ UNCHANGED <<copy, proc, clean, client, seed, pass, due, relay, counts>>

Apply(a) ==
    /\ At(a, "reverted")
    /\ schema' = Sets
    /\ Become(a, "applied")
    /\ UNCHANGED <<store, outbox, behind, copy, proc, clean, client, seed, pass, due, relay, counts>>

(* Mutation: the hook is not wired.                                        *)
TellNothing(a) ==
    /\ At(a, "applied")
    /\ behind' = (Live # {})
    /\ seed' = [seed EXCEPT !["reset"] = 0]
    /\ Become(a, "told")
    /\ UNCHANGED <<schema, store, outbox, copy, proc, clean, client, pass, due, relay, counts>>

(* StateReset, in its own transaction.  What a request or an ungated seed  *)
(* stored since the apply was told before it, and a consumer drops it.     *)
Tell(a) ==
    /\ At(a, "applied")
    /\ outbox' = Append(outbox, Reset)
    /\ behind' = (Live # {})
    /\ seed' = [seed EXCEPT !["reset"] = 0]
    /\ Become(a, "told")
    /\ UNCHANGED <<schema, store, copy, proc, clean, client, pass, due, relay, counts>>

ResetEnds(a) ==
    /\ At(a, "told") /\ seed["reset"] = None
    /\ Release(a)
    /\ UNCHANGED <<database, copy, proc, clean, client, seed, pass, due, relay, counts>>

(* A stage's error ends the verb there, and the gate is released.          *)
VerbFails(a) ==
    /\ Holds(a) /\ verb[a].stage # "told"
    /\ Release(a)
    /\ UNCHANGED <<database, copy, proc, clean, client, seed, pass, due, relay, counts>>

-----------------------------------------------------------------------------
(* The seed: rows in one transaction, then each file; the verb's holds no  *)
(* gate.                                                                   *)

AskSeed ==
    /\ proc = "serving" /\ seed["verb"] = None /\ verbs < MaxVerbs
    /\ seed' = [seed EXCEPT !["verb"] = 0]
    /\ verbs' = verbs + 1
    /\ UNCHANGED <<database, copy, proc, clean, client, verb, pass, due, relay, writes, trouble>>

(* What the state names and is missing is stored and told.                 *)
Ensure(e) ==
    /\ schema = Sets
    /\ IF store[e] = "absent"
         THEN store' = [store EXCEPT ![e] = "live"] /\ outbox' = Append(outbox, Made(e))
         ELSE UNCHANGED <<store, outbox>>

(* Mutation: the step after the last file.                                 *)
AdvancePast(s) == seed' = [seed EXCEPT ![s] = @ + 1]

Advance(s) ==
    seed' = [seed EXCEPT ![s] = IF @ = Len(SeedFiles) THEN None ELSE @ + 1]

SeedRows(s) ==
    /\ seed[s] = 0
    /\ Ensure(SeedRow)
    /\ Advance(s)
    /\ UNCHANGED <<schema, behind, copy, proc, clean, client, verb, pass, due, relay, counts>>

(* A file's rows hang from the rows the transaction stored.                *)
SeedFile(s) ==
    /\ seed[s] # None /\ seed[s] > 0
    /\ store[SeedRow] = "live"
    /\ Ensure(SeedFiles[seed[s]])
    /\ Advance(s)
    /\ UNCHANGED <<schema, behind, copy, proc, clean, client, verb, pass, due, relay, counts>>

(* An error ends the seed: its counts so far beside it.  One at startup    *)
(* ends the process (Stop).                                                *)
SeedFails(s) ==
    /\ s # "start" /\ seed[s] # None
    /\ seed' = [seed EXCEPT ![s] = None]
    /\ UNCHANGED <<database, copy, proc, clean, client, verb, pass, due, relay, counts>>

-----------------------------------------------------------------------------
(* The sweep of the files reclaimer.                                       *)

Running == proc \in {"serving", "draining"}

(* Mutation: the reclaimer has no interval.                                *)
IntervalUnset == FALSE /\ UNCHANGED vars

(* The backstop for a nudge that never came.                               *)
Interval ==
    /\ proc = "serving" /\ pass = "idle" /\ ~due
    /\ due' = TRUE
    /\ UNCHANGED <<database, copy, proc, clean, client, verb, seed, pass, relay, counts>>

PassBegin ==
    /\ Running /\ due /\ pass = "idle" /\ Open
    /\ pass' = "running" /\ due' = FALSE
    /\ UNCHANGED <<database, copy, proc, clean, client, verb, seed, relay, counts>>

PassRemove(b) ==
    /\ pass # "idle" /\ store[b] = "marked"
    /\ store' = [store EXCEPT ![b] = "absent"]
    /\ pass' = "worked"
    /\ UNCHANGED <<schema, outbox, behind, copy, proc, clean, client, verb, seed, due, relay, counts>>

(* It found no more, it met its budget and the next pass is due at once,   *)
(* or it met a refusal, and what it left waits for a later one.            *)
PassEnd ==
    /\ pass # "idle"
    /\ pass' = "idle"
    /\ \/ (\A b \in Branches : store[b] # "marked") /\ UNCHANGED <<due, trouble>>
       \/ pass = "worked" /\ due' = TRUE /\ UNCHANGED trouble
       \/ Trouble /\ UNCHANGED due
    /\ UNCHANGED <<database, copy, proc, clean, client, verb, seed, relay, writes, verbs>>

-----------------------------------------------------------------------------
(* The relay: one row at a time, published and then recorded.              *)

RelayTake ==
    /\ proc \in {"serving", "draining", "drained"} /\ Open
    /\ relay = "idle" /\ "messaging" \in schema /\ outbox # <<>>
    /\ relay' = "row"
    /\ UNCHANGED <<database, copy, proc, clean, client, verb, seed, pass, due, counts>>

RelaySend ==
    /\ relay = "row"
    /\ copy' = Heard(copy, Head(outbox))
    /\ relay' = "sent"
    /\ UNCHANGED <<database, proc, clean, client, verb, seed, pass, due, counts>>

(* Mutation: a publish that failed is recorded all the same.               *)
RelayFailsRecorded ==
    /\ relay = "row"
    /\ copy' \in {copy, Heard(copy, Head(outbox))}
    /\ outbox' = Tail(outbox)
    /\ relay' = "idle"
    /\ UNCHANGED <<schema, store, behind, proc, clean, client, verb, seed, pass, due, counts>>

(* The broker is away, or took the event and its answer was lost.          *)
RelayFails ==
    /\ relay = "row"
    /\ copy' \in {copy, Heard(copy, Head(outbox))}
    /\ relay' = "idle"
    /\ UNCHANGED <<database, proc, clean, client, verb, seed, pass, due, counts>>

RelayRecord ==
    /\ relay = "sent"
    /\ outbox' = Tail(outbox)
    /\ relay' = "idle"
    /\ UNCHANGED <<schema, store, behind, copy, proc, clean, client, verb, seed, pass, due, counts>>

-----------------------------------------------------------------------------
VerbStep(a) ==
    \/ Acquire(a) \/ Up(a) \/ (\E set \in Sets : Down(a, set)) \/ Revert(a) \/ Apply(a)
    \/ Tell(a) \/ ResetEnds(a) \/ VerbFails(a)

SeedStep(s) == SeedRows(s) \/ SeedFile(s) \/ SeedFails(s)
Command     == (\E b \in Branches : Create(b) \/ Mark(b)) \/ Nudge \/ Refused
PassStep    == (\E b \in Branches : PassRemove(b)) \/ PassEnd
RelayStep   == RelaySend \/ RelayFails \/ RelayRecord
DrainStep   == ServerDrained \/ RelayCloses \/ RelayGivesUp \/ Exit

Next ==
    \/ Start \/ Serve \/ Stop \/ Drain \/ DrainStep
    \/ Begin \/ Command
    \/ \E a \in Admins : (\E kind \in Kinds : Ask(a, kind)) \/ GiveUp(a) \/ VerbStep(a)
    \/ AskSeed \/ \E s \in Seeds : SeedStep(s)
    \/ Interval \/ PassBegin \/ PassStep \/ RelayTake \/ RelayStep

Spec == Init /\ [][Next]_vars

(* The supervisor starts the process again, what is begun goes on, and the *)
(* drain's deadlines pass.                                                 *)
Fairness ==
    /\ WF_vars(Start) /\ WF_vars(Serve) /\ WF_vars(DrainStep)
    /\ WF_vars(Command) /\ WF_vars(Interval)
    /\ WF_vars(PassBegin) /\ WF_vars(PassStep) /\ WF_vars(RelayStep)
    /\ \A a \in Admins : WF_vars(VerbStep(a))
    /\ \A s \in Seeds : WF_vars(SeedStep(s))

FairSpec == Spec /\ Fairness

-----------------------------------------------------------------------------
(* Properties.                                                             *)

(* What the consumer will hold of e: what the last event still unrecorded  *)
(* about it says, or where there is none, what it holds.                   *)
Unheard(e) == {i \in DOMAIN outbox : outbox[i] \in {Reset, Made(e), Gone(e)}}
WillHold(e) ==
    IF Unheard(e) = {} THEN e \in copy
    ELSE \E i \in Unheard(e) : outbox[i] = Made(e) /\ \A j \in Unheard(e) : j <= i

(* Once what the outbox still holds is published, a consumer of the stream *)
(* holds what is stored: an event published twice, after a stop between    *)
(* the publish and its record, takes it nowhere back; a seed cut short and *)
(* run again tells each creation once; and a reset empties it before the   *)
(* seed's own creations.  Excepted is what no event tells (behind): a down *)
(* verb's rows, a reset stopped between its revert and its StateReset, and *)
(* what was stored between its apply and its StateReset.                   *)
ConsumerConverges == ~behind => \A e \in Entities : WillHold(e) <=> store[e] = "live"

(* The schema changes under no pass and no relayed row: neither meets a    *)
(* table reverted since it began.                                          *)
SchemaChangesAlone ==
    [][schema' # schema => pass = "idle" /\ relay \in {"idle", "closed"}]_vars

(* A drain nothing cut short leaves nothing for the next start to publish: *)
(* every producer is done before the relay's last pass.                    *)
DrainPublishesAll == proc = "down" /\ clean => outbox = <<>>

(* A verb that asks for the gate ends, however busy the sweep and the      *)
(* relay keep it.                                                          *)
VerbEnds == \A a \in Admins : verb[a] # None ~> verb[a] = None

(* A marked branch is swept in the end: its nudge may be lost with the     *)
(* process, and a pass may refuse it.                                      *)
MarksSwept == \A b \in Branches : store[b] = "marked" ~> store[b] # "marked"
=============================================================================
