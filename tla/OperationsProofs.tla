---------------------------- MODULE OperationsProofs ----------------------------
(***************************************************************************)
(* The process over its database, for any state file, branches and number  *)
(* of admin requests: types, the gate's exclusion, the drain's last        *)
(* publish, and that a consumer of the stream converges on what is stored. *)
(* None of them is inductive alone; Inv says who may be doing what at each *)
(* stage of the process's life, and SentInv what a published row leaves.   *)
(***************************************************************************)
EXTENDS Operations, SequenceTheorems, TLAPS

(* One verb holds the gate, over no pass and no relayed row, and a reset   *)
(* that has applied the schema still finds it whole.                       *)
GateInv ==
    /\ \A a \in Admins : Holds(a) => pass = "idle" /\ relay \in {"idle", "closed"}
    /\ \A a, o \in Admins : Holds(a) /\ Holds(o) => a = o
    /\ \A a \in Admins : At(a, "applied") => schema = Sets

(* What runs at each stage: only the startup seed before the server, and   *)
(* no producer once the server is drained.  A reset's seed has its verb.   *)
ProcInv ==
    /\ proc # "starting" => seed["start"] = None
    /\ proc \in {"down", "starting"} => pass = "idle" /\ relay = "idle"
    /\ proc \in {"down", "starting", "drained"} =>
          client = "none" /\ (\A a \in Admins : verb[a] = None) /\ seed["verb"] = None
    /\ seed["reset"] # None => \E a \in Admins : At(a, "told")
    /\ relay = "closed" => proc = "drained"

(* The outbox goes with its table, keeps the row the relay is at, and is   *)
(* empty once a drain left to itself has closed the relay.                 *)
OutboxInv ==
    /\ "messaging" \notin schema => outbox = <<>>
    /\ relay \in {"row", "sent"} => outbox # <<>>
    /\ clean => proc \in {"draining", "drained", "down"}
    /\ clean /\ (relay = "closed" \/ proc = "down") => outbox = <<>>

Inv == TypeOK /\ GateInv /\ ProcInv /\ OutboxInv

-----------------------------------------------------------------------------
LEMMA SeedPlaces == 0 \in 0..Len(SeedFiles) /\ Len(SeedFiles) \in Nat
BY OperationsAssumption, LenProperties

(* The row the relay is at.                                                *)
LEMMA HeardTyped ==
    ASSUME TypeOK, outbox # <<>>
    PROVE  Head(outbox) \in Events /\ Heard(copy, Head(outbox)) \subseteq Entities
<1>1. Head(outbox) \in Events
  BY HeadTailProperties DEF TypeOK
<1> QED
  BY <1>1 DEF TypeOK, Heard, Events, Reset, Made, Gone

(* A seed's insert, or its finding.                                        *)
LEMMA EnsureTyped ==
    ASSUME TypeOK, NEW e \in Entities, Ensure(e)
    PROVE  /\ store' \in [Entities -> {"absent", "live", "marked"}]
           /\ outbox' \in Seq(Events)
<1>1. Append(outbox, Made(e)) \in Seq(Events)
  BY AppendProperties DEF TypeOK, Events
<1>2. [store EXCEPT ![e] = "live"] \in [Entities -> {"absent", "live", "marked"}]
  BY DEF TypeOK
<1> QED
  BY <1>1, <1>2 DEF TypeOK, Ensure

(* A verb that goes on to its next stage.                                  *)
LEMMA StageTyped ==
    ASSUME TypeOK, NEW a \in Admins, verb[a] # None, NEW s \in Stages, Become(a, s)
    PROVE  /\ verb' \in [Admins -> [kind : Kinds, stage : Stages] \cup {None}]
           /\ verb'[a] # None /\ verb'[a].stage = s
<1>1. verb[a] \in [kind : Kinds, stage : Stages]
  BY DEF TypeOK
<1>2. [verb[a] EXCEPT !.stage = s] \in [kind : Kinds, stage : Stages]
  BY <1>1
<1>3. verb' = [verb EXCEPT ![a] = [verb[a] EXCEPT !.stage = s]]
  BY DEF Become
<1> HIDE DEF Kinds, Stages
<1> QED
  BY <1>1, <1>2, <1>3, OperationsAssumption DEF TypeOK

-----------------------------------------------------------------------------
(* Every step keeps the invariant.                                         *)
LEMMA InvStep == ASSUME Inv, [Next]_vars PROVE Inv'
<1> USE OperationsAssumption DEF Inv, GateInv, ProcInv, OutboxInv, database, memory, counts, Holds, At, Become
<1>1. ASSUME Start PROVE Inv'
  <2>1. TypeOK'
    BY <1>1, SeedPlaces DEF TypeOK, Start, Seeds, Sets
  <2>2. GateInv'
    BY <1>1 DEF TypeOK, Start
  <2>3. ProcInv'
    BY <1>1 DEF TypeOK, Start, Seeds
  <2>4. OutboxInv'
    BY <1>1 DEF TypeOK, Start, Seeds, Sets
  <2> QED BY <2>1, <2>2, <2>3, <2>4
<1>2. ASSUME Serve PROVE Inv'
  <2>1. TypeOK'
    BY <1>2 DEF TypeOK, Serve, Entities, Events, Made, Gone, Reset, Empty, Kinds, Stages, Seeds
  <2>2. GateInv'
    BY <1>2 DEF TypeOK, Serve
  <2>3. ProcInv'
    BY <1>2 DEF TypeOK, Serve, Seeds
  <2>4. OutboxInv'
    BY <1>2 DEF TypeOK, Serve, Seeds, Sets
  <2> QED BY <2>1, <2>2, <2>3, <2>4
<1>3. ASSUME Stop PROVE Inv'
  <2>1. TypeOK'
    <3>1. verb' \in [Admins -> [kind : Kinds, stage : Stages] \cup {None}]
      BY <1>3 DEF Stop
    <3>2. seed' \in [Seeds -> 0..Len(SeedFiles) \cup {None}]
      BY <1>3 DEF Stop
    <3>3. trouble' \in 0..MaxTrouble
      BY <1>3 DEF TypeOK, Stop, Trouble
    <3> QED BY <1>3, <3>1, <3>2, <3>3 DEF TypeOK, Stop
  <2>2. GateInv'
    BY <1>3 DEF TypeOK, Stop, Trouble
  <2>3. ProcInv'
    BY <1>3 DEF TypeOK, Stop, Trouble, Seeds
  <2>4. OutboxInv'
    BY <1>3 DEF TypeOK, Stop, Trouble, Seeds, Sets
  <2> QED BY <2>1, <2>2, <2>3, <2>4
<1>4. ASSUME Drain PROVE Inv'
  <2>1. TypeOK'
    BY <1>4 DEF TypeOK, Drain, Trouble, Entities, Events, Made, Gone, Reset, Empty, Kinds, Stages, Seeds
  <2>2. GateInv'
    BY <1>4 DEF TypeOK, Drain, Trouble
  <2>3. ProcInv'
    BY <1>4 DEF TypeOK, Drain, Trouble, Seeds
  <2>4. OutboxInv'
    BY <1>4 DEF TypeOK, Drain, Trouble, Seeds, Sets
  <2> QED BY <2>1, <2>2, <2>3, <2>4
<1>5. ASSUME ServerDrained PROVE Inv'
  <2>1. TypeOK'
    BY <1>5 DEF TypeOK, ServerDrained, Entities, Events, Made, Gone, Reset, Empty, Kinds, Stages, Seeds
  <2>2. GateInv'
    BY <1>5 DEF TypeOK, ServerDrained
  <2>3. ProcInv'
    BY <1>5 DEF TypeOK, ServerDrained, Seeds
  <2>4. OutboxInv'
    BY <1>5 DEF TypeOK, ServerDrained, Seeds, Sets
  <2> QED BY <2>1, <2>2, <2>3, <2>4
<1>6. ASSUME RelayCloses PROVE Inv'
  <2>1. TypeOK'
    BY <1>6 DEF TypeOK, RelayCloses, Entities, Events, Made, Gone, Reset, Empty, Kinds, Stages, Seeds
  <2>2. GateInv'
    BY <1>6 DEF TypeOK, RelayCloses
  <2>3. ProcInv'
    BY <1>6 DEF TypeOK, RelayCloses, Seeds
  <2>4. OutboxInv'
    BY <1>6 DEF TypeOK, RelayCloses, Seeds, Sets
  <2> QED BY <2>1, <2>2, <2>3, <2>4
<1>7. ASSUME RelayGivesUp PROVE Inv'
  <2>1. TypeOK'
    BY <1>7 DEF TypeOK, RelayGivesUp, Entities, Events, Made, Gone, Reset, Empty, Kinds, Stages, Seeds
  <2>2. GateInv'
    BY <1>7 DEF TypeOK, RelayGivesUp
  <2>3. ProcInv'
    BY <1>7 DEF TypeOK, RelayGivesUp, Seeds
  <2>4. OutboxInv'
    BY <1>7 DEF TypeOK, RelayGivesUp, Seeds, Sets
  <2> QED BY <2>1, <2>2, <2>3, <2>4
<1>8. ASSUME Exit PROVE Inv'
  <2>1. TypeOK'
    BY <1>8 DEF TypeOK, Exit, Entities, Events, Made, Gone, Reset, Empty, Kinds, Stages, Seeds
  <2>2. GateInv'
    BY <1>8 DEF TypeOK, Exit
  <2>3. ProcInv'
    BY <1>8 DEF TypeOK, Exit, Seeds
  <2>4. OutboxInv'
    BY <1>8 DEF TypeOK, Exit, Seeds, Sets
  <2> QED BY <2>1, <2>2, <2>3, <2>4
<1>9. ASSUME Begin PROVE Inv'
  <2>1. TypeOK'
    BY <1>9 DEF TypeOK, Begin, Entities, Events, Made, Gone, Reset, Empty, Kinds, Stages, Seeds
  <2>2. GateInv'
    BY <1>9 DEF TypeOK, Begin
  <2>3. ProcInv'
    BY <1>9 DEF TypeOK, Begin, Seeds
  <2>4. OutboxInv'
    BY <1>9 DEF TypeOK, Begin, Seeds, Sets
  <2> QED BY <2>1, <2>2, <2>3, <2>4
<1>10. ASSUME NEW b \in Branches, Create(b) PROVE Inv'
  <2>1. TypeOK'
    BY <1>10 DEF TypeOK, Create, Entities, Events, Made, Gone, Reset, Empty, Kinds, Stages, Seeds
  <2>2. GateInv'
    BY <1>10 DEF TypeOK, Create
  <2>3. ProcInv'
    BY <1>10 DEF TypeOK, Create, Seeds
  <2>4. OutboxInv'
    BY SMTT(30), <1>10 DEF TypeOK, Create, Seeds, Sets
  <2> QED BY <2>1, <2>2, <2>3, <2>4
<1>11. ASSUME NEW b \in Branches, Mark(b) PROVE Inv'
  <2>1. TypeOK'
    BY <1>11 DEF TypeOK, Mark, Entities, Events, Made, Gone, Reset, Empty, Kinds, Stages, Seeds
  <2>2. GateInv'
    BY <1>11 DEF TypeOK, Mark
  <2>3. ProcInv'
    BY <1>11 DEF TypeOK, Mark, Seeds
  <2>4. OutboxInv'
    BY SMTT(30), <1>11 DEF TypeOK, Mark, Seeds, Sets
  <2> QED BY <2>1, <2>2, <2>3, <2>4
<1>12. ASSUME Nudge PROVE Inv'
  <2>1. TypeOK'
    BY <1>12 DEF TypeOK, Nudge, Entities, Events, Made, Gone, Reset, Empty, Kinds, Stages, Seeds
  <2>2. GateInv'
    BY <1>12 DEF TypeOK, Nudge
  <2>3. ProcInv'
    BY <1>12 DEF TypeOK, Nudge, Seeds
  <2>4. OutboxInv'
    BY <1>12 DEF TypeOK, Nudge, Seeds, Sets
  <2> QED BY <2>1, <2>2, <2>3, <2>4
<1>13. ASSUME Refused PROVE Inv'
  <2>1. TypeOK'
    BY <1>13 DEF TypeOK, Refused, Entities, Events, Made, Gone, Reset, Empty, Kinds, Stages, Seeds
  <2>2. GateInv'
    BY <1>13 DEF TypeOK, Refused
  <2>3. ProcInv'
    BY <1>13 DEF TypeOK, Refused, Seeds
  <2>4. OutboxInv'
    BY <1>13 DEF TypeOK, Refused, Seeds, Sets
  <2> QED BY <2>1, <2>2, <2>3, <2>4
<1>14. ASSUME NEW a \in Admins, NEW kind \in Kinds, Ask(a, kind) PROVE Inv'
  <2>1. TypeOK'
    BY <1>14 DEF TypeOK, Ask, Entities, Events, Made, Gone, Reset, Empty, Kinds, Stages, Seeds
  <2>2. GateInv'
    BY <1>14 DEF TypeOK, Ask
  <2>3. ProcInv'
    BY <1>14 DEF TypeOK, Ask, Seeds
  <2>4. OutboxInv'
    BY <1>14 DEF TypeOK, Ask, Seeds, Sets
  <2> QED BY <2>1, <2>2, <2>3, <2>4
<1>15. ASSUME NEW a \in Admins, Acquire(a) PROVE Inv'
  <2>1. TypeOK'
    BY <1>15 DEF TypeOK, Acquire, Alone, Entities, Events, Made, Gone, Reset, Empty, Kinds, Stages, Seeds
  <2>2. GateInv'
    BY <1>15 DEF TypeOK, Acquire, Alone
  <2>3. ProcInv'
    BY <1>15 DEF TypeOK, Acquire, Alone, Seeds
  <2>4. OutboxInv'
    BY <1>15 DEF TypeOK, Acquire, Alone, Seeds, Sets
  <2> QED BY <2>1, <2>2, <2>3, <2>4
<1>16. ASSUME NEW a \in Admins, GiveUp(a) PROVE Inv'
  <2>1. TypeOK'
    BY <1>16 DEF TypeOK, GiveUp, Release, Entities, Events, Made, Gone, Reset, Empty, Kinds, Stages, Seeds
  <2>2. GateInv'
    BY <1>16 DEF TypeOK, GiveUp, Release
  <2>3. ProcInv'
    BY <1>16 DEF TypeOK, GiveUp, Release, Seeds
  <2>4. OutboxInv'
    BY <1>16 DEF TypeOK, GiveUp, Release, Seeds, Sets
  <2> QED BY <2>1, <2>2, <2>3, <2>4
<1>17. ASSUME NEW a \in Admins, Up(a) PROVE Inv'
  <2>1. TypeOK'
    BY <1>17 DEF TypeOK, Up, Release, Entities, Events, Made, Gone, Reset, Empty, Kinds, Stages, Seeds
  <2>2. GateInv'
    BY <1>17 DEF TypeOK, Up, Release
  <2>3. ProcInv'
    BY <1>17 DEF TypeOK, Up, Release, Seeds
  <2>4. OutboxInv'
    BY <1>17 DEF TypeOK, Up, Release, Seeds, Sets
  <2> QED BY <2>1, <2>2, <2>3, <2>4
<1>18. ASSUME NEW a \in Admins, NEW set \in Sets, Down(a, set) PROVE Inv'
  <2>1. TypeOK'
    <3>1. store' \in [Entities -> {"absent", "live", "marked"}] /\ outbox' \in Seq(Events)
      BY ZenonT(30), <1>18, EmptySeq DEF TypeOK, Down, Empty
    <3>2. behind' \in BOOLEAN
      BY <1>18, Zenon DEF TypeOK, Down
    <3>3. verb' \in [Admins -> [kind : Kinds, stage : Stages] \cup {None}]
      BY <1>18 DEF TypeOK, Down, Release
    <3> QED BY <1>18, <3>1, <3>2, <3>3 DEF TypeOK, Down
  <2>2. GateInv'
    BY <1>18 DEF TypeOK, Down, Release
  <2>3. ProcInv'
    BY <1>18 DEF TypeOK, Down, Release, Seeds
  <2>4. OutboxInv'
    BY <1>18 DEF TypeOK, Down, Release, Seeds, Sets
  <2> QED BY <2>1, <2>2, <2>3, <2>4
<1>19. ASSUME NEW a \in Admins, Revert(a) PROVE Inv'
  <2>1. TypeOK'
    BY <1>19 DEF TypeOK, Revert, Entities, Events, Made, Gone, Reset, Empty, Kinds, Stages, Seeds
  <2>2. GateInv'
    BY <1>19 DEF TypeOK, Revert
  <2>3. ProcInv'
    BY <1>19 DEF TypeOK, Revert, Seeds
  <2>4. OutboxInv'
    BY <1>19 DEF TypeOK, Revert, Seeds, Sets
  <2> QED BY <2>1, <2>2, <2>3, <2>4
<1>20. ASSUME NEW a \in Admins, Apply(a) PROVE Inv'
  <2>1. TypeOK'
    BY <1>20 DEF TypeOK, Apply, Entities, Events, Made, Gone, Reset, Empty, Kinds, Stages, Seeds
  <2>2. GateInv'
    BY <1>20 DEF TypeOK, Apply
  <2>3. ProcInv'
    BY <1>20 DEF TypeOK, Apply, Seeds
  <2>4. OutboxInv'
    BY <1>20 DEF TypeOK, Apply, Seeds, Sets
  <2> QED BY <2>1, <2>2, <2>3, <2>4
<1>21. ASSUME NEW a \in Admins, Tell(a) PROVE Inv'
  <2>1. TypeOK'
    BY SMTT(30), <1>21 DEF TypeOK, Tell, Entities, Events, Made, Gone, Reset, Empty, Kinds, Stages, Seeds
  <2>2. GateInv'
    BY <1>21 DEF TypeOK, Tell
  <2>3. ProcInv'
    <3>1. verb'[a] # None /\ verb'[a].stage = "told"
      BY <1>21, StageTyped DEF Tell, Stages
    <3> QED BY <1>21, <3>1 DEF TypeOK, Tell, Seeds
  <2>4. OutboxInv'
    BY <1>21 DEF TypeOK, Tell, Seeds, Sets
  <2> QED BY <2>1, <2>2, <2>3, <2>4
<1>22. ASSUME NEW a \in Admins, ResetEnds(a) PROVE Inv'
  <2>1. TypeOK'
    BY <1>22 DEF TypeOK, ResetEnds, Release, Entities, Events, Made, Gone, Reset, Empty, Kinds, Stages, Seeds
  <2>2. GateInv'
    BY <1>22 DEF TypeOK, ResetEnds, Release
  <2>3. ProcInv'
    BY <1>22 DEF TypeOK, ResetEnds, Release, Seeds
  <2>4. OutboxInv'
    BY <1>22 DEF TypeOK, ResetEnds, Release, Seeds, Sets
  <2> QED BY <2>1, <2>2, <2>3, <2>4
<1>23. ASSUME NEW a \in Admins, VerbFails(a) PROVE Inv'
  <2>1. TypeOK'
    BY <1>23 DEF TypeOK, VerbFails, Release, Entities, Events, Made, Gone, Reset, Empty, Kinds, Stages, Seeds
  <2>2. GateInv'
    BY <1>23 DEF TypeOK, VerbFails, Release
  <2>3. ProcInv'
    BY <1>23 DEF TypeOK, VerbFails, Release, Seeds
  <2>4. OutboxInv'
    BY <1>23 DEF TypeOK, VerbFails, Release, Seeds, Sets
  <2> QED BY <2>1, <2>2, <2>3, <2>4
<1>24. ASSUME AskSeed PROVE Inv'
  <2>1. TypeOK'
    BY <1>24 DEF TypeOK, AskSeed, Entities, Events, Made, Gone, Reset, Empty, Kinds, Stages, Seeds
  <2>2. GateInv'
    BY <1>24 DEF TypeOK, AskSeed
  <2>3. ProcInv'
    BY <1>24 DEF TypeOK, AskSeed, Seeds
  <2>4. OutboxInv'
    BY <1>24 DEF TypeOK, AskSeed, Seeds, Sets
  <2> QED BY <2>1, <2>2, <2>3, <2>4
<1>25. ASSUME NEW s \in Seeds, SeedRows(s) PROVE Inv'
  <2>1. TypeOK'
    <3>1. seed' \in [Seeds -> 0..Len(SeedFiles) \cup {None}]
      BY <1>25, SeedPlaces DEF TypeOK, SeedRows, Advance
    <3>2. SeedRow \in Entities
      BY DEF Entities
    <3> QED BY <1>25, <3>1, <3>2, EnsureTyped DEF TypeOK, SeedRows
  <2>2. GateInv'
    BY <1>25 DEF TypeOK, SeedRows, Ensure, Advance
  <2>3. ProcInv'
    BY <1>25 DEF TypeOK, SeedRows, Ensure, Advance, Seeds
  <2>4. OutboxInv'
    BY <1>25 DEF TypeOK, SeedRows, Ensure, Advance, Seeds, Sets
  <2> QED BY <2>1, <2>2, <2>3, <2>4
<1>26. ASSUME NEW s \in Seeds, SeedFile(s) PROVE Inv'
  <2>1. TypeOK'
    <3>1. seed' \in [Seeds -> 0..Len(SeedFiles) \cup {None}]
      BY <1>26, SeedPlaces DEF TypeOK, SeedFile, Advance
    <3>2. seed[s] \in 1..Len(SeedFiles)
      BY <1>26, SeedPlaces DEF TypeOK, SeedFile
    <3>3. SeedFiles[seed[s]] \in Entities
      BY <3>2, LenProperties DEF Entities, Files
    <3> QED BY <1>26, <3>1, <3>3, EnsureTyped DEF TypeOK, SeedFile
  <2>2. GateInv'
    BY <1>26 DEF TypeOK, SeedFile, Ensure, Advance
  <2>3. ProcInv'
    BY <1>26 DEF TypeOK, SeedFile, Ensure, Advance, Seeds
  <2>4. OutboxInv'
    BY <1>26 DEF TypeOK, SeedFile, Ensure, Advance, Seeds, Sets
  <2> QED BY <2>1, <2>2, <2>3, <2>4
<1>27. ASSUME NEW s \in Seeds, SeedFails(s) PROVE Inv'
  <2>1. TypeOK'
    BY <1>27 DEF TypeOK, SeedFails, Entities, Events, Made, Gone, Reset, Empty, Kinds, Stages, Seeds
  <2>2. GateInv'
    BY <1>27 DEF TypeOK, SeedFails
  <2>3. ProcInv'
    BY <1>27 DEF TypeOK, SeedFails, Seeds
  <2>4. OutboxInv'
    BY <1>27 DEF TypeOK, SeedFails, Seeds, Sets
  <2> QED BY <2>1, <2>2, <2>3, <2>4
<1>28. ASSUME Interval PROVE Inv'
  <2>1. TypeOK'
    BY <1>28 DEF TypeOK, Interval, Entities, Events, Made, Gone, Reset, Empty, Kinds, Stages, Seeds
  <2>2. GateInv'
    BY <1>28 DEF TypeOK, Interval
  <2>3. ProcInv'
    BY <1>28 DEF TypeOK, Interval, Seeds
  <2>4. OutboxInv'
    BY <1>28 DEF TypeOK, Interval, Seeds, Sets
  <2> QED BY <2>1, <2>2, <2>3, <2>4
<1>29. ASSUME PassBegin PROVE Inv'
  <2>1. TypeOK'
    BY <1>29 DEF TypeOK, PassBegin, Open, Entities, Events, Made, Gone, Reset, Empty, Kinds, Stages, Seeds
  <2>2. GateInv'
    BY <1>29 DEF TypeOK, PassBegin, Open
  <2>3. ProcInv'
    BY <1>29 DEF TypeOK, PassBegin, Running, Open, Seeds
  <2>4. OutboxInv'
    BY <1>29 DEF TypeOK, PassBegin, Open, Seeds, Sets
  <2> QED BY <2>1, <2>2, <2>3, <2>4
<1>30. ASSUME NEW b \in Branches, PassRemove(b) PROVE Inv'
  <2>1. TypeOK'
    BY <1>30 DEF TypeOK, PassRemove, Entities, Events, Made, Gone, Reset, Empty, Kinds, Stages, Seeds
  <2>2. GateInv'
    BY <1>30 DEF TypeOK, PassRemove
  <2>3. ProcInv'
    BY <1>30 DEF TypeOK, PassRemove, Seeds
  <2>4. OutboxInv'
    BY <1>30 DEF TypeOK, PassRemove, Seeds, Sets
  <2> QED BY <2>1, <2>2, <2>3, <2>4
<1>31. ASSUME PassEnd PROVE Inv'
  <2>1. TypeOK'
    <3>1. trouble' \in 0..MaxTrouble
      BY <1>31 DEF TypeOK, PassEnd, Trouble
    <3>2. due' \in BOOLEAN
      BY <1>31, Zenon DEF TypeOK, PassEnd
    <3> QED BY <1>31, <3>1, <3>2 DEF TypeOK, PassEnd
  <2>2. GateInv'
    BY <1>31 DEF TypeOK, PassEnd, Trouble
  <2>3. ProcInv'
    BY <1>31 DEF TypeOK, PassEnd, Trouble, Seeds
  <2>4. OutboxInv'
    BY <1>31 DEF TypeOK, PassEnd, Trouble, Seeds, Sets
  <2> QED BY <2>1, <2>2, <2>3, <2>4
<1>32. ASSUME RelayTake PROVE Inv'
  <2>1. TypeOK'
    BY <1>32 DEF TypeOK, RelayTake, Open, Running, Entities, Events, Made, Gone, Reset, Empty, Kinds, Stages, Seeds
  <2>2. GateInv'
    BY <1>32 DEF TypeOK, RelayTake, Open, Running
  <2>3. ProcInv'
    BY <1>32 DEF TypeOK, RelayTake, Open, Running, Seeds
  <2>4. OutboxInv'
    BY <1>32 DEF TypeOK, RelayTake, Open, Running, Seeds, Sets
  <2> QED BY <2>1, <2>2, <2>3, <2>4
<1>33. ASSUME RelaySend PROVE Inv'
  <2>1. TypeOK'
    BY <1>33, HeardTyped DEF TypeOK, RelaySend
  <2>2. GateInv'
    BY <1>33 DEF TypeOK, RelaySend
  <2>3. ProcInv'
    BY <1>33 DEF TypeOK, RelaySend, Seeds
  <2>4. OutboxInv'
    BY <1>33 DEF TypeOK, RelaySend, Seeds, Sets
  <2> QED BY <2>1, <2>2, <2>3, <2>4
<1>34. ASSUME RelayFails PROVE Inv'
  <2>1. TypeOK'
    BY <1>34, HeardTyped DEF TypeOK, RelayFails
  <2>2. GateInv'
    BY <1>34 DEF TypeOK, RelayFails
  <2>3. ProcInv'
    BY <1>34 DEF TypeOK, RelayFails, Seeds
  <2>4. OutboxInv'
    BY <1>34 DEF TypeOK, RelayFails, Seeds, Sets
  <2> QED BY <2>1, <2>2, <2>3, <2>4
<1>35. ASSUME RelayRecord PROVE Inv'
  <2>1. TypeOK'
    BY <1>35 DEF TypeOK, RelayRecord, Entities, Events, Made, Gone, Reset, Empty, Kinds, Stages, Seeds
  <2>2. GateInv'
    BY <1>35 DEF TypeOK, RelayRecord
  <2>3. ProcInv'
    BY <1>35 DEF TypeOK, RelayRecord, Seeds
  <2>4. OutboxInv'
    BY <1>35 DEF TypeOK, RelayRecord, Seeds, Sets
  <2> QED BY <2>1, <2>2, <2>3, <2>4
<1>36. CASE UNCHANGED vars
  BY <1>36 DEF TypeOK, vars
<1> QED
  BY <1>1, <1>2, <1>3, <1>4, <1>5, <1>6, <1>7, <1>8, <1>9, <1>10, <1>11, <1>12, <1>13, <1>14, <1>15, <1>16, <1>17, <1>18, <1>19, <1>20, <1>21, <1>22, <1>23, <1>24, <1>25, <1>26, <1>27, <1>28, <1>29, <1>30, <1>31, <1>32, <1>33, <1>34, <1>35, <1>36 DEF Next, DrainStep, Command, VerbStep, SeedStep, PassStep, RelayStep

-----------------------------------------------------------------------------
(* The first state: a process that has never run, over no schema.          *)
LEMMA InvInit == Init => Inv
<1>1. ASSUME Init PROVE TypeOK
  <2>1. outbox \in Seq(Events)
    BY <1>1, EmptySeq DEF Init
  <2>2. /\ store \in [Entities -> {"absent", "live", "marked"}]
        /\ verb \in [Admins -> [kind : Kinds, stage : Stages] \cup {None}]
        /\ seed \in [Seeds -> 0..Len(SeedFiles) \cup {None}]
    BY <1>1 DEF Init
  <2>3. writes \in 0..MaxWrites /\ verbs \in 0..MaxVerbs /\ trouble \in 0..MaxTrouble
    BY <1>1, OperationsAssumption DEF Init
  <2> QED
    BY <1>1, <2>1, <2>2, <2>3 DEF Init, TypeOK
<1> QED
  BY <1>1 DEF Init, Inv, GateInv, ProcInv, OutboxInv, Holds, At, Seeds

(* The stages of the process, the gate and the outbox stay in step through *)
(* every start, verb, seed, pass, publish, drain and stop.                 *)
THEOREM OperationsInvariant == Spec => []Inv
BY InvInit, InvStep, PTL DEF Spec

(* Every variable keeps its type: a seed's place in its file list and the  *)
(* relay's head of the outbox among them.                                  *)
THEOREM OperationsTyped == Spec => []TypeOK
<1>1. Inv => TypeOK
  BY DEF Inv
<1> QED
  BY <1>1, OperationsInvariant, PTL

(* A drain that nothing cuts short publishes everything: no command, verb  *)
(* or seed appends to the outbox after the relay has closed.               *)
THEOREM DrainedClean == Spec => []DrainPublishesAll
<1>1. Inv => DrainPublishesAll
  BY DEF Inv, OutboxInv, DrainPublishesAll
<1> QED
  BY <1>1, OperationsInvariant, PTL

(* The gate's exclusion: no start and no verb changes the schema under a   *)
(* pass of the sweep or a row of the relay.                                *)
THEOREM SchemaAlone == Spec => SchemaChangesAlone
<1>1. Inv /\ [Next]_vars => [schema' # schema => pass = "idle" /\ relay \in {"idle", "closed"}]_vars
  <2> SUFFICES ASSUME Inv, Next, schema' # schema
               PROVE  pass = "idle" /\ relay \in {"idle", "closed"}
    OBVIOUS
  <2>1. CASE Start
    BY <2>1 DEF Inv, ProcInv, Start
  <2>2. ASSUME NEW a \in Admins, VerbStep(a)
        PROVE  Holds(a)
    BY <2>2 DEF VerbStep, Acquire, Up, Down, Revert, Apply, Tell, ResetEnds, VerbFails, Holds, At, database
  <2>3. \/ Start \/ \E a \in Admins : VerbStep(a)
    BY DEF Next, Serve, Stop, Drain, DrainStep, ServerDrained, RelayCloses, RelayGivesUp, Exit, Begin, Command, Create, Mark, Nudge, Refused, Ask, GiveUp, AskSeed, SeedStep, SeedRows, SeedFile, SeedFails, Interval, PassBegin, PassStep, PassRemove, PassEnd, RelayTake, RelayStep, RelaySend, RelayFails, RelayRecord, database
  <2> QED
    BY <2>1, <2>2, <2>3 DEF Inv, GateInv
<1> QED
  BY <1>1, OperationsInvariant, PTL DEF Spec, SchemaChangesAlone

-----------------------------------------------------------------------------
(* What a consumer will hold.                                              *)

(* The relay has sent the row it is about to record, so hearing it again   *)
(* changes nothing.                                                        *)
SentInv == relay = "sent" => Heard(copy, Head(outbox)) = copy

ConvergeInv == ConsumerConverges /\ SentInv

LEMMA EventsDiffer ==
    /\ \A e : Made(e).kind = "made" /\ Gone(e).kind = "gone" /\ Reset.kind = "reset"
    /\ \A e : Made(e) # Reset /\ Gone(e) # Reset
    /\ \A e, f : Made(e) # Gone(f) /\ (Made(e) = Made(f) => e = f) /\ (Gone(e) = Gone(f) => e = f)
<1>1. \A e : Made(e).kind = "made" /\ Gone(e).kind = "gone" /\ Reset.kind = "reset"
  BY DEF Made, Gone, Reset
<1>2. \A e : Made(e).entity = e /\ Gone(e).entity = e
  BY DEF Made, Gone
<1> QED
  BY <1>1, <1>2

(* How an event about e changes what is held of it.                        *)
LEMMA HeardOf ==
    ASSUME NEW held, NEW event \in Events, NEW e \in Entities
    PROVE  e \in Heard(held, event) <=>
               \/ event = Made(e)
               \/ e \in held /\ event \notin {Reset, Made(e), Gone(e)}
<1>1. CASE event = Reset
  BY <1>1, EventsDiffer DEF Heard
<1>2. ASSUME NEW f \in Entities, event = Made(f)
      PROVE  Heard(held, event) = held \cup {f}
  BY <1>2 DEF Heard, Made
<1>3. ASSUME NEW f \in Entities, event = Gone(f)
      PROVE  Heard(held, event) = held \ {f}
  BY <1>3 DEF Heard, Gone
<1> QED
  BY <1>1, <1>2, <1>3, EventsDiffer DEF Events

LEMMA HeardAgain ==
    ASSUME NEW held \in SUBSET Entities, NEW event \in Events
    PROVE  Heard(Heard(held, event), event) = Heard(held, event)
<1>1. Heard(held, event) \subseteq Entities /\ Heard(Heard(held, event), event) \subseteq Entities
  BY EventsDiffer DEF Events, Heard, Made, Gone
<1> QED
  BY <1>1, HeardOf

(* A row more in the outbox: it has the last word on what it is about.     *)
LEMMA Appended ==
    ASSUME TypeOK, NEW event \in Events, outbox' = Append(outbox, event), copy' = copy,
           NEW e \in Entities
    PROVE  WillHold(e)' <=> \/ event = Made(e)
                            \/ WillHold(e) /\ event \notin {Reset, Made(e), Gone(e)}
<1> DEFINE n == Len(outbox)
<1>1. /\ outbox \in Seq(Events) /\ n \in Nat /\ DOMAIN outbox = 1..n
      /\ outbox' \in Seq(Events) /\ DOMAIN outbox' = 1..(n + 1)
      /\ outbox'[n + 1] = event /\ \A i \in 1..n : outbox'[i] = outbox[i]
  BY AppendProperties, LenProperties DEF TypeOK
<1>2. CASE event \in {Reset, Made(e), Gone(e)}
  <2>1. n + 1 \in Unheard(e)' /\ \A j \in Unheard(e)' : j <= n + 1
    BY <1>1, <1>2 DEF Unheard
  <2>2. WillHold(e)' <=> event = Made(e)
    <3>1. \A i \in Unheard(e)' : i \in Nat /\ ((\A j \in Unheard(e)' : j <= i) <=> i = n + 1)
      BY <1>1, <2>1 DEF Unheard
    <3> QED
      BY <1>1, <2>1, <3>1 DEF WillHold
  <2> QED
    BY <1>2, <2>2
<1>3. CASE event \notin {Reset, Made(e), Gone(e)}
  <2>1. Unheard(e)' = Unheard(e)
    BY <1>1, <1>3 DEF Unheard
  <2>2. \A i \in Unheard(e) : outbox'[i] = outbox[i]
    BY <1>1 DEF Unheard
  <2> QED
    BY <1>3, <2>1, <2>2 DEF WillHold
<1> QED
  BY <1>2, <1>3

(* The first row heard, or heard again: the last one still decides.        *)
LEMMA HeadHeard ==
    ASSUME TypeOK, outbox # <<>>, outbox' = outbox, copy' = Heard(copy, Head(outbox)),
           NEW e \in Entities
    PROVE  WillHold(e)' <=> WillHold(e)
<1>1. Head(outbox) = outbox[1] /\ 1 \in DOMAIN outbox /\ Head(outbox) \in Events
  BY HeadTailProperties, LenProperties, EmptySeq DEF TypeOK
<1>2. Unheard(e)' = Unheard(e)
  BY DEF Unheard
<1>3. CASE Unheard(e) = {}
  <2>1. Head(outbox) \notin {Reset, Made(e), Gone(e)}
    BY <1>1, <1>3 DEF Unheard
  <2> QED
    BY <1>1, <1>2, <1>3, <2>1, HeardOf DEF WillHold
<1>4. CASE Unheard(e) # {}
  BY <1>2, <1>4 DEF WillHold
<1> QED
  BY <1>3, <1>4

(* The first row recorded, once it was heard.                              *)
LEMMA HeadRecorded ==
    ASSUME TypeOK, outbox # <<>>, outbox' = Tail(outbox), copy' = copy,
           Heard(copy, Head(outbox)) = copy, NEW e \in Entities
    PROVE  WillHold(e)' <=> WillHold(e)
<1> DEFINE n == Len(outbox)
<1>1. /\ n \in Nat \ {0} /\ DOMAIN outbox = 1..n /\ DOMAIN outbox' = 1..(n - 1)
      /\ \A i \in 1..(n - 1) : outbox'[i] = outbox[i + 1]
      /\ Head(outbox) = outbox[1] /\ Head(outbox) \in Events
  BY HeadTailProperties, LenProperties, EmptySeq DEF TypeOK
<1>2. \A i \in 1..(n - 1) : i \in Unheard(e)' <=> i + 1 \in Unheard(e)
  BY <1>1 DEF Unheard
<1>3. Unheard(e)' \subseteq 1..(n - 1) /\ Unheard(e) \subseteq 1..n
  BY <1>1 DEF Unheard
<1>4. CASE Unheard(e)' = {}
  <2>1. Unheard(e) \subseteq {1}
    <3>1. ASSUME NEW j \in Unheard(e), j # 1
          PROVE  FALSE
      <4>1. j - 1 \in 1..(n - 1) /\ (j - 1) + 1 = j
        BY <1>1, <1>3, <3>1
      <4>2. j - 1 \in Unheard(e)'
        BY <1>2, <3>1, <4>1
      <4> QED
        BY <1>4, <4>2
    <3> QED
      BY <3>1
  <2>2. CASE Unheard(e) = {}
    BY <1>4, <2>2 DEF WillHold
  <2>3. CASE Unheard(e) = {1}
    <3>1. WillHold(e) <=> Head(outbox) = Made(e)
      BY <1>1, <2>3 DEF WillHold
    <3>2. Head(outbox) \in {Reset, Made(e), Gone(e)}
      BY <1>1, <2>3 DEF Unheard
    <3>3. e \in copy <=> Head(outbox) = Made(e)
      BY <1>1, <3>2, HeardOf
    <3> QED
      BY <1>4, <3>1, <3>3 DEF WillHold
  <2> QED
    BY <2>1, <2>2, <2>3
<1>5. CASE Unheard(e)' # {}
  <2>1. PICK k \in 1..(n - 1) : k \in Unheard(e)'
    BY <1>3, <1>5
  <2>2. k + 1 \in Unheard(e)
    BY <1>2, <2>1
  <2>3. ASSUME NEW i \in 1..(n - 1)
        PROVE  (\A j \in Unheard(e)' : j <= i) <=> (\A j \in Unheard(e) : j <= i + 1)
    <3>1. ASSUME \A j \in Unheard(e)' : j <= i, NEW j \in Unheard(e)
          PROVE  j <= i + 1
      <4>1. j \in 1..n /\ (j # 1 => j - 1 \in 1..(n - 1) /\ j - 1 \in Unheard(e)')
        BY <1>1, <1>2, <1>3, <3>1
      <4> QED
        BY <1>1, <3>1, <4>1
    <3>2. ASSUME \A j \in Unheard(e) : j <= i + 1, NEW j \in Unheard(e)'
          PROVE  j <= i
      BY <1>1, <1>2, <1>3, <3>2
    <3> QED
      BY <3>1, <3>2
  <2>4. ASSUME NEW i \in Unheard(e), \A j \in Unheard(e) : j <= i
        PROVE  i - 1 \in 1..(n - 1)
    BY <1>1, <1>3, <2>1, <2>2, <2>4
  <2>5. ASSUME WillHold(e)'
        PROVE  WillHold(e)
    <3>1. PICK i \in Unheard(e)' : outbox'[i] = Made(e) /\ \A j \in Unheard(e)' : j <= i
      BY <1>5, <2>5 DEF WillHold
    <3>2. i + 1 \in Unheard(e) /\ outbox[i + 1] = Made(e) /\ \A j \in Unheard(e) : j <= i + 1
      BY <1>1, <1>2, <1>3, <2>3, <3>1
    <3> QED
      BY <3>2 DEF WillHold
  <2>6. ASSUME WillHold(e)
        PROVE  WillHold(e)'
    <3>1. PICK i \in Unheard(e) : outbox[i] = Made(e) /\ \A j \in Unheard(e) : j <= i
      BY <2>2, <2>6 DEF WillHold
    <3>2. PICK h \in 1..(n - 1) : i = h + 1
      BY <1>1, <1>3, <2>4, <3>1
    <3>3. h \in Unheard(e)' /\ outbox'[h] = Made(e) /\ \A j \in Unheard(e)' : j <= h
      BY <1>1, <1>2, <2>3, <3>1, <3>2
    <3> QED
      BY <3>3 DEF WillHold
  <2> QED
    BY <2>5, <2>6
<1> QED
  BY <1>4, <1>5


(* A commit with its event.                                                *)
LEMMA HeadStays ==
    ASSUME Inv, SentInv, NEW event \in Events, outbox' = Append(outbox, event),
           copy' = copy, relay' = relay
    PROVE  SentInv'
<1>1. relay = "sent" => outbox # <<>> /\ outbox \in Seq(Events)
  BY DEF Inv, OutboxInv, TypeOK
<1>2. relay = "sent" => Head(outbox') = Head(outbox)
  BY <1>1
<1> QED
  BY <1>2 DEF SentInv

LEMMA Stored ==
    ASSUME Inv, ConvergeInv, NEW e \in Entities,
           store' = [store EXCEPT ![e] = "live"], outbox' = Append(outbox, Made(e)),
           UNCHANGED <<copy, behind, relay>>
    PROVE  ConvergeInv'
<1>1. Made(e) \in Events
  BY DEF Events
<1>2. \A f \in Entities : WillHold(f)' <=> f = e \/ WillHold(f)
  BY <1>1, Appended, EventsDiffer DEF Inv
<1>3. \A f \in Entities : store'[f] = "live" <=> f = e \/ store[f] = "live"
  BY DEF Inv, TypeOK
<1> QED
  BY <1>1, <1>2, <1>3, HeadStays DEF ConvergeInv, ConsumerConverges

LEMMA Removed ==
    ASSUME Inv, ConvergeInv, NEW e \in Entities,
           store' = [store EXCEPT ![e] = "marked"], outbox' = Append(outbox, Gone(e)),
           UNCHANGED <<copy, behind, relay>>
    PROVE  ConvergeInv'
<1>1. Gone(e) \in Events
  BY DEF Events
<1>2. \A f \in Entities : WillHold(f)' <=> f # e /\ WillHold(f)
  BY <1>1, Appended, EventsDiffer DEF Inv
<1>3. \A f \in Entities : store'[f] = "live" <=> f # e /\ store[f] = "live"
  BY DEF Inv, TypeOK
<1> QED
  BY <1>1, <1>2, <1>3, HeadStays DEF ConvergeInv, ConsumerConverges

(* What a consumer holds in the end changes with what is stored, or with   *)
(* the events of it, only together.                                        *)
LEMMA Unsaid ==
    ASSUME ConvergeInv, UNCHANGED <<outbox, copy, behind>>, relay' = "sent" => relay = "sent",
           \A e \in Entities : store'[e] = "live" <=> store[e] = "live"
    PROVE  ConvergeInv'
BY DEF ConvergeInv, ConsumerConverges, SentInv, WillHold, Unheard

LEMMA ConvergeStep ==
    ASSUME Inv, ConvergeInv, [Next]_vars
    PROVE  ConvergeInv'
<1> USE DEF database, memory, counts
<1>1. ASSUME UNCHANGED <<store, outbox, copy, behind>>, relay' = "sent" => relay = "sent"
      PROVE  ConvergeInv'
  BY <1>1, Unsaid
<1>2. ASSUME \/ Start \/ Serve \/ Stop \/ Drain \/ DrainStep \/ Begin \/ Nudge \/ Refused
             \/ AskSeed \/ Interval \/ PassBegin \/ PassEnd \/ RelayTake \/ UNCHANGED vars
      PROVE  ConvergeInv'
  BY <1>1, <1>2
  DEF Start, Serve, Stop, Drain, DrainStep, ServerDrained, RelayCloses, RelayGivesUp, Exit,
      Begin, Nudge, Refused, AskSeed, Interval, PassBegin, PassEnd, RelayTake, vars
<1>3. ASSUME NEW a \in Admins,
             \/ \E kind \in Kinds : Ask(a, kind)
             \/ GiveUp(a) \/ Acquire(a) \/ Up(a) \/ Apply(a) \/ ResetEnds(a) \/ VerbFails(a)
      PROVE  ConvergeInv'
  BY <1>1, <1>3 DEF Ask, GiveUp, Acquire, Up, Apply, ResetEnds, VerbFails
<1>4. ASSUME NEW s \in Seeds, SeedFails(s)
      PROVE  ConvergeInv'
  BY <1>1, <1>4 DEF SeedFails
<1>5. ASSUME NEW b \in Branches, Create(b) \/ Mark(b)
      PROVE  ConvergeInv'
  <2>1. b \in Entities
    BY DEF Entities
  <2> QED
    BY <1>5, <2>1, Stored, Removed DEF Create, Mark
<1>6. ASSUME NEW e \in Entities, Ensure(e), UNCHANGED <<copy, behind, relay>>
      PROVE  ConvergeInv'
  BY <1>1, <1>6, Stored DEF Ensure
<1>7. ASSUME NEW s \in Seeds, SeedRows(s) \/ SeedFile(s)
      PROVE  ConvergeInv'
  <2>1. CASE SeedRows(s)
    BY <1>6, <2>1 DEF SeedRows, Entities
  <2>2. CASE SeedFile(s)
    <3>1. seed[s] \in 1..Len(SeedFiles)
      BY <2>2, SeedPlaces DEF SeedFile, Inv, TypeOK
    <3>2. SeedFiles[seed[s]] \in Entities
      BY <3>1, LenProperties, OperationsAssumption DEF Entities, Files
    <3> QED
      BY <1>6, <2>2, <3>2 DEF SeedFile
  <2> QED
    BY <1>7, <2>1, <2>2
<1>8. ASSUME NEW b \in Branches, PassRemove(b)
      PROVE  ConvergeInv'
  <2>1. \A e \in Entities : store'[e] = "live" <=> store[e] = "live"
    BY <1>8 DEF PassRemove, Inv, TypeOK
  <2> QED
    BY <1>8, <2>1, Unsaid DEF PassRemove
(* The gate: a verb that drops the outbox meets no row half published.     *)
<1>9. ASSUME NEW a \in Admins, (\E set \in Sets : Down(a, set)) \/ Revert(a)
      PROVE  ConvergeInv'
  <2>1. Holds(a) /\ relay' = relay /\ copy' = copy
    BY <1>9 DEF Down, Revert, At, Holds
  <2>2. SentInv'
    BY <2>1 DEF SentInv, Inv, GateInv
  <2>3. \/ behind'
        \/ /\ UNCHANGED <<outbox, behind>>
           /\ \A e \in Entities : store'[e] = "live" <=> store[e] = "live"
    <3>1. CASE \E set \in Sets : Down(a, set)
      <4>1. PICK set \in Sets : Down(a, set)
        BY <3>1
      <4>2. CASE set # "service"
        <5>1. outbox' = <<>> /\ behind' = (behind \/ outbox # <<>>) /\ UNCHANGED store
          BY <4>1, <4>2 DEF Down
        <5>2. CASE outbox # <<>> \/ behind
          BY <5>1, <5>2
        <5>3. CASE outbox = <<>> /\ ~behind
          <6>1. behind \in BOOLEAN /\ behind' \in BOOLEAN
            BY <5>1 DEF Inv, TypeOK
          <6> QED
            BY <5>1, <5>3, <6>1
        <5> QED
          BY <5>2, <5>3
      <4>3. CASE set = "service"
        <5>1. store' = Empty /\ behind' = (behind \/ Live # {}) /\ UNCHANGED outbox
          BY <4>1, <4>3 DEF Down
        <5>2. CASE Live # {} \/ behind
          BY <5>1, <5>2
        <5>3. CASE Live = {} /\ ~behind
          <6>1. \A e \in Entities : store[e] # "live" /\ store'[e] # "live"
            BY <5>1, <5>3 DEF Live, Empty
          <6>2. behind \in BOOLEAN /\ behind' \in BOOLEAN
            BY <5>1 DEF Inv, TypeOK
          <6> QED
            BY <5>1, <5>3, <6>1, <6>2
        <5> QED
          BY <5>2, <5>3
      <4> QED
        BY <4>2, <4>3
    <3>2. CASE Revert(a)
      BY <3>2 DEF Revert
    <3> QED
      BY <1>9, <3>1, <3>2
  <2> QED
    BY <2>1, <2>2, <2>3 DEF ConvergeInv, ConsumerConverges, WillHold, Unheard
<1>10. ASSUME NEW a \in Admins, Tell(a)
       PROVE  ConvergeInv'
  <2>1. Reset \in Events
    BY DEF Events
  <2>2. \A e \in Entities : ~WillHold(e)'
    BY <1>10, <2>1, Appended, EventsDiffer DEF Tell, Inv
  <2>3. behind' \/ \A e \in Entities : store'[e] # "live"
    BY <1>10 DEF Tell, Live
  <2>4. SentInv'
    BY <1>10, <2>1, HeadStays DEF Tell, ConvergeInv
  <2> QED
    BY <2>2, <2>3, <2>4 DEF ConvergeInv, ConsumerConverges
<1>11. ASSUME RelaySend \/ RelayFails
       PROVE  ConvergeInv'
  <2>1. /\ TypeOK /\ outbox # <<>> /\ UNCHANGED <<store, outbox, behind>>
        /\ copy' \in {copy, Heard(copy, Head(outbox))}
        /\ relay' = "sent" => copy' = Heard(copy, Head(outbox))
    BY <1>11 DEF RelaySend, RelayFails, Inv, OutboxInv
  <2>2. Head(outbox) \in Events /\ copy \in SUBSET Entities
    BY <2>1, HeardTyped DEF TypeOK
  <2>3. SentInv'
    BY <2>1, <2>2, HeardAgain DEF SentInv
  <2>4. CASE copy' = copy
    BY <2>1, <2>3, <2>4 DEF ConvergeInv, ConsumerConverges, WillHold, Unheard
  <2>5. CASE copy' = Heard(copy, Head(outbox))
    BY <2>1, <2>3, <2>5, HeadHeard DEF ConvergeInv, ConsumerConverges
  <2> QED
    BY <2>1, <2>4, <2>5
<1>12. ASSUME RelayRecord
       PROVE  ConvergeInv'
  <2>1. /\ TypeOK /\ outbox # <<>> /\ UNCHANGED <<store, copy, behind>>
        /\ outbox' = Tail(outbox) /\ Heard(copy, Head(outbox)) = copy /\ relay' = "idle"
    BY <1>12 DEF RelayRecord, Inv, OutboxInv, ConvergeInv, SentInv
  <2> QED
    BY <2>1, HeadRecorded DEF ConvergeInv, ConsumerConverges, SentInv
<1> QED
  BY <1>2, <1>3, <1>4, <1>5, <1>7, <1>8, <1>9, <1>10, <1>11, <1>12
  DEF Next, DrainStep, Command, VerbStep, SeedStep, PassStep, RelayStep

(* A consumer converges on what is stored, whatever is published twice,    *)
(* seeded again or dropped with the tables, for any state file and any     *)
(* number of branches and verbs.                                           *)
THEOREM Converges == Spec => []ConsumerConverges
<1>1. Init => ConvergeInv
  <2>1. Init => \A e : Unheard(e) = {}
    BY EmptySeq DEF Init, Unheard
  <2> QED
    BY <2>1 DEF Init, ConvergeInv, ConsumerConverges, SentInv, WillHold
<1>2. Inv /\ ConvergeInv /\ [Next]_vars => ConvergeInv'
  BY ConvergeStep
<1>3. ConvergeInv => ConsumerConverges
  BY DEF ConvergeInv
<1> QED
  BY <1>1, <1>2, <1>3, OperationsInvariant, PTL DEF Spec
=============================================================================
