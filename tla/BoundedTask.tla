---------------------------- MODULE BoundedTask ----------------------------
\* The tasks of the efficient pipeline: efficient.bounded_task over
\* PipelineContext.task, called for one group of items after another, in a
\* chain of runs each of which recovers an earlier one.
\*
\* A task is first given all its items; an answer that is invalid is corrected
\* once, one that is truncated is split once into two halves that are tasks
\* with rows of their own.  Every validated output is recorded with the
\* fingerprint of what it was made from, and a recovery reuses the rows of the
\* run it recovers where the fingerprints are equal.
\*
\* Groups of items are fixed (Plan); that the code forms later groups from
\* earlier outputs is kept in the fingerprint, which holds all of them.
\* `context.generate`, with its retries and its budget, is one step here.
EXTENDS Integers, Sequences, FiniteSets, Functions

CONSTANTS
    Stage,      \* "scout", "source_audit", "curator", ...
    Item,       \* chunks, candidates, requirements; chunks in document order
    Extracting, \* stages whose outputs are extractions: the scouts
    Plan,       \* the groups in order: sequence of [stage, items]
    Config,     \* configurations a run may have
    MaxRuns,    \* bound: runs in the chain
    MaxFits,    \* bound: items a request may have room for
    None

ASSUME PlanAssumption == Plan \in Seq([stage : Stage, items : Seq(Item)])
ASSUME StageAssumption == Extracting \subseteq Stage /\ Item \subseteq Int
ASSUME BoundAssumption == MaxRuns \in Nat /\ MaxFits \in Nat
ASSUME GroupAssumption == \A t \in DOMAIN Plan : Len(Plan[t].items) > 0
\* Each item has an identifier of its own: _ids_exact compares them as sets.
ASSUME DistinctAssumption == \A t \in DOMAIN Plan : IsInjective(Plan[t].items)

Run   == 1..MaxRuns
Task  == DOMAIN Plan
Slot  == Stage \X (0..3 * Len(Plan))

VARIABLES
    fits,       \* how many items fit into a request (REQUEST_CHAR_LIMIT)
    run,        \* the run executing, or the last one; 0 before the first
    parent,     \* the run that each run recovers; 0 for none
    config,     \* its configuration
    fate,       \* "absent", "running", "done", "failed" or "conflict"
    rows,       \* agent_stage_outputs of each run, by stage and task_index
    outputs,    \* what the tasks that returned to the pipeline returned
    pc,         \* "enter" a task, "ask" the model, "combine" halves, or "idle"
    child,      \* 0 in the whole task, 1 and 2 in its halves
    corrected,  \* the answer asked for is a correction
    parts       \* outputs of the halves that returned

chain == <<fits, run, parent, config, fate>>
data  == <<rows, outputs>>
place == <<pc, child, corrected, parts>>
vars  == <<chain, data, place>>

Init ==
    /\ fits \in 0..MaxFits
    /\ run = 0
    /\ parent = [r \in Run |-> 0] /\ config = [r \in Run |-> None]
    /\ fate = [r \in Run |-> "absent"]
    /\ rows = [r \in Run |-> [s \in Slot |-> None]]
    /\ outputs = [r \in Run |-> <<>>]
    /\ pc = "idle" /\ child = 0 /\ corrected = FALSE /\ parts = <<>>
-----------------------------------------------------------------------------
\* The task the run is in, its items, and the items of its halves.
Current == Len(outputs[run]) + 1
Whole   == Plan[Current].items
Middle  == Len(Whole) \div 2

\* Variant: the middle item is in both halves.
Assigned_overlap(c) ==
    CASE c = 0 -> Whole
      [] c = 1 -> SubSeq(Whole, 1, Middle)
      [] c = 2 -> SubSeq(Whole, Middle, Len(Whole))

Assigned(c) ==
    CASE c = 0 -> Whole
      [] c = 1 -> SubSeq(Whole, 1, Middle)
      [] c = 2 -> SubSeq(Whole, Middle + 1, Len(Whole))

\* (stage, task_index): each stage numbers its groups in threes, a task and
\* its halves.
Earlier == Cardinality({t \in 1..(Current - 1) : Plan[t].stage = Plan[Current].stage})

SlotOf(c) == <<Plan[Current].stage, 3 * Earlier + c>>

Fingerprint(c) ==
    [config |-> config[run], items |-> Assigned(c), context |-> outputs[run]]

\* An output has a piece for every item: the run whose call made it, and for a
\* chunk whether it is called testable ("extracted", else "non_testable") and
\* which chunks the candidate taken from it cites, if there is one.
Piece == [item : Item, by : Run, testable : BOOLEAN, cites : SUBSET Item]

\* No row is the absence of one.
ASSUME NoneAssumption ==
    None \notin [print : [config : Config, items : Seq(Item), context : Seq(Seq(Piece))],
                 value : Seq(Piece), reusedFrom : Run \cup {None}]

\* _boundary_context: the chunks next to those assigned may be cited as well.
Evidence(items) ==
    Range(items) \cup ({items[1] - 1, items[Len(items)] + 1} \cap Item)

Covers(value, items) ==
    /\ Len(value) = Len(items)
    /\ \A i \in 1..Len(items) : value[i].item = items[i]

\* _validate_extraction: a candidate cites an assigned chunk, and an assigned
\* chunk is cited exactly if it is called testable.
Grounded(value, items) ==
    LET anchored == UNION {value[i].cites : i \in DOMAIN value} IN
    \A i \in DOMAIN value :
        /\ value[i].cites \subseteq Evidence(items)
        /\ value[i].cites = {} \/ value[i].cites \cap Range(items) # {}
        /\ value[i].testable <=> value[i].item \in anchored

\* What the stage's validate asks of a value: that it covers every assigned
\* item and no other, and that each piece is right by itself.
Valid(value, items) ==
    /\ Covers(value, items)
    /\ Plan[Current].stage \in Extracting => Grounded(value, items)

\* The valid answers of the model.  Only extractions differ in more than text.
Plain(items) ==
    [i \in DOMAIN items |-> [item |-> items[i], by |-> run,
                             testable |-> TRUE, cites |-> {items[i]}]]
Answers(items) ==
    IF Plan[Current].stage \in Extracting
      THEN {value \in [DOMAIN items -> [item : Range(items), by : {run},
                        testable : BOOLEAN, cites : SUBSET Evidence(items)]] :
              Valid(value, items)}
      ELSE {Plain(items)}

Checkpoint(slot) == IF parent[run] = 0 THEN None ELSE rows[parent[run]][slot]

\* Variant: a row of the right stage and index is enough.
Saved_anyPrint(c) == Checkpoint(SlotOf(c)) # None

Saved(c) ==
    /\ Checkpoint(SlotOf(c)) # None
    /\ Checkpoint(SlotOf(c)).print = Fingerprint(c)

\* Variant: a task that was split is first asked for whole again.
SplitBefore_never == FALSE

\* Of any configuration: only the presence of a fingerprint is asked for.
SplitBefore == Checkpoint(SlotOf(1)) # None

Oversized(c) == Len(Assigned(c)) > fits
AskAtOnce(c) ==
    /\ ~Oversized(c)
    /\ ~(c = 0 /\ SplitBefore /\ Len(Whole) > 1)
MaySplit(c) == c = 0 /\ Len(Whole) >= 2
-----------------------------------------------------------------------------
\* run_generation, with or without an earlier run to recover: any that is over
\* or whose process is dead, of any configuration, once or more than once.
StartRun ==
    /\ pc = "idle" /\ run < MaxRuns
    /\ run' = run + 1
    /\ outputs' = [outputs EXCEPT ![run + 1] = <<>>]
    /\ \E p \in 0..run : parent' = [parent EXCEPT ![run + 1] = p]
    /\ \E c \in Config : config' = [config EXCEPT ![run + 1] = c]
    /\ fate' = [fate EXCEPT ![run + 1] = IF Plan = <<>> THEN "done" ELSE "running"]
    /\ pc' = IF Plan = <<>> THEN "idle" ELSE "enter"
    /\ child' = 0 /\ corrected' = FALSE /\ parts' = <<>>
    /\ UNCHANGED <<fits, rows>>

\* The run is over, or its process died; what it recorded stays.
Stop(how) ==
    /\ fate' = [fate EXCEPT ![run] = how]
    /\ pc' = "idle" /\ child' = 0 /\ corrected' = FALSE /\ parts' = <<>>
    /\ UNCHANGED <<fits, run, parent, config, data>>

\* What the caller of the task does with its value: the pipeline goes on to
\* the next group, a split to its next half and at last to combining them.
ReturnWhole(value) ==
    /\ outputs' = [outputs EXCEPT ![run] = Append(@, value)]
    /\ child' = 0 /\ parts' = <<>>
    /\ IF Current = Len(Plan)
         THEN pc' = "idle" /\ fate' = [fate EXCEPT ![run] = "done"]
         ELSE pc' = "enter" /\ fate' = fate

ReturnHalf(c, value) ==
    /\ parts' = parts \o value
    /\ IF c = 1 THEN pc' = "enter" /\ child' = 2
                ELSE pc' = "combine" /\ child' = 0
    /\ UNCHANGED <<outputs, fate>>

\* validate, record_stage and return.  A second row of the same identity that
\* differs is refused by the database, which ends the run.
Record(c, value, from) ==
    IF rows[run][SlotOf(c)] # None THEN Stop("conflict")
    ELSE /\ rows' = [rows EXCEPT ![run][SlotOf(c)] =
                        [print |-> Fingerprint(c), value |-> value, reusedFrom |-> from]]
         /\ IF c = 0 THEN ReturnWhole(value) ELSE ReturnHalf(c, value)
         /\ corrected' = FALSE
         /\ UNCHANGED <<fits, run, parent, config>>

Reuse ==
    /\ pc = "enter" /\ Saved(child)
    /\ LET value == Checkpoint(SlotOf(child)).value IN
         IF Valid(value, Assigned(child))
           THEN Record(child, value, parent[run])
           ELSE Stop("failed")

\* The split, or the error of a task that cannot be split (again).
Split ==
    IF MaySplit(child)
      THEN /\ pc' = "enter" /\ child' = 1 /\ corrected' = FALSE /\ parts' = <<>>
           /\ UNCHANGED <<chain, data>>
      ELSE Stop("failed")

Enter ==
    /\ pc = "enter" /\ ~Saved(child)
    /\ IF AskAtOnce(child)
         THEN pc' = "ask" /\ UNCHANGED <<chain, data, child, corrected, parts>>
         ELSE Split

\* The answers of the model.
Accept ==
    /\ pc = "ask"
    /\ \E value \in Answers(Assigned(child)) : Record(child, value, None)

\* Variant: after a correction the count starts over.
Correct_again ==
    /\ pc = "ask"
    /\ corrected' = ~corrected /\ UNCHANGED <<chain, data, pc, child, parts>>

Correct ==
    /\ pc = "ask"
    /\ IF corrected THEN Stop("failed")
       ELSE corrected' = TRUE /\ UNCHANGED <<chain, data, pc, child, parts>>

Truncated == pc = "ask" /\ Split

\* Any other error of the call, or the death of the process.
Interrupt == pc # "idle" /\ Stop("failed")

Combine ==
    /\ pc = "combine"
    /\ IF Valid(parts, Whole) THEN Record(0, parts, None) ELSE Stop("failed")

Step == Reuse \/ Enter \/ Accept \/ Correct \/ Truncated \/ Combine
Next == StartRun \/ Step \/ Interrupt

Spec == Init /\ [][Next]_vars

\* A live process goes on and a call answers; nobody has to start or to die.
FairSpec == Spec /\ WF_vars(Step)
-----------------------------------------------------------------------------
RowType(row) ==
    \/ row = None
    \/ /\ DOMAIN row = {"print", "value", "reusedFrom"}
       /\ row.print.config \in Config /\ row.print.items \in Seq(Item)
       /\ row.value \in Seq(Piece) /\ row.reusedFrom \in Run \cup {None}

RowsTyped ==
    /\ DOMAIN rows = Run
    /\ \A r \in Run : DOMAIN rows[r] = Slot /\ \A s \in Slot : RowType(rows[r][s])

TypeOK ==
    /\ fits \in 0..MaxFits /\ run \in 0..MaxRuns
    /\ parent \in [Run -> 0..MaxRuns] /\ \A r \in Run : parent[r] < r
    /\ config \in [Run -> Config \cup {None}]
    /\ fate \in [Run -> {"absent", "running", "done", "failed", "conflict"}]
    /\ RowsTyped
    /\ outputs \in [Run -> Seq(Seq(Piece))]
    /\ pc \in {"enter", "ask", "combine", "idle"}
    /\ child \in 0..2 /\ corrected \in BOOLEAN /\ parts \in Seq(Piece)
    /\ pc # "idle" <=> run # 0 /\ fate[run] = "running"
    /\ pc # "idle" => Len(outputs[run]) < Len(Plan) /\ config[run] \in Config

\* The two halves of a split, each validated against its own items only, in
\* this run or an earlier one, always make a valid whole ("split truncation
\* once; save validated work").  If they do not, the task fails, and every
\* recovery reuses the halves and fails in the same way.
HalvesMakeAWhole == pc = "combine" => Valid(parts, Whole)

\* What a run records is consistent with itself, however many runs it was
\* copied through: each row was made under the run's configuration, from the
\* outputs the earlier tasks have in this run, by runs of its own ancestry.
Ancestors(r) ==
    {x \in Run : \A S \in SUBSET Run :
        (r \in S /\ \A y \in S : parent[y] # 0 => parent[y] \in S) => x \in S}
RowsAgree ==
    \A r \in Run, s \in Slot :
        LET row == rows[r][s] IN
        row # None =>
            /\ row.print.config = config[r]
            /\ row.print.context = SubSeq(outputs[r], 1, Len(row.print.context))
            /\ Covers(row.value, row.print.items)
            /\ \A i \in DOMAIN row.value :
                 /\ row.value[i].by \in Ancestors(r)
                 /\ config[row.value[i].by] = config[r]

\* A recovery never asks the model again for an item of which the run it
\* recovers has a validated output made from the same inputs, alone or in a
\* larger task.
NothingAskedTwice ==
    pc = "ask" /\ parent[run] # 0 =>
        \A s \in Slot :
            LET row == rows[parent[run]][s] IN
            /\ row # None /\ s[1] = Plan[Current].stage
            /\ row.print.config = config[run] /\ row.print.context = outputs[run]
            => Range(row.print.items) \cap Range(Assigned(child)) = {}

\* Corrections and splits run out: every run comes to an end.
RunsEnd == pc # "idle" ~> pc = "idle"
=============================================================================
