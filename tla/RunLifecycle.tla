---------------------------- MODULE RunLifecycle ----------------------------
(***************************************************************************)
(* The life of generation runs: every worker executes one call of          *)
(* run_generation (runner.py) at a time, step by step, against the         *)
(* PostgreSQL tables of RunRepository (storage.py).  A step is one         *)
(* database transaction, one settled model call, or the local work between *)
(* two of them, so everything another worker can observe in between is a   *)
(* state.  Workers crash, and database sessions that hold a lease may      *)
(* drop while the worker goes on.                                          *)
(*                                                                         *)
(* All runs belong to one document: runs of different documents share no   *)
(* run id, lease or row.                                                   *)
(***************************************************************************)
EXTENDS Integers, Sequences, FiniteSets

CONSTANTS
    Worker,          \* threads or processes that call run_generation
    RunId,           \* run ids, ordered as the sorted() of run_lease orders them
    RunType,         \* the pipelines a run may be of
    Settings,        \* everything else that a fingerprint covers
    Requests,        \* the calls the application makes
    TaskCount,       \* generation tasks of a pipeline
    MaxAttempts,     \* model calls of one task, retries and repairs included
    MaxRepairs,      \* model calls of the repairs of a suite, together
    LeasesMayDrop,   \* whether a lease's session may be lost by a live worker
    None             \* "no such thing", for optional values

Config == [type : RunType, settings : Settings]

\* The tasks of a run, in order: the generation tasks, the validated suite
\* (stage "generation") and the judge's evaluation.
GenerationRow  == TaskCount + 1
JudgeTask      == TaskCount + 2
Task           == 1..JudgeTask
Attempts(t)    == IF t = GenerationRow THEN MaxRepairs ELSE MaxAttempts

\* A validated stage output: its fingerprint, the run whose model calls made
\* the output, and the run it was copied from, if any.
Row == [fingerprint : Config, madeBy : RunId, reusedFrom : RunId \cup {None}]

Evaluation == {"none", "completed", "failed"}
Terminal   == {"completed", "failed"}

\* What finalize adds to a run besides its status.
Report  == [charged : Nat, inherited : [RunId -> Nat], evaluation : Evaluation]
Outcome == [status : Terminal, report : Report]

\* The columns of runs that never change, as far as recovery reads them.
Manifest == [parent : RunId \cup {None}, config : Config]

Request == [run : RunId, parent : RunId \cup {None}, config : Config]

\* The application draws a fresh request id for a recovery, so a run is never
\* asked to be its own parent.
ASSUME RequestAssumption == Requests \subseteq {q \in Request : q.parent # q.run}
ASSUME RunIdAssumption  == RunId \subseteq Nat
ASSUME CountAssumption  ==
    TaskCount \in Nat /\ MaxAttempts \in Nat \ {0} /\ MaxRepairs \in Nat \ {0}
ASSUME DropAssumption   == LeasesMayDrop \in BOOLEAN
ASSUME NoneAssumption   == None \notin RunId \cup Worker \cup Row \cup Report
                                       \cup Manifest \cup Outcome

VARIABLES
    \* the database
    status,      \* runs.status, or "absent"
    manifest,    \* the columns of runs that never change
    events,      \* run_events, by sequence
    chunks,      \* whether document_chunks has the run's chunks
    calls,       \* budget tokens of model_call_attempts; every call costs one
    rows,        \* agent_stage_outputs
    report,      \* what finalize wrote
    lease,       \* advisory lock on a run id: the worker whose session holds it
    \* the workers
    pc,          \* where run_generation stands
    req,         \* its arguments
    snap,        \* parent.stage_outputs, as loaded before the lease
    inherited,   \* inherited_budget_tokens: the cost of the ancestors read so far,
                 \* those seen, and the one to read next
    used,        \* tokens settled in the ledgers of this execution
    task,        \* the task being worked on
    attempt,     \* model calls made for it
    verdict      \* the terminal status and evaluation decided so far

dbVars     == <<status, manifest, events, chunks, calls, rows, report>>
workerVars == <<req, snap, inherited, used, task, attempt, verdict>>
vars       == <<dbVars, lease, pc, workerVars>>

\* Between CREATE and the end of the `with repository.run_lease` block.
Executing == {"start", "parse", "parsed", "work", "settled", "valid",
              "finalize", "close"}
Phase     == {"idle", "inherit", "lease", "create"} \cup Executing

NoRows  == [t \in Task |-> None]
NoCost  == [r \in RunId |-> 0]
From(p) == [cost |-> NoCost, seen |-> {}, next |-> p]
Nothing == From(None)
Pending == [status |-> "completed", evaluation |-> "none"]

-----------------------------------------------------------------------------
(* Helpers *)
\* Variant: only the run itself is leased, not the run it recovers.
Keys_runOnly(w) == {req[w].run}

Keys(w) == {req[w].run, req[w].parent} \ {None}
Held(w) == {k \in Keys(w) : lease[k] = w}

\* Closing the lease's connection releases every lock of its session.
LeaseWithout(w) == [k \in RunId |-> IF lease[k] = w THEN None ELSE lease[k]]

ParentOf(r) == IF manifest[r] = None THEN None ELSE manifest[r].parent

\* A run's own cost: its metrics once finalized, its call attempts before.
OwnCost(r) == IF report[r] # None THEN report[r].charged ELSE calls[r]

\* A round of the loop of inherited_budget_tokens reads one ancestor.
\* Variant: the call attempts of a finalized run are counted once more.
Round_twice(walk) ==
    LET x == walk.next IN
    [cost |-> [walk.cost EXCEPT ![x] = calls[x] + (IF report[x] # None THEN report[x].charged ELSE 0)],
     seen |-> walk.seen \cup {x}, next |-> ParentOf(x)]

Round(walk) ==
    LET x == walk.next IN
    [cost |-> [walk.cost EXCEPT ![x] = OwnCost(x)], seen |-> walk.seen \cup {x}, next |-> ParentOf(x)]

Run(w)    == req[w].run
Parent(w) == req[w].parent

\* Variant: any checkpoint of the task is reused.
Reusable_anyConfig(w, t) == snap[w][t] # None

\* task(): a checkpoint is reused only when its fingerprint matches.
Reusable(w, t) == snap[w][t] # None /\ snap[w][t].fingerprint = req[w].config

\* _require_running: SELECT ... FOR UPDATE, refused unless running.
Running(r) == status[r] = "running"

Goto(w, p) == pc' = [pc EXCEPT ![w] = p]

\* Leaving the `with` block, by return or by an exception; local state is gone.
Leave(w) ==
    /\ pc' = [pc EXCEPT ![w] = "idle"]
    /\ lease' = LeaseWithout(w)
    /\ snap' = [snap EXCEPT ![w] = NoRows]
    /\ inherited' = [inherited EXCEPT ![w] = Nothing]
    /\ used' = [used EXCEPT ![w] = 0]
    /\ task' = [task EXCEPT ![w] = 1]
    /\ attempt' = [attempt EXCEPT ![w] = 0]
    /\ verdict' = [verdict EXCEPT ![w] = Pending]
    /\ req' = [req EXCEPT ![w] = None]

\* Variant: the next sequence number is MAX(sequence), without the + 1.
AppendEvent_sameSequence(r, stage) ==
    events' = [events EXCEPT ![r] = IF @ = << >> THEN <<stage>>
                                    ELSE [@ EXCEPT ![Len(@)] = stage]]

AppendEvent(r, stage) == events' = [events EXCEPT ![r] = Append(@, stage)]

PutRow(r, t, row) ==
    /\ rows[r][t] \in {None, row}
    /\ rows' = [rows EXCEPT ![r][t] = row]

-----------------------------------------------------------------------------
(* Before the lease *)

\* A recovery's parent exists and is of the run type asked for.
ParentFits(q) == /\ status[q.parent] # "absent"
                 /\ manifest[q.parent].config.type = q.config.type

\* A call of run_generation, up to its first read: load_run of the parent, as
\* far as its stage outputs (each SELECT of load_run sees a snapshot of its
\* own, so the cost is read in the next steps).  A call whose parent does not
\* fit raises and changes nothing.
Submit(w) ==
    /\ pc[w] = "idle"
    /\ \E q \in Requests :
        /\ q.parent # None => ParentFits(q)
        /\ req' = [req EXCEPT ![w] = q]
        /\ snap' = [snap EXCEPT ![w] =
                       IF q.parent = None THEN NoRows ELSE rows[q.parent]]
        /\ inherited' = [inherited EXCEPT ![w] = From(q.parent)]
        /\ Goto(w, IF q.parent = None THEN "lease" ELSE "inherit")
    /\ UNCHANGED <<dbVars, lease, used, task, attempt, verdict>>

\* inherited_budget_tokens reads the parent and its ancestors one load_run after
\* the other, and refuses one it has seen.
InheritCost(w) ==
    /\ pc[w] = "inherit"
    /\ inherited[w].next \notin inherited[w].seen
    /\ inherited' = [inherited EXCEPT ![w] = Round(@)]
    /\ Goto(w, IF inherited'[w].next = None THEN "lease" ELSE "inherit")
    /\ UNCHANGED <<dbVars, lease, req, snap, used, task, attempt, verdict>>

-----------------------------------------------------------------------------
(* The lease *)

\* One pg_try_advisory_lock, in sorted order.
NextKey(w) == CHOOSE k \in Keys(w) \ Held(w) : \A j \in Keys(w) \ Held(w) : k <= j

AcquireLease(w) ==
    /\ pc[w] = "lease"
    /\ lease[NextKey(w)] = None
    /\ lease' = [lease EXCEPT ![NextKey(w)] = w]
    /\ Goto(w, IF Keys(w) = Held(w) \cup {NextKey(w)} THEN "create" ELSE "lease")
    /\ UNCHANGED <<dbVars, workerVars>>
\* Variant: the locks acquired before the refused one stay with the session.
RefuseLease_keepsLocks(w) ==
    /\ pc[w] = "lease"
    /\ lease[NextKey(w)] # None
    /\ Goto(w, "idle")
    /\ snap' = [snap EXCEPT ![w] = NoRows]
    /\ inherited' = [inherited EXCEPT ![w] = Nothing]
    /\ req' = [req EXCEPT ![w] = None]
    /\ UNCHANGED <<dbVars, lease, used, task, attempt, verdict>>

\* The lock is taken: ImmutableRunError, and the locks already held go.
RefuseLease(w) ==
    /\ pc[w] = "lease"
    /\ lease[NextKey(w)] # None
    /\ Leave(w)
    /\ UNCHANGED dbVars

-----------------------------------------------------------------------------
(* Opening the run *)
\* Variant: an INSERT that overwrites the manifest of an existing run.
CreateRun_upsert(w) ==
    /\ pc[w] = "create"
    /\ status' = [status EXCEPT ![Run(w)] = "running"]
    /\ manifest' = [manifest EXCEPT ![Run(w)] =
                        [parent |-> Parent(w), config |-> req[w].config]]
    /\ Goto(w, "start")
    /\ UNCHANGED <<events, chunks, calls, rows, report, lease, workerVars>>

CreateRun(w) ==
    /\ pc[w] = "create"
    /\ status[Run(w)] = "absent"
    /\ status' = [status EXCEPT ![Run(w)] = "running"]
    /\ manifest' = [manifest EXCEPT ![Run(w)] =
                        [parent |-> Parent(w), config |-> req[w].config]]
    /\ Goto(w, "start")
    /\ UNCHANGED <<events, chunks, calls, rows, report, lease, workerVars>>

\* The request id was used before: the existing run is returned, or refused
\* when its configuration differs; either way nothing is written.
ReturnExisting(w) ==
    /\ pc[w] = "create"
    /\ status[Run(w)] # "absent"
    /\ Leave(w)
    /\ UNCHANGED dbVars

AppendStarted(w) ==
    /\ pc[w] = "start"
    /\ Running(Run(w))
    /\ AppendEvent(Run(w), "started")
    /\ Goto(w, "parse")
    /\ UNCHANGED <<status, manifest, chunks, calls, rows, report, lease, workerVars>>

\* load_chunks of the parent, or parse_pdf; then save_chunks.
SaveChunks(w) ==
    /\ pc[w] = "parse"
    /\ Parent(w) # None => chunks[Parent(w)]
    /\ Running(Run(w))
    /\ ~chunks[Run(w)]
    /\ chunks' = [chunks EXCEPT ![Run(w)] = TRUE]
    /\ Goto(w, "parsed")
    /\ UNCHANGED <<status, manifest, events, calls, rows, report, lease, workerVars>>
\* Variant: nobody notices that the parent has no chunks.
RefuseChunks_waits(w) == FALSE /\ pc[w] = "parse"

\* A parent that never saved its chunks has none to copy: save_chunks refuses
\* the empty list and the exception leaves the run running.
RefuseChunks(w) ==
    /\ pc[w] = "parse"
    /\ Parent(w) # None /\ ~chunks[Parent(w)]
    /\ Leave(w)
    /\ UNCHANGED dbVars

\* parse_pdf raises DocumentError: the run fails without any further part.
RejectDocument(w) ==
    /\ pc[w] = "parse"
    /\ Parent(w) = None
    /\ verdict' = [verdict EXCEPT ![w].status = "failed"]
    /\ Goto(w, "finalize")
    /\ UNCHANGED <<dbVars, lease, req, snap, inherited, used, task, attempt>>

\* The event; then the providers are built.  One that is misconfigured fails
\* the run before there is a context to keep diagnostics in.  A saved
\* generation stands for every generation task.
AppendParsed(w) ==
    /\ pc[w] = "parsed"
    /\ Running(Run(w))
    /\ AppendEvent(Run(w), "parsed")
    /\ \/ /\ task' = [task EXCEPT ![w] = IF Reusable(w, GenerationRow)
                                         THEN GenerationRow ELSE 1]
          /\ Goto(w, "work")
          /\ UNCHANGED <<inherited, verdict>>
       \/ /\ inherited' = [inherited EXCEPT ![w] = Nothing]
          /\ verdict' = [verdict EXCEPT ![w].status = "failed"]
          /\ Goto(w, "finalize")
          /\ UNCHANGED task
    /\ UNCHANGED <<status, manifest, chunks, calls, rows, report, lease,
                   req, snap, used, attempt>>

-----------------------------------------------------------------------------
(* The tasks *)

\* The evaluation's inputs are the suite: unless the suite itself was reused, a
\* saved evaluation may be of another suite, and its fingerprint another one.
MayReuse(w)  == task[w] # GenerationRow /\ Reusable(w, task[w])
MustReuse(w) == /\ Reusable(w, task[w])
                /\ task[w] = JudgeTask => Reusable(w, GenerationRow)

\* After a task's row is stored: the next task, or the end of the evaluation.
Advance(w) ==
    /\ attempt' = [attempt EXCEPT ![w] = 0]
    /\ IF task[w] = JudgeTask
       THEN /\ Goto(w, "finalize")
            /\ verdict' = [verdict EXCEPT ![w].evaluation = "completed"]
            /\ UNCHANGED task
       ELSE /\ Goto(w, "work")
            /\ task' = [task EXCEPT ![w] = @ + 1]
            /\ UNCHANGED verdict

\* A failed generation task fails the run; a failed evaluation does not.
Fail(w) ==
    /\ Goto(w, "finalize")
    /\ verdict' = [verdict EXCEPT ![w] =
                     IF task[w] = JudgeTask THEN [@ EXCEPT !.evaluation = "failed"]
                                            ELSE [@ EXCEPT !.status = "failed"]]
\* Variant: the parent's row is copied with the provenance it has there.
ReuseTask_unlinked(w) ==
    /\ pc[w] = "work"
    /\ MayReuse(w)
    /\ Running(Run(w))
    /\ PutRow(Run(w), task[w], snap[w][task[w]])
    /\ Advance(w)
    /\ UNCHANGED <<status, manifest, events, chunks, calls, report, lease,
                   req, snap, inherited, used>>

ReuseTask(w) ==
    /\ pc[w] = "work"
    /\ MayReuse(w)
    /\ Running(Run(w))
    /\ PutRow(Run(w), task[w], [snap[w][task[w]] EXCEPT !.reusedFrom = Parent(w)])
    /\ Advance(w)
    /\ UNCHANGED <<status, manifest, events, chunks, calls, report, lease,
                   req, snap, inherited, used>>
\* A task's answer is asked for; the suite of a single agent may be asked for
\* repairs, one after the other (_repair_coverage, context.revise), before the
\* outcome of generation is known.
Asking(w) ==
    /\ ~MustReuse(w)
    /\ \/ pc[w] = "work"
       \/ pc[w] = "valid" /\ task[w] = GenerationRow /\ attempt[w] < MaxRepairs

\* The provider settles its reservation in the ledger.
CallModel(w) ==
    /\ Asking(w)
    /\ used' = [used EXCEPT ![w] = @ + 1]
    /\ attempt' = [attempt EXCEPT ![w] = @ + 1]
    /\ Goto(w, "settled")
    /\ UNCHANGED <<dbVars, lease, req, snap, inherited, task, verdict>>
\* Variant: a refused answer is always retried.
AppendCall_unlimited(w) ==
    /\ pc[w] = "settled"
    /\ Running(Run(w))
    /\ calls' = [calls EXCEPT ![Run(w)] = @ + 1]
    /\ \/ Goto(w, "valid") /\ UNCHANGED verdict
       \/ Goto(w, "work") /\ UNCHANGED verdict
       \/ Fail(w)
    /\ UNCHANGED <<status, manifest, events, chunks, rows, report, lease,
                   req, snap, inherited, used, task, attempt>>

\* Variant: only an accepted answer is recorded, not a failed attempt.
AppendCall_onlyAccepted(w) ==
    /\ pc[w] = "settled"
    /\ Running(Run(w))
    /\ \/ /\ calls' = [calls EXCEPT ![Run(w)] = @ + 1]
          /\ Goto(w, "valid") /\ UNCHANGED verdict
       \/ UNCHANGED calls /\ Fail(w)
    /\ UNCHANGED <<status, manifest, events, chunks, rows, report, lease,
                   req, snap, inherited, used, task, attempt>>

\* append_call_attempt; then the answer is accepted, or retried, or is the
\* error that ends the task.
AppendCall(w) ==
    /\ pc[w] = "settled"
    /\ Running(Run(w))
    /\ calls' = [calls EXCEPT ![Run(w)] = @ + 1]
    /\ \/ Goto(w, "valid") /\ UNCHANGED verdict
       \/ attempt[w] < Attempts(task[w]) /\ Goto(w, "work") /\ UNCHANGED verdict
       \/ Fail(w)
    /\ UNCHANGED <<status, manifest, events, chunks, rows, report, lease,
                   req, snap, inherited, used, task, attempt>>

\* An error that costs nothing: a blocked reservation, a refused request.
FailTask(w) ==
    /\ Asking(w)
    /\ Fail(w)
    /\ UNCHANGED <<dbVars, lease, req, snap, inherited, used, task, attempt>>

NewRow(w) == [fingerprint |-> req[w].config, madeBy |-> Run(w), reusedFrom |-> None]

AppendStage(w) ==
    /\ pc[w] = "valid"
    /\ task[w] # GenerationRow
    /\ Running(Run(w))
    /\ PutRow(Run(w), task[w], NewRow(w))
    /\ Advance(w)
    /\ UNCHANGED <<status, manifest, events, chunks, calls, report, lease,
                   req, snap, inherited, used>>

\* Generation is over: nothing was repaired, or every repair was answered.
Generated(w) ==
    /\ task[w] = GenerationRow
    /\ pc[w] = "valid" \/ (pc[w] = "work" /\ attempt[w] = 0)

\* record_stage("generation") of a valid suite, new or saved.
AppendGeneration(w) ==
    /\ Generated(w)
    /\ Running(Run(w))
    /\ PutRow(Run(w), GenerationRow,
              IF Reusable(w, GenerationRow)
              THEN [snap[w][GenerationRow] EXCEPT !.reusedFrom = Parent(w)]
              ELSE NewRow(w))
    /\ Advance(w)
    /\ UNCHANGED <<status, manifest, events, chunks, calls, report, lease,
                   req, snap, inherited, used>>

\* The suite is still invalid after its repairs: no row, the run will be
\* failed, and the judge evaluates it nevertheless.
RejectSuite(w) ==
    /\ Generated(w)
    /\ ~Reusable(w, GenerationRow)
    /\ verdict' = [verdict EXCEPT ![w].status = "failed"]
    /\ task' = [task EXCEPT ![w] = JudgeTask]
    /\ attempt' = [attempt EXCEPT ![w] = 0]
    /\ Goto(w, "work")
    /\ UNCHANGED <<dbVars, lease, req, snap, inherited, used>>

-----------------------------------------------------------------------------
(* The end *)

\* One transaction: everything of the result, the event, the status.
Finalize(w) ==
    /\ pc[w] = "finalize"
    /\ Running(Run(w))
    /\ status' = [status EXCEPT ![Run(w)] = verdict[w].status]
    /\ report' = [report EXCEPT ![Run(w)] =
                    [charged |-> used[w], inherited |-> inherited[w].cost,
                     evaluation |-> verdict[w].evaluation]]
    /\ AppendEvent(Run(w), "finished")
    /\ Goto(w, "close")
    /\ UNCHANGED <<manifest, chunks, calls, rows, lease, workerVars>>

Close(w) ==
    /\ pc[w] = "close"
    /\ Leave(w)
    /\ UNCHANGED dbVars

\* The process dies, or an exception with no failure category (a database
\* error, a programming defect) is raised again: the run stays as it is.
Abandon(w) ==
    /\ pc[w] # "idle"
    /\ Leave(w)
    /\ UNCHANGED dbVars

\* The session that holds the locks is lost; its worker does not notice.
DropLease(w) ==
    /\ LeasesMayDrop
    /\ pc[w] \in Executing \cup {"create"}
    /\ Held(w) # {}
    /\ lease' = LeaseWithout(w)
    /\ UNCHANGED <<dbVars, pc, workerVars>>

-----------------------------------------------------------------------------
Init ==
    /\ status = [r \in RunId |-> "absent"]
    /\ manifest = [r \in RunId |-> None]
    /\ events = [r \in RunId |-> << >>]
    /\ chunks = [r \in RunId |-> FALSE]
    /\ calls = [r \in RunId |-> 0]
    /\ rows = [r \in RunId |-> NoRows]
    /\ report = [r \in RunId |-> None]
    /\ lease = [r \in RunId |-> None]
    /\ pc = [w \in Worker |-> "idle"]
    /\ req = [w \in Worker |-> None]
    /\ snap = [w \in Worker |-> NoRows]
    /\ inherited = [w \in Worker |-> Nothing]
    /\ used = [w \in Worker |-> 0]
    /\ task = [w \in Worker |-> 1]
    /\ attempt = [w \in Worker |-> 0]
    /\ verdict = [w \in Worker |-> Pending]

\* The steps run_generation takes by itself once it was called.
Progress(w) ==
    \/ InheritCost(w) \/ AcquireLease(w) \/ RefuseLease(w)
    \/ CreateRun(w) \/ ReturnExisting(w) \/ AppendStarted(w)
    \/ SaveChunks(w) \/ RefuseChunks(w) \/ RejectDocument(w) \/ AppendParsed(w)
    \/ ReuseTask(w) \/ CallModel(w) \/ AppendCall(w) \/ FailTask(w)
    \/ AppendStage(w) \/ AppendGeneration(w) \/ RejectSuite(w)
    \/ Finalize(w) \/ Close(w)

Next == \E w \in Worker : Submit(w) \/ Progress(w) \/ Abandon(w) \/ DropLease(w)

Spec == Init /\ [][Next]_vars

\* A worker that is alive keeps running; nobody has to submit, or to die.
FairSpec == Spec /\ \A w \in Worker : WF_vars(Progress(w))

-----------------------------------------------------------------------------
(* Properties *)

Executes(w, r)   == pc[w] \in Executing /\ Run(w) = r
\* A leased recovery: a live worker building a run out of run p.
Recovers(w, p)   == pc[w] \in Executing \cup {"create"} /\ Parent(w) = p
Abandoned(r)     == status[r] = "running" /\ ~\E w \in Worker : Executes(w, r)
Record(r)        == <<status[r], manifest[r], events[r], chunks[r], calls[r],
                      rows[r], report[r]>>

\* What a reader sees of a run, as the journal of RunRecord.
Journal(r) == {<<events[r][i], i, 0>> : i \in DOMAIN events[r]}
              \cup {<<"call", i, 0>> : i \in 1..calls[r]}
              \cup {<<"chunks", i, 0>> : i \in {j \in {0} : chunks[r]}}
              \cup {<<"row", t, rows[r][t]>> : t \in {u \in Task : rows[r][u] # None}}

JournalEntry == ({"started", "parsed", "finished", "call", "chunks"} \X Nat \X {0})
                    \cup ({"row"} \X Task \X Row)

OutcomeOf(r) == IF status[r] \in Terminal
                THEN [status |-> status[r], report |-> report[r]]
                ELSE None

Store == INSTANCE RunRecord WITH
    Runs <- RunId,
    Identity <- Manifest,
    Entry <- JournalEntry,
    identity <- manifest,
    journal <- [r \in RunId |-> Journal(r)],
    outcome <- [r \in RunId |-> OutcomeOf(r)]

\* RunRepository keeps RunRecord's promise to its readers, with every worker,
\* crash and lost lease of this module.
KeepsTheRecord == Store!Spec

TypeOK ==
    /\ status \in [RunId -> {"absent", "running"} \cup Terminal]
    /\ manifest \in [RunId -> Manifest \cup {None}]
    /\ events \in [RunId -> Seq({"started", "parsed", "finished"})]
    /\ chunks \in [RunId -> BOOLEAN]
    /\ calls \in [RunId -> Nat]
    /\ rows \in [RunId -> [Task -> Row \cup {None}]]
    /\ report \in [RunId -> Report \cup {None}]
    /\ lease \in [RunId -> Worker \cup {None}]
    /\ pc \in [Worker -> Phase]
    /\ req \in [Worker -> Request \cup {None}]
    /\ \A w \in Worker : pc[w] # "idle" => req[w] \in Request
    /\ snap \in [Worker -> [Task -> Row \cup {None}]]
    /\ inherited \in [Worker -> [cost : [RunId -> Nat], seen : SUBSET RunId, next : RunId \cup {None}]]
    /\ used \in [Worker -> Nat]
    /\ task \in [Worker -> Task]
    /\ attempt \in [Worker -> Nat]
    /\ \A w \in Worker : attempt[w] <= Attempts(task[w])
    /\ verdict \in [Worker -> [status : Terminal, evaluation : Evaluation]]

\* However the leases fare, the primary key of runs lets one worker, once,
\* execute a given run: a repeated request id never joins a run in progress.
OneExecutor ==
    \A v, w \in Worker, r \in RunId : Executes(v, r) /\ Executes(w, r) => v = w

\* "One live execution/recovery per source run" (run_lease): while a worker
\* recovers a run, nobody else executes that run or recovers it too.
OneLiveRecovery ==
    \A v, w \in Worker, p \in RunId :
        v # w /\ Recovers(v, p) => ~Executes(w, p) /\ ~Recovers(w, p)

\* A run that is over, or that its worker abandoned, is never written again, by
\* anybody: recovery copies it and original results remain unchanged.
SettledRunsFrozen ==
    [][\A r \in RunId : status[r] \in Terminal \/ Abandoned(r)
            => Record(r)' = Record(r)]_vars

\* Checkpoints, events and call attempts are only ever added, and a run is
\* opened and finalized once (append_stage_output, append_event,
\* append_call_attempt and finalize, under every interleaving and crash).
Prefix(s, t) == Len(s) <= Len(t) /\ \A i \in 1..Len(s) : s[i] = t[i]
JournalOnlyGrows ==
    [][\A r \in RunId :
        /\ manifest[r] # None => manifest'[r] = manifest[r]
        /\ Prefix(events[r], events'[r])
        /\ calls[r] <= calls'[r]
        /\ \A t \in Task : rows[r][t] # None => rows'[r][t] = rows[r][t]]_vars

\* finalize is atomic: status, report and the last event tell the same story,
\* and the cost it reports is the cost of the calls on record, so no call of a
\* finalized run went unrecorded.
FinalRecordAgrees ==
    \A r \in RunId :
        /\ (status[r] \in Terminal) <=> (report[r] # None)
        /\ (report[r] # None) <=>
              (events[r] # << >> /\ events[r][Len(events[r])] = "finished")
        /\ report[r] # None => report[r].charged = calls[r]

\* Reuse is a chain of identical outputs from run to parent, which ends at the
\* run whose own calls made the output, under the same configuration.
ReuseIsGrounded ==
    \A r \in RunId, t \in Task : rows[r][t] # None =>
        LET row == rows[r][t] IN
        /\ row.fingerprint = manifest[r].config
        /\ IF row.reusedFrom = None
           THEN row.madeBy = r
           ELSE /\ row.reusedFrom = manifest[r].parent
                /\ rows[row.reusedFrom][t] # None
                /\ rows[row.reusedFrom][t].madeBy = row.madeBy
                /\ rows[row.reusedFrom][t].fingerprint = row.fingerprint

\* The run p and the runs it was recovered from, transitively.
Ancestry(p) ==
    {x \in RunId : \A S \in SUBSET RunId :
        (p \in S /\ \A y \in S : ParentOf(y) # None => ParentOf(y) \in S)
            => x \in S}

\* A recovery never reports a cost its ancestors did not have, nor the cost of
\* a run that is not its ancestor, and so counts nothing twice.
InheritedIsReal ==
    \A r, x \in RunId : report[r] # None /\ report[r].inherited[x] > 0 =>
        /\ manifest[r].parent # None /\ x \in Ancestry(manifest[r].parent)
        /\ x # r
        /\ report[r].inherited[x] <= OwnCost(x)

\* inherited_budget_tokens: "Sum each durable ancestor's own cost, including
\* interrupted ancestors."  For a completed recovery of a run that is over.
InheritedIsComplete ==
    \A r \in RunId :
        LET p == manifest[r].parent IN
        status[r] = "completed" /\ p # None /\ status[p] \in Terminal
            => report[r].inherited[p] = OwnCost(p)

\* Every call of run_generation that does not die returns or raises.
EveryCallEnds == \A w \in Worker : pc[w] # "idle" ~> pc[w] = "idle"

\* Leaving the `with` block releases every lock, also when only some of the
\* keys were acquired: no run stays locked out of recovery.
LeasesAreReleased == \A r \in RunId : lease[r] # None ~> lease[r] = None
=============================================================================
