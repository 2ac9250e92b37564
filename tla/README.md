# A verification of the run store and the run pipeline

The program turns a requirements document (BRD or SRS) into a test suite: one
call of `run_generation` parses the document, asks language models for
requirements, scenarios and test cases in many small tasks, checks the result,
has a judge score it, and records everything in PostgreSQL. Runs cost money, so
a run that failed or was interrupted can be *recovered* by a new run that copies
its validated outputs; runs are evidence in an experiment, so what is recorded
must never change and costs must add up.

This directory holds TLA+ models of the parts where several actors, crashes and
budgets meet, and of the workflows that make, review, judge and store a suite; TLC configurations that check them on small instances, and TLAPS
proofs of their main properties for all values of the constants.

    tlc -config RunLifecycle.cfg MCRunLifecycle.tla      # one run
    tlapm RunLifecycleProofs.tla                         # one proof module

Paths below are relative to `src/brd_srs_testgen/` unless they start with `src/`.

## 1. Inventory

| Component | State | Operations | Interacts with | Hard because |
|---|---|---|---|---|
| Run lifecycle (`runner.run_generation`) | local: parent snapshot, inherited cost, two ledgers, context, verdict | one call, from arguments to result | store (one connection per call), lease, providers, pipeline | processes die anywhere; several pages, tabs and commands run it at once; parent read before the lease |
| Run store (`storage.RunRepository`, `schema.sql`) | tables of runs, events, chunks, calls, stage outputs, results | `create_run`, `append_*`, `save_chunks`, `finalize`, loads | everything | rows of a run are written over minutes, by transactions of their own; terminal runs are immutable |
| Lease (`storage.run_lease`) | session-level advisory locks on run ids | acquire in order, release on close | lifecycle | bound to one idle session; two locks are taken one by one |
| Recovery (`pipelines.PipelineContext.task`, `record_stage`) | checkpoints of the parent, rows of this run | reuse by fingerprint, produce, record | store, lifecycle | chains of recoveries; stale snapshots; changes of configuration |
| Budget ledger (`providers.BudgetLedger`) | `used`, `reserved`, active reservations | `reserve`, `cancel`, `settle` | every provider call of a run | threads; settlement may exceed the reservation |
| Model calls (`pipelines.generate`, `_generate_attempt`) | retries, repairs, observed timeout | attempt, retry, repair, record | providers, ledger, store, cancellation event | errors of five kinds, each with its own rule |
| Worker pool (`pipelines._run_parallel_workers`) | futures, cancellation event, first error | submit, fail, cancel, wait, raise | model calls | threads fail at the same time; a cancelled sibling fails too |
| Coverage catalog (`storage`, `coverage`, `benchmark.import_catalog`, `src/app.py`) | one row per document and evaluator version | load, extract, save, evaluate, import, approve | judge of every run of a document, reviewers | runs race to make it; scores are only comparable against one catalog |
| Efficient pipeline (`efficient.py`) | checkpoints per task index, bundle, findings | bounded task, split, curate, audit, design, review, repair, gap | model calls, recovery | task identities across recoveries; merge chains; findings and repairs |
| Corrected pipeline (`pipelines.py`) | bundle, findings | scouts, curator, architect, writers, critic, repairs | pool, model calls | as above, in threads |
| Validation and metrics (`validation.py`) | none | validate, matrix, metrics | pipelines, lifecycle | three computations of one notion of coverage |
| Human review (`storage`, `evaluation.py`, `src/app.py`) | ratings, adjudications | rate, adjudicate, agree | store | a form is many transactions; concurrent raters; only uniqueness guards |
| Benchmark (`benchmark.py`) | planned trials, spent tokens, rating sheet, mapping | freeze, execute, restart, export | lifecycle, catalog | budget gate across restarts; two executions at once |
| Application (`src/app.py`) | a session's request ids, current page | start, recover, approve, rate | all | pages are run again at any time |
| Documents, evidence, prompts, models | none | pure functions | pipelines | boundaries of text only |

What makes each correct:

* lifecycle and store: one executor per run; a settled run is frozen; the
  record only grows; what a finalized run reports agrees with its record;
* recovery: outputs are reused only where they were made under the same
  configuration, through an unbroken chain; ancestors' costs are counted once;
* lease: one live recovery of a run; every lock is given back;
* ledger: the reserved counter equals the active reservations; the ceiling is
  overshot only by calls that were in flight;
* pool: the error raised is the one that caused the failure; nothing is spent
  or stored after the pool was left; every retry runs out;
* efficient pipeline: split halves make a whole; every task has one row; a
  recovery never pays for what its parent validated from the same inputs;
* both pipelines: every chunk is read once, every candidate is accounted for,
  answers that pass their own check make a valid suite, a run completes only
  with findings verified as it returns them, and a failure keeps the draft;
* store: a suite, also one with an id used twice, is read back as it was;
* catalog: all scores are against the one stored catalog; what is approved is
  what was read; a failing judge does not lose the suite; a score is of every
  test case against every unit;
* human review: a rater's ratings of a run are one submission; agreement is
  measured between two raters, and the gate cannot pass on no disagreement;
* benchmark: the experiment's budget is kept, trials are bought once and in
  order, against the approved catalog, and finished executions report the same.

## 2. Modules

| Module | Models | Extends / instantiates |
|---|---|---|
| `RunRecord` | the abstract promise of the store: a journal that is opened once, only grows, is closed once | |
| `RunLifecycle` | `run_generation` by several workers over the store's tables | `RunRecord` (refinement) |
| `BudgetLedger` | the ledger, its callers unconstrained | |
| `WorkerPool` | the pool with its threads' model calls | `BudgetLedger` (instance) |
| `CoverageCatalog` | the catalog's row, judges, imports, reviewer | |
| `BoundedTask` | the efficient pipeline's tasks: correction, split, checkpoints, in a chain of recoveries | |
| `Suite` | suites, validator, matrix, metrics, grouping, and the checks of models' answers, as operators | |
| `StoredSuite` | the tables of a suite and of its validation, written and read back | `Suite` |
| `Pipeline` | what the phases of a generation share: profile, step, rows, bundle, draft | `Suite` |
| `Curation`, `Drafting`, `Review`, `Judging` | the phases: chunks to requirements; to a first suite; review and repair; the judge | `Pipeline` |
| `Generation` | the three workflows, the phases composed, with a failure at every task | the four phases, `StoredSuite` |
| `Experiment` | the benchmark's run command, over the catalog | `CoverageCatalog` |
| `HumanReview` | rating forms, adjudication, agreement | |
| `MC*` | instances for TLC | their module |
| `FoldTheorems` | lemmas on sums, folds and flattened sequences | TLAPS |
| `RunLifecycleProofs`, `WorkerPoolProofs` (the ledger's too), `BoundedTaskProofs`, `HumanReviewProofs`, `GenerationProofs` | theorems | their module, TLAPS; the last two `FoldTheorems` |
| `StorageProofs` | theorems about the rows a generation stores: its tasks' and its suites' | `GenerationProofs` |
| `ExperimentProofs` | theorems about the catalog, then about the experiment over it | `Experiment`, `FoldTheorems` |

**RunLifecycle.** `pc[w]` is where worker `w` stands in `run_generation`; one
action is one transaction (`AppendStarted`, `SaveChunks`, `AppendCall`,
`AppendStage`, `Finalize`, ...), one settled call (`CallModel`), or one read of
another run (`Submit` loads the parent's outputs, `InheritCost` one ancestor's
cost: the walk up the chain is a loop of reads, `Round`, between which the
ancestors may go on). Between the last task and the outcome of generation the
suite of a single agent may be asked for repairs, calls of the model like any
other (`Asking`, `Generated`; `MaxRepairs` bounds them). The
database variables are the tables, the worker variables the locals.
`_require_running` is the guard `Running`, the primary key of `runs` the guard
of `CreateRun`, `ON CONFLICT DO NOTHING` followed by a comparison is `PutRow`.
Tasks are numbered in order: generation tasks, the validated suite (stage
"generation"), the judge. A row carries its fingerprint, the run whose calls
made it (a history component, `madeBy`) and `reused_from`. `Abandon` is the
death of a process and every exception without a failure category (`raise` at
`runner.py:962`), database errors included: the run stays "running".
`DropLease` is the loss of the lease's session.

Left out or simplified: all runs are of one document; every call costs one
token; tasks are sequential (the default, "efficient" profile is; threads are
`WorkerPool`'s subject, and the outputs they record carry no fingerprint and
cannot be reused); the judge's catalog and evaluation are one task here and
`CoverageCatalog`'s and `Judging`'s subject; requests come with a request id, as the
application's do; a call that is refused before it changes anything is no step.
The check for a cycle (`seen`) is modelled and never fires: a parent is older
than its recovery. `AppendGeneration` and the repairs are open to every run type,
where the code repairs only a single agent's suite: more behaviours, the same
record.

**WorkerPool.** Every group of work has a future, a place (`pc`) in its thread
and the counts of its current `generate()`. A step is what one lock or one
thread does atomically: the event is read in `CheckCancellation` and acted upon
in later steps; `KeepError` and `SignalCancel` are the two statements of
`invoke`; the caller cancels one future per step. The provider's failures are
grouped by what the caller does about them: `RefuseRequest` (nothing reserved),
`CancelReservation` (never sent), `SettleEstimate` (failed, charged its
estimate), `SettleActual` (answered, then good, malformed or unusable),
`LoseReservation` (a local provider, where the body of the answer is read
outside the guard that settles: a broken connection, a "fault", or a read that
times out, a "timeout" for `_failure_category` too). `local` says whether a provider of the run is
local, which also makes the pool one thread wide. Causes are "budget", "timeout" and "fault"
for everything else. Settling and recording are one step here, and two in
`RunLifecycle`. Completion order is nondeterministic. Progress callbacks cannot
raise (`notify` catches). `late` is a history variable.

**CoverageCatalog.** The row, its status and every writer's local `catalog`.
`SaveCatalog` is the transaction INSERT, SELECT, compare. Each writer's
`created_at` is its own, so the writer's name is part of its catalog and a
later writer is always rejected. A run whose `save` is rejected is abandoned,
because `ImmutableRunError` is not among the errors the judge handles.
`ErrorsFit` says whether judge errors always have a message an evaluation can
hold (1 to 2,000 characters). The reviewer may press the button at any time
after the page was shown. `approved` is a history variable.

**BoundedTask.** `PipelineContext.task` and `efficient.bounded_task` for the
groups of `Plan`, one after another, in a chain of runs each of which recovers
any earlier one. `pc` and `child` are the position in the recursion, which is at
most two deep: the whole task or one of its halves, before the checkpoint is
looked up ("enter"), at the model ("ask"), or with both halves at hand
("combine"). `Record` is the end of `task`: the row and the return to the
caller, which is the pipeline or the split. `SlotOf` is (stage, task_index) with
the stride of three that every caller uses, `Fingerprint` what the hash is of:
configuration, assigned items and, for what prompts quote of earlier work, all
earlier outputs of the run. (A scout's prompt quotes none; since a run's rows
are a prefix of its tasks, that makes no difference to what is reused.) Groups
are fixed where the code forms them from earlier outputs. A value is a piece for
every item with the run that made it (a history component); validators check
that the items are covered and, in the stages of `Extracting`, what
`_validate_extraction` checks of citations across items. The other validators
were read one by one: they hold of a combination if they hold of its parts, with
ids renumbered by `combine`. The disposition "unresolved" is left out: it passes
validation and stops the run after the audit.

**Generation.** One run of one workflow, a task per step. `step` is where
`run_efficient_pipeline`, `run_centralized_multi_agent` or `run_generation`
stands, `rows` the (stage, task_index) identities its tasks have claimed
(`Claim`; a second claim of one ends in "conflict", as the primary key of stage
outputs would), `bundle` the suite handed on, `draft` the `partial_bundle` a
failed run keeps. A task yields any answer that passes that task's checks, or
`Fail`s: what happens inside it is `BoundedTask`'s and `WorkerPool`'s. A suite is
three sequences of artifacts; ids are numbers, text and citations are versions,
links are sets. Stages of a phase that ended are dropped from `rows` at
`HandOver`, for no later task has one of them. A phase's variables are reset
with the locals they stand for.

* `Curation`: the efficient pipeline's scouts run one by one with a source audit
  each; then batches of decisions against the requirements retained so far, and
  the audit of what was rejected. The corrected pipeline's scouts end in any
  order; its curator decides and writes at once, or decides first and writes in
  parts. A candidate stands for the citations it brings.
* `Drafting`: designs, numbered locally and renumbered as they arrive; or the
  architect's scenarios and the writers' shares of them; or the single answer of
  a single agent. With an efficient context the staged agent has three tasks, each
  with its row, its check and the draft it leaves (`Staged*`); "single" is the
  single prompt, and the staged agent without such a context, whose three calls
  have no check and no row between them (`pipelines.py:509-543`).
* `Review`: critic tasks over parts of the suite, repair groups closed under
  shared targets, patches within the scope of their findings, additions for
  what is missing, a verification per group; or one report, repairs by role and
  one verification. A group that mixes additions and corrections is handled by
  additions alone, as in the code: only its verification can then keep the
  correction from being forgotten. The efficient pipeline validates after each
  group, the corrected one once at the end.
* `Judging`: extraction without duplicates unless a catalog is stored, every test
  case asked about with every unit, and `compute_f1` with fractions. The same
  judge follows every workflow; the instance runs it on the suites of a single
  agent, which are the ones that can be odd: an id used twice, links to nothing.
* `StoredSuite`: `Insert*` are the rows written, `Load*` what is read back. `ORDER
  BY position` is the place a row has by the number of rows before it
  (`InPosition`); authored lists of one artifact are one version number, and its
  links, which the code stores as ordered lists (`storage.py:597-608`, `655-664`),
  are sets: their order, and a link given twice, are below the model.

What a curator, an audit or a scout may answer is bounded by named constants:
`MaxCandidates`, `MaxRequirements`, `MaxDependencies` for one requirement,
`MaxDependents` for how many have any, and a critic by `MaxReport` findings in one
report and `MaxFindings` in all. The theorems need none of the bounds' values.

Left out: the words of citations (grounded or not is one bit), dependencies'
context in prompts, scenario types, duplicate test texts. The corrected pipeline does
not check dependency ids at all, and a merge with an edit can make a requirement
depend on itself; both are in the model and nothing in the code objects.
An evaluation task whose test cases use one id in both halves of a split is
refused when combined; in `Judging` such a task is answered or fails.

**Experiment.** Each `Execution` is one start of `benchmark.execute`, which stops
at any statement (`Stops`) and need not be the only one. `at` is its place in the
frozen order, `spent` its local. A trial's run is `Run` of `CoverageCatalog`,
whose `Judge` is its judge; its calls only add to `cost`, up to the ledger's
ceiling and what the last settlement may exceed it by (`Over`). `cost` is what is on
record, as `execute` counts it: a call whose process dies before its row is stored
costs money that nobody counts. Leases are kept:
what their loss does is `RunLifecycle`'s subject. `sheet` is a file that is
created empty and filled in a second step. One document, one repetition order;
the manifest is taken as validated.

Three things the model shows that no property forbids: an execution may find
that another one created the trial's run just before it and died, and records that
interrupted run although `benchmark.py:160` is meant to stop there; a death
between creating and filling `ratings.csv` leaves an empty sheet that no later
execution fills; and `results.json`, rewritten after each trial of a restarted
command, is shorter for a while.

**HumanReview.** A session reads the ratings of a run (`Render`: the read of the
rerun in which the form is submitted, `src/app.py:1993`), submits a form that passes
what it read (`Submit`, any time later: more than the code allows, nothing less), and stores it dimension by dimension
(`SaveRating`), each in its own transaction, until the uniqueness of (run, rater,
dimension, round) refuses one or the session is lost. Kappa is a fraction,
where the code computes with floats; the threshold 0.70 is compared exactly.
Which of two raters is on the left depends on who was first, run by run, so the
marginals of kappa may mix raters, as in the code. The model also shows what the
page does not say: a form stored in part locks its rater out and counts towards
"Two independent raters have completed this run." (`src/app.py:2079`), and a run
with three raters, who opened the form together, is left out of the agreement
silently.

## 3. Runs

| Run | Shows | Bounds |
|---|---|---|
| `run_lifecycle` | typing, one executor, real inherited costs, frozen settled runs, the promise of `RunRecord`; all without relying on leases | 2 workers, 2 runs, both fresh or the second a recovery of the first, the suite with a repair and its judging, 1 call per task, leases may drop |
| `run_tasks` | final records agree, reuse is grounded and costs are inherited once through a chain | 1 worker, a run, its recovery and the recovery's recovery, 1 generation task, 2 calls per task, 1 repair, 2 configurations |
| `run_liveness` | one live recovery while leases hold; every call ends, every lock is given back | 2 workers, a run and its recovery, fair |
| `worker_pool` | typing, bounded overshoot of the ledger, honest outcome, spending after a failure, nothing left behind | 3 groups, 2 threads, one retry, repair and correction |
| `pool_liveness` | the pool ends | 2 groups, on 2 threads or on 1 with lost reservations, fair |
| `bounded_task` | halves make a whole, rows agree with their run, nothing is asked twice, every run ends | 3 runs, each fresh or a recovery of any earlier one, 2 configurations; groups of 3, 1 and 1 items in 2 stages; room for 0 to 3 items; fair |
| `generation` | both pipelines and the single agents: chunks read once, candidates accounted for, drafts valid, rows distinct, findings verified, drafts kept, linking harmless, validator and matrix at one, scores whole, suites read back | 2 documents of 2 and 3 chunks, 3 candidates, 2 requirements, 1 of them with 1 dependency, answers of up to 2 artifacts, 3 findings of 5 kinds, at most 2 in a report, 10 single answers, 2 statements |
| `experiment` | comparable scores, approval as reviewed, the budget, trials that only measure, equal reports, one trial at a time | 2 executions, 2 trials, 1 other run, 1 import, 2 unit lists, ceilings of 1 with an excess of 1, a budget of 3 |
| `human_review` | one form per rater, kappa measures agreement, the gate is earned | 2 runs, 3 raters, 2 sessions, 4 forms, 2 dimensions, 2 answers |

Three runs expect a violation, each of something the repository says:

| Run | Says | But |
|---|---|---|
| `run_inherited_cost` | inherited cost sums each ancestor's *own cost* (`runner.py:575`) | it is read at `runner.py:617`, before the lease of line 641; a parent that is still running, and finishes in between, costs more than is inherited |
| `scout_split` | truncation is split once and validated work saved (`efficient.py:63`), for recoveries to reuse (`src/README.md:31`) | a scout may cite its neighbour's chunk: when a split separates them and the other half calls that chunk not testable, both halves are valid and saved, and their combination is refused, in this run and in every recovery |
| `catalog_race` | expected judge failures preserve the generation (`src/docs/token-efficiency-implementation-2026-09-29.md:11`) | the loser of a race to save a document's first catalog leaves its finished suite in a run that stays "running" |

The last promise is also broken by a judge's failure whose message
`CoverageEvaluation` refuses, being blank or over 2,000 characters: that raises
inside the handler itself (`runner.py:913`, `runner.py:961`). The messages are those of
whatever the provider raised (`providers.py:246`) or of a validation error with a line
for every mistake of an answer (`efficient.py:90`), as they are. With `ErrorsFit = FALSE`
the same run shows it for a single run, in place of the race; `experiment` has
`ErrorsFit = FALSE` and shows that the benchmark does not go on past such a trial.

That a run has one live recovery (`storage.py:293`) holds while leases last
(`run_liveness`, `RecoveryExclusive`) and not when a lease's session is lost,
which nobody notices; `run_lifecycle` shows that no record suffers then.

One more page disagrees with the code without needing a run to show it:
`src/docs/research-core-operations.md:94` says that completed outputs are not
resumable. They are, as every recovery in `run_tasks` shows; the page is older
than recovery.

A recovery whose parent died after storing any checkpoint of a task's first half
splits that task without asking for the whole (`efficient.py:75`), whatever made
the half; `bounded_task` shows that this costs no request twice and changes no
result.

Why the bounds are enough for what they are used for: interference in the
lifecycle is between a run and its recovery, or two recoveries, which two
workers and two runs give in every order (the recovery of `run_lifecycle` asks for its
parent's lock first, that of `run_liveness` for its own); three runs give the shortest chain in
which a copy is copied, and whose costs are read in two steps; one generation task, the suite and its judging, with a
retry, give "one done, one not" and "called twice". `Submit` may be repeated, so
a run's request is also sent late and twice. In the pool three groups on two
threads give a running, a failing and a pending sibling at once; the ceiling of 6
admits three of the reservations of 2, so budget failures and successes mix; one
retry, repair and correction are the code's 2, 2 and 1 with the interesting cases
(none left, one left) kept.

A group of three splits unevenly, the group after it has the indices its halves
would run into if the stride were wrong, and the last stage depends on both; three
runs give a recovery that starts from a split's first half, and one that starts
from a recovery. The finding needs one group of two chunks.

In `generation` one document has a chunk above the limit and two that share a
group. Three candidates give a batch that is full and one that is not, a
merge within a batch and across batches; two requirements and tasks of one or two
give every phase a first and a later task. The complaints are chosen so that two
of them share a target only through a third, one is within reach of each kind of
repair, and two ask for additions; the strides are the smallest at which the
identities of the bounded tasks do not meet (6 for 300, 30 for 1,000,000). The
code's own stride is exceeded only by more than a hundred tasks in one repair,
which takes findings on over a thousand requirements that overlap one another. The single answers are
invalid in each way that matters to linking, storing or judging; the staged
agent's requirements are taken from them. In `experiment` the
budget admits the second trial only if the first stayed within its ceilings; two
executions, each of which may stop anywhere, give a restart and a race. In
`human_review` three raters are one more than a run needs, and four forms
complete two runs.

The largest runs (`run_lifecycle`, `run_tasks`, `generation`) have 0.5 to 2.7 million
states and take two to three minutes with two workers; the bounds are the largest
that keep them there.

Deadlock is checked in the lifecycle, where a worker can always submit. The others
really stop, and their runs say `CHECK_DEADLOCK FALSE`. Symmetry is used on
workers, executions, runs, raters, sessions and unit lists, never with liveness.

Fairness: `RunLifecycle!FairSpec` is weak fairness of each worker's own steps:
the code has no waiting in it (locks are only tried, calls have timeouts,
retries are counted), so a live worker's next statement is always enabled.
Nobody has to submit, crash or lose a lease. `WorkerPool!FairSpec` is weak
fairness of each thread and of the caller: provider calls have timeouts, delays
are bounded, and a pending group is started when a thread is free.
`BoundedTask!FairSpec` is weak fairness of the run in progress: its process
goes on and its calls return; starting a run and dying are never forced.
`Generation`, `Experiment` and `HumanReview` state no liveness: a generation is a
bounded loop over tasks that end, an experiment may be left stopped by whoever
started it, and raters need not rate.

## 4. Theorems

All proofs are by inductive invariants, for any finite or infinite set of
workers, runs, groups, units, executions, raters, any document, plan and order,
and any bounds, from the named assumptions in the modules. These say what the
constants are (sizes are natural numbers, an order of trials lists each once, a
form has a dimension, the items of a plan are distinct, what a single agent answers
with has the form of a suite, `SuitesAssumption`) and that null values are
none of the others: `None` in the lifecycle, the pool, the catalog, `BoundedTask`
(a row is a record), `Curation` (nothing found is a sequence), `Drafting` (a
writer's test cases are a sequence) and `HumanReview` (a kappa is a fraction), and
that no sheet is a missing one (`SheetAssumption`). `RequestAssumption` adds that a run is never its own parent.
TLC evaluates every one of them in the runs.

| Theorem | Assumes beyond the constants' types | Argument |
|---|---|---|
| `RunLifecycleProofs`: `TypeCorrect` | | typing needs `AttemptsLeft`: a worker about to call has calls left |
| `ExecutorUnique` | | `ExecutorInv`: a run that somebody executes is not absent, and executors differ: `CreateRun` demands an absent run |
| `SettledFrozen` | | every write is guarded by `_require_running` and made by the executor |
| `RecoveryExclusive` | leases do not drop | `LeaseInv`: a worker past its lease holds all its keys |
| `FinalRecord` | | `RecordInv`: absent runs are empty, report and last event appear together, and tokens used = calls recorded + the one call in flight |
| `JournalGrows` | | one lemma per appending action |
| `StoreImplemented` | | refinement to `RunRecord`; needs `ParentInv`: a parent exists before its recovery |
| `ReuseGrounded` | | `ReuseInv`: an executor works on the run its arguments describe (`OpenedInv`), and its snapshot holds nothing its parent's rows do not hold now, because rows are never rewritten (`SnapInv`) |
| `InheritedReal` | | `InheritInv`: what a worker read was spent by ancestors that existed before its own run did, so it is not among them; the read to come is of an ancestor too; what they spent only grows |
| `WorkerPoolProofs`: `LedgerTypeCorrect`, `LedgerOvershoot` (of `BudgetLedger`) | callers are finite | overshoot is strengthened by counting callers: each settlement frees one caller and charges at most one excess |
| `TypeCorrect`, `HonestOutcome` | | `CauseInv`: an exception "cancelled" exists only once a cause was kept; `StoredInv`: a finished future has stored its output |
| `SpendingStops` | | `LateInv`: a thread that made a late reservation is past its check, and a cancelled thread does not pass it again |
| `LedgerUsed`, `PoolOvershoot` | | the threads' steps are ledger steps or leave it alone, one lemma for all actions: the ledger's theorem then holds of the pool |
| `NothingLeft` | | `HeldInv`: reserved tokens = a need for each active reservation, each a call in flight; `EndInv`: the caller leaves after every future it did not cancel has ended |
| `ExperimentProofs`: `TypeCorrect`, `ScoresComparable`, `ApprovalSound`, `CatalogFrozen` (of `CoverageCatalog`) | | `HeldInv`: whoever is past its save holds the stored catalog, and so does the page |
| `ExperimentTypeCorrect`, `ExperimentComparable`, `OnlyMeasured`, `BoughtInOrder` | | the catalog's `HeldInv` is kept by judges, imports and reviews alike (`CatalogMoves`); `Alone`: a trial that may still be generated is one execution's, nobody is past it, and none after it was launched; `Reviewed`: whoever is past its start has an approved catalog |
| `BudgetHolds` | | `Money`: an execution has counted all trials before its own, whoever bought them (`Added`), and a launched trial fitted the budget at what those cost (`Afforded`); the last launched trial bounds the total |
| `SameReport` | | `Exported`: an execution that exports is where no trial will ever fit, which two executions cannot be at two places |
| `HumanReviewProofs`: `RatedAsSubmitted` | | `Opened`: every rating has beside it the first rating of its form, and by `RatedOnce` a rater has only one such; a form past its first dimension has stored it (`FormsOpened`) |
| `KappaIsAgreement`, `EarnedGate` | | `RowsTyped`: the ratings are finitely many scores; both sums of kappa are of squares, so one is 0 exactly when its scores agree |
| `BoundedTaskProofs`: `TypeCorrect` | | a run in progress is in a group of its plan |
| `HalvesFit` | no stage is an extraction | `SplitPlace`: between its halves a split holds what covers the first; sequences that cover the two parts cover the whole when joined |
| `RowsConsistent` | | `ChainInv`: rows stand where a task of the plan or one of its halves puts them, were made by the ancestry, and are what the task in progress has looked up (`LookedUp`) |
| `AskedOnce` | | the same; places of the plan with items in common are a group and a half of it; a second half is only there after the first, and a parent's first half makes the recovery split |
| `GenerationProofs`: `Traceable` | | the matrix and the validator count the same requirements, on any suite |
| `FailureKeeps` | | `KeptInv`: after its first critic whoever changes the suite sets the draft, or puts it back |
| `SourcesOnce` | | `CurationInv`: the bounded groups of chunks are together the document, and the scouts that ended disposed of a first part of them (`OwnedInv`) |
| `CandidatesKept` | | `CurationInv`: candidates are named after their scout, so no two are one (`FoundInv`); the efficient curator has decided a first part of them, each carried by one requirement or none (`DecidedInv`); the corrected one's requirements are its assignment (`AssignedInv`) |
| `Accepted` | | `ReviewInv`: the findings are those that wait, those being repaired and those settled; groups are closed under shared targets, so a repair leaves what a settled finding's verification saw (`RepairInv`); additions change no artifact of a valid suite (`SuiteInv`) |
| `Scored` | | `JudgeInv`: no two units state the same (`Extend` keeps them apart), the answers are of every test case on a first part of the units and of a first part of the test cases on the current ones (`Evaluated`); F1 by counting what is covered and what is not |
| `LinkingKeeps` | | an assignment gives links to a requirement of the suite, and in a suite without duplicate ids to a test case of the scenario that gets it (`AssignedIssues`); what each assignment keeps, the list of them does (`LinkedWithin`) |
| `DraftValid` | | `DraftInv`: links lead to artifacts of the suite, ids are counted, and the requirements designed so far are linked (`DesignInv`); each scenario is one writer's, and the writers that ended passed the checks of their shares (`WritingInv`); the lists a staged agent has answered so far passed theirs, and together they link every requirement (`StagedInv`, `Tied`) |
| `StorageProofs`: `IdentitiesDistinct` | `Roomy` | `RowsInv`: in each stage the indices taken lie below the next task's, or are exactly the first ones where that task's is counted from the rows; the audits of rejections and the additions of a repair begin above all others |
| `StoredIntact` | | `SuitesInv`: the bundle and the draft are finite lists of artifacts, each linking finitely many, which needs the same of what the corrected curator decided on and of what is being added, and that the findings to repair have targets in the suite; `SuiteRead` and `ReportRead`: rows that have been numbered are found at their numbers (`RowsInOrder`), those of a child table under their parent's (`GroupRead`) |

Without their strengthening none of these but `Traceable` is inductive: that
nobody else spends for a trial, for instance, needs that nobody is past one whose
generation goes on; that ratings of two dimensions are of one form follows from
nothing that is said of two dimensions; that a verdict given earlier still stands
needs that every finding sharing a target with it was repaired together with it.
TLC checked the parts of the invariants on the instances of section 3 before they
were proved.

`IdentitiesDistinct` is the one theorem with a hypothesis about behaviours, `Roomy`:
the scouts' audits and the design tasks take at most a million indices, three to a
task, and the tasks that add to one repair at most three hundred. The code sets
these numbers apart and checks none of them, so without it two rows can collide;
`Generation.cfg` makes them small (30 and 6), and `Roomy` is true of all its states.

`FoldTheorems` holds what the proofs need of sums and of sequences: the sum of a
function over a finite set (`FoldFunction`) split at an element, zero, monotone,
and squares; and `FoldLeft` and `FlattenSeq` as a sequence of steps. Both are
folds over sets of numbers in the library, where a first-order induction over
natural numbers is enough: a least counterexample is picked, not an induction
theorem instantiated.

`JournalGrows` needs no run: a journal that only grows is part of `KeepsTheRecord`,
which `run_lifecycle` checks.

Only model-checked: liveness (`EveryCallEnds`, `LeasesAreReleased`, `PoolEnds`,
`RunsEnd`), which is beyond the prover.

Elements of a list that satisfy a condition are written `Selected(list, set)`
in `Suite`, and rows in their order `InPosition(table)` in `StoredSuite`, and not
`SelectSeq` and `SortSeq`, of which the provers have no definition.

## 5. Not modelled, and the plan

Not modelled because there is nothing to check in a state machine: reading PDFs,
evidence spans, the text of prompts, page rendering, model listing and loading,
browser settings, deployment, the prototypes. Not modelled although there is
state: agent setups (one statement that overwrites one row), the manifest and
the source packs of the benchmark (files written once), its statistics, and a row
of `record_stage` that is kept in memory when it could not be stored.

What is left of the plan: `Roomy` from the sizes of a document and of the answers,
which needs a count of the tasks of one addition.
