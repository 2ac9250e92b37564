----------------------------- MODULE WorkerPool -----------------------------
(***************************************************************************)
(* The parallel tasks of a pipeline: _run_parallel_workers (pipelines.py)  *)
(* hands each group of work to a thread of its pool; each thread runs its  *)
(* task's model calls (PipelineContext.generate, _generate_attempt) with   *)
(* their retries, against the run's one BudgetLedger.  The first failure   *)
(* cancels the siblings, and the pool waits for them before it raises it.  *)
(***************************************************************************)
EXTENDS BudgetLedger

CONSTANTS
    GroupCount,      \* groups of work
    Threads,         \* size of the pool, unless a provider is local
    Need,            \* tokens one call reserves
    Retries,         \* transport retries of one generate(); 2 in the code
    Repairs,         \* schema repairs of one generate(); 2 in the code
    Corrections,     \* further generate() calls of a task; 1 for a scout
    None

\* The callers of the ledger are the threads, named by the group they work on.
ASSUME GroupAssumption  == /\ GroupCount \in Nat \ {0} /\ Threads \in Nat \ {0}
                           /\ Caller = 1..GroupCount
ASSUME BudgetAssumption == /\ Limit \in Nat \ {0} /\ Need \in Nat \ {0}
                           /\ Excess \in Nat /\ Amount = {Need}
ASSUME RetryAssumption  == /\ Retries \in Nat /\ Repairs \in Nat
                           /\ Corrections \in Nat

Group == Caller

\* Why a task fails; "fault" stands for every cause that is neither the budget
\* nor a timeout (provider, schema, semantic validation, context, storage).
Cause == {"budget", "timeout", "fault"}
Error == Cause \cup {"cancelled"}
ASSUME NoneAssumption == None \notin Error

Future == {"pending", "running", "finished", "failed", "cancelled"}
Place  == {"idle", "check", "attempt", "inflight", "transport", "backoff",
           "malformed", "answered", "record", "raise", "signal", "done"}

VARIABLES
    local,       \* whether the run has a local provider; it never changes
    future,      \* of each group: how far the pool got with it
    pc,          \* where its thread stands
    retries,     \* transport_retries of the current generate()
    repairs,     \* schema_repair_count of the current generate()
    corrections, \* generate() calls made to correct the task's first answer
    timedOut,    \* observed_timeout is set
    error,       \* the exception its thread is raising
    late,        \* reservations it made after the cancellation event (history)
    stored,      \* whether record_stage stored its output
    cancelled,   \* the cancellation event
    first,       \* first_error
    main,        \* where the pool's caller stands
    collected,   \* the groups whose result it has
    swept        \* futures it has tried to cancel

ledger  == <<used, reserved, active>>
counts  == <<retries, repairs, corrections, timedOut>>
task    == <<counts, late, stored>>
caller  == <<main, collected, swept>>
pool    == <<cancelled, first, caller>>
vars    == <<local, ledger, future, pc, task, error, pool>>

Running    == {g \in Group : future[g] = "running"}
Pending    == {g \in Group : future[g] = "pending"}

\* A run with a local provider has one worker (worker_limit).
Width      == IF local THEN 1 ELSE Threads
Sequential == Width = 1
Ended      == main \in {"raised", "returned"}

Goto(g, p) == pc' = [pc EXCEPT ![g] = p]

Throw(g, e) == /\ Goto(g, "raise")
               /\ error' = [error EXCEPT ![g] = e]

Proceed(g, p) == Goto(g, p) /\ UNCHANGED error

\* generate() is left: its counts are gone.
Forget(g) == /\ retries' = [retries EXCEPT ![g] = 0]
             /\ repairs' = [repairs EXCEPT ![g] = 0]
             /\ timedOut' = [timedOut EXCEPT ![g] = FALSE]

\* An attempt ends: _generate_attempt's finally records the call, and a failure
\* to record it replaces whatever the attempt was to return or raise.
Attempted(g, outcome) == outcome \/ Throw(g, "fault")

Init ==
    /\ local \in BOOLEAN
    /\ LedgerInit
    /\ future = [g \in Group |-> "pending"]
    /\ pc = [g \in Group |-> "idle"]
    /\ retries = [g \in Group |-> 0]
    /\ repairs = [g \in Group |-> 0]
    /\ corrections = [g \in Group |-> 0]
    /\ timedOut = [g \in Group |-> FALSE]
    /\ error = [g \in Group |-> None]
    /\ late = [g \in Group |-> 0]
    /\ stored = [g \in Group |-> FALSE]
    /\ cancelled = FALSE
    /\ first = None
    /\ main = "collect"
    /\ collected = {}
    /\ swept = 0

-----------------------------------------------------------------------------
(* A thread of the pool *)

\* Threads take groups in the order they were submitted; the sequential branch
\* takes none after a failure.
StartWorker(g) ==
    /\ future[g] = "pending"
    /\ \A h \in Pending : g <= h
    /\ Cardinality(Running) < Width
    /\ Sequential => ~cancelled
    /\ future' = [future EXCEPT ![g] = "running"]
    /\ Goto(g, "check")
    /\ UNCHANGED <<local, ledger, task, error, pool>>

\* Variant: the event is not looked at before a call.
CheckCancellation_skipped(g) ==
    /\ pc[g] = "check"
    /\ Proceed(g, "attempt")
    /\ UNCHANGED <<local, ledger, future, task, pool>>

\* generate(), top of the loop: the event is read here and used later.  The
\* prompt may also not fit the context (_output_budget).
CheckCancellation(g) ==
    /\ pc[g] = "check"
    /\ IF cancelled
       THEN Throw(g, "cancelled")
       ELSE Proceed(g, "attempt") \/ Throw(g, "fault")
    /\ UNCHANGED <<local, ledger, future, task, pool>>

ReserveTokens(g) ==
    /\ pc[g] = "attempt"
    /\ Reserve(g, Need)
    /\ Proceed(g, "inflight")
    /\ late' = [late EXCEPT ![g] = IF cancelled THEN @ + 1 ELSE @]
    /\ UNCHANGED <<local, future, counts, stored, pool>>

\* No reservation: BudgetExceeded, or the timeout whose retry it prevents.
BlockReservation(g) ==
    /\ pc[g] = "attempt"
    /\ Blocks(Need)
    /\ Attempted(g, Throw(g, IF timedOut[g] THEN "timeout" ELSE "budget"))
    /\ UNCHANGED <<local, ledger, future, task, pool>>

\* A ProviderError before anything is reserved (count_tokens, a model that
\* cannot be loaded, an invalid URL).
RefuseRequest(g) ==
    /\ pc[g] = "attempt"
    /\ Attempted(g, Proceed(g, "transport"))
    /\ UNCHANGED <<local, ledger, future, task, pool>>

\* The request was never sent.
CancelReservation(g) ==
    /\ pc[g] = "inflight"
    /\ Cancel(g)
    /\ Attempted(g, Proceed(g, "transport"))
    /\ UNCHANGED <<local, future, task, pool>>

\* A failed call is charged its reservation.
SettleEstimate(g) ==
    /\ pc[g] = "inflight"
    /\ Settle(g, active[g])
    /\ Attempted(g, IF OverBudget
                    THEN Throw(g, "budget")
                    ELSE Proceed(g, "transport"))
    /\ UNCHANGED <<local, future, task, pool>>

\* A completed call is charged what the provider reports; its answer may still
\* be missing ("transport") or not fit the schema ("malformed").
SettleActual(g) ==
    /\ pc[g] = "inflight"
    /\ \E n \in 0..(active[g] + Excess) : Settle(g, n)
    /\ Attempted(g, IF OverBudget
                    THEN Throw(g, "budget")
                    ELSE \E p \in {"answered", "malformed", "transport"} :
                             Proceed(g, p))
    /\ UNCHANGED <<local, future, task, pool>>

\* LM Studio, a local provider: its connection breaks while the answer is
\* read, or the read times out; neither exception is among those it catches, and
\* nobody releases the reservation.
LoseReservation(g) ==
    /\ local
    /\ pc[g] = "inflight"
    /\ \E lost \in {"fault", "timeout"} : Throw(g, lost)
    /\ UNCHANGED <<local, ledger, future, task, pool>>

\* Variant: one retry too many.
MayRetry_oneMore(g) == retries[g] <= Retries

MayRetry(g) == retries[g] < Retries

\* except ProviderError: a sibling's failure comes first, then the retries; an
\* error that is not retryable is raised however many are left.
HandleTransport(g) ==
    /\ pc[g] = "transport"
    /\ \E timeout \in BOOLEAN :
           /\ timedOut' = [timedOut EXCEPT ![g] = timeout]
           /\ \/ /\ cancelled
                 /\ Throw(g, "cancelled")
                 /\ UNCHANGED retries
              \/ /\ ~cancelled
                 /\ Throw(g, IF timeout THEN "timeout" ELSE "fault")
                 /\ UNCHANGED retries
              \/ /\ ~cancelled
                 /\ MayRetry(g)
                 /\ retries' = [retries EXCEPT ![g] = @ + 1]
                 /\ Proceed(g, "backoff")
    /\ UNCHANGED <<local, ledger, future, repairs, corrections, late, stored, pool>>

\* The delay elapses, or the event ends it.
Backoff(g) ==
    /\ pc[g] = "backoff"
    /\ Proceed(g, "check") \/ (cancelled /\ Throw(g, "cancelled"))
    /\ UNCHANGED <<local, ledger, future, task, pool>>

\* Variant: the repairs are not counted.
HandleMalformed_uncounted(g) ==
    /\ pc[g] = "malformed"
    /\ timedOut' = [timedOut EXCEPT ![g] = FALSE]
    /\ IF cancelled THEN Throw(g, "cancelled") ELSE Proceed(g, "check")
    /\ UNCHANGED <<local, ledger, future, retries, repairs, corrections, late, stored, pool>>

\* except StructuredOutputError: an incomplete answer is not repaired.
HandleMalformed(g) ==
    /\ pc[g] = "malformed"
    /\ timedOut' = [timedOut EXCEPT ![g] = FALSE]
    /\ \/ /\ cancelled
          /\ Throw(g, "cancelled")
          /\ UNCHANGED repairs
       \/ /\ ~cancelled
          /\ Throw(g, "fault")
          /\ UNCHANGED repairs
       \/ /\ ~cancelled
          /\ repairs[g] < Repairs
          /\ repairs' = [repairs EXCEPT ![g] = @ + 1]
          /\ Proceed(g, "check")
    /\ UNCHANGED <<local, ledger, future, retries, corrections, late, stored, pool>>

\* The task checks the answer; a scout asks once more, in a fresh generate().
Validate(g) ==
    /\ pc[g] = "answered"
    /\ Forget(g)
    /\ \/ /\ Proceed(g, "record") \/ Throw(g, "fault")
          /\ UNCHANGED corrections
       \/ /\ corrections[g] < Corrections
          /\ corrections' = [corrections EXCEPT ![g] = @ + 1]
          /\ Proceed(g, "check")
    /\ UNCHANGED <<local, ledger, future, late, stored, pool>>

\* record_stage, and the worker's return.
RecordStage(g) ==
    /\ pc[g] = "record"
    /\ \/ /\ stored' = [stored EXCEPT ![g] = TRUE]
          /\ future' = [future EXCEPT ![g] = "finished"]
          /\ Proceed(g, "done")
       \/ /\ Throw(g, "fault")
          /\ UNCHANGED <<stored, future>>
    /\ UNCHANGED <<local, ledger, counts, late, pool>>

\* Variant: each failure overwrites the error kept so far.
KeepError_last(g) ==
    /\ pc[g] = "raise"
    /\ first' = error[g]
    /\ Goto(g, "signal")
    /\ Forget(g)
    /\ error' = [error EXCEPT ![g] = None]
    /\ UNCHANGED <<local, ledger, future, corrections, late, stored, cancelled, caller>>

\* invoke(): the first error is kept, under its lock ...
KeepError(g) ==
    /\ pc[g] = "raise"
    /\ first' = IF first = None THEN error[g] ELSE first
    /\ Goto(g, "signal")
    /\ Forget(g)
    /\ error' = [error EXCEPT ![g] = None]
    /\ UNCHANGED <<local, ledger, future, corrections, late, stored, cancelled, caller>>

\* ... before the event is set and the future fails.
SignalCancel(g) ==
    /\ pc[g] = "signal"
    /\ cancelled' = TRUE
    /\ future' = [future EXCEPT ![g] = "failed"]
    /\ Goto(g, "done")
    /\ UNCHANGED <<local, ledger, task, error, first, caller>>

-----------------------------------------------------------------------------
(* The pool's caller *)

Collect(g) ==
    /\ main = "collect"
    /\ future[g] = "finished"
    /\ g \notin collected
    /\ collected' = collected \cup {g}
    /\ UNCHANGED <<local, ledger, future, pc, task, error, cancelled, first, main, swept>>

\* future.result() raises; the sequential branch has nothing to wait for.
Observe ==
    /\ main = "collect"
    /\ \E g \in Group : future[g] = "failed"
    /\ main' = IF Sequential THEN "raised" ELSE "cancel"
    /\ UNCHANGED <<local, ledger, future, pc, task, error, cancelled, first, collected, swept>>

\* pending.cancel(), one future after the other: it has no effect on one that
\* has been started.
CancelNext ==
    /\ main = "cancel"
    /\ swept < GroupCount
    /\ swept' = swept + 1
    /\ future' = [future EXCEPT ![swept'] = IF @ = "pending" THEN "cancelled" ELSE @]
    /\ UNCHANGED <<local, ledger, pc, task, error, cancelled, first, main, collected>>

\* Variant: the error is raised with siblings at work.
AwaitSiblings_not ==
    /\ main = "cancel"
    /\ swept = GroupCount
    /\ main' = "raised"
    /\ UNCHANGED <<local, ledger, future, pc, task, error, cancelled, first, collected, swept>>

\* wait(futures), and then the first error is raised.
AwaitSiblings ==
    /\ main = "cancel"
    /\ swept = GroupCount
    /\ Running = {}
    /\ main' = "raised"
    /\ UNCHANGED <<local, ledger, future, pc, task, error, cancelled, first, collected, swept>>

Return ==
    /\ main = "collect"
    /\ collected = Group
    /\ main' = IF first = None THEN "returned" ELSE "raised"
    /\ UNCHANGED <<local, ledger, future, pc, task, error, cancelled, first, collected, swept>>

-----------------------------------------------------------------------------
Worker(g) ==
    \/ StartWorker(g)      \/ CheckCancellation(g)
    \/ ReserveTokens(g)    \/ BlockReservation(g)
    \/ RefuseRequest(g)    \/ CancelReservation(g)
    \/ SettleEstimate(g)   \/ SettleActual(g)
    \/ LoseReservation(g)  \/ HandleTransport(g)
    \/ Backoff(g)          \/ HandleMalformed(g)
    \/ Validate(g)         \/ RecordStage(g)
    \/ KeepError(g)        \/ SignalCancel(g)

PoolCaller ==
    \/ \E g \in Group : Collect(g)
    \/ Observe
    \/ CancelNext
    \/ AwaitSiblings
    \/ Return

Next == PoolCaller \/ \E g \in Group : Worker(g)

Spec == Init /\ [][Next]_vars

\* Every thread runs until it is done: a provider call ends (it has a timeout)
\* and so does a delay.
FairSpec == /\ Spec
            /\ WF_vars(PoolCaller)
            /\ \A g \in Group : WF_vars(Worker(g))

-----------------------------------------------------------------------------
(* Properties *)

\* Every variable has its type.
TypeOK ==
    /\ local \in BOOLEAN
    /\ LedgerTypeOK
    /\ future \in [Group -> Future]
    /\ pc \in [Group -> Place]
    /\ retries \in [Group -> 0..Retries]
    /\ repairs \in [Group -> 0..Repairs]
    /\ corrections \in [Group -> 0..Corrections]
    /\ timedOut \in [Group -> BOOLEAN]
    /\ error \in [Group -> Error \cup {None}]
    /\ late \in [Group -> Nat]
    /\ stored \in [Group -> BOOLEAN]
    /\ cancelled \in BOOLEAN
    /\ first \in Error \cup {None}
    /\ main \in {"collect", "cancel", "raised", "returned"}
    /\ collected \subseteq Group
    /\ swept \in 0..GroupCount

\* The pool raises the error that made it fail, never the CancelledError of a
\* sibling it stopped itself; and it returns only a complete, stored result.
OutcomeIsHonest ==
    /\ main = "raised"   => first \in Cause
    /\ main = "returned" => \A g \in Group : stored[g]

\* After a failure a thread that has passed its check starts that one call, and
\* no thread starts a second.
CancellationStopsSpending == \A g \in Group : late[g] <= 1

\* When the pool is left no thread of it runs, and none of its reservations is
\* held back from the rest of the run.  (A local provider may lose one.)
NothingLeftBehind == Ended => Running = {} /\ (~local => reserved = 0)

\* Whatever fails, the pool comes to an end.
PoolEnds == <>Ended
=============================================================================
