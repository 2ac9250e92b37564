-------------------------- MODULE WorkerPoolProofs --------------------------
(***************************************************************************)
(* Whatever the number of groups and threads, a pool that fails raises the *)
(* error that made it fail, and a pool that returns has stored everything. *)
(* The invariant follows the cause: it is kept before the event is set,    *)
(* and only the event makes a task raise CancelledError.                   *)
(*                                                                         *)
(* After a failure no thread starts more than the one call it had already  *)
(* checked for, and a pool that is left has no thread and no reservation.  *)
(* The ledger, whoever uses it, overshoots its ceiling only by calls that  *)
(* were in flight: each caller without an active reservation is charged    *)
(* one underestimate, a reservation is granted only below the ceiling, and *)
(* each settlement spends one underestimate.  The ledger the threads share *)
(* is used as BudgetLedger allows, so what is proved of the ledger holds   *)
(* in every run of the pool.                                               *)
(***************************************************************************)
EXTENDS WorkerPool, FiniteSetTheorems, TLAPS

-----------------------------------------------------------------------------
(* The ledger, for any callers: only its own assumptions are used *)

\* Callers are counted; so are those with an active reservation.
LEMMA ActiveCount ==
    ASSUME LedgerTypeOK
    PROVE  /\ IsFiniteSet(Active)
           /\ Cardinality(Active) \in Nat
           /\ Cardinality(Caller) \in Nat
           /\ Cardinality(Active) <= Cardinality(Caller)
<1>1. Active \subseteq Caller  BY DEF Active
<1> QED
    BY <1>1, CallerAssumption, FS_Subset, FS_CardinalityType

\* A caller that settles or cancels leaves the active ones.
LEMMA OneFewerActive ==
    ASSUME LedgerTypeOK, NEW c \in Caller, active[c] # 0,
           active' = [active EXCEPT ![c] = 0]
    PROVE  Cardinality(Active') = Cardinality(Active) - 1
<1>1. Active' = Active \ {c}  BY DEF Active, LedgerTypeOK
<1>2. c \in Active  BY DEF Active
<1> QED
    BY <1>1, <1>2, ActiveCount, FS_RemoveElement

\* Underestimates add up to a natural number.
LEMMA UnderestimatesType ==
    ASSUME NEW n \in Nat
    PROVE  Excess * n \in Int /\ Excess * n >= 0
BY ExcessAssumption

\* A sum of underestimates with one more caller has one more summand.
LEMMA OneMoreUnderestimate ==
    ASSUME NEW n \in Int
    PROVE  Excess * (n + 1) = Excess * n + Excess
BY ExcessAssumption

\* Every variable of the ledger has its type (providers.BudgetLedger).
THEOREM LedgerTypeCorrect == LedgerSpec => []LedgerTypeOK
<1>1. LedgerInit => LedgerTypeOK
    BY DEF LedgerInit, LedgerTypeOK
<1>2. LedgerTypeOK /\ [LedgerNext]_ledgerVars => LedgerTypeOK'
    <2> SUFFICES ASSUME LedgerTypeOK, [LedgerNext]_ledgerVars
                 PROVE  LedgerTypeOK'
        OBVIOUS
    <2> USE DEF LedgerTypeOK
    <2>1. ASSUME NEW c \in Caller, NEW n \in Amount, Reserve(c, n)
          PROVE  LedgerTypeOK'
        BY <2>1, AmountAssumption DEF Reserve
    <2>2. ASSUME NEW c \in Caller, Cancel(c)  PROVE LedgerTypeOK'
        BY <2>2 DEF Cancel
    <2>3. ASSUME NEW c \in Caller, NEW n \in 0..(active[c] + Excess), Settle(c, n)
          PROVE  LedgerTypeOK'
        BY <2>3, ExcessAssumption DEF Settle
    <2>4. CASE UNCHANGED ledgerVars
        BY <2>4 DEF ledgerVars
    <2> QED
        BY <2>1, <2>2, <2>3, <2>4 DEF LedgerNext
<1> QED
    BY <1>1, <1>2, PTL DEF LedgerSpec

\* For any callers, ceiling and underestimates: the ceiling is overshot by at
\* most one underestimate of each caller that has no call in flight.
THEOREM LedgerOvershoot == LedgerSpec => []OvershootBounded
<1>1. LedgerInit => OvershootBounded
    <2> SUFFICES ASSUME LedgerInit  PROVE OvershootBounded
        OBVIOUS
    <2>1. Active = {}  BY DEF LedgerInit, Active
    <2>2. Cardinality(Active) = 0  BY <2>1, FS_EmptySet
    <2>3. Cardinality(Caller) \in Nat  BY CallerAssumption, FS_CardinalityType
    <2>4. Excess * (Cardinality(Caller) - Cardinality(Active)) >= 0
        BY <2>2, <2>3, ExcessAssumption
    <2>5. Excess * (Cardinality(Caller) - Cardinality(Active)) \in Int
        BY <2>2, <2>3, ExcessAssumption
    <2> QED
        BY <2>4, <2>5, LimitAssumption DEF LedgerInit, OvershootBounded
<1>2. LedgerTypeOK /\ LedgerTypeOK' /\ OvershootBounded /\ [LedgerNext]_ledgerVars
        => OvershootBounded'
    <2> SUFFICES ASSUME LedgerTypeOK, LedgerTypeOK', OvershootBounded,
                        [LedgerNext]_ledgerVars
                 PROVE  OvershootBounded'
        OBVIOUS
    <2> DEFINE idle  == Cardinality(Caller) - Cardinality(Active)
               total == used + reserved
    <2>1. idle \in Nat /\ idle' \in Nat
        <3>1. Active' \subseteq Caller  BY DEF Active
        <3>2. /\ Cardinality(Active') \in Nat
              /\ Cardinality(Active') <= Cardinality(Caller)
            BY <3>1, CallerAssumption, FS_Subset, FS_CardinalityType
        <3> QED
            BY <3>2, ActiveCount DEF idle
    <2>2. total \in Int /\ total' \in Int
        BY DEF LedgerTypeOK, total
    <2>3. Limit \in Int /\ Excess \in Int
        BY LimitAssumption, ExcessAssumption
    <2>4. total <= Limit + Excess * idle
        BY DEF OvershootBounded, idle, total
    <2>5. SUFFICES total' <= Limit + Excess * idle'
        BY DEF OvershootBounded, idle, total
    <2>6. ASSUME NEW c \in Caller, NEW n \in Amount, Reserve(c, n)
          PROVE  total' <= Limit + Excess * idle'
        <3>1. total' = total + n
            BY <2>6, AmountAssumption DEF Reserve, LedgerTypeOK
        <3>2. total + n <= Limit
            BY <2>6, AmountAssumption, LimitAssumption
               DEF Reserve, Remaining, LedgerTypeOK
        <3> HIDE DEF idle, total
        <3>3. Excess * idle' >= 0 /\ Excess * idle' \in Int
            BY <2>1, UnderestimatesType
        <3>4. total' <= Limit
            BY <3>1, <3>2
        <3> QED
            BY <2>2, <2>3, <3>3, <3>4
    <2>7. ASSUME NEW c \in Caller, NEW n \in Int,
                 active[c] # 0, active' = [active EXCEPT ![c] = 0],
                 total' = total + n, n <= Excess
          PROVE  total' <= Limit + Excess * idle'
        <3>1. idle' = idle + 1
            <4>1. Cardinality(Active') = Cardinality(Active) - 1
                BY <2>7, OneFewerActive
            <4> QED
                BY <4>1, ActiveCount
        <3> HIDE DEF idle, total
        <3>2. Excess * idle' = Excess * idle + Excess
            BY <2>1, <3>1, OneMoreUnderestimate
        <3>3. Excess * idle \in Int
            BY <2>1, UnderestimatesType
        <3>4. \A p \in Int : total <= Limit + p => total + n <= Limit + (p + Excess)
            BY <2>2, <2>3, <2>7
        <3>5. total + n <= Limit + (Excess * idle + Excess)
            BY <2>4, <3>3, <3>4
        <3> QED
            BY <2>7, <3>2, <3>5
    <2>8. ASSUME NEW c \in Caller, Cancel(c)
          PROVE  total' <= Limit + Excess * idle'
        <3>1. active[c] \in Nat
            BY <2>8 DEF LedgerTypeOK
        <3>2. total' = total + (0 - active[c])
            BY <2>8, <3>1 DEF Cancel, LedgerTypeOK
        <3>3. 0 - active[c] \in Int /\ 0 - active[c] <= Excess
            BY <3>1, ExcessAssumption
        <3>4. active[c] # 0 /\ active' = [active EXCEPT ![c] = 0]
            BY <2>8 DEF Cancel
        <3> HIDE DEF idle, total
        <3> QED
            BY <2>7, <3>2, <3>3, <3>4
    <2>9. ASSUME NEW c \in Caller, NEW n \in 0..(active[c] + Excess), Settle(c, n)
          PROVE  total' <= Limit + Excess * idle'
        <3>1. active[c] \in Nat /\ n \in Int /\ n <= active[c] + Excess
            BY <2>9, ExcessAssumption DEF LedgerTypeOK
        <3>2. total' = total + (n - active[c])
            BY <2>9, <3>1 DEF Settle, LedgerTypeOK
        <3>3. n - active[c] \in Int /\ n - active[c] <= Excess
            BY <3>1, ExcessAssumption
        <3>4. active[c] # 0 /\ active' = [active EXCEPT ![c] = 0]
            BY <2>9 DEF Settle
        <3> HIDE DEF idle, total
        <3> QED
            BY <2>7, <3>2, <3>3, <3>4
    <2>10. CASE UNCHANGED ledgerVars
        <3>1. Active' = Active /\ total' = total
            BY <2>10 DEF ledgerVars, Active
        <3> QED
            BY <2>4, <3>1
    <2> QED
        BY <2>6, <2>8, <2>9, <2>10 DEF LedgerNext
<1> QED
    BY <1>1, <1>2, LedgerTypeCorrect, PTL DEF LedgerSpec

-----------------------------------------------------------------------------
(* The pool *)

\* An exception or a plain step of a thread keeps pc and error typed.
LEMMA ThrowType ==
    ASSUME NEW g \in Group, NEW e \in Error, TypeOK, Throw(g, e)
    PROVE  pc' \in [Group -> Place] /\ error' \in [Group -> Error \cup {None}]
BY DEF Throw, Goto, TypeOK, Place

\* So does a plain step.
LEMMA ProceedType ==
    ASSUME NEW g \in Group, NEW p \in Place, TypeOK, Proceed(g, p)
    PROVE  pc' \in [Group -> Place] /\ error' \in [Group -> Error \cup {None}]
BY DEF Proceed, Goto, TypeOK

\* The counters of a call that is over are reset within their bounds.
LEMMA ForgetType ==
    ASSUME NEW g \in Group, TypeOK, Forget(g)
    PROVE  /\ retries' \in [Group -> 0..Retries]
           /\ repairs' \in [Group -> 0..Repairs]
           /\ timedOut' \in [Group -> BOOLEAN]
BY RetryAssumption DEF Forget, TypeOK

\* The ledger's operations, called by any thread, keep its variables typed.
LEMMA LedgerStepType ==
    ASSUME NEW g \in Group, TypeOK,
           \/ Reserve(g, Need)
           \/ Cancel(g)
           \/ \E n \in 0..(active[g] + Excess) : Settle(g, n)
    PROVE  LedgerTypeOK'
<1> USE DEF TypeOK, LedgerTypeOK
<1>1. CASE Reserve(g, Need)
    BY <1>1, BudgetAssumption DEF Reserve, Group
<1>2. CASE Cancel(g)
    BY <1>2 DEF Cancel, Group
<1>3. ASSUME NEW n \in 0..(active[g] + Excess), Settle(g, n)
      PROVE  LedgerTypeOK'
    BY <1>3, BudgetAssumption DEF Settle, Group
<1> QED
    BY <1>1, <1>2, <1>3

\* Every step of a thread keeps every variable typed.
LEMMA WorkerType ==
    ASSUME NEW g \in Group, TypeOK, Worker(g)
    PROVE  TypeOK'
<1> USE DEF ledger, counts, task, caller, pool
<1>1. CASE StartWorker(g)
    BY <1>1 DEF StartWorker, Goto, TypeOK, Place, Future, LedgerTypeOK
<1>2. CASE CheckCancellation(g)
    <2>1. pc' \in [Group -> Place] /\ error' \in [Group -> Error \cup {None}]
        BY <1>2, ThrowType, ProceedType DEF CheckCancellation, Place, Error, Cause
    <2> QED
        BY <1>2, <2>1 DEF CheckCancellation, TypeOK, LedgerTypeOK
<1>3. CASE ReserveTokens(g)
    <2>1. pc' \in [Group -> Place] /\ error' \in [Group -> Error \cup {None}]
        BY <1>3, ProceedType DEF ReserveTokens, Place
    <2>2. LedgerTypeOK'
        BY <1>3, LedgerStepType DEF ReserveTokens
    <2>3. late' \in [Group -> Nat]
        BY <1>3 DEF ReserveTokens, TypeOK
    <2> QED
        BY <1>3, <2>1, <2>2, <2>3 DEF ReserveTokens, TypeOK
<1>4. CASE BlockReservation(g)
    <2>1. pc' \in [Group -> Place] /\ error' \in [Group -> Error \cup {None}]
        BY <1>4, ThrowType DEF BlockReservation, Attempted, Error, Cause
    <2> QED
        BY <1>4, <2>1 DEF BlockReservation, TypeOK, LedgerTypeOK
<1>5. CASE RefuseRequest(g)
    <2>1. pc' \in [Group -> Place] /\ error' \in [Group -> Error \cup {None}]
        BY <1>5, ThrowType, ProceedType
           DEF RefuseRequest, Attempted, Place, Error, Cause
    <2> QED
        BY <1>5, <2>1 DEF RefuseRequest, TypeOK, LedgerTypeOK
<1>6. CASE CancelReservation(g)
    <2>1. pc' \in [Group -> Place] /\ error' \in [Group -> Error \cup {None}]
        BY <1>6, ThrowType, ProceedType
           DEF CancelReservation, Attempted, Place, Error, Cause
    <2>2. LedgerTypeOK'
        BY <1>6, LedgerStepType DEF CancelReservation
    <2> QED
        BY <1>6, <2>1, <2>2 DEF CancelReservation, TypeOK
<1>7. CASE SettleEstimate(g)
    <2>1. pc' \in [Group -> Place] /\ error' \in [Group -> Error \cup {None}]
        BY <1>7, ThrowType, ProceedType
           DEF SettleEstimate, Attempted, Place, Error, Cause
    <2>2. active[g] \in 0..(active[g] + Excess)
        BY BudgetAssumption DEF Group, TypeOK, LedgerTypeOK
    <2>3. LedgerTypeOK'
        BY <1>7, <2>2, LedgerStepType DEF SettleEstimate
    <2> QED
        BY <1>7, <2>1, <2>3 DEF SettleEstimate, TypeOK
<1>8. CASE SettleActual(g)
    <2>1. pc' \in [Group -> Place] /\ error' \in [Group -> Error \cup {None}]
        BY <1>8, ThrowType, ProceedType
           DEF SettleActual, Attempted, Place, Error, Cause
    <2>2. LedgerTypeOK'
        BY <1>8, LedgerStepType DEF SettleActual
    <2> QED
        BY <1>8, <2>1, <2>2 DEF SettleActual, TypeOK
<1>9. CASE LoseReservation(g)
    <2>1. pc' \in [Group -> Place] /\ error' \in [Group -> Error \cup {None}]
        BY <1>9, ThrowType DEF LoseReservation, Error, Cause
    <2> QED
        BY <1>9, <2>1 DEF LoseReservation, TypeOK, LedgerTypeOK
<1>10. CASE HandleTransport(g)
    <2>1. pc' \in [Group -> Place] /\ error' \in [Group -> Error \cup {None}]
        BY <1>10, ThrowType, ProceedType DEF HandleTransport, Place, Error, Cause
    <2>2. retries' \in [Group -> 0..Retries]
        BY <1>10, RetryAssumption DEF HandleTransport, MayRetry, TypeOK
    <2> QED
        BY <1>10, <2>1, <2>2 DEF HandleTransport, TypeOK, LedgerTypeOK
<1>11. CASE Backoff(g)
    <2>1. pc' \in [Group -> Place] /\ error' \in [Group -> Error \cup {None}]
        BY <1>11, ThrowType, ProceedType DEF Backoff, Place, Error
    <2> QED
        BY <1>11, <2>1 DEF Backoff, TypeOK, LedgerTypeOK
<1>12. CASE HandleMalformed(g)
    <2>1. pc' \in [Group -> Place] /\ error' \in [Group -> Error \cup {None}]
        BY <1>12, ThrowType, ProceedType DEF HandleMalformed, Place, Error, Cause
    <2>2. repairs' \in [Group -> 0..Repairs]
        BY <1>12, RetryAssumption DEF HandleMalformed, TypeOK
    <2> QED
        BY <1>12, <2>1, <2>2 DEF HandleMalformed, TypeOK, LedgerTypeOK
<1>13. CASE Validate(g)
    <2>1. pc' \in [Group -> Place] /\ error' \in [Group -> Error \cup {None}]
        BY <1>13, ThrowType, ProceedType DEF Validate, Place, Error, Cause
    <2>2. corrections' \in [Group -> 0..Corrections]
        BY <1>13, RetryAssumption DEF Validate, TypeOK
    <2>3. /\ retries' \in [Group -> 0..Retries]
          /\ repairs' \in [Group -> 0..Repairs]
          /\ timedOut' \in [Group -> BOOLEAN]
        BY <1>13, ForgetType DEF Validate
    <2> QED
        BY <1>13, <2>1, <2>2, <2>3 DEF Validate, TypeOK, LedgerTypeOK
<1>14. CASE RecordStage(g)
    <2>1. pc' \in [Group -> Place] /\ error' \in [Group -> Error \cup {None}]
        BY <1>14, ThrowType, ProceedType DEF RecordStage, Place, Error, Cause
    <2> QED
        BY <1>14, <2>1 DEF RecordStage, TypeOK, Future, LedgerTypeOK
<1>15. CASE KeepError(g)
    <2>1. /\ retries' \in [Group -> 0..Retries]
          /\ repairs' \in [Group -> 0..Repairs]
          /\ timedOut' \in [Group -> BOOLEAN]
        BY <1>15, ForgetType DEF KeepError
    <2> QED
        BY <1>15, <2>1 DEF KeepError, Goto, TypeOK, Place, LedgerTypeOK
<1>16. CASE SignalCancel(g)
    BY <1>16 DEF SignalCancel, Goto, TypeOK, Place, Future, LedgerTypeOK
<1> QED
    BY <1>1, <1>2, <1>3, <1>4, <1>5, <1>6, <1>7, <1>8, <1>9, <1>10, <1>11,
       <1>12, <1>13, <1>14, <1>15, <1>16 DEF Worker

\* So does every step of the pool's caller.
LEMMA CallerType ==
    ASSUME TypeOK, PoolCaller
    PROVE  TypeOK'
<1> USE DEF ledger, counts, task, caller, pool, TypeOK, LedgerTypeOK
<1>1. ASSUME NEW g \in Group, Collect(g)  PROVE TypeOK'
    BY <1>1 DEF Collect
<1>2. CASE Observe
    BY <1>2 DEF Observe
<1>3. CASE CancelNext
    <2>1. swept' \in 0..GroupCount
        BY <1>3, GroupAssumption DEF CancelNext
    <2>2. future' \in [Group -> Future]
        BY <1>3 DEF CancelNext, Future
    <2> QED
        BY <1>3, <2>1, <2>2 DEF CancelNext
<1>4. CASE AwaitSiblings
    BY <1>4 DEF AwaitSiblings
<1>5. CASE Return
    BY <1>5 DEF Return
<1> QED
    BY <1>1, <1>2, <1>3, <1>4, <1>5 DEF PoolCaller

\* Type correctness, for any number of groups, threads and retries
\* (_run_parallel_workers, generate).
THEOREM TypeCorrect == Spec => []TypeOK
<1>1. Init => TypeOK
    <2> SUFFICES ASSUME Init  PROVE TypeOK
        OBVIOUS
    <2>1. LedgerTypeOK
        BY DEF Init, LedgerInit, LedgerTypeOK
    <2>2. /\ future \in [Group -> Future]
          /\ pc \in [Group -> Place]
          /\ error \in [Group -> Error \cup {None}]
        BY DEF Init, Future, Place
    <2>3. /\ retries \in [Group -> 0..Retries]
          /\ repairs \in [Group -> 0..Repairs]
          /\ corrections \in [Group -> 0..Corrections]
          /\ swept \in 0..GroupCount
        BY GroupAssumption, RetryAssumption DEF Init
    <2> QED
        BY <2>1, <2>2, <2>3 DEF Init, TypeOK
<1>2. TypeOK /\ [Next]_vars => TypeOK'
    <2>1. CASE UNCHANGED vars
        BY <2>1 DEF vars, ledger, counts, task, caller, pool, TypeOK,
                    LedgerTypeOK
    <2> QED
        BY <2>1, WorkerType, CallerType DEF Next
<1> QED
    BY <1>1, <1>2, PTL DEF Spec

-----------------------------------------------------------------------------
\* The cause of a failure is kept before anyone can be told to stop, and nobody
\* raises CancelledError who has not been told.
CauseInv ==
    /\ first \in Cause \cup {None}
    /\ cancelled => first \in Cause
    /\ \A g \in Group : pc[g] = "signal" => first \in Cause
    /\ \A g \in Group : future[g] = "failed" => first \in Cause
    /\ \A g \in Group : pc[g] = "raise" => error[g] \in Error
    /\ \A g \in Group : error[g] = "cancelled" => cancelled
    /\ main \in {"cancel", "raised"} => first \in Cause

\* What the caller holds is finished, and what is finished is stored; a thread
\* at work has a running future.
StoredInv ==
    /\ \A g \in Group : pc[g] \notin {"idle", "done"} => future[g] = "running"
    /\ \A g \in Group : future[g] = "finished" => stored[g]
    /\ \A g \in collected : future[g] = "finished"
    /\ main = "returned" => collected = Group

PoolInv == CauseInv /\ StoredInv

\* What most steps of a thread have in common: it goes on, or it raises an
\* exception of its own, and CancelledError only if it was told to stop.
Ordinary(g) ==
    /\ pc[g] \notin {"idle", "done"}
    /\ UNCHANGED <<future, stored, cancelled, first, main, collected, swept>>
    /\ \/ \E e \in Error : (e = "cancelled" => cancelled) /\ Throw(g, e)
       \/ \E p \in Place \ {"raise", "signal"} : Proceed(g, p)

\* Every action of a thread but four is ordinary.
LEMMA WorkerIsOrdinary ==
    ASSUME NEW g \in Group, TypeOK, Worker(g)
    PROVE  \/ Ordinary(g)   \/ StartWorker(g) \/ RecordStage(g)
           \/ KeepError(g)  \/ SignalCancel(g)
<1> USE DEF ledger, counts, task, caller, pool, Ordinary, Attempted, Error, Cause, Place
<1>1. CASE CheckCancellation(g)
    BY <1>1 DEF CheckCancellation
<1>2. CASE ReserveTokens(g)
    BY <1>2 DEF ReserveTokens
<1>3. CASE BlockReservation(g)
    BY <1>3 DEF BlockReservation
<1>4. CASE RefuseRequest(g)
    BY <1>4 DEF RefuseRequest
<1>5. CASE CancelReservation(g)
    BY <1>5 DEF CancelReservation
<1>6. CASE SettleEstimate(g)
    BY <1>6 DEF SettleEstimate
<1>7. CASE SettleActual(g)
    BY <1>7 DEF SettleActual
<1>8. CASE LoseReservation(g)
    BY <1>8 DEF LoseReservation
<1>9. CASE HandleTransport(g)
    BY <1>9 DEF HandleTransport
<1>10. CASE Backoff(g)
    BY <1>10 DEF Backoff
<1>11. CASE HandleMalformed(g)
    BY <1>11 DEF HandleMalformed
<1>12. CASE Validate(g)
    BY <1>12 DEF Validate
<1> QED
    BY <1>1, <1>2, <1>3, <1>4, <1>5, <1>6, <1>7, <1>8, <1>9, <1>10, <1>11,
       <1>12 DEF Worker

\* An ordinary step touches nothing the pool's invariant reads but pc.
LEMMA OrdinaryKeepsPoolInv ==
    ASSUME NEW g \in Group, TypeOK, PoolInv, Ordinary(g)
    PROVE  PoolInv'
<1> USE DEF PoolInv, CauseInv, StoredInv
<1>1. CASE \E e \in Error : (e = "cancelled" => cancelled) /\ Throw(g, e)
    <2>1. PICK e \in Error : (e = "cancelled" => cancelled) /\ Throw(g, e)
        BY <1>1
    <2>2. \A h \in Group : /\ pc'[h] = IF h = g THEN "raise" ELSE pc[h]
                           /\ error'[h] = IF h = g THEN e ELSE error[h]
        BY <2>1 DEF Throw, Goto, TypeOK
    <2> QED
        BY <2>1, <2>2 DEF Ordinary
<1>2. CASE \E p \in Place \ {"raise", "signal"} : Proceed(g, p)
    <2>1. PICK p \in Place \ {"raise", "signal"} : Proceed(g, p)
        BY <1>2
    <2>2. \A h \in Group : pc'[h] = IF h = g THEN p ELSE pc[h]
        BY <2>1 DEF Proceed, Goto, TypeOK
    <2> QED
        BY <2>1, <2>2 DEF Ordinary, Proceed
<1> QED
    BY <1>1, <1>2 DEF Ordinary

\* Every step of a thread keeps the pool's invariant.
LEMMA WorkerKeepsPoolInv ==
    ASSUME NEW g \in Group, TypeOK, PoolInv, Worker(g)
    PROVE  PoolInv'
<1> USE DEF PoolInv, CauseInv, StoredInv, ledger, counts, task, caller, pool
<1>1. CASE StartWorker(g)
    <2>1. \A h \in Group :
              /\ future'[h] = IF h = g THEN "running" ELSE future[h]
              /\ pc'[h] = IF h = g THEN "check" ELSE pc[h]
        BY <1>1 DEF StartWorker, Goto, TypeOK
    <2>2. future[g] = "pending"
        BY <1>1 DEF StartWorker
    <2>3. g \notin collected
        BY <2>2
    <2> QED
        BY <1>1, <2>1, <2>3 DEF StartWorker, TypeOK
<1>2. CASE RecordStage(g)
    <2>1. CASE /\ stored' = [stored EXCEPT ![g] = TRUE]
               /\ future' = [future EXCEPT ![g] = "finished"]
               /\ Proceed(g, "done")
        <3>1. \A h \in Group :
                  /\ future'[h] = IF h = g THEN "finished" ELSE future[h]
                  /\ pc'[h] = IF h = g THEN "done" ELSE pc[h]
                  /\ stored'[h] = IF h = g THEN TRUE ELSE stored[h]
            BY <2>1 DEF Proceed, Goto, TypeOK
        <3> QED
            BY <1>2, <2>1, <3>1 DEF RecordStage, Proceed, TypeOK
    <2>2. CASE Throw(g, "fault") /\ UNCHANGED <<stored, future>>
        <3>1. Ordinary(g)
            BY <1>2, <2>2 DEF RecordStage, Ordinary, Error, Cause
        <3> QED
            BY <3>1, OrdinaryKeepsPoolInv
    <2> QED
        BY <1>2, <2>1, <2>2 DEF RecordStage
<1>3. CASE KeepError(g)
    <2>1. \A h \in Group :
              /\ pc'[h] = IF h = g THEN "signal" ELSE pc[h]
              /\ error'[h] = IF h = g THEN None ELSE error[h]
        BY <1>3 DEF KeepError, Goto, TypeOK
    <2>2. first' \in Cause
        <3>1. error[g] \in Error
            BY <1>3 DEF KeepError
        <3>2. CASE first = None
            <4>1. ~cancelled
                BY <3>2, NoneAssumption DEF Error
            <4>2. error[g] \in Cause
                BY <3>1, <4>1 DEF Error
            <4> QED
                BY <1>3, <3>2, <4>2 DEF KeepError
        <3>3. CASE first # None
            BY <1>3, <3>3 DEF KeepError
        <3> QED
            BY <3>2, <3>3
    <2>3. UNCHANGED <<future, stored, cancelled, main, collected>>
        BY <1>3 DEF KeepError
    <2>4. CauseInv'
        BY <2>1, <2>2, <2>3, NoneAssumption DEF Error
    <2>5. StoredInv'
        BY <1>3, <2>1, <2>3 DEF KeepError
    <2> QED
        BY <2>4, <2>5
<1>4. CASE SignalCancel(g)
    <2>1. \A h \in Group :
              /\ pc'[h] = IF h = g THEN "done" ELSE pc[h]
              /\ future'[h] = IF h = g THEN "failed" ELSE future[h]
        BY <1>4 DEF SignalCancel, Goto, TypeOK
    <2>2. UNCHANGED <<stored, error, first, main, collected>> /\ cancelled'
        BY <1>4 DEF SignalCancel
    <2>3. first \in Cause
        BY <1>4 DEF SignalCancel
    <2>4. CauseInv'
        BY <2>1, <2>2, <2>3
    <2>5. g \notin collected
        BY <1>4 DEF SignalCancel
    <2>6. StoredInv'
        BY <2>1, <2>2, <2>5 DEF TypeOK
    <2> QED
        BY <2>4, <2>6
<1> QED
    BY <1>1, <1>2, <1>3, <1>4, WorkerIsOrdinary, OrdinaryKeepsPoolInv

\* Every step of the caller keeps the pool's invariant.
LEMMA CallerKeepsPoolInv ==
    ASSUME TypeOK, PoolInv, PoolCaller
    PROVE  PoolInv'
<1> USE DEF PoolInv, CauseInv, StoredInv, ledger, counts, task
<1>1. ASSUME NEW g \in Group, Collect(g)  PROVE PoolInv'
    BY <1>1 DEF Collect
<1>2. CASE Observe
    BY <1>2 DEF Observe
<1>3. CASE CancelNext
    <2>1. PICK k : k = swept'
        OBVIOUS
    <2>2. \A h \in Group :
              future'[h] = IF h = k /\ future[h] = "pending" THEN "cancelled"
                           ELSE future[h]
        BY <1>3, <2>1 DEF CancelNext, TypeOK
    <2> QED
        BY <1>3, <2>2 DEF CancelNext, TypeOK
<1>4. CASE AwaitSiblings
    BY <1>4 DEF AwaitSiblings
<1>5. CASE Return
    BY <1>5 DEF Return
<1> QED
    BY <1>1, <1>2, <1>3, <1>4, <1>5 DEF PoolCaller

\* The two hold together in every reachable state.
LEMMA PoolInvariant == Spec => []PoolInv
<1>1. Init => PoolInv
    BY NoneAssumption DEF Init, PoolInv, CauseInv, StoredInv, Error
<1>2. TypeOK /\ PoolInv /\ [Next]_vars => PoolInv'
    <2>1. ASSUME TypeOK, PoolInv, UNCHANGED vars  PROVE PoolInv'
        BY <2>1 DEF vars, ledger, counts, task, caller, pool,
                    PoolInv, CauseInv, StoredInv
    <2> QED
        BY <2>1, WorkerKeepsPoolInv, CallerKeepsPoolInv DEF Next
<1> QED
    BY <1>1, <1>2, TypeCorrect, PTL DEF Spec

\* For any number of groups, threads and retries, a pool that fails raises the
\* cause of its failure, never the CancelledError of a sibling it stopped, and
\* a pool that returns has stored every group's output.
THEOREM HonestOutcome == Spec => []OutcomeIsHonest
<1>1. PoolInv => OutcomeIsHonest
    BY DEF PoolInv, CauseInv, StoredInv, OutcomeIsHonest
<1> QED
    BY <1>1, PoolInvariant, PTL

-----------------------------------------------------------------------------
\* A step of a thread moves no other thread, and a thread that was told to stop
\* does not get to an attempt; only ReserveTokens counts a late reservation.
LEMMA WorkerFrame ==
    ASSUME NEW g \in Group, TypeOK, Worker(g)
    PROVE  /\ \A h \in Group \ {g} : pc'[h] = pc[h]
           /\ cancelled => cancelled' /\ pc'[g] # "attempt"
           /\ late' = late \/ ReserveTokens(g)
<1> USE DEF ledger, counts, task, caller, pool, Attempted, Throw, Proceed, Goto, TypeOK
<1>1. CASE StartWorker(g)
    BY <1>1 DEF StartWorker
<1>2. CASE CheckCancellation(g)
    BY <1>2 DEF CheckCancellation
<1>3. CASE ReserveTokens(g)
    BY <1>3 DEF ReserveTokens
<1>4. CASE BlockReservation(g)
    BY <1>4 DEF BlockReservation
<1>5. CASE RefuseRequest(g)
    BY <1>5 DEF RefuseRequest
<1>6. CASE CancelReservation(g)
    BY <1>6 DEF CancelReservation
<1>7. CASE SettleEstimate(g)
    BY <1>7 DEF SettleEstimate
<1>8. CASE SettleActual(g)
    BY <1>8 DEF SettleActual
<1>9. CASE LoseReservation(g)
    BY <1>9 DEF LoseReservation
<1>10. CASE HandleTransport(g)
    BY <1>10 DEF HandleTransport
<1>11. CASE Backoff(g)
    BY <1>11 DEF Backoff
<1>12. CASE HandleMalformed(g)
    BY <1>12 DEF HandleMalformed
<1>13. CASE Validate(g)
    BY <1>13 DEF Validate
<1>14. CASE RecordStage(g)
    BY <1>14 DEF RecordStage
<1>15. CASE KeepError(g)
    BY <1>15 DEF KeepError
<1>16. CASE SignalCancel(g)
    BY <1>16 DEF SignalCancel
<1> QED
    BY <1>1, <1>2, <1>3, <1>4, <1>5, <1>6, <1>7, <1>8, <1>9, <1>10, <1>11,
       <1>12, <1>13, <1>14, <1>15, <1>16 DEF Worker

\* The caller moves no thread and takes back no cancellation.
LEMMA CallerFrame ==
    ASSUME PoolCaller
    PROVE  UNCHANGED <<local, ledger, pc, late, cancelled>>
BY DEF PoolCaller, Collect, Observe, CancelNext, AwaitSiblings, Return, task

\* A thread that made a late reservation had passed its check before the event
\* was set; it will not pass another.
LateInv ==
    \A g \in Group :
        /\ late[g] \in {0, 1}
        /\ late[g] = 1 => cancelled /\ pc[g] # "attempt"

\* For any number of groups, threads, retries and corrections: after the event
\* is set each thread starts at most the one call it had checked for
\* (generate(), context.cancelled()).
THEOREM SpendingStops == Spec => []CancellationStopsSpending
<1>1. Init => LateInv
    BY DEF Init, LateInv
<1>2. TypeOK /\ LateInv /\ [Next]_vars => LateInv'
    <2> SUFFICES ASSUME TypeOK, LateInv, [Next]_vars  PROVE LateInv'
        OBVIOUS
    <2>1. ASSUME NEW g \in Group, Worker(g)  PROVE LateInv'
        <3>1. /\ \A h \in Group \ {g} : pc'[h] = pc[h]
              /\ cancelled => cancelled' /\ pc'[g] # "attempt"
            BY <2>1, WorkerFrame
        <3>2. CASE late' = late
            BY <3>1, <3>2 DEF LateInv
        <3>3. CASE ReserveTokens(g)
            <4>1. late[g] = 0
                BY <3>3 DEF ReserveTokens, LateInv
            <4>2. \A h \in Group :
                      late'[h] = IF h = g /\ cancelled THEN late[g] + 1 ELSE late[h]
                BY <3>3 DEF ReserveTokens, TypeOK
            <4> QED
                BY <3>1, <4>1, <4>2 DEF LateInv
        <3> QED
            BY <2>1, <3>2, <3>3, WorkerFrame
    <2>2. CASE PoolCaller
        BY <2>2, CallerFrame DEF LateInv
    <2>3. CASE UNCHANGED vars
        BY <2>3 DEF LateInv, vars, task, pool
    <2> QED
        BY <2>1, <2>2, <2>3 DEF Next
<1>3. LateInv => CancellationStopsSpending
    BY DEF LateInv, CancellationStopsSpending
<1> QED
    BY <1>1, <1>2, <1>3, TypeCorrect, PTL DEF Spec

-----------------------------------------------------------------------------
\* What a step of a thread does to the ledger: it reserves for a call, or ends
\* the call it has in flight; only a local provider's call in flight is dropped
\* with its reservation.
LEMMA WorkerLedger ==
    ASSUME NEW g \in Group, TypeOK, Worker(g)
    PROVE  \/ Reserve(g, Need) /\ pc'[g] = "inflight"
           \/ Cancel(g)
           \/ \E n \in 0..(active[g] + Excess) : Settle(g, n)
           \/ UNCHANGED ledger /\ (pc[g] = "inflight" => local \/ StartWorker(g))
<1> USE DEF ledger, counts, task, caller, pool, Attempted, Throw, Proceed, Goto, TypeOK
<1>1. CASE ReserveTokens(g)
    BY <1>1 DEF ReserveTokens
<1>2. CASE CancelReservation(g)
    BY <1>2 DEF CancelReservation
<1>3. CASE SettleEstimate(g)
    <2>1. active[g] \in 0..(active[g] + Excess)
        BY BudgetAssumption DEF Group, LedgerTypeOK
    <2> QED
        BY <1>3, <2>1 DEF SettleEstimate
<1>4. CASE SettleActual(g)
    BY <1>4 DEF SettleActual
<1>5. CASE LoseReservation(g)
    BY <1>5 DEF LoseReservation
<1>6. CASE StartWorker(g) \/ CheckCancellation(g) \/ BlockReservation(g)
              \/ RefuseRequest(g) \/ HandleTransport(g) \/ Backoff(g)
    <2>1. UNCHANGED ledger
        BY <1>6 DEF StartWorker, CheckCancellation, BlockReservation, RefuseRequest,
                    HandleTransport, Backoff
    <2> QED
        BY <1>6, <2>1 DEF CheckCancellation, BlockReservation, RefuseRequest,
                                HandleTransport, Backoff
<1>7. CASE HandleMalformed(g) \/ Validate(g) \/ RecordStage(g) \/ KeepError(g)
              \/ SignalCancel(g)
    BY <1>7 DEF HandleMalformed, Validate, RecordStage, KeepError, SignalCancel
<1> QED
    BY <1>1, <1>2, <1>3, <1>4, <1>5, <1>6, <1>7 DEF Worker

\* The threads and the caller use the ledger as BudgetLedger allows: the pool
\* implements the ledger's specification.
THEOREM LedgerUsed == Spec => LedgerSpec
<1>1. Init => LedgerInit
    BY DEF Init
<1>2. TypeOK /\ [Next]_vars => [LedgerNext]_ledgerVars
    <2> SUFFICES ASSUME TypeOK, [Next]_vars  PROVE [LedgerNext]_ledgerVars
        OBVIOUS
    <2>1. ASSUME NEW g \in Group, Worker(g)  PROVE [LedgerNext]_ledgerVars
        BY <2>1, WorkerLedger, BudgetAssumption DEF LedgerNext, ledger, ledgerVars, Group
    <2>2. CASE PoolCaller
        BY <2>2, CallerFrame DEF ledger, ledgerVars
    <2>3. CASE UNCHANGED vars
        BY <2>3 DEF vars, ledger, ledgerVars
    <2> QED
        BY <2>1, <2>2, <2>3 DEF Next
<1> QED
    BY <1>1, <1>2, TypeCorrect, PTL DEF Spec, LedgerSpec

\* However many threads spend at once, and whatever fails or is cancelled, the
\* run's ceiling is overshot only by the underestimates of calls that were in
\* flight (BudgetLedger as _run_parallel_workers shares it).
THEOREM PoolOvershoot == Spec => []OvershootBounded
BY LedgerUsed, LedgerOvershoot, PTL

-----------------------------------------------------------------------------
\* The counter of reserved tokens is the number of active reservations, and
\* unless a provider is local each of them is a call in flight.
HeldInv ==
    /\ \A g \in Group : active[g] \in {0, Need}
    /\ reserved = Need * Cardinality(Active)
    /\ ~local => \A g \in Group : active[g] # 0 => pc[g] = "inflight"

\* One more call in flight holds Need more tokens.
LEMMA NeedTimes ==
    ASSUME NEW n \in Int
    PROVE  Need * (n + 1) = Need * n + Need /\ Need * (n - 1) = Need * n - Need
BY BudgetAssumption

\* A thread that reserves joins the active ones.
LEMMA OneMoreActive ==
    ASSUME LedgerTypeOK, NEW g \in Group, Reserve(g, Need)
    PROVE  Cardinality(Active') = Cardinality(Active) + 1
<1>1. Active' = Active \cup {g}
    BY BudgetAssumption DEF Reserve, Active, LedgerTypeOK, Group
<1>2. g \notin Active
    BY DEF Reserve, Active
<1> QED
    BY <1>1, <1>2, ActiveCount, FS_AddElement

\* Reserving, settling and cancelling keep the counter true; the call in flight
\* of any thread ends with its reservation.
LEMMA WorkerKeepsHeld ==
    ASSUME NEW g \in Group, TypeOK, StoredInv, HeldInv, Worker(g), UNCHANGED local
    PROVE  HeldInv'
<1>0. LedgerTypeOK /\ Need \in Nat \ {0}
    BY BudgetAssumption DEF TypeOK
<1>1. \A h \in Group \ {g} : pc'[h] = pc[h]
    BY WorkerFrame
<1>2. Cardinality(Active) \in Nat
    BY <1>0, ActiveCount
<1>3. CASE Reserve(g, Need) /\ pc'[g] = "inflight"
    <2>1. \A h \in Group : active'[h] = IF h = g THEN Need ELSE active[h]
        BY <1>0, <1>3 DEF Reserve, LedgerTypeOK, Group
    <2>2. reserved' = Need * Cardinality(Active')
        <3>1. reserved' = reserved + Need
            BY <1>3 DEF Reserve
        <3>2. Cardinality(Active') = Cardinality(Active) + 1
            BY <1>0, <1>3, OneMoreActive
        <3> QED
            BY <1>2, <3>1, <3>2, NeedTimes DEF HeldInv
    <2> QED
        BY <1>1, <1>3, <2>1, <2>2 DEF HeldInv
<1>4. CASE Cancel(g) \/ \E n \in 0..(active[g] + Excess) : Settle(g, n)
    <2>1. /\ active[g] # 0 /\ active' = [active EXCEPT ![g] = 0]
          /\ reserved' = reserved - active[g]
        BY <1>4 DEF Cancel, Settle
    <2>2. \A h \in Group : active'[h] = IF h = g THEN 0 ELSE active[h]
        BY <1>0, <2>1 DEF LedgerTypeOK, Group
    <2>3. reserved' = Need * Cardinality(Active')
        <3>1. reserved' = reserved - Need
            BY <2>1 DEF HeldInv
        <3>2. Cardinality(Active') = Cardinality(Active) - 1
            BY <1>0, <2>1, OneFewerActive DEF Group
        <3> QED
            BY <1>2, <3>1, <3>2, NeedTimes DEF HeldInv
    <2> QED
        BY <1>1, <2>2, <2>3 DEF HeldInv
<1>5. CASE UNCHANGED ledger /\ (pc[g] = "inflight" => local \/ StartWorker(g))
    <2>1. ~StartWorker(g) \/ pc[g] # "inflight"
        BY DEF StartWorker, StoredInv
    <2>2. UNCHANGED <<active, reserved>> /\ Active' = Active
        BY <1>5 DEF ledger, Active
    <2> QED
        BY <1>1, <1>5, <2>1, <2>2 DEF HeldInv
<1> QED
    BY <1>3, <1>4, <1>5, WorkerLedger

\* No step changes which groups are local.
LEMMA LocalFixed ==
    ASSUME [Next]_vars  PROVE UNCHANGED local
<1>1. ASSUME NEW g \in Group, Worker(g)  PROVE UNCHANGED local
    BY <1>1 DEF Worker, StartWorker, CheckCancellation, ReserveTokens, BlockReservation,
                RefuseRequest, CancelReservation, SettleEstimate, SettleActual,
                LoseReservation, HandleTransport, Backoff, HandleMalformed, Validate,
                RecordStage, KeepError, SignalCancel
<1> QED
    BY <1>1, CallerFrame DEF Next, vars

\* Every step keeps the counter equal to what the active reservations hold.
LEMMA HeldStep ==
    ASSUME TypeOK, StoredInv, HeldInv, [Next]_vars
    PROVE  HeldInv'
<1>1. ASSUME NEW g \in Group, Worker(g)  PROVE HeldInv'
    BY <1>1, LocalFixed, WorkerKeepsHeld
<1>2. CASE PoolCaller \/ UNCHANGED vars
    <2>1. UNCHANGED <<local, active, reserved, pc>> /\ Active' = Active
        BY <1>2, CallerFrame DEF vars, ledger, Active
    <2> QED
        BY <2>1 DEF HeldInv
<1> QED
    BY <1>1, <1>2 DEF Next

-----------------------------------------------------------------------------
\* The caller leaves only when nothing runs and nothing can start: it has waited
\* for every future it could not cancel, or, in a sequential run, the one worker
\* has failed and the event keeps the others from starting.
EndInv ==
    /\ \A g \in Group : g <= swept => future[g] # "pending"
    /\ \A g \in Group : future[g] = "failed" => cancelled
    /\ Sequential => /\ \A g, h \in Running : g = h
                     /\ cancelled => Running = {}
                     /\ main # "cancel"
    /\ Ended => Running = {} /\ (Pending = {} \/ (Sequential /\ cancelled))

\* The one slot of a sequential pool is free when a worker starts.
LEMMA SlotFree ==
    ASSUME Cardinality(Running) < 1, TypeOK  PROVE Running = {}
<1>1. IsFiniteSet(Running)
    BY CallerAssumption, FS_Subset DEF Running, Group
<1>2. Cardinality(Running) \in Nat
    BY <1>1, FS_CardinalityType
<1>3. Cardinality(Running) = 0
    BY <1>2
<1> QED
    BY <1>1, <1>3, FS_EmptySet

\* A step of a thread keeps what is known at the end of a call.
LEMMA WorkerKeepsEnd ==
    ASSUME NEW g \in Group, TypeOK, StoredInv, EndInv, Worker(g), UNCHANGED local
    PROVE  EndInv'
<1> USE DEF ledger, counts, task, caller, pool
<1>0. UNCHANGED Sequential
    BY DEF Sequential, Width
<1>1. CASE Ordinary(g)
    BY <1>0, <1>1 DEF Ordinary, EndInv, Running, Pending, Ended
<1>2. CASE StartWorker(g)
    <2>1. /\ future[g] = "pending" /\ g \in Pending
          /\ \A h \in Group : future'[h] = IF h = g THEN "running" ELSE future[h]
          /\ UNCHANGED <<cancelled, main, swept>>
        BY <1>2 DEF StartWorker, TypeOK, Pending
    <2>2. Sequential => ~cancelled /\ Running = {}
        BY <1>2, SlotFree DEF StartWorker, Sequential
    <2>3. ~Ended
        BY <2>1, <2>2 DEF EndInv
    <2>4. Running' = Running \cup {g}
        BY <2>1 DEF Running
    <2> QED
        BY <1>0, <2>1, <2>2, <2>3, <2>4 DEF EndInv, Ended
<1>3. CASE RecordStage(g) \/ KeepError(g) \/ SignalCancel(g)
    <2>1. future[g] = "running" /\ g \in Running
        BY <1>3 DEF RecordStage, KeepError, SignalCancel, StoredInv, Running
    <2>2. ~Ended /\ UNCHANGED <<main, swept>>
        BY <1>3, <2>1 DEF EndInv, RecordStage, KeepError, SignalCancel
    <2>3. CASE SignalCancel(g)
        <3>1. /\ \A h \in Group : future'[h] = IF h = g THEN "failed" ELSE future[h]
              /\ cancelled'
            BY <2>3 DEF SignalCancel, TypeOK
        <3>2. Running' = Running \ {g}
            BY <3>1 DEF Running
        <3>3. Sequential => Running' = {}
            BY <2>1, <3>2 DEF EndInv
        <3> QED
            BY <1>0, <2>1, <2>2, <3>1, <3>2, <3>3 DEF EndInv, Ended
    <2>4. CASE RecordStage(g) \/ KeepError(g)
        <3>1. /\ \A h \in Group : future'[h] = future[h]
                                   \/ (h = g /\ future'[h] = "finished")
              /\ UNCHANGED cancelled
            BY <2>4 DEF RecordStage, KeepError, TypeOK
        <3>2. Running' \subseteq Running
            BY <3>1 DEF Running
        <3> QED
            BY <1>0, <2>1, <2>2, <3>1, <3>2 DEF EndInv, Ended
    <2> QED
        BY <1>3, <2>3, <2>4
<1> QED
    BY <1>1, <1>2, <1>3, WorkerIsOrdinary

\* A step of the caller keeps what is known at the end of a call.
LEMMA CallerKeepsEnd ==
    ASSUME TypeOK, StoredInv, EndInv, PoolCaller
    PROVE  EndInv'
<1> USE DEF ledger, counts, task
<1>0. UNCHANGED <<Sequential, cancelled>>
    BY CallerFrame DEF Sequential, Width
<1>1. ASSUME NEW g \in Group, Collect(g)  PROVE EndInv'
    BY <1>0, <1>1 DEF Collect, EndInv, Running, Pending, Ended
<1>2. CASE Observe
    <2>1. UNCHANGED <<Running, Pending, future, swept>> /\ cancelled
        BY <1>2 DEF Observe, EndInv, Running, Pending
    <2>2. main' = IF Sequential THEN "raised" ELSE "cancel"
        BY <1>2 DEF Observe
    <2> QED
        BY <1>0, <2>1, <2>2 DEF EndInv, Ended
<1>3. CASE CancelNext
    <2>1. /\ main = "cancel" /\ swept' = swept + 1 /\ UNCHANGED main
          /\ swept \in Nat
        BY <1>3 DEF CancelNext, TypeOK
    <2>2. \A h \in Group :
              future'[h] = IF h = swept' /\ future[h] = "pending" THEN "cancelled"
                           ELSE future[h]
        <3> DEFINE k == swept'
        <3>1. future' = [future EXCEPT ![k] = IF @ = "pending" THEN "cancelled" ELSE @]
            BY <1>3 DEF CancelNext
        <3> HIDE DEF k
        <3>2. \A h \in Group :
                 future'[h] = IF h = k /\ future[h] = "pending" THEN "cancelled"
                              ELSE future[h]
            BY <3>1 DEF TypeOK
        <3> QED
            BY <3>2 DEF k
    <2>3. Running' = Running
        BY <2>2 DEF Running
    <2>4. \A h \in Group : h <= swept' => h <= swept \/ h = swept'
        BY <2>1, GroupAssumption DEF Group
    <2>5. ~Ended'
        BY <2>1 DEF Ended
    <2> QED
        BY <1>0, <2>1, <2>2, <2>3, <2>4, <2>5 DEF EndInv
<1>4. CASE AwaitSiblings
    <2>1. Running = {} /\ swept = GroupCount /\ UNCHANGED <<future, swept>> /\ main' = "raised"
        BY <1>4 DEF AwaitSiblings
    <2>2. Pending = {}
        BY <2>1, GroupAssumption DEF EndInv, Pending, Group
    <2>3. UNCHANGED <<Running, Pending>>
        BY <2>1 DEF Running, Pending
    <2> QED
        BY <1>0, <2>1, <2>2, <2>3 DEF EndInv
<1>5. CASE Return
    <2>1. collected = Group /\ UNCHANGED <<future, swept>> /\ main' # "cancel"
        BY <1>5 DEF Return
    <2>2. Running = {} /\ Pending = {}
        BY <2>1 DEF StoredInv, Running, Pending
    <2>3. UNCHANGED <<Running, Pending>>
        BY <2>1 DEF Running, Pending
    <2> QED
        BY <1>0, <2>1, <2>2, <2>3 DEF EndInv
<1> QED
    BY <1>1, <1>2, <1>3, <1>4, <1>5 DEF PoolCaller

\* Every step keeps it.
LEMMA EndStep ==
    ASSUME TypeOK, StoredInv, EndInv, [Next]_vars
    PROVE  EndInv'
<1>1. ASSUME NEW g \in Group, Worker(g)  PROVE EndInv'
    BY <1>1, LocalFixed, WorkerKeepsEnd
<1>2. CASE UNCHANGED vars
    BY <1>2 DEF vars, pool, caller, EndInv, Sequential, Width, Running, Pending, Ended
<1> QED
    BY <1>1, <1>2, CallerKeepsEnd DEF Next

\* For any number of groups, threads and retries: when _run_parallel_workers is
\* left, by return or by an exception, no thread of it runs, and unless a
\* provider is local nothing of the run's budget is held back.
THEOREM NothingLeft == Spec => []NothingLeftBehind
<1>1. Init => HeldInv /\ EndInv
    <2> SUFFICES ASSUME Init  PROVE HeldInv /\ EndInv
        OBVIOUS
    <2>1. Active = {} /\ Running = {}
        BY DEF Init, LedgerInit, Active, Running, Group
    <2>2. Need * Cardinality(Active) = 0
        BY <2>1, FS_EmptySet, BudgetAssumption
    <2>3. HeldInv
        BY <2>2 DEF HeldInv, Init, LedgerInit, Group
    <2>4. EndInv
        BY <2>1, GroupAssumption DEF EndInv, Init, Ended, Group
    <2> QED
        BY <2>3, <2>4
<1>2. TypeOK /\ PoolInv /\ (HeldInv /\ EndInv) /\ [Next]_vars => (HeldInv /\ EndInv)'
    BY HeldStep, EndStep DEF PoolInv
<1>3. TypeOK /\ PoolInv /\ HeldInv /\ EndInv => NothingLeftBehind
    <2> SUFFICES ASSUME TypeOK, PoolInv, HeldInv, EndInv, Ended
                 PROVE  Running = {} /\ (~local => reserved = 0)
        BY DEF NothingLeftBehind
    <2>1. Running = {}
        BY DEF EndInv
    <2>2. \A g \in Group : pc[g] # "inflight"
        BY <2>1 DEF PoolInv, StoredInv, Running
    <2>3. ~local => Active = {}
        BY <2>2 DEF HeldInv, Active, Group
    <2>4. Need * 0 = 0
        BY BudgetAssumption
    <2> QED
        BY <2>1, <2>3, <2>4, FS_EmptySet DEF HeldInv
<1> QED
    BY <1>1, <1>2, <1>3, TypeCorrect, PoolInvariant, PTL DEF Spec
=============================================================================
