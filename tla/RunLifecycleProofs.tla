------------------------- MODULE RunLifecycleProofs -------------------------
(* Proofs about RunLifecycle, for every set of workers, runs and tasks: who   *)
(* may write what, that its tables agree with each other and keep the promise *)
(* of RunRecord, and that what a recovery takes over from the run it recovers,*)
(* its outputs and its cost, is what that run has on record.                  *)
EXTENDS RunLifecycle, TLAPS

-----------------------------------------------------------------------------
(* Types *)

\* How often a worker has called a model for its task.
Counted ==
    /\ attempt \in [Worker -> Nat]
    /\ \A w \in Worker : attempt[w] <= Attempts(task[w])

\* A task, and the repairs of a suite, may be asked for once at least.
LEMMA AttemptsPositive == \A t : Attempts(t) \in Nat /\ 0 < Attempts(t)
  BY CountAssumption DEF Attempts

\* What Leave resets has the types of a worker that is idle.
LEMMA LeaveTypeOK ==
    ASSUME TypeOK, NEW w \in Worker, Leave(w), UNCHANGED dbVars
    PROVE  TypeOK'
<1>1. lease' \in [RunId -> Worker \cup {None}]
  BY DEF TypeOK, Leave, LeaseWithout
<1>2. pc' \in [Worker -> Phase] /\ req' \in [Worker -> Request \cup {None}]
  BY DEF TypeOK, Leave, Phase
<1>3. \A v \in Worker : pc'[v] # "idle" => req'[v] \in Request
  BY DEF TypeOK, Leave
<1>4. snap' \in [Worker -> [Task -> Row \cup {None}]]
  BY DEF TypeOK, Leave, NoRows
<1>5. /\ inherited' \in [Worker -> [cost : [RunId -> Nat], seen : SUBSET RunId, next : RunId \cup {None}]]
      /\ used' \in [Worker -> Nat]
      /\ Counted'
  <2>1. Nothing \in [cost : [RunId -> Nat], seen : SUBSET RunId, next : RunId \cup {None}]
    BY DEF Nothing, From, NoCost
  <2>2. inherited' \in [Worker -> [cost : [RunId -> Nat], seen : SUBSET RunId, next : RunId \cup {None}]]
    BY <2>1 DEF TypeOK, Leave
  <2>3. Counted'
    BY AttemptsPositive DEF TypeOK, Leave, Counted
  <2> QED
    BY <2>2, <2>3 DEF TypeOK, Leave
<1>6. task' \in [Worker -> Task]
  <2>1. 1 \in Task
    BY CountAssumption DEF Task, JudgeTask
  <2> QED
    BY <2>1 DEF TypeOK, Leave
<1>7. verdict' \in [Worker -> [status : Terminal, evaluation : Evaluation]]
  BY DEF TypeOK, Leave, Pending, Terminal, Evaluation
<1> QED
  BY <1>1, <1>2, <1>3, <1>4, <1>5, <1>6, <1>7 DEF TypeOK, Counted, dbVars

\* Advance and Fail keep to the tasks there are.
LEMMA AdvanceTypeOK ==
    ASSUME TypeOK, NEW w \in Worker, Advance(w), pc[w] # "idle"
    PROVE  /\ pc' \in [Worker -> Phase]
           /\ \A v \in Worker : pc'[v] # "idle" => pc[v] # "idle"
           /\ task' \in [Worker -> Task]
           /\ Counted'
           /\ verdict' \in [Worker -> [status : Terminal, evaluation : Evaluation]]
<1>1. pc' \in [Worker -> Phase] /\ \A v \in Worker : pc'[v] # "idle" => pc[v] # "idle"
  BY DEF TypeOK, Advance, Goto, Phase, Executing
<1>2. task' \in [Worker -> Task]
  <2>1. task[w] \in Task
    BY DEF TypeOK
  <2>2. task[w] # JudgeTask => task[w] + 1 \in Task
    BY <2>1, CountAssumption DEF Task, JudgeTask
  <2> QED
    BY <2>2 DEF TypeOK, Advance
<1>3. Counted'
  BY AttemptsPositive DEF TypeOK, Advance, Counted
<1>4. verdict' \in [Worker -> [status : Terminal, evaluation : Evaluation]]
  <2>1. CASE task[w] = JudgeTask
    <3>1. verdict' = [verdict EXCEPT ![w].evaluation = "completed"]
      BY <2>1 DEF Advance
    <3>2. verdict \in [Worker -> [status : Terminal, evaluation : Evaluation]]
      BY DEF TypeOK
    <3>3. "completed" \in Evaluation
      BY DEF Evaluation
    <3> QED
      BY <3>1, <3>2, <3>3
  <2>2. CASE task[w] # JudgeTask
    BY <2>2 DEF TypeOK, Advance
  <2> QED
    BY <2>1, <2>2
<1> QED
  BY <1>1, <1>2, <1>3, <1>4

\* A worker that fails closes its run with the verdict of one that ended.
LEMMA FailTypeOK ==
    ASSUME TypeOK, NEW w \in Worker, Fail(w), pc[w] # "idle"
    PROVE  /\ pc' \in [Worker -> Phase]
           /\ \A v \in Worker : pc'[v] # "idle" => pc[v] # "idle"
           /\ verdict' \in [Worker -> [status : Terminal, evaluation : Evaluation]]
<1>1. pc' \in [Worker -> Phase] /\ \A v \in Worker : pc'[v] # "idle" => pc[v] # "idle"
  BY DEF TypeOK, Fail, Goto, Phase, Executing
<1>2. verdict' \in [Worker -> [status : Terminal, evaluation : Evaluation]]
  BY DEF TypeOK, Fail, Evaluation, Terminal
<1> QED
  BY <1>1, <1>2

\* A stored row is a row of its run.
LEMMA PutRowTypeOK ==
    ASSUME TypeOK, NEW w \in Worker, req[w] \in Request, NEW t \in Task,
           NEW row \in Row, PutRow(Run(w), t, row)
    PROVE  rows' \in [RunId -> [Task -> Row \cup {None}]]
<1>1. rows' = [rows EXCEPT ![Run(w)][t] = row]
  BY DEF PutRow
<1>2. Run(w) \in RunId
  BY DEF Run, Request
<1>3. rows \in [RunId -> [Task -> Row \cup {None}]]
  BY DEF TypeOK
<1>4. [rows[Run(w)] EXCEPT ![t] = row] \in [Task -> Row \cup {None}]
  BY <1>2, <1>3
<1> QED
  BY <1>1, <1>2, <1>3, <1>4

\* An appended event is one of the run's events.
LEMMA EventTypeOK ==
    ASSUME TypeOK, NEW r \in RunId, NEW e \in {"started", "parsed", "finished"},
           AppendEvent(r, e)
    PROVE  events' \in [RunId -> Seq({"started", "parsed", "finished"})]
  BY DEF TypeOK, AppendEvent

\* The actions of TypeOK that leave the database alone, but for Leave.
LEMMA SubmitTypeOK ==
    ASSUME TypeOK, NEW w \in Worker, Submit(w)
    PROVE  TypeOK'
<1>1. PICK q \in Requests :
        /\ req' = [req EXCEPT ![w] = q]
        /\ snap' = [snap EXCEPT ![w] = IF q.parent = None THEN NoRows ELSE rows[q.parent]]
        /\ inherited' = [inherited EXCEPT ![w] = From(q.parent)]
        /\ Goto(w, IF q.parent = None THEN "lease" ELSE "inherit")
  BY DEF Submit
<1>2. q \in Request
  BY RequestAssumption
<1>3. q.parent \in RunId \cup {None}
  BY <1>2 DEF Request
<1>4. snap' \in [Worker -> [Task -> Row \cup {None}]]
  BY <1>1, <1>3 DEF TypeOK, NoRows
<1>5. pc' \in [Worker -> Phase] /\ req' \in [Worker -> Request \cup {None}]
  BY <1>1, <1>2 DEF TypeOK, Goto, Phase
<1>6. \A v \in Worker : pc'[v] # "idle" => req'[v] \in Request
  BY <1>1, <1>2 DEF TypeOK, Goto
<1>7. inherited' \in [Worker -> [cost : [RunId -> Nat], seen : SUBSET RunId, next : RunId \cup {None}]]
  BY <1>1, <1>3 DEF TypeOK, From, NoCost
<1> QED
  BY <1>4, <1>5, <1>6, <1>7 DEF Submit, TypeOK, dbVars

\* The loop goes on only while there is a run to read next.
Walking == \A w \in Worker : pc[w] = "inherit" => inherited[w].next # None

\* A copied cost is a cost.
LEMMA InheritTypeOK ==
    ASSUME TypeOK, Walking, NEW w \in Worker, InheritCost(w)
    PROVE  TypeOK'
<1>1. inherited[w].next \in RunId /\ inherited[w] \in [cost : [RunId -> Nat], seen : SUBSET RunId, next : RunId \cup {None}]
  BY DEF Walking, InheritCost, TypeOK
<1>2. OwnCost(inherited[w].next) \in Nat
  BY <1>1, NoneAssumption DEF TypeOK, OwnCost, Report
<1>3. ParentOf(inherited[w].next) \in RunId \cup {None}
  BY <1>1, NoneAssumption DEF TypeOK, ParentOf, Manifest
<1>4. Round(inherited[w]) \in [cost : [RunId -> Nat], seen : SUBSET RunId, next : RunId \cup {None}]
  BY <1>1, <1>2, <1>3 DEF Round
<1>5. inherited' \in [Worker -> [cost : [RunId -> Nat], seen : SUBSET RunId, next : RunId \cup {None}]]
  BY <1>4 DEF InheritCost, TypeOK
<1>6. pc' \in [Worker -> Phase] /\ \A v \in Worker : pc'[v] # "idle" => pc[v] # "idle"
  BY DEF InheritCost, TypeOK, Goto, Phase
<1> QED
  BY <1>5, <1>6 DEF InheritCost, TypeOK, dbVars

\* A row that is new, or copied from a checkpoint, is a row.
LEMMA RowsMade ==
    ASSUME TypeOK, NEW w \in Worker, req[w] \in Request, NEW t \in Task
    PROVE  /\ NewRow(w) \in Row
           /\ Reusable(w, t) => [snap[w][t] EXCEPT !.reusedFrom = Parent(w)] \in Row
<1>1. NewRow(w) \in Row
  BY DEF NewRow, Row, Run, Request
<1>2. ASSUME Reusable(w, t)
      PROVE  [snap[w][t] EXCEPT !.reusedFrom = Parent(w)] \in Row
  <2>1. snap[w][t] \in Row
    BY <1>2 DEF Reusable, TypeOK
  <2>2. Parent(w) \in RunId \cup {None}
    BY DEF Parent, Request
  <2> QED
    BY <2>1, <2>2 DEF Row
<1> QED
  BY <1>1, <1>2

\* A worker that may call a model has an attempt left, and none is made before
\* the first task.
Calling == {"settled", "valid", "finalize", "close"}
AttemptsLeft ==
    \A w \in Worker :
        /\ pc[w] \notin Calling => attempt[w] < Attempts(task[w])
        /\ pc[w] \notin Calling \cup {"work"} => attempt[w] = 0

\* Every step of run_generation keeps the types.
LEMMA ProgressTypeOK ==
    ASSUME TypeOK, AttemptsLeft, Walking, NEW w \in Worker, Progress(w)
    PROVE  TypeOK'
<1> USE DEF dbVars, workerVars
<1> USE AttemptsPositive
<1>0. /\ pc[w] # "idle" => req[w] \in Request /\ Run(w) \in RunId
                           /\ Parent(w) \in RunId \cup {None}
      /\ task[w] \in Task /\ GenerationRow \in Task /\ JudgeTask \in Task
  <2>1. task[w] \in Task
    BY DEF TypeOK
  <2>2. GenerationRow \in Task /\ JudgeTask \in Task
    BY CountAssumption DEF Task, GenerationRow, JudgeTask
  <2> QED
    BY <2>1, <2>2 DEF TypeOK, Run, Parent, Request
<1>1. CASE InheritCost(w)
  BY <1>1, InheritTypeOK
<1>2. CASE AcquireLease(w)
  <2>1. lease' \in [RunId -> Worker \cup {None}]
    BY <1>2 DEF AcquireLease, TypeOK
  <2>2. pc' \in [Worker -> Phase] /\ \A v \in Worker : pc'[v] # "idle" => pc[v] # "idle"
    BY <1>2 DEF AcquireLease, TypeOK, Goto, Phase
  <2> QED
    BY <1>2, <2>1, <2>2 DEF AcquireLease, TypeOK
<1>3. CASE RefuseLease(w) \/ ReturnExisting(w) \/ RefuseChunks(w) \/ Close(w)
  BY <1>3, LeaveTypeOK DEF RefuseLease, ReturnExisting, RefuseChunks, Close
<1>4. CASE CreateRun(w)
  <2>1. req[w] \in Request /\ Run(w) \in RunId
    BY <1>0, <1>4 DEF CreateRun
  <2>2. [parent |-> Parent(w), config |-> req[w].config] \in Manifest
    BY <2>1 DEF Parent, Request, Manifest
  <2>3. /\ status' \in [RunId -> {"absent", "running"} \cup Terminal]
        /\ manifest' \in [RunId -> Manifest \cup {None}]
    BY <1>4, <2>2 DEF CreateRun, TypeOK
  <2>4. pc' \in [Worker -> Phase] /\ \A v \in Worker : pc'[v] # "idle" => pc[v] # "idle"
    BY <1>4 DEF CreateRun, TypeOK, Goto, Phase, Executing
  <2> QED
    BY <1>4, <2>3, <2>4 DEF CreateRun, TypeOK
<1>5. CASE AppendStarted(w)
  <2>1. Run(w) \in RunId
    BY <1>0, <1>5 DEF AppendStarted
  <2>2. events' \in [RunId -> Seq({"started", "parsed", "finished"})]
    BY <1>5, <2>1, EventTypeOK DEF AppendStarted
  <2>3. pc' \in [Worker -> Phase] /\ \A v \in Worker : pc'[v] # "idle" => pc[v] # "idle"
    BY <1>5 DEF AppendStarted, TypeOK, Goto, Phase, Executing
  <2> QED
    BY <1>5, <2>2, <2>3 DEF AppendStarted, TypeOK
<1>6. CASE SaveChunks(w)
  <2>1. chunks' \in [RunId -> BOOLEAN]
    BY <1>6 DEF SaveChunks, TypeOK
  <2>2. pc' \in [Worker -> Phase] /\ \A v \in Worker : pc'[v] # "idle" => pc[v] # "idle"
    BY <1>6 DEF SaveChunks, TypeOK, Goto, Phase, Executing
  <2> QED
    BY <1>6, <2>1, <2>2 DEF SaveChunks, TypeOK
<1>7. CASE RejectDocument(w)
  <2>1. verdict' \in [Worker -> [status : Terminal, evaluation : Evaluation]]
    BY <1>7 DEF RejectDocument, TypeOK, Terminal
  <2>2. pc' \in [Worker -> Phase] /\ \A v \in Worker : pc'[v] # "idle" => pc[v] # "idle"
    BY <1>7 DEF RejectDocument, TypeOK, Goto, Phase, Executing
  <2> QED
    BY <1>7, <2>1, <2>2 DEF RejectDocument, TypeOK
<1>8. CASE AppendParsed(w)
  <2>1. Run(w) \in RunId
    BY <1>0, <1>8 DEF AppendParsed
  <2>2. events' \in [RunId -> Seq({"started", "parsed", "finished"})]
    BY <1>8, <2>1, EventTypeOK DEF AppendParsed
  <2>3. pc' \in [Worker -> Phase] /\ \A v \in Worker : pc'[v] # "idle" => pc[v] # "idle"
    BY <1>8 DEF AppendParsed, TypeOK, Goto, Phase, Executing
  <2>4. /\ task' \in [Worker -> Task]
        /\ inherited' \in [Worker -> [cost : [RunId -> Nat], seen : SUBSET RunId, next : RunId \cup {None}]]
        /\ verdict' \in [Worker -> [status : Terminal, evaluation : Evaluation]]
    <3>1. 1 \in Task
      BY CountAssumption DEF Task, JudgeTask
    <3>2. CASE /\ task' = [task EXCEPT ![w] = IF Reusable(w, GenerationRow)
                                             THEN GenerationRow ELSE 1]
               /\ UNCHANGED <<inherited, verdict>>
      BY <3>1, <3>2, <1>0 DEF TypeOK
    <3>3. CASE /\ inherited' = [inherited EXCEPT ![w] = Nothing]
               /\ verdict' = [verdict EXCEPT ![w].status = "failed"]
               /\ UNCHANGED task
      <4>1. /\ "failed" \in Terminal
            /\ Nothing \in [cost : [RunId -> Nat], seen : SUBSET RunId, next : RunId \cup {None}]
        BY DEF Terminal, Nothing, From, NoCost
      <4>2. inherited' \in [Worker -> [cost : [RunId -> Nat], seen : SUBSET RunId, next : RunId \cup {None}]]
        BY <3>3, <4>1 DEF TypeOK
      <4>3. verdict' \in [Worker -> [status : Terminal, evaluation : Evaluation]]
        BY <3>3, <4>1 DEF TypeOK
      <4> QED
        BY <3>3, <4>2, <4>3 DEF TypeOK
    <3> QED
      BY <1>8, <3>2, <3>3 DEF AppendParsed
  <2>5. attempt' = attempt /\ \A v \in Worker : attempt[v] <= Attempts(task'[v])
    <3>1. attempt[w] = 0 /\ \A v \in Worker : v # w => task'[v] = task[v]
      BY <1>8 DEF AppendParsed, AttemptsLeft, Calling, TypeOK
    <3>2. attempt' = attempt
      BY <1>8 DEF AppendParsed
    <3>3. \A v \in Worker : attempt[v] <= Attempts(task[v])
      BY DEF TypeOK
    <3>4. 0 <= Attempts(task'[w])
      OBVIOUS
    <3> QED
      BY <3>1, <3>2, <3>3, <3>4
  <2> QED
    BY <1>8, <2>2, <2>3, <2>4, <2>5 DEF AppendParsed, TypeOK
<1>9. CASE ReuseTask(w)
  <2>1. req[w] \in Request /\ pc[w] # "idle"
    BY <1>0, <1>9 DEF ReuseTask
  <2>2. Reusable(w, task[w]) /\ Advance(w)
    BY <1>9 DEF ReuseTask, MayReuse
  <2>3. rows' \in [RunId -> [Task -> Row \cup {None}]]
    BY <1>0, <1>9, <2>1, <2>2, RowsMade, PutRowTypeOK DEF ReuseTask
  <2> QED
    BY <1>9, <2>1, <2>2, <2>3, AdvanceTypeOK DEF Counted, ReuseTask, TypeOK
<1>10. CASE CallModel(w)
  <2>1. used' \in [Worker -> Nat]
    BY <1>10 DEF Asking, CallModel, TypeOK
  <2>2. Counted'
    <3>1. attempt[w] \in Nat /\ attempt[w] < Attempts(task[w])
      BY <1>10 DEF CallModel, Asking, TypeOK, AttemptsLeft, Calling, Attempts
    <3>2. attempt[w] + 1 \in Nat /\ attempt[w] + 1 <= Attempts(task[w])
      BY <3>1
    <3> QED
      BY <1>10, <3>2 DEF Asking, CallModel, TypeOK, Counted
  <2>3. pc' \in [Worker -> Phase] /\ \A v \in Worker : pc'[v] # "idle" => pc[v] # "idle"
    BY <1>10 DEF CallModel, Asking, TypeOK, Goto, Phase, Executing
  <2> QED
    BY <1>10, <2>1, <2>2, <2>3 DEF Asking, CallModel, TypeOK, Counted
<1>11. CASE AppendCall(w)
  <2>1. calls' \in [RunId -> Nat]
    <3>1. Run(w) \in RunId /\ calls[Run(w)] + 1 \in Nat
      BY <1>0, <1>11 DEF AppendCall, TypeOK
    <3> QED
      BY <1>11, <3>1 DEF AppendCall, TypeOK
  <2>2. /\ pc' \in [Worker -> Phase]
        /\ \A v \in Worker : pc'[v] # "idle" => pc[v] # "idle"
        /\ verdict' \in [Worker -> [status : Terminal, evaluation : Evaluation]]
    <3>1. CASE (Goto(w, "valid") \/ Goto(w, "work")) /\ UNCHANGED verdict
      BY <1>11, <3>1 DEF AppendCall, TypeOK, Goto, Phase, Executing
    <3>2. CASE Fail(w)
      BY <1>11, <3>2, FailTypeOK DEF AppendCall
    <3> QED
      BY <1>11, <3>1, <3>2 DEF AppendCall
  <2> QED
    BY <1>11, <2>1, <2>2 DEF AppendCall, TypeOK
<1>12. CASE FailTask(w)
  BY <1>12, FailTypeOK DEF FailTask, Asking, TypeOK
<1>13. CASE AppendStage(w)
  <2>1. req[w] \in Request /\ pc[w] # "idle"
    BY <1>0, <1>13 DEF AppendStage
  <2>2. rows' \in [RunId -> [Task -> Row \cup {None}]]
    BY <1>0, <1>13, <2>1, RowsMade, PutRowTypeOK DEF AppendStage
  <2> QED
    BY <1>13, <2>1, <2>2, AdvanceTypeOK DEF Counted, AppendStage, TypeOK
<1>14. CASE AppendGeneration(w)
  <2>1. req[w] \in Request /\ pc[w] # "idle"
    BY <1>0, <1>14 DEF AppendGeneration, Generated
  <2> DEFINE row == IF Reusable(w, GenerationRow)
                    THEN [snap[w][GenerationRow] EXCEPT !.reusedFrom = Parent(w)]
                    ELSE NewRow(w)
  <2>2. row \in Row
    BY <1>0, <2>1, RowsMade
  <2>3. rows' \in [RunId -> [Task -> Row \cup {None}]]
    BY <1>0, <1>14, <2>1, <2>2, PutRowTypeOK DEF Generated, AppendGeneration
  <2> QED
    BY <1>14, <2>1, <2>3, AdvanceTypeOK DEF Generated, AppendGeneration, Counted, TypeOK
<1>15. CASE RejectSuite(w)
  <2>1. verdict' \in [Worker -> [status : Terminal, evaluation : Evaluation]]
    BY <1>15 DEF Generated, RejectSuite, TypeOK, Terminal
  <2>2. task' \in [Worker -> Task]
    BY <1>0, <1>15 DEF Generated, RejectSuite, TypeOK
  <2>3. pc' \in [Worker -> Phase] /\ \A v \in Worker : pc'[v] # "idle" => pc[v] # "idle"
    BY <1>15 DEF RejectSuite, Generated, TypeOK, Goto, Phase, Executing
  <2>4. Counted'
    BY <1>15 DEF Generated, RejectSuite, TypeOK, Counted
  <2> QED
    BY <1>15, <2>1, <2>2, <2>3, <2>4 DEF Generated, RejectSuite, TypeOK, Counted
<1>16. CASE Finalize(w)
  <2>1. Run(w) \in RunId
    BY <1>0, <1>16 DEF Finalize
  <2>2. verdict[w] \in [status : Terminal, evaluation : Evaluation]
    BY DEF TypeOK
  <2>3. status' \in [RunId -> {"absent", "running"} \cup Terminal]
    BY <1>16, <2>2 DEF Finalize, TypeOK
  <2>4. [charged |-> used[w], inherited |-> inherited[w].cost,
         evaluation |-> verdict[w].evaluation] \in Report
    BY <2>2 DEF TypeOK, Report
  <2>5. report' \in [RunId -> Report \cup {None}]
    BY <1>16, <2>4 DEF Finalize, TypeOK
  <2>6. events' \in [RunId -> Seq({"started", "parsed", "finished"})]
    BY <1>16, <2>1, EventTypeOK DEF Finalize
  <2>7. pc' \in [Worker -> Phase] /\ \A v \in Worker : pc'[v] # "idle" => pc[v] # "idle"
    BY <1>16 DEF Finalize, TypeOK, Goto, Phase, Executing
  <2> QED
    BY <1>16, <2>3, <2>5, <2>6, <2>7 DEF Finalize, TypeOK
<1> QED
  BY <1>1, <1>2, <1>3, <1>4, <1>5, <1>6, <1>7, <1>8, <1>9, <1>10, <1>11,
     <1>12, <1>13, <1>14, <1>15, <1>16 DEF Progress

\* The retry guard of AppendCall is what keeps an attempt in hand.
LEMMA AttemptsStep ==
    ASSUME TypeOK, AttemptsLeft, [Next]_vars
    PROVE  AttemptsLeft'
<1>0. \A v \in Worker : attempt[v] \in Nat
  BY DEF TypeOK
<1> USE AttemptsPositive DEF Calling
<1>1. CASE UNCHANGED vars
  BY <1>1 DEF AttemptsLeft, vars, workerVars
<1>2. ASSUME NEW w \in Worker, Submit(w) \/ Progress(w) \/ Abandon(w) \/ DropLease(w)
      PROVE  AttemptsLeft'
  <2>1. CASE Leave(w)
    BY <1>0, <2>1 DEF Leave, AttemptsLeft, TypeOK
  <2>2. CASE Advance(w)
    BY <1>0, <2>2 DEF Advance, AttemptsLeft, TypeOK, Goto
  <2>3. CASE UNCHANGED <<task, attempt>> /\ \E p \in Calling : Goto(w, p)
    BY <2>3 DEF AttemptsLeft, TypeOK, Goto
  <2>4. CASE UNCHANGED <<task, attempt>> /\ \/ UNCHANGED pc
                                            \/ (\E p \in Phase : Goto(w, p)) /\ attempt[w] = 0
                                            \/ Goto(w, "work") /\ attempt[w] < Attempts(task[w])
    <3>1. CASE UNCHANGED pc
      BY <2>4, <3>1 DEF AttemptsLeft
    <3>2. ASSUME NEW p \in Phase, Goto(w, p), attempt[w] = 0
          PROVE  AttemptsLeft'
      <4>1. attempt' = attempt /\ task' = task /\ 0 < Attempts(task[w])
        BY <2>4, AttemptsPositive
      <4>2. pc'[w] = p /\ \A v \in Worker : v # w => pc'[v] = pc[v]
        BY <3>2 DEF Goto, TypeOK
      <4> QED
        BY <3>2, <4>1, <4>2 DEF AttemptsLeft
    <3>3. CASE Goto(w, "work") /\ attempt[w] < Attempts(task[w])
      <4>1. attempt' = attempt /\ task' = task
        BY <2>4
      <4>2. pc'[w] = "work" /\ \A v \in Worker : v # w => pc'[v] = pc[v]
        BY <3>3 DEF Goto, TypeOK
      <4> QED
        BY <3>3, <4>1, <4>2 DEF AttemptsLeft
    <3> QED
      BY <2>4, <3>1, <3>2, <3>3
  <2>5. CASE CallModel(w)
    BY <2>5 DEF Asking, CallModel, AttemptsLeft, TypeOK, Goto
  <2>6. CASE AppendCall(w)
    BY <2>3, <2>4, <2>6 DEF AppendCall, Fail, Phase, Executing
  <2>7. pc[w] \notin Calling \cup {"work"} => attempt[w] = 0
    BY DEF AttemptsLeft
  <2>8. CASE Submit(w) \/ InheritCost(w) \/ AcquireLease(w) \/ CreateRun(w)
                \/ AppendStarted(w) \/ SaveChunks(w)
    BY <2>4, <2>7, <2>8 DEF Submit, InheritCost, AcquireLease, CreateRun, AppendStarted,
                     SaveChunks, Phase, Executing, workerVars
  <2>9. CASE RejectDocument(w) \/ FailTask(w) \/ Finalize(w)
    <3>1. UNCHANGED <<task, attempt>>
      BY <2>9 DEF RejectDocument, FailTask, Finalize, workerVars
    <3>2. Goto(w, "finalize") \/ Goto(w, "close")
      BY <2>9 DEF RejectDocument, FailTask, Fail, Finalize
    <3>3. \E p \in Calling : Goto(w, p)
      BY <3>2
    <3> QED
      BY <2>3, <3>1, <3>3
  <2>10. CASE DropLease(w)
    BY <2>4, <2>10 DEF DropLease, workerVars
  <2>13. CASE RejectSuite(w)
    BY <1>0, <2>13 DEF Generated, RejectSuite, AttemptsLeft, TypeOK, Goto
  <2>14. CASE AppendParsed(w)
    <3>1. attempt' = attempt /\ attempt[w] = 0
      BY <2>7, <2>14 DEF AppendParsed
    <3>2. \A v \in Worker : v # w => pc'[v] = pc[v] /\ task'[v] = task[v]
      BY <2>14 DEF AppendParsed, Goto, TypeOK
    <3> QED
      BY <3>1, <3>2 DEF AttemptsLeft
  <2>11. CASE RefuseLease(w) \/ ReturnExisting(w) \/ RefuseChunks(w) \/ Close(w) \/ Abandon(w)
    BY <2>1, <2>11 DEF RefuseLease, ReturnExisting, RefuseChunks, Close, Abandon
  <2>12. CASE ReuseTask(w) \/ AppendStage(w) \/ AppendGeneration(w)
    BY <2>2, <2>12 DEF Generated, ReuseTask, AppendStage, AppendGeneration
  <2> QED
    BY <1>2, <2>5, <2>6, <2>8, <2>9, <2>10, <2>11, <2>12, <2>13, <2>14 DEF Progress
<1> QED
  BY <1>1, <1>2 DEF Next

\* A worker begins or goes on with the walk only if there is a run to read.
LEMMA WalkingStep ==
    ASSUME TypeOK, TypeOK', Walking, [Next]_vars
    PROVE  Walking'
<1>1. CASE UNCHANGED vars
  BY <1>1 DEF Walking, vars, workerVars
<1>2. ASSUME NEW w \in Worker, Submit(w) \/ Progress(w) \/ Abandon(w) \/ DropLease(w)
      PROVE  Walking'
  <2>1. CASE Submit(w)
    <3>1. PICK q \in Requests :
            /\ inherited' = [inherited EXCEPT ![w] = From(q.parent)]
            /\ Goto(w, IF q.parent = None THEN "lease" ELSE "inherit")
      BY <2>1 DEF Submit
    <3> QED
      BY <3>1 DEF Walking, TypeOK, Goto, From
  <2>2. CASE InheritCost(w)
    BY <2>2 DEF InheritCost, Walking, TypeOK, Goto
  <2>3. CASE Leave(w)
    BY <2>3 DEF Leave, Walking, TypeOK
  <2>4. CASE /\ pc[w] # "inherit" => pc'[w] # "inherit"
             /\ \A v \in Worker : v # w => pc'[v] = pc[v] /\ inherited'[v] = inherited[v]
             /\ pc'[w] = "inherit" => inherited'[w] = inherited[w]
    BY <2>4 DEF Walking
  <2>5. CASE AcquireLease(w) \/ CreateRun(w) \/ AppendStarted(w) \/ SaveChunks(w)
               \/ RejectDocument(w) \/ CallModel(w) \/ FailTask(w) \/ RejectSuite(w)
               \/ Finalize(w) \/ DropLease(w)
    BY <2>4, <2>5 DEF Generated, Asking, AcquireLease, CreateRun, AppendStarted, SaveChunks, RejectDocument,
         CallModel, FailTask, Fail, RejectSuite, Finalize, DropLease, Goto, TypeOK, workerVars, Executing
  <2>6. CASE AppendParsed(w)
    BY <2>6 DEF AppendParsed, Goto, TypeOK, Walking
  <2>7. CASE AppendCall(w)
    BY <2>4, <2>7 DEF AppendCall, Fail, Goto, TypeOK
  <2>8. CASE ReuseTask(w) \/ AppendStage(w) \/ AppendGeneration(w)
    BY <2>4, <2>8 DEF Generated, ReuseTask, AppendStage, AppendGeneration, Advance, Goto, TypeOK
  <2> QED
    BY <1>2, <2>1, <2>2, <2>3, <2>5, <2>6, <2>7, <2>8
    DEF Progress, RefuseLease, ReturnExisting, RefuseChunks, Close, Abandon
<1> QED
  BY <1>1, <1>2 DEF Next

\* Every step keeps the types.
LEMMA TypeStep ==
    ASSUME TypeOK, AttemptsLeft, Walking, [Next]_vars
    PROVE  TypeOK'
<1>1. CASE UNCHANGED vars
  BY <1>1 DEF TypeOK, vars, dbVars, workerVars
<1>2. ASSUME NEW w \in Worker, Submit(w) \/ Progress(w) \/ Abandon(w) \/ DropLease(w)
      PROVE  TypeOK'
  <2>1. CASE Submit(w)
    BY <2>1, SubmitTypeOK
  <2>2. CASE Progress(w)
    BY <2>2, ProgressTypeOK
  <2>3. CASE Abandon(w)
    BY <2>3, LeaveTypeOK DEF Abandon
  <2>4. CASE DropLease(w)
    <3>1. lease' \in [RunId -> Worker \cup {None}]
      BY <2>4 DEF DropLease, LeaseWithout, TypeOK
    <3> QED
      BY <2>4, <3>1 DEF DropLease, TypeOK, dbVars, workerVars
  <2> QED
    BY <1>2, <2>1, <2>2, <2>3, <2>4
<1> QED
  BY <1>1, <1>2 DEF Next

\* The initial state has the types.
LEMMA InitTypeOK == Init => TypeOK /\ AttemptsLeft /\ Walking
<1> SUFFICES ASSUME Init PROVE TypeOK /\ AttemptsLeft /\ Walking
  OBVIOUS
<1> USE AttemptsPositive
<1>1. 1 \in Task
  BY CountAssumption DEF Task, JudgeTask
<1>2. Pending \in [status : Terminal, evaluation : Evaluation]
  BY DEF Pending, Terminal, Evaluation
<1>3. /\ NoRows \in [Task -> Row \cup {None}]
      /\ Nothing \in [cost : [RunId -> Nat], seen : SUBSET RunId, next : RunId \cup {None}]
  BY DEF NoRows, Nothing, From, NoCost
<1>4. AttemptsLeft /\ Walking
  BY <1>1 DEF Init, AttemptsLeft, Walking
<1> QED
  BY <1>1, <1>2, <1>3, <1>4 DEF Init, TypeOK, Phase

\* Every variable of every reachable state has its type: the model's runs,
\* leases and workers are what the database and run_generation can hold.
THEOREM TypeCorrect == Spec => []TypeOK
<1>1. Init => TypeOK /\ AttemptsLeft /\ Walking
  BY InitTypeOK
<1>2. TypeOK /\ AttemptsLeft /\ Walking /\ [Next]_vars => (TypeOK /\ AttemptsLeft /\ Walking)'
  BY TypeStep, AttemptsStep, WalkingStep
<1> QED
  BY <1>1, <1>2, PTL DEF Spec

-----------------------------------------------------------------------------
(* Who writes a run *)

Step(w) == Submit(w) \/ Progress(w) \/ Abandon(w) \/ DropLease(w)

\* A step leaves the database alone, or creates its own run, or is a guarded
\* write of an executing worker to its own running run.
LEMMA WhoWrites ==
    ASSUME TypeOK, NEW w \in Worker, Step(w)
    PROVE  \/ UNCHANGED dbVars
           \/ CreateRun(w)
           \/ /\ pc[w] \in Executing /\ Running(Run(w)) /\ Run(w) \in RunId
              /\ \A r \in RunId : r # Run(w) => Record(r)' = Record(r)
              /\ status'[Run(w)] # "absent" /\ manifest' = manifest
<1> USE DEF Record, Executing
<1>1. pc[w] # "idle" => Run(w) \in RunId
  BY DEF TypeOK, Run, Request
<1>2. CASE AppendStarted(w) \/ AppendParsed(w)
  BY <1>1, <1>2 DEF AppendStarted, AppendParsed, AppendEvent, Running, TypeOK
<1>3. CASE SaveChunks(w) \/ AppendCall(w)
  BY <1>1, <1>3 DEF SaveChunks, AppendCall, Running, TypeOK
<1>4. CASE ReuseTask(w) \/ AppendStage(w) \/ AppendGeneration(w)
  <2>1. \E t \in Task : \E row : rows' = [rows EXCEPT ![Run(w)][t] = row]
    <3>1. task[w] \in Task /\ GenerationRow \in Task
      BY CountAssumption DEF TypeOK, Task, GenerationRow, JudgeTask
    <3> QED
      BY <1>4, <3>1 DEF Generated, ReuseTask, AppendStage, AppendGeneration, PutRow
  <2>2. \A r \in RunId : r # Run(w) => rows'[r] = rows[r]
    BY <2>1 DEF TypeOK
  <2> QED
    BY <1>1, <1>4, <2>2 DEF Generated, ReuseTask, AppendStage, AppendGeneration, Running
<1>5. CASE Finalize(w)
  <2>1. verdict[w].status \in Terminal
    BY DEF TypeOK
  <2> QED
    BY <1>1, <1>5, <2>1 DEF Finalize, AppendEvent, Running, TypeOK, Terminal
<1>6. CASE RefuseLease(w) \/ ReturnExisting(w) \/ RefuseChunks(w) \/ Close(w)
             \/ Abandon(w) \/ DropLease(w) \/ Submit(w)
  BY <1>6 DEF RefuseLease, ReturnExisting, RefuseChunks, Close, Abandon, DropLease, Submit
<1>7. CASE InheritCost(w) \/ AcquireLease(w) \/ RejectDocument(w) \/ CallModel(w)
             \/ FailTask(w) \/ RejectSuite(w)
  BY <1>7 DEF Generated, Asking, InheritCost, AcquireLease, RejectDocument, CallModel, FailTask, RejectSuite
<1> QED
  BY <1>2, <1>3, <1>4, <1>5, <1>6, <1>7 DEF Step, Progress

\* A worker that executes a run after a step executed it before, or has just
\* created it.
LEMMA WhoExecutes ==
    ASSUME TypeOK, NEW w \in Worker, Step(w), NEW v \in Worker, pc'[v] \in Executing
    PROVE  \/ pc[v] \in Executing /\ req'[v] = req[v]
           \/ v = w /\ CreateRun(w) /\ req'[v] = req[v]
<1> USE DEF Executing, Goto, workerVars, TypeOK
<1>1. CASE Leave(w)
  BY <1>1 DEF Leave
<1>2. CASE Submit(w)
  BY <1>2 DEF Submit
<1>3. CASE InheritCost(w) \/ AcquireLease(w) \/ CreateRun(w) \/ AppendStarted(w)
            \/ SaveChunks(w) \/ RejectDocument(w) \/ AppendParsed(w)
  BY <1>3 DEF InheritCost, AcquireLease, CreateRun, AppendStarted, SaveChunks,
              RejectDocument, AppendParsed
<1>4. CASE ReuseTask(w) \/ CallModel(w) \/ AppendCall(w) \/ FailTask(w)
            \/ AppendStage(w) \/ AppendGeneration(w)
  BY <1>4 DEF Generated, Asking, ReuseTask, CallModel, AppendCall, FailTask, Fail, AppendStage,
              AppendGeneration, Advance
<1>5. CASE RejectSuite(w) \/ Finalize(w) \/ DropLease(w)
  BY <1>5 DEF Generated, RejectSuite, Finalize, DropLease
<1> QED
  BY <1>1, <1>2, <1>3, <1>4, <1>5
  DEF Step, Progress, RefuseLease, ReturnExisting, RefuseChunks, Close, Abandon

\* Only a run that exists is executed, and by one worker.
ExecutorInv == /\ \A w \in Worker : pc[w] \in Executing => status[Run(w)] # "absent"
               /\ OneExecutor

\* Every step keeps one executor for each run that exists.
LEMMA ExecutorStep ==
    ASSUME TypeOK, ExecutorInv, [Next]_vars
    PROVE  ExecutorInv'
<1>1. CASE UNCHANGED vars
  BY <1>1 DEF ExecutorInv, OneExecutor, Executes, Run, vars, dbVars, workerVars
<1>2. ASSUME NEW w \in Worker, Step(w)
      PROVE  ExecutorInv'
  <2>1. \A r \in RunId : status[r] # "absent" => status'[r] # "absent"
    <3>1. CASE CreateRun(w)
      BY <3>1 DEF CreateRun, TypeOK
    <3> QED
      BY <1>2, <3>1, WhoWrites DEF dbVars, Record
  <2>2. \A v \in Worker : pc'[v] \in Executing =>
           \/ pc[v] \in Executing /\ Run(v)' = Run(v) /\ Run(v) \in RunId
           \/ v = w /\ CreateRun(w) /\ Run(v)' = Run(v) /\ Run(v) \in RunId
    BY <1>2, WhoExecutes DEF Run, TypeOK, Request, Executing, CreateRun
  <2>3. CreateRun(w) => status[Run(w)] = "absent" /\ status'[Run(w)] = "running"
    <3> SUFFICES ASSUME CreateRun(w) PROVE status[Run(w)] = "absent" /\ status'[Run(w)] = "running"
      OBVIOUS
    <3>1. Run(w) \in RunId
      BY DEF CreateRun, Run, TypeOK, Request
    <3> QED
      BY <3>1 DEF CreateRun, TypeOK
  <2>4. \A v \in Worker : pc'[v] \in Executing => status'[Run(v)'] # "absent"
    BY <2>1, <2>2, <2>3 DEF ExecutorInv
  <2>5. OneExecutor'
    BY <2>2, <2>3 DEF ExecutorInv, OneExecutor, Executes
  <2> QED
    BY <2>4, <2>5 DEF ExecutorInv, Run
<1> QED
  BY <1>1, <1>2 DEF Next, Step

\* One worker at most executes a run, whatever happens to the leases: the
\* primary key of runs lets create_run succeed once.
THEOREM ExecutorUnique == Spec => []OneExecutor
<1>1. Init => ExecutorInv
  BY DEF Init, ExecutorInv, OneExecutor, Executes, Executing
<1>2. TypeOK /\ ExecutorInv /\ [Next]_vars => ExecutorInv'
  BY ExecutorStep
<1>3. ExecutorInv => OneExecutor
  BY DEF ExecutorInv
<1> QED
  BY <1>1, <1>2, <1>3, TypeCorrect, PTL DEF Spec

\* A finished or abandoned run is never written again, by any interleaving of
\* workers, crashes, recoveries and lost leases.
THEOREM SettledFrozen == Spec => SettledRunsFrozen
<1>1. ASSUME TypeOK, [Next]_vars
      PROVE  [\A r \in RunId : status[r] \in Terminal \/ Abandoned(r)
                => Record(r)' = Record(r)]_vars
  <2>1. ASSUME NEW w \in Worker, Step(w), NEW r \in RunId,
               status[r] \in Terminal \/ Abandoned(r)
        PROVE  Record(r)' = Record(r)
    <3>1. status[r] # "absent"
      BY <2>1 DEF Terminal, Abandoned
    <3>2. CASE UNCHANGED dbVars
      BY <3>2 DEF dbVars, Record
    <3>3. CASE CreateRun(w)
      <4>1. r # Run(w)
        BY <3>1, <3>3 DEF CreateRun
      <4> QED
        BY <1>1, <3>3, <4>1 DEF CreateRun, Record, TypeOK
    <3>4. CASE pc[w] \in Executing /\ Running(Run(w))
                 /\ \A q \in RunId : q # Run(w) => Record(q)' = Record(q)
      <4>1. Executes(w, Run(w))
        BY <3>4 DEF Executes
      <4>2. r # Run(w)
        BY <2>1, <3>4, <4>1 DEF Running, Terminal, Abandoned
      <4> QED
        BY <3>4, <4>2
    <3> QED
      BY <1>1, <2>1, <3>2, <3>3, <3>4, WhoWrites
  <2> QED
    BY <1>1, <2>1 DEF Next, Step
<1> QED
  BY <1>1, TypeCorrect, PTL DEF Spec, SettledRunsFrozen

-----------------------------------------------------------------------------
(* Leases *)

\* A worker past the acquisition of its lease holds every key of it.
LeaseInv == \A w \in Worker : pc[w] \in Executing \cup {"create"} =>
                \A k \in Keys(w) : lease[k] = w

\* Every step keeps the leases held, unless they may drop.
LEMMA LeaseStep ==
    ASSUME ~LeasesMayDrop, TypeOK, LeaseInv, [Next]_vars
    PROVE  LeaseInv'
<1>1. CASE UNCHANGED vars
  BY <1>1 DEF LeaseInv, Keys, vars, dbVars, workerVars
<1>2. ASSUME NEW w \in Worker, Step(w), NEW v \in Worker,
             pc'[v] \in Executing \cup {"create"}, NEW k \in Keys(v)'
      PROVE  lease'[k] = v
  <2> USE DEF workerVars, Executing, Goto, TypeOK
  <2>1. CASE AcquireLease(w)
    <3>1. Keys(v)' = Keys(v)
      BY <2>1 DEF AcquireLease, Keys
    <3>2. CASE v = w
      <4>1. Keys(w) = Held(w) \cup {NextKey(w)}
        BY <1>2, <2>1, <3>2 DEF AcquireLease
      <4>2. Keys(w) \subseteq RunId
        BY <2>1 DEF AcquireLease, Keys, Request
      <4>3. k \in RunId /\ (k \in Held(w) \/ k = NextKey(w))
        BY <1>2, <3>1, <3>2, <4>1, <4>2
      <4> QED
        BY <2>1, <3>2, <4>3 DEF AcquireLease, Held
    <3>3. CASE v # w
      <4>1. lease[k] = v
        BY <1>2, <2>1, <3>1, <3>3 DEF AcquireLease, LeaseInv
      <4>2. k # NextKey(w)
        BY <2>1, <4>1, NoneAssumption DEF AcquireLease
      <4> QED
        BY <2>1, <4>1, <4>2 DEF AcquireLease
    <3> QED
      BY <3>2, <3>3
  <2>2. CASE Leave(w)
    <3>1. v # w /\ pc[v] \in Executing \cup {"create"} /\ k \in Keys(v)
      BY <1>2, <2>2 DEF Leave, Keys
    <3>2. k \in RunId
      BY <3>1 DEF Keys, Request
    <3> QED
      BY <2>2, <3>1, <3>2 DEF Leave, LeaseWithout, LeaseInv
  <2>3. CASE Submit(w) \/ InheritCost(w)
    <3>1. pc'[w] \in {"lease", "inherit"}
      BY <2>3 DEF Submit, InheritCost
    <3>2. v # w
      BY <1>2, <3>1
    <3>3. pc[v] = pc'[v] /\ req'[v] = req[v] /\ lease' = lease
      BY <2>3, <3>2 DEF Submit, InheritCost
    <3> QED
      BY <1>2, <3>3 DEF LeaseInv, Keys
  <2>4. CASE CreateRun(w) \/ AppendStarted(w) \/ SaveChunks(w) \/ RejectDocument(w)
               \/ AppendParsed(w)
    BY <1>2, <2>4 DEF CreateRun, AppendStarted, SaveChunks, RejectDocument,
                      AppendParsed, LeaseInv, Keys
  <2>5. CASE ReuseTask(w) \/ CallModel(w) \/ AppendCall(w) \/ FailTask(w)
               \/ AppendStage(w) \/ AppendGeneration(w)
    <3>1. lease' = lease /\ req' = req
      BY <2>5 DEF Generated, Asking, ReuseTask, CallModel, AppendCall, FailTask, AppendStage, AppendGeneration
    <3>2. pc[v] \in Executing \cup {"create"}
      BY <1>2, <2>5 DEF Generated, Asking, ReuseTask, CallModel, AppendCall, FailTask, Fail, AppendStage,
                        AppendGeneration, Advance
    <3> QED
      BY <1>2, <3>1, <3>2 DEF LeaseInv, Keys
  <2>6. CASE RejectSuite(w) \/ Finalize(w)
    BY <1>2, <2>6 DEF Generated, RejectSuite, Finalize, LeaseInv, Keys
  <2>7. ~DropLease(w)
    BY DEF DropLease
  <2> QED
    BY <1>2, <2>1, <2>2, <2>3, <2>4, <2>5, <2>6, <2>7
    DEF Step, Progress, RefuseLease, ReturnExisting, RefuseChunks, Close, Abandon
<1> QED
  BY <1>1, <1>2 DEF Next, Step, LeaseInv

\* While its lease lasts, a recovery has its source run to itself: no worker
\* executes that run, and no other worker recovers it.
THEOREM RecoveryExclusive ==
    ASSUME ~LeasesMayDrop
    PROVE  Spec => []OneLiveRecovery
<1>1. Init => LeaseInv
  BY DEF Init, LeaseInv, Executing
<1>2. TypeOK /\ LeaseInv /\ [Next]_vars => LeaseInv'
  BY LeaseStep
<1>3. TypeOK /\ LeaseInv => OneLiveRecovery
  <2> SUFFICES ASSUME TypeOK, LeaseInv, NEW v \in Worker, NEW w \in Worker,
                      NEW p \in RunId, v # w, Recovers(v, p)
               PROVE  ~Executes(w, p) /\ ~Recovers(w, p)
    BY DEF OneLiveRecovery
  <2>1. p # None
    BY NoneAssumption
  <2>2. lease[p] = v
    BY <2>1 DEF Recovers, LeaseInv, Keys, Parent
  <2>3. Executes(w, p) \/ Recovers(w, p) => lease[p] = w
    BY <2>1 DEF Executes, Recovers, LeaseInv, Keys, Parent, Run
  <2> QED
    BY <2>2, <2>3
<1> QED
  BY <1>1, <1>2, <1>3, TypeCorrect, PTL DEF Spec
-----------------------------------------------------------------------------
(* What is on record *)

\* A run that does not exist has left no trace, and one that does has a manifest.
AbsentInv ==
    \A r \in RunId :
        /\ status[r] = "absent" <=> manifest[r] = None
        /\ status[r] = "absent" =>
              /\ events[r] = << >> /\ calls[r] = 0 /\ report[r] = None
              /\ ~chunks[r]

\* The report, the terminal status and the "finished" event come together.
ReportInv ==
    \A r \in RunId :
        /\ (status[r] \in Terminal) <=> (report[r] # None)
        /\ (report[r] # None) <=>
              (events[r] # << >> /\ events[r][Len(events[r])] = "finished")

\* What a worker has settled is on record, but for the call it is about to
\* record; what it reports at the end is therefore what is on record.
Unrecorded(w) == IF pc[w] = "settled" THEN 1 ELSE 0
CostInv ==
    /\ \A w \in Worker : pc[w] \notin Executing => used[w] = 0
    /\ \A w \in Worker : pc[w] \in Executing => used[w] = calls[Run(w)] + Unrecorded(w)
    /\ \A r \in RunId : report[r] # None => report[r].charged = calls[r]

\* A step of a worker leaves nothing in a run that does not exist.
LEMMA AbsentStep ==
    ASSUME TypeOK, AbsentInv, NEW w \in Worker, Step(w)
    PROVE  AbsentInv'
<1>1. CASE UNCHANGED dbVars
  BY <1>1 DEF AbsentInv, dbVars
<1>2. CASE CreateRun(w)
  <2>1. Run(w) \in RunId /\ [parent |-> Parent(w), config |-> req[w].config] # None
    <3>1. Run(w) \in RunId
      BY <1>2 DEF CreateRun, Run, TypeOK, Request
    <3>2. [parent |-> Parent(w), config |-> req[w].config] # None
      BY <1>2, NoneAssumption DEF CreateRun, TypeOK, Parent, Request, Manifest
    <3> QED
      BY <3>1, <3>2
  <2> QED
    BY <1>2, <2>1 DEF CreateRun, AbsentInv, TypeOK
<1>3. CASE /\ pc[w] \in Executing /\ Running(Run(w)) /\ Run(w) \in RunId
           /\ \A r \in RunId : r # Run(w) => Record(r)' = Record(r)
           /\ status'[Run(w)] # "absent" /\ manifest' = manifest
  BY <1>3 DEF Running, Record, AbsentInv
<1> QED
  BY <1>1, <1>2, <1>3, WhoWrites

\* Appending an event leaves the earlier ones in place.
LEMMA AppendedEvent ==
    ASSUME TypeOK, NEW r \in RunId, NEW e \in {"started", "parsed", "finished"},
           AppendEvent(r, e)
    PROVE  /\ events'[r] # << >> /\ events'[r][Len(events'[r])] = e
           /\ Prefix(events[r], events'[r])
           /\ \A q \in RunId : q # r => events'[q] = events[q]
<1>1. events'[r] = Append(events[r], e)
  BY DEF AppendEvent, TypeOK
<1>2. events[r] \in Seq({"started", "parsed", "finished"})
  BY DEF TypeOK
<1>3. /\ Len(events'[r]) = Len(events[r]) + 1
      /\ \A i \in 1..Len(events[r]) : events'[r][i] = events[r][i]
      /\ events'[r][Len(events[r]) + 1] = e
  BY <1>1, <1>2
<1>4. \A q \in RunId : q # r => events'[q] = events[q]
  BY DEF AppendEvent, TypeOK
<1>5. Len(events[r]) \in Nat
  BY <1>2
<1>6. events'[r] # << >>
  BY <1>3, <1>5
<1>7. Prefix(events[r], events'[r])
  BY <1>3, <1>5 DEF Prefix
<1> QED
  BY <1>3, <1>4, <1>5, <1>6, <1>7

\* Which columns the write of an executing worker touches, and how.
LEMMA HowWrites ==
    ASSUME TypeOK, NEW w \in Worker, Step(w), ~CreateRun(w), ~UNCHANGED dbVars
    PROVE  /\ Run(w) \in RunId /\ Running(Run(w)) /\ UNCHANGED manifest
           /\ \/ /\ AppendStarted(w) \/ AppendParsed(w)
                 /\ \E e \in {"started", "parsed"} : AppendEvent(Run(w), e)
                 /\ UNCHANGED <<status, chunks, calls, rows, report>>
              \/ /\ SaveChunks(w)
                 /\ chunks' = [chunks EXCEPT ![Run(w)] = TRUE]
                 /\ UNCHANGED <<status, events, calls, rows, report>>
              \/ /\ AppendCall(w)
                 /\ calls' = [calls EXCEPT ![Run(w)] = @ + 1]
                 /\ UNCHANGED <<status, events, chunks, rows, report>>
              \/ /\ ReuseTask(w) \/ AppendStage(w) \/ AppendGeneration(w)
                 /\ \E t \in Task, row \in Row : PutRow(Run(w), t, row)
                 /\ UNCHANGED <<status, events, chunks, calls, report>>
              \/ /\ Finalize(w)
                 /\ UNCHANGED <<chunks, calls, rows>>
<1>1. pc[w] # "idle" => Run(w) \in RunId /\ req[w] \in Request
  BY DEF TypeOK, Run, Request
<1>2. CASE AppendStarted(w) \/ AppendParsed(w)
  BY <1>1, <1>2 DEF AppendStarted, AppendParsed
<1>3. CASE SaveChunks(w) \/ AppendCall(w) \/ Finalize(w)
  BY <1>1, <1>3 DEF SaveChunks, AppendCall, Finalize
<1>4. CASE ReuseTask(w) \/ AppendStage(w) \/ AppendGeneration(w)
  <2>1. task[w] \in Task /\ GenerationRow \in Task
    BY CountAssumption DEF TypeOK, Task, GenerationRow, JudgeTask
  <2>2. \E t \in Task, row \in Row : PutRow(Run(w), t, row)
    <3>0. req[w] \in Request
      BY <1>1, <1>4 DEF Generated, ReuseTask, AppendStage, AppendGeneration
    <3>1. NewRow(w) \in Row
      BY <2>1, <3>0, RowsMade
    <3>2. \A t \in Task : Reusable(w, t)
                => [snap[w][t] EXCEPT !.reusedFrom = Parent(w)] \in Row
      BY <3>0, RowsMade
    <3> QED
      BY <1>4, <2>1, <3>1, <3>2 DEF Generated, ReuseTask, MayReuse, AppendStage, AppendGeneration
  <2> QED
    BY <1>1, <1>4, <2>2 DEF Generated, ReuseTask, AppendStage, AppendGeneration
<1>5. CASE RefuseLease(w) \/ ReturnExisting(w) \/ RefuseChunks(w) \/ Close(w)
             \/ Abandon(w) \/ DropLease(w) \/ Submit(w)
  BY <1>5 DEF RefuseLease, ReturnExisting, RefuseChunks, Close, Abandon, DropLease, Submit
<1>6. CASE InheritCost(w) \/ AcquireLease(w) \/ RejectDocument(w) \/ CallModel(w)
             \/ FailTask(w) \/ RejectSuite(w)
  BY <1>6 DEF Generated, Asking, InheritCost, AcquireLease, RejectDocument, CallModel, FailTask, RejectSuite
<1> QED
  BY <1>2, <1>3, <1>4, <1>5, <1>6 DEF Step, Progress

\* A step of a worker gives a report to a run that ends, and to no other.
LEMMA ReportStep ==
    ASSUME TypeOK, AbsentInv, ReportInv, NEW w \in Worker, Step(w)
    PROVE  ReportInv'
<1>1. CASE UNCHANGED dbVars
  BY <1>1 DEF ReportInv, dbVars
<1>2. CASE CreateRun(w)
  BY <1>2 DEF CreateRun, ReportInv, AbsentInv, TypeOK, Terminal
<1>3. CASE ~CreateRun(w) /\ ~UNCHANGED dbVars
  <2>0. Run(w) \in RunId /\ Running(Run(w))
    BY <1>3, HowWrites
  <2>1. CASE /\ \E e \in {"started", "parsed"} : AppendEvent(Run(w), e)
             /\ UNCHANGED <<status, report>>
    <3>1. PICK e \in {"started", "parsed"} : AppendEvent(Run(w), e)
      BY <2>1
    <3>2. /\ events'[Run(w)][Len(events'[Run(w)])] = e
          /\ \A q \in RunId : q # Run(w) => events'[q] = events[q]
      BY <2>0, <3>1, AppendedEvent
    <3>3. e # "finished" /\ status[Run(w)] \notin Terminal
      BY <2>0 DEF Running, Terminal
    <3> QED
      BY <2>0, <2>1, <3>2, <3>3 DEF ReportInv
  <2>2. CASE Finalize(w)
    <3>1. AppendEvent(Run(w), "finished")
      BY <2>2 DEF Finalize
    <3>2. /\ events'[Run(w)] # << >> /\ events'[Run(w)][Len(events'[Run(w)])] = "finished"
          /\ \A q \in RunId : q # Run(w) => events'[q] = events[q]
      BY <2>0, <3>1, AppendedEvent
    <3>3. verdict[w].status \in Terminal
      BY DEF TypeOK
    <3>4. /\ status'[Run(w)] = verdict[w].status
          /\ \A q \in RunId : q # Run(w) => status'[q] = status[q] /\ report'[q] = report[q]
      BY <2>0, <2>2 DEF Finalize, TypeOK
    <3>5. report'[Run(w)] # None
      <4> DEFINE new == [charged |-> used[w], inherited |-> inherited[w].cost,
                         evaluation |-> verdict[w].evaluation]
      <4>1. new \in Report
        BY DEF TypeOK, Report
      <4>2. report'[Run(w)] = new
        BY <2>0, <2>2 DEF Finalize, TypeOK
      <4> QED
        BY <4>1, <4>2, NoneAssumption
    <3> QED
      BY <3>2, <3>3, <3>4, <3>5 DEF ReportInv
  <2>3. CASE UNCHANGED <<status, events, report>>
    BY <2>3 DEF ReportInv
  <2> QED
    BY <1>3, <2>1, <2>2, <2>3, HowWrites
<1> QED
  BY <1>1, <1>2, <1>3

\* A worker's ledger and the calls on record move together.
LEMMA LedgerSteps ==
    ASSUME TypeOK, NEW w \in Worker, Step(w)
    PROVE  /\ \A v \in Worker : v # w =>
                pc'[v] = pc[v] /\ req'[v] = req[v] /\ used'[v] = used[v]
           /\ \/ pc'[w] \notin Executing /\ used'[w] = 0
              \/ pc'[w] \notin Executing /\ pc[w] \notin Executing /\ used'[w] = used[w]
              \/ CreateRun(w)
              \/ CallModel(w)
              \/ AppendCall(w)
              \/ /\ pc[w] \in Executing /\ pc'[w] \in Executing
                 /\ UNCHANGED <<used, req, calls>>
                 /\ pc[w] # "settled" /\ pc'[w] # "settled"
              \/ DropLease(w)
<1> USE DEF Executing, Goto, workerVars, dbVars, TypeOK
<1>1. CASE Leave(w)
  BY <1>1 DEF Leave
<1>2. CASE Submit(w)
  BY <1>2 DEF Submit
<1>3. CASE InheritCost(w) \/ AcquireLease(w)
  BY <1>3 DEF InheritCost, AcquireLease
<1>4. CASE CreateRun(w) \/ CallModel(w) \/ AppendCall(w) \/ DropLease(w)
  <2>1. CASE CreateRun(w)
    BY <2>1 DEF CreateRun
  <2>2. CASE CallModel(w)
    BY <2>2 DEF Asking, CallModel
  <2>3. CASE AppendCall(w)
    BY <2>3 DEF AppendCall, Fail
  <2>4. CASE DropLease(w)
    BY <2>4 DEF DropLease
  <2> QED
    BY <1>4, <2>1, <2>2, <2>3, <2>4
<1>5. CASE AppendStarted(w) \/ SaveChunks(w) \/ RejectDocument(w) \/ AppendParsed(w)
  BY <1>5 DEF AppendStarted, SaveChunks, RejectDocument, AppendParsed
<1>6. CASE ReuseTask(w) \/ AppendStage(w) \/ AppendGeneration(w)
  BY <1>6 DEF Generated, ReuseTask, AppendStage, AppendGeneration, Advance
<1>7. CASE FailTask(w) \/ RejectSuite(w) \/ Finalize(w)
  BY <1>7 DEF Generated, Asking, FailTask, Fail, RejectSuite, Finalize
<1>8. CASE RefuseLease(w) \/ ReturnExisting(w) \/ RefuseChunks(w) \/ Close(w) \/ Abandon(w)
  BY <1>8, <1>1 DEF RefuseLease, ReturnExisting, RefuseChunks, Close, Abandon
<1> QED
  BY <1>2, <1>3, <1>4, <1>5, <1>6, <1>7, <1>8 DEF Step, Progress

\* A step of a worker keeps what it used equal to what is recorded.
LEMMA CostStep ==
    ASSUME TypeOK, OneExecutor, AbsentInv, ReportInv, CostInv,
           NEW w \in Worker, Step(w)
    PROVE  CostInv'
<1>1. /\ \A v \in Worker : pc[v] \in Executing => Run(v) \in RunId
      /\ pc[w] # "idle" => Run(w) \in RunId
  BY DEF TypeOK, Executing, Run, Request
<1>2. /\ \A r \in RunId : calls[r] \in Nat
      /\ \A v \in Worker : used[v] \in Nat
  BY DEF TypeOK
<1>3. /\ UNCHANGED calls \/ AppendCall(w)
      /\ UNCHANGED report \/ Finalize(w)
  <2>1. CASE UNCHANGED dbVars
    BY <2>1 DEF dbVars
  <2>2. CASE CreateRun(w)
    BY <2>2 DEF CreateRun
  <2> QED
    BY <2>1, <2>2, HowWrites
<1>4. ASSUME AppendCall(w)
      PROVE  /\ calls'[Run(w)] = calls[Run(w)] + 1
             /\ \A r \in RunId : r # Run(w) => calls'[r] = calls[r]
             /\ pc[w] = "settled" /\ pc'[w] \in Executing /\ pc'[w] # "settled"
             /\ used'[w] = used[w] /\ req'[w] = req[w]
             /\ status[Run(w)] = "running" /\ Run(w) \in RunId
  BY <1>4, <1>1 DEF AppendCall, TypeOK, Fail, Goto, Executing, Running
<1>5. ASSUME NEW v \in Worker, v # w, pc[v] \in Executing
      PROVE  calls'[Run(v)] = calls[Run(v)]
  <2>1. CASE AppendCall(w)
    <3>1. pc[w] \in Executing
      BY <2>1, <1>4 DEF Executing
    <3>2. Run(v) # Run(w)
      BY <1>1, <1>5, <3>1 DEF OneExecutor, Executes
    <3> QED
      BY <1>1, <1>4, <1>5, <2>1, <3>2
  <2> QED
    BY <1>3, <2>1
<1>6. ASSUME NEW v \in Worker, v # w
      PROVE  /\ pc'[v] \notin Executing => used'[v] = 0
             /\ pc'[v] \in Executing => used'[v] = calls'[Run(v)'] + Unrecorded(v)'
  BY <1>6, <1>5, LedgerSteps DEF CostInv, Unrecorded, Run
<1>8. /\ pc'[w] \notin Executing => used'[w] = 0
      /\ pc'[w] \in Executing => used'[w] = calls'[Run(w)'] + Unrecorded(w)'
  <2>1. CASE AppendCall(w)
    <3>1. used[w] = calls[Run(w)] + 1
      BY <1>4, <2>1 DEF CostInv, Unrecorded, Executing
    <3>2. Run(w)' = Run(w) /\ Unrecorded(w)' = 0
      BY <1>4, <2>1 DEF Run, Unrecorded
    <3> QED
      BY <1>2, <1>4, <2>1, <3>1, <3>2
  <2>2. CASE CreateRun(w)
    <3>1. pc[w] = "create" /\ Run(w) \in RunId /\ status[Run(w)] = "absent"
      BY <1>1, <2>2 DEF CreateRun
    <3>2. calls[Run(w)] = 0 /\ used[w] = 0
      BY <3>1 DEF AbsentInv, CostInv, Executing
    <3>3. pc'[w] = "start" /\ UNCHANGED <<calls, used, req>>
      BY <2>2 DEF CreateRun, Goto, workerVars, TypeOK
    <3> QED
      BY <3>2, <3>3 DEF Executing, Unrecorded, Run
  <2>3. CASE CallModel(w)
    <3>1. pc[w] \in {"work", "valid"} /\ Run(w) \in RunId
      BY <1>1, <2>3 DEF Asking, CallModel
    <3>2. used[w] = calls[Run(w)]
      BY <1>2, <3>1 DEF CostInv, Unrecorded, Executing
    <3>3. /\ pc'[w] = "settled" /\ used'[w] = used[w] + 1
          /\ UNCHANGED <<calls, req>>
      BY <2>3 DEF Asking, CallModel, Goto, dbVars, TypeOK
    <3> QED
      BY <1>2, <3>1, <3>2, <3>3 DEF Executing, Unrecorded, Run
  <2>4. CASE DropLease(w)
    BY <2>4 DEF DropLease, CostInv, Unrecorded, Run, dbVars, workerVars
  <2>5. CASE pc'[w] \notin Executing /\ (used'[w] = 0 \/ (pc[w] \notin Executing /\ used'[w] = used[w]))
    BY <2>5 DEF CostInv
  <2>6. CASE /\ pc[w] \in Executing /\ pc'[w] \in Executing
             /\ UNCHANGED <<used, req, calls>>
             /\ pc[w] # "settled" /\ pc'[w] # "settled"
    BY <2>6 DEF CostInv, Unrecorded, Run
  <2> QED
    BY <2>1, <2>2, <2>3, <2>4, <2>5, <2>6, LedgerSteps
<1>7. \A r \in RunId : report'[r] # None => report'[r].charged = calls'[r]
  <2>1. CASE AppendCall(w)
    <3>1. UNCHANGED report
      BY <2>1 DEF AppendCall
    <3>2. report[Run(w)] = None
      BY <1>4, <2>1 DEF ReportInv, Terminal
    <3> QED
      BY <1>4, <2>1, <3>1, <3>2 DEF CostInv
  <2>2. CASE Finalize(w)
    <3>1. UNCHANGED calls /\ Run(w) \in RunId
      BY <1>1, <2>2 DEF Finalize
    <3>2. used[w] = calls[Run(w)]
      BY <1>1, <1>2, <2>2 DEF Finalize, CostInv, Executing, Unrecorded
    <3>3. /\ report'[Run(w)] = [charged |-> used[w], inherited |-> inherited[w].cost,
                                evaluation |-> verdict[w].evaluation]
          /\ \A r \in RunId : r # Run(w) => report'[r] = report[r]
      BY <2>2, <3>1 DEF Finalize, TypeOK
    <3>4. report'[Run(w)].charged = calls[Run(w)]
      BY <3>2, <3>3
    <3> QED
      BY <3>1, <3>3, <3>4 DEF CostInv
  <2> QED
    BY <1>3, <2>1, <2>2 DEF CostInv
<1> QED
  BY <1>6, <1>7, <1>8 DEF CostInv

\* Everything the proofs about the record rest on.
RecordInv == AbsentInv /\ ReportInv /\ CostInv

\* Every step keeps the record's invariant.
LEMMA RecordStep ==
    ASSUME TypeOK, OneExecutor, RecordInv, [Next]_vars
    PROVE  RecordInv'
<1>1. CASE UNCHANGED vars
  <2>1. UNCHANGED <<status, manifest, events, chunks, calls, rows, report, pc, used, req>>
    BY <1>1 DEF vars, dbVars, workerVars
  <2> QED
    BY <2>1 DEF RecordInv, AbsentInv, ReportInv, CostInv, Unrecorded, Run
<1>2. ASSUME NEW w \in Worker, Step(w)
      PROVE  RecordInv'
  BY <1>2, AbsentStep, ReportStep, CostStep DEF RecordInv
<1> QED
  BY <1>1, <1>2 DEF Next, Step

\* So it holds in every behaviour.
LEMMA RecordCorrect == Spec => []RecordInv
<1>1. Init => RecordInv
  BY DEF Init, RecordInv, AbsentInv, ReportInv, CostInv, Terminal, Executing
<1>2. TypeOK /\ OneExecutor /\ RecordInv /\ [Next]_vars => RecordInv'
  BY RecordStep
<1> QED
  BY <1>1, <1>2, TypeCorrect, ExecutorUnique, PTL DEF Spec

\* The final record of a run agrees with its journal: the terminal status, the
\* report and the "finished" event come together, and the cost reported is that
\* of the calls on record (finalize, append_call_attempt and the ledger).
THEOREM FinalRecord == Spec => []FinalRecordAgrees
<1>1. RecordInv => FinalRecordAgrees
  BY DEF RecordInv, ReportInv, CostInv, FinalRecordAgrees
<1> QED
  BY <1>1, RecordCorrect, PTL

-----------------------------------------------------------------------------
(* The journal only grows *)

\* What one step does to the columns of one run.
Grows(r) ==
    /\ manifest[r] # None => manifest'[r] = manifest[r]
    /\ Prefix(events[r], events'[r])
    /\ calls[r] <= calls'[r]
    /\ \A t \in Task : rows[r][t] # None => rows'[r][t] = rows[r][t]
    /\ chunks[r] => chunks'[r]

\* A run whose columns stay as they were has grown, by nothing.
LEMMA Unchanged ==
    ASSUME TypeOK, NEW r \in RunId,
           manifest'[r] = manifest[r] \/ manifest[r] = None,
           events'[r] = events[r], calls'[r] = calls[r], rows'[r] = rows[r],
           chunks'[r] = chunks[r]
    PROVE  Grows(r)
BY DEF TypeOK, Grows, Prefix

\* A step of a worker only adds to a run.
LEMMA GrowStep ==
    ASSUME TypeOK, AbsentInv, NEW w \in Worker, Step(w), NEW r \in RunId
    PROVE  Grows(r)
<1>1. CASE UNCHANGED dbVars
  BY <1>1, Unchanged DEF dbVars
<1>2. CASE CreateRun(w)
  <2>1. manifest'[r] = manifest[r] \/ manifest[r] = None
    BY <1>2 DEF CreateRun, AbsentInv, TypeOK
  <2> QED
    BY <1>2, <2>1, Unchanged DEF CreateRun
<1>3. CASE ~CreateRun(w) /\ ~UNCHANGED dbVars
  <2>0. Run(w) \in RunId /\ UNCHANGED manifest
    BY <1>3, HowWrites
  <2>1. CASE /\ \E e \in {"started", "parsed", "finished"} : AppendEvent(Run(w), e)
             /\ UNCHANGED <<chunks, calls, rows>>
    <3>1. PICK e \in {"started", "parsed", "finished"} : AppendEvent(Run(w), e)
      BY <2>1
    <3>2. Prefix(events[r], events'[r])
      <4>1. CASE r = Run(w)
        BY <3>1, <4>1, AppendedEvent
      <4>2. CASE r # Run(w)
        BY <2>0, <3>1, <4>2, AppendedEvent DEF Prefix, TypeOK
      <4> QED
        BY <4>1, <4>2
    <3> QED
      BY <2>0, <2>1, <3>2 DEF Grows, TypeOK
  <2>2. CASE /\ calls' = [calls EXCEPT ![Run(w)] = @ + 1]
             /\ UNCHANGED <<events, chunks, rows>>
    <3>1. calls[r] <= calls'[r]
      BY <2>0, <2>2 DEF TypeOK
    <3>2. Prefix(events[r], events'[r])
      BY <2>2 DEF TypeOK, Prefix
    <3> QED
      BY <2>0, <2>2, <3>1, <3>2 DEF Grows
  <2>3. CASE /\ \E t \in Task, row \in Row : PutRow(Run(w), t, row)
             /\ UNCHANGED <<events, chunks, calls>>
    <3>1. PICK t \in Task, row \in Row : PutRow(Run(w), t, row)
      BY <2>3
    <3>2. \A u \in Task : rows[r][u] # None => rows'[r][u] = rows[r][u]
      BY <2>0, <3>1 DEF PutRow, TypeOK
    <3>3. Prefix(events[r], events'[r]) /\ calls[r] <= calls'[r]
      BY <2>3 DEF TypeOK, Prefix
    <3> QED
      BY <2>0, <2>3, <3>2, <3>3 DEF Grows
  <2>4. CASE /\ chunks' = [chunks EXCEPT ![Run(w)] = TRUE]
             /\ UNCHANGED <<events, calls, rows>>
    <3>1. Prefix(events[r], events'[r]) /\ calls[r] <= calls'[r]
      BY <2>4 DEF TypeOK, Prefix
    <3>2. chunks[r] => chunks'[r]
      BY <2>0, <2>4 DEF TypeOK
    <3> QED
      BY <2>0, <2>4, <3>1, <3>2 DEF Grows
  <2>5. Finalize(w) => AppendEvent(Run(w), "finished")
    BY DEF Finalize
  <2> QED
    BY <1>3, <2>1, <2>2, <2>3, <2>4, <2>5, HowWrites
<1> QED
  BY <1>1, <1>2, <1>3

\* Nothing a run has on record is ever lost or replaced: manifest, events, call
\* attempts and stage outputs, under every interleaving and crash.
THEOREM JournalGrows == Spec => JournalOnlyGrows
<1>1. ASSUME TypeOK, RecordInv, [Next]_vars
      PROVE  [\A r \in RunId :
                /\ manifest[r] # None => manifest'[r] = manifest[r]
                /\ Prefix(events[r], events'[r])
                /\ calls[r] <= calls'[r]
                /\ \A t \in Task : rows[r][t] # None => rows'[r][t] = rows[r][t]]_vars
  <2>1. ASSUME NEW w \in Worker, Step(w), NEW r \in RunId
        PROVE  Grows(r)
    BY <1>1, <2>1, GrowStep DEF RecordInv
  <2> QED
    BY <1>1, <2>1 DEF Next, Step, Grows
<1> QED
  BY <1>1, TypeCorrect, RecordCorrect, PTL DEF Spec, JournalOnlyGrows

-----------------------------------------------------------------------------
(* RunLifecycle implements RunRecord *)

\* A worker recovers only runs that exist.
ParentInv ==
    \A w \in Worker : pc[w] # "idle" /\ Parent(w) # None => status[Parent(w)] # "absent"

\* A step of a worker keeps that the run it recovers exists.
LEMMA ParentStep ==
    ASSUME TypeOK, ParentInv, NEW w \in Worker, Step(w)
    PROVE  ParentInv'
<1>1. \A v \in Worker : pc[v] # "idle" => Parent(v) \in RunId \cup {None}
  BY DEF TypeOK, Parent, Request
<1>2. \A r \in RunId : status[r] # "absent" => status'[r] # "absent"
  <2>1. CASE CreateRun(w)
    BY <2>1 DEF CreateRun, TypeOK
  <2> QED
    BY <2>1, WhoWrites DEF dbVars, Record
<1>3. CASE Submit(w)
  <2>1. PICK q \in Requests : /\ q.parent # None => ParentFits(q)
                              /\ req' = [req EXCEPT ![w] = q]
    BY <1>3 DEF Submit
  <2>2. UNCHANGED status /\ req'[w] = q
    BY <1>3, <2>1 DEF Submit, dbVars, TypeOK
  <2>3. Parent(w)' # None => status'[Parent(w)'] # "absent"
    BY <2>1, <2>2 DEF Parent, ParentFits
  <2>4. \A v \in Worker : v # w => pc'[v] = pc[v] /\ req'[v] = req[v]
    BY <1>3 DEF Submit, Goto, TypeOK
  <2> QED
    BY <2>2, <2>3, <2>4 DEF ParentInv, Parent
<1>4. CASE \A v \in Worker : pc'[v] # "idle" => pc[v] # "idle" /\ req'[v] = req[v]
  BY <1>1, <1>2, <1>4, NoneAssumption DEF ParentInv, Parent
<1>5. CASE Leave(w)
  BY <1>4, <1>5 DEF Leave, TypeOK
<1>6. CASE Progress(w) \/ DropLease(w)
  <2> USE DEF Goto, workerVars, TypeOK
  <2>1. CASE InheritCost(w) \/ AcquireLease(w) \/ CreateRun(w) \/ AppendStarted(w)
                 \/ SaveChunks(w) \/ RejectDocument(w) \/ AppendParsed(w)
    BY <1>4, <2>1 DEF InheritCost, AcquireLease, CreateRun, AppendStarted,
                      SaveChunks, RejectDocument, AppendParsed
  <2>2. CASE ReuseTask(w) \/ CallModel(w) \/ AppendCall(w) \/ FailTask(w)
                 \/ AppendStage(w) \/ AppendGeneration(w)
    BY <1>4, <2>2 DEF Generated, Asking, ReuseTask, CallModel, AppendCall, FailTask, AppendStage,
                      AppendGeneration, Advance, Fail
  <2>3. CASE RejectSuite(w) \/ Finalize(w) \/ DropLease(w)
    BY <1>4, <2>3 DEF Generated, RejectSuite, Finalize, DropLease
  <2>4. CASE RefuseLease(w) \/ ReturnExisting(w) \/ RefuseChunks(w) \/ Close(w)
    BY <1>5, <2>4 DEF RefuseLease, ReturnExisting, RefuseChunks, Close
  <2> QED
    BY <1>6, <2>1, <2>2, <2>3, <2>4 DEF Progress
<1> QED
  BY <1>3, <1>5, <1>6 DEF Step, Abandon

\* So it exists in every behaviour.
LEMMA ParentCorrect == Spec => []ParentInv
<1>1. Init => ParentInv
  BY DEF Init, ParentInv
<1>2. TypeOK /\ ParentInv /\ [Next]_vars => ParentInv'
  <2>1. ASSUME TypeOK, ParentInv, UNCHANGED vars
        PROVE  ParentInv'
    BY <2>1 DEF ParentInv, Parent, vars, dbVars, workerVars
  <2> QED
    BY <2>1, ParentStep DEF Next, Step
<1> QED
  BY <1>1, <1>2, TypeCorrect, PTL DEF Spec

\* The journal of a run holds entries, and only gains some.
LEMMA JournalEntries ==
    ASSUME TypeOK, NEW r \in RunId
    PROVE  Journal(r) \in SUBSET JournalEntry
<1> SUFFICES ASSUME NEW e \in Journal(r) PROVE e \in JournalEntry
  OBVIOUS
<1>1. CASE e \in {<<events[r][i], i, 0>> : i \in DOMAIN events[r]}
  <2>1. PICK i \in DOMAIN events[r] : e = <<events[r][i], i, 0>>
    BY <1>1
  <2>2. events[r] \in Seq({"started", "parsed", "finished"})
    BY DEF TypeOK
  <2>3. i \in Nat /\ events[r][i] \in {"started", "parsed", "finished"}
    BY <2>1, <2>2
  <2> QED
    BY <2>1, <2>3 DEF JournalEntry
<1>2. CASE e \in {<<"call", i, 0>> : i \in 1..calls[r]}
  BY <1>2 DEF JournalEntry, TypeOK
<1>3. CASE e \in {<<"chunks", i, 0>> : i \in {j \in {0} : chunks[r]}}
  BY <1>3 DEF JournalEntry
<1>4. CASE e \in {<<"row", t, rows[r][t]>> : t \in {u \in Task : rows[r][u] # None}}
  <2>1. PICK t \in Task : e = <<"row", t, rows[r][t]>> /\ rows[r][t] # None
    BY <1>4
  <2>2. rows[r][t] \in Row
    BY <2>1 DEF TypeOK
  <2> QED
    BY <2>1, <2>2 DEF JournalEntry
<1> QED
  BY <1>1, <1>2, <1>3, <1>4 DEF Journal

\* What a typed state has in its journal are entries.
LEMMA NextJournalEntries ==
    TypeOK' => (\A r \in RunId : Journal(r) \in SUBSET JournalEntry)'
<1>1. TypeOK => \A r \in RunId : Journal(r) \in SUBSET JournalEntry
  BY JournalEntries
<1> QED
  BY <1>1, PTL

\* A run that grows keeps the entries of its journal.
LEMMA JournalExtended ==
    ASSUME TypeOK, TypeOK', NEW r \in RunId, Grows(r)
    PROVE  Journal(r) \subseteq Journal(r)'
<1> SUFFICES ASSUME NEW e \in Journal(r) PROVE e \in Journal(r)'
  OBVIOUS
<1>1. CASE e \in {<<events[r][i], i, 0>> : i \in DOMAIN events[r]}
  <2>1. PICK i \in DOMAIN events[r] : e = <<events[r][i], i, 0>>
    BY <1>1
  <2>2. /\ events[r] \in Seq({"started", "parsed", "finished"})
        /\ events'[r] \in Seq({"started", "parsed", "finished"})
    BY DEF TypeOK
  <2>3. /\ DOMAIN events[r] = 1..Len(events[r]) /\ Len(events[r]) \in Nat
        /\ DOMAIN events'[r] = 1..Len(events'[r]) /\ Len(events'[r]) \in Nat
    BY <2>2
  <2>4. Prefix(events[r], events'[r])
    BY DEF Grows
  <2>5. i \in DOMAIN events'[r] /\ events'[r][i] = events[r][i]
    BY <2>1, <2>3, <2>4 DEF Prefix
  <2> QED
    BY <2>1, <2>5 DEF Journal
<1>2. CASE e \in {<<"call", i, 0>> : i \in 1..calls[r]}
  <2>1. PICK i \in 1..calls[r] : e = <<"call", i, 0>>
    BY <1>2
  <2>2. i \in 1..calls'[r]
    BY <2>1 DEF Grows, TypeOK
  <2> QED
    BY <2>1, <2>2 DEF Journal
<1>3. CASE e \in {<<"chunks", i, 0>> : i \in {j \in {0} : chunks[r]}}
  BY <1>3 DEF Journal, Grows
<1>4. CASE e \in {<<"row", t, rows[r][t]>> : t \in {u \in Task : rows[r][u] # None}}
  <2>1. PICK t \in Task : e = <<"row", t, rows[r][t]>> /\ rows[r][t] # None
    BY <1>4
  <2>2. rows'[r][t] = rows[r][t]
    BY <2>1 DEF Grows
  <2> QED
    BY <2>1, <2>2 DEF Journal
<1> QED
  BY <1>1, <1>2, <1>3, <1>4 DEF Journal

\* The mapped journal and outcome.
Journals == [r \in RunId |-> Journal(r)]
Outcomes == [r \in RunId |-> OutcomeOf(r)]

\* A run of another id keeps its record, and with it its image.
LEMMA SameRecord ==
    ASSUME NEW r \in RunId, Record(r)' = Record(r)
    PROVE  Journal(r)' = Journal(r) /\ OutcomeOf(r)' = OutcomeOf(r)
BY DEF Record, Journal, OutcomeOf

\* While a run is running its outcome is open; a write leaves it open or is its
\* finalization.
LEMMA OutcomeOpen ==
    ASSUME NEW r \in RunId, status[r] \notin Terminal
    PROVE  OutcomeOf(r) = None
BY DEF OutcomeOf

\* Creating a run opens it: its manifest appears, its journal is still empty.
LEMMA CreateOpens ==
    ASSUME TypeOK, RecordInv, ParentInv, NEW w \in Worker, CreateRun(w)
    PROVE  Store!Open(Run(w)) /\ Run(w) \in RunId
<1> DEFINE id == [parent |-> Parent(w), config |-> req[w].config]
<1>1. /\ Run(w) \in RunId /\ id \in Manifest /\ status[Run(w)] = "absent"
      /\ Parent(w) \in RunId \cup {None}
  BY DEF CreateRun, TypeOK, Run, Parent, Request, Manifest
<1>2. manifest[Run(w)] = None
  BY <1>1 DEF RecordInv, AbsentInv
<1>3. id.parent = None \/ manifest[id.parent] # None
  BY <1>1 DEF RecordInv, AbsentInv, ParentInv, CreateRun
<1>4. \A r \in RunId : Journal(r)' = Journal(r)
  BY DEF CreateRun, Journal
<1>5. \A r \in RunId : OutcomeOf(r)' = OutcomeOf(r)
  BY <1>1 DEF CreateRun, OutcomeOf, Terminal, TypeOK
<1>6. UNCHANGED <<Journals, Outcomes>>
  BY <1>4, <1>5 DEF Journals, Outcomes
<1>7. manifest' = [manifest EXCEPT ![Run(w)] = id]
  BY DEF CreateRun
<1> QED
  BY <1>1, <1>2, <1>3, <1>6, <1>7 DEF Store!Open, Store!Opened, Journals, Outcomes

\* Any other write extends the journal of its run; finalizing closes it too.
LEMMA WriteExtends ==
    ASSUME TypeOK, TypeOK', RecordInv, NEW w \in Worker, Step(w),
           ~CreateRun(w), ~UNCHANGED dbVars, NEW r \in RunId, r = Run(w)
    PROVE  Store!Write(r) \/ Store!Finish(r)
<1>0. /\ Running(r) /\ UNCHANGED manifest
      /\ UNCHANGED status \/ Finalize(w)
  BY HowWrites
<1>1. \A q \in RunId : q # r => Record(q)' = Record(q)
  BY WhoWrites
<1>2. \A q \in RunId : q # r => Journal(q)' = Journal(q) /\ OutcomeOf(q)' = OutcomeOf(q)
  BY <1>1, SameRecord
<1>3. /\ Journal(r)' \in SUBSET JournalEntry
      /\ Journal(r) \subseteq Journal(r)'
  BY GrowStep, JournalExtended, NextJournalEntries DEF RecordInv
<1>4. Store!Extends(r)
  <2>1. /\ Journals'[r] = Journal(r)' /\ Journals[r] = Journal(r)
        /\ Journals' = [Journals EXCEPT ![r] = Journals'[r]]
    BY <1>0, <1>2 DEF Journals
  <2> QED
    BY <1>3, <2>1 DEF Store!Extends, Journals
<1>5. Store!Opened(r) /\ ~Store!Closed(r)
  <2>1. manifest[r] # None
    BY <1>0 DEF RecordInv, AbsentInv, Running
  <2>2. Outcomes[r] = None
    BY <1>0 DEF Outcomes, OutcomeOf, Running, Terminal
  <2> QED
    BY <2>1, <2>2 DEF Store!Opened, Store!Closed, Outcomes
<1>6. CASE UNCHANGED status
  <2>1. OutcomeOf(r)' = OutcomeOf(r)
    BY <1>0, <1>6 DEF OutcomeOf, Running, Terminal
  <2>2. UNCHANGED Outcomes
    BY <1>2, <2>1 DEF Outcomes
  <2> QED
    BY <1>0, <1>4, <1>5, <2>2 DEF Store!Write, Outcomes
<1>7. CASE Finalize(w)
  <2>1. /\ status'[r] \in Terminal
        /\ report'[r] \in Report
    BY <1>0, <1>7 DEF Finalize, TypeOK, Report
  <2>2. OutcomeOf(r)' \in Outcome
    BY <2>1 DEF OutcomeOf, Outcome
  <2>3. /\ Outcomes'[r] \in Outcome
        /\ Outcomes' = [Outcomes EXCEPT ![r] = Outcomes'[r]]
    BY <1>0, <1>2, <2>2 DEF Outcomes
  <2> QED
    BY <1>0, <1>4, <1>5, <2>3 DEF Store!Finish, Outcomes
<1> QED
  BY <1>0, <1>6, <1>7

\* RunRepository, written by any number of interleaved, crashing workers,
\* implements the append-only journal of RunRecord.
THEOREM StoreImplemented == Spec => KeepsTheRecord
<1>1. Init => Store!Init
  <2> SUFFICES ASSUME Init PROVE Store!Init
    OBVIOUS
  <2>1. \A r \in RunId : Journal(r) = {}
    BY DEF Init, Journal, NoRows, Task
  <2>2. \A r \in RunId : OutcomeOf(r) = None
    BY DEF Init, OutcomeOf, Terminal
  <2> QED
    BY <2>1, <2>2 DEF Init, Store!Init
<1>2. TypeOK /\ TypeOK' /\ RecordInv /\ ParentInv /\ [Next]_vars => [Store!Next]_(Store!vars)
  <2> SUFFICES ASSUME TypeOK, TypeOK', RecordInv, ParentInv, [Next]_vars
               PROVE  [Store!Next]_(Store!vars)
    OBVIOUS
  <2>1. CASE UNCHANGED dbVars
    <3>1. UNCHANGED <<manifest, Journals, Outcomes>>
      BY <2>1 DEF dbVars, Journals, Outcomes, Journal, OutcomeOf
    <3> QED
      BY <3>1 DEF Store!vars, Journals, Outcomes
  <2>2. CASE ~UNCHANGED dbVars
    <3>1. PICK w \in Worker : Step(w)
      BY <2>2 DEF Next, Step, vars
    <3>2. CASE CreateRun(w)
      BY <3>2, CreateOpens DEF Store!Next
    <3>3. CASE ~CreateRun(w)
      <4>1. Run(w) \in RunId
        BY <2>2, <3>1, <3>3, HowWrites
      <4>2. PICK r \in RunId : r = Run(w)
        BY <4>1
      <4> QED
        BY <2>2, <3>1, <3>3, <4>2, WriteExtends DEF Store!Next
    <3> QED
      BY <3>2, <3>3
  <2> QED
    BY <2>1, <2>2
<1> QED
  BY <1>1, <1>2, TypeCorrect, RecordCorrect, ParentCorrect, PTL
     DEF Spec, KeepsTheRecord, Store!Spec

-----------------------------------------------------------------------------
(* What a recovery takes over from the run it recovers *)

\* A step of a worker leaves the arguments and the copies of the others alone,
\* and its own too unless it submits, inherits or leaves.
LEMMA LocalSteps ==
    ASSUME TypeOK, NEW w \in Worker, Step(w)
    PROVE  /\ \A v \in Worker : v # w =>
                 /\ pc'[v] = pc[v] /\ req'[v] = req[v]
                 /\ snap'[v] = snap[v] /\ inherited'[v] = inherited[v]
           /\ \/ pc'[w] = "idle" /\ inherited'[w] = Nothing
              \/ Submit(w) \/ InheritCost(w) \/ CreateRun(w)
              \/ /\ pc[w] \notin {"idle", "inherit"} /\ pc'[w] \notin {"idle", "inherit"}
                 /\ pc'[w] \in Executing <=> pc[w] \in Executing
                 /\ UNCHANGED <<req, snap>>
                 /\ inherited'[w] \in {inherited[w], Nothing}
<1> USE DEF Executing, Goto, workerVars, dbVars, TypeOK
<1>1. CASE Leave(w)
  BY <1>1 DEF Leave
<1>2. CASE Submit(w)
  BY <1>2 DEF Submit
<1>3. CASE InheritCost(w)
  BY <1>3 DEF InheritCost
<1>4. CASE CreateRun(w)
  BY <1>4 DEF CreateRun
<1>5. CASE AcquireLease(w) \/ AppendStarted(w) \/ SaveChunks(w) \/ RejectDocument(w)
              \/ AppendParsed(w)
  BY <1>5 DEF AcquireLease, AppendStarted, SaveChunks, RejectDocument, AppendParsed
<1>6. CASE ReuseTask(w) \/ CallModel(w) \/ AppendStage(w) \/ AppendGeneration(w)
  BY <1>6 DEF ReuseTask, CallModel, Asking, AppendStage, AppendGeneration, Generated, Advance
<1>7. CASE AppendCall(w) \/ FailTask(w)
  BY <1>7 DEF AppendCall, FailTask, Asking, Fail
<1>8. CASE RejectSuite(w) \/ Finalize(w) \/ DropLease(w)
  BY <1>8 DEF RejectSuite, Generated, Finalize, DropLease
<1> QED
  BY <1>1, <1>2, <1>3, <1>4, <1>5, <1>6, <1>7, <1>8
  DEF Step, Progress, RefuseLease, ReturnExisting, RefuseChunks, Close, Abandon

\* The run that a worker executes is the one its arguments describe.
OpenedInv ==
    \A w \in Worker : pc[w] \in Executing =>
        manifest[Run(w)] = [parent |-> Parent(w), config |-> req[w].config]

\* create_run writes the manifest from the arguments, and nobody rewrites it.
LEMMA OpenedStep ==
    ASSUME TypeOK, AbsentInv, OpenedInv, NEW w \in Worker, Step(w)
    PROVE  OpenedInv'
<1> SUFFICES ASSUME NEW v \in Worker, pc'[v] \in Executing
             PROVE  manifest'[Run(v)'] = [parent |-> Parent(v)', config |-> req'[v].config]
  BY DEF OpenedInv
<1> DEFINE id == [parent |-> Parent(v), config |-> req[v].config]
<1>1. req'[v] = req[v] /\ Run(v)' = Run(v) /\ Parent(v)' = Parent(v)
  BY WhoExecutes DEF Run, Parent
<1>2. CASE pc[v] \in Executing
  <2>1. req[v] \in Request /\ Run(v) \in RunId
    BY <1>2 DEF TypeOK, Executing, Run, Request
  <2>2. id # None
    BY <2>1, NoneAssumption DEF Parent, Request, Manifest
  <2>3. manifest'[Run(v)] = manifest[Run(v)]
    BY <1>2, <2>1, <2>2, GrowStep DEF OpenedInv, Grows
  <2> QED
    BY <1>1, <1>2, <2>3 DEF OpenedInv
<1>3. CASE v = w /\ CreateRun(w)
  <2>1. Run(w) \in RunId
    BY <1>3 DEF CreateRun, TypeOK, Run, Request
  <2> QED
    BY <1>1, <1>3, <2>1 DEF CreateRun, TypeOK
<1> QED
  BY <1>2, <1>3, WhoExecutes

\* What a recovery loaded of its parent's rows is still there: rows that were
\* read before the lease are not stale, only incomplete.
SnapInv ==
    \A w \in Worker : pc[w] # "idle" => \A t \in Task : snap[w][t] # None =>
        Parent(w) # None /\ rows[Parent(w)][t] = snap[w][t]

\* The rows loaded at submission stay in the parent, since rows only accumulate.
LEMMA SnapStep ==
    ASSUME TypeOK, AbsentInv, SnapInv, NEW w \in Worker, Step(w)
    PROVE  SnapInv'
<1> SUFFICES ASSUME NEW v \in Worker, pc'[v] # "idle", NEW t \in Task, snap'[v][t] # None
             PROVE  Parent(v)' # None /\ rows'[Parent(v)'][t] = snap'[v][t]
  BY DEF SnapInv
<1>1. CASE pc[v] # "idle" /\ req'[v] = req[v] /\ snap'[v] = snap[v]
  <2>1. Parent(v) # None /\ rows[Parent(v)][t] = snap[v][t] /\ Parent(v)' = Parent(v)
    BY <1>1 DEF SnapInv, Parent
  <2>2. Parent(v) \in RunId
    BY <1>1, <2>1 DEF TypeOK, Parent, Request
  <2>3. rows'[Parent(v)][t] = rows[Parent(v)][t]
    BY <1>1, <2>1, <2>2, GrowStep DEF Grows
  <2> QED
    BY <1>1, <2>1, <2>3
<1>2. CASE v = w /\ Submit(w)
  <2>1. PICK q \in Requests :
          /\ req' = [req EXCEPT ![w] = q]
          /\ snap' = [snap EXCEPT ![w] = IF q.parent = None THEN NoRows ELSE rows[q.parent]]
    BY <1>2 DEF Submit
  <2>2. /\ req'[w] = q /\ UNCHANGED rows
        /\ snap'[w] = IF q.parent = None THEN NoRows ELSE rows[q.parent]
    BY <1>2, <2>1 DEF Submit, TypeOK, dbVars
  <2>3. q.parent # None
    BY <1>2, <2>2 DEF NoRows
  <2> QED
    BY <1>2, <2>2, <2>3 DEF Parent
<1>3. CASE v = w /\ ~Submit(w)
  BY <1>1, <1>3, LocalSteps DEF InheritCost, CreateRun, workerVars
<1> QED
  BY <1>1, <1>2, <1>3, LocalSteps DEF Submit

\* The row that reuse copies, from the parent of the worker's run.
CopyOf(w, t) == [snap[w][t] EXCEPT !.reusedFrom = Parent(w)]

\* A stage output that a step adds is the executing worker's own, or its copy of
\* a checkpoint with the same fingerprint.
LEMMA WhatIsPut ==
    ASSUME TypeOK, NEW w \in Worker, Step(w), NEW r \in RunId, NEW t \in Task,
           rows'[r][t] # rows[r][t]
    PROVE  /\ r = Run(w) /\ pc[w] \in Executing /\ UNCHANGED manifest
           /\ status[r] = "running" /\ status'[r] = "running"
           /\ \/ rows'[r][t] = NewRow(w)
              \/ Reusable(w, t) /\ rows'[r][t] = CopyOf(w, t)
<1>1. ~CreateRun(w) /\ ~UNCHANGED dbVars
  BY DEF CreateRun, dbVars
<1>2. /\ ReuseTask(w) \/ AppendStage(w) \/ AppendGeneration(w)
      /\ UNCHANGED <<manifest, status>> /\ Running(Run(w)) /\ Run(w) \in RunId
  BY <1>1, HowWrites
<1>3. task[w] \in Task /\ GenerationRow \in Task
  BY CountAssumption DEF TypeOK, Task, GenerationRow, JudgeTask
<1>4. PICK u \in Task : \/ PutRow(Run(w), u, NewRow(w))
                        \/ Reusable(w, u) /\ PutRow(Run(w), u, CopyOf(w, u))
  BY <1>2, <1>3 DEF Generated, ReuseTask, MayReuse, AppendStage, AppendGeneration, CopyOf
<1>5. r = Run(w) /\ t = u
  BY <1>2, <1>4 DEF PutRow, TypeOK
<1>6. pc[w] \in Executing
  BY <1>2 DEF Generated, ReuseTask, AppendStage, AppendGeneration, Executing
<1>7. \/ rows'[r][t] = NewRow(w)
      \/ Reusable(w, t) /\ rows'[r][t] = CopyOf(w, t)
  BY <1>2, <1>4, <1>5 DEF PutRow, TypeOK
<1> QED
  BY <1>2, <1>5, <1>6, <1>7 DEF Running

\* Only a run that exists has stage outputs.
RowsInv == \A r \in RunId, t \in Task : rows[r][t] # None => status[r] # "absent"

\* A write needs a running run.
LEMMA RowsStep ==
    ASSUME TypeOK, RowsInv, NEW w \in Worker, Step(w)
    PROVE  RowsInv'
<1> SUFFICES ASSUME NEW r \in RunId, NEW t \in Task, rows'[r][t] # None
             PROVE  status'[r] # "absent"
  BY DEF RowsInv
<1>1. status[r] # "absent" => status'[r] # "absent"
  <2>1. CASE CreateRun(w)
    BY <2>1 DEF CreateRun, TypeOK
  <2> QED
    BY <2>1, WhoWrites DEF dbVars, Record
<1>2. CASE rows'[r][t] = rows[r][t]
  BY <1>1, <1>2 DEF RowsInv
<1>3. CASE rows'[r][t] # rows[r][t]
  BY <1>3, WhatIsPut
<1> QED
  BY <1>2, <1>3

\* A new row is grounded by what its worker copied or made; an old one stays so,
\* because the row it was copied from stays.
LEMMA GroundedStep ==
    ASSUME TypeOK, AbsentInv, OpenedInv, SnapInv, RowsInv, ReuseIsGrounded,
           NEW w \in Worker, Step(w)
    PROVE  ReuseIsGrounded'
<1> SUFFICES ASSUME NEW r \in RunId, NEW t \in Task, NEW row, row = rows'[r][t], row # None
             PROVE  /\ row.fingerprint = manifest'[r].config
                    /\ IF row.reusedFrom = None
                       THEN row.madeBy = r
                       ELSE /\ row.reusedFrom = manifest'[r].parent
                            /\ rows'[row.reusedFrom][t] # None
                            /\ rows'[row.reusedFrom][t].madeBy = row.madeBy
                            /\ rows'[row.reusedFrom][t].fingerprint = row.fingerprint
  BY DEF ReuseIsGrounded
<1>1. CASE row = rows[r][t]
  <2>1. row \in Row /\ row.reusedFrom \in RunId \cup {None}
    BY <1>1 DEF TypeOK, Row
  <2>2. manifest'[r] = manifest[r]
    BY <1>1, GrowStep DEF RowsInv, AbsentInv, Grows
  <2>3. row.reusedFrom # None => rows'[row.reusedFrom][t] = rows[row.reusedFrom][t]
    BY <1>1, <2>1, GrowStep DEF ReuseIsGrounded, Grows
  <2> QED
    BY <1>1, <2>2, <2>3 DEF ReuseIsGrounded
<1>2. CASE row # rows[r][t]
  <2>1. /\ r = Run(w) /\ pc[w] \in Executing /\ UNCHANGED manifest
        /\ row = NewRow(w) \/ (Reusable(w, t) /\ row = CopyOf(w, t))
    BY <1>2, WhatIsPut
  <2>2. manifest'[r] = [parent |-> Parent(w), config |-> req[w].config]
    BY <2>1 DEF OpenedInv
  <2>3. CASE row = NewRow(w)
    BY <2>1, <2>2, <2>3 DEF NewRow
  <2>4. CASE Reusable(w, t) /\ row = CopyOf(w, t)
    <3>1. /\ snap[w][t] # None /\ snap[w][t] \in Row
          /\ snap[w][t].fingerprint = req[w].config
      BY <2>4 DEF Reusable, TypeOK
    <3>2. Parent(w) # None /\ rows[Parent(w)][t] = snap[w][t] /\ Parent(w) \in RunId
      BY <2>1, <3>1 DEF SnapInv, Executing, TypeOK, Parent, Request
    <3>3. rows'[Parent(w)][t] = snap[w][t]
      BY <3>1, <3>2, GrowStep DEF Grows
    <3>4. /\ row.reusedFrom = Parent(w) /\ row.madeBy = snap[w][t].madeBy
          /\ row.fingerprint = snap[w][t].fingerprint
      BY <2>4, <3>1 DEF CopyOf, Row
    <3> QED
      BY <2>2, <3>1, <3>2, <3>3, <3>4
  <2> QED
    BY <2>1, <2>3, <2>4
<1> QED
  BY <1>1, <1>2

\* What reuse rests on.
ReuseInv == OpenedInv /\ SnapInv /\ RowsInv /\ ReuseIsGrounded

\* Together they are inductive.
LEMMA ReuseCorrect == Spec => []ReuseInv
<1>1. Init => ReuseInv
  BY DEF Init, ReuseInv, OpenedInv, SnapInv, RowsInv, ReuseIsGrounded, NoRows, Executing
<1>2. TypeOK /\ RecordInv /\ ReuseInv /\ [Next]_vars => ReuseInv'
  <2> SUFFICES ASSUME TypeOK, RecordInv, ReuseInv, [Next]_vars PROVE ReuseInv'
    OBVIOUS
  <2>1. CASE UNCHANGED vars
    <3>1. UNCHANGED <<status, manifest, rows, pc, req, snap>>
      BY <2>1 DEF vars, dbVars, workerVars
    <3> QED
      BY <3>1 DEF ReuseInv, OpenedInv, SnapInv, RowsInv, ReuseIsGrounded, Run, Parent
  <2>2. ASSUME NEW w \in Worker, Step(w)
        PROVE  ReuseInv'
    BY <2>2, OpenedStep, SnapStep, RowsStep, GroundedStep DEF ReuseInv, RecordInv
  <2> QED
    BY <2>1, <2>2 DEF Next, Step
<1> QED
  BY <1>1, <1>2, TypeCorrect, RecordCorrect, PTL DEF Spec

\* Every reused output is that of the parent, under the same configuration, and
\* leads back through the ancestry to the run whose own calls made it, for any
\* chain of recoveries, crashes and lost leases (task(), append_stage_output).
THEOREM ReuseGrounded == Spec => []ReuseIsGrounded
<1>1. ReuseInv => ReuseIsGrounded
  BY DEF ReuseInv
<1> QED
  BY <1>1, ReuseCorrect, PTL

-----------------------------------------------------------------------------
(* The cost a recovery inherits *)

\* Opening a run adds it to no ancestry it was not in, and takes none away.
LEMMA AncestryGrows ==
    ASSUME TypeOK, AbsentInv, NEW w \in Worker, Step(w), NEW p \in RunId
    PROVE  Ancestry(p) \subseteq Ancestry(p)'
<1>1. \A y \in RunId : ParentOf(y) # None => ParentOf(y)' = ParentOf(y)
  <2> SUFFICES ASSUME NEW y \in RunId, ParentOf(y) # None
               PROVE  ParentOf(y)' = ParentOf(y)
    OBVIOUS
  <2>1. status[y] # "absent" /\ manifest[y] # None
    BY DEF ParentOf, AbsentInv
  <2>2. manifest'[y] = manifest[y]
    BY <2>1, GrowStep DEF Grows
  <2> QED
    BY <2>1, <2>2 DEF ParentOf
<1> SUFFICES ASSUME NEW x \in Ancestry(p), NEW S \in SUBSET RunId, p \in S,
                    \A y \in S : ParentOf(y)' # None => ParentOf(y)' \in S
             PROVE  x \in S
  BY DEF Ancestry
<1>2. \A y \in S : ParentOf(y) # None => ParentOf(y) \in S
  BY <1>1
<1> QED
  BY <1>2 DEF Ancestry

\* A run's own cost is that of its calls on record, before and after it ends.
LEMMA OwnCostIsCalls ==
    ASSUME RecordInv, NEW r \in RunId
    PROVE  OwnCost(r) = calls[r]
BY DEF RecordInv, CostInv, OwnCost

\* What a worker inherits was spent by the ancestors of its run, all of which
\* existed before its run was opened.
InheritInv ==
    \A w \in Worker :
        /\ pc[w] = "idle" => inherited[w] = Nothing
        /\ pc[w] = "inherit" => Parent(w) \in RunId /\ inherited[w].next \in Ancestry(Parent(w))
        /\ pc[w] \in Executing => inherited[w].cost[Run(w)] = 0
        /\ \A x \in RunId : inherited[w].cost[x] > 0 =>
              /\ Parent(w) # None /\ x \in Ancestry(Parent(w))
              /\ inherited[w].cost[x] <= calls[x]

\* The cost is read from existing ancestors, before the run itself exists; it is
\* kept or dropped afterwards, and what it was read from only grows.
LEMMA InheritStep ==
    ASSUME TypeOK, RecordInv, InheritInv, NEW w \in Worker, Step(w)
    PROVE  InheritInv'
<1>0. AbsentInv
  BY DEF RecordInv
<1>1. /\ \A v \in Worker, x \in RunId : inherited[v].cost[x] \in Nat
      /\ \A x \in RunId : calls[x] \in Nat /\ calls'[x] \in Nat /\ calls[x] <= calls'[x]
  <2>0. \A v \in Worker, x \in RunId : inherited[v].cost[x] \in Nat
    BY DEF TypeOK
  <2>2. \A x \in RunId : calls[x] \in Nat
    BY DEF TypeOK
  <2>1. \A x \in RunId : calls'[x] = calls[x] \/ calls'[x] = calls[x] + 1
    <3>1. CASE UNCHANGED dbVars
      BY <3>1 DEF dbVars
    <3>2. CASE CreateRun(w)
      BY <3>2 DEF CreateRun
    <3> QED
      BY <3>1, <3>2, HowWrites DEF TypeOK, Finalize
  <2> QED
    BY <2>0, <2>1, <2>2
<1>2. \A p : \A x \in RunId : From(p).cost[x] = 0
  BY DEF From, NoCost
<1>2a. \A x \in RunId : Nothing.cost[x] = 0
  BY <1>2 DEF Nothing
<1>3. ASSUME NEW v \in Worker, req'[v] = req[v], inherited'[v] \in {inherited[v], Nothing},
             NEW x \in RunId, inherited'[v].cost[x] > 0
      PROVE  /\ Parent(v)' # None /\ x \in Ancestry(Parent(v))'
             /\ inherited'[v].cost[x] <= calls'[x]
  <2>1. inherited'[v] = inherited[v]
    BY <1>2a, <1>3
  <2>2. /\ Parent(v) # None /\ x \in Ancestry(Parent(v)) /\ inherited[v].cost[x] <= calls[x]
        /\ pc[v] # "idle"
    BY <1>2a, <1>3, <2>1 DEF InheritInv
  <2>3. Parent(v) \in RunId /\ Parent(v)' = Parent(v)
    BY <1>3, <2>2 DEF TypeOK, Parent, Request
  <2>4. x \in Ancestry(Parent(v))'
    <3> DEFINE p == Parent(v)
    <3>1. Ancestry(p) \subseteq Ancestry(p)'
      BY <1>0, <2>3, AncestryGrows
    <3> QED
      BY <2>2, <3>1
  <2> QED
    BY <1>1, <2>1, <2>2, <2>3, <2>4
<1> DEFINE Inherits(v) ==
        /\ pc[v] = "idle" => inherited[v] = Nothing
        /\ pc[v] = "inherit" => Parent(v) \in RunId /\ inherited[v].next \in Ancestry(Parent(v))
        /\ pc[v] \in Executing => inherited[v].cost[Run(v)] = 0
        /\ \A x \in RunId : inherited[v].cost[x] > 0 =>
              /\ Parent(v) # None /\ x \in Ancestry(Parent(v))
              /\ inherited[v].cost[x] <= calls[x]
<1>4. ASSUME NEW v \in Worker, v # w
      PROVE  Inherits(v)'
  <2>1. /\ pc'[v] = pc[v] /\ req'[v] = req[v] /\ inherited'[v] = inherited[v]
        /\ Run(v)' = Run(v) /\ Parent(v)' = Parent(v)
    BY <1>4, LocalSteps DEF Run, Parent
  <2>2. \A x \in RunId : inherited'[v].cost[x] > 0 =>
          /\ Parent(v)' # None /\ x \in Ancestry(Parent(v))'
          /\ inherited'[v].cost[x] <= calls'[x]
    BY <1>3, <2>1
  <2>3. pc[v] = "inherit" =>
          Parent(v)' \in RunId /\ inherited'[v].next \in Ancestry(Parent(v))'
    <3> SUFFICES ASSUME pc[v] = "inherit"
                 PROVE  Parent(v)' \in RunId /\ inherited'[v].next \in Ancestry(Parent(v))'
      OBVIOUS
    <3>1. Parent(v) \in RunId /\ inherited[v].next \in Ancestry(Parent(v))
      BY DEF InheritInv
    <3> DEFINE p == Parent(v)
    <3>2. p' = p
      BY <2>1
    <3>3. Ancestry(p) \subseteq Ancestry(p)'
      BY <1>0, <3>1, <3>2, AncestryGrows
    <3> QED
      BY <2>1, <3>1, <3>3
  <2>4. pc[v] \in Executing => inherited'[v].cost[Run(v)'] = 0
    BY <2>1 DEF InheritInv
  <2>5. pc[v] = "idle" => inherited'[v] = Nothing
    BY <2>1 DEF InheritInv
  <2> QED
    BY <2>1, <2>2, <2>3, <2>4, <2>5
<1>5. CASE pc'[w] = "idle" /\ inherited'[w] = Nothing
  <2>1. \A x \in RunId : ~(inherited'[w].cost[x] > 0)
    BY <1>2a, <1>5
  <2>2. Inherits(w)'
    BY <1>5, <2>1 DEF Executing
  <2> QED
    BY <1>4, <2>2 DEF InheritInv
<1>6. CASE Submit(w)
  <2>1. PICK q \in Requests :
          /\ req' = [req EXCEPT ![w] = q]
          /\ inherited' = [inherited EXCEPT ![w] = From(q.parent)]
          /\ Goto(w, IF q.parent = None THEN "lease" ELSE "inherit")
    BY <1>6 DEF Submit
  <2>2. /\ req'[w] = q /\ inherited'[w] = From(q.parent)
        /\ pc'[w] = IF q.parent = None THEN "lease" ELSE "inherit"
    BY <2>1 DEF TypeOK, Goto
  <2>3. \A x \in RunId : ~(inherited'[w].cost[x] > 0)
    BY <1>2, <2>2
  <2>4. pc'[w] = "inherit" =>
          Parent(w)' \in RunId /\ inherited'[w].next \in Ancestry(Parent(w))'
    <3>1. q.parent # None => q.parent \in RunId
      BY RequestAssumption DEF Request
    <3>2. Parent(w)' = q.parent /\ inherited'[w].next = q.parent
      BY <2>2 DEF Parent, From
    <3>3. q.parent \in RunId => q.parent \in Ancestry(q.parent)'
      BY DEF Ancestry
    <3> QED
      BY <2>2, <3>1, <3>2, <3>3
  <2>5. Inherits(w)'
    BY <2>2, <2>3, <2>4 DEF Executing
  <2> QED
    BY <1>4, <2>5 DEF InheritInv
<1>7. CASE InheritCost(w)
  <2> DEFINE y == inherited[w].next
  <2>1. /\ pc[w] = "inherit" /\ UNCHANGED <<dbVars, req>>
        /\ inherited'[w] = Round(inherited[w])
        /\ pc'[w] = IF inherited'[w].next = None THEN "lease" ELSE "inherit"
    BY <1>7 DEF InheritCost, TypeOK, Goto
  <2>2. /\ Parent(w) \in RunId /\ Parent(w)' = Parent(w)
        /\ y \in Ancestry(Parent(w)) /\ y \in RunId
    BY <2>1 DEF InheritInv, Parent, Ancestry
  <2>3. \A p : Ancestry(p)' = Ancestry(p)
    BY <2>1 DEF Ancestry, ParentOf, dbVars
  <2>4. /\ inherited'[w].next = ParentOf(y)
        /\ \A x \in RunId : inherited'[w].cost[x] = IF x = y THEN OwnCost(y) ELSE inherited[w].cost[x]
    BY <2>1, <2>2 DEF Round, TypeOK
  <2>5. \A x \in RunId : inherited'[w].cost[x] > 0 =>
          /\ Parent(w)' # None /\ x \in Ancestry(Parent(w))'
          /\ inherited'[w].cost[x] <= calls'[x]
    <3> SUFFICES ASSUME NEW x \in RunId, inherited'[w].cost[x] > 0
                 PROVE  x \in Ancestry(Parent(w)) /\ inherited'[w].cost[x] <= calls'[x]
      BY <2>2, <2>3, NoneAssumption
    <3>1. OwnCost(x) = calls[x] /\ calls'[x] = calls[x]
      BY <2>1, OwnCostIsCalls DEF dbVars
    <3>2. CASE x = y
      BY <1>1, <2>2, <2>4, <3>1, <3>2
    <3>3. CASE x # y
      BY <2>4, <3>1, <3>3 DEF InheritInv
    <3> QED
      BY <3>2, <3>3
  <2>6. ParentOf(y) # None => ParentOf(y) \in Ancestry(Parent(w))
    <3> SUFFICES ASSUME ParentOf(y) # None PROVE ParentOf(y) \in Ancestry(Parent(w))
      OBVIOUS
    <3>1. ParentOf(y) \in RunId
      BY <2>2 DEF ParentOf, TypeOK, Manifest
    <3> QED
      BY <2>2, <3>1 DEF Ancestry
  <2>7. Inherits(w)'
    BY <2>1, <2>2, <2>3, <2>4, <2>5, <2>6 DEF Executing
  <2> QED
    BY <1>4, <2>7 DEF InheritInv
<1>8. CASE CreateRun(w)
  <2>1. /\ pc[w] = "create" /\ pc'[w] = "start" /\ UNCHANGED <<req, inherited>>
        /\ Run(w) \in RunId /\ status[Run(w)] = "absent" /\ Run(w)' = Run(w)
    BY <1>8 DEF CreateRun, TypeOK, Goto, Run, Request, workerVars
  <2>2. calls[Run(w)] = 0
    BY <1>0, <2>1 DEF AbsentInv
  <2>3. inherited'[w].cost[Run(w)'] = 0
    BY <1>1, <2>1, <2>2 DEF InheritInv
  <2>4. \A x \in RunId : inherited'[w].cost[x] > 0 =>
          /\ Parent(w)' # None /\ x \in Ancestry(Parent(w))'
          /\ inherited'[w].cost[x] <= calls'[x]
    BY <1>3, <2>1
  <2>5. Inherits(w)'
    BY <2>1, <2>3, <2>4
  <2> QED
    BY <1>4, <2>5 DEF InheritInv
<1>9. CASE /\ pc[w] \notin {"idle", "inherit"} /\ pc'[w] \notin {"idle", "inherit"}
           /\ pc'[w] \in Executing <=> pc[w] \in Executing
           /\ UNCHANGED <<req, snap>>
           /\ inherited'[w] \in {inherited[w], Nothing}
  <2>1. \A x \in RunId : inherited'[w].cost[x] > 0 =>
          /\ Parent(w)' # None /\ x \in Ancestry(Parent(w))'
          /\ inherited'[w].cost[x] <= calls'[x]
    BY <1>3, <1>9
  <2>2. pc[w] \in Executing => Run(w) \in RunId
    BY DEF TypeOK, Executing, Run, Request
  <2>3. pc'[w] \in Executing => inherited'[w].cost[Run(w)'] = 0
    BY <1>2a, <1>9, <2>2 DEF InheritInv, Run
  <2>4. Inherits(w)'
    BY <1>9, <2>1, <2>3
  <2> QED
    BY <1>4, <2>4 DEF InheritInv
<1> QED
  BY <1>5, <1>6, <1>7, <1>8, <1>9, LocalSteps

\* finalize copies the worker's inherited cost; a report stays true because the
\* ancestry it speaks of, and the cost of each run in it, never shrink.
LEMMA RealStep ==
    ASSUME TypeOK, TypeOK', RecordInv, RecordInv', OpenedInv, InheritInv, InheritedIsReal,
           NEW w \in Worker, Step(w)
    PROVE  InheritedIsReal'
<1>0. AbsentInv
  BY DEF RecordInv
<1>1. \A x \in RunId : /\ calls[x] \in Nat /\ calls'[x] \in Nat /\ calls[x] <= calls'[x]
                       /\ OwnCost(x) = calls[x] /\ OwnCost(x)' = calls'[x]
  <2>1. \A x \in RunId : OwnCost(x) = calls[x]
    BY OwnCostIsCalls
  <2>2. \A x \in RunId : OwnCost(x)' = calls'[x]
    BY DEF RecordInv, CostInv, OwnCost
  <2>3. \A x \in RunId : calls[x] \in Nat /\ calls'[x] \in Nat /\ calls[x] <= calls'[x]
    BY <1>0, GrowStep DEF Grows, TypeOK
  <2> QED
    BY <2>1, <2>2, <2>3
<1>2. SUFFICES ASSUME NEW r \in RunId, NEW x \in RunId, report'[r] # None,
                      report'[r].inherited[x] > 0
               PROVE  /\ manifest'[r].parent # None
                      /\ x \in Ancestry(manifest[r].parent)'
                      /\ x # r /\ report'[r].inherited[x] <= calls'[x]
  BY <1>1 DEF InheritedIsReal
<1>3. CASE report'[r] = report[r]
  <2>1. report[r] # None /\ report[r].inherited[x] \in Nat
    BY <1>2, <1>3 DEF TypeOK, Report
  <2>2. /\ manifest[r].parent # None /\ x \in Ancestry(manifest[r].parent)
        /\ x # r /\ report[r].inherited[x] <= calls[x]
    BY <1>1, <1>2, <1>3, <2>1 DEF InheritedIsReal
  <2>3. manifest[r] # None /\ manifest[r].parent \in RunId
    BY <1>0, <2>1, <2>2 DEF AbsentInv, TypeOK, Manifest
  <2>4. manifest'[r] = manifest[r]
    BY <1>0, <2>3, GrowStep DEF Grows
  <2>5. x \in Ancestry(manifest[r].parent)'
    <3> DEFINE p == manifest[r].parent
    <3>1. Ancestry(p) \subseteq Ancestry(p)'
      BY <1>0, <2>3, <2>4, AncestryGrows
    <3> QED
      BY <2>2, <3>1
  <2> QED
    BY <1>1, <1>3, <2>1, <2>2, <2>4, <2>5
<1>4. CASE report'[r] # report[r]
  <2>1. Finalize(w)
    BY <1>4, HowWrites DEF CreateRun, dbVars
  <2>2. /\ r = Run(w) /\ pc[w] \in Executing /\ UNCHANGED manifest
        /\ report'[r].inherited = inherited[w].cost /\ Run(w) \in RunId
    <3>1. /\ pc[w] = "finalize" /\ UNCHANGED manifest /\ Run(w) \in RunId
          /\ report' = [report EXCEPT ![Run(w)] =
                           [charged |-> used[w], inherited |-> inherited[w].cost,
                            evaluation |-> verdict[w].evaluation]]
      BY <2>1 DEF Finalize, TypeOK, Run, Request
    <3>2. r = Run(w)
      BY <1>4, <3>1 DEF TypeOK
    <3> QED
      BY <3>1, <3>2 DEF TypeOK, Executing
  <2>3. x # r
    BY <1>2, <2>2 DEF InheritInv
  <2>4. /\ Parent(w) # None /\ x \in Ancestry(Parent(w)) /\ inherited[w].cost[x] <= calls[x]
        /\ inherited[w].cost[x] \in Nat
    BY <1>2, <2>2 DEF InheritInv, TypeOK
  <2>5. manifest'[r].parent = Parent(w) /\ Parent(w) \in RunId
    <3>1. Parent(w) \in RunId
      BY <2>2, <2>4 DEF Executing, TypeOK, Parent, Request
    <3>2. manifest[r] = [parent |-> Parent(w), config |-> req[w].config]
      BY <2>2 DEF OpenedInv
    <3>3. manifest'[r] = manifest[r]
      BY <2>2
    <3> QED
      BY <3>1, <3>2, <3>3
  <2>6. x \in Ancestry(manifest[r].parent)'
    <3> DEFINE p == manifest[r].parent
    <3>1. p = Parent(w) /\ p' = p
      BY <2>2, <2>5
    <3>2. Ancestry(p) \subseteq Ancestry(p)'
      BY <1>0, <2>5, <3>1, AncestryGrows
    <3> QED
      BY <2>4, <3>1, <3>2
  <2> QED
    BY <1>1, <2>2, <2>3, <2>4, <2>5, <2>6
<1> QED
  BY <1>3, <1>4

\* The worker's copy and the report are true together.
LEMMA RealCorrect == Spec => [](InheritInv /\ InheritedIsReal)
<1>1. Init => InheritInv /\ InheritedIsReal
  <2> SUFFICES ASSUME Init PROVE InheritInv /\ InheritedIsReal
    OBVIOUS
  <2>1. \A x \in RunId : Nothing.cost[x] = 0
    BY DEF Nothing, From, NoCost
  <2>2. InheritInv
    BY <2>1 DEF Init, InheritInv, Executing
  <2>3. InheritedIsReal
    BY DEF Init, InheritedIsReal
  <2> QED
    BY <2>2, <2>3
<1>2. TypeOK /\ TypeOK' /\ RecordInv /\ RecordInv' /\ ReuseInv
        /\ (InheritInv /\ InheritedIsReal) /\ [Next]_vars
      => (InheritInv /\ InheritedIsReal)'
  <2> SUFFICES ASSUME TypeOK, TypeOK', RecordInv, RecordInv', ReuseInv,
                      InheritInv, InheritedIsReal, [Next]_vars
               PROVE  (InheritInv /\ InheritedIsReal)'
    OBVIOUS
  <2>1. CASE UNCHANGED vars
    <3>1. UNCHANGED <<status, manifest, calls, report, pc, req, inherited>>
      BY <2>1 DEF vars, dbVars, workerVars
    <3> QED
      BY <3>1 DEF InheritInv, InheritedIsReal, OwnCost, Ancestry, ParentOf, Run, Parent
  <2>2. ASSUME NEW w \in Worker, Step(w)
        PROVE  (InheritInv /\ InheritedIsReal)'
    BY <2>2, InheritStep, RealStep DEF ReuseInv
  <2> QED
    BY <2>1, <2>2 DEF Next, Step
<1> QED
  BY <1>1, <1>2, TypeCorrect, RecordCorrect, ReuseCorrect, PTL DEF Spec

\* A recovery reports only what its ancestors have on record as spent, never its
\* own cost and never a stranger's, however runs end, die and are recovered
\* (inherited_budget_tokens, finalize).
THEOREM InheritedReal == Spec => []InheritedIsReal
BY RealCorrect, PTL
=============================================================================
