------------------------------ MODULE Pipeline ------------------------------
\* What the phases of suite generation share: the PipelineContext of a run and
\* the suite it is working on.
\*
\* A task (bounded_task, context.task or a call with its checks) is a step that
\* yields an answer that passed the task's checks, or Fail: an exhausted
\* correction, budget or retry.  BoundedTask and WorkerPool have its inside.
EXTENDS Suite

CONSTANTS
    None,
    Profiles,      \* workflows: "efficient" and "corrected" are the centralized
                   \* one of either context; "staged" is the single agent of
                   \* several stages with an efficient context; "single" is the
                   \* single prompt, and the staged one without such a context,
                   \* whose answers are not checked before the last
    RepairStride,  \* distance of the task indices of two gap repairs (300)
    RepairBase,    \* where they begin (1_000_000)
    MaxAnswer,     \* bound: designs, scenarios or tests in one answer
    RawSuites      \* suites a single agent may answer with, unchecked

ASSUME ProfilesAssumption == Profiles \subseteq {"efficient", "corrected", "single", "staged"}
ASSUME IndexAssumption == RepairStride \in Nat /\ RepairBase \in Nat /\ MaxAnswer \in Nat
ASSUME SuitesAssumption == RawSuites \subseteq Bundle

VARIABLES
    profile,    \* the workflow of the run
    step,       \* what the pipeline does next; how it ended
    rows,       \* identities <<stage, task_index>> claimed by its tasks
    bundle,     \* the suite handed from task to task
    draft       \* context.partial_bundle: what a failed run keeps

run == <<profile, step, rows, bundle, draft>>

\* A task of the efficient pipeline may record itself and two halves; other
\* tasks have one row.  The database refuses a second row of one identity.
Halves(stage, index) == {<<stage, index + i>> : i \in 0..2}

Claim(identities, next) ==
    IF identities \cap rows # {}
      THEN step' = "conflict" /\ rows' = rows
      ELSE step' = next /\ rows' = rows \cup identities

\* Tasks of a stage of the efficient pipeline so far.
Tasks(stage) == Cardinality({row \in rows : row[1] = stage}) \div 3

NonEmpty(S) == (SUBSET S) \ {{}}
Answers(S)  == UNION {[1..n -> S] : n \in 0..MaxAnswer}

\* Scenarios numbered locally, each with requirements of a set.
ScenarioAnswers(ids) ==
    {[i \in DOMAIN links |-> Scenario(i, links[i])] : links \in Answers(NonEmpty(ids))}

\* Test cases numbered locally, each of a scenario with some of its requirements.
TestAnswers(scns) ==
    LET refs == UNION {{s.id} \X NonEmpty(s.reqs) : s \in ToSet(scns)}
    IN  {[i \in DOMAIN links |-> TestCase(i, links[i][1], links[i][2])] : links \in Answers(refs)}

InitPipeline ==
    /\ profile \in Profiles
    /\ rows = {} /\ bundle = EmptySuite /\ draft = EmptySuite
=============================================================================
