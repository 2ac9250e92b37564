------------------------------ MODULE Experiment ------------------------------
\* The benchmark's run command (benchmark.execute): the trials of a frozen
\* experiment in their one order, each generated at most once and judged against
\* the document's approved catalog, under one budget for all.  The command is
\* started again after a crash, or twice at a time; it shares the database with
\* the runs and reviews of CoverageCatalog, and its output directory with itself.
EXTENDS CoverageCatalog, Sequences, FiniteSets, Functions

CONSTANTS
    Execution,    \* starts of the run command
    Order,        \* trial_order: the trials as the manifest's seed shuffles them
    RunCeiling,   \* run_token_ceiling
    JudgeCeiling, \* JUDGE_TOKEN_CEILING
    Over,         \* by how much each phase's ledger may be settled above it
    MaxTotal      \* max_total_budget_tokens

Trial == {Order[n] : n \in DOMAIN Order}

ASSUME OrderAssumption ==
    /\ Order \in Seq(Run)
    /\ \A m, n \in DOMAIN Order : Order[m] = Order[n] => m = n

\* A file that is missing lists nothing.
ASSUME SheetAssumption == \A T \in SUBSET Trial : None # T

Phase == {"generation", "judge"}

ASSUME BudgetAssumption ==
    /\ RunCeiling \in Nat \ {0} /\ JudgeCeiling \in Nat \ {0} /\ MaxTotal \in Nat \ {0}
    /\ Over \in [Phase -> Nat]

VARIABLES
    at,       \* of each execution: where in the order it is
    step,     \* what it does there
    spent,    \* its local `spent`
    launched, \* the trials whose run has been created
    suite,    \* of each trial: the suite its run has generated
    cost,     \* of each trial: what its calls were charged, by phase
    sheet,    \* blind/ratings.csv: no file, or the suites it lists
    mapping   \* private/unblinding.json, likewise

execution == <<at, step, spent>>
trials    == <<launched, suite, cost>>
output    == <<sheet, mapping>>
evars     == <<vars, execution, trials, output>>

Ceiling == [p \in Phase |-> IF p = "generation" THEN RunCeiling ELSE JudgeCeiling]

Charged(t) == cost[t].generation + cost[t].judge

EInit ==
    /\ Init
    /\ at = [x \in Execution |-> 1]
    /\ step = [x \in Execution |-> "start"]
    /\ spent = [x \in Execution |-> 0]
    /\ launched = {}
    /\ suite = [t \in Trial |-> "none"]
    /\ cost = [t \in Trial |-> [p \in Phase |-> 0]]
    /\ sheet = None
    /\ mapping = None

Does(x, s) == step' = [step EXCEPT ![x] = s]
Current(x) == Order[at[x]]

\* load_run finds a run that has not been finalized.
Interrupted(t) == pc[t] # "finalized"

\* The suites of the rows it has recorded: a failed run's draft is one.
Recorded(x) == {Order[n] : n \in 1..(at[x] - 1)}
Suites(x)   == {t \in Recorded(x) : suite[t] # "none" /\ ~Interrupted(t)}

\* The lease of a run is its live execution's.
Leased(t) == \E x \in Execution : step[x] = "generate" /\ Current(x) = t
-----------------------------------------------------------------------------
\* Each document needs its approved catalog before anything is started.
\* Variant: any catalog will do.
Ready_frozen == stored # None

Ready == stored # None /\ status = "approved"

Start(x) ==
    /\ step[x] = "start"
    /\ Does(x, IF ~Ready THEN "stopped" ELSE IF Order = <<>> THEN "export" ELSE "load")
    /\ UNCHANGED <<vars, at, spent, trials, output>>

Counted(x) == spent[x] + Charged(Current(x))

\* The trial's row: its cost is counted, and the experiment goes on to the next
\* one unless that was too much or the last.
Record(x, sum) ==
    /\ spent' = [spent EXCEPT ![x] = sum]
    /\ at' = [at EXCEPT ![x] = @ + 1]
    /\ Does(x, IF sum > MaxTotal \/ at[x] = Len(Order) THEN "export" ELSE "load")

\* Variant: an interrupted trial is recorded as it is.
MustStop_never(x) == FALSE

MustStop(x) == Interrupted(Current(x))

\* Variant: what a resumed trial cost is not added.
Resume_free(x) ==
    /\ step[x] = "load" /\ Current(x) \in launched /\ ~MustStop(x)
    /\ Record(x, spent[x])
    /\ UNCHANGED <<vars, trials, output>>

\* A trial that exists is never generated again; an interrupted one stops the
\* experiment, for good.
Resume(x) ==
    /\ step[x] = "load"
    /\ Current(x) \in launched
    /\ IF MustStop(x)
         THEN /\ spent' = [spent EXCEPT ![x] = Counted(x)]
              /\ Does(x, "stopped")
              /\ UNCHANGED at
         ELSE Record(x, Counted(x))
    /\ UNCHANGED <<vars, trials, output>>

\* Variant: the gate asks only whether the budget is used up.
Affords_used(x) == spent[x] <= MaxTotal

Affords(x) == spent[x] + RunCeiling + JudgeCeiling <= MaxTotal

Gate(x) ==
    /\ step[x] = "load"
    /\ Current(x) \notin launched
    /\ Does(x, IF Affords(x) THEN "launch" ELSE "export")
    /\ UNCHANGED <<vars, at, spent, trials, output>>

\* run_generation with the trial's request id: refused while another execution
\* has it, the existing run if it was created meanwhile, else a run of its own.
Launch(x) ==
    /\ step[x] = "launch"
    /\ \/ /\ Leased(Current(x))
          /\ Does(x, "stopped")
          /\ UNCHANGED <<at, spent, launched>>
       \/ /\ ~Leased(Current(x)) /\ Current(x) \in launched
          /\ Record(x, Counted(x))
          /\ UNCHANGED launched
       \/ /\ ~Leased(Current(x)) /\ Current(x) \notin launched
          /\ launched' = launched \cup {Current(x)}
          /\ Does(x, "generate")
          /\ UNCHANGED <<at, spent>>
    /\ UNCHANGED <<vars, suite, cost, output>>

\* run_generation's phases; what is finalized without a judge is not judged.
In(x, phase) ==
    /\ step[x] = "generate"
    /\ phase = IF suite[Current(x)] = "none" /\ pc[Current(x)] = "load" THEN "generation" ELSE "judge"

\* A call is settled and its row stored, in the generation or by the judge.  cost
\* is what is on record, which is what execute counts: a call whose process dies
\* before its row is stored is on nobody's record and no step here.
Call(x) ==
    \E p \in Phase :
        LET t == Current(x) IN
        /\ In(x, p)
        /\ p = "judge" => pc[t] \in {"extract", "evaluate"}
        /\ cost[t][p] < Ceiling[p]
        /\ \E c \in (cost[t][p] + 1)..(Ceiling[p] + Over[p]) : cost' = [cost EXCEPT ![t][p] = c]
        /\ UNCHANGED <<vars, execution, launched, suite, output>>

\* A whole suite goes to the judge, with validation issues or without; a failed
\* run is finalized, with or without a draft.
GenerationEnds(x) ==
    /\ In(x, "generation")
    /\ \E s \in {"none", "draft", "whole"} :
         /\ suite' = [suite EXCEPT ![Current(x)] = s]
         /\ s = "whole" => UNCHANGED pc
         /\ s # "whole" => Goto(Current(x), "finalize")
    /\ UNCHANGED <<stored, status, catalog, evaluation, review, execution, launched, cost, output>>

TrialJudged(x) ==
    /\ In(x, "judge")
    /\ Judge(Current(x))
    /\ UNCHANGED <<execution, trials, output>>

Return(x) ==
    /\ step[x] = "generate"
    /\ pc[Current(x)] = "finalized"
    /\ Record(x, Counted(x))
    /\ UNCHANGED <<vars, trials, output>>

\* The run is left running and its exception stops the experiment: the process
\* dies, or run_generation raises.
Stops(x) ==
    /\ step[x] \notin {"done", "stopped"}
    /\ Does(x, "stopped")
    /\ UNCHANGED <<vars, at, spent, trials, output>>
-----------------------------------------------------------------------------
\* export_blind: the rating sheet is written once, and only if there is no such
\* file; opening it creates it.
CheckSheet(x) ==
    /\ step[x] = "export"
    /\ Does(x, IF sheet = None THEN "open" ELSE "map")
    /\ UNCHANGED <<vars, at, spent, trials, output>>

OpenSheet(x) ==
    /\ step[x] = "open"
    /\ sheet' = {}
    /\ Does(x, "fill")
    /\ UNCHANGED <<vars, at, spent, trials, mapping>>

FillSheet(x) ==
    /\ step[x] = "fill"
    /\ sheet' = Suites(x)
    /\ Does(x, "map")
    /\ UNCHANGED <<vars, at, spent, trials, mapping>>

\* The mapping, and then the summary.
WriteMapping(x) ==
    /\ step[x] = "map"
    /\ mapping' = Suites(x)
    /\ Does(x, "done")
    /\ UNCHANGED <<vars, at, spent, trials, sheet>>
-----------------------------------------------------------------------------
Execute(x) ==
    \/ Start(x) \/ Resume(x) \/ Gate(x) \/ Launch(x) \/ Call(x) \/ GenerationEnds(x)
    \/ TrialJudged(x) \/ Return(x) \/ Stops(x)
    \/ CheckSheet(x) \/ OpenSheet(x) \/ FillSheet(x) \/ WriteMapping(x)

\* Everybody else: other runs of the document, imports and the reviewer.
ENext ==
    \/ \E r \in Run \ Trial : Judge(r) /\ UNCHANGED <<execution, trials, output>>
    \/ \E i \in Importer : Import(i) /\ UNCHANGED <<execution, trials, output>>
    \/ ShowCatalog /\ UNCHANGED <<execution, trials, output>>
    \/ ApproveShown /\ UNCHANGED <<execution, trials, output>>
    \/ \E x \in Execution : Execute(x)

ESpec == EInit /\ [][ENext]_evars
-----------------------------------------------------------------------------
\* The catalog's types and the experiment's.
ETypeOK ==
    /\ TypeOK
    /\ at \in [Execution -> 1..(Len(Order) + 1)]
    /\ step \in [Execution -> {"start", "load", "launch", "generate", "export", "open", "fill",
                               "map", "done", "stopped"}]
    /\ spent \in [Execution -> Nat]
    /\ launched \subseteq Trial
    /\ suite \in [Trial -> {"none", "draft", "whole"}]
    /\ cost \in [Trial -> [Phase -> Nat]]
    /\ sheet \in (SUBSET Trial) \cup {None}
    /\ mapping \in (SUBSET Trial) \cup {None}

\* All executions together keep the experiment's budget, but for what the two
\* ledgers of one trial may be settled above their ceilings: what was bought by
\* an execution that died counts for the next.
BudgetKept == FoldFunction(+, 0, [t \in Trial |-> Charged(t)]) <= MaxTotal + Over.generation + Over.judge

\* A trial never makes the catalog it is scored by, nor is it started before
\* that catalog was approved: all trials are measured against what was reviewed.
TrialsOnlyMeasure ==
    \A t \in launched :
        /\ status = "approved"
        /\ pc[t] \notin {"extract", "save"}
        /\ evaluation[t] # None => evaluation[t].against.units = approved

\* However often the command was stopped and started, executions that finish
\* report the same trials at the same cost, their rating sheet is that of the
\* trials the mapping unblinds, or was never filled.
Reproducible ==
    \A x, y \in Execution :
        step[x] = "done" /\ step[y] = "done" =>
            /\ at[x] = at[y] /\ spent[x] = spent[y]
            /\ mapping = Suites(x)
            /\ sheet \in {{}, mapping}

\* Trials are bought one after the other, by however many executions: none is
\* started before the ones it follows, or while one of them may still spend.
OneAtATime ==
    /\ \A m, n \in DOMAIN Order : m < n /\ Order[n] \in launched => Order[m] \in launched
    /\ \A x \in Execution, n \in DOMAIN Order :
          step[x] = "generate" /\ Interrupted(Current(x)) /\ n > at[x] => Order[n] \notin launched
=============================================================================
