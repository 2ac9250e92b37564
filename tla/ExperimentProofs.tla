--------------------------- MODULE ExperimentProofs ---------------------------
\* For any number of executions of the benchmark's command, trials, other runs,
\* imports and budgets: trials are bought one after the other, within the
\* budget, and measured against the catalog that was reviewed; and whoever
\* completes the experiment exports the same report.
\*
\* First the catalog by itself: a writer that has got past its save holds the
\* stored catalog, and so does the reviewer's page, because a stored catalog is
\* never replaced.  An experiment keeps the catalog's invariant, because it
\* changes the catalog only through the judges of its trials.
\*
\* A trial is generated by at most one execution, and no execution is past a
\* trial whose generation may still go on: it would have had to record it, and
\* an interrupted trial stops every execution that finds it.  So an execution's
\* account of the trials before it is what they cost, and that is fixed.
EXTENDS Experiment, FoldTheorems, TLAPS

\* What everybody holds: a writer about to save has a catalog, one that is past
\* its save has the stored one, and so have the reviewer's page and the scores.
HeldInv ==
    /\ \A w \in Writer : pc[w] \in {"save", "importSave"} => catalog[w] \in Catalog
    /\ \A w \in Writer : pc[w] \in {"evaluate", "approve"} =>
                            stored # None /\ catalog[w] = stored
    /\ \A r \in Run : evaluation[r] # None =>
                            stored # None /\ evaluation[r].against = stored
    /\ shown # None => shown = stored
    /\ status = "approved" => approved = stored.units

Inv == TypeOK /\ HeldInv

\* A row is written once; it never changes after that.
LEMMA StoredOnce ==
    ASSUME Next, stored # None
    PROVE  stored' = stored
BY DEF Next, Judge, Import, LoadCatalog, ExtractCatalog, ExtractionFails,
       SaveCatalog, Evaluate, MessageRefused, Finalize, ImportLoad, ImportSave, ImportApprove,
       ShowCatalog, ApproveShown, Inserted

\* Saving, for a run and for an import alike: the row is written, or another
\* writer's is there and this one is rejected.
LEMMA SaveEffect ==
    ASSUME NEW w \in Writer, Inv, Inserted(w), Marked, catalog[w] \in Catalog
    PROVE  /\ stored' \in Catalog
           /\ stored # None => stored' = stored /\ status' = status
           /\ stored = None => status' = "machine_frozen"
           /\ status' \in {"machine_frozen", "approved"}
BY NoneAssumption DEF Inv, TypeOK, Inserted, Marked

\* A step of a judge keeps the invariant.
LEMMA JudgeStep ==
    ASSUME NEW r \in Run, Inv, Judge(r)
    PROVE  Inv'
<1> USE DEF Inv, TypeOK, HeldInv, Goto, Holds, Outcome, review
<1>1. r \in Writer  BY DEF Writer
<1>2. CASE LoadCatalog(r)
    BY <1>1, <1>2 DEF LoadCatalog
<1>3. CASE ExtractCatalog(r)
    BY <1>1, <1>3 DEF ExtractCatalog, Catalog
<1>4. CASE ExtractionFails(r)
    BY <1>1, <1>4 DEF ExtractionFails
<1>5. CASE SaveCatalog(r)
    <2>1. catalog[r] \in Catalog
        BY <1>1, <1>5 DEF SaveCatalog
    <2>2. /\ stored' \in Catalog
          /\ stored # None => stored' = stored /\ status' = status
          /\ stored = None => status' = "machine_frozen"
          /\ status' \in {"machine_frozen", "approved"}
        BY <1>1, <1>5, <2>1, SaveEffect DEF SaveCatalog
    <2>3. TypeOK'
        BY <1>1, <1>5, <2>2, NoneAssumption DEF SaveCatalog
    <2>4. HeldInv'
        BY <1>1, <1>5, <2>2, NoneAssumption DEF SaveCatalog, Rejected
    <2> QED
        BY <2>3, <2>4
<1>6. CASE Evaluate(r)
    <2>1. stored \in Catalog /\ catalog[r] = stored
        BY <1>1, <1>6 DEF Evaluate
    <2>2. PICK o \in {"completed", "failed"} :
              evaluation' = [evaluation EXCEPT
                                 ![r] = [outcome |-> o, against |-> stored]]
        BY <1>6, <2>1 DEF Evaluate
    <2>3. TypeOK'
        BY <1>1, <1>6, <2>1, <2>2 DEF Evaluate, Evaluation
    <2>4. HeldInv'
        BY <1>1, <1>6, <2>1, <2>2, NoneAssumption DEF Evaluate
    <2> QED
        BY <2>3, <2>4
<1>7. CASE Finalize(r)
    BY <1>1, <1>7 DEF Finalize
<1>8. CASE MessageRefused(r)
    BY <1>1, <1>8 DEF MessageRefused
<1> QED
    BY <1>2, <1>3, <1>4, <1>5, <1>6, <1>7, <1>8 DEF Judge

\* So does a step of an import.
LEMMA ImportStep ==
    ASSUME NEW i \in Importer, Inv, Import(i)
    PROVE  Inv'
<1> USE DEF Inv, TypeOK, HeldInv, Goto, Holds, review
<1>1. i \in Writer  BY DEF Writer
<1>2. CASE ImportLoad(i)
    BY <1>1, <1>2 DEF ImportLoad, ImportRefused, Approving, Catalog
<1>3. CASE ImportSave(i)
    <2>1. catalog[i] \in Catalog
        BY <1>1, <1>3 DEF ImportSave
    <2>2. /\ stored' \in Catalog
          /\ stored # None => stored' = stored /\ status' = status
          /\ stored = None => status' = "machine_frozen"
          /\ status' \in {"machine_frozen", "approved"}
        BY <1>1, <1>3, <2>1, SaveEffect DEF ImportSave
    <2>3. TypeOK'
        BY <1>1, <1>3, <2>2, NoneAssumption
           DEF ImportSave, ImportRefused, Approving
    <2>4. HeldInv'
        BY <1>1, <1>3, <2>2, NoneAssumption
           DEF ImportSave, ImportRefused, Approving
    <2> QED
        BY <2>3, <2>4
<1>4. CASE ImportApprove(i)
    <2>1. stored \in Catalog /\ catalog[i] = stored /\ stored.units \in Units
        BY <1>1, <1>4 DEF ImportApprove, Catalog
    <2> QED
        BY <1>1, <1>4, <2>1, NoneAssumption DEF ImportApprove, Approved
<1> QED
    BY <1>2, <1>3, <1>4 DEF Import

\* And so do the reviewer's.
LEMMA ReviewStep ==
    ASSUME Inv, ShowCatalog \/ ApproveShown
    PROVE  Inv'
<1> USE DEF Inv, TypeOK, HeldInv
<1>1. CASE ShowCatalog
    BY <1>1 DEF ShowCatalog
<1>2. CASE ApproveShown
    <2>1. stored \in Catalog /\ shown = stored /\ stored.units \in Units
        BY <1>2 DEF ApproveShown, Catalog
    <2> QED
        BY <1>2, <2>1, NoneAssumption DEF ApproveShown, Approved
<1> QED
    BY <1>1, <1>2

\* The invariant holds throughout.
LEMMA InvHolds == Spec => []Inv
<1>1. Init => Inv
    BY DEF Init, Inv, TypeOK, HeldInv, Writer
<1>2. Inv /\ [Next]_vars => Inv'
    <2>1. ASSUME Inv, UNCHANGED vars  PROVE Inv'
        BY <2>1 DEF vars, review, Inv, TypeOK, HeldInv
    <2> QED
        BY <2>1, JudgeStep, ImportStep, ReviewStep DEF Next
<1> QED
    BY <1>1, <1>2, PTL DEF Spec

\* Type correctness (coverage_catalogs, coverage_evaluations).
THEOREM TypeCorrect == Spec => []TypeOK
<1>1. Inv => TypeOK  BY DEF Inv
<1> QED
    BY <1>1, InvHolds, PTL

\* In whatever order runs extract, save and score, every score was measured
\* against the stored catalog (run_generation, save_coverage_catalog).
THEOREM ScoresComparable == Spec => []MeasuredAgainstStored
<1>1. Inv => MeasuredAgainstStored
    BY DEF Inv, HeldInv, MeasuredAgainstStored
<1> QED
    BY <1>1, InvHolds, PTL

\* What stands approved is what was reviewed (approve_coverage_catalog).
THEOREM ApprovalSound == Spec => []ApprovedAsReviewed
<1>1. Inv => ApprovedAsReviewed
    BY DEF Inv, HeldInv, ApprovedAsReviewed
<1> QED
    BY <1>1, InvHolds, PTL

\* A stored catalog is never replaced: the denominator of every later score is
\* the one of the first (save_coverage_catalog).
THEOREM CatalogFrozen == Spec => [][stored # None => stored' = stored]_vars
<1>1. [Next]_vars => [stored # None => stored' = stored]_vars
    BY StoredOnce DEF vars
<1> QED
    BY <1>1, PTL DEF Spec
-----------------------------------------------------------------------------
Generates(x) == step[x] = "generate"
AtTrial(x)   == step[x] \in {"load", "launch", "generate"}

\* An execution that is at a trial is within the order, and begins with the first.
Placed == \A x \in Execution :
    /\ AtTrial(x) => at[x] \in DOMAIN Order
    /\ step[x] = "start" => at[x] = 1

\* What is before an execution, and what it generates, was launched; with a
\* trial, the ones before it were.
Bought ==
    /\ \A x \in Execution, n \in DOMAIN Order : n < at[x] => Order[n] \in launched
    /\ \A x \in Execution : Generates(x) => Current(x) \in launched
    /\ \A m, n \in DOMAIN Order : m < n /\ Order[n] \in launched => Order[m] \in launched

\* While a trial is generated and not yet finalized nobody else generates it,
\* nobody is past it, and none after it was launched.
Alone ==
    /\ \A x, y \in Execution : Generates(x) /\ Generates(y) /\ at[x] = at[y] => x = y
    /\ \A x, y \in Execution : Generates(x) /\ Interrupted(Current(x)) => at[y] <= at[x]
    /\ \A x \in Execution, n \in DOMAIN Order :
          Generates(x) /\ Interrupted(Current(x)) /\ n > at[x] => Order[n] \notin launched

\* Executions past their start, and trials, have an approved catalog; a trial's
\* judge never extracts one, and does nothing before the trial is launched.
Reviewed ==
    /\ \A x \in Execution : step[x] \notin {"start", "stopped"} => Ready
    /\ launched # {} => Ready
    /\ \A t \in Trial \ launched : pc[t] = "load"
    /\ \A t \in launched : pc[t] \notin {"extract", "save"}

Types == /\ at \in [Execution -> 1..(Len(Order) + 1)]
         /\ step \in [Execution -> {"start", "load", "launch", "generate", "export", "open", "fill",
                                    "map", "done", "stopped"}]
         /\ launched \subseteq Trial

EInv == Inv /\ Types /\ Placed /\ Bought /\ Alone /\ Reviewed
-----------------------------------------------------------------------------

\* The order lists each trial once, and trials are runs.
LEMMA OrderFacts ==
    /\ Len(Order) \in Nat
    /\ DOMAIN Order = 1..Len(Order)
    /\ \A n \in DOMAIN Order : Order[n] \in Trial /\ Order[n] \in Run
    /\ \A m, n \in DOMAIN Order : Order[m] = Order[n] => m = n
    /\ Trial \subseteq Run
    /\ Order = <<>> <=> Len(Order) = 0
BY OrderAssumption DEF Trial

\* What a judge or an import does, seen from the experiment: a finalized run and
\* an approved catalog stay what they are, and who finds a catalog extracts none.
LEMMA CatalogMoves ==
    ASSUME NEW w \in Writer, Inv, (w \in Run /\ Judge(w)) \/ (w \in Importer /\ Import(w))
    PROVE  /\ Inv'
           /\ \A v \in Writer : v # w => pc'[v] = pc[v]
           /\ pc[w] # "finalized"
           /\ status = "approved" => status' = "approved"
           /\ stored # None => stored' = stored
           /\ stored # None /\ w \in Run /\ pc[w] \notin {"extract", "save"} => pc'[w] \notin {"extract", "save"}
<1>1. Inv'
    BY JudgeStep, ImportStep
<1>2. pc \in [Writer -> {"load", "extract", "save", "evaluate", "finalize",
                          "finalized", "abandoned", "import", "importSave",
                          "approve", "imported", "refused"}]
    BY DEF Inv, TypeOK
<1>3. stored # None => stored' = stored
    BY StoredOnce DEF Next
<1>4. CASE w \in Run /\ Judge(w)
    BY <1>1, <1>2, <1>3, <1>4
       DEF Judge, LoadCatalog, ExtractCatalog, ExtractionFails, SaveCatalog, Evaluate,
           MessageRefused, Finalize, Goto, Marked, Inv, TypeOK
<1>5. CASE w \in Importer /\ Import(w)
    <2>1. w \notin Run
        BY <1>5, WriterAssumption
    <2> QED
        BY <1>1, <1>2, <1>3, <1>5, <2>1
           DEF Import, ImportLoad, ImportSave, ImportApprove, ImportRefused, Approving, Goto,
               Marked, Approved, Inv, TypeOK
<1> QED
    BY <1>4, <1>5
-----------------------------------------------------------------------------
\* The catalog side of a step at which the executions stay where they are: the
\* judge of a run that has its catalog to find, or an import.
LEMMA MovesKeep ==
    ASSUME NEW w \in Writer, EInv, (w \in Run /\ Judge(w)) \/ (w \in Importer /\ Import(w)),
           w \in Trial => w \in launched,
           UNCHANGED <<at, step, launched>>
    PROVE  EInv'
<1> USE OrderFacts
<1>1. /\ Inv'
      /\ \A v \in Writer : v # w => pc'[v] = pc[v]
      /\ pc[w] # "finalized"
      /\ status = "approved" => status' = "approved"
      /\ stored # None => stored' = stored
      /\ stored # None /\ w \in Run /\ pc[w] \notin {"extract", "save"} => pc'[w] \notin {"extract", "save"}
    BY CatalogMoves DEF EInv
<1>2. Trial \subseteq Writer
    BY DEF Writer
<1>3. Ready => Ready'
    BY <1>1 DEF Ready
<1>4. \A t \in Trial : Interrupted(t)' => Interrupted(t)
    BY <1>1, <1>2 DEF Interrupted
<1>5. Types' /\ Placed' /\ Bought'
    BY DEF EInv, Types, Placed, Bought, AtTrial, Generates, Current
<1>6. Alone'
    <2>1. \A x \in Execution : Generates(x) => Current(x) \in Trial
        BY DEF EInv, Placed, AtTrial, Generates, Current
    <2>2. \A x \in Execution : Current(x)' = Current(x) /\ (Generates(x)' <=> Generates(x))
        BY DEF Current, Generates
    <2>3. \A x \in Execution : Generates(x)' /\ Interrupted(Current(x))' => Generates(x) /\ Interrupted(Current(x))
        BY <1>4, <2>1, <2>2 DEF Interrupted, Current
    <2> QED
        BY <2>2, <2>3 DEF EInv, Alone
<1>7. Reviewed'
    <2>1. \A t \in Trial \ launched : pc'[t] = "load"
        BY <1>1, <1>2 DEF EInv, Reviewed
    <2>2. \A t \in launched : pc'[t] \notin {"extract", "save"}
        <3> SUFFICES ASSUME NEW t \in launched  PROVE pc'[t] \notin {"extract", "save"}
            OBVIOUS
        <3>1. t \in Trial /\ t \in Run /\ t \in Writer /\ stored # None /\ pc[t] \notin {"extract", "save"}
            BY <1>2 DEF EInv, Types, Reviewed, Ready
        <3> QED
            BY <1>1, <3>1
    <2> QED
        BY <1>3, <2>1, <2>2 DEF EInv, Reviewed
<1> QED
    BY <1>1, <1>5, <1>6, <1>7 DEF EInv

\* The reviewer, who touches no run.
LEMMA ReviewsKeep ==
    ASSUME EInv, ShowCatalog \/ ApproveShown, UNCHANGED <<at, step, launched>>
    PROVE  EInv'
<1>1. Inv'
    BY ReviewStep DEF EInv
<1>2. /\ UNCHANGED <<pc, stored>>
      /\ status = "approved" => status' = "approved"
    BY DEF ShowCatalog, ApproveShown, Approved
<1>3. Ready => Ready'
    BY <1>2 DEF Ready
<1>4. Types' /\ Placed' /\ Bought' /\ Alone'
    BY <1>2 DEF EInv, Types, Placed, Bought, Alone, AtTrial, Generates, Current, Interrupted
<1>5. Reviewed'
    BY <1>2, <1>3 DEF EInv, Reviewed
<1> QED
    BY <1>1, <1>4, <1>5 DEF EInv
-----------------------------------------------------------------------------
\* The trial's row: what has to be true of it for the execution to go on.
LEMMA RecordKeeps ==
    ASSUME NEW x \in Execution, NEW sum, EInv, AtTrial(x), Record(x, sum),
           Current(x) \in launched,
           \A y \in Execution : Generates(y) /\ at[y] = at[x] => ~Interrupted(Current(y)),
           UNCHANGED <<vars, launched>>
    PROVE  EInv'
<1> USE OrderFacts
<1>1. at[x] \in 1..Len(Order) /\ at \in [Execution -> 1..(Len(Order) + 1)]
    BY DEF EInv, Types, Placed
<1>2. at' = [at EXCEPT ![x] = at[x] + 1]
    BY DEF Record
<1>3. step' = [step EXCEPT ![x] = step'[x]] /\ step'[x] \in {"export", "load"}
      /\ (step'[x] = "load" => at[x] # Len(Order))
    BY DEF Record, Does, EInv, Types
<1>4. Inv'
    BY DEF vars, review, EInv, Inv, TypeOK, HeldInv
<1>5. Types' /\ Placed'
    BY <1>1, <1>2, <1>3 DEF EInv, Types, Placed, AtTrial
<1>6. Bought'
    <2>1. \A y \in Execution, n \in DOMAIN Order : n < at'[y] => Order[n] \in launched
        BY <1>1, <1>2 DEF EInv, Bought, Current
    <2>2. \A y \in Execution : Generates(y)' => y # x /\ Generates(y) /\ at'[y] = at[y]
        BY <1>1, <1>2, <1>3 DEF Generates, EInv, Types
    <2> QED
        BY <2>1, <2>2 DEF EInv, Bought, Current
<1>7. Alone'
    <2>1. \A y \in Execution : Generates(y)' => y # x /\ Generates(y) /\ at'[y] = at[y] /\ Current(y)' = Current(y)
        BY <1>1, <1>2, <1>3 DEF Generates, EInv, Types, Current
    <2>2. \A y \in Execution : Interrupted(Current(y))' /\ Generates(y)' => Interrupted(Current(y)) /\ at[y] # at[x]
        BY <2>1 DEF Interrupted, vars, Current
    <2>3. \A y, z \in Execution : Generates(y)' /\ Interrupted(Current(y))' => at'[z] <= at'[y]
        <3> SUFFICES ASSUME NEW y \in Execution, NEW z \in Execution, Generates(y)', Interrupted(Current(y))'
                     PROVE  at'[z] <= at'[y]
            OBVIOUS
        <3>1. at[z] <= at[y] /\ at[x] <= at[y] /\ at[x] # at[y]
            BY <2>1, <2>2 DEF EInv, Alone
        <3> QED
            BY <1>1, <1>2, <2>1, <3>1
    <2> QED
        BY <2>1, <2>2, <2>3 DEF EInv, Alone
<1>8. Reviewed'
    <2>1. Ready
        BY DEF EInv, Reviewed, AtTrial
    <2> QED
        BY <1>3, <2>1 DEF EInv, Reviewed, Ready, vars
<1> QED
    BY <1>4, <1>5, <1>6, <1>7, <1>8 DEF EInv

\* A step of an execution that neither generates nor gets past a trial.
LEMMA StepKeeps ==
    ASSUME NEW x \in Execution, NEW s, EInv, Does(x, s), UNCHANGED <<vars, at, launched>>,
           s \in {"load", "launch", "export", "open", "fill", "map", "done", "stopped"},
           s \in {"load", "launch"} => at[x] \in DOMAIN Order,
           s # "stopped" => Ready
    PROVE  EInv'
<1> USE OrderFacts
<1>1. step' = [step EXCEPT ![x] = s]
    BY DEF Does
<1>2. Inv'
    BY DEF vars, review, EInv, Inv, TypeOK, HeldInv
<1>3. \A y \in Execution : Generates(y)' => Generates(y) /\ Current(y)' = Current(y) /\ y # x
    BY <1>1 DEF Generates, EInv, Types, Current
<1>4. Types' /\ Placed'
    BY <1>1 DEF EInv, Types, Placed, AtTrial
<1>5. Bought' /\ Alone'
    BY <1>3 DEF EInv, Bought, Alone, Interrupted, vars, Current
<1>6. Reviewed'
    BY <1>1 DEF EInv, Types, Reviewed, Ready, vars
<1> QED
    BY <1>2, <1>4, <1>5, <1>6 DEF EInv

\* A trial is launched: nobody can be past it, and none after it was.
LEMMA LaunchKeeps ==
    ASSUME NEW x \in Execution, EInv, step[x] = "launch", Current(x) \notin launched,
           launched' = launched \cup {Current(x)}, Does(x, "generate"), UNCHANGED <<vars, at>>
    PROVE  EInv'
<1> USE OrderFacts
<1>1. step' = [step EXCEPT ![x] = "generate"]
    BY DEF Does
<1>2. at[x] \in DOMAIN Order /\ Current(x) = Order[at[x]] /\ Ready
    BY DEF EInv, Placed, Reviewed, AtTrial, Current
<1>3. Inv'
    BY DEF vars, review, EInv, Inv, TypeOK, HeldInv
<1>4. \A y \in Execution : Generates(y)' <=> (Generates(y) \/ y = x)
    BY <1>1 DEF Generates, EInv, Types
<1>5. \A y \in Execution : at[y] \in 1..(Len(Order) + 1) /\ at[y] <= at[x]
    BY <1>2 DEF EInv, Types, Bought
<1>6. \A n \in DOMAIN Order : n > at[x] => Order[n] \notin launched
    BY <1>2 DEF EInv, Bought
<1>7. Types' /\ Placed'
    BY <1>1, <1>2 DEF EInv, Types, Placed, AtTrial
<1>8. Bought'
    <2>1. \A m \in DOMAIN Order : m < at[x] => Order[m] \in launched
        BY DEF EInv, Bought
    <2>2. \A m, n \in DOMAIN Order : m < n /\ Order[n] \in launched' => Order[m] \in launched'
        BY <1>2, <2>1 DEF EInv, Bought
    <2> QED
        BY <1>4, <2>2 DEF EInv, Bought, Current
<1>9. Alone'
    <2>1. \A y \in Execution : Generates(y) => at[y] # at[x]
        BY <1>2 DEF EInv, Bought, Current
    <2>2. \A y, z \in Execution : Generates(y)' /\ Generates(z)' /\ at[y] = at[z] => y = z
        BY <1>4, <2>1 DEF EInv, Alone
    <2>3. \A y, z \in Execution : Generates(y)' /\ Interrupted(Current(y))' => at[z] <= at[y]
        BY <1>4, <1>5 DEF EInv, Alone, Interrupted, Current, vars
    <2>4. \A y \in Execution : Generates(y) /\ Interrupted(Current(y)) => (at[x] < at[y] \/ y = x)
        BY <1>5, <2>1 DEF EInv, Alone, Types
    <2>5. \A y \in Execution, n \in DOMAIN Order :
             Generates(y)' /\ Interrupted(Current(y))' /\ n > at[y] => Order[n] \notin launched'
        <3> SUFFICES ASSUME NEW y \in Execution, NEW n \in DOMAIN Order,
                            Generates(y)', Interrupted(Current(y))', n > at[y]
                     PROVE  Order[n] \notin launched'
            OBVIOUS
        <3>1. CASE y = x
            BY <1>2, <1>6, <3>1
        <3>2. CASE y # x
            <4>1. Generates(y) /\ Interrupted(Current(y))
                BY <1>4, <3>2 DEF Interrupted, Current, vars
            <4>2. Order[n] \notin launched /\ n # at[x]
                BY <1>2, <1>5, <2>4, <3>2, <4>1 DEF EInv, Alone
            <4> QED
                BY <1>2, <4>2
        <3> QED
            BY <3>1, <3>2
    <2> QED
        BY <2>2, <2>3, <2>5 DEF Alone
<1>10. Reviewed'
    BY <1>1, <1>2 DEF EInv, Types, Reviewed, Ready, vars
<1> QED
    BY <1>3, <1>7, <1>8, <1>9, <1>10 DEF EInv

\* The generation ends: its run is to be finalized, or judged.
LEMMA GenerationKeeps ==
    ASSUME NEW x \in Execution, EInv, GenerationEnds(x)
    PROVE  EInv'
<1> USE OrderFacts
<1>1. Current(x) \in launched /\ Current(x) \in Writer /\ Current(x) \in Run /\ pc[Current(x)] = "load"
    <2>1. step[x] = "generate" /\ pc[Current(x)] = "load"
        BY DEF GenerationEnds, In
    <2>2. Current(x) \in launched /\ launched \subseteq Trial
        BY <2>1 DEF EInv, Bought, Generates, Types
    <2> QED
        BY <2>1, <2>2 DEF Writer
<1>2. pc' = pc \/ pc' = [pc EXCEPT ![Current(x)] = "finalize"]
    BY DEF GenerationEnds, Goto
<1>3. UNCHANGED <<stored, status, catalog, evaluation, shown, approved, at, step, launched>>
    BY DEF GenerationEnds, review, execution
<1>4. Inv'
    BY <1>1, <1>2, <1>3 DEF EInv, Inv, TypeOK, HeldInv
<1>5. \A t \in Trial : pc'[t] = pc[t] \/ (t = Current(x) /\ pc'[t] = "finalize")
    BY <1>1, <1>2 DEF EInv, Inv, TypeOK, Writer
<1>6. Types' /\ Placed' /\ Bought'
    BY <1>3 DEF EInv, Types, Placed, Bought, AtTrial, Generates, Current
<1>7. \A y \in Execution : Generates(y)' /\ Interrupted(Current(y))' => Generates(y) /\ Interrupted(Current(y))
    BY <1>1, <1>3, <1>5 DEF Generates, Interrupted, Current, EInv, Placed, AtTrial
<1>8. Alone'
    BY <1>3, <1>7 DEF EInv, Alone, Generates
<1>9. Reviewed'
    BY <1>1, <1>3, <1>5 DEF EInv, Types, Reviewed, Ready
<1> QED
    BY <1>4, <1>6, <1>8, <1>9 DEF EInv

\* Every step of an execution.
LEMMA ExecutionKeeps ==
    ASSUME NEW x \in Execution, EInv, Execute(x)
    PROVE  EInv'
<1> USE OrderFacts
<1>1. CASE Start(x)
    <2>1. /\ Does(x, IF ~Ready THEN "stopped" ELSE IF Order = <<>> THEN "export" ELSE "load")
          /\ UNCHANGED <<vars, at, launched>>
        BY <1>1 DEF Start, trials
    <2>2. Order # <<>> => at[x] \in DOMAIN Order
        BY <1>1 DEF Start, EInv, Placed
    <2> QED
        BY <2>1, <2>2, StepKeeps
<1>2. CASE Resume(x)
    <2>1. step[x] = "load" /\ Current(x) \in launched /\ UNCHANGED <<vars, launched>>
        BY <1>2 DEF Resume, trials
    <2>2. CASE Interrupted(Current(x))
        <3>1. Does(x, "stopped") /\ UNCHANGED <<vars, at, launched>>
            BY <1>2, <2>1, <2>2 DEF Resume, MustStop
        <3> QED
            BY <3>1, StepKeeps
    <2>3. CASE ~Interrupted(Current(x))
        <3>1. Record(x, Counted(x)) /\ AtTrial(x)
            BY <1>2, <2>1, <2>3 DEF Resume, MustStop, AtTrial
        <3>2. \A y \in Execution : at[y] = at[x] => ~Interrupted(Current(y))
            BY <2>3 DEF Current
        <3> QED
            BY <2>1, <3>1, <3>2, RecordKeeps
    <2> QED
        BY <2>2, <2>3
<1>3. CASE Gate(x)
    <2>1. /\ Does(x, IF Affords(x) THEN "launch" ELSE "export")
          /\ UNCHANGED <<vars, at, launched>> /\ step[x] = "load"
        BY <1>3 DEF Gate, trials
    <2>2. at[x] \in DOMAIN Order /\ Ready
        BY <2>1 DEF EInv, Placed, Reviewed, AtTrial
    <2> QED
        BY <2>1, <2>2, StepKeeps
<1>4. CASE Launch(x)
    <2>1. step[x] = "launch" /\ UNCHANGED vars
        BY <1>4 DEF Launch
    <2>2. CASE Leased(Current(x)) /\ Does(x, "stopped") /\ UNCHANGED <<at, launched>>
        BY <2>1, <2>2, StepKeeps
    <2>3. CASE ~Leased(Current(x)) /\ Current(x) \in launched /\ Record(x, Counted(x)) /\ UNCHANGED launched
        <3>1. \A y \in Execution : ~(Generates(y) /\ at[y] = at[x])
            BY <2>3 DEF Leased, Generates, Current
        <3> QED
            BY <2>1, <2>3, <3>1, RecordKeeps DEF AtTrial
    <2>4. CASE /\ Current(x) \notin launched /\ launched' = launched \cup {Current(x)}
               /\ Does(x, "generate") /\ UNCHANGED at
        BY <2>1, <2>4, LaunchKeeps
    <2> QED
        BY <1>4, <2>2, <2>3, <2>4 DEF Launch
<1>5. CASE Call(x)
    <2>1. UNCHANGED <<vars, at, step, launched>>
        BY <1>5 DEF Call, execution
    <2>2. Inv'
        BY <2>1 DEF vars, review, EInv, Inv, TypeOK, HeldInv
    <2> QED
        BY <2>1, <2>2 DEF EInv, Types, Placed, Bought, Alone, Reviewed, AtTrial, Generates,
                          Current, Interrupted, Ready, vars
<1>6. CASE GenerationEnds(x)
    BY <1>6, GenerationKeeps
<1>7. CASE TrialJudged(x)
    <2>1. Judge(Current(x)) /\ Generates(x) /\ UNCHANGED <<at, step, launched>>
        BY <1>7 DEF TrialJudged, In, execution, trials, Generates
    <2>2. Current(x) \in launched /\ launched \subseteq Trial
        BY <2>1 DEF EInv, Bought, Types
    <2>3. Current(x) \in Writer /\ Current(x) \in Run
        BY <2>2 DEF Writer
    <2> QED
        BY <2>1, <2>2, <2>3, MovesKeep
<1>8. CASE Return(x)
    <2>1. /\ Generates(x) /\ ~Interrupted(Current(x)) /\ Record(x, Counted(x))
          /\ UNCHANGED <<vars, launched>>
        BY <1>8 DEF Return, trials, Generates, Interrupted
    <2>2. Current(x) \in launched /\ AtTrial(x)
        BY <2>1 DEF EInv, Bought, AtTrial, Generates
    <2>3. \A y \in Execution : at[y] = at[x] => ~Interrupted(Current(y))
        BY <2>1 DEF Current
    <2> QED
        BY <2>1, <2>2, <2>3, RecordKeeps
<1>9. CASE Stops(x)
    BY <1>9, StepKeeps DEF Stops, trials
<1>10. CASE CheckSheet(x) \/ OpenSheet(x) \/ FillSheet(x) \/ WriteMapping(x)
    <2>1. step[x] \in {"export", "open", "fill", "map"} /\ UNCHANGED <<vars, at, launched>>
        BY <1>10 DEF CheckSheet, OpenSheet, FillSheet, WriteMapping, trials
    <2>2. \E s \in {"open", "map", "fill", "done"} : Does(x, s)
        BY <1>10 DEF CheckSheet, OpenSheet, FillSheet, WriteMapping
    <2>3. Ready
        BY <2>1 DEF EInv, Reviewed
    <2> QED
        BY <2>1, <2>2, <2>3, StepKeeps
<1> QED
    BY <1>1, <1>2, <1>3, <1>4, <1>5, <1>6, <1>7, <1>8, <1>9, <1>10 DEF Execute

\* The invariant holds throughout an experiment.
LEMMA ExperimentInv == ESpec => []EInv
<1> USE OrderFacts
<1>1. EInit => EInv
    <2> SUFFICES ASSUME EInit  PROVE EInv
        OBVIOUS
    <2>1. Inv
        BY DEF EInit, Init, Inv, TypeOK, HeldInv, Writer
    <2>2. Types /\ Placed /\ Bought /\ Alone
        BY DEF EInit, Types, Placed, Bought, Alone, AtTrial, Generates
    <2>3. Reviewed
        BY DEF EInit, Init, Reviewed, Writer
    <2> QED
        BY <2>1, <2>2, <2>3 DEF EInv
<1>2. EInv /\ [ENext]_evars => EInv'
    <2> SUFFICES ASSUME EInv, [ENext]_evars  PROVE EInv'
        OBVIOUS
    <2>1. ASSUME NEW r \in Run \ Trial, Judge(r), UNCHANGED <<execution, trials, output>>  PROVE EInv'
        <3>1. r \in Writer /\ r \notin Trial /\ UNCHANGED <<at, step, launched>>
            BY <2>1 DEF Writer, execution, trials
        <3> QED
            BY <2>1, <3>1, MovesKeep
    <2>2. ASSUME NEW i \in Importer, Import(i), UNCHANGED <<execution, trials, output>>  PROVE EInv'
        <3>1. i \in Writer /\ i \notin Trial /\ UNCHANGED <<at, step, launched>>
            BY <2>2, WriterAssumption DEF Writer, execution, trials
        <3> QED
            BY <2>2, <3>1, MovesKeep
    <2>3. ASSUME ShowCatalog \/ ApproveShown, UNCHANGED <<execution, trials, output>>  PROVE EInv'
        BY <2>3, ReviewsKeep DEF execution, trials
    <2>4. CASE UNCHANGED evars
        <3>1. UNCHANGED <<vars, at, step, launched>>
            BY <2>4 DEF evars, execution, trials
        <3>2. Inv'
            BY <3>1 DEF vars, review, EInv, Inv, TypeOK, HeldInv
        <3> QED
            BY <3>1, <3>2 DEF EInv, Types, Placed, Bought, Alone, Reviewed, AtTrial, Generates,
                              Current, Interrupted, Ready, vars
    <2> QED
        BY <2>1, <2>2, <2>3, <2>4, ExecutionKeeps DEF ENext
<1> QED
    BY <1>1, <1>2, PTL DEF ESpec

-----------------------------------------------------------------------------
\* What is counted and exported.
Accounts ==
    /\ spent \in [Execution -> Nat]
    /\ suite \in [Trial -> {"none", "draft", "whole"}]
    /\ cost \in [Trial -> [Phase -> Nat]]
    /\ sheet \in (SUBSET Trial) \cup {None}
    /\ mapping \in (SUBSET Trial) \cup {None}

\* Costs are natural numbers, and suites are of trials in the order.
LEMMA Counting ==
    ASSUME NEW x \in Execution, EInv, Accounts
    PROVE  /\ AtTrial(x) => Current(x) \in Trial /\ Counted(x) \in Nat
           /\ Suites(x) \subseteq Trial
<1> USE OrderFacts
<1>1. AtTrial(x) => Current(x) \in Trial
    BY DEF EInv, Placed, Current
<1>2. \A t \in Trial : Charged(t) \in Nat
    BY DEF Accounts, Charged, Phase
<1>3. \A n \in 1..(at[x] - 1) : n \in DOMAIN Order
    BY DEF EInv, Types
<1> QED
    BY <1>1, <1>2, <1>3 DEF Accounts, Counted, Suites, Recorded

\* An execution adds up what it finds, one phase of a call at a time.
LEMMA ExecutionAccounts ==
    ASSUME NEW x \in Execution, EInv, Accounts, Execute(x)
    PROVE  Accounts'
<1>1. CASE Call(x)
    <2>1. PICK p \in Phase : /\ In(x, p) /\ UNCHANGED <<spent, suite, sheet, mapping>>
                             /\ \E c \in (cost[Current(x)][p] + 1)..(Ceiling[p] + Over[p]) :
                                   cost' = [cost EXCEPT ![Current(x)][p] = c]
        BY <1>1 DEF Call, execution, output
    <2>2. Current(x) \in Trial /\ cost[Current(x)][p] \in Nat
        BY <2>1, Counting DEF In, AtTrial, Accounts
    <2>3. Ceiling[p] + Over[p] \in Nat
        BY BudgetAssumption DEF Ceiling, Phase
    <2>4. PICK c \in (cost[Current(x)][p] + 1)..(Ceiling[p] + Over[p]) :
              cost' = [cost EXCEPT ![Current(x)][p] = c]
        BY <2>1
    <2>5. cost' \in [Trial -> [Phase -> Nat]]
        <3>1. c \in Nat
            BY <2>2, <2>3
        <3> QED
            BY <2>2, <2>4, <3>1 DEF Accounts
    <2> QED
        BY <2>1, <2>5 DEF Accounts
<1>2. CASE GenerationEnds(x)
    <2>1. Current(x) \in Trial
        BY <1>2, Counting DEF GenerationEnds, In, AtTrial
    <2> QED
        BY <1>2, <2>1 DEF GenerationEnds, Accounts, execution, output
<1>3. CASE Resume(x) \/ Launch(x) \/ Return(x)
    <2>1. AtTrial(x) /\ UNCHANGED <<suite, cost, sheet, mapping>>
        BY <1>3 DEF Resume, Launch, Return, AtTrial, trials, output
    <2>2. spent' = spent \/ spent' = [spent EXCEPT ![x] = Counted(x)]
        BY <1>3 DEF Resume, Launch, Return, Record
    <2> QED
        BY <2>1, <2>2, Counting DEF Accounts
<1>4. CASE OpenSheet(x) \/ FillSheet(x) \/ WriteMapping(x)
    <2>1. UNCHANGED <<spent, suite, cost>>
        BY <1>4 DEF OpenSheet, FillSheet, WriteMapping, trials
    <2>2. sheet' \in {sheet, {}, Suites(x)} /\ mapping' \in {mapping, Suites(x)}
        BY <1>4 DEF OpenSheet, FillSheet, WriteMapping
    <2> QED
        BY <2>1, <2>2, Counting DEF Accounts
<1>5. CASE Start(x) \/ Gate(x) \/ TrialJudged(x) \/ Stops(x) \/ CheckSheet(x)
    BY <1>5 DEF Start, Gate, TrialJudged, Stops, CheckSheet, Accounts, execution, trials, output
<1> QED
    BY <1>1, <1>2, <1>3, <1>4, <1>5 DEF Execute

\* So the accounts stay what they are through every step.
LEMMA AccountsKept ==
    ASSUME EInv, Accounts, [ENext]_evars
    PROVE  Accounts'
<1>1. ASSUME UNCHANGED <<execution, trials, output>>  PROVE Accounts'
    BY <1>1 DEF Accounts, execution, trials, output
<1>2. CASE UNCHANGED evars
    BY <1>1, <1>2 DEF evars
<1> QED
    BY <1>1, <1>2, ExecutionAccounts DEF ENext

\* Type correctness of the experiment, for any trials, executions and ceilings
\* (benchmark.execute).
THEOREM ExperimentTypeCorrect == ESpec => []ETypeOK
<1>1. EInit => Accounts
    BY DEF EInit, Accounts
<1>2. EInv /\ Accounts /\ [ENext]_evars => Accounts'
    BY AccountsKept
<1>3. EInv /\ Accounts => ETypeOK
    BY DEF EInv, Inv, Types, Accounts, ETypeOK
<1> QED
    BY <1>1, <1>2, <1>3, ExperimentInv, PTL DEF ESpec

\* Scores stay comparable with a benchmark among the runs (benchmark.execute,
\* run_generation).
THEOREM ExperimentComparable == ESpec => []MeasuredAgainstStored
<1>1. EInv => MeasuredAgainstStored
    BY DEF EInv, Inv, HeldInv, MeasuredAgainstStored
<1> QED
    BY <1>1, ExperimentInv, PTL

\* A trial is started after its catalog was approved, never makes one, and is
\* measured against what was reviewed (benchmark.execute).
THEOREM OnlyMeasured == ESpec => []TrialsOnlyMeasure
<1>1. EInv => TrialsOnlyMeasure
    <2> SUFFICES ASSUME EInv, NEW t \in launched
                 PROVE  /\ status = "approved" /\ pc[t] \notin {"extract", "save"}
                        /\ evaluation[t] # None => evaluation[t].against.units = approved
        BY DEF TrialsOnlyMeasure
    <2>1. Ready /\ pc[t] \notin {"extract", "save"} /\ t \in Run
        BY OrderFacts DEF EInv, Types, Reviewed
    <2> QED
        BY <2>1 DEF EInv, Inv, HeldInv, Ready
<1> QED
    BY <1>1, ExperimentInv, PTL

\* Trials are bought one after the other, by however many executions
\* (benchmark.execute, run_lease).
THEOREM BoughtInOrder == ESpec => []OneAtATime
<1>1. EInv => OneAtATime
    BY DEF EInv, Bought, Alone, Generates, OneAtATime
<1> QED
    BY <1>1, ExperimentInv, PTL
-----------------------------------------------------------------------------
\* The budget.  What was bought before the n-th trial, at the given costs.
Earlier(n)   == {Order[m] : m \in 1..(n - 1)}
Sum(c, t)    == c[t].generation + c[t].judge
Part(c, n)   == [t \in Trial |-> IF t \in Earlier(n) THEN Sum(c, t) ELSE 0]
Before(c, n) == SumOf(Part(c, n))

\* The n-th trial, at its ceilings, still fits the budget.
Fits(c, n) == Before(c, n) + RunCeiling + JudgeCeiling <= MaxTotal

Costs == [Trial -> [Phase -> Nat]]

\* A trial costs what its ledgers allow, and nothing before it is launched.
Capped == \A t \in Trial, p \in Phase :
    /\ cost[t][p] <= Ceiling[p] + Over[p]
    /\ t \notin launched => cost[t][p] = 0

\* An execution has counted all trials before the one it is at, whoever bought
\* them.
Added == \A x \in Execution : step[x] # "stopped" => spent[x] = Before(cost, at[x])

\* A trial that is launched, or about to be, fitted the budget.
Afforded ==
    /\ \A x \in Execution : step[x] = "launch" => Fits(cost, at[x])
    /\ \A n \in DOMAIN Order : Order[n] \in launched => Fits(cost, n)

\* The experiment ends before the n-th trial: it never fits.
Ended(n) == n \in DOMAIN Order => Order[n] \notin launched /\ ~Fits(cost, n)

Exporting(x) == step[x] \in {"export", "open", "fill", "map", "done"}

\* Who exports is at the end, and a sheet that was filled is of there.
Exported ==
    /\ \A x \in Execution : Exporting(x) => Ended(at[x])
    /\ \A x \in Execution : step[x] \in {"fill", "map", "done"} => sheet # None
    /\ \A x \in Execution : step[x] = "done" => mapping = Suites(x)
    /\ sheet \notin {None, {}} => \E x \in Execution : Ended(at[x]) /\ sheet = Suites(x)

Money == Capped /\ Added /\ Afforded /\ Exported

\* The order is finite.
LEMMA TrialsFinite == IsFiniteSet(Trial)
<1> DEFINE f == [n \in 1..Len(Order) |-> Order[n]]
<1>1. IsFiniteSet(1..Len(Order))
    BY OrderFacts, FS_Interval
<1>2. f \in Surjection(1..Len(Order), Trial)
    BY OrderFacts DEF Surjection, Trial
<1> QED
    BY <1>1, <1>2, FS_Surjection

\* The sums before a trial are numbers, begin with nothing, and grow by what the
\* trial costs.
LEMMA PartSums ==
    ASSUME NEW c \in Costs, NEW n
    PROVE  /\ Summable(Part(c, n)) /\ DOMAIN Part(c, n) = Trial
           /\ Before(c, n) \in Int
<1>1. \A t \in Trial : Sum(c, t) \in Int
    BY DEF Costs, Phase, Sum
<1>2. Summable(Part(c, n)) /\ DOMAIN Part(c, n) = Trial
    BY <1>1, TrialsFinite DEF Summable, Part
<1> QED
    BY <1>2, SumType DEF Before

\* Nothing is bought before the first trial.
LEMMA BeforeFirst == ASSUME NEW c \in Costs PROVE Before(c, 1) = 0
<1>1. Earlier(1) = {}
    BY DEF Earlier
<1>2. Part(c, 1) = [t \in DOMAIN Part(c, 1) |-> 0] /\ DOMAIN Part(c, 1) = Trial
    BY <1>1 DEF Part
<1> QED
    BY <1>2, TrialsFinite, SumZero DEF Before

\* What is bought before the next trial is what was, and this one's cost.
LEMMA BeforeNext ==
    ASSUME NEW c \in Costs, NEW n \in DOMAIN Order
    PROVE  Before(c, n + 1) = Before(c, n) + Sum(c, Order[n])
<1> USE OrderFacts
<1> DEFINE x == Order[n]
<1>1. Earlier(n + 1) = Earlier(n) \cup {x} /\ x \notin Earlier(n) /\ x \in Trial
    <2>1. n \in 1..Len(Order) /\ 1..((n + 1) - 1) = (1..(n - 1)) \cup {n}
        OBVIOUS
    <2>2. \A m \in 1..(n - 1) : m \in DOMAIN Order /\ m # n
        OBVIOUS
    <2> QED
        BY <2>1, <2>2 DEF Earlier
<1>2. \A t \in Trial : t # x => Part(c, n + 1)[t] = Part(c, n)[t]
    BY <1>1 DEF Part
<1>3. Part(c, n + 1)[x] = Sum(c, x) /\ Part(c, n)[x] = 0
    BY <1>1 DEF Part
<1>4. Sum(c, x) \in Int /\ Before(c, n) \in Int
    BY <1>1, PartSums DEF Costs, Phase, Sum
<1>5. Before(c, n + 1) = Before(c, n) + (Part(c, n + 1)[x] - Part(c, n)[x])
    BY <1>1, <1>2, PartSums, SumChange DEF Before
<1>6. Before(c, n + 1) = Before(c, n) + (Sum(c, x) - 0)
    BY <1>3, <1>5
<1> QED
    BY <1>4, <1>6

\* They depend on nothing that comes later ...
LEMMA BeforeAgrees ==
    ASSUME NEW c \in Costs, NEW d \in Costs, NEW n \in 1..(Len(Order) + 1),
           \A m \in DOMAIN Order : m < n => d[Order[m]] = c[Order[m]]
    PROVE  Before(d, n) = Before(c, n)
<1>1. \A t \in Earlier(n) : d[t] = c[t]
    BY OrderFacts DEF Earlier
<1>2. Part(d, n) = Part(c, n)
    BY <1>1 DEF Part, Sum
<1> QED
    BY <1>2 DEF Before

\* ... and are all there is, when what comes later costs nothing.
LEMMA BeforeAll ==
    ASSUME NEW c \in Costs, NEW n \in 1..(Len(Order) + 1),
           \A m \in DOMAIN Order : m >= n => Sum(c, Order[m]) = 0
    PROVE  SumOf([t \in Trial |-> Sum(c, t)]) = Before(c, n)
<1>1. \A t \in Trial : t \notin Earlier(n) => Sum(c, t) = 0
    <2> SUFFICES ASSUME NEW t \in Trial, t \notin Earlier(n)  PROVE Sum(c, t) = 0
        OBVIOUS
    <2>1. PICK m \in DOMAIN Order : t = Order[m]
        BY DEF Trial
    <2>2. m >= n
        BY <2>1, OrderFacts DEF Earlier
    <2> QED
        BY <2>1, <2>2
<1>2. [t \in Trial |-> Sum(c, t)] = Part(c, n)
    BY <1>1 DEF Part
<1> QED
    BY <1>2 DEF Before

-----------------------------------------------------------------------------
\* A trial's row stays what it is.
Same(t) == cost'[t] = cost[t] /\ suite'[t] = suite[t] /\ pc'[t] = pc[t]

\* Whoever generates a trial leaves the rows of the others alone.
LEMMA OnlyItsTrial ==
    ASSUME NEW y \in Execution, EInv, Accounts, Call(y) \/ GenerationEnds(y) \/ TrialJudged(y)
    PROVE  /\ Generates(y) /\ Interrupted(Current(y)) /\ Current(y) \in launched
           /\ UNCHANGED <<execution, launched, output>>
           /\ \A t \in Trial \ {Current(y)} : Same(t)
<1> USE OrderFacts
<1>1. Generates(y) /\ UNCHANGED <<execution, launched, output>>
    BY DEF Call, GenerationEnds, TrialJudged, In, Generates, execution, trials, output
<1>2. Current(y) \in launched /\ Current(y) \in Trial /\ Current(y) \in Run /\ Current(y) \in Writer
    BY <1>1 DEF EInv, Types, Bought, Writer
<1>3. CASE Call(y)
    <2>1. PICK p \in Phase : /\ In(y, p) /\ (p = "judge" => pc[Current(y)] \in {"extract", "evaluate"})
                             /\ \E k \in (cost[Current(y)][p] + 1)..(Ceiling[p] + Over[p]) :
                                    cost' = [cost EXCEPT ![Current(y)][p] = k]
                             /\ UNCHANGED <<vars, suite>>
        BY <1>3 DEF Call
    <2>2. Interrupted(Current(y))
        BY <2>1 DEF In, Phase, Interrupted
    <2>3. \A t \in Trial \ {Current(y)} : cost'[t] = cost[t]
        BY <2>1 DEF Accounts
    <2> QED
        BY <1>1, <1>2, <2>1, <2>2, <2>3 DEF Same, vars
<1>4. CASE GenerationEnds(y)
    <2>1. Interrupted(Current(y))
        BY <1>4 DEF GenerationEnds, In, Interrupted
    <2>2. \A t \in Trial \ {Current(y)} : Same(t)
        BY <1>2, <1>4 DEF GenerationEnds, Goto, Accounts, EInv, Inv, TypeOK, Same, Writer
    <2> QED
        BY <1>1, <1>2, <2>1, <2>2
<1>5. CASE TrialJudged(y)
    <2>1. Judge(Current(y)) /\ UNCHANGED <<suite, cost>>
        BY <1>5 DEF TrialJudged, trials
    <2>2. /\ \A v \in Writer : v # Current(y) => pc'[v] = pc[v]
          /\ pc[Current(y)] # "finalized"
        BY <1>2, <2>1, CatalogMoves DEF EInv
    <2>3. Trial \subseteq Writer
        BY DEF Writer
    <2> QED
        BY <1>1, <1>2, <2>1, <2>2, <2>3 DEF Same, Interrupted
<1> QED
    BY <1>3, <1>4, <1>5

\* So the rows an execution is past, and those before a launched trial, stay.
LEMMA PassedStays ==
    ASSUME EInv, NEW y \in Execution, Generates(y), Interrupted(Current(y)),
           \A t \in Trial \ {Current(y)} : Same(t),
           NEW n, (\E x \in Execution : n = at[x]) \/ (n \in DOMAIN Order /\ Order[n] \in launched),
           NEW m \in DOMAIN Order, m < n
    PROVE  Same(Order[m])
<1> USE OrderFacts
<1>1. n <= at[y] /\ at[y] \in DOMAIN Order /\ n \in 1..(Len(Order) + 1)
    BY DEF EInv, Alone, Types, Placed, AtTrial, Generates
<1>2. Order[m] # Current(y) /\ Order[m] \in Trial
    BY <1>1 DEF Current
<1> QED
    BY <1>2

\* A call is settled within its ledger, of a trial that was launched.
LEMMA CappedKept ==
    ASSUME EInv, Accounts, Capped, [ENext]_evars
    PROVE  Capped'
<1> USE OrderFacts
<1>1. CASE UNCHANGED cost /\ launched \subseteq launched'
    BY <1>1 DEF Capped
<1>2. ASSUME NEW y \in Execution, Call(y)  PROVE Capped'
    <2>1. Current(y) \in launched /\ Current(y) \in Trial /\ UNCHANGED launched
        BY <1>2, OnlyItsTrial DEF EInv, Types
    <2>2. PICK p \in Phase : \E k \in (cost[Current(y)][p] + 1)..(Ceiling[p] + Over[p]) :
                                 cost' = [cost EXCEPT ![Current(y)][p] = k]
        BY <1>2 DEF Call
    <2>3. PICK k \in (cost[Current(y)][p] + 1)..(Ceiling[p] + Over[p]) :
              cost' = [cost EXCEPT ![Current(y)][p] = k]
        BY <2>2
    <2>4. k <= Ceiling[p] + Over[p]
        <3>1. cost[Current(y)][p] \in Nat /\ Ceiling[p] \in Nat /\ Over[p] \in Nat
            BY <2>1, BudgetAssumption DEF Accounts, Ceiling, Phase
        <3> QED
            BY <3>1
    <2>5. ASSUME NEW t \in Trial, NEW q \in Phase
          PROVE  cost'[t][q] = cost[t][q] \/ (t = Current(y) /\ q = p /\ cost'[t][q] = k)
        BY <2>1, <2>3 DEF Accounts
    <2> QED
        BY <2>1, <2>4, <2>5 DEF Capped
<1>3. ASSUME NEW y \in Execution, Execute(y), ~Call(y)  PROVE UNCHANGED cost /\ launched \subseteq launched'
    BY <1>3 DEF Execute, Start, Resume, Gate, Launch, GenerationEnds, TrialJudged, Return, Stops,
                CheckSheet, OpenSheet, FillSheet, WriteMapping, trials, vars
<1>4. CASE UNCHANGED <<execution, trials, output>>
    BY <1>1, <1>4 DEF trials
<1>5. CASE UNCHANGED evars
    BY <1>4, <1>5 DEF evars
<1> QED
    BY <1>1, <1>2, <1>3, <1>4, <1>5 DEF ENext

\* The suites an execution has recorded stay with their rows.
LEMMA SuitesStay ==
    ASSUME EInv, NEW x \in Execution, at'[x] = at[x],
           \A m \in DOMAIN Order : m < at[x] => Same(Order[m])
    PROVE  Suites(x)' = Suites(x)
<1> USE OrderFacts
<1>1. \A m \in 1..(at[x] - 1) : m \in DOMAIN Order /\ m < at[x]
    BY DEF EInv, Types
<1>2. Recorded(x)' = Recorded(x)
    BY DEF Recorded
<1>3. \A t \in Recorded(x) : Same(t)
    BY <1>1 DEF Recorded
<1> QED
    BY <1>2, <1>3 DEF Suites, Same, Interrupted

\* There is one end: two executions at an end are at the same.
LEMMA EndsOnce ==
    ASSUME EInv, NEW x \in Execution, NEW y \in Execution, Ended(at[x]), Ended(at[y])
    PROVE  at[x] = at[y] /\ Suites(x) = Suites(y)
<1> USE OrderFacts
<1>1. at[x] \in 1..(Len(Order) + 1) /\ at[y] \in 1..(Len(Order) + 1)
    BY DEF EInv, Types
<1>2. ~(at[x] < at[y]) /\ ~(at[y] < at[x])
    BY <1>1 DEF EInv, Bought, Ended
<1>3. at[x] = at[y]
    BY <1>1, <1>2
<1> QED
    BY <1>3 DEF Suites, Recorded

\* A step at which the executions stay where they are.
LEMMA QuietKeeps ==
    ASSUME EInv, Accounts, Accounts', Money, Capped', UNCHANGED <<execution, launched, output>>,
           \A n : (\E x \in Execution : n = at[x]) \/ (n \in DOMAIN Order /\ Order[n] \in launched)
                     => \A m \in DOMAIN Order : m < n => Same(Order[m])
    PROVE  Money'
<1> USE OrderFacts
<1>1. UNCHANGED <<at, step, spent, launched, sheet, mapping>>
    BY DEF execution, output
<1>2. ASSUME NEW n \in 1..(Len(Order) + 1),
             (\E x \in Execution : n = at[x]) \/ (n \in DOMAIN Order /\ Order[n] \in launched)
      PROVE  Before(cost', n) = Before(cost, n)
    <2>1. \A m \in DOMAIN Order : m < n => cost'[Order[m]] = cost[Order[m]]
        BY <1>2 DEF Same
    <2>2. cost \in Costs /\ cost' \in Costs
        BY DEF Accounts, Costs
    <2> QED
        BY <2>1, <2>2, BeforeAgrees
<1>3. \A x \in Execution : at[x] \in 1..(Len(Order) + 1) /\ Before(cost', at[x]) = Before(cost, at[x])
    BY <1>2 DEF EInv, Types
<1>4. \A n \in DOMAIN Order : Order[n] \in launched => Before(cost', n) = Before(cost, n)
    BY <1>2
<1>5. \A x \in Execution : Suites(x)' = Suites(x)
    BY <1>1, SuitesStay
<1>6. \A x \in Execution : Ended(at[x])' <=> Ended(at[x])
    BY <1>1, <1>3 DEF Ended, Fits
<1>7. Added'
    BY <1>1, <1>3 DEF Money, Added
<1>8. Afforded'
    BY <1>1, <1>3, <1>4 DEF Money, Afforded, Fits
<1>9. Exported'
    BY <1>1, <1>5, <1>6 DEF Money, Exported, Exporting
<1> QED
    BY <1>7, <1>8, <1>9 DEF Money

\* A step of one execution that buys nothing.
LEMMA OnwardKeeps ==
    ASSUME NEW x \in Execution, NEW s, EInv, Money, Does(x, s),
           UNCHANGED <<vars, at, spent, trials>>,
           s # "stopped" => spent[x] = Before(cost, at[x]),
           s = "launch" => Fits(cost, at[x]),
           s \in {"export", "open", "fill", "map", "done"} => Ended(at[x]),
           s \in {"fill", "map", "done"} \/ sheet # None => sheet' # None,
           \A y \in Execution : step'[y] = "done" => mapping' = Suites(y),
           sheet' \in {None, {}, sheet} \/ (Ended(at[x]) /\ sheet' = Suites(x))
    PROVE  Money'
<1>1. UNCHANGED <<at, spent, launched, suite, cost, pc>>
    BY DEF trials, vars
<1>2. \A y \in Execution : step'[y] = step[y] \/ (y = x /\ step'[y] = s)
    BY DEF Does, EInv, Types
<1>3. \A y \in Execution : Suites(y)' = Suites(y) /\ (Ended(at[y])' <=> Ended(at[y]))
    BY <1>1 DEF Suites, Recorded, Interrupted, Ended, Fits
<1>4. Capped'
    BY <1>1 DEF Money, Capped
<1>5. Added'
    BY <1>1, <1>2 DEF Money, Added
<1>6. Afforded'
    BY <1>1, <1>2 DEF Money, Afforded, Fits
<1>7. Exported'
    <2>1. \A y \in Execution : Exporting(y)' => Ended(at[y])'
        BY <1>2, <1>3 DEF Money, Exported, Exporting
    <2>2. \A y \in Execution : step'[y] \in {"fill", "map", "done"} => sheet' # None
        BY <1>2 DEF Money, Exported
    <2>3. sheet' \notin {None, {}} => \E y \in Execution : Ended(at[y])' /\ sheet' = Suites(y)'
        BY <1>3 DEF Money, Exported
    <2> QED
        BY <1>1, <1>3, <2>1, <2>2, <2>3 DEF Exported
<1> QED
    BY <1>4, <1>5, <1>6, <1>7 DEF Money

\* The trial's row is counted: the experiment goes on, or is at its end.
LEMMA RowKeeps ==
    ASSUME NEW x \in Execution, EInv, Accounts, Money, AtTrial(x), Current(x) \in launched,
           Record(x, Counted(x)), UNCHANGED <<vars, trials, output>>
    PROVE  Money'
<1> USE OrderFacts
<1>1. UNCHANGED <<launched, suite, cost, pc, sheet, mapping>>
    BY DEF trials, vars, output
<1>2. at[x] \in DOMAIN Order /\ at[x] \in Nat /\ Current(x) = Order[at[x]]
    BY DEF EInv, Placed, Current
<1>3. \A y \in Execution : y # x => at'[y] = at[y] /\ step'[y] = step[y] /\ spent'[y] = spent[y]
    BY DEF Record, Does, EInv, Types, Accounts
<1>4. /\ at'[x] = at[x] + 1 /\ spent'[x] = Counted(x)
      /\ step'[x] = IF Counted(x) > MaxTotal \/ at[x] = Len(Order) THEN "export" ELSE "load"
    BY DEF Record, Does, EInv, Types, Accounts
<1>5. Counted(x) = Before(cost, at[x] + 1)
    <2>1. spent[x] = Before(cost, at[x])
        BY DEF Money, Added, AtTrial
    <2>2. Before(cost, at[x] + 1) = Before(cost, at[x]) + Sum(cost, Current(x))
        BY <1>2, BeforeNext DEF Accounts, Costs
    <2> QED
        BY <2>1, <2>2 DEF Counted, Charged, Sum
<1>6. \A y \in Execution : y # x => Suites(y)' = Suites(y) /\ (Ended(at[y])' <=> Ended(at[y]))
    BY <1>1, <1>3 DEF Suites, Recorded, Interrupted, Ended, Fits
<1>7. ~Ended(at[x])
    BY <1>2 DEF Ended
<1>8. step'[x] = "export" => Ended(at[x])'
    <2> SUFFICES ASSUME step'[x] = "export", at[x] + 1 \in DOMAIN Order
                 PROVE  Order[at[x] + 1] \notin launched /\ ~Fits(cost, at[x] + 1)
        BY <1>1, <1>4 DEF Ended, Fits
    <2>1. Before(cost, at[x] + 1) > MaxTotal
        BY <1>2, <1>4, <1>5
    <2>2. ~Fits(cost, at[x] + 1)
        <3>1. Before(cost, at[x] + 1) \in Int
            BY PartSums DEF Accounts, Costs
        <3> QED
            BY <2>1, <3>1, BudgetAssumption DEF Fits
    <2> QED
        BY <2>2 DEF Money, Afforded
<1>9. Capped'
    BY <1>1 DEF Money, Capped
<1>10. Added'
    <2>1. spent'[x] = Before(cost', at'[x])
        BY <1>1, <1>4, <1>5
    <2> QED
        BY <1>1, <1>3, <2>1 DEF Money, Added
<1>11. Afforded'
    BY <1>1, <1>3, <1>4 DEF Money, Afforded, Fits
<1>12. Exported'
    <2>1. \A y \in Execution : Exporting(y)' => Ended(at[y])'
        BY <1>3, <1>4, <1>6, <1>8 DEF Money, Exported, Exporting
    <2>2. \A y \in Execution : step'[y] \in {"fill", "map", "done"} => sheet' # None
        BY <1>1, <1>3, <1>4 DEF Money, Exported
    <2>3. \A y \in Execution : step'[y] = "done" => mapping' = Suites(y)'
        BY <1>1, <1>3, <1>4, <1>6 DEF Money, Exported
    <2>4. sheet' \notin {None, {}} => \E y \in Execution : Ended(at[y])' /\ sheet' = Suites(y)'
        BY <1>1, <1>6, <1>7 DEF Money, Exported
    <2> QED
        BY <2>1, <2>2, <2>3, <2>4 DEF Exported
<1> QED
    BY <1>9, <1>10, <1>11, <1>12 DEF Money

\* A trial is launched that fits: the experiment was not at its end.
LEMMA BuyingKeeps ==
    ASSUME NEW x \in Execution, EInv, Accounts, Money, step[x] = "launch",
           launched' = launched \cup {Current(x)}, Does(x, "generate"),
           UNCHANGED <<vars, at, spent, suite, cost, output>>
    PROVE  Money'
<1> USE OrderFacts
<1>1. UNCHANGED <<pc, sheet, mapping>>
    BY DEF vars, output
<1>2. at[x] \in DOMAIN Order /\ Current(x) = Order[at[x]] /\ Fits(cost, at[x])
    BY DEF EInv, Placed, AtTrial, Current, Money, Afforded
<1>3. \A y \in Execution : step'[y] = step[y] \/ (y = x /\ step'[y] = "generate")
    BY DEF Does, EInv, Types
<1>4. \A y \in Execution : Suites(y)' = Suites(y)
    BY <1>1 DEF Suites, Recorded, Interrupted
<1>5. \A y \in Execution : Ended(at[y]) => Ended(at[y])'
    BY <1>2 DEF Ended, Fits
<1>6. Capped'
    BY DEF Money, Capped
<1>7. Added'
    BY <1>3 DEF Money, Added
<1>8. Afforded'
    <2>1. \A n \in DOMAIN Order : Order[n] \in launched' => Fits(cost, n)
        BY <1>2 DEF Money, Afforded
    <2> QED
        BY <1>3, <2>1 DEF Money, Afforded, Fits
<1>9. Exported'
    <2>1. \A y \in Execution : Exporting(y)' => Ended(at[y])'
        BY <1>3, <1>5 DEF Money, Exported, Exporting
    <2>2. \A y \in Execution : step'[y] \in {"fill", "map", "done"} => sheet' # None
        BY <1>1, <1>3 DEF Money, Exported
    <2>3. \A y \in Execution : step'[y] = "done" => mapping' = Suites(y)'
        BY <1>1, <1>3, <1>4 DEF Money, Exported
    <2>4. sheet' \notin {None, {}} => \E y \in Execution : Ended(at[y])' /\ sheet' = Suites(y)'
        BY <1>1, <1>4, <1>5 DEF Money, Exported
    <2> QED
        BY <2>1, <2>2, <2>3, <2>4 DEF Exported
<1> QED
    BY <1>6, <1>7, <1>8, <1>9 DEF Money

\* Every step of an execution that stays with its trial's row.
LEMMA ExecutionMoney ==
    ASSUME NEW x \in Execution, EInv, Accounts, Accounts', Money, Capped', Execute(x)
    PROVE  Money'
<1> USE OrderFacts
<1>1. ASSUME NEW s, Does(x, s), s # "done"  PROVE \A y \in Execution : step'[y] = "done" => step[y] = "done"
    BY <1>1 DEF Does, EInv, Types
<1>2. step[x] # "stopped" => spent[x] = Before(cost, at[x])
    BY DEF Money, Added
<1>3. CASE Start(x)
    <2>1. PICK s \in {"stopped", "export", "load"} :
              Does(x, s) /\ (s = "export" => Order = <<>>)
        BY <1>3 DEF Start
    <2>2. step[x] = "start" /\ UNCHANGED <<vars, at, spent, trials, output>>
        BY <1>3 DEF Start
    <2>3. s = "export" => Ended(at[x])
        BY <2>1 DEF Ended
    <2>4. \A y \in Execution : step'[y] = "done" => mapping' = Suites(y)
        BY <1>1, <2>1, <2>2 DEF Money, Exported, output
    <2> QED
        BY <1>2, <2>1, <2>2, <2>3, <2>4, OnwardKeeps DEF output
<1>4. CASE Resume(x)
    <2>1. step[x] = "load" /\ Current(x) \in launched /\ UNCHANGED <<vars, trials, output>>
        BY <1>4 DEF Resume
    <2>2. CASE Record(x, Counted(x))
        BY <2>1, <2>2, RowKeeps DEF AtTrial
    <2>3. CASE Does(x, "stopped") /\ spent' = [spent EXCEPT ![x] = Counted(x)] /\ UNCHANGED at
        <3>1. \A y \in Execution : y # x => spent'[y] = spent[y] /\ step'[y] = step[y]
            BY <2>3 DEF Does, Accounts, EInv, Types
        <3>2. step'[x] = "stopped"
            BY <2>3 DEF Does, EInv, Types
        <3>3. \A y \in Execution : Suites(y)' = Suites(y) /\ (Ended(at[y])' <=> Ended(at[y]))
            BY <2>1, <2>3 DEF Suites, Recorded, Interrupted, Ended, Fits, trials, vars
        <3>4. Capped' /\ Added' /\ Afforded'
            BY <2>1, <2>3, <3>1, <3>2 DEF Money, Capped, Added, Afforded, Fits, trials
        <3>5. Exported'
            BY <2>1, <2>3, <3>1, <3>2, <3>3 DEF Money, Exported, Exporting, output
        <3> QED
            BY <3>4, <3>5 DEF Money
    <2> QED
        BY <1>4, <2>2, <2>3 DEF Resume
<1>5. CASE Gate(x)
    <2>1. step[x] = "load" /\ Current(x) \notin launched /\ UNCHANGED <<vars, at, spent, trials, output>>
        BY <1>5 DEF Gate
    <2>2. PICK s \in {"launch", "export"} : Does(x, s) /\ (s = "launch" <=> Affords(x))
        BY <1>5 DEF Gate
    <2>3. Affords(x) <=> Fits(cost, at[x])
        BY <1>2, <2>1 DEF Affords, Fits
    <2>4. s = "export" => Ended(at[x])
        BY <2>1, <2>2, <2>3 DEF Ended, Current
    <2>5. \A y \in Execution : step'[y] = "done" => mapping' = Suites(y)
        BY <1>1, <2>1, <2>2 DEF Money, Exported, output
    <2> QED
        BY <1>2, <2>1, <2>2, <2>3, <2>4, <2>5, OnwardKeeps DEF output
<1>6. CASE Launch(x)
    <2>1. step[x] = "launch" /\ UNCHANGED <<vars, suite, cost, output>>
        BY <1>6 DEF Launch
    <2>2. CASE Does(x, "stopped") /\ UNCHANGED <<at, spent, launched>>
        <3>1. \A y \in Execution : step'[y] = "done" => mapping' = Suites(y)
            BY <1>1, <2>1, <2>2 DEF Money, Exported, output
        <3> QED
            BY <2>1, <2>2, <3>1, OnwardKeeps DEF output, trials
    <2>3. CASE Current(x) \in launched /\ Record(x, Counted(x)) /\ UNCHANGED launched
        BY <2>1, <2>3, RowKeeps DEF AtTrial, trials
    <2>4. CASE launched' = launched \cup {Current(x)} /\ Does(x, "generate") /\ UNCHANGED <<at, spent>>
        BY <2>1, <2>4, BuyingKeeps
    <2> QED
        BY <1>6, <2>2, <2>3, <2>4 DEF Launch
<1>7. CASE Call(x) \/ GenerationEnds(x) \/ TrialJudged(x)
    <2>1. /\ Generates(x) /\ Interrupted(Current(x))
          /\ UNCHANGED <<execution, launched, output>>
          /\ \A t \in Trial \ {Current(x)} : Same(t)
        BY <1>7, OnlyItsTrial
    <2>2. \A n : (\E y \in Execution : n = at[y]) \/ (n \in DOMAIN Order /\ Order[n] \in launched)
                    => \A m \in DOMAIN Order : m < n => Same(Order[m])
        BY <2>1, PassedStays
    <2> QED
        BY <2>1, <2>2, QuietKeeps
<1>8. CASE Return(x)
    <2>1. /\ Generates(x) /\ Record(x, Counted(x)) /\ UNCHANGED <<vars, trials, output>>
        BY <1>8 DEF Return, Generates
    <2>2. Current(x) \in launched /\ AtTrial(x)
        BY <2>1 DEF EInv, Bought, AtTrial, Generates
    <2> QED
        BY <2>1, <2>2, RowKeeps
<1>9. CASE Stops(x)
    <2>1. Does(x, "stopped") /\ UNCHANGED <<vars, at, spent, trials, output>>
        BY <1>9 DEF Stops
    <2>2. \A y \in Execution : step'[y] = "done" => mapping' = Suites(y)
        BY <1>1, <2>1 DEF Money, Exported, output
    <2> QED
        BY <2>1, <2>2, OnwardKeeps DEF output
<1>10. CASE CheckSheet(x)
    <2>1. PICK s \in {"open", "map"} : Does(x, s) /\ (s = "open" <=> sheet = None)
        BY <1>10 DEF CheckSheet
    <2>2. step[x] = "export" /\ UNCHANGED <<vars, at, spent, trials, output>>
        BY <1>10 DEF CheckSheet
    <2>3. Ended(at[x])
        BY <2>2 DEF Money, Exported, Exporting
    <2>4. \A y \in Execution : step'[y] = "done" => mapping' = Suites(y)
        BY <1>1, <2>1, <2>2 DEF Money, Exported, output
    <2> QED
        BY <1>2, <2>1, <2>2, <2>3, <2>4, OnwardKeeps DEF output
<1>11. CASE OpenSheet(x) \/ FillSheet(x)
    <2>1. PICK s \in {"fill", "map"} : Does(x, s)
        BY <1>11 DEF OpenSheet, FillSheet
    <2>2. /\ step[x] \in {"open", "fill"} /\ sheet' \in {{}, Suites(x)} /\ UNCHANGED mapping
          /\ UNCHANGED <<vars, at, spent, trials>>
        BY <1>11 DEF OpenSheet, FillSheet
    <2>3. Ended(at[x])
        BY <2>2 DEF Money, Exported, Exporting
    <2>4. \A y \in Execution : step'[y] = "done" => mapping' = Suites(y)
        BY <1>1, <2>1, <2>2 DEF Money, Exported
    <2>5. sheet' # None
        BY <2>2, Counting, SheetAssumption
    <2> QED
        BY <1>2, <2>1, <2>2, <2>3, <2>4, <2>5, OnwardKeeps
<1>12. CASE WriteMapping(x)
    <2>1. /\ step[x] = "map" /\ Does(x, "done") /\ mapping' = Suites(x) /\ UNCHANGED sheet
          /\ UNCHANGED <<vars, at, spent, trials>>
        BY <1>12 DEF WriteMapping
    <2>2. Ended(at[x]) /\ sheet # None
        BY <2>1 DEF Money, Exported, Exporting
    <2>3. ASSUME NEW y \in Execution, step'[y] = "done"  PROVE mapping' = Suites(y)
        <3>1. y = x \/ step[y] = "done"
            BY <2>1, <2>3 DEF Does, EInv, Types
        <3>2. Ended(at[y])
            BY <2>2, <3>1 DEF Money, Exported, Exporting
        <3> QED
            BY <2>1, <2>2, <3>2, EndsOnce
    <2> QED
        BY <1>2, <2>1, <2>2, <2>3, OnwardKeeps
<1> QED
    BY <1>3, <1>4, <1>5, <1>6, <1>7, <1>8, <1>9, <1>10, <1>11, <1>12 DEF Execute

\* The invariant of the budget and of what is exported.
LEMMA MoneyInv == ESpec => [](EInv /\ Accounts /\ Money)
<1> USE OrderFacts
<1>1. EInit => Accounts /\ Money
    <2> SUFFICES ASSUME EInit  PROVE Accounts /\ Money
        OBVIOUS
    <2>1. Accounts
        BY DEF EInit, Accounts
    <2>2. Capped
        BY BudgetAssumption DEF EInit, Capped, Ceiling, Phase
    <2>3. Added /\ Afforded
        BY <2>1, BeforeFirst DEF EInit, Added, Afforded, Accounts, Costs
    <2>4. Exported
        BY DEF EInit, Exported, Exporting
    <2> QED
        BY <2>1, <2>2, <2>3, <2>4 DEF Money
<1>2. EInv /\ EInv' /\ Accounts /\ Accounts' /\ Money /\ [ENext]_evars => Money'
    <2> SUFFICES ASSUME EInv, EInv', Accounts, Accounts', Money, [ENext]_evars  PROVE Money'
        OBVIOUS
    <2>1. Capped'
        BY CappedKept DEF Money
    <2>2. ASSUME UNCHANGED <<execution, trials, output>>, \A t \in Trial : pc'[t] = pc[t]  PROVE Money'
        <3>1. UNCHANGED <<execution, launched, output>> /\ \A t \in Trial : Same(t)
            BY <2>2 DEF trials, Same
        <3> QED
            BY <2>1, <3>1, QuietKeeps
    <2>3. ASSUME NEW w \in Writer, w \notin Trial, (w \in Run /\ Judge(w)) \/ (w \in Importer /\ Import(w))
          PROVE  \A t \in Trial : pc'[t] = pc[t]
        BY <2>3, CatalogMoves DEF EInv, Writer
    <2>4. ASSUME NEW r \in Run \ Trial, Judge(r), UNCHANGED <<execution, trials, output>>  PROVE Money'
        BY <2>2, <2>3, <2>4 DEF Writer
    <2>5. ASSUME NEW i \in Importer, Import(i), UNCHANGED <<execution, trials, output>>  PROVE Money'
        BY <2>2, <2>3, <2>5, WriterAssumption DEF Writer
    <2>6. ASSUME ShowCatalog \/ ApproveShown, UNCHANGED <<execution, trials, output>>  PROVE Money'
        BY <2>2, <2>6 DEF ShowCatalog, ApproveShown
    <2>7. CASE UNCHANGED evars
        BY <2>2, <2>7 DEF evars, vars
    <2> QED
        BY <2>1, <2>4, <2>5, <2>6, <2>7, ExecutionMoney DEF ENext
<1>3. EInv /\ Accounts /\ [ENext]_evars => Accounts'
    BY AccountsKept
<1> QED
    BY <1>1, <1>2, <1>3, ExperimentInv, PTL DEF ESpec

\* All executions together, however often they die, keep the experiment's
\* budget, but for what the ledgers of one trial may be settled above their
\* ceilings (benchmark.execute): every trial that was launched fitted it with
\* both its ceilings, and only the last one launched is not yet counted.
THEOREM BudgetHolds == ESpec => []BudgetKept
<1> USE OrderFacts
<1>1. EInv /\ Accounts /\ Money => BudgetKept
    <2> SUFFICES ASSUME EInv, Accounts, Money  PROVE BudgetKept
        OBVIOUS
    <2>1. cost \in Costs
        BY DEF Accounts, Costs
    <2> DEFINE all == SumOf([t \in Trial |-> Sum(cost, t)])
    <2>2. SUFFICES all <= MaxTotal + Over.generation + Over.judge
        BY Zenon DEF BudgetKept, SumOf, Sum, Charged
    <2>3. MaxTotal \in Nat /\ RunCeiling \in Nat /\ JudgeCeiling \in Nat
          /\ Over.generation \in Nat /\ Over.judge \in Nat
        BY BudgetAssumption DEF Phase
    <2>4. \A t \in Trial : t \notin launched => Sum(cost, t) = 0
        BY DEF Money, Capped, Phase, Sum
    <2>5. CASE launched = {}
        <3>1. all = Before(cost, 1)
            BY <2>1, <2>4, <2>5, BeforeAll
        <3> QED
            BY <2>1, <2>3, <3>1, BeforeFirst
    <2>6. CASE launched # {}
        <3> DEFINE T == {n \in DOMAIN Order : Order[n] \in launched}
                   D == {Len(Order) - n : n \in T}
        <3>1. T # {}
            BY <2>6 DEF EInv, Types, Trial
        <3>2. PICK n \in T : \A m \in T : m <= n
            <4>1. D \in SUBSET Nat /\ D # {}
                BY <3>1
            <4>2. PICK d \in D : \A e \in D : d <= e
                BY <4>1, Least
            <4>3. PICK n \in T : d = Len(Order) - n
                BY <4>2
            <4>4. ASSUME NEW m \in T  PROVE m <= n
                <5>1. Len(Order) - m \in D /\ m \in Int /\ n \in Int /\ Len(Order) \in Int
                    OBVIOUS
                <5>2. Len(Order) - n <= Len(Order) - m
                    BY <4>2, <4>3, <5>1
                <5> HIDE DEF T, D
                <5> QED
                    BY <5>1, <5>2
            <4> QED
                BY <4>4
        <3>3. n \in DOMAIN Order /\ Order[n] \in launched /\ Order[n] \in Trial /\ n + 1 \in 1..(Len(Order) + 1)
            OBVIOUS
        <3>4. \A m \in DOMAIN Order : m >= n + 1 => Sum(cost, Order[m]) = 0
            BY <2>4, <3>2
        <3>5. all = Before(cost, n + 1)
            BY <2>1, <3>3, <3>4, BeforeAll
        <3>6. Before(cost, n + 1) = Before(cost, n) + Sum(cost, Order[n])
            BY <2>1, <3>3, BeforeNext
        <3>7. Before(cost, n) + RunCeiling + JudgeCeiling <= MaxTotal
            BY <3>3 DEF Money, Afforded, Fits
        <3>8. /\ cost[Order[n]].generation <= RunCeiling + Over.generation
              /\ cost[Order[n]].judge <= JudgeCeiling + Over.judge
              /\ cost[Order[n]].generation \in Nat /\ cost[Order[n]].judge \in Nat
            BY <3>3 DEF Money, Capped, Ceiling, Phase, Accounts
        <3>9. Before(cost, n) \in Int
            BY <2>1, PartSums
        <3> DEFINE g == cost[Order[n]].generation
                   j == cost[Order[n]].judge
                   b == Before(cost, n)
        <3>10. all = b + (g + j)
            BY <3>5, <3>6 DEF Sum
        <3>11. b + RunCeiling + JudgeCeiling <= MaxTotal /\ b \in Int
               /\ g <= RunCeiling + Over.generation /\ j <= JudgeCeiling + Over.judge /\ g \in Nat /\ j \in Nat
            BY <3>7, <3>8, <3>9
        <3> HIDE DEF g, j, b, all
        <3> QED
            BY <2>3, <3>10, <3>11
    <2> QED
        BY <2>5, <2>6
<1> QED
    BY <1>1, MoneyInv, PTL

\* However often the command was stopped and started, executions that finish
\* report the same trials at the same cost, and their rating sheet and its
\* mapping go together (benchmark.execute, export_blind).
THEOREM SameReport == ESpec => []Reproducible
<1>1. EInv /\ Accounts /\ Money => Reproducible
    <2> SUFFICES ASSUME EInv, Accounts, Money,
                        NEW x \in Execution, NEW y \in Execution, step[x] = "done", step[y] = "done"
                 PROVE  /\ at[x] = at[y] /\ spent[x] = spent[y]
                        /\ mapping = Suites(x)
                        /\ sheet \in {{}, mapping}
        BY DEF Reproducible
    <2>1. Ended(at[x]) /\ Ended(at[y]) /\ mapping = Suites(x) /\ sheet # None
        BY DEF Money, Exported, Exporting
    <2>2. at[x] = at[y]
        BY <2>1, EndsOnce
    <2>3. spent[x] = spent[y]
        BY <2>2 DEF Money, Added
    <2>4. ASSUME sheet # {}  PROVE sheet = mapping
        <3>1. PICK z \in Execution : Ended(at[z]) /\ sheet = Suites(z)
            BY <2>1, <2>4 DEF Money, Exported
        <3> QED
            BY <2>1, <3>1, EndsOnce
    <2> QED
        BY <2>1, <2>2, <2>3, <2>4
<1> QED
    BY <1>1, MoneyInv, PTL
=============================================================================
