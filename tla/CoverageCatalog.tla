--------------------------- MODULE CoverageCatalog ---------------------------
(***************************************************************************)
(* The coverage catalog of one document and evaluator version: the judge   *)
(* of the first run to reach it extracts it, every later run is measured   *)
(* against the stored one, and a reviewer approves it.  Runs reach their   *)
(* judge in any order, each with its own connection (runner.py,            *)
(* storage.py, benchmark.import_catalog).                                  *)
(***************************************************************************)
EXTENDS Integers

CONSTANTS
    Run,       \* runs of the document that have generated their suite
    Importer,  \* executions of the import-catalog command
    Units,     \* the unit lists an extraction or an annotator may produce
    ErrorsFit, \* whether the judge's error messages have 1 to 2,000 characters
    None

ASSUME WriterAssumption == Run \cap Importer = {}
ASSUME UnitsAssumption  == None \notin Units /\ Units # {}
ASSUME ErrorsAssumption == ErrorsFit \in BOOLEAN

Writer == Run \cup Importer

\* Each writer stamps its catalog with a created_at of its own, so the writer
\* stands for it; the identifier is derived from document and version.
Catalog == [writer : Writer, units : Units]
ASSUME NoneAssumption == None \notin Catalog

VARIABLES
    stored,     \* the row of coverage_catalogs
    status,     \* its status column
    pc,         \* of each writer
    catalog,    \* its local `catalog`
    evaluation, \* of each run: the outcome and what it was measured against
    shown,      \* what the reviewer is looking at
    approved    \* the units that were approved (history)

review == <<shown, approved>>
vars   == <<stored, status, pc, catalog, evaluation, review>>

Evaluation == [outcome : {"completed", "failed"}, against : Catalog]

Goto(w, p)     == pc' = [pc EXCEPT ![w] = p]
Holds(w, c)    == catalog' = [catalog EXCEPT ![w] = c]
Outcome(r, e)  == evaluation' = [evaluation EXCEPT ![r] = e]

Init ==
    /\ stored = None
    /\ status = "absent"
    /\ pc = [w \in Writer |-> IF w \in Run THEN "load" ELSE "import"]
    /\ catalog = [w \in Writer |-> None]
    /\ evaluation = [r \in Run |-> None]
    /\ shown = None
    /\ approved = None

-----------------------------------------------------------------------------
(* The judge of a run (run_generation, after the suite is generated) *)

LoadCatalog(r) ==
    /\ pc[r] = "load"
    /\ Holds(r, stored)
    /\ Goto(r, IF stored = None THEN "extract" ELSE "evaluate")
    /\ UNCHANGED <<stored, status, evaluation, review>>

ExtractCatalog(r) ==
    /\ pc[r] = "extract"
    /\ \E u \in Units : Holds(r, [writer |-> r, units |-> u])
    /\ Goto(r, "save")
    /\ UNCHANGED <<stored, status, evaluation, review>>

\* The judge cannot be configured, or its extraction fails: without a catalog
\* there is no evaluation to record, and the run is finalized all the same.
ExtractionFails(r) ==
    /\ pc[r] = "extract"
    /\ Goto(r, "finalize")
    /\ UNCHANGED <<stored, status, catalog, evaluation, review>>

\* Variant: ON CONFLICT DO UPDATE.
Inserted_updates(w) == stored' = catalog[w]

\* INSERT ... ON CONFLICT DO NOTHING, then the stored row.
Inserted(w) == stored' = IF stored = None THEN catalog[w] ELSE stored

\* Another writer's row is there: its created_at is not this one's, so
\* save_coverage_catalog raises ImmutableRunError.
Rejected(w) == stored' # catalog[w]

Marked == status' = IF stored = None THEN "machine_frozen" ELSE status

\* ImmutableRunError is neither among the judge's errors nor does it have a
\* failure category: it leaves the run running.
SaveCatalog(r) ==
    /\ pc[r] = "save"
    /\ Inserted(r)
    /\ Marked
    /\ IF Rejected(r)
       THEN Goto(r, "abandoned") /\ UNCHANGED catalog
       ELSE Goto(r, "evaluate") /\ Holds(r, stored')
    /\ UNCHANGED <<evaluation, review>>

Evaluate(r) ==
    /\ pc[r] = "evaluate"
    /\ \E o \in {"completed", "failed"} :
           Outcome(r, [outcome |-> o, against |-> catalog[r]])
    /\ Goto(r, "finalize")
    /\ UNCHANGED <<stored, status, catalog, review>>

\* The judge fails and its message is blank or too long for the evaluation that
\* was to hold it: CoverageEvaluation refuses it inside the handler.
MessageRefused(r) ==
    /\ ~ErrorsFit
    /\ pc[r] = "evaluate"
    /\ Goto(r, "abandoned")
    /\ UNCHANGED <<stored, status, catalog, evaluation, review>>

\* The evaluation is inserted with the run's other rows.
Finalize(r) ==
    /\ pc[r] = "finalize"
    /\ Goto(r, "finalized")
    /\ UNCHANGED <<stored, status, catalog, evaluation, review>>

-----------------------------------------------------------------------------
(* The import-catalog command: an annotator's units, approved or as a draft *)

ImportRefused(i) == Goto(i, "refused") /\ UNCHANGED catalog

Approving(i, p) == Goto(i, "approve") \/ Goto(i, p)

ImportLoad(i) ==
    /\ pc[i] = "import"
    /\ \E u \in Units :
           \/ /\ stored = None
              /\ Holds(i, [writer |-> i, units |-> u])
              /\ Goto(i, "importSave")
           \/ /\ stored # None
              /\ IF stored.units # u
                 THEN ImportRefused(i)
                 ELSE Holds(i, stored) /\ Approving(i, "imported")
    /\ UNCHANGED <<stored, status, evaluation, review>>

ImportSave(i) ==
    /\ pc[i] = "importSave"
    /\ Inserted(i)
    /\ Marked
    /\ IF Rejected(i)
       THEN ImportRefused(i)
       ELSE Holds(i, stored') /\ Approving(i, "imported")
    /\ UNCHANGED <<evaluation, review>>

\* approve_coverage_catalog: only a frozen row is changed, an approved one is
\* returned as it is.
Approved(units) ==
    /\ status' = "approved"
    /\ approved' = IF status = "machine_frozen" THEN units ELSE approved

ImportApprove(i) ==
    /\ pc[i] = "approve"
    /\ Approved(catalog[i].units)
    /\ Goto(i, "imported")
    /\ UNCHANGED <<stored, catalog, evaluation, shown>>

-----------------------------------------------------------------------------
(* The reviewer, in the app: the page shows a frozen catalog and its button  *)
(* approves by identifier, however long after.                               *)

ShowCatalog ==
    /\ stored # None
    /\ status = "machine_frozen"
    /\ shown' = stored
    /\ UNCHANGED <<stored, status, pc, catalog, evaluation, approved>>

ApproveShown ==
    /\ shown # None
    /\ Approved(shown.units)
    /\ shown' = None
    /\ UNCHANGED <<stored, pc, catalog, evaluation>>

-----------------------------------------------------------------------------
Judge(r) == \/ LoadCatalog(r)  \/ ExtractCatalog(r) \/ ExtractionFails(r)
            \/ SaveCatalog(r)  \/ Evaluate(r)       \/ MessageRefused(r)
            \/ Finalize(r)

Import(i) == ImportLoad(i) \/ ImportSave(i) \/ ImportApprove(i)

Next == \/ \E r \in Run : Judge(r)
        \/ \E i \in Importer : Import(i)
        \/ ShowCatalog
        \/ ApproveShown

Spec == Init /\ [][Next]_vars

-----------------------------------------------------------------------------
(* Properties *)

\* Every variable has its type; a row has a status.
TypeOK ==
    /\ stored \in Catalog \cup {None}
    /\ status \in {"absent", "machine_frozen", "approved"}
    /\ (status = "absent") <=> (stored = None)
    /\ pc \in [Writer -> {"load", "extract", "save", "evaluate", "finalize",
                          "finalized", "abandoned", "import", "importSave",
                          "approve", "imported", "refused"}]
    /\ catalog \in [Writer -> Catalog \cup {None}]
    /\ evaluation \in [Run -> Evaluation \cup {None}]
    /\ shown \in Catalog \cup {None}
    /\ approved \in Units \cup {None}

\* Whatever the order in which runs extract, save and score, every score of a
\* document was measured against the one catalog its row names.
MeasuredAgainstStored ==
    \A r \in Run : evaluation[r] # None => evaluation[r].against = stored

\* What stands approved is what its reviewer read, however late the button was
\* pressed.
ApprovedAsReviewed == status = "approved" => approved = stored.units

\* Failures of the judge leave the finished suite alone: its run is finalized.
NoRunAbandoned == \A r \in Run : pc[r] # "abandoned"
=============================================================================
