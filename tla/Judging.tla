------------------------------- MODULE Judging -------------------------------
\* The judge of a suite (coverage.py): the catalog of units is extracted from
\* the document group by group unless one is stored (_bounded_catalog); then
\* every test case is put to the judge with every unit, in tasks of a few of
\* each, and the answers make one score (_bounded_evaluation, compute_f1).
\*
\* A unit's id is its place in the catalog; what it states, with its evidence,
\* is a number.  CoverageCatalog has the races for the catalog's row, and
\* BoundedTask the inside of a task.
EXTENDS Pipeline

CONSTANTS
    StoredCatalogs,  \* catalogs an earlier run may have left
    Statements,      \* what a unit may state
    CatalogTasks,    \* groups of chunks to extract from
    UnitBatch,       \* units of one evaluation task (100)
    CaseBatch        \* test cases of one evaluation task (48)

ASSUME JudgingAssumption ==
    /\ \A c \in StoredCatalogs : c \in Seq(Statements) \ {<<>>} /\ \A i, j \in DOMAIN c : c[i] = c[j] => i = j
    /\ CatalogTasks \in Nat /\ UnitBatch \in Nat \ {0} /\ CaseBatch \in Nat \ {0}

VARIABLES
    units,      \* of the catalog, in order: what each states
    extracted,  \* extraction tasks that ended
    stated,     \* every statement the document was found to make (history)
    mappings,   \* of each test case id, the units it exercises so far
    current,    \* the units the current tasks ask about
    tried,      \* how many test cases were put to the judge with these units
    verdicts,   \* each answer: test case, statement, whether it exercises it (history)
    score       \* the CoverageScore, or None

judging == <<units, extracted, stated, mappings, current, tried, verdicts, score>>

InitJudging ==
    /\ units = <<>> /\ extracted = 0 /\ stated = {}
    /\ mappings = <<>> /\ current = {} /\ tried = 0 /\ verdicts = {} /\ score = None

\* The first units of those after a number of them, as one group.
UnitGroups(catalog, after) ==
    {ToSet(group) : group \in FirstGroups([i \in 1..(Len(catalog) - after) |-> after + i], UnitBatch)}
-----------------------------------------------------------------------------
\* Against each other, units of the same statement are duplicates; batches are
\* numbered locally, and a unit that stays gets the next number.
\* Variant: each batch's duplicates only are dropped.
Extend_batch(catalog, batch) == catalog \o SetToSeq(ToSet(batch))

Extend(catalog, batch) ==
    FoldLeft(LAMBDA sofar, unit : IF unit \in ToSet(sofar) THEN sofar ELSE Append(sofar, unit), catalog, batch)

StartEvaluation(catalog) ==
    /\ step' = "evaluate"
    /\ mappings' = [id \in Ids(bundle.tests) |-> {}]
    /\ tried' = 0 /\ current' \in UnitGroups(catalog, 0)
    /\ UNCHANGED <<profile, rows, bundle, draft, verdicts, score>>

LoadUnits ==
    /\ step = "judge" /\ extracted = 0
    /\ units' \in StoredCatalogs /\ stated' = ToSet(units')
    /\ StartEvaluation(units')
    /\ UNCHANGED extracted

ExtractUnits ==
    /\ step = "judge" /\ extracted < CatalogTasks
    /\ \E batch \in Answers(Statements) :
         /\ units' = Extend(units, batch)
         /\ stated' = stated \cup ToSet(batch)
    /\ extracted' = extracted + 1
    /\ Claim(Halves("catalog", 3 * extracted), "judge")
    /\ UNCHANGED <<profile, bundle, draft, mappings, current, tried, verdicts, score>>

\* A catalog has a unit.
CatalogDone ==
    /\ step = "judge" /\ extracted = CatalogTasks /\ units # <<>>
    /\ StartEvaluation(units)
    /\ UNCHANGED <<units, extracted, stated>>
-----------------------------------------------------------------------------
\* The units a test case exercises by a task's answer are added to its others.
\* Variant: they take their place.
Mapped_replaced(answer) == [id \in DOMAIN mappings |-> IF id \in DOMAIN answer THEN answer[id] ELSE mappings[id]]

Mapped(answer) == [id \in DOMAIN mappings |-> IF id \in DOMAIN answer THEN mappings[id] \cup answer[id] ELSE mappings[id]]

\* An answer has each id of the task's test cases once, and only its units.
EvaluationTask ==
    /\ step = "evaluate" /\ tried < Len(bundle.tests)
    /\ \E group \in FirstGroups(SubSeq(bundle.tests, tried + 1, Len(bundle.tests)), CaseBatch) :
       \E answer \in [Ids(group) -> SUBSET current] :
         /\ mappings' = Mapped(answer)
         /\ verdicts' = verdicts \cup {<<id, units[u], u \in answer[id]>> : id \in Ids(group), u \in current}
         /\ tried' = tried + Len(group)
    /\ Claim(Halves("evaluation", 3 * Tasks("evaluation")), "evaluate")
    /\ UNCHANGED <<profile, bundle, draft, units, extracted, stated, current, score>>

LastUnits == Len(units) \in current

NextUnits ==
    /\ step = "evaluate" /\ tried = Len(bundle.tests) /\ ~LastUnits
    /\ \E u \in current : (\A v \in current : v <= u) /\ current' \in UnitGroups(units, u)
    /\ tried' = 0
    /\ UNCHANGED <<run, units, extracted, stated, mappings, verdicts, score>>

\* compute_f1; ratios as <<numerator, denominator>>.
ScoreOf(all, covered) ==
    LET tp == Cardinality({id \in DOMAIN covered : covered[id] # {}})
        uncovered == all \ UNION {covered[id] : id \in DOMAIN covered}
        n == Cardinality(DOMAIN covered)
        hit == Cardinality(all \ uncovered)
        precision == IF n > 0 THEN <<tp, n>> ELSE <<0, 1>>
        recall == IF all # {} THEN <<hit, Cardinality(all)>> ELSE <<0, 1>>
    IN  [truePositives |-> tp, falsePositives |-> n - tp, falseNegatives |-> Cardinality(uncovered),
         precision |-> precision, recall |-> recall,
         f1 |-> IF tp = 0 /\ hit = 0 THEN <<0, 1>>
                ELSE <<2 * precision[1] * recall[1], precision[1] * recall[2] + recall[1] * precision[2]>>,
         uncovered |-> uncovered, unmapped |-> {id \in DOMAIN covered : covered[id] = {}}]

Score ==
    /\ step = "evaluate" /\ tried = Len(bundle.tests) /\ LastUnits
    /\ score' = ScoreOf(DOMAIN units, mappings)
    /\ mappings' = <<>> /\ current' = {} /\ tried' = 0
    /\ step' = "finish"
    /\ UNCHANGED <<profile, rows, bundle, draft, units, extracted, stated, verdicts>>

\* A task fails, or the catalog would be empty: the run goes on without a score.
JudgeFails ==
    /\ step \in {"judge", "evaluate"}
    /\ units' = <<>> /\ extracted' = 0 /\ stated' = {}
    /\ mappings' = <<>> /\ current' = {} /\ tried' = 0 /\ verdicts' = {}
    /\ step' = "finish"
    /\ UNCHANGED <<profile, rows, bundle, draft, score>>

JudgeStep ==
    \/ LoadUnits \/ ExtractUnits \/ CatalogDone
    \/ EvaluationTask \/ NextUnits \/ Score \/ JudgeFails
=============================================================================
