----------------------------- MODULE StoredSuite -----------------------------
\* How a suite and what was found about it are kept in the database and read
\* back: _insert_bundle and _insert_validation of finalize, _load_bundle and
\* _load_validation of load_run (storage.py).
\*
\* A list is kept in rows with a position; what an artifact lists itself is kept
\* in rows of a child table, with the position of the artifact and their own.
\* Ids do not identify a row: a draft may use one twice.  A suite here has the
\* links of an artifact as a set, which the code keeps as a list: of these only
\* which ids they are is compared.
EXTENDS Suite

\* The rows of a child table, where the artifact at i lists listed[i].
\* Variant: a child row refers to its artifact by id.
ChildRows_byId(list, listed) ==
    UNION {{[parent |-> list[i].id, position |-> j, value |-> listed[i][j]] : j \in DOMAIN listed[i]} : i \in DOMAIN list}

ChildRows(list, listed) ==
    UNION {{[parent |-> i, position |-> j, value |-> listed[i][j]] : j \in DOMAIN listed[i]} : i \in DOMAIN list}

\* Rows ORDER BY position: in the i-th place a row with less than i before it,
\* and with it and its equals at least i.
InPosition(table) ==
    LET Before(row) == Cardinality({r \in table : r.position < row.position})
        Upto(row)   == Cardinality({r \in table : r.position <= row.position})
    IN  [i \in 1..Cardinality(table) |-> CHOOSE row \in table : Before(row) < i /\ i <= Upto(row)]
InOrder(table) == LET sorted == InPosition(table) IN [i \in DOMAIN sorted |-> sorted[i].value]

\* _group: the child rows of one parent.
GroupOf(table, position) == InOrder({row \in table : row.parent = position})

\* A list without artifacts of its own: one row per value.
ListRows(values) == {[position |-> i, value |-> values[i]] : i \in DOMAIN values}
-----------------------------------------------------------------------------
\* The tables of an artifact kind.  "details" stands for the authored lists
\* (ambiguities, preconditions, test data, steps), "sources" for the citations.
Cited(list)    == [i \in DOMAIN list |-> <<list[i].cites>>]
Authored(list) == [i \in DOMAIN list |-> <<list[i].text>>]
Depends(list)  == [i \in DOMAIN list |-> SetToSeq(list[i].deps)]
Covers(list)   == [i \in DOMAIN list |-> SetToSeq(list[i].reqs)]

RequirementTables(list) ==
    [rows    |-> {[position |-> i, id |-> list[i].id] : i \in DOMAIN list},
     details |-> ChildRows(list, Authored(list)), sources |-> ChildRows(list, Cited(list)),
     deps    |-> ChildRows(list, Depends(list))]

ScenarioTables(list) ==
    [rows    |-> {[position |-> i, id |-> list[i].id] : i \in DOMAIN list},
     details |-> ChildRows(list, Authored(list)), sources |-> ChildRows(list, Cited(list)),
     reqs    |-> ChildRows(list, Covers(list))]

TestCaseTables(list) ==
    [rows    |-> {[position |-> i, id |-> list[i].id, scn |-> list[i].scn] : i \in DOMAIN list},
     details |-> ChildRows(list, Authored(list)), sources |-> ChildRows(list, Cited(list)),
     reqs    |-> ChildRows(list, Covers(list))]

\* _insert_bundle
InsertBundle(suite) ==
    [reqs |-> RequirementTables(suite.reqs), scns |-> ScenarioTables(suite.scns),
     tests |-> TestCaseTables(suite.tests)]

\* _load_bundle, of a run that has a suite.
Missing == -2
Version(values) == IF values = <<>> THEN Missing ELSE values[1]

LoadRequirement(tables, row) ==
    [id |-> row.id, text |-> Version(GroupOf(tables.details, row.position)),
     cites |-> Version(GroupOf(tables.sources, row.position)),
     deps |-> ToSet(GroupOf(tables.deps, row.position))]

LoadScenario(tables, row) ==
    [id |-> row.id, text |-> Version(GroupOf(tables.details, row.position)),
     cites |-> Version(GroupOf(tables.sources, row.position)),
     reqs |-> ToSet(GroupOf(tables.reqs, row.position))]

LoadTestCase(tables, row) ==
    [id |-> row.id, text |-> Version(GroupOf(tables.details, row.position)),
     cites |-> Version(GroupOf(tables.sources, row.position)), scn |-> row.scn,
     reqs |-> ToSet(GroupOf(tables.reqs, row.position))]

LoadBundle(db) ==
    LET each(tables, Load(_, _)) ==
          LET roots == InPosition(tables.rows) IN [i \in DOMAIN roots |-> Load(tables, roots[i])]
    IN  [reqs |-> each(db.reqs, LoadRequirement), scns |-> each(db.scns, LoadScenario),
         tests |-> each(db.tests, LoadTestCase)]
-----------------------------------------------------------------------------
\* The ValidationReport of a suite: the issues in some order, and the ids that
\* validate_bundle lists by themselves.
Report(suite) ==
    [valid |-> Valid(suite), issues |-> SetToSeq(Issues(suite)), uncovered |-> SetToSeq(Uncovered(suite)),
     orphanScenarios |-> SetToSeq(Unlinked(suite)), orphanTests |-> SetToSeq(Astray(suite))]

InsertValidation(report) ==
    [valid |-> report.valid, issues |-> ListRows(report.issues), uncovered |-> ListRows(report.uncovered),
     orphanScenarios |-> ListRows(report.orphanScenarios), orphanTests |-> ListRows(report.orphanTests)]

LoadValidation(db) ==
    [valid |-> db.valid, issues |-> InOrder(db.issues), uncovered |-> InOrder(db.uncovered),
     orphanScenarios |-> InOrder(db.orphanScenarios), orphanTests |-> InOrder(db.orphanTests)]
=============================================================================
