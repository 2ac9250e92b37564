------------------------------ MODULE Drafting ------------------------------
\* From the requirements to a first suite: test designs of the efficient
\* pipeline (_design_tests), the scenario architect and the test writers of the
\* corrected one, and the answer, or the three stages, of a single agent.
EXTENDS Pipeline

CONSTANTS
    DesignBatch,  \* requirements in a design task (8)
    WriterBatch   \* scenarios of a corrected test writer (3)

ASSUME DraftingAssumption == DesignBatch \in Nat \ {0} /\ WriterBatch \in Nat \ {0}

\* None is not what a test writer may write.
ASSUME UnwrittenAssumption ==
    None \notin Seq([id : Nat, text : Nat, cites : Nat \cup {Ungrounded}, scn : Nat, reqs : SUBSET Nat])

VARIABLES
    designed,  \* requirements that are in a design task that ended
    shares,    \* the scenarios of each test writer
    written    \* what each test writer wrote, or None

drafting == <<designed, shares, written>>

InitDrafting == designed = 0 /\ shares = <<>> /\ written = <<>>
NoDrafting   == designed' = 0 /\ shares' = <<>> /\ written' = <<>>

\* append of _design_tests: artifacts of an answer numbered after those there.
\* Variant: test cases keep the local number of their scenario.
AppendBatch_local(suite, scns, tests) ==
    [suite EXCEPT
       !.scns  = @ \o [i \in DOMAIN scns |-> [scns[i] EXCEPT !.id = Len(suite.scns) + i]],
       !.tests = @ \o [i \in DOMAIN tests |-> [tests[i] EXCEPT !.id = Len(suite.tests) + i]]]

AppendBatch(suite, scns, tests) ==
    [suite EXCEPT
       !.scns  = @ \o [i \in DOMAIN scns |-> [scns[i] EXCEPT !.id = Len(suite.scns) + i]],
       !.tests = @ \o [i \in DOMAIN tests |->
                         [tests[i] EXCEPT !.id = Len(suite.tests) + i, !.scn = Len(suite.scns) + @]]]

\* DESIGN EXECUTABLE TESTS AND THEIR SCENARIOS TOGETHER: a design is a scenario
\* and its one test case.
DesignTask ==
    /\ profile = "efficient" /\ step = "design" /\ designed < Len(bundle.reqs)
    /\ \E group \in FirstGroups(SubSeq(bundle.reqs, designed + 1, Len(bundle.reqs)), DesignBatch) :
       \E scns \in ScenarioAnswers(Ids(group)) :
         LET tests == [i \in DOMAIN scns |-> TestCase(i, i, scns[i].reqs)] IN
         /\ ScenarioBatchOK(scns, Ids(group)) /\ WriterCasesOK(tests, scns)
         /\ bundle' = AppendBatch(bundle, scns, tests)
         /\ designed' = designed + Len(group)
    /\ draft' = bundle'
    /\ Claim(Halves("test_writer", 3 * Tasks("test_writer")), "design")
    /\ UNCHANGED <<profile, shares, written>>

DesignDone ==
    /\ profile = "efficient" /\ step = "design" /\ designed = Len(bundle.reqs)
    /\ step' = IF Valid(bundle) THEN "review" ELSE "failed"
    /\ draft' = bundle
    /\ NoDrafting
    /\ UNCHANGED <<profile, rows, bundle>>
-----------------------------------------------------------------------------
\* Every way to share the scenarios out in order.
SharesOf(scns) ==
    IF scns = <<>> THEN {<<<<>>>>}
    ELSE {[g \in 1..Len(sizes) |->
             LET before == FoldLeft(+, 0, SubSeq(sizes, 1, g - 1))
             IN  SubSeq(scns, before + 1, before + sizes[g])] :
          sizes \in {z \in UNION {[1..n -> 1..WriterBatch] : n \in 1..Len(scns)} : FoldLeft(+, 0, z) = Len(scns)}}

Architect ==
    /\ profile = "corrected" /\ step = "design"
    /\ \E scns \in ScenarioAnswers(Ids(bundle.reqs)) :
         /\ ScenarioBatchOK(scns, Ids(bundle.reqs))
         /\ bundle' = [bundle EXCEPT !.scns = scns]
         /\ shares' \in SharesOf(scns)
    /\ written' = [g \in DOMAIN shares' |-> None]
    /\ Claim({<<"scenario_architect", 0>>}, "write")
    /\ UNCHANGED <<profile, draft, designed>>

\* The writers end in any order.
\* Variant: all of them have the first index.
WriteTests_first(g) ==
    /\ step = "write" /\ written[g] = None
    /\ \E tests \in TestAnswers(shares[g]) :
         WriterCasesOK(tests, shares[g]) /\ written' = [written EXCEPT ![g] = tests]
    /\ Claim({<<"test_writer", 0>>}, "write")
    /\ UNCHANGED <<profile, bundle, draft, designed, shares>>

WriteTests(g) ==
    /\ step = "write" /\ written[g] = None
    /\ \E tests \in TestAnswers(shares[g]) :
         WriterCasesOK(tests, shares[g]) /\ written' = [written EXCEPT ![g] = tests]
    /\ Claim({<<"test_writer", g - 1>>}, "write")
    /\ UNCHANGED <<profile, bundle, draft, designed, shares>>

\* Their cases are put together in the order of the shares and numbered.
Assemble ==
    /\ step = "write" /\ \A g \in DOMAIN written : written[g] # None
    /\ LET tests == FlattenSeq(written) IN
         bundle' = [bundle EXCEPT !.tests = [i \in DOMAIN tests |-> [tests[i] EXCEPT !.id = i]]]
    /\ step' = "review" /\ draft' = bundle'
    /\ NoDrafting
    /\ UNCHANGED <<profile, rows>>
-----------------------------------------------------------------------------
\* run_staged_single_agent with an efficient context: a task for each list.  Its
\* check is that no id is there twice and every citation is grounded,
StagedOK(list) == Duplicates(list) = {} /\ \A a \in ToSet(list) : a.cites # Ungrounded

\* of the requirements no more than that,
StagedRequirements ==
    /\ profile = "staged" /\ step = "scout"
    /\ \E suite \in RawSuites :
         StagedOK(suite.reqs) /\ bundle' = [EmptySuite EXCEPT !.reqs = suite.reqs]
    /\ draft' = bundle'
    /\ Claim({<<"requirements", 0>>}, "scenarios")
    /\ UNCHANGED <<profile, drafting>>

\* of the scenarios what an architect is checked for,
StagedScenarios ==
    /\ step = "scenarios"
    /\ \E scns \in ScenarioAnswers(Ids(bundle.reqs)) :
         /\ StagedOK(scns) /\ ScenarioBatchOK(scns, Ids(bundle.reqs))
         /\ bundle' = [bundle EXCEPT !.scns = scns]
    /\ draft' = bundle'
    /\ Claim({<<"scenarios", 0>>}, "tests")
    /\ UNCHANGED <<profile, drafting>>

\* and of the test cases what a test writer of all scenarios is.
StagedTests ==
    /\ step = "tests"
    /\ \E tests \in TestAnswers(bundle.scns) :
         /\ StagedOK(tests) /\ WriterCasesOK(tests, bundle.scns)
         /\ bundle' = [bundle EXCEPT !.tests = tests]
    /\ draft' = bundle'
    /\ Claim({<<"test_cases", 0>>}, "check")
    /\ UNCHANGED <<profile, drafting>>

\* run_single_prompt; run_staged_single_agent otherwise, which checks nothing.
SingleAnswer ==
    /\ profile = "single" /\ step = "scout"
    /\ bundle' \in RawSuites /\ draft' = bundle'
    /\ step' = "check"
    /\ UNCHANGED <<profile, rows, drafting>>

Draft ==
    \/ DesignTask \/ DesignDone \/ Architect
    \/ \E g \in DOMAIN written : WriteTests(g)
    \/ Assemble \/ SingleAnswer
    \/ StagedRequirements \/ StagedScenarios \/ StagedTests
=============================================================================
