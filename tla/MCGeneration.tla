---------------------------- MODULE MCGeneration ----------------------------
\* An instance of Generation for TLC: two documents, five complaints a critic
\* may make, and the suites a single agent may answer with.
EXTENDS Generation

\* A catalog in another order than extraction would give.
MCCatalogs == {<<2, 1>>}

\* Sizes of chunks; a chunk of 3 is above the limit of a group.
MCDocuments == {<<1, 1, 3>>, <<3, 1>>}

F(on, type, kind) == [on |-> on, type |-> type, kind |-> kind]

\* The first three share targets only through the third.
MCComplaints ==
    << F({<<"SCN", 1>>}, "weak", "semantic"),
       F({<<"SCN", 2>>}, "weak", "citation"),
       F({<<"SCN", 1>>, <<"SCN", 2>>}, "weak", "relationship"),
       F({<<"REQ", 1>>}, "missing_scenario", "semantic"),
       F({<<"TC", 1>>}, "missing_test_case", "semantic") >>

\* Two requirements, the second covered if it is linked.
Two(linked) ==
    [reqs  |-> <<Requirement(1, {}), Requirement(2, {1})>>,
     scns  |-> <<Scenario(1, {1}), Scenario(2, linked)>>,
     tests |-> <<TestCase(1, 1, {1}), TestCase(2, 2, linked)>>]

MCRawSuites ==
    {EmptySuite, Two({1}), Two({1, 2}),
     [Two({1}) EXCEPT !.tests = <<@[1]>>],
     [Two({1, 2}) EXCEPT !.reqs[2].deps = {3}],
     [Two({1, 2}) EXCEPT !.tests[2].reqs = {1}],
     [Two({2}) EXCEPT !.reqs[2].id = 1],
     [Two({2}) EXCEPT !.reqs[1].cites = Ungrounded],
     [Two({2}) EXCEPT !.tests[2].scn = 3],
     [Two({2}) EXCEPT !.tests[2].id = 1]}
=============================================================================
