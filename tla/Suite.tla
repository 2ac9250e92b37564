------------------------------- MODULE Suite -------------------------------
\* Test suites and what the pipelines compute of them: validate_bundle, the
\* traceability matrix and its metrics (validation.py), and the checks that a
\* model's answer must pass before a pipeline goes on with it (pipelines.py).
\*
\* A suite is [reqs, scns, tests], three sequences of artifacts in the order of
\* the bundle.  An artifact has a number for an id (REQ-001 is 1), and its
\* authored text and its citations are version numbers: what they say is not
\* modelled, only whether they changed.  Ungrounded stands for citations that
\* verify_source_reference refuses.
EXTENDS Integers, Sequences, FiniteSets, SequencesExt

Ungrounded == -1

Requirement(id, deps)   == [id |-> id, text |-> 0, cites |-> 0, deps |-> deps]
Scenario(id, reqs)      == [id |-> id, text |-> 0, cites |-> 0, reqs |-> reqs]
TestCase(id, scn, reqs) == [id |-> id, text |-> 0, cites |-> 0, scn |-> scn, reqs |-> reqs]

EmptySuite == [reqs |-> <<>>, scns |-> <<>>, tests |-> <<>>]

\* ArtifactBundle: any suite, valid or not.  What an artifact links is a list.
IdSets == {S \in SUBSET Nat : IsFiniteSet(S)}
Bundle ==
    [reqs  : Seq([id : Nat, text : Nat, cites : Nat \cup {Ungrounded}, deps : IdSets]),
     scns  : Seq([id : Nat, text : Nat, cites : Nat \cup {Ungrounded}, reqs : IdSets]),
     tests : Seq([id : Nat, text : Nat, cites : Nat \cup {Ungrounded}, scn : Nat, reqs : IdSets])]

\* The elements of a list that are in a set, in order.
Selected(list, S) ==
    LET kept  == {i \in DOMAIN list : list[i] \in S}
        at(n) == CHOOSE i \in kept : Cardinality({j \in kept : j <= i}) = n
    IN  [n \in 1..Cardinality(kept) |-> list[at(n)]]

Ids(list) == {a.id : a \in ToSet(list)}
Links(list) == UNION {a.reqs : a \in ToSet(list)}

\* _artifacts_by_id
List(suite, kind) ==
    CASE kind = "REQ" -> suite.reqs [] kind = "SCN" -> suite.scns [] kind = "TC" -> suite.tests
Kinds == {"REQ", "SCN", "TC"}
Keys(suite) == UNION {{kind} \X Ids(List(suite, kind)) : kind \in Kinds}
Holders(suite, key)  == {a \in ToSet(List(suite, key[1])) : a.id = key[2]}
Artifact(suite, key) == CHOOSE a \in Holders(suite, key) : TRUE
-----------------------------------------------------------------------------
\* validate_bundle: the issues of a suite, each a code and the artifacts that
\* have it.
Duplicates(list) == {list[i].id : i \in {j \in DOMAIN list : \E k \in DOMAIN list : j # k /\ list[j].id = list[k].id}}

Unlinked(suite) == {s.id : s \in {x \in ToSet(suite.scns) : \A t \in ToSet(suite.tests) : t.scn # x.id}}
Astray(suite)   == {t.id : t \in {x \in ToSet(suite.tests) : x.scn \notin Ids(suite.scns)}}

\* Variant: a requirement counts as covered by a scenario or a test case.
Uncovered_either(suite) ==
    {r \in Ids(suite.reqs) : r \notin Links(suite.scns) /\ r \notin Links(suite.tests)}

Uncovered(suite) ==
    {r \in Ids(suite.reqs) : r \notin Links(suite.scns) \/ r \notin Links(suite.tests)}

ScenarioLinks(suite, id) == UNION {s.reqs : s \in {x \in ToSet(suite.scns) : x.id = id}}

Mismatched(suite) ==
    {t.id : t \in {x \in ToSet(suite.tests) :
        x.scn \in Ids(suite.scns) /\ ~(x.reqs \subseteq ScenarioLinks(suite, x.scn))}}

Unknown(list, suite) == {a.id : a \in {x \in ToSet(list) : ~(x.reqs \subseteq Ids(suite.reqs))}}

Found(code, kind, ids) == {code} \X ({kind} \X ids)

Issues(suite) ==
    (IF suite = EmptySuite THEN {<<"empty_bundle", <<"bundle", 0>>>>} ELSE {})
    \cup (UNION {Found("duplicate_id", kind, Duplicates(List(suite, kind))) : kind \in Kinds})
    \cup (UNION {Found("invalid_source_reference", kind,
                       {a.id : a \in {x \in ToSet(List(suite, kind)) : x.cites = Ungrounded}}) : kind \in Kinds})
    \cup Found("missing_dependency", "REQ",
               {r.id : r \in {x \in ToSet(suite.reqs) : ~(x.deps \subseteq Ids(suite.reqs))}})
    \cup Found("missing_requirement", "SCN", Unknown(suite.scns, suite))
    \cup Found("missing_requirement", "TC", Unknown(suite.tests, suite))
    \cup Found("missing_scenario", "TC", Astray(suite))
    \cup Found("scenario_requirement_mismatch", "TC", Mismatched(suite))
    \cup Found("orphan_scenario", "SCN", Unlinked(suite))
    \cup Found("orphan_test_case", "TC", Astray(suite))
    \cup Found("uncovered_requirement", "REQ", Uncovered(suite))

Valid(suite) == Issues(suite) = {}

\* build_rtm
Row(suite, r) ==
    LET scns  == {s.id : s \in {x \in ToSet(suite.scns) : r.id \in x.reqs}}
        tests == {t.id : t \in {x \in ToSet(suite.tests) : r.id \in x.reqs}}
    IN  [requirement |-> r.id, scenarios |-> scns, tests |-> tests,
         covered |-> scns # {} /\ tests # {}]
Matrix(suite) == [i \in DOMAIN suite.reqs |-> Row(suite, suite.reqs[i])]

\* compute_metrics: ratios as <<numerator, denominator>>.  An artifact is counted
\* by what the report says of its id, once for every place of it in the suite.
UngroundedIds(list) == {a.id : a \in {x \in ToSet(list) : x.cites = Ungrounded}}
Places(list, ids)    == {i \in DOMAIN list : list[i].id \in ids}

Metrics(suite) ==
    [scenarioCoverage |-> <<Cardinality(Links(suite.scns) \cap Ids(suite.reqs)), Cardinality(Ids(suite.reqs))>>,
     testCoverage     |-> <<Cardinality(Links(suite.tests) \cap Ids(suite.reqs)), Cardinality(Ids(suite.reqs))>>,
     citationCoverage |-> <<Cardinality((DOMAIN suite.reqs) \ Places(suite.reqs, UngroundedIds(suite.reqs))),
                            Cardinality(DOMAIN suite.reqs)>>,
     rtmCompleteness  |-> <<Cardinality({i \in DOMAIN suite.reqs : Matrix(suite)[i].covered}),
                            Cardinality(DOMAIN suite.reqs)>>,
     orphanRate       |-> <<Cardinality(Places(suite.scns, Unlinked(suite)))
                              + Cardinality({i \in DOMAIN suite.tests : suite.tests[i].scn \notin Ids(suite.scns)}),
                            Len(suite.scns) + Len(suite.tests)>>]
-----------------------------------------------------------------------------
\* _bounded_groups: items in order, each in a group whose weight stays within
\* the limit unless the item alone exceeds it.
\* Variant: the item that opens a new group is left out of it.
PutItem_lost(acc, item, weight, limit) ==
    IF acc.group # <<>> /\ acc.total + weight > limit
      THEN [groups |-> Append(acc.groups, acc.group), group |-> <<>>, total |-> 0]
      ELSE [acc EXCEPT !.group = Append(@, item), !.total = @ + weight]

PutItem(acc, item, weight, limit) ==
    IF acc.group # <<>> /\ acc.total + weight > limit
      THEN [groups |-> Append(acc.groups, acc.group), group |-> <<item>>, total |-> weight]
      ELSE [acc EXCEPT !.group = Append(@, item), !.total = @ + weight]

\* The group that is left at the end is the last; without items it is empty.
BoundedGroups(items, weight, limit) ==
    LET Put(acc, item) == PutItem(acc, item, weight[item], limit)
        end == FoldLeft(Put, [groups |-> <<>>, group |-> <<>>, total |-> 0], items)
    IN  IF end.group # <<>> \/ end.groups = <<>> THEN Append(end.groups, end.group) ELSE end.groups

\* _ordered_evidence_groups: each group but the first is given the last chunk
\* of the one before as context.
EvidenceGroups(items, weight, limit) ==
    LET groups == BoundedGroups(items, weight, limit)
    IN  [g \in DOMAIN groups |-> IF g = 1 THEN groups[1] ELSE <<Last(groups[g - 1])>> \o groups[g]]

\* Where a group ends otherwise depends on the size of a request: it is any
\* first part of what is left, up to a number of items.
FirstGroups(items, most) == {SubSeq(items, 1, n) : n \in 1..(IF Len(items) < most THEN Len(items) ELSE most)}
-----------------------------------------------------------------------------
\* _validate_scenario_batch and _validate_writer_cases, of locally numbered
\* answers.
ScenarioBatchOK(scenarios, required) ==
    /\ \A i \in DOMAIN scenarios : scenarios[i].id = i
    /\ Links(scenarios) = required

\* Variant: the requirements of the scenarios need not all have a test case.
WriterCasesOK_scenarios(tests, assigned) ==
    /\ Duplicates(tests) = {}
    /\ \A t \in ToSet(tests) : t.scn \in Ids(assigned) /\ t.reqs \subseteq (CHOOSE s \in ToSet(assigned) : s.id = t.scn).reqs
    /\ {t.scn : t \in ToSet(tests)} = Ids(assigned)

WriterCasesOK(tests, assigned) ==
    /\ Duplicates(tests) = {}
    /\ \A t \in ToSet(tests) : t.scn \in Ids(assigned) /\ t.reqs \subseteq (CHOOSE s \in ToSet(assigned) : s.id = t.scn).reqs
    /\ {t.scn : t \in ToSet(tests)} = Ids(assigned)
    /\ Links(tests) = Links(assigned)
-----------------------------------------------------------------------------
\* A finding of the critic is [id, on, type, kind]: the artifacts it targets,
\* whether they lack something or are wrong, and what a repair may touch.
Additional == {"missing_scenario", "missing_test_case"}
Targets(findings) == UNION {f.on : f \in findings}

\* _validate_critic_scope, and _hydrate's rule of one kind per finding.
InScope(finding, suite) == finding.on \subseteq Keys(suite) /\ Cardinality({key[1] : key \in finding.on}) = 1

\* _merge_patch: exactly the targets, each once.
MergePatch(suite, patch) ==
    LET put(kind) == [i \in DOMAIN List(suite, kind) |->
                        LET key == <<kind, List(suite, kind)[i].id>>
                        IN  IF key \in DOMAIN patch THEN patch[key] ELSE List(suite, kind)[i]]
    IN  [reqs |-> put("REQ"), scns |-> put("SCN"), tests |-> put("TC")]

\* _validate_repair_scope and _validate_repair_citations for one target: what
\* the kinds of its findings let a replacement change.
ScopeOK(before, after, kinds) ==
    /\ kinds = {"citation"} => after = [before EXCEPT !.cites = after.cites]
    /\ kinds # {"citation"} /\ kinds \subseteq {"citation", "relationship"} =>
         after.text = before.text /\ ("citation" \in kinds \/ after.cites = before.cites)
    /\ "semantic" \in kinds => after.text # before.text

KindsOf(key, findings) == {f.kind : f \in {g \in findings : key \in g.on}}

RepairOK(suite, patch, findings) ==
    /\ DOMAIN patch = Targets(findings)
    /\ \A key \in DOMAIN patch :
         /\ patch[key].id = key[2] /\ patch[key].cites # Ungrounded
         /\ ScopeOK(Artifact(suite, key), patch[key], KindsOf(key, findings))
         /\ key[1] = "REQ" /\ patch[key].cites # Artifact(suite, key).cites => "citation" \in KindsOf(key, findings)

\* _validate_repair_verification
VerificationOK(resolved, unresolved, findings) ==
    /\ resolved \cap unresolved = {}
    /\ resolved \cup unresolved = {f.id : f \in findings}
-----------------------------------------------------------------------------
\* runner._repair_coverage: an assignment of a requirement that was uncovered to
\* an existing scenario and one of its test cases; others are ignored.
LinkTo(list, id, req) ==
    [i \in DOMAIN list |-> IF list[i].id = id THEN [list[i] EXCEPT !.reqs = @ \cup {req}] ELSE list[i]]

\* Variant: the test case may be one of another scenario.
Assign_any(suite, a, uncovered) ==
    IF a.req \in uncovered /\ a.scn \in Ids(suite.scns) /\ a.test \in Ids(suite.tests)
      THEN [suite EXCEPT !.scns = LinkTo(@, a.scn, a.req), !.tests = LinkTo(@, a.test, a.req)]
      ELSE suite

Assign(suite, a, uncovered) ==
    IF /\ a.req \in uncovered /\ a.scn \in Ids(suite.scns)
       /\ \E t \in ToSet(suite.tests) : t.id = a.test /\ t.scn = a.scn
      THEN [suite EXCEPT !.scns = LinkTo(@, a.scn, a.req), !.tests = LinkTo(@, a.test, a.req)]
      ELSE suite
=============================================================================
