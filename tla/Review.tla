------------------------------- MODULE Review -------------------------------
\* From a first suite to a reviewed one: the critic, repairs and additions, and
\* the verification of each (efficient._review, _expand_gap, verify_repairs;
\* pipelines._critique_bundle), and the repairs that run_generation makes to
\* the suite of a single agent.
EXTENDS Pipeline

CONSTANTS
    CriticBatch,    \* requirements in a critic task (24)
    ScenarioBatch,  \* requirements in a task that adds scenarios (12)
    TestBatch,      \* scenarios in a task that adds tests (8)
    Complaints,     \* what a critic may find: sequence of [on, type, kind]
    MaxReport,      \* bound: findings of one report
    MaxFindings     \* bound: findings of all reports

ASSUME ReviewAssumption ==
    /\ CriticBatch \in Nat \ {0} /\ ScenarioBatch \in Nat \ {0} /\ TestBatch \in Nat \ {0}
    /\ MaxReport \in Nat /\ MaxFindings \in Nat
    /\ Complaints \in Seq([on : SUBSET (Kinds \X Nat), type : STRING, kind : {"semantic", "citation", "relationship"}])

VARIABLES
    reviewed,   \* requirements whose critic task ended
    critiques,  \* critic tasks
    report,     \* the findings, in order
    queue,      \* findings that await their repair
    group,      \* findings being repaired together
    gap,        \* what is being added for them, or None
    repairs,    \* repairs made
    open,       \* diagnostics.unresolved_findings
    judged      \* verifications: a finding, and its targets as it was resolved

critic  == <<reviewed, critiques, report>>
repair  == <<queue, group, gap, repairs>>
verdict == <<open, judged>>
review  == <<critic, repair, verdict>>

InitReview ==
    /\ reviewed = 0 /\ critiques = 0 /\ report = <<>>
    /\ queue = <<>> /\ group = {} /\ gap = None /\ repairs = 0
    /\ open = {} /\ judged = {}

NoReview ==
    /\ reviewed' = 0 /\ critiques' = critiques /\ report' = <<>>
    /\ queue' = <<>> /\ group' = {} /\ gap' = None /\ repairs' = 0
    /\ open' = {} /\ judged' = {}

FindingIds(findings) == {f.id : f \in findings}
Linked(list, ids) == Selected(list, {a \in ToSet(list) : a.reqs \cap ids # {}})

\* The part of a suite that a critic task for some requirements is shown.
Scope(requirements) ==
    [reqs |-> requirements, scns |-> Linked(bundle.scns, Ids(requirements)),
     tests |-> Linked(bundle.tests, Ids(requirements))]

\* What it may report: complaints in scope, numbered after those before.
Reports(suite) ==
    {[i \in DOMAIN chosen |-> [id |-> Len(report) + i, on |-> chosen[i].on,
                               type |-> chosen[i].type, kind |-> chosen[i].kind]] :
        chosen \in {Selected(Complaints, some) :
                      some \in {S \in SUBSET {c \in ToSet(Complaints) : InScope(c, suite)} :
                                  /\ Cardinality(S) <= MaxReport
                                  /\ Len(report) + Cardinality(S) <= MaxFindings}}}

SkipCritic ==
    /\ step = "review" /\ critiques = 0
    /\ step' = "finish"
    /\ UNCHANGED <<profile, rows, bundle, draft, review>>

CriticTask ==
    /\ profile = "efficient" /\ step = "review" /\ reviewed < Len(bundle.reqs)
    /\ \E some \in FirstGroups(SubSeq(bundle.reqs, reviewed + 1, Len(bundle.reqs)), CriticBatch) :
         /\ \E findings \in Reports(Scope(some)) : report' = report \o findings
         /\ reviewed' = reviewed + Len(some)
    /\ critiques' = critiques + 1
    /\ Claim(Halves("critic", 3 * critiques), "review")
    /\ UNCHANGED <<profile, bundle, draft, repair, verdict>>

CriticDone ==
    /\ profile = "efficient" /\ step = "review"
    /\ critiques > 0 /\ reviewed = Len(bundle.reqs)
    /\ queue' = report /\ open' = FindingIds(ToSet(report))
    /\ step' = IF report = <<>> THEN "finish" ELSE "repair"
    /\ UNCHANGED <<profile, rows, bundle, draft, critic, group, gap, repairs, judged>>
-----------------------------------------------------------------------------
\* The first finding that awaits its repair and all that share a target with
\* it, directly or through others.
\* Variant: only those that share a target with the first.
Overlapping_direct ==
    {f \in ToSet(queue) : f.on \cap queue[1].on # {}}

Closed(S) == \A f \in S, g \in ToSet(queue) : f.on \cap g.on # {} => g \in S

Overlapping ==
    {f \in ToSet(queue) : \A S \in SUBSET ToSet(queue) : queue[1] \in S /\ Closed(S) => f \in S}

TargetReqs(findings) ==
    UNION {IF key[1] = "REQ" THEN {key[2]} ELSE Artifact(bundle, key).reqs : key \in Targets(findings)}

\* getattr(item, 'scenario_id'): scenarios, and those of test cases.
TargetScns(findings) ==
    {IF key[1] = "SCN" THEN key[2] ELSE Artifact(bundle, key).scn :
        key \in {k \in Targets(findings) : k[1] # "REQ"}}

NewGap(findings) ==
    [left |-> IF \E f \in findings : f.type = "missing_scenario"
                THEN Selected(bundle.reqs, {r \in ToSet(bundle.reqs) : r.id \in TargetReqs(findings)}) ELSE <<>>,
     tasks |-> 0, scns |-> <<>>, targets |-> <<>>, tested |-> 0, tests |-> <<>>]

NextRepair ==
    /\ profile = "efficient" /\ step = "repair"
    /\ queue # <<>> /\ group' = Overlapping
    /\ queue' = Selected(queue, ToSet(queue) \ group')
    /\ IF \E f \in group' : f.type \in Additional
         THEN step' = "expand" /\ gap' = NewGap(group')
         ELSE step' = "patch" /\ gap' = None
    /\ UNCHANGED <<profile, rows, bundle, draft, critic, repairs, verdict>>

\* The replacements a model may offer: the same artifact, other text, other
\* citations, other links, or other text and links.
Relinked(a, kind) ==
    CASE kind = "REQ" -> {[a EXCEPT !.deps = d] : d \in {{}, {a.id}}}
      [] kind = "SCN" -> {[a EXCEPT !.reqs = s] : s \in (SUBSET Ids(bundle.reqs)) \ {{}}}
      [] kind = "TC"  -> {[a EXCEPT !.scn = link.scn, !.reqs = link.reqs] :
                            link \in [scn  : Ids(bundle.scns),
                                      reqs : {Artifact(bundle, <<"SCN", n>>).reqs : n \in Ids(bundle.scns)}]}

Rewrites(key) ==
    LET a == Artifact(bundle, key) IN
    {a, [a EXCEPT !.cites = @ + 1]} \cup Relinked(a, key[1])
    \cup {[b EXCEPT !.text = @ + 1] : b \in Relinked(a, key[1])}

Patches(findings) ==
    LET Allowed(key) == {a \in Rewrites(key) : ScopeOK(Artifact(bundle, key), a, KindsOf(key, findings))}
    IN  {p \in [Targets(findings) -> UNION {Allowed(key) : key \in Targets(findings)}] :
           /\ \A key \in DOMAIN p : p[key] \in Allowed(key)
           /\ RepairOK(bundle, p, findings)}

\* A repair: one patch replaces all the targets of the group, and the suite is
\* validated again.
Patch ==
    /\ step = "patch"
    /\ \E patch \in Patches(group) : bundle' = MergePatch(bundle, patch)
    /\ draft' = bundle'
    /\ Claim(Halves("repair", 3 * repairs), IF Valid(bundle') THEN "verify" ELSE "failed")
    /\ UNCHANGED <<profile, review>>

\* _expand_gap: scenarios for the requirements concerned, if one is missing,
\* Variant: the artifacts of all gap repairs have the same task indices.
GapIndex_same(task) == RepairBase + 3 * task

GapIndex(task) == RepairBase + repairs * RepairStride + 3 * task

Numbered_from(list, offset) == [i \in DOMAIN list |-> [list[i] EXCEPT !.id = offset + i]]

GapScenarios ==
    /\ step = "expand" /\ gap.left # <<>>
    /\ \E some \in FirstGroups(gap.left, ScenarioBatch) :
       \E scns \in ScenarioAnswers(Ids(some)) :
         /\ ScenarioBatchOK(scns, Ids(some))
         /\ gap' = [gap EXCEPT !.left = SubSeq(@, Len(some) + 1, Len(@)), !.tasks = @ + 1,
                      !.scns = @ \o Numbered_from(scns, Len(bundle.scns) + Len(@))]
    /\ Claim(Halves("scenario_architect", GapIndex(gap.tasks)), "expand")
    /\ UNCHANGED <<profile, bundle, draft, critic, queue, group, repairs, verdict>>

\* then tests for the new scenarios, or for those concerned.
GapTargets ==
    /\ step = "expand" /\ gap.left = <<>>
    /\ LET targets == IF gap.scns # <<>> THEN gap.scns
                      ELSE Selected(bundle.scns, {s \in ToSet(bundle.scns) : s.id \in TargetScns(group)})
       IN  /\ gap' = [gap EXCEPT !.targets = targets, !.tasks = 0]
           /\ step' = IF targets = <<>> THEN "failed" ELSE "expand_tests"
    /\ UNCHANGED <<profile, rows, bundle, draft, critic, queue, group, repairs, verdict>>

\* The draft is for a while what is added, and no more.
GapTests ==
    /\ step = "expand_tests" /\ gap.tested < Len(gap.targets)
    /\ \E some \in FirstGroups(SubSeq(gap.targets, gap.tested + 1, Len(gap.targets)), TestBatch) :
       \E tests \in TestAnswers(some) :
         /\ WriterCasesOK(tests, some)
         /\ gap' = [gap EXCEPT !.tested = @ + Len(some), !.tasks = @ + 1,
                      !.tests = @ \o Numbered_from(tests, Len(bundle.tests) + Len(@))]
    /\ draft' = [bundle EXCEPT !.scns = gap.targets, !.tests = gap'.tests]
    /\ Claim(Halves("test_writer", GapIndex(gap.tasks)), "expand_tests")
    /\ UNCHANGED <<profile, bundle, critic, queue, group, repairs, verdict>>

GapDone ==
    /\ step = "expand_tests" /\ gap.tested = Len(gap.targets)
    /\ bundle' = [bundle EXCEPT !.scns = @ \o gap.scns, !.tests = @ \o gap.tests]
    /\ draft' = bundle' /\ gap' = None
    /\ step' = IF Valid(bundle') THEN "verify" ELSE "failed"
    /\ UNCHANGED <<profile, rows, critic, queue, group, repairs, verdict>>

\* What the verdict on findings is: the resolved ones are closed, as their
\* targets are now.
Close(findings, unresolved) ==
    /\ open' = open \ (FindingIds(findings) \ unresolved)
    /\ judged' = judged \cup {[finding |-> f.id, seen |-> [key \in f.on |-> Artifact(bundle, key)]] :
                                 f \in {g \in findings : g.id \notin unresolved}}

\* verify_repairs; after the last group nothing may be left open.
Verify ==
    /\ step = "verify"
    /\ \E resolved, unresolved \in SUBSET FindingIds(ToSet(report)) :
         VerificationOK(resolved, unresolved, group) /\ Close(group, unresolved)
    /\ Claim({<<"critic", 3 * critiques + repairs>>},
             IF queue # <<>> THEN "repair" ELSE IF open' = {} THEN "finish" ELSE "failed")
    /\ repairs' = repairs + 1 /\ group' = {}
    /\ UNCHANGED <<profile, bundle, draft, critic, queue, gap>>
-----------------------------------------------------------------------------
\* _critique_bundle: one report on the whole suite,
CritiqueSuite ==
    /\ profile = "corrected" /\ step = "review" /\ critiques = 0
    /\ \E findings \in Reports(bundle) :
         /\ report' = findings /\ queue' = findings /\ open' = FindingIds(ToSet(findings))
         /\ Claim({<<"critic", 0>>}, IF findings = <<>> THEN "finish" ELSE "repair")
    /\ critiques' = 1 /\ reviewed' = Len(bundle.reqs)
    /\ UNCHANGED <<profile, bundle, draft, group, gap, repairs, judged>>

\* the targets of one role after the other: requirements are the curator's,
\* scenarios the architect's, test cases the test writer's,
RoleOf(finding) == (CHOOSE key \in finding.on : TRUE)[1]

RepairRole ==
    /\ profile = "corrected" /\ step = "repair" /\ queue # <<>>
    /\ LET mine == {f \in ToSet(queue) : RoleOf(f) = RoleOf(queue[1])} IN
         /\ \E patch \in Patches(mine) : bundle' = MergePatch(bundle, patch)
         /\ queue' = Selected(queue, ToSet(queue) \ mine)
    /\ draft' = bundle' /\ repairs' = repairs + 1
    /\ Claim({<<"repair", repairs>>}, "repair")
    /\ UNCHANGED <<profile, critic, group, gap, verdict>>

RepairsDone ==
    /\ profile = "corrected" /\ step = "repair" /\ queue = <<>>
    /\ step' = IF Valid(bundle) THEN "verify_all" ELSE "failed"
    /\ UNCHANGED <<profile, rows, bundle, draft, review>>

\* and one verification of everything.
\* Variant: a suite is accepted with findings that are unresolved.
VerifyAll_accepts ==
    /\ step = "verify_all"
    /\ \E resolved, unresolved \in SUBSET FindingIds(ToSet(report)) :
         VerificationOK(resolved, unresolved, ToSet(report)) /\ Close(ToSet(report), unresolved)
    /\ Claim({<<"critic", 1>>}, "finish")
    /\ UNCHANGED <<profile, bundle, draft, critic, repair>>

VerifyAll ==
    /\ step = "verify_all"
    /\ \E resolved, unresolved \in SUBSET FindingIds(ToSet(report)) :
         VerificationOK(resolved, unresolved, ToSet(report)) /\ Close(ToSet(report), unresolved)
    /\ Claim({<<"critic", 1>>}, IF open' = {} THEN "finish" ELSE "failed")
    /\ UNCHANGED <<profile, bundle, draft, critic, repair>>
-----------------------------------------------------------------------------
\* run_generation: a suite whose only fault is uncovered requirements is first
\* linked, then, if it is still invalid, asked for again.
OnlyUncovered(suite) == ~Valid(suite) /\ \A issue \in Issues(suite) : issue[1] = "uncovered_requirement"

Repairs == UNION {[1..n -> [req : Ids(bundle.reqs), scn : Ids(bundle.scns), test : Ids(bundle.tests)]] : n \in 1..MaxAnswer}

LinkUncovered ==
    /\ step = "check"
    /\ IF OnlyUncovered(bundle)
         THEN \E list \in Repairs : bundle' = FoldLeft(LAMBDA s, a : Assign(s, a, Uncovered(bundle)), bundle, list)
         ELSE bundle' = bundle
    /\ draft' = bundle' /\ step' = "revise"
    /\ UNCHANGED <<profile, rows, review>>

Revise ==
    /\ step = "revise"
    /\ bundle' \in IF Valid(bundle) THEN {bundle} ELSE {bundle} \cup RawSuites
    /\ draft' = bundle' /\ step' = "judge"
    /\ UNCHANGED <<profile, rows, review>>

\* The status of the run.
Finish ==
    /\ step = "finish"
    /\ step' = IF Valid(bundle) THEN "completed" ELSE "failed"
    /\ draft' = bundle
    /\ UNCHANGED <<profile, rows, bundle, review>>

ReviewStep ==
    \/ SkipCritic \/ CriticTask \/ CriticDone \/ NextRepair \/ Patch
    \/ GapScenarios \/ GapTargets \/ GapTests \/ GapDone \/ Verify
    \/ CritiqueSuite \/ RepairRole \/ RepairsDone \/ VerifyAll
    \/ LinkUncovered \/ Revise \/ Finish
=============================================================================
