--------------------------- MODULE GenerationProofs ---------------------------
\* Proofs about Generation, for every document, every answer of the models and
\* every size of a task.
\*
\* A run keeps what it has when it fails (KeptInv): whoever changes the suite
\* under review sets the draft, or is put back.  The curation (CurationInv) cuts
\* the document into shares that are together the document; the scouts that have
\* ended are a first part of them, candidates are named after their scout and so
\* differ, and the efficient curator has decided on a first part of the
\* candidates, each of which one requirement carries or none.  The review
\* (ReviewInv) splits the findings into those awaiting their repair, those being
\* repaired and those settled; no two parts share a target, so that a repair
\* leaves what a verification saw.  The judge (JudgeInv) has the answers on a
\* first part of the units from every test case, and on the current ones from
\* a first part of the test cases.  The first suite (DraftInv) has no link that
\* leads nowhere, and links the requirements that were designed or shared out so
\* far.
EXTENDS Generation, FoldTheorems

-----------------------------------------------------------------------------
(* What the validator and the matrix say of a suite *)

\* The rows of the matrix that are not covered are those of the requirements
\* the validator lists.
LEMMA MatrixAgrees ==
    ASSUME NEW suite
    PROVE  Uncovered(suite) =
             {Matrix(suite)[i].requirement : i \in {j \in DOMAIN suite.reqs : ~Matrix(suite)[j].covered}}
<1>1. \A i \in DOMAIN suite.reqs :
        /\ Matrix(suite)[i].requirement = suite.reqs[i].id
        /\ Matrix(suite)[i].covered <=>
             suite.reqs[i].id \in Links(suite.scns) /\ suite.reqs[i].id \in Links(suite.tests)
  <2> SUFFICES ASSUME NEW i \in DOMAIN suite.reqs
               PROVE  /\ Matrix(suite)[i].requirement = suite.reqs[i].id
                      /\ Matrix(suite)[i].covered <=>
                           suite.reqs[i].id \in Links(suite.scns) /\ suite.reqs[i].id \in Links(suite.tests)
    OBVIOUS
  <2>1. Matrix(suite)[i] = Row(suite, suite.reqs[i])
    BY DEF Matrix
  <2>2. ASSUME NEW list
        PROVE  {s.id : s \in {x \in ToSet(list) : suite.reqs[i].id \in x.reqs}} # {} <=> suite.reqs[i].id \in Links(list)
    BY DEF Links
  <2>3. {s.id : s \in {x \in ToSet(suite.scns) : suite.reqs[i].id \in x.reqs}} # {} <=> suite.reqs[i].id \in Links(suite.scns)
    BY <2>2
  <2>4. {t.id : t \in {x \in ToSet(suite.tests) : suite.reqs[i].id \in x.reqs}} # {} <=> suite.reqs[i].id \in Links(suite.tests)
    BY <2>2
  <2>5. /\ Row(suite, suite.reqs[i]).requirement = suite.reqs[i].id
        /\ Row(suite, suite.reqs[i]).covered =
             (/\ {s.id : s \in {x \in ToSet(suite.scns) : suite.reqs[i].id \in x.reqs}} # {}
              /\ {t.id : t \in {x \in ToSet(suite.tests) : suite.reqs[i].id \in x.reqs}} # {})
    BY DEF Row
  <2> QED
    BY <2>1, <2>3, <2>4, <2>5
<1>2. Ids(suite.reqs) = {suite.reqs[i].id : i \in DOMAIN suite.reqs}
  BY DEF Ids, ToSet
<1> QED
  BY <1>1, <1>2 DEF Uncovered

\* In a valid suite every requirement is linked by a scenario and by a test case
\* and cites its source, and no scenario or test case is alone.
LEMMA ValidMeans ==
    ASSUME NEW suite, Valid(suite)
    PROVE  /\ Uncovered(suite) = {} /\ Unlinked(suite) = {} /\ Astray(suite) = {}
           /\ \A kind \in Kinds : Duplicates(List(suite, kind)) = {}
           /\ \A i \in DOMAIN suite.reqs : suite.reqs[i].cites # Ungrounded
<1>1. Issues(suite) = {}
  BY DEF Valid
<1>2. ASSUME NEW code, NEW kind, NEW ids, Found(code, kind, ids) \subseteq Issues(suite)
      PROVE  ids = {}
  <2>1. \A id \in ids : <<code, <<kind, id>>>> \in Found(code, kind, ids)
    BY DEF Found
  <2> QED
    BY <2>1, <1>1, <1>2
<1> DEFINE empty     == IF suite = EmptySuite THEN {<<"empty_bundle", <<"bundle", 0>>>>} ELSE {}
           twice     == UNION {Found("duplicate_id", kind, Duplicates(List(suite, kind))) : kind \in Kinds}
           unfounded == UNION {Found("invalid_source_reference", kind,
                          {a.id : a \in {x \in ToSet(List(suite, kind)) : x.cites = Ungrounded}}) : kind \in Kinds}
           loose     == Found("missing_dependency", "REQ",
                          {r.id : r \in {x \in ToSet(suite.reqs) : ~(x.deps \subseteq Ids(suite.reqs))}})
           others    == Found("missing_requirement", "SCN", Unknown(suite.scns, suite))
           strangers == Found("missing_requirement", "TC", Unknown(suite.tests, suite))
           astray    == Found("missing_scenario", "TC", Astray(suite))
           wrong     == Found("scenario_requirement_mismatch", "TC", Mismatched(suite))
           alone     == Found("orphan_scenario", "SCN", Unlinked(suite))
           orphans   == Found("orphan_test_case", "TC", Astray(suite))
           bare      == Found("uncovered_requirement", "REQ", Uncovered(suite))
<1>3. Issues(suite) = empty \cup twice \cup unfounded \cup loose \cup others \cup strangers
                        \cup astray \cup wrong \cup alone \cup orphans \cup bare
  BY DEF Issues
<1>4. \A kind \in Kinds : Found("duplicate_id", kind, Duplicates(List(suite, kind))) \subseteq twice
  OBVIOUS
<1>5. \A kind \in Kinds : Found("invalid_source_reference", kind,
                              {a.id : a \in {x \in ToSet(List(suite, kind)) : x.cites = Ungrounded}}) \subseteq unfounded
  OBVIOUS
<1> HIDE DEF empty, twice, unfounded, loose, others, strangers, astray, wrong, alone, orphans, bare
<1>6. /\ twice \subseteq Issues(suite) /\ unfounded \subseteq Issues(suite) /\ alone \subseteq Issues(suite)
      /\ orphans \subseteq Issues(suite) /\ bare \subseteq Issues(suite)
  BY <1>3
<1>7. Uncovered(suite) = {} /\ Unlinked(suite) = {} /\ Astray(suite) = {}
  BY <1>2, <1>6 DEF alone, orphans, bare
<1>8. \A kind \in Kinds : Duplicates(List(suite, kind)) = {}
  BY <1>2, <1>4, <1>6
<1>9. {a.id : a \in {x \in ToSet(suite.reqs) : x.cites = Ungrounded}} = {}
  <2>1. "REQ" \in Kinds /\ List(suite, "REQ") = suite.reqs
    BY DEF Kinds, List
  <2>2. Found("invalid_source_reference", "REQ",
              {a.id : a \in {x \in ToSet(suite.reqs) : x.cites = Ungrounded}}) \subseteq Issues(suite)
    BY <2>1, <1>5, <1>6
  <2> QED
    BY <2>2, <1>2
<1> QED
  BY <1>7, <1>8, <1>9 DEF ToSet

\* The matrix and the metrics of the suite that a run returns agree with its
\* validation report: the requirements it lists as uncovered are the uncovered
\* rows, and a valid suite has every ratio full and no orphan (validate_bundle,
\* build_rtm, compute_metrics).
THEOREM Traceable == Spec => []ValidIsTraceable
<1>1. ValidIsTraceable
  <2>1. Uncovered(bundle) = {Matrix(bundle)[i].requirement : i \in {j \in DOMAIN bundle.reqs : ~Matrix(bundle)[j].covered}}
    BY MatrixAgrees
  <2>2. ASSUME Valid(bundle)
        PROVE  LET m == Metrics(bundle) IN
               /\ \A ratio \in {m.scenarioCoverage, m.testCoverage, m.citationCoverage, m.rtmCompleteness} :
                    ratio[1] = ratio[2]
               /\ m.orphanRate[1] = 0
    <3>1. /\ Uncovered(bundle) = {} /\ Unlinked(bundle) = {} /\ Astray(bundle) = {}
          /\ \A i \in DOMAIN bundle.reqs : bundle.reqs[i].cites # Ungrounded
      BY <2>2, ValidMeans
    <3>2. /\ Links(bundle.scns) \cap Ids(bundle.reqs) = Ids(bundle.reqs)
          /\ Links(bundle.tests) \cap Ids(bundle.reqs) = Ids(bundle.reqs)
      BY <3>1 DEF Uncovered
    <3>3. (DOMAIN bundle.reqs) \ Places(bundle.reqs, UngroundedIds(bundle.reqs)) = DOMAIN bundle.reqs
      <4>1. UngroundedIds(bundle.reqs) = {}
        BY <3>1 DEF UngroundedIds, ToSet
      <4> QED
        BY <4>1 DEF Places
    <3>4. {i \in DOMAIN bundle.reqs : Matrix(bundle)[i].covered} = DOMAIN bundle.reqs
      BY <2>1, <3>1
    <3>5. Cardinality({}) = 0
      BY FS_EmptySet
    <3>6. Cardinality(Places(bundle.scns, Unlinked(bundle)))
          + Cardinality({i \in DOMAIN bundle.tests : bundle.tests[i].scn \notin Ids(bundle.scns)}) = 0
      <4>1. Places(bundle.scns, Unlinked(bundle)) = {}
        BY <3>1 DEF Places
      <4>2. {i \in DOMAIN bundle.tests : bundle.tests[i].scn \notin Ids(bundle.scns)} = {}
        BY <3>1 DEF Astray, ToSet
      <4> QED
        BY <3>5, <4>1, <4>2
    <3> DEFINE m == Metrics(bundle)
    <3>7. m.scenarioCoverage[1] = m.scenarioCoverage[2] /\ m.testCoverage[1] = m.testCoverage[2]
      BY <3>2 DEF Metrics
    <3>8. m.citationCoverage[1] = m.citationCoverage[2]
      BY <3>3 DEF Metrics
    <3>9. m.rtmCompleteness[1] = m.rtmCompleteness[2]
      BY <3>4 DEF Metrics
    <3>10. m.orphanRate[1] = 0
      BY <3>6 DEF Metrics
    <3> HIDE DEF m
    <3>11. /\ \A ratio \in {m.scenarioCoverage, m.testCoverage, m.citationCoverage, m.rtmCompleteness} :
                ratio[1] = ratio[2]
           /\ m.orphanRate[1] = 0
      BY <3>7, <3>8, <3>9, <3>10
    <3> QED
      BY <3>11 DEF m
  <2> QED
    BY <2>1, <2>2 DEF ValidIsTraceable
<1> QED
  BY <1>1, PTL
-----------------------------------------------------------------------------
(* What a run that fails keeps *)

\* The steps before a suite is reviewed, and those on which the draft of a run is
\* its suite; from the others that may fail, the draft is put back.
Early     == {"scout", "audit", "owned", "curate", "recheck", "materialize", "curated",
              "design", "write", "scenarios", "tests", "check", "revise", "judge", "evaluate"}
Drafted   == {"review", "repair", "patch", "expand", "verify", "verify_all"}

KeptInv ==
    /\ step \in Early => critiques = 0
    /\ step \in Drafted => draft = bundle
    /\ step = "failed" /\ critiques > 0 => draft = bundle

\* Whatever the workflow does next, the draft is kept: until the first critic
\* there is nothing to keep, and afterwards whoever changes the suite sets the draft.
LEMMA KeptStep ==
    ASSUME KeptInv, [Next]_vars
    PROVE  KeptInv'
<1> USE DEF KeptInv, Early, Drafted, Claim
<1>1. CASE Curate /\ UNCHANGED <<drafting, review, judging>>
  <2>1. critiques' = critiques
    BY <1>1 DEF review, critic
  <2>2. step \in Early /\ step' \in Early \cup {"failed", "conflict"}
    BY <1>1 DEF Curate, Scout, SourceAudit, CheckOwnership, CurateBatch, CurateDone, RejectionAudit,
                RecheckDone, ScoutCorrected, Synthesize, DecideAll, Materialize, MaterializeDone, HandOver
  <2> QED
    BY <2>1, <2>2
<1>2. CASE Draft /\ UNCHANGED <<curation, review, judging>>
  <2>1. critiques' = critiques
    BY <1>2 DEF review, critic
  <2>2. step \in Early
    BY <1>2 DEF Draft, DesignTask, DesignDone, Architect, WriteTests, Assemble, SingleAnswer,
                StagedRequirements, StagedScenarios, StagedTests
  <2>3. \/ step' \in Early \cup {"failed", "conflict"}
        \/ step' = "review" /\ draft' = bundle'
    BY <1>2 DEF Draft, DesignTask, DesignDone, Architect, WriteTests, Assemble, SingleAnswer,
                StagedRequirements, StagedScenarios, StagedTests
  <2> QED
    BY <2>1, <2>2, <2>3
<1>3. CASE ReviewStep /\ UNCHANGED <<curation, drafting, judging>>
  <2>1. CASE SkipCritic
    BY <2>1 DEF SkipCritic, review, critic
  <2>2. CASE CriticTask
    BY <2>2 DEF CriticTask
  <2>3. CASE CriticDone
    BY <2>3 DEF CriticDone, critic
  <2>4. CASE NextRepair
    BY <2>4 DEF NextRepair, critic
  <2>5. CASE Patch
    BY <2>5 DEF Patch, review, critic
  <2>6. CASE GapScenarios
    BY <2>6 DEF GapScenarios, critic
  <2>7. CASE GapTargets
    BY <2>7 DEF GapTargets, critic
  <2>8. CASE GapTests
    BY <2>8 DEF GapTests, critic
  <2>9. CASE GapDone
    BY <2>9 DEF GapDone, critic
  <2>10. CASE Verify
    BY <2>10 DEF Verify, critic
  <2>11. CASE CritiqueSuite
    BY <2>11 DEF CritiqueSuite
  <2>12. CASE RepairRole
    BY <2>12 DEF RepairRole, critic
  <2>13. CASE RepairsDone
    BY <2>13 DEF RepairsDone, review, critic
  <2>14. CASE VerifyAll
    BY <2>14 DEF VerifyAll, critic
  <2>15. CASE LinkUncovered
    BY <2>15 DEF LinkUncovered, review, critic
  <2>16. CASE Revise
    BY <2>16 DEF Revise, review, critic
  <2>17. CASE Finish
    BY <2>17 DEF Finish, review, critic
  <2> QED
    BY <1>3, <2>1, <2>2, <2>3, <2>4, <2>5, <2>6, <2>7, <2>8, <2>9, <2>10, <2>11, <2>12, <2>13,
       <2>14, <2>15, <2>16, <2>17 DEF ReviewStep
<1>4. CASE JudgeStep /\ UNCHANGED <<curation, drafting, review>>
  <2>1. critiques' = critiques
    BY <1>4 DEF review, critic
  <2>2. step \in Early /\ step' \in Early \cup {"finish", "conflict"}
    BY <1>4 DEF JudgeStep, LoadUnits, ExtractUnits, CatalogDone, StartEvaluation, EvaluationTask,
                NextUnits, Score, JudgeFails, run
  <2> QED
    BY <2>1, <2>2
<1>5. CASE Fail
  <2>1. step \in Asking /\ step' = "failed" /\ draft' = Restored /\ critiques' = critiques /\ bundle' = bundle
    BY <1>5 DEF Fail, NoReview
  <2> QED
    BY <2>1 DEF Asking, Restored
<1>6. CASE UNCHANGED vars
  BY <1>6 DEF vars, run, review, critic
<1> QED
  BY <1>1, <1>2, <1>3, <1>4, <1>5, <1>6 DEF Next

\* A run that fails after its suite went to review is recorded with a draft that
\* has every artifact of that suite, also when additions were being written
\* (context.partial_bundle, _expand_gap, run_generation's except).
THEOREM FailureKeeps == Spec => []DraftKept
<1>1. Init => KeptInv
  BY DEF Init, InitPipeline, InitReview, KeptInv, Drafted
<1>2. KeptInv /\ [Next]_vars => KeptInv'
  BY KeptStep
<1>3. KeptInv => DraftKept
  BY DEF KeptInv, DraftKept
<1> QED
  BY <1>1, <1>2, <1>3, PTL DEF Spec
-----------------------------------------------------------------------------
(* The elements of a list that are in a set *)

\* Among some places there is one for every rank, and no two share one.
Rank(K, i) == Cardinality({j \in K : j <= i})

\* Ranks number the places of a set, from 1 to how many there are.
LEMMA Ranks ==
    ASSUME NEW m \in Nat, NEW K \in SUBSET (1..m)
    PROVE  /\ Cardinality(K) \in Nat
           /\ \A n \in 1..Cardinality(K) : \E i \in K : Rank(K, i) = n
           /\ \A i \in K : Rank(K, i) \in 1..Cardinality(K)
           /\ \A i, j \in K : Rank(K, i) = Rank(K, j) => i = j
<1> DEFINE Good(L) == \A n \in 1..Cardinality(L) : \E i \in L : Rank(L, i) = n
           T == {k \in Nat : \A L \in SUBSET (1..k) : Good(L)}
<1>0. \A k \in Nat : IsFiniteSet(1..k)
  <2> SUFFICES ASSUME NEW k \in Nat  PROVE IsFiniteSet(1..k)
    OBVIOUS
  <2>1. 1 \in Int /\ k \in Int
    OBVIOUS
  <2> QED
    BY <2>1, FS_Interval
<1>1. \A k \in Nat : \A L \in SUBSET (1..k) : IsFiniteSet(L) /\ Cardinality(L) \in Nat
  BY <1>0, FS_Subset, FS_CardinalityType
<1>2. 0 \in T
  <2>1. \A L \in SUBSET (1..0) : L = {}
    OBVIOUS
  <2>2. Cardinality({}) = 0
    BY FS_EmptySet
  <2> QED
    BY <2>1, <2>2
<1>3. ASSUME NEW k \in Nat, k \in T  PROVE k + 1 \in T
  <2>0. SUFFICES ASSUME NEW L \in SUBSET (1..(k + 1)), NEW n \in 1..Cardinality(L)
                 PROVE  \E i \in L : Rank(L, i) = n
    OBVIOUS
  <2>1. CASE k + 1 \notin L
    <3>1. L \in SUBSET (1..k)
      BY <2>1
    <3> QED
      BY <1>3, <3>1
  <2>2. CASE k + 1 \in L
    <3> DEFINE M == L \ {k + 1}
    <3>1. M \in SUBSET (1..k) /\ Good(M)
      <4>1. M \in SUBSET (1..k)
        OBVIOUS
      <4> HIDE DEF M, Good
      <4> QED
        BY <1>3, <4>1
    <3>2. IsFiniteSet(L) /\ IsFiniteSet(M) /\ Cardinality(M) \in Nat /\ Cardinality(L) = Cardinality(M) + 1
      <4>1. IsFiniteSet(L) /\ IsFiniteSet(M) /\ Cardinality(M) \in Nat
        <5>1. k + 1 \in Nat
          OBVIOUS
        <5> HIDE DEF M
        <5> QED
          BY <1>1, <3>1, <5>1
      <4>2. M \cup {k + 1} = L /\ k + 1 \notin M
        BY <2>2
      <4>3. Cardinality(M \cup {k + 1}) = Cardinality(M) + 1
        <5> HIDE DEF M
        <5> QED
          BY <4>1, <4>2, FS_AddElement
      <4> HIDE DEF M
      <4> QED
        BY <4>1, <4>2, <4>3
    <3>3. CASE n = Cardinality(L)
      <4>1. {j \in L : j <= k + 1} = L
        <5>1. \A j \in L : j <= k + 1
          BY <2>0
        <5> QED
          BY <5>1
      <4> QED
        BY <2>2, <3>3, <4>1 DEF Rank
    <3>4. CASE n # Cardinality(L)
      <4>1. n \in 1..Cardinality(M)
        <5> HIDE DEF M
        <5> QED
          BY <3>2, <3>4
      <4>2. PICK i \in M : Rank(M, i) = n
        BY <3>1, <4>1
      <4>3. {j \in L : j <= i} = {j \in M : j <= i}
        BY <3>1
      <4> QED
        BY <4>2, <4>3 DEF Rank
    <3> QED
      BY <3>3, <3>4
  <2> QED
    BY <2>1, <2>2
<1>4. Nat \subseteq T
  <2> HIDE DEF T
  <2> QED
    BY <1>2, <1>3, SetInduction
<1>5. Good(K) /\ IsFiniteSet(K) /\ Cardinality(K) \in Nat
  BY <1>1, <1>4
<1>6. ASSUME NEW i \in K  PROVE Rank(K, i) \in 1..Cardinality(K)
  <2> DEFINE L == {j \in K : j <= i}
  <2>1. L \subseteq K /\ i \in L
    OBVIOUS
  <2> HIDE DEF L
  <2>2. IsFiniteSet(L) /\ Cardinality(L) \in Nat /\ Cardinality(L) <= Cardinality(K)
    BY <1>5, <2>1, FS_Subset, FS_CardinalityType
  <2>3. Cardinality(L) # 0
    BY <2>1, <2>2, FS_EmptySet
  <2> QED
    BY <1>5, <2>2, <2>3 DEF Rank, L
<1>7. ASSUME NEW i \in K, NEW j \in K, i < j  PROVE Rank(K, i) # Rank(K, j)
  <2> DEFINE L == {l \in K : l <= i}
             M == {l \in K : l <= j}
  <2>0. j \in Int /\ i \in Int /\ \A l \in K : l \in Int
    OBVIOUS
  <2>1. L \subseteq M /\ j \in M /\ j \notin L /\ M \subseteq K
    <3>1. \A l \in K : l <= i => l <= j
      BY <1>7, <2>0
    <3>2. j <= j /\ ~(j <= i)
      BY <1>7, <2>0
    <3> QED
      BY <3>1, <3>2
  <2> HIDE DEF L, M
  <2>2. IsFiniteSet(M)
    BY <1>5, <2>1, FS_Subset
  <2>3. Cardinality(L) # Cardinality(M)
    BY <2>1, <2>2, FS_Subset
  <2> QED
    BY <2>3 DEF Rank, L, M
<1>8. ASSUME NEW i \in K, NEW j \in K, Rank(K, i) = Rank(K, j)  PROVE i = j
  <2>1. i < j \/ j < i \/ i = j
    OBVIOUS
  <2> QED
    BY <1>7, <1>8, <2>1
<1> QED
  BY <1>5, <1>6, <1>8

\* What is selected is a list of those elements; it has none twice if the list
\* had none twice.
LEMMA SelectedFrom ==
    ASSUME NEW X, NEW list \in Seq(X), NEW S
    PROVE  /\ Selected(list, S) \in Seq(X)
           /\ ToSet(Selected(list, S)) = ToSet(list) \cap S
           /\ Distinct(list) => Distinct(Selected(list, S))
<1> DEFINE kept  == {i \in DOMAIN list : list[i] \in S}
           at(n) == CHOOSE i \in kept : Cardinality({j \in kept : j <= i}) = n
           sel   == Selected(list, S)
           N     == Cardinality(kept)
<1>1. Len(list) \in Nat /\ DOMAIN list = 1..Len(list) /\ kept \in SUBSET (1..Len(list))
      /\ \A i \in kept : list[i] \in X /\ list[i] \in S
  OBVIOUS
<1>2. /\ N \in Nat
      /\ \A n \in 1..N : \E i \in kept : Rank(kept, i) = n
      /\ \A i \in kept : Rank(kept, i) \in 1..N
      /\ \A i, j \in kept : Rank(kept, i) = Rank(kept, j) => i = j
  <2> HIDE DEF kept
  <2> QED
    BY <1>1, Ranks
<1>3. \A n \in 1..N : at(n) \in kept /\ Rank(kept, at(n)) = n
  <2> HIDE DEF kept
  <2> QED
    BY <1>2 DEF Rank
<1>4. sel = [n \in 1..N |-> list[at(n)]]
  BY DEF Selected
<1>5. \A i \in kept : at(Rank(kept, i)) = i
  <2> HIDE DEF kept, at, N
  <2> QED
    BY <1>2, <1>3
<1> HIDE DEF at, sel, N
<1>6. sel \in Seq(X)
  <2>1. \A n \in 1..N : list[at(n)] \in X
    BY <1>1, <1>3
  <2> QED
    BY <1>2, <1>4, <2>1
<1>7. ToSet(sel) = ToSet(list) \cap S
  <2>1. ToSet(sel) = {list[at(n)] : n \in 1..N}
    BY <1>4 DEF ToSet
  <2>2. ToSet(list) \cap S = {list[i] : i \in kept}
    BY DEF ToSet
  <2> HIDE DEF kept
  <2> QED
    BY <1>2, <1>3, <1>5, <2>1, <2>2
<1>8. ASSUME Distinct(list)  PROVE Distinct(sel)
  <2> SUFFICES ASSUME NEW m \in 1..N, NEW n \in 1..N, list[at(m)] = list[at(n)]  PROVE m = n
    BY <1>4 DEF Distinct
  <2>1. at(m) \in DOMAIN list /\ at(n) \in DOMAIN list
    BY <1>3
  <2>2. at(m) = at(n)
    BY <1>8, <2>1 DEF Distinct
  <2> QED
    BY <1>3, <2>2
<1> QED
  BY <1>6, <1>7, <1>8 DEF sel
-----------------------------------------------------------------------------
(* How items are grouped *)

\* _bounded_groups puts every item into one group, in order, and makes no empty
\* group of a document that has a chunk.
LEMMA Grouped ==
    ASSUME NEW I, NEW items \in Seq(I), NEW weight, NEW limit, \A x \in I : weight[x] \in Int
    PROVE  /\ BoundedGroups(items, weight, limit) \in Seq(Seq(I))
           /\ FlattenSeq(BoundedGroups(items, weight, limit)) = items
           /\ BoundedGroups(items, weight, limit) # <<>>
           /\ items # <<>> => \A g \in 1..Len(BoundedGroups(items, weight, limit)) :
                                 BoundedGroups(items, weight, limit)[g] # <<>>
<1> DEFINE n == Len(items)
           Acc == [groups : Seq(Seq(I)), group : Seq(I), total : Int]
           base == [groups |-> <<>>, group |-> <<>>, total |-> 0]
           Put(a, i) == PutItem(a, items[i], weight[items[i]], limit)
           h == [p \in Acc \X (1..n) |-> Put(p[1], p[2])]
           Body(f) == [s \in SUBSET (DOMAIN items) |->
                         IF s = {} THEN base ELSE Put(f[s \ {Max(s)}], Max(s))]
           f == CHOOSE g : g = Body(g)
           end == f[DOMAIN items]
<1>1. n \in Nat /\ DOMAIN items = 1..n /\ \A i \in 1..n : items[i] \in I /\ weight[items[i]] \in Int
  OBVIOUS
<1>2. BoundedGroups(items, weight, limit) =
        IF end.group # <<>> \/ end.groups = <<>> THEN Append(end.groups, end.group) ELSE end.groups
  BY Zenon DEF BoundedGroups, FoldLeft, MapThenFoldSet
<1>3. base \in Acc
  BY EmptySeq
<1>4. ASSUME NEW a \in Acc, NEW i \in 1..n
      PROVE  /\ Put(a, i) \in Acc
             /\ \/ /\ Put(a, i).groups = Append(a.groups, a.group) /\ Put(a, i).group = <<items[i]>>
                   /\ a.group # <<>>
                \/ /\ Put(a, i).groups = a.groups /\ Put(a, i).group = Append(a.group, items[i])
  <2> DEFINE x == items[i]
             w == weight[items[i]]
  <2>1. x \in I /\ w \in Int
    BY <1>1
  <2>2. <<x>> \in Seq(I) /\ Append(a.groups, a.group) \in Seq(Seq(I)) /\ Append(a.group, x) \in Seq(I)
    BY <2>1, AppendProperties
  <2>3. a.total + w \in Int
    BY <2>1
  <2> HIDE DEF x, w
  <2>4. CASE a.group # <<>> /\ a.total + w > limit
    <3>1. PutItem(a, x, w, limit) = [groups |-> Append(a.groups, a.group), group |-> <<x>>, total |-> w]
      BY <2>4 DEF PutItem
    <3> QED
      BY <2>1, <2>2, <2>4, <3>1 DEF x, w
  <2>5. CASE ~(a.group # <<>> /\ a.total + w > limit)
    <3>1. PutItem(a, x, w, limit) = [groups |-> a.groups, group |-> Append(a.group, x), total |-> a.total + w]
      BY <2>5 DEF PutItem
    <3> QED
      BY <2>2, <2>3, <3>1 DEF x, w
  <2> QED
    BY <2>4, <2>5
<1>5. f = Body(f)
  <2>1. h \in [Acc \X (1..n) -> Acc] /\ \A a \in Acc, i \in 1..n : h[<<a, i>>] = Put(a, i)
    <3> HIDE DEF Put, Acc, n
    <3> QED
      BY <1>4
  <2> HIDE DEF h, Put, Acc, base, n
  <2>2. PICK iter \in [SUBSET (1..n) -> Acc] : Folds(iter, h, base, n)
    BY <1>1, <1>3, <2>1, Iterated
  <2>3. ASSUME NEW s \in SUBSET (1..n)
        PROVE  iter[s] = IF s = {} THEN base ELSE Put(iter[s \ {Max(s)}], Max(s))
    <3>1. iter[s] = IF s = {} THEN base ELSE h[<<iter[s \ {Max(s)}], Max(s)>>]
      BY <2>2 DEF Folds
    <3>2. s # {} => Max(s) \in 1..n /\ iter[s \ {Max(s)}] \in Acc
      BY <1>1, MaxPlace
    <3> QED
      BY <2>1, <3>1, <3>2
  <2>4. iter = Body(iter)
    BY <1>1, <2>3
  <2> HIDE DEF Body
  <2> QED
    BY <2>4
<1> HIDE DEF f
<1>6. \A s \in SUBSET (1..n) : f[s] = IF s = {} THEN base ELSE Put(f[s \ {Max(s)}], Max(s))
  <2> HIDE DEF Put, base
  <2> QED
    BY <1>1, <1>5
<1> DEFINE Inv(k) == /\ f[1..k] \in Acc
                     /\ FlattenSeq(f[1..k].groups) \o f[1..k].group = SubSeq(items, 1, k)
                     /\ \A g \in 1..Len(f[1..k].groups) : f[1..k].groups[g] # <<>>
                     /\ k > 0 => f[1..k].group # <<>>
           T == {k \in Nat : k <= n => Inv(k)}
<1>7. 0 \in T
  <2>1. f[1..0] = base
    <3>1. 1..0 = {} /\ {} \in SUBSET (1..n)
      OBVIOUS
    <3> HIDE DEF base, Put
    <3> QED
      BY <1>6, <3>1
  <2>2. <<>> \o <<>> = <<>> /\ SubSeq(items, 1, 0) = <<>>
    BY EmptySeq, ConcatEmptySeq, SubSeqEmpty
  <2>3. FlattenSeq(base.groups) \o base.group = <<>>
    BY <2>2, FlattenEmpty
  <2>4. base.groups = <<>>
    OBVIOUS
  <2>5. \A g \in 1..Len(<<>>) : FALSE
    BY EmptySeq
  <2>6. Inv(0)
    <3> HIDE DEF Acc, base
    <3> QED
      BY <1>3, <2>1, <2>2, <2>3, <2>4, <2>5
  <2> HIDE DEF Inv
  <2> QED
    BY <2>6
<1>8. ASSUME NEW k \in Nat, k \in T  PROVE k + 1 \in T
  <2>0. SUFFICES ASSUME k + 1 <= n  PROVE Inv(k + 1)
    <3>1. k + 1 \in Nat
      OBVIOUS
    <3> HIDE DEF Inv, n
    <3> QED
      BY <3>1
  <2>1. k + 1 \in 1..n /\ k <= n
    BY <1>1, <2>0
  <2>2. Inv(k)
    <3> HIDE DEF Inv, n
    <3> QED
      BY <1>8, <2>1
  <2> DEFINE a == f[1..k]
             b == f[1..(k + 1)]
             x == items[k + 1]
  <2>3. b = Put(a, k + 1)
    <3>1. 1..(k + 1) \in SUBSET (1..n) /\ 1..(k + 1) # {} /\ Max(1..(k + 1)) = k + 1
          /\ (1..(k + 1)) \ {k + 1} = 1..((k + 1) - 1)
      <4> HIDE DEF n
      <4> QED
        BY <1>1, <2>1, IteratedPrefix
    <3>2. (k + 1) - 1 = k
      OBVIOUS
    <3> HIDE DEF Put, base
    <3> QED
      BY <1>6, <3>1, <3>2
  <2>4. /\ b \in Acc
        /\ \/ b.groups = Append(a.groups, a.group) /\ b.group = <<x>> /\ a.group # <<>>
           \/ b.groups = a.groups /\ b.group = Append(a.group, x)
    <3>1. a \in Acc
      BY <2>2
    <3> HIDE DEF Put, Acc, a, b, n
    <3> QED
      BY <1>4, <2>1, <2>3, <3>1
  <2>5. /\ a \in Acc /\ x \in I
        /\ FlattenSeq(a.groups) \o a.group = SubSeq(items, 1, k)
        /\ \A g \in 1..Len(a.groups) : a.groups[g] # <<>>
    BY <1>1, <2>1, <2>2
  <2>6. SubSeq(items, 1, k + 1) = SubSeq(items, 1, k) \o <<x>>
    BY <2>0, OneMore
  <2> HIDE DEF a, b, x, n
  <2>7. /\ a.groups \in Seq(Seq(I)) /\ a.group \in Seq(I) /\ <<x>> \in Seq(I)
    BY <2>5
  <2>8. FlattenSeq(a.groups) \in Seq(I)
    BY <2>7, FlattenAppend
  <2>9. CASE b.groups = Append(a.groups, a.group) /\ b.group = <<x>> /\ a.group # <<>>
    <3>1. FlattenSeq(b.groups) = FlattenSeq(a.groups) \o a.group
      BY <2>7, <2>9, FlattenAppend
    <3>2. FlattenSeq(b.groups) \o b.group = SubSeq(items, 1, k + 1)
      BY <2>5, <2>6, <2>9, <3>1
    <3>3. b.group # <<>>
      BY <2>9
    <3>4. /\ Len(b.groups) = Len(a.groups) + 1 /\ Len(a.groups) \in Nat
          /\ \A g \in 1..Len(a.groups) : b.groups[g] = a.groups[g]
          /\ b.groups[Len(a.groups) + 1] = a.group
      BY <2>7, <2>9, AppendProperties
    <3>5. ASSUME NEW g \in 1..Len(b.groups)  PROVE b.groups[g] # <<>>
      <4>1. g \in 1..Len(a.groups) \/ g = Len(a.groups) + 1
        BY <3>4
      <4> QED
        BY <2>5, <2>9, <3>4, <4>1
    <3> QED
      BY <2>4, <3>2, <3>3, <3>5 DEF b
  <2>10. CASE b.groups = a.groups /\ b.group = Append(a.group, x)
    <3>1. b.group = a.group \o <<x>> /\ b.group # <<>>
      BY <2>5, <2>7, <2>10, AppendIsConcat, AppendProperties
    <3>2. FlattenSeq(a.groups) \o (a.group \o <<x>>) = (FlattenSeq(a.groups) \o a.group) \o <<x>>
      <4> DEFINE u == FlattenSeq(a.groups)
                 v == a.group
                 z == <<x>>
      <4>1. u \in Seq(I) /\ v \in Seq(I) /\ z \in Seq(I)
        BY <2>7, <2>8
      <4> HIDE DEF u, v, z
      <4>2. (u \o v) \o z = u \o (v \o z)
        BY <4>1, ConcatAssociative
      <4> QED
        BY <4>2 DEF u, v, z
    <3>3. FlattenSeq(b.groups) \o b.group = SubSeq(items, 1, k + 1)
      BY <2>5, <2>6, <2>10, <3>1, <3>2
    <3> QED
      BY <2>4, <2>5, <2>10, <3>1, <3>3 DEF b
  <2> QED
    BY <2>4, <2>9, <2>10
<1>9. Nat \subseteq T
  <2> HIDE DEF T
  <2> QED
    BY <1>7, <1>8, SetInduction
<1>10. Inv(n)
  <2>1. n \in T /\ n <= n
    <3> HIDE DEF T
    <3> QED
      BY <1>1, <1>9
  <2> HIDE DEF Inv
  <2> QED
    BY <2>1
<1>11. /\ end \in Acc /\ FlattenSeq(end.groups) \o end.group = items
       /\ \A g \in 1..Len(end.groups) : end.groups[g] # <<>>
       /\ n > 0 => end.group # <<>>
  <2>1. SubSeq(items, 1, n) = items
    BY SubSeqFull
  <2> QED
    BY <1>1, <1>10, <2>1
<1> HIDE DEF end
<1> DEFINE gs == BoundedGroups(items, weight, limit)
<1>12. end.groups \in Seq(Seq(I)) /\ end.group \in Seq(I) /\ FlattenSeq(end.groups) \in Seq(I)
  <2>1. end.groups \in Seq(Seq(I)) /\ end.group \in Seq(I)
    BY <1>11
  <2> QED
    BY <2>1, FlattenAppend
<1>13. CASE end.group # <<>> \/ end.groups = <<>>
  <2>1. gs = Append(end.groups, end.group)
    BY <1>2, <1>13
  <2>2. gs \in Seq(Seq(I)) /\ gs # <<>> /\ FlattenSeq(gs) = items
    <3>1. Append(end.groups, end.group) \in Seq(Seq(I)) /\ Append(end.groups, end.group) # <<>>
      BY <1>12, AppendProperties
    <3>2. FlattenSeq(Append(end.groups, end.group)) = FlattenSeq(end.groups) \o end.group
      BY <1>12, FlattenAppend
    <3> HIDE DEF gs
    <3> QED
      BY <1>11, <2>1, <3>1, <3>2
  <2>3. ASSUME items # <<>>, NEW g \in 1..Len(gs)  PROVE gs[g] # <<>>
    <3>1. n > 0
      BY <1>1, <2>3
    <3>2. /\ Len(gs) = Len(end.groups) + 1 /\ Len(end.groups) \in Nat
          /\ \A j \in 1..Len(end.groups) : gs[j] = end.groups[j]
          /\ gs[Len(end.groups) + 1] = end.group
      <4> HIDE DEF gs
      <4> QED
        BY <1>12, <2>1, AppendProperties
    <3>3. g \in 1..Len(end.groups) \/ g = Len(end.groups) + 1
      <4> HIDE DEF gs
      <4> QED
        BY <3>2, <2>3
    <3> HIDE DEF gs, n
    <3> QED
      BY <1>11, <3>1, <3>2, <3>3
  <2> QED
    BY <2>2, <2>3
<1>14. CASE ~(end.group # <<>> \/ end.groups = <<>>)
  <2>1. gs = end.groups /\ end.group = <<>> /\ end.groups # <<>>
    BY <1>2, <1>14
  <2>2. FlattenSeq(end.groups) \o end.group = FlattenSeq(end.groups)
    BY <1>12, <2>1, ConcatEmptySeq
  <2> HIDE DEF gs
  <2> QED
    BY <1>11, <1>12, <2>1, <2>2 DEF gs
<1> QED
  BY <1>13, <1>14
-----------------------------------------------------------------------------
(* The chunks of each scout *)

\* Shares with the context of _ordered_evidence_groups, empty shares, and shares
\* without the context.
Contexted(B) == [g \in DOMAIN B |-> IF g = 1 THEN B[1] ELSE <<Last(B[g - 1])>> \o B[g]]
Blanks(m)    == [g \in 1..m |-> <<>>]
Bare(L)      == [g \in DOMAIN L |-> IF g = 1 \/ L[g] = <<>> THEN L[g] ELSE Tail(L[g])]

\* _ordered_evidence_groups gives the scouts every chunk once, in order, and with
\* it the last chunk of the scout before; what remains without that context is
\* what _bounded_groups made.
LEMMA Contexts ==
    ASSUME NEW I, NEW B \in Seq(Seq(I)), B # <<>>, \A g \in 1..Len(B) : B[g] # <<>>,
           NEW m \in Nat
    PROVE  /\ Contexted(B) \in Seq(Seq(I)) /\ Blanks(m) \in Seq(Seq(I))
           /\ Contexted(B) \o Blanks(m) \in Seq(Seq(I))
           /\ Bare(Contexted(B)) = B /\ Bare(Contexted(B) \o Blanks(m)) = B \o Blanks(m)
<1> DEFINE n == Len(B)
           E == Contexted(B)
           P == Blanks(m)
           L == E \o P
<1>0. E = [g \in DOMAIN B |-> IF g = 1 THEN B[1] ELSE <<Last(B[g - 1])>> \o B[g]] /\ P = [g \in 1..m |-> <<>>]
  BY DEF Contexted, Blanks
<1>00. L = E \o P
  OBVIOUS
<1> HIDE DEF E, P, L
<1>1. n \in Nat /\ n >= 1 /\ DOMAIN B = 1..n
  <2>1. n \in Nat \ {0}
    BY EmptySeq
  <2> QED
    BY <2>1
<1>2. ASSUME NEW g \in 1..n, g # 1
      PROVE  E[g] \in Seq(I) /\ E[g] # <<>> /\ Tail(E[g]) = B[g]
  <2> DEFINE z == Last(B[g - 1])
             b == B[g]
  <2>1. g - 1 \in 1..n
    BY <1>1, <1>2
  <2>2. B[g - 1] \in Seq(I) /\ B[g - 1] # <<>> /\ b \in Seq(I)
    BY <2>1
  <2>3. z \in I
    <3>1. Len(B[g - 1]) \in Nat \ {0}
      BY <2>2, EmptySeq
    <3> QED
      BY <2>2, <3>1 DEF Last
  <2>4. E[g] = <<z>> \o b
    BY <1>0, <1>1, <1>2
  <2> HIDE DEF z, b
  <2>5. <<z>> \in Seq(I) /\ Len(<<z>>) = 1 /\ <<z>>[1] = z
    BY <2>3
  <2> DEFINE c == <<z>> \o b
  <2>6. /\ c \in Seq(I) /\ Len(c) = 1 + Len(b) /\ Len(b) \in Nat
        /\ \A i \in 1..(1 + Len(b)) : c[i] = IF i <= 1 THEN z ELSE b[i - 1]
    BY <2>2, <2>5, ConcatProperties
  <2> HIDE DEF c
  <2>7. c # <<>>
    BY <2>6, EmptySeq
  <2>8. /\ Tail(c) \in Seq(I) /\ Len(Tail(c)) = Len(b)
        /\ \A i \in 1..Len(b) : Tail(c)[i] = c[i + 1]
    <3>1. /\ Tail(c) \in Seq(I) /\ Len(Tail(c)) = Len(c) - 1
          /\ \A i \in 1..Len(Tail(c)) : Tail(c)[i] = c[i + 1]
      BY <2>6, <2>7, HeadTailProperties
    <3>2. Len(c) - 1 = Len(b)
      BY <2>6
    <3> QED
      BY <3>1, <3>2
  <2>9. \A i \in 1..Len(b) : Tail(c)[i] = b[i]
    <3> SUFFICES ASSUME NEW i \in 1..Len(b)  PROVE c[i + 1] = b[i]
      BY <2>8
    <3>1. i + 1 \in 1..(1 + Len(b)) /\ ~(i + 1 <= 1) /\ (i + 1) - 1 = i
      BY <2>6
    <3> QED
      BY <2>6, <3>1
  <2>10. Tail(c) = b
    BY <2>2, <2>8, <2>9, SeqEqual
  <2> QED
    BY <2>4, <2>6, <2>7, <2>10 DEF b, c
<1>3. DOMAIN E = 1..n /\ E[1] = B[1] /\ \A g \in 1..n : E[g] \in Seq(I)
  <2>1. DOMAIN E = 1..n /\ 1 \in 1..n /\ E[1] = B[1]
    BY <1>0, <1>1
  <2>2. B[1] \in Seq(I)
    BY <2>1
  <2> HIDE DEF n
  <2> QED
    BY <1>2, <2>1, <2>2
<1>4. E \in Seq(Seq(I)) /\ Len(E) = n
  <2>1. E = [g \in 1..n |-> E[g]]
    BY <1>0, <1>1
  <2>2. E \in [1..n -> Seq(I)]
    BY <1>3, <2>1
  <2> HIDE DEF n
  <2> QED
    BY <1>1, <2>2
<1>5. P \in Seq(Seq(I)) /\ Len(P) = m
  <2>1. <<>> \in Seq(I)
    BY EmptySeq
  <2> QED
    BY <1>0, <2>1
<1>6. \A g \in 1..n : (IF g = 1 \/ E[g] = <<>> THEN E[g] ELSE Tail(E[g])) = B[g]
  BY <1>2, <1>3
<1> DEFINE C == B \o P
<1>7. /\ L \in Seq(Seq(I)) /\ C \in Seq(Seq(I)) /\ Len(L) = n + m /\ Len(C) = n + m
      /\ \A i \in 1..(n + m) : L[i] = IF i <= n THEN E[i] ELSE P[i - n]
      /\ \A i \in 1..(n + m) : C[i] = IF i <= n THEN B[i] ELSE P[i - n]
  <2>1. /\ L \in Seq(Seq(I)) /\ Len(L) = Len(E) + Len(P)
        /\ \A i \in 1..(Len(E) + Len(P)) : L[i] = IF i <= Len(E) THEN E[i] ELSE P[i - Len(E)]
    <3>1. L = E \o P /\ E \in Seq(Seq(I)) /\ P \in Seq(Seq(I))
      BY <1>00, <1>4, <1>5
    <3> QED
      BY <3>1, ConcatProperties
  <2>2. /\ C \in Seq(Seq(I)) /\ Len(C) = Len(B) + Len(P)
        /\ \A i \in 1..(Len(B) + Len(P)) : C[i] = IF i <= Len(B) THEN B[i] ELSE P[i - Len(B)]
    BY <1>5, ConcatProperties
  <2> HIDE DEF C
  <2> QED
    BY <1>4, <1>5, <2>1, <2>2
<1>8. DOMAIN L = 1..(n + m)
  <2> HIDE DEF n
  <2> QED
    BY <1>7
<1>9. ASSUME NEW i \in 1..(n + m)
      PROVE  (IF i = 1 \/ L[i] = <<>> THEN L[i] ELSE Tail(L[i])) = C[i]
  <2>1. CASE i <= n
    <3>1. i \in 1..n /\ L[i] = E[i] /\ C[i] = B[i]
      <4>1. i \in 1..n
        BY <1>1, <2>1
      <4>2. L[i] = E[i] /\ C[i] = B[i]
        <5> HIDE DEF C, n
        <5> QED
          BY <1>7, <2>1
      <4> QED
        BY <4>1, <4>2
    <3> HIDE DEF C, n
    <3> QED
      BY <1>6, <3>1
  <2>2. CASE ~(i <= n)
    <3>0. L[i] = P[i - n] /\ C[i] = P[i - n]
      <4> HIDE DEF C, n
      <4> QED
        BY <1>7, <2>2
    <3>1. i - n \in 1..m /\ L[i] = P[i - n] /\ C[i] = P[i - n]
      <4>1. n \in Int /\ m \in Int /\ i \in Int /\ i >= 1 /\ i <= n + m /\ i > n
        <5>1. n \in Nat /\ i \in Int
          BY <1>1
        <5> HIDE DEF n
        <5> QED
          BY <2>2, <5>1
      <4>2. i - n \in 1..m
        <5> HIDE DEF n
        <5> QED
          BY <4>1
      <4> QED
        BY <3>0, <4>2
    <3>2. P[i - n] = <<>>
      <4> HIDE DEF n
      <4> QED
        BY <1>0, <3>1
    <3> HIDE DEF C, n
    <3> QED
      BY <3>1, <3>2
  <2> QED
    BY <2>1, <2>2
<1>10. Bare(L) = C
  <2> DEFINE F == [g \in DOMAIN L |-> IF g = 1 \/ L[g] = <<>> THEN L[g] ELSE Tail(L[g])]
  <2>1. C = [i \in 1..(n + m) |-> C[i]]
    <3> HIDE DEF C, n
    <3> QED
      BY <1>7
  <2>2. F = [i \in 1..(n + m) |-> C[i]]
    <3> HIDE DEF C, n
    <3> QED
      BY <1>8, <1>9
  <2> QED
    BY <2>1, <2>2 DEF Bare
<1>11. DOMAIN E = DOMAIN B /\ Bare(E) = B
  <2>1. DOMAIN E = DOMAIN B /\ Bare(E) = [g \in DOMAIN B |-> B[g]]
    <3> HIDE DEF n
    <3> QED
      BY <1>1, <1>3, <1>6 DEF Bare
  <2>2. B = [g \in DOMAIN B |-> B[g]]
    OBVIOUS
  <2> QED
    BY <2>1, <2>2, Zenon
<1> QED
  BY <1>4, <1>5, <1>7, <1>10, <1>11 DEF E, P, L

\* Every chunk is in one share, in order: the efficient pipeline's, and the
\* corrected one's without their context.
LEMMA GroupsAre ==
    ASSUME document \in Seq(Nat \ {0}) \ {<<>>}
    PROVE  /\ Groups \in Seq(Seq(DOMAIN document)) /\ Len(Groups) \in Nat /\ DOMAIN Groups = 1..Len(Groups)
           /\ profile = "efficient" => FlattenSeq(Groups) = Chunks
           /\ profile = "corrected" =>
                FlattenSeq(Bare(Groups)) = Chunks
<1> DEFINE I == DOMAIN document
           B == BoundedGroups(Chunks, document, ChunkLimit)
           E == EvidenceGroups(Chunks, document, ChunkLimit)
<1>1. Chunks \in Seq(I) /\ Chunks # <<>> /\ \A x \in I : document[x] \in Int
  <2>1. Len(document) \in Nat \ {0} /\ I = 1..Len(document) /\ \A x \in I : document[x] \in Nat \ {0}
    BY EmptySeq
  <2>2. Chunks = [c \in 1..Len(document) |-> c]
    BY <2>1 DEF Chunks
  <2>3. Chunks \in Seq(I) /\ Len(Chunks) = Len(document)
    BY <2>1, <2>2
  <2>4. Chunks # <<>>
    BY <2>1, <2>3, EmptySeq
  <2> QED
    BY <2>1, <2>3, <2>4
<1>2. /\ B \in Seq(Seq(I)) /\ FlattenSeq(B) = Chunks /\ B # <<>>
      /\ \A g \in 1..Len(B) : B[g] # <<>>
  <2> HIDE DEF I
  <2> QED
    BY <1>1, Grouped
<1>3. E = Contexted(B)
  BY DEF EvidenceGroups, Contexted
<1>4. ASSUME NEW m \in Nat
      PROVE  /\ E \in Seq(Seq(I)) /\ E \o Blanks(m) \in Seq(Seq(I))
             /\ Bare(E) = B /\ Bare(E \o Blanks(m)) = B \o Blanks(m) /\ FlattenSeq(B \o Blanks(m)) = Chunks
  <2> HIDE DEF B, E, I
  <2>1. /\ Contexted(B) \in Seq(Seq(I)) /\ Blanks(m) \in Seq(Seq(I))
        /\ Contexted(B) \o Blanks(m) \in Seq(Seq(I))
        /\ Bare(Contexted(B)) = B /\ Bare(Contexted(B) \o Blanks(m)) = B \o Blanks(m)
    BY <1>2, Contexts
  <2>2. FlattenSeq(B \o Blanks(m)) = FlattenSeq(B)
    <3> DEFINE P == Blanks(m)
    <3>1. Len(P) = m /\ \A i \in 1..m : P[i] = <<>>
      BY DEF Blanks
    <3>2. P \in Seq(Seq(I))
      BY <2>1
    <3> HIDE DEF P
    <3>3. FlattenSeq(B \o P) = FlattenSeq(B)
      BY <1>2, <3>1, <3>2, FlattenPadded
    <3> QED
      BY <3>3 DEF P
  <2> QED
    BY <1>2, <1>3, <2>1, <2>2
<1>5. CASE profile = "efficient"
  <2>1. Groups = B
    BY <1>5 DEF Groups
  <2> HIDE DEF B, I
  <2>2. Len(B) \in Nat /\ DOMAIN B = 1..Len(B)
    BY <1>2
  <2> QED
    BY <1>2, <1>5, <2>1, <2>2 DEF I
<1>6. CASE profile # "efficient"
  <2> DEFINE P == Padding(E)
  <2>1. Groups = IF Len(E) < ScoutCount THEN E \o P ELSE E
    BY <1>6, Zenon DEF Groups
  <2>2. CASE Len(E) < ScoutCount
    <3>1. ScoutCount - Len(E) \in Nat
      <4>1. E \in Seq(Seq(I))
        BY <1>4
      <4>2. Len(E) \in Nat /\ ScoutCount \in Nat
        BY <4>1, LenProperties, LimitsAssumption
      <4> QED
        BY <2>2, <4>2
    <3>2. P = Blanks(ScoutCount - Len(E))
      BY DEF Padding, Blanks
    <3>3. E \o P \in Seq(Seq(I)) /\ Bare(E \o P) = B \o P /\ FlattenSeq(B \o P) = Chunks
      <4> HIDE DEF P, E, B, I
      <4> QED
        BY <1>4, <3>1, <3>2
    <3>4. Groups = E \o P
      BY <2>1, <2>2
    <3>5. FlattenSeq(Bare(Groups)) = Chunks
      <4> HIDE DEF P, E, B
      <4> QED
        BY <3>3, <3>4
    <3>6. Groups \in Seq(Seq(I))
      BY <3>3, <3>4
    <3>7. Len(Groups) \in Nat /\ DOMAIN Groups = 1..Len(Groups)
      BY <3>6, LenProperties
    <3> QED
      BY <1>6, <3>5, <3>6, <3>7
  <2>3. CASE ~(Len(E) < ScoutCount)
    <3>1. E \in Seq(Seq(I)) /\ Bare(E) = B
      <4>1. 0 \in Nat
        OBVIOUS
      <4> HIDE DEF E, B, I
      <4> QED
        BY <1>4, <4>1
    <3>2. Groups = E
      BY <2>1, <2>3
    <3>3. FlattenSeq(Bare(Groups)) = Chunks
      <4> HIDE DEF E, B
      <4> QED
        BY <1>2, <3>1, <3>2
    <3>4. Groups \in Seq(Seq(I))
      BY <3>1, <3>2
    <3>5. Len(Groups) \in Nat /\ DOMAIN Groups = 1..Len(Groups)
      BY <3>4, LenProperties
    <3> QED
      BY <1>6, <3>3, <3>4, <3>5
  <2> QED
    BY <2>2, <2>3
<1> QED
  BY <1>5, <1>6
-----------------------------------------------------------------------------
(* What the curation keeps *)

\* The steps from the document to the requirements, and those of them that
\* every scout has ended before.
Curating == {"scout", "audit", "owned", "curate", "recheck", "materialize", "curated"}
Complete == {"owned", "curate", "recheck", "materialize", "curated"}

PhaseInv ==
    /\ profile \in {"efficient", "corrected", "single", "staged"}
    /\ step \in {"audit", "owned", "recheck"} => profile = "efficient"
    /\ step = "materialize" => profile = "corrected"
    /\ profile \in {"single", "staged"} /\ step \in Curating => step = "scout"
    /\ step \in Curating => document \in Seq(Nat \ {0}) \ {<<>>}

\* A scout that has not ended has None, another candidates of its own.
Position == (Nat \ {0}) \X Nat

FoundInv == step \in Curating =>
    /\ found \in [1..Len(Groups) -> {None} \cup Seq(Position)]
    /\ \A g \in 1..Len(Groups) : found[g] # None =>
         Distinct(found[g]) /\ \A i \in DOMAIN found[g] : found[g][i][1] = g
    /\ step \in Complete => Scouted

\* The scouts of the efficient pipeline that have ended are the first k, and they
\* have disposed of the chunks of the first k groups.
Ended(k) ==
    /\ \A g \in 1..Len(Groups) : found[g] # None <=> g <= k
    /\ disposed = FlattenSeq(SubSeq(Groups, 1, k))
    /\ step = "audit" => k >= 1
    /\ step = "owned" => k = Len(Groups)

OwnedInv == profile = "efficient" /\ step \in {"scout", "audit", "owned"} => \E k \in 0..Len(Groups) : Ended(k)

\* The requirements that carry a candidate.
Carried(c, list) == {r \in DOMAIN list : c \in list[r].sources}

Curated == [sources : SUBSET (Nat \X Nat), deps : SUBSET Nat]

\* The first p candidates were decided on, each is rejected or in exactly one
\* requirement; the others are pending and in none.
Decided(p) ==
    /\ pending = SubSeq(Candidates, p + 1, Len(Candidates))
    /\ rejected \subseteq {Candidates[i] : i \in 1..p}
    /\ \A i \in 1..p : IF Candidates[i] \in rejected THEN Carried(Candidates[i], reqs) = {}
                       ELSE \E r \in DOMAIN reqs : Carried(Candidates[i], reqs) = {r}
    /\ \A i \in (p + 1)..Len(Candidates) : Carried(Candidates[i], reqs) = {}

DecidedInv == profile = "efficient" =>
    /\ step \in {"scout", "audit", "owned"} => reqs = <<>> /\ rejected = {}
    /\ step \in {"curate", "recheck", "curated"} =>
         /\ reqs \in Seq(Curated)
         /\ \E p \in 0..Len(Candidates) : Decided(p) /\ (step # "curate" => p = Len(Candidates))
    /\ step = "curated" => rejected = audited

\* The corrected curator's assignment, and requirements that follow it.
AssignedInv == profile = "corrected" /\ step \in {"materialize", "curated"} =>
    /\ assigned \in [DOMAIN Candidates -> Nat] /\ rejected = Rejects(assigned)
    /\ step = "curated" => SynthesisOK(assigned, reqs)

CurationInv == PhaseInv /\ FoundInv /\ OwnedInv /\ DecidedInv /\ AssignedInv
-----------------------------------------------------------------------------
(* The decisions on a group of candidates *)

\* A requirement more is one more to carry its sources,
LEMMA CarriedAppend ==
    ASSUME NEW list \in Seq(Curated), NEW new \in Curated
    PROVE  \A c : Carried(c, Append(list, new)) =
                    Carried(c, list) \cup (IF c \in new.sources THEN {Len(list) + 1} ELSE {})
<1> DEFINE more == Append(list, new)
<1>1. /\ Len(list) \in Nat /\ DOMAIN list = 1..Len(list) /\ DOMAIN more = 1..(Len(list) + 1)
      /\ more[Len(list) + 1] = new /\ \A r \in 1..Len(list) : more[r] = list[r]
  BY AppendProperties
<1> HIDE DEF more
<1>2. DOMAIN more = DOMAIN list \cup {Len(list) + 1} /\ Len(list) + 1 \notin DOMAIN list
  BY <1>1
<1> QED
  BY <1>1, <1>2 DEF Carried, more

\* A list with a requirement combined with a candidate (Decide).
Combining(list, r, x, edit) == [list EXCEPT ![r] = Combine(@, x, edit)]

\* and one that is combined with a candidate carries that one too.
LEMMA CarriedCombine ==
    ASSUME NEW list \in Seq(Curated), NEW x \in Nat \X Nat, NEW edit \in {None} \cup SUBSET Nat,
           NEW r \in DOMAIN list
    PROVE  /\ Combining(list, r, x, edit) \in Seq(Curated)
           /\ \A c : Carried(c, Combining(list, r, x, edit)) =
                     IF c = x THEN Carried(c, list) \cup {r} ELSE Carried(c, list)
<1> DEFINE one  == Combine(list[r], x, edit)
           more == [list EXCEPT ![r] = one]
<1>1. one.sources = list[r].sources \cup {x} /\ one \in Curated
  <2>1. list[r] \in Curated
    OBVIOUS
  <2>2. list[r].sources \cup {x} \in SUBSET (Nat \X Nat) /\ list[r].deps \in SUBSET Nat
    BY <2>1 DEF Curated
  <2> QED
    BY <2>2 DEF Combine, Curated
<1>2. more \in Seq(Curated) /\ Len(more) = Len(list)
  <2> HIDE DEF one
  <2>1. r \in 1..Len(list)
    OBVIOUS
  <2> QED
    BY <1>1, <2>1 DEF one
<1>3. DOMAIN more = DOMAIN list /\ more[r] = one /\ \A s \in DOMAIN list : s # r => more[s] = list[s]
  OBVIOUS
<1>4. \A c : Carried(c, more) = IF c = x THEN Carried(c, list) \cup {r} ELSE Carried(c, list)
  <2> HIDE DEF one, more
  <2> QED
    BY <1>1, <1>3 DEF Carried
<1> QED
  BY <1>2, <1>4 DEF Combining

\* The decisions on a batch make it that each of its candidates is in no
\* requirement if it is rejected and in one otherwise, and leave the others.
Placed(batch, choices, before, after) ==
    /\ \A c \in Nat \X Nat : (\A i \in DOMAIN choices : c # batch[i]) => Carried(c, after) = Carried(c, before)
    /\ \A i \in DOMAIN choices :
         IF choices[i].action = "reject" THEN Carried(batch[i], after) = {}
         ELSE \E r \in DOMAIN after : Carried(batch[i], after) = {r}

\* That is what they do (_validate_curation, _apply_decisions).
LEMMA Deciding ==
    ASSUME reqs \in Seq(Curated), NEW n \in Nat, NEW batch \in [1..n -> Nat \X Nat], Distinct(batch),
           NEW peers \in SUBSET (DOMAIN reqs), NEW choices \in Decisions(n), ChoicesOK(choices, peers),
           \A i \in 1..n : Carried(batch[i], reqs) = {}
    PROVE  /\ Decide(batch, choices) \in Seq(Curated)
           /\ Placed(batch, choices, reqs, Decide(batch, choices))
<1> DEFINE Acc  == [reqs : Seq(Curated), at : [1..n -> Nat]]
           base == [reqs |-> reqs, at |-> [i \in DOMAIN batch |-> 0]]
           To(acc, c) == CASE c.action = "reject" -> 0
                           [] c.action = "retain" -> Len(acc.reqs) + 1
                           [] c.action = "merge" -> IF c.into[1] = "REQ" THEN c.into[2] ELSE acc.at[c.into[2]]
           Grown(acc, i, c, at) ==
             CASE c.action = "reject" -> acc.reqs
               [] c.action = "retain" ->
                    Append(acc.reqs, Combine([sources |-> {}, deps |-> {}], batch[i], c.edit))
               [] c.action = "merge" -> [acc.reqs EXCEPT ![at] = Combine(@, batch[i], c.edit)]
           Put(acc, i) == [at   |-> [acc.at EXCEPT ![i] = To(acc, choices[i])],
                           reqs |-> Grown(acc, i, choices[i], To(acc, choices[i]))]
           places == [i \in DOMAIN batch |-> i]
           Body(g) == [s \in SUBSET (DOMAIN places) |->
                         IF s = {} THEN base ELSE Put(g[s \ {Max(s)}], places[Max(s)])]
           f == CHOOSE g : g = Body(g)
           end == f[DOMAIN places]
<1>1. Decide(batch, choices) = end.reqs
  BY Zenon DEF Decide, FoldLeft, MapThenFoldSet
<1>2. n \in Nat /\ DOMAIN batch = 1..n /\ \A i \in 1..n : batch[i] \in Nat \X Nat
  OBVIOUS
<1>3. DOMAIN places = 1..n /\ \A i \in 1..n : places[i] = i
  BY <1>2
<1>4. base \in Acc
  <2>1. [i \in DOMAIN batch |-> 0] \in [1..n -> Nat]
    BY <1>2
  <2> QED
    BY <2>1
<1>5. \A i \in 1..n : /\ choices[i].action \in {"retain", "merge", "reject"}
                      /\ choices[i].edit \in {None} \cup SUBSET Nat
                      /\ choices[i].action = "merge" =>
                           \/ \E r \in DOMAIN reqs : choices[i].into = <<"REQ", r>>
                           \/ \E j \in 1..(i - 1) : choices[j].action = "retain" /\ choices[i].into = <<"CAND", j>>
  <2> SUFFICES ASSUME NEW i \in 1..n
               PROVE  /\ choices[i].action \in {"retain", "merge", "reject"}
                      /\ choices[i].edit \in {None} \cup SUBSET Nat
                      /\ choices[i].action = "merge" =>
                           \/ \E r \in DOMAIN reqs : choices[i].into = <<"REQ", r>>
                           \/ \E j \in 1..(i - 1) : choices[j].action = "retain" /\ choices[i].into = <<"CAND", j>>
    OBVIOUS
  <2>1. i \in DOMAIN choices /\ choices[i].action \in {"retain", "merge", "reject"}
    BY DEF Decisions
  <2>2. /\ IF choices[i].action = "merge"
             THEN \/ choices[i].into \in {"REQ"} \X peers
                  \/ \E j \in 1..(i - 1) : choices[j].action = "retain" /\ choices[i].into = <<"CAND", j>>
             ELSE choices[i].into = None
        /\ choices[i].edit # None => choices[i].edit \subseteq DOMAIN reqs
    BY <2>1 DEF ChoicesOK
  <2>3. DOMAIN reqs \subseteq Nat
    OBVIOUS
  <2> QED
    BY <2>1, <2>2, <2>3
<1> DEFINE Ready(a, k) ==
             /\ a \in Acc /\ Len(reqs) <= Len(a.reqs)
             /\ \A j \in 1..k : IF choices[j].action = "reject" THEN Carried(batch[j], a.reqs) = {}
                                ELSE a.at[j] \in DOMAIN a.reqs /\ Carried(batch[j], a.reqs) = {a.at[j]}
             /\ \A c \in Nat \X Nat : (\A j \in 1..k : c # batch[j]) => Carried(c, a.reqs) = Carried(c, reqs)
\* what the next decision does
<1>6. ASSUME NEW k \in Nat, k + 1 <= n, NEW a, Ready(a, k)
      PROVE  Ready(Put(a, k + 1), k + 1)
  <2> DEFINE i == k + 1
             x == batch[i]
             ch == choices[i]
             at == To(a, ch)
             b == Put(a, i)
  <2>1. /\ i \in 1..n /\ x \in Nat \X Nat /\ a.reqs \in Seq(Curated) /\ a.at \in [1..n -> Nat]
        /\ \A j \in 1..k : j \in 1..n /\ j # i
        /\ \A j \in 1..i : j \in 1..k \/ j = i
    <3>1. i \in 1..n
      BY <1>6
    <3>2. (\A j \in 1..k : j \in 1..n /\ j # i) /\ (\A j \in 1..i : j \in 1..k \/ j = i)
      BY <1>6
    <3> QED
      BY <1>2, <1>6, <3>1, <3>2
  <2>2. \A j \in 1..k : x # batch[j]
    BY <1>2, <2>1 DEF Distinct
  <2>3. Carried(x, a.reqs) = {}
    <3>1. Carried(x, a.reqs) = Carried(x, reqs)
      BY <1>6, <2>1, <2>2
    <3> QED
      BY <2>1, <3>1
  <2>4. b.at = [a.at EXCEPT ![i] = at] /\ b.reqs = Grown(a, i, ch, at)
    OBVIOUS
  <2>5. /\ ch.action \in {"retain", "merge", "reject"} /\ (ch.edit \in {None} \cup SUBSET Nat)
        /\ ch.action = "merge" =>
             \/ \E r \in DOMAIN reqs : ch.into = <<"REQ", r>>
             \/ \E j \in 1..k : choices[j].action = "retain" /\ ch.into = <<"CAND", j>>
    <3>1. i - 1 = k
      BY <1>6
    <3> QED
      BY <1>5, <2>1, <3>1
  \* what it does to the list and what that says of who carries what
  <2>6. /\ b.reqs \in Seq(Curated) /\ Len(a.reqs) <= Len(b.reqs) /\ at \in Nat
        /\ IF ch.action = "reject" THEN b.reqs = a.reqs
           ELSE /\ at \in DOMAIN b.reqs
                /\ \A c : Carried(c, b.reqs) = IF c = x THEN {at} ELSE Carried(c, a.reqs)
    <3>1. CASE ch.action = "reject"
      <4>1. at = 0 /\ b.reqs = a.reqs
        BY <2>4, <3>1
      <4>2. Len(a.reqs) <= Len(a.reqs)
        BY <2>1
      <4> HIDE DEF at, b
      <4> QED
        BY <2>1, <3>1, <4>1, <4>2
    <3>2. CASE ch.action = "retain"
      <4> DEFINE new == Combine([sources |-> {}, deps |-> {}], x, ch.edit)
      <4>1. at = Len(a.reqs) + 1 /\ b.reqs = Append(a.reqs, new)
        BY <2>4, <3>2
      <4>2. new.sources = {x} /\ new \in Curated
        <5>1. new = [sources |-> {} \cup {x}, deps |-> IF ch.edit = None THEN {} ELSE ch.edit]
          BY DEF Combine
        <5> HIDE DEF new, x, ch
        <5> QED
          BY <2>1, <2>5, <5>1 DEF Curated
      <4> HIDE DEF new, at, b, x, ch
      <4>3. \A c : Carried(c, b.reqs) = Carried(c, a.reqs) \cup (IF c \in new.sources THEN {Len(a.reqs) + 1} ELSE {})
        <5> DEFINE list == a.reqs
        <5>1. list \in Seq(Curated) /\ b.reqs = Append(list, new)
          BY <2>1, <4>1
        <5> HIDE DEF list
        <5>2. \A c : Carried(c, Append(list, new)) = Carried(c, list) \cup (IF c \in new.sources THEN {Len(list) + 1} ELSE {})
          BY <4>2, <5>1, CarriedAppend
        <5> QED
          BY <5>1, <5>2 DEF list
      <4>4. b.reqs \in Seq(Curated) /\ Len(b.reqs) = Len(a.reqs) + 1 /\ Len(a.reqs) \in Nat
        BY <2>1, <4>1, <4>2, AppendProperties
      <4>5. at \in DOMAIN b.reqs /\ at \in Nat /\ Len(a.reqs) <= Len(b.reqs)
        BY <4>1, <4>4
      <4>6. \A c : Carried(c, b.reqs) = IF c = x THEN {at} ELSE Carried(c, a.reqs)
        BY <2>3, <4>1, <4>2, <4>3
      <4> QED
        BY <3>2, <4>4, <4>5, <4>6
    <3>3. CASE ch.action = "merge"
      <4>1. at \in DOMAIN a.reqs
        <5>1. CASE \E r \in DOMAIN reqs : ch.into = <<"REQ", r>>
          <6>1. PICK r \in DOMAIN reqs : ch.into = <<"REQ", r>>
            BY <5>1
          <6>2. at = r
            BY <3>3, <6>1
          <6>3. r \in 1..Len(reqs) /\ Len(reqs) \in Nat /\ Len(a.reqs) \in Nat /\ DOMAIN a.reqs = 1..Len(a.reqs)
            BY <2>1
          <6>4. Len(reqs) <= Len(a.reqs)
            BY <1>6
          <6> HIDE DEF at
          <6> QED
            BY <6>2, <6>3, <6>4
        <5>2. CASE \E j \in 1..k : choices[j].action = "retain" /\ ch.into = <<"CAND", j>>
          <6>1. PICK j \in 1..k : choices[j].action = "retain" /\ ch.into = <<"CAND", j>>
            BY <5>2
          <6>2. at = a.at[j]
            BY <3>3, <6>1
          <6>3. a.at[j] \in DOMAIN a.reqs
            BY <1>6, <6>1
          <6> HIDE DEF at
          <6> QED
            BY <6>2, <6>3
        <5> HIDE DEF ch, at
        <5> QED
          BY <2>5, <3>3, <5>1, <5>2
      <4>2. b.reqs = [a.reqs EXCEPT ![at] = Combine(@, x, ch.edit)]
        BY <2>4, <3>3
      <4> HIDE DEF at, b, x, ch
      <4>3. /\ b.reqs \in Seq(Curated) /\ Len(b.reqs) = Len(a.reqs)
            /\ \A c : Carried(c, b.reqs) = IF c = x THEN Carried(c, a.reqs) \cup {at} ELSE Carried(c, a.reqs)
        <5> DEFINE list == a.reqs
                   more == b.reqs
                   edit == ch.edit
        <5>1. list \in Seq(Curated) /\ more = Combining(list, at, x, edit) /\ at \in DOMAIN list
              /\ edit \in {None} \cup SUBSET Nat
          BY <2>1, <2>5, <4>1, <4>2 DEF Combining
        <5> HIDE DEF list, more, edit
        <5>a. x \in Nat \X Nat
          BY <2>1
        <5>b. Combining(list, at, x, edit) \in Seq(Curated)
          BY <5>1, <5>a, CarriedCombine
        <5>d. Len(Combining(list, at, x, edit)) = Len(list)
          BY <5>1, <5>b DEF Combining
        <5>c. \A c : Carried(c, Combining(list, at, x, edit)) =
                      IF c = x THEN Carried(c, list) \cup {at} ELSE Carried(c, list)
          BY <5>1, <5>a, CarriedCombine
        <5>2. /\ more \in Seq(Curated) /\ Len(more) = Len(list)
              /\ \A c : Carried(c, more) = IF c = x THEN Carried(c, list) \cup {at} ELSE Carried(c, list)
          BY <5>1, <5>b, <5>c, <5>d
        <5> QED
          BY <5>2 DEF list, more
      <4>4. at \in DOMAIN b.reqs /\ at \in Nat /\ Len(a.reqs) <= Len(b.reqs)
        BY <2>1, <4>1, <4>3
      <4>5. \A c : Carried(c, b.reqs) = IF c = x THEN {at} ELSE Carried(c, a.reqs)
        BY <2>3, <4>3
      <4> QED
        BY <3>3, <4>3, <4>4, <4>5
    <3> HIDE DEF ch
    <3> QED
      BY <2>5, <3>1, <3>2, <3>3
  <2>7. b \in Acc /\ b.at[i] = at /\ \A j \in 1..k : b.at[j] = a.at[j]
    <3>1. b = [at |-> b.at, reqs |-> b.reqs]
      <4> HIDE DEF To, Grown
      <4> QED
        OBVIOUS
    <3> HIDE DEF b, at, ch, x
    <3>2. b.at \in [1..n -> Nat]
      BY <2>1, <2>4, <2>6
    <3>3. b.at[i] = at /\ \A j \in 1..k : b.at[j] = a.at[j]
      <4> HIDE DEF i
      <4> QED
        BY <2>1, <2>4
    <3> QED
      BY <2>6, <3>1, <3>2, <3>3
  <2>8. Len(reqs) <= Len(b.reqs)
    <3>1. Len(reqs) <= Len(a.reqs) /\ Len(reqs) \in Nat /\ Len(a.reqs) \in Nat /\ Len(b.reqs) \in Nat
      <4> HIDE DEF b
      <4> QED
        BY <1>6, <2>1, <2>6
    <3> HIDE DEF b, at, ch
    <3> QED
      BY <2>6, <3>1
  <2>9. ASSUME NEW c \in Nat \X Nat, \A j \in 1..i : c # batch[j]
        PROVE  Carried(c, b.reqs) = Carried(c, reqs)
    <3>1. c # x /\ \A j \in 1..k : c # batch[j]
      <4>1. i \in 1..i /\ \A j \in 1..k : j \in 1..i
        BY <1>6
      <4> QED
        BY <2>9, <4>1
    <3>2. Carried(c, a.reqs) = Carried(c, reqs)
      BY <1>6, <3>1
    <3> HIDE DEF b, at, ch, x
    <3> QED
      BY <2>6, <3>1, <3>2
  <2>10. ASSUME NEW j \in 1..i
         PROVE  IF choices[j].action = "reject" THEN Carried(batch[j], b.reqs) = {}
                ELSE b.at[j] \in DOMAIN b.reqs /\ Carried(batch[j], b.reqs) = {b.at[j]}
    <3>1. CASE j = i
      <4>1. j = i /\ choices[j] = ch /\ batch[j] = x
        BY <3>1
      <4> HIDE DEF b, at, ch, x, i
      <4> QED
        BY <2>3, <2>6, <2>7, <4>1
    <3>2. CASE j # i
      <4>1. j \in 1..k
        BY <2>1, <3>2
      <4>2. x # batch[j]
        BY <2>2, <4>1
      <4>3. IF choices[j].action = "reject" THEN Carried(batch[j], a.reqs) = {}
            ELSE a.at[j] \in DOMAIN a.reqs /\ Carried(batch[j], a.reqs) = {a.at[j]}
        BY <1>6, <4>1
      <4>4. Carried(batch[j], b.reqs) = Carried(batch[j], a.reqs) /\ b.at[j] = a.at[j]
        <5> HIDE DEF b, at, ch, x, i
        <5> QED
          BY <2>6, <2>7, <4>1, <4>2
      <4>5. a.at[j] \in DOMAIN a.reqs => a.at[j] \in DOMAIN b.reqs
        <5>1. Len(a.reqs) \in Nat /\ Len(b.reqs) \in Nat /\ Len(a.reqs) <= Len(b.reqs)
              /\ DOMAIN a.reqs = 1..Len(a.reqs) /\ DOMAIN b.reqs = 1..Len(b.reqs)
          <6> HIDE DEF b, at, ch, x, i
          <6>1. a.reqs \in Seq(Curated) /\ b.reqs \in Seq(Curated) /\ Len(a.reqs) <= Len(b.reqs)
            BY <2>1, <2>6
          <6> QED
            BY <6>1, LenProperties
        <5> HIDE DEF b, at, ch, x, i
        <5> QED
          BY <5>1
      <4> HIDE DEF b, at, ch, x, i
      <4> QED
        BY <4>3, <4>4, <4>5
    <3> QED
      BY <3>1, <3>2
  <2> HIDE DEF Acc, Put, at, ch, x
  <2> QED
    BY <2>7, <2>8, <2>9, <2>10
\* whatever the requirements so far are, a decision makes some of them
<1>7. ASSUME NEW a \in Acc, NEW i \in 1..n  PROVE Put(a, i) \in Acc
  <2> DEFINE ch == choices[i]
             at == To(a, ch)
             x  == batch[i]
             grown == Grown(a, i, ch, at)
  <2>1. /\ ch.action \in {"retain", "merge", "reject"} /\ ch.edit \in {None} \cup SUBSET Nat
        /\ x \in Nat \X Nat /\ a.reqs \in Seq(Curated) /\ a.at \in [1..n -> Nat]
    BY <1>2, <1>5
  <2>0. SUFFICES at \in Nat /\ grown \in Seq(Curated)
    <3>1. Put(a, i) = [at |-> [a.at EXCEPT ![i] = at], reqs |-> grown]
      OBVIOUS
    <3> HIDE DEF Put, at, grown, ch
    <3>2. [a.at EXCEPT ![i] = at] \in [1..n -> Nat]
      BY <2>1
    <3> QED
      BY <3>1, <3>2
  <2>2. CASE ch.action = "reject"
    <3>1. at = 0 /\ grown = a.reqs
      BY <2>2
    <3> HIDE DEF at, grown, ch
    <3> QED
      BY <2>1, <3>1
  <2>3. CASE ch.action = "retain"
    <3> DEFINE new == Combine([sources |-> {}, deps |-> {}], x, ch.edit)
    <3>1. at = Len(a.reqs) + 1 /\ grown = Append(a.reqs, new)
      BY <2>3
    <3>2. new \in Curated
      <4>1. new = [sources |-> {} \cup {x}, deps |-> IF ch.edit = None THEN {} ELSE ch.edit]
        BY DEF Combine
      <4> HIDE DEF new, x, ch
      <4> QED
        BY <2>1, <4>1 DEF Curated
    <3> HIDE DEF at, grown, ch, new
    <3>3. Append(a.reqs, new) \in Seq(Curated) /\ Len(a.reqs) + 1 \in Nat
      BY <2>1, <3>2, AppendProperties
    <3> QED
      BY <3>1, <3>3
  <2>4. CASE ch.action = "merge"
    <3>1. at \in Nat
      <4>1. CASE \E r \in DOMAIN reqs : ch.into = <<"REQ", r>>
        <5>1. PICK r \in DOMAIN reqs : ch.into = <<"REQ", r>>
          BY <4>1
        <5>2. at = r /\ r \in Nat
          BY <2>4, <5>1
        <5> QED
          BY <5>2
      <4>2. CASE \E j \in 1..(i - 1) : choices[j].action = "retain" /\ ch.into = <<"CAND", j>>
        <5>1. PICK j \in 1..(i - 1) : choices[j].action = "retain" /\ ch.into = <<"CAND", j>>
          BY <4>2
        <5>2. at = a.at[j] /\ j \in 1..n
          BY <2>4, <5>1
        <5> HIDE DEF at
        <5> QED
          BY <2>1, <5>2
      <4>3. \/ \E r \in DOMAIN reqs : ch.into = <<"REQ", r>>
            \/ \E j \in 1..(i - 1) : choices[j].action = "retain" /\ ch.into = <<"CAND", j>>
        BY <1>5, <2>4
      <4> HIDE DEF at, ch
      <4> QED
        BY <4>1, <4>2, <4>3
    <3>2. grown = [a.reqs EXCEPT ![at] = Combine(@, x, ch.edit)]
      BY <2>4
    <3> HIDE DEF at, ch, x, grown
    <3>3. CASE at \in DOMAIN a.reqs
      <4> DEFINE list == a.reqs
                 edit == ch.edit
      <4>1. /\ list \in Seq(Curated) /\ grown = Combining(list, at, x, edit)
            /\ at \in DOMAIN list /\ edit \in {None} \cup SUBSET Nat
        BY <2>1, <3>2, <3>3 DEF Combining
      <4> HIDE DEF list, edit
      <4>2. Combining(list, at, x, edit) \in Seq(Curated)
        BY <2>1, <4>1, CarriedCombine
      <4> QED
        BY <3>1, <4>1, <4>2
    <3>4. CASE at \notin DOMAIN a.reqs
      <4>1. grown = a.reqs
        BY <2>1, <3>2, <3>4
      <4> QED
        BY <2>1, <3>1, <4>1
    <3> QED
      BY <3>3, <3>4
  <2> HIDE DEF ch, at, grown
  <2> QED
    BY <2>1, <2>2, <2>3, <2>4
<1> DEFINE h == [p \in Acc \X (1..n) |-> Put(p[1], p[2])]
<1>8. f = Body(f)
  <2>1. h \in [Acc \X (1..n) -> Acc] /\ \A a \in Acc, i \in 1..n : h[<<a, i>>] = Put(a, i)
    <3> HIDE DEF Put, Acc
    <3> QED
      BY <1>7
  <2> HIDE DEF h, Put, Acc, base, places
  <2>2. PICK g \in [SUBSET (1..n) -> Acc] : Folds(g, h, base, n)
    BY <1>2, <1>4, <2>1, Iterated
  <2>3. ASSUME NEW s \in SUBSET (1..n)
        PROVE  g[s] = IF s = {} THEN base ELSE Put(g[s \ {Max(s)}], places[Max(s)])
    <3>1. g[s] = IF s = {} THEN base ELSE h[<<g[s \ {Max(s)}], Max(s)>>]
      BY <2>2 DEF Folds
    <3>2. s # {} => Max(s) \in 1..n /\ g[s \ {Max(s)}] \in Acc /\ places[Max(s)] = Max(s)
      BY <1>2, <1>3, MaxPlace
    <3> QED
      BY <2>1, <3>1, <3>2
  <2>4. g = Body(g)
    BY <1>3, <2>3
  <2> HIDE DEF Body
  <2> QED
    BY <2>4
<1> HIDE DEF f
<1>9. \A s \in SUBSET (1..n) : f[s] = IF s = {} THEN base ELSE Put(f[s \ {Max(s)}], places[Max(s)])
  <2> HIDE DEF Put, base, places
  <2> QED
    BY <1>3, <1>8
<1> DEFINE T == {k \in Nat : k <= n => Ready(f[1..k], k)}
<1>10. 0 \in T
  <2>1. f[1..0] = base
    <3>1. 1..0 = {} /\ {} \in SUBSET (1..n)
      OBVIOUS
    <3> HIDE DEF base, Put, places
    <3> QED
      BY <1>9, <3>1
  <2>2. base \in Acc /\ base.reqs = reqs /\ Len(reqs) \in Nat
    BY <1>4
  <2>3. Ready(base, 0)
    <3>1. \A j \in 1..0 : FALSE
      OBVIOUS
    <3>2. Len(reqs) <= Len(base.reqs)
      BY <2>2
    <3> HIDE DEF base, Acc
    <3> QED
      BY <2>2, <3>1, <3>2
  <2> HIDE DEF Ready, base
  <2> QED
    BY <2>1, <2>3
<1>11. ASSUME NEW k \in Nat, k \in T  PROVE k + 1 \in T
  <2>0. SUFFICES ASSUME k + 1 <= n  PROVE Ready(f[1..(k + 1)], k + 1)
    <3>1. k + 1 \in Nat
      OBVIOUS
    <3> HIDE DEF Ready
    <3> QED
      BY <3>1
  <2>1. k + 1 \in 1..n /\ k <= n
    BY <1>2, <2>0
  <2>2. Ready(f[1..k], k)
    <3> HIDE DEF Ready
    <3> QED
      BY <1>11, <2>1
  <2>3. f[1..(k + 1)] = Put(f[1..k], k + 1)
    <3>1. /\ 1..(k + 1) \in SUBSET (1..n) /\ 1..(k + 1) # {} /\ Max(1..(k + 1)) = k + 1
          /\ (1..(k + 1)) \ {k + 1} = 1..((k + 1) - 1)
      BY <1>2, <2>1, IteratedPrefix
    <3>2. (k + 1) - 1 = k /\ places[k + 1] = k + 1
      BY <1>3, <2>1
    <3> HIDE DEF Put, base, places
    <3> QED
      BY <1>9, <3>1, <3>2
  <2> HIDE DEF Ready, Put
  <2> QED
    BY <1>6, <2>0, <2>2, <2>3
<1>12. Ready(end, n)
  <2>1. Nat \subseteq T
    <3> HIDE DEF T
    <3> QED
      BY <1>10, <1>11, SetInduction
  <2>2. end = f[1..n]
    BY <1>3
  <2>3. n <= n
    BY <1>2
  <2> HIDE DEF Ready, end
  <2> QED
    BY <1>2, <2>1, <2>2, <2>3
<1> DEFINE after == Decide(batch, choices)
<1>13. after = end.reqs
  BY <1>1
<1> HIDE DEF end, after
<1>14. /\ after \in Seq(Curated)
       /\ \A c \in Nat \X Nat : (\A i \in 1..n : c # batch[i]) => Carried(c, after) = Carried(c, reqs)
       /\ \A i \in 1..n :
            IF choices[i].action = "reject" THEN Carried(batch[i], after) = {}
            ELSE end.at[i] \in DOMAIN after /\ Carried(batch[i], after) = {end.at[i]}
  BY <1>12, <1>13
<1>15. DOMAIN choices = 1..n
  BY DEF Decisions
<1>16. Placed(batch, choices, reqs, after)
  BY <1>14, <1>15 DEF Placed
<1> QED
  BY <1>14, <1>16 DEF after

\* No scout's candidates are None.
LEMMA FoundIs == ASSUME NEW s \in Seq(Position)  PROVE s # None
<1>1. Position \subseteq Nat \X Nat
  BY DEF Position
<1>2. s \in Seq(Nat \X Nat)
  BY <1>1, SeqMonotonic
<1> QED
  BY <1>2, NoneAssumption

\* The candidates of all scouts are a list without repetition, none of which a
\* gap audit brings (scout 0).
LEMMA CandidatesAre ==
    ASSUME PhaseInv, FoundInv, step \in Complete
    PROVE  /\ Candidates \in Seq(Position) /\ Len(Candidates) \in Nat /\ DOMAIN Candidates = 1..Len(Candidates)
           /\ Distinct(Candidates)
<1>1. step \in Curating
  BY DEF Complete, Curating
<1>2. Len(Groups) \in Nat /\ DOMAIN Groups = 1..Len(Groups)
  BY <1>1, GroupsAre DEF PhaseInv
<1>3. found \in [1..Len(Groups) -> {None} \cup Seq(Position)] /\ Scouted
  BY <1>1 DEF FoundInv
<1>4. found \in Seq(Seq(Position)) /\ Len(found) = Len(Groups)
  <2>1. \A g \in 1..Len(Groups) : found[g] \in Seq(Position)
    BY <1>3 DEF Scouted
  <2>2. found \in [1..Len(Groups) -> Seq(Position)]
    BY <1>3, <2>1
  <2> QED
    BY <1>2, <2>2
<1>5. \A g \in 1..Len(found) : Distinct(found[g]) /\ \A i \in DOMAIN found[g] : found[g][i][1] = g
  BY <1>1, <1>3, <1>4 DEF FoundInv, Scouted
<1>6. \A g, h \in 1..Len(found) : g # h => ToSet(found[g]) \cap ToSet(found[h]) = {}
  BY <1>5 DEF ToSet
<1>7. Distinct(Candidates)
  BY <1>4, <1>5, <1>6, FlattenElements DEF Candidates
<1>8. Candidates \in Seq(Position)
  <2>1. <<>> \in Seq(Position)
    BY EmptySeq
  <2> QED
    BY <1>4, <2>1, FlattenAppend DEF Candidates
<1> QED
  BY <1>7, <1>8, LenProperties

\* Which scout of the efficient pipeline is next and which was the last.
LEMMA Scouts ==
    ASSUME PhaseInv, FoundInv, step \in {"scout", "audit", "owned"}, NEW k \in 0..Len(Groups), Ended(k)
    PROVE  /\ Len(found) = Len(Groups) /\ Len(Groups) \in Nat /\ DOMAIN found = 1..Len(Groups)
           /\ Scouted <=> k = Len(Groups)
           /\ ~Scouted => NextScout = k + 1 /\ k + 1 \in 1..Len(Groups)
           /\ LastScout = k
<1> DEFINE n == Len(Groups)
<1>1. step \in Curating
  BY DEF Curating
<1>2. n \in Nat
  BY <1>1, GroupsAre DEF PhaseInv
<1>3. found \in [1..n -> {None} \cup Seq(Position)] /\ \A g \in 1..n : found[g] # None <=> g <= k
  BY <1>1 DEF FoundInv, Ended
<1> HIDE DEF n
<1>4. Len(found) = n /\ DOMAIN found = 1..n
  BY <1>2, <1>3
<1>5. Scouted <=> k = n
  <2>1. CASE k = n
    BY <1>2, <1>3, <1>4, <2>1 DEF Scouted
  <2>2. CASE k # n
    <3>1. k + 1 \in 1..n /\ ~(k + 1 <= k)
      BY <1>2, <2>2 DEF n
    <3> QED
      BY <1>3, <1>4, <2>2, <3>1 DEF Scouted
  <2> QED
    BY <2>1, <2>2
<1>6. ASSUME ~Scouted  PROVE NextScout = k + 1 /\ k + 1 \in 1..n
  <2>1. k + 1 \in 1..n /\ k \in Nat
    BY <1>2, <1>5, <1>6 DEF n
  <2> DEFINE First(g) == found[g] = None /\ \A h \in 1..(g - 1) : found[h] # None
  <2>2. First(k + 1)
    <3>1. ~(k + 1 <= k)
      BY <2>1
    <3>2. \A h \in 1..((k + 1) - 1) : h \in 1..n /\ h <= k
      BY <1>2, <2>1
    <3> QED
      BY <1>3, <2>1, <3>1, <3>2
  <2>3. ASSUME NEW g \in 1..n, First(g)  PROVE g = k + 1
    <3>1. ~(g <= k)
      BY <1>3, <2>3
    <3>2. CASE g > k + 1
      <4>1. k + 1 \in 1..(g - 1) /\ found[k + 1] = None
        BY <1>2, <2>1, <2>2, <3>2
      <4> QED
        BY <2>3, <4>1
    <3>3. g \in Int /\ k \in Int
      BY <2>1, <1>2
    <3> QED
      BY <3>1, <3>2, <3>3
  <2>4. NextScout = CHOOSE g \in 1..n : First(g)
    BY <1>4 DEF NextScout
  <2> HIDE DEF First
  <2> QED
    BY <2>1, <2>2, <2>3, <2>4
<1>7. LastScout = k
  <2>1. CASE Scouted
    BY <1>4, <1>5, <2>1 DEF LastScout
  <2>2. CASE ~Scouted
    <3>1. (k + 1) - 1 = k
      BY <1>2 DEF n
    <3> QED
      BY <1>6, <2>2, <3>1 DEF LastScout
  <2> QED
    BY <2>1, <2>2
<1> QED
  BY <1>2, <1>4, <1>5, <1>6, <1>7 DEF n

\* Only the curation goes on in its steps; all others leave them.
LEMMA CurationSteps ==
    ASSUME PhaseInv, [Next]_vars
    PROVE  /\ profile' = profile
           /\ \/ step' \notin Curating
              \/ Curate /\ step \in Curating
              \/ UNCHANGED <<step, curation>>
<1> USE DEF Curating, Claim
<1>1. CASE Curate /\ UNCHANGED <<drafting, review, judging>>
  BY <1>1 DEF Curate, Scout, SourceAudit, CheckOwnership, CurateBatch, CurateDone, RejectionAudit,
              RecheckDone, ScoutCorrected, Synthesize, DecideAll, Materialize, MaterializeDone, HandOver
<1>2. CASE Draft /\ UNCHANGED <<curation, review, judging>>
  BY <1>2 DEF Draft, DesignTask, DesignDone, Architect, WriteTests, Assemble, SingleAnswer,
                StagedRequirements, StagedScenarios, StagedTests
<1>3. CASE ReviewStep /\ UNCHANGED <<curation, drafting, judging>>
  <2>1. CASE SkipCritic \/ CriticTask \/ CriticDone \/ NextRepair \/ Patch
    BY <2>1 DEF SkipCritic, CriticTask, CriticDone, NextRepair, Patch
  <2>2. CASE GapScenarios \/ GapTargets \/ GapTests \/ GapDone \/ Verify
    BY <2>2 DEF GapScenarios, GapTargets, GapTests, GapDone, Verify
  <2>3. CASE CritiqueSuite \/ RepairRole \/ RepairsDone \/ VerifyAll
    BY <2>3 DEF CritiqueSuite, RepairRole, RepairsDone, VerifyAll
  <2>4. CASE LinkUncovered \/ Revise \/ Finish
    BY <2>4 DEF LinkUncovered, Revise, Finish
  <2> QED
    BY <1>3, <2>1, <2>2, <2>3, <2>4 DEF ReviewStep
<1>4. CASE JudgeStep /\ UNCHANGED <<curation, drafting, review>>
  BY <1>4 DEF JudgeStep, LoadUnits, ExtractUnits, CatalogDone, StartEvaluation, EvaluationTask,
              NextUnits, Score, JudgeFails, run
<1>5. CASE Fail
  BY <1>5 DEF Fail
<1>6. CASE UNCHANGED vars
  BY <1>6 DEF vars, run
<1> QED
  BY <1>1, <1>2, <1>3, <1>4, <1>5, <1>6 DEF Next

\* Every step keeps each list of the curation there exactly in its steps.
LEMMA PhaseStep == ASSUME PhaseInv, [Next]_vars  PROVE PhaseInv'
<1> USE DEF Curating, Claim
<1>1. CASE step' \notin Curating
  BY <1>1, CurationSteps DEF PhaseInv
<1>2. CASE UNCHANGED <<step, curation>>
  BY <1>2, CurationSteps DEF PhaseInv, curation, extraction
<1>3. CASE Curate /\ step \in Curating /\ step' \in Curating
  <2>1. document' = document
    BY <1>3 DEF Curate, Scout, SourceAudit, CheckOwnership, CurateBatch, CurateDone, RejectionAudit,
                RecheckDone, ScoutCorrected, Synthesize, DecideAll, Materialize, MaterializeDone, HandOver,
                curation, extraction
  <2>2. profile' = profile
    BY CurationSteps
  <2>3. (step' \in {"audit", "owned", "recheck"} => profile = "efficient") /\ (step' = "materialize" => profile = "corrected")
    BY <1>3 DEF PhaseInv, Curate, Scout, SourceAudit, CheckOwnership, CurateBatch, CurateDone, RejectionAudit,
                RecheckDone, ScoutCorrected, Synthesize, DecideAll, Materialize, MaterializeDone, HandOver
  <2>4. profile \notin {"single", "staged"}
    BY <1>3 DEF PhaseInv, Curate, Scout, SourceAudit, CheckOwnership, CurateBatch, CurateDone, RejectionAudit,
                RecheckDone, ScoutCorrected, Synthesize, DecideAll, Materialize, MaterializeDone, HandOver
  <2> QED
    BY <1>3, <2>1, <2>2, <2>3, <2>4 DEF PhaseInv
<1> QED
  BY <1>1, <1>2, <1>3, CurationSteps

\* The shares of the scouts do not change while requirements are curated.
LEMMA SameShares ==
    ASSUME PhaseInv, [Next]_vars, step' \in Curating
    PROVE  step \in Curating /\ profile' = profile /\ document' = document /\ Groups' = Groups
<1>1. CASE UNCHANGED <<step, curation>>
  <2>1. document' = document /\ profile' = profile
    BY <1>1, CurationSteps DEF curation, extraction
  <2> QED
    BY <1>1, <2>1 DEF Groups, Chunks, Padding
<1>2. CASE Curate /\ step \in Curating
  <2>1. document' = document
    BY <1>2 DEF Curate, Scout, SourceAudit, CheckOwnership, CurateBatch, CurateDone, RejectionAudit,
                RecheckDone, ScoutCorrected, Synthesize, DecideAll, Materialize, MaterializeDone, HandOver,
                curation, extraction, Curating, Claim
  <2>2. profile' = profile
    BY CurationSteps
  <2> QED
    BY <1>2, <2>1, <2>2 DEF Groups, Chunks, Padding
<1> QED
  BY <1>1, <1>2, CurationSteps

\* Candidates numbered from 1.
Numbered(g, n) == [i \in 1..n |-> <<g, i>>]

\* Candidates so numbered are the group's own, each once.
LEMMA NumberedIs ==
    ASSUME NEW g \in Nat \ {0}, NEW n \in Nat
    PROVE  /\ Numbered(g, n) \in Seq(Position) /\ Numbered(g, n) # None
           /\ Distinct(Numbered(g, n)) /\ \A i \in DOMAIN Numbered(g, n) : Numbered(g, n)[i][1] = g
<1> DEFINE s == Numbered(g, n)
<1>1. s \in Seq(Position)
  <2>1. \A i \in 1..n : <<g, i>> \in Position
    BY DEF Position
  <2> QED
    BY <2>1 DEF Numbered
<1>2. Distinct(s) /\ \A i \in DOMAIN s : s[i][1] = g
  BY DEF Numbered, Distinct
<1> QED
  BY <1>1, <1>2, FoundIs

\* A change of what one scout found to candidates of its own keeps that all
\* found what is theirs.
Own(g, s) == s \in Seq(Position) /\ Distinct(s) /\ \A i \in DOMAIN s : s[i][1] = g

\* The others' candidates stay what they were.
LEMMA FoundChange ==
    ASSUME PhaseInv, FoundInv, [Next]_vars, step' \in Curating,
           NEW g \in 1..Len(Groups), NEW s, Own(g, s), found' = [found EXCEPT ![g] = s]
    PROVE  /\ found' \in [1..Len(Groups)' -> {None} \cup Seq(Position)]
           /\ \A h \in 1..Len(Groups)' : found'[h] # None =>
                Distinct(found'[h]) /\ \A i \in DOMAIN found'[h] : found'[h][i][1] = h
           /\ found'[g] # None /\ \A h \in 1..Len(Groups) : h # g => found'[h] = found[h]
<1>1. step \in Curating /\ Groups' = Groups
  BY SameShares
<1>2. found \in [1..Len(Groups) -> {None} \cup Seq(Position)]
  BY <1>1 DEF FoundInv
<1>3. \A h \in 1..Len(Groups) : found'[h] = IF h = g THEN s ELSE found[h]
  BY <1>2
<1>4. s # None
  BY FoundIs DEF Own
<1> QED
  BY <1>1, <1>2, <1>3, <1>4 DEF FoundInv, Own

\* A scout finds a number of candidates.
LEMMA FindsAre == \A chunks : FindsFrom(chunks) \subseteq Nat
BY LimitsAssumption DEF FindsFrom

\* A scout of the efficient pipeline is the next one; with it the first k + 1
\* have ended.
LEMMA ScoutEnds ==
    ASSUME PhaseInv, FoundInv, [Next]_vars, Scout, step' \in Curating, NEW k \in 0..Len(Groups), Ended(k)
    PROVE  FoundInv' /\ k + 1 \in 0..Len(Groups)' /\ Ended(k + 1)'
<1> USE DEF Claim
<1>1. step = "scout" /\ profile = "efficient" /\ ~Scouted /\ step' = "audit"
  BY DEF Scout, Curating
<1>2. Ended(k)
  OBVIOUS
<1>3. /\ Len(Groups) \in Nat /\ DOMAIN found = 1..Len(Groups)
      /\ NextScout = k + 1 /\ k + 1 \in 1..Len(Groups)
  BY <1>1, <1>2, Scouts
<1>4. Groups' = Groups /\ profile' = profile
  BY SameShares
<1>5. Groups \in Seq(Seq(DOMAIN document))
  BY <1>1, GroupsAre DEF PhaseInv, Curating
<1>6. PICK n \in FindsFrom(Groups[k + 1]) : found' = [found EXCEPT ![k + 1] = Numbered(k + 1, n)]
  <2>1. \E n \in FindsFrom(Groups[NextScout]) : found' = [found EXCEPT ![NextScout] = Numbered(NextScout, n)]
    BY DEF Scout, Numbered
  <2>2. NextScout = k + 1
    BY <1>1, <1>3
  <2> QED
    BY <2>1, <2>2
<1>7. disposed' = disposed \o Groups[k + 1]
  BY <1>3 DEF Scout
<1>8. Own(k + 1, Numbered(k + 1, n))
  <2>1. n \in Nat /\ k + 1 \in Nat \ {0}
    BY <1>3, FindsAre
  <2> QED
    BY <2>1, NumberedIs DEF Own
<1>9. /\ found' \in [1..Len(Groups)' -> {None} \cup Seq(Position)]
      /\ \A h \in 1..Len(Groups)' : found'[h] # None =>
           Distinct(found'[h]) /\ \A i \in DOMAIN found'[h] : found'[h][i][1] = h
      /\ found'[k + 1] # None /\ \A h \in 1..Len(Groups) : h # k + 1 => found'[h] = found[h]
  BY <1>3, <1>6, <1>8, FoundChange
<1>10. FoundInv'
  BY <1>1, <1>9 DEF FoundInv, Complete
<1>11. Ended(k + 1)'
  <2>1. \A g \in 1..Len(Groups) : found'[g] # None <=> g <= k + 1
    <3> SUFFICES ASSUME NEW g \in 1..Len(Groups)  PROVE found'[g] # None <=> g <= k + 1
      OBVIOUS
    <3>1. found[g] # None <=> g <= k
      BY <1>2 DEF Ended
    <3>2. CASE g = k + 1
      BY <1>9, <3>2, <1>3
    <3>3. CASE g # k + 1
      BY <1>3, <1>9, <3>1, <3>3
    <3> QED
      BY <3>2, <3>3
  <2>2. disposed' = FlattenSeq(SubSeq(Groups, 1, k + 1))
    <3> DEFINE few == SubSeq(Groups, 1, k)
               t == Groups[k + 1]
               I == DOMAIN document
    <3>1. few \in Seq(Seq(I)) /\ t \in Seq(I) /\ SubSeq(Groups, 1, k + 1) = few \o <<t>> /\ disposed = FlattenSeq(few)
      <4>1. disposed = FlattenSeq(few)
        BY <1>2 DEF Ended
      <4>2. k + 1 <= Len(Groups) /\ k \in Nat
        BY <1>3
      <4>3. SubSeq(Groups, 1, k + 1) = few \o <<t>>
        BY <1>5, <4>2, OneMore
      <4>4. few \in Seq(Seq(I))
        <5>1. \A i \in 1..k : Groups[i] \in Seq(I)
          BY <1>3, <1>5
        <5>2. 1 \in Int /\ k \in Int
          BY <1>3
        <5> QED
          BY <5>1, <5>2, SubSeqProperties
      <4>5. t \in Seq(I)
        BY <1>3, <1>5
      <4> QED
        BY <4>1, <4>3, <4>4, <4>5
    <3> HIDE DEF few, t, I
    <3>2. FlattenSeq(Append(few, t)) = FlattenSeq(few) \o t
      BY <3>1, FlattenAppend
    <3>3. Append(few, t) = few \o <<t>>
      BY <3>1, AppendIsConcat
    <3> QED
      BY <1>7, <3>1, <3>2, <3>3 DEF t
  <2>3. k + 1 >= 1 /\ step' # "owned"
    BY <1>1, <1>3
  <2> QED
    BY <1>4, <2>1, <2>2, <2>3 DEF Ended
<1>12. k + 1 \in 0..Len(Groups)'
  BY <1>3, <1>4
<1> QED
  BY <1>10, <1>11, <1>12

\* The audit of its chunks numbers the candidates of the last scout anew, with
\* those it missed.
LEMMA AuditEnds ==
    ASSUME PhaseInv, FoundInv, [Next]_vars, SourceAudit, step' \in Curating, NEW k \in 0..Len(Groups), Ended(k)
    PROVE  FoundInv' /\ k \in 0..Len(Groups)' /\ Ended(k)'
<1> USE DEF Claim
<1>1. step = "audit" /\ profile = "efficient"
  BY DEF SourceAudit, PhaseInv
<1>2. Ended(k)
  OBVIOUS
<1>3. /\ Len(Groups) \in Nat /\ DOMAIN found = 1..Len(Groups) /\ LastScout = k /\ (Scouted <=> k = Len(Groups))
      /\ k \in 1..Len(Groups)
  <2>1. /\ Len(Groups) \in Nat /\ DOMAIN found = 1..Len(Groups) /\ LastScout = k /\ (Scouted <=> k = Len(Groups))
    BY <1>1, <1>2, Scouts
  <2>2. k >= 1
    BY <1>1, <1>2 DEF Ended
  <2> QED
    BY <2>1, <2>2
<1>4. Groups' = Groups /\ profile' = profile
  BY SameShares
<1>5. PICK missing \in 0..MaxCandidates :
         found' = [found EXCEPT ![k] = Numbered(k, Len(found[k]) + missing)]
         /\ step' = (IF Scouted THEN "owned" ELSE "scout")
  BY <1>3 DEF SourceAudit, Numbered, Curating
<1>6. Own(k, Numbered(k, Len(found[k]) + missing))
  <2>1. found[k] \in Seq(Position)
    BY <1>1, <1>2, <1>3 DEF FoundInv, Ended, Curating
  <2>2. Len(found[k]) \in Nat
    BY <2>1, LenProperties
  <2>3. Len(found[k]) + missing \in Nat /\ k \in Nat \ {0}
    BY <1>3, <2>2, LimitsAssumption
  <2> QED
    BY <2>3, NumberedIs DEF Own
<1>7. /\ found' \in [1..Len(Groups)' -> {None} \cup Seq(Position)]
      /\ \A h \in 1..Len(Groups)' : found'[h] # None =>
           Distinct(found'[h]) /\ \A i \in DOMAIN found'[h] : found'[h][i][1] = h
      /\ found'[k] # None /\ \A h \in 1..Len(Groups) : h # k => found'[h] = found[h]
  BY <1>3, <1>5, <1>6, FoundChange
<1>8. \A g \in 1..Len(Groups) : found'[g] # None <=> g <= k
  <2> SUFFICES ASSUME NEW g \in 1..Len(Groups)  PROVE found'[g] # None <=> g <= k
    OBVIOUS
  <2>1. found[g] # None <=> g <= k
    BY <1>2 DEF Ended
  <2> QED
    BY <1>3, <1>7, <2>1
<1>9. Scouted => Scouted'
  <2>1. DOMAIN found' = 1..Len(Groups)
    BY <1>4, <1>7
  <2> QED
    BY <1>3, <1>8, <2>1 DEF Scouted
<1>10. FoundInv'
  BY <1>5, <1>7, <1>9 DEF FoundInv, Complete
<1>11. Ended(k)'
  <2>1. disposed' = disposed
    BY DEF SourceAudit
  <2>2. step' = "owned" => k = Len(Groups)
    BY <1>3, <1>5
  <2>3. k >= 1
    BY <1>3
  <2>4. disposed' = FlattenSeq(SubSeq(Groups, 1, k))
    BY <1>2, <2>1 DEF Ended
  <2> QED
    BY <1>4, <1>8, <2>2, <2>3, <2>4 DEF Ended
<1>12. k \in 0..Len(Groups)'
  BY <1>3, <1>4
<1> QED
  BY <1>10, <1>11, <1>12

\* A scout of the corrected pipeline keeps some of the candidates it numbered.
LEMMA CorrectedEnds ==
    ASSUME PhaseInv, FoundInv, [Next]_vars, NEW g \in DOMAIN found, ScoutCorrected(g), step' \in Curating
    PROVE  FoundInv' /\ found'[g] # None
<1> USE DEF Claim
<1>1. step = "scout" /\ profile = "corrected" /\ step \in Curating
  BY DEF ScoutCorrected, Curating
<1>2. Groups' = Groups /\ profile' = profile
  BY SameShares
<1>3. Groups \in Seq(Seq(DOMAIN document)) /\ Len(Groups) \in Nat /\ DOMAIN Groups = 1..Len(Groups)
  BY <1>1, GroupsAre DEF PhaseInv
<1>4. found \in [1..Len(Groups) -> {None} \cup Seq(Position)] /\ g \in 1..Len(Groups)
  BY <1>1 DEF FoundInv
<1>5. PICK n \in FindsFrom(Groups[g]) : \E kept \in SUBSET (1..n) :
         found' = [found EXCEPT ![g] = Selected(Numbered(g, n), {g} \X kept)]
  BY DEF ScoutCorrected, Numbered
<1>6. PICK kept \in SUBSET (1..n) : found' = [found EXCEPT ![g] = Selected(Numbered(g, n), {g} \X kept)]
  BY <1>5
<1>7. Own(g, Selected(Numbered(g, n), {g} \X kept))
  <2> DEFINE list == Numbered(g, n)
             S == {g} \X kept
             sel == Selected(list, S)
  <2>1. n \in Nat /\ g \in Nat \ {0}
    BY <1>4, FindsAre
  <2>2. list \in Seq(Position) /\ Distinct(list)
    BY <2>1, NumberedIs
  <2> HIDE DEF list, S
  <2>3. sel \in Seq(Position) /\ ToSet(sel) = ToSet(list) \cap S /\ (Distinct(list) => Distinct(sel))
    BY <2>2, SelectedFrom
  <2> HIDE DEF sel
  <2>4. \A i \in DOMAIN sel : sel[i][1] = g
    <3>1. \A i \in DOMAIN sel : sel[i] \in S
      BY <2>3 DEF ToSet
    <3> QED
      BY <3>1 DEF S
  <2> QED
    BY <2>2, <2>3, <2>4 DEF Own, sel, list, S
<1>8. /\ found' \in [1..Len(Groups)' -> {None} \cup Seq(Position)]
      /\ \A h \in 1..Len(Groups)' : found'[h] # None =>
           Distinct(found'[h]) /\ \A i \in DOMAIN found'[h] : found'[h][i][1] = h
      /\ found'[g] # None /\ \A h \in 1..Len(Groups) : h # g => found'[h] = found[h]
  BY <1>4, <1>6, <1>7, FoundChange
<1>9. step' \in Complete => Scouted'
  <2>1. step' \in Complete => \A h \in (DOMAIN found) \ {g} : found[h] # None
    BY DEF ScoutCorrected, Complete, Curating
  <2>2. DOMAIN found' = 1..Len(Groups) /\ DOMAIN found = 1..Len(Groups)
    BY <1>2, <1>4, <1>8
  <2> QED
    BY <1>8, <2>1, <2>2 DEF Scouted
<1> QED
  BY <1>8, <1>9 DEF FoundInv

\* The other steps of the curation leave what the scouts found.
LEMMA OtherEnds ==
    ASSUME PhaseInv, FoundInv, [Next]_vars, step' \in Curating, ~Scout, ~SourceAudit,
           ~\E g \in DOMAIN found : ScoutCorrected(g)
    PROVE  /\ found' = found /\ disposed' = disposed /\ Candidates' = Candidates
           /\ step' \in {"scout", "audit", "owned"} => UNCHANGED <<step, curation>>
           /\ FoundInv'
<1>1. step \in Curating /\ Groups' = Groups /\ profile' = profile
  BY SameShares
<1>2. /\ found' = found /\ disposed' = disposed /\ (step' \in Complete => step \in Complete)
      /\ (step' \in {"scout", "audit", "owned"} => UNCHANGED <<step, curation>>)
  <2>1. CASE UNCHANGED <<step, curation>>
    BY <2>1 DEF curation, extraction
  <2>2. CASE Curate
    BY <2>2, <1>1 DEF Curate, CheckOwnership, CurateBatch, CurateDone, RejectionAudit, RecheckDone, Synthesize,
                 DecideAll, Materialize, MaterializeDone, HandOver, curation, extraction, Curating, Complete, Claim
  <2> QED
    BY <2>1, <2>2, CurationSteps
<1>3. Candidates' = Candidates
  BY <1>2 DEF Candidates
<1>4. Scouted' = Scouted
  BY <1>2 DEF Scouted
<1> QED
  BY <1>1, <1>2, <1>3, <1>4 DEF FoundInv

\* Every step keeps the candidates found, and every source's owner.
LEMMA FoundStep == ASSUME PhaseInv, FoundInv, OwnedInv, [Next]_vars  PROVE FoundInv' /\ OwnedInv'
<1>1. CASE step' \notin Curating
  BY <1>1 DEF FoundInv, OwnedInv, Curating
<1>2. CASE step' \in Curating /\ Scout
  <2>1. PICK k \in 0..Len(Groups) : Ended(k)
    BY <1>2 DEF OwnedInv, Scout
  <2> QED
    BY <1>2, <2>1, ScoutEnds DEF OwnedInv
<1>3. CASE step' \in Curating /\ SourceAudit
  <2>1. PICK k \in 0..Len(Groups) : Ended(k)
    BY <1>3 DEF OwnedInv, SourceAudit, PhaseInv
  <2> QED
    BY <1>3, <2>1, AuditEnds DEF OwnedInv
<1>4. CASE step' \in Curating /\ \E g \in DOMAIN found : ScoutCorrected(g)
  <2>1. FoundInv'
    BY <1>4, CorrectedEnds
  <2>2. profile' = "corrected"
    BY <1>4 DEF ScoutCorrected
  <2> QED
    BY <2>1, <2>2 DEF OwnedInv
<1>5. CASE step' \in Curating /\ ~Scout /\ ~SourceAudit /\ ~\E g \in DOMAIN found : ScoutCorrected(g)
  <2>1. FoundInv' /\ found' = found /\ disposed' = disposed
    BY <1>5, OtherEnds
  <2>2. ASSUME profile' = "efficient", step' \in {"scout", "audit", "owned"}
        PROVE  \E k \in 0..Len(Groups)' : Ended(k)'
    <3>1. step' = step /\ Groups' = Groups /\ profile' = profile
      BY <1>5, <2>2, OtherEnds, SameShares
    <3>2. PICK k \in 0..Len(Groups) : Ended(k)
      BY <2>2, <3>1 DEF OwnedInv
    <3>3. Ended(k)'
      BY <2>1, <3>1, <3>2 DEF Ended
    <3> QED
      BY <3>1, <3>2, <3>3
  <2> QED
    BY <2>1, <2>2 DEF OwnedInv
<1> QED
  BY <1>1, <1>2, <1>3, <1>4, <1>5

\* At the start no scout has ended and nothing is decided.
LEMMA CurationInit == ASSUME Init  PROVE CurationInv
<1>1. PhaseInv
  <2>1. document = <<1>> \/ document \in Documents
    BY Zenon DEF Init, InitCuration
  <2>2. <<1>> \in Seq(Nat \ {0}) \ {<<>>}
    OBVIOUS
  <2>3. document \in Seq(Nat \ {0}) \ {<<>>}
    BY <2>1, <2>2, DocumentsAssumption
  <2>4. profile \in {"efficient", "corrected", "single", "staged"} /\ step = "scout"
    BY ProfilesAssumption DEF Init, InitPipeline
  <2> QED
    BY <2>3, <2>4 DEF PhaseInv
<1>2. /\ step = "scout" /\ found = [g \in DOMAIN Groups |-> None] /\ disposed = <<>>
      /\ reqs = <<>> /\ rejected = {}
  BY DEF Init, InitCuration
<1>3. Len(Groups) \in Nat /\ DOMAIN Groups = 1..Len(Groups)
  BY <1>1, <1>2, GroupsAre DEF PhaseInv, Curating
<1>4. FoundInv
  BY <1>2, <1>3 DEF FoundInv, Complete
<1>5. Ended(0)
  <2>1. SubSeq(Groups, 1, 0) = <<>>
    BY <1>1, <1>2, <1>3, GroupsAre DEF PhaseInv, Curating
  <2> QED
    <3>1. \A g \in 1..Len(Groups) : found[g] # None <=> g <= 0
      BY <1>2, <1>3
    <3>2. disposed = FlattenSeq(SubSeq(Groups, 1, 0))
      BY <1>2, <2>1, FlattenEmpty
    <3> QED
      BY <1>2, <3>1, <3>2 DEF Ended
<1>6. OwnedInv
  BY <1>3, <1>5 DEF OwnedInv
<1> QED
  BY <1>1, <1>2, <1>4, <1>6 DEF CurationInv, DecidedInv, AssignedInv

\* The efficient curator has decided on none of the candidates at its start.
LEMMA NothingDecided ==
    ASSUME Candidates \in Seq(Position), reqs = <<>>, rejected = {}, pending = Candidates
    PROVE  Decided(0)
<1>1. SubSeq(Candidates, 0 + 1, Len(Candidates)) = Candidates
  OBVIOUS
<1>2. \A c : Carried(c, reqs) = {}
  BY DEF Carried
<1> QED
  BY <1>1, <1>2 DEF Decided

\* The ownership check puts all candidates before the curator.
LEMMA OwnedDecides ==
    ASSUME PhaseInv, FoundInv, DecidedInv, CheckOwnership, step' \in Curating
    PROVE  DecidedInv'
<1>1. step = "owned" /\ profile = "efficient" /\ step \in Complete /\ step' = "curate"
  BY DEF CheckOwnership, PhaseInv, Complete, Curating
<1>2. Candidates \in Seq(Position) /\ reqs = <<>> /\ rejected = {}
  BY <1>1, CandidatesAre DEF DecidedInv
<1>3. Candidates' = Candidates /\ pending' = Candidates /\ reqs' = reqs /\ rejected' = rejected
  BY DEF CheckOwnership, extraction, Candidates
<1>4. /\ pending' = SubSeq(Candidates', 0 + 1, Len(Candidates'))
      /\ \A c : Carried(c, reqs') = {}
  <2>1. SubSeq(Candidates, 0 + 1, Len(Candidates)) = Candidates
    BY <1>2
  <2> QED
    BY <1>2, <1>3, <2>1 DEF Carried
<1>5. Decided(0)'
  BY <1>2, <1>3, <1>4 DEF Decided
<1>6. 0 \in 0..Len(Candidates') /\ reqs' \in Seq(Curated)
  BY <1>2, <1>3
<1> QED
  BY <1>1, <1>5, <1>6 DEF DecidedInv

\* A batch of decisions.
LEMMA BatchDecides ==
    ASSUME PhaseInv, FoundInv, DecidedInv, CurateBatch, Candidates' = Candidates, step' \in Curating
    PROVE  DecidedInv'
<1>1. step = "curate" /\ profile = "efficient" /\ step \in Complete /\ step' = "curate"
  BY DEF CurateBatch, Complete, Curating, Claim
<1> DEFINE C == Candidates
<1>2. C \in Seq(Position) /\ Len(C) \in Nat /\ DOMAIN C = 1..Len(C) /\ Distinct(C)
  BY <1>1, CandidatesAre
<1>3. PICK p \in 0..Len(C) : Decided(p)
  BY <1>1 DEF DecidedInv
<1>4. reqs \in Seq(Curated)
  BY <1>1 DEF DecidedInv
<1>5. PICK batch \in FirstGroups(pending, CuratorBatch) :
        \E peers \in SUBSET (DOMAIN reqs) : \E choices \in Decisions(Len(batch)) :
          /\ ChoicesOK(choices, peers)
          /\ reqs' = Decide(batch, choices)
          /\ rejected' = rejected \cup {batch[i] : i \in {j \in DOMAIN batch : choices[j].action = "reject"}}
          /\ pending' = SubSeq(pending, Len(batch) + 1, Len(pending))
  BY DEF CurateBatch
<1>6. PICK peers \in SUBSET (DOMAIN reqs) : \E choices \in Decisions(Len(batch)) :
          /\ ChoicesOK(choices, peers)
          /\ reqs' = Decide(batch, choices)
          /\ rejected' = rejected \cup {batch[i] : i \in {j \in DOMAIN batch : choices[j].action = "reject"}}
          /\ pending' = SubSeq(pending, Len(batch) + 1, Len(pending))
  BY <1>5
<1>7. PICK choices \in Decisions(Len(batch)) :
          /\ ChoicesOK(choices, peers)
          /\ reqs' = Decide(batch, choices)
          /\ rejected' = rejected \cup {batch[i] : i \in {j \in DOMAIN batch : choices[j].action = "reject"}}
          /\ pending' = SubSeq(pending, Len(batch) + 1, Len(pending))
  BY <1>6
<1>8. pending = SubSeq(C, p + 1, Len(C)) /\ pending \in Seq(Position) /\ Len(pending) = Len(C) - p
  <2>1. pending = SubSeq(C, p + 1, Len(C))
    BY <1>3 DEF Decided
  <2> HIDE DEF C
  <2>2. p \in Nat /\ p <= Len(C)
    BY <1>2, <1>3
  <2>3. SubSeq(C, p + 1, Len(C)) \in Seq(Position) /\ Len(SubSeq(C, p + 1, Len(C))) = Len(C) - p
    <3> DEFINE m == Len(C)
    <3>1. \A i \in (p + 1)..m : C[i] \in Position
      BY <1>2, <2>2
    <3>2. p + 1 \in Int /\ m \in Int
      BY <1>2, <2>2
    <3>3. SubSeq(C, p + 1, m) \in Seq(Position) /\ Len(SubSeq(C, p + 1, m)) = IF p + 1 <= m THEN m - (p + 1) + 1 ELSE 0
      BY <3>1, <3>2, SubSeqProperties
    <3>4. m \in Nat /\ p \in Nat /\ p <= m
      BY <1>2, <2>2
    <3> HIDE DEF m
    <3>5. (IF p + 1 <= m THEN m - (p + 1) + 1 ELSE 0) = m - p
      BY <3>4
    <3> QED
      BY <3>3, <3>5 DEF m
  <2> QED
    BY <2>1, <2>3
<1>9. PICK n \in 1..Len(pending) : batch = SubSeq(pending, 1, n)
  <2>1. CuratorBatch \in Nat
    BY LimitsAssumption
  <2>2. PICK n \in 1..(IF Len(pending) < CuratorBatch THEN Len(pending) ELSE CuratorBatch) : batch = SubSeq(pending, 1, n)
    BY <1>5 DEF FirstGroups
  <2>3. Len(pending) \in Nat
    BY <1>8, LenProperties
  <2>4. n \in 1..Len(pending)
    BY <2>1, <2>2, <2>3
  <2> QED
    BY <2>2, <2>4
<1>10. n \in Nat /\ p \in Nat /\ p + n \in 0..Len(C) /\ Len(batch) = n /\ DOMAIN batch = 1..n
  <2> HIDE DEF C
  <2>1. n \in Nat /\ p \in Nat /\ p + n \in 0..Len(C)
    <3> DEFINE m == Len(C)
               l == Len(pending)
    <3>1. m \in Nat /\ p \in 0..m /\ l = m - p /\ n \in 1..l
      BY <1>2, <1>3, <1>8, <1>9
    <3> HIDE DEF m, l
    <3>2. n \in Nat /\ p \in Nat /\ p + n \in 0..m
      BY <3>1
    <3> QED
      BY <3>2 DEF m
  <2>2. Len(batch) = n /\ DOMAIN batch = 1..n
    BY <1>8, <1>9
  <2> QED
    BY <2>1, <2>2
<1>11. \A i \in 1..n : batch[i] = C[p + i] /\ p + i \in 1..Len(C)
  <2> HIDE DEF C
  <2>1. \A i \in 1..n : batch[i] = pending[i] /\ i \in 1..Len(pending)
    BY <1>8, <1>9, <1>10
  <2>2. \A i \in 1..Len(pending) : pending[i] = C[p + i]
    BY <1>2, <1>8, <1>10
  <2> QED
    BY <1>2, <1>10, <2>1, <2>2
<1>12. batch \in [1..n -> Nat \X Nat] /\ Distinct(batch)
  <2>1. \A i \in 1..Len(C) : C[i] \in Nat \X Nat
    BY <1>2 DEF Position
  <2>2. batch \in [1..n -> Nat \X Nat]
    <3>1. batch \in Seq(Position)
      BY <1>8, <1>9, <1>10
    <3>2. batch = [i \in 1..n |-> batch[i]]
      BY <1>10, <3>1
    <3>3. \A i \in 1..n : batch[i] \in Nat \X Nat
      BY <1>11, <2>1
    <3> QED
      BY <3>2, <3>3
  <2>3. \A i, j \in 1..n : batch[i] = batch[j] => i = j
    <3> SUFFICES ASSUME NEW i \in 1..n, NEW j \in 1..n, batch[i] = batch[j]  PROVE i = j
      OBVIOUS
    <3>1. p + i = p + j
      BY <1>2, <1>11 DEF Distinct
    <3> QED
      BY <1>10, <3>1
  <2> QED
    BY <1>10, <2>2, <2>3 DEF Distinct
<1>13. \A i \in 1..n : Carried(batch[i], reqs) = {}
  <2>1. \A i \in 1..n : p + i \in (p + 1)..Len(C)
    BY <1>10, <1>11
  <2> QED
    BY <1>3, <1>11, <2>1 DEF Decided
<1>14. choices \in Decisions(n) /\ ChoicesOK(choices, peers) /\ reqs' = Decide(batch, choices)
  BY <1>7, <1>10
<1> HIDE DEF C
<1>15. reqs' \in Seq(Curated)
  BY <1>4, <1>10, <1>12, <1>13, <1>14, Deciding
<1>16. Placed(batch, choices, reqs, reqs')
  <2>1. Placed(batch, choices, reqs, Decide(batch, choices))
    BY <1>4, <1>10, <1>12, <1>13, <1>14, Deciding
  <2> QED
    BY <1>14, <2>1
<1>17. DOMAIN choices = 1..n
  BY <1>14 DEF Decisions
<1>18. \A c \in Nat \X Nat : (\A i \in 1..n : c # batch[i]) => Carried(c, reqs') = Carried(c, reqs)
  BY <1>16, <1>17 DEF Placed
<1>19. \A i \in 1..n : IF choices[i].action = "reject" THEN Carried(batch[i], reqs') = {}
                       ELSE \E r \in DOMAIN reqs' : Carried(batch[i], reqs') = {r}
  BY <1>16, <1>17 DEF Placed
<1> DEFINE q == p + n
           turned == {batch[i] : i \in {j \in 1..n : choices[j].action = "reject"}}
<1>20. rejected' = rejected \cup turned
  BY <1>7, <1>10
<1>21. rejected \subseteq {C[i] : i \in 1..p}
  BY <1>3 DEF Decided, C
<1>22. pending' = SubSeq(C, q + 1, Len(C))
  <2>1. pending' = SubSeq(pending, n + 1, Len(pending))
    BY <1>7, <1>10
  <2>2. SubSeq(SubSeq(C, p + 1, Len(C)), n + 1, Len(C) - p) = SubSeq(C, (p + n) + 1, Len(C))
    BY <1>2, <1>10
  <2> QED
    BY <1>8, <2>1, <2>2
<1>23. rejected' \subseteq {C[i] : i \in 1..q}
  <2>1. \A i \in 1..p : i \in 1..q
    BY <1>10
  <2>2. \A i \in 1..n : batch[i] = C[p + i] /\ p + i \in 1..q
    BY <1>10, <1>11
  <2> HIDE DEF q
  <2> QED
    BY <1>20, <1>21, <2>1, <2>2
<1>24. \A i \in 1..Len(C) : C[i] \in Nat \X Nat
  BY <1>2 DEF Position
<1>25. \A i \in 1..Len(C), j \in 1..n : i # p + j => C[i] # batch[j]
  BY <1>2, <1>11 DEF Distinct
<1>26. ASSUME NEW i \in 1..q
       PROVE  IF C[i] \in rejected' THEN Carried(C[i], reqs') = {}
              ELSE \E r \in DOMAIN reqs' : Carried(C[i], reqs') = {r}
  <2>1. CASE i \in 1..p
    <3>1. i \in 1..Len(C) /\ \A j \in 1..n : i # p + j
      BY <1>10, <2>1
    <3>2. \A j \in 1..n : C[i] # batch[j]
      BY <1>25, <3>1
    <3>3. Carried(C[i], reqs') = Carried(C[i], reqs)
      BY <1>18, <1>24, <3>1, <3>2
    <3>4. C[i] \in rejected' <=> C[i] \in rejected
      BY <1>20, <3>2
    <3>5. IF C[i] \in rejected THEN Carried(C[i], reqs) = {} ELSE \E r \in DOMAIN reqs : Carried(C[i], reqs) = {r}
      BY <1>3, <2>1 DEF Decided, C
    <3>6. ASSUME NEW r, Carried(C[i], reqs') = {r}  PROVE r \in DOMAIN reqs'
      BY <3>6 DEF Carried
    <3> QED
      BY <3>3, <3>4, <3>5, <3>6
  <2>2. CASE i \notin 1..p
    <3> DEFINE j == i - p
    <3>1. j \in 1..n /\ i = p + j /\ i \in 1..Len(C)
      BY <1>10, <2>2
    <3> HIDE DEF j
    <3>2. C[i] = batch[j]
      BY <1>11, <3>1
    <3>3. C[i] \in rejected' <=> choices[j].action = "reject"
      <4>1. C[i] \notin rejected
        BY <1>2, <1>10, <1>21, <2>2, <3>1 DEF Distinct
      <4>2. ASSUME NEW m \in 1..n, C[i] = batch[m]  PROVE m = j
        <5>1. i = p + m
          BY <1>25, <3>1, <4>2
        <5> QED
          BY <1>10, <3>1, <5>1
      <4> QED
        BY <1>20, <3>1, <3>2, <4>1, <4>2
    <3> QED
      BY <1>19, <3>1, <3>2, <3>3
  <2> QED
    BY <2>1, <2>2
<1>27. ASSUME NEW i \in (q + 1)..Len(C)  PROVE Carried(C[i], reqs') = {}
  <2>1. i \in (p + 1)..Len(C) /\ i \in 1..Len(C) /\ \A j \in 1..n : i # p + j
    BY <1>2, <1>10
  <2>2. \A j \in 1..n : C[i] # batch[j]
    BY <1>25, <2>1
  <2>3. Carried(C[i], reqs') = Carried(C[i], reqs)
    BY <1>18, <1>24, <2>1, <2>2
  <2>4. Carried(C[i], reqs) = {}
    BY <1>3, <2>1 DEF Decided, C
  <2> QED
    BY <2>3, <2>4
<1>28. C' = C
  BY DEF C
<1>29. q \in 0..Len(C)
  BY <1>10
<1> HIDE DEF q
<1>30. Decided(q)'
  BY <1>22, <1>23, <1>26, <1>27, <1>28 DEF Decided, C
<1> QED
  BY <1>1, <1>15, <1>28, <1>29, <1>30 DEF DecidedInv, C

\* The requirements an audit of rejections brings, each with a citation of its own,
LEMMA GapsAre ==
    ASSUME reqs \in Seq(Curated), NEW n \in Nat
    PROVE  /\ Gaps(n) \in Seq(Curated) /\ DOMAIN Gaps(n) = 1..n
           /\ \A i \in 1..n : Gaps(n)[i].sources = {<<0, Len(reqs) + i>>} /\ Gaps(n)[i].deps = {}
<1>1. Len(reqs) \in Nat
  OBVIOUS
<1> DEFINE own(i) == [sources |-> {<<0, Len(reqs) + i>>}, deps |-> {}]
<1>2. \A i \in 1..n : own(i) \in Curated /\ own(i).sources = {<<0, Len(reqs) + i>>} /\ own(i).deps = {}
  BY <1>1 DEF Curated
<1>3. Gaps(n) = [i \in 1..n |-> own(i)]
  BY DEF Gaps
<1> HIDE DEF own
<1>4. Gaps(n) \in [1..n -> Curated] /\ \A i \in 1..n : Gaps(n)[i] = own(i)
  BY <1>2, <1>3
<1>5. Gaps(n) \in Seq(Curated) /\ DOMAIN Gaps(n) = 1..n
  BY <1>4
<1> QED
  BY <1>2, <1>4, <1>5

\* and the list with them.
LEMMA GapsAdded ==
    ASSUME reqs \in Seq(Curated), NEW n \in Nat
    PROVE  LET more == reqs \o Gaps(n)
               m    == Len(reqs)
           IN  /\ more \in Seq(Curated) /\ DOMAIN more = 1..(m + n) /\ m \in Nat
               /\ \A r \in 1..m : more[r] = reqs[r]
               /\ \A r \in (m + 1)..(m + n) : more[r].sources = {<<0, r>>} /\ more[r].deps = {}
<1> DEFINE gaps == Gaps(n)
           more == reqs \o gaps
           m    == Len(reqs)
<1>1. /\ gaps \in Seq(Curated) /\ DOMAIN gaps = 1..n /\ m \in Nat
      /\ \A i \in 1..n : gaps[i].sources = {<<0, m + i>>} /\ gaps[i].deps = {}
  BY GapsAre, LenProperties
<1> HIDE DEF gaps
<1>2. Len(gaps) = n
  BY <1>1, LenProperties
<1>3. /\ more \in Seq(Curated) /\ Len(more) = m + n
      /\ \A i \in 1..(m + n) : more[i] = IF i <= m THEN reqs[i] ELSE gaps[i - m]
  BY <1>1, <1>2, ConcatProperties
<1>4. DOMAIN more = 1..(m + n)
  BY <1>3, LenProperties
<1> HIDE DEF more, m
<1>5. \A r \in 1..m : more[r] = reqs[r]
  BY <1>1, <1>3
<1>6. ASSUME NEW r \in (m + 1)..(m + n)  PROVE more[r].sources = {<<0, r>>} /\ more[r].deps = {}
  <2>1. r \in 1..(m + n) /\ ~(r <= m) /\ r - m \in 1..n /\ m + (r - m) = r
    BY <1>1
  <2> QED
    BY <1>1, <1>3, <2>1
<1> QED
  BY <1>1, <1>3, <1>4, <1>5, <1>6 DEF more, m, gaps

\* The audit of rejections brings requirements with citations of their own.
LEMMA AuditDecides ==
    ASSUME PhaseInv, FoundInv, DecidedInv, RejectionAudit, Candidates' = Candidates, step' \in Curating
    PROVE  DecidedInv'
<1>1. step = "recheck" /\ profile = "efficient" /\ step \in Complete /\ step' = "recheck"
  BY DEF RejectionAudit, Complete, Curating, Claim, PhaseInv
<1> DEFINE C == Candidates
<1>2. C \in Seq(Position) /\ Len(C) \in Nat /\ DOMAIN C = 1..Len(C)
  BY <1>1, CandidatesAre
<1>3. PICK p \in 0..Len(C) : Decided(p) /\ p = Len(C)
  BY <1>1 DEF DecidedInv
<1>4. reqs \in Seq(Curated) /\ Len(reqs) \in Nat
  BY <1>1, LenProperties DEF DecidedInv
<1>5. rejected' = rejected /\ pending' = pending
  BY DEF RejectionAudit
<1>6. reqs' = reqs \/ \E n \in Nat : reqs' = reqs \o Gaps(n)
  <2>1. MaxRequirements \in Nat
    BY LimitsAssumption
  <2>2. PICK more \in 0..MaxRequirements, doubtful \in BOOLEAN :
          reqs' = IF doubtful THEN reqs ELSE reqs \o Gaps(more)
    BY DEF RejectionAudit
  <2>3. more \in Nat
    BY <2>1
  <2> QED
    BY <2>2, <2>3
<1> HIDE DEF C
<1>7. reqs' \in Seq(Curated)
  BY <1>4, <1>6, GapsAdded
<1>8. \A i \in 1..Len(C) : Carried(C[i], reqs') = Carried(C[i], reqs)
  <2>1. CASE reqs' = reqs
    BY <2>1
  <2>2. CASE \E n \in Nat : reqs' = reqs \o Gaps(n)
    <3>1. PICK n \in Nat : reqs' = reqs \o Gaps(n)
      BY <2>2
    <3> DEFINE m == Len(reqs)
    <3>2. /\ DOMAIN reqs' = 1..(m + n) /\ DOMAIN reqs = 1..m /\ m \in Nat
          /\ \A r \in 1..m : reqs'[r] = reqs[r]
          /\ \A r \in (m + 1)..(m + n) : reqs'[r].sources = {<<0, r>>}
      BY <1>4, <3>1, GapsAdded, LenProperties
    <3> HIDE DEF m
    <3>3. \A i \in 1..Len(C) : C[i][1] # 0
      BY <1>2 DEF Position
    <3>4. \A i \in 1..Len(C) : \A r \in (m + 1)..(m + n) : C[i] \notin reqs'[r].sources
      BY <3>2, <3>3
    <3>5. \A r \in 1..(m + n) : r \in 1..m \/ r \in (m + 1)..(m + n)
      BY <3>2
    <3>6. \A r \in 1..m : r \in 1..(m + n)
      BY <3>2
    <3> QED
      BY <3>2, <3>4, <3>5, <3>6 DEF Carried
  <2> QED
    BY <1>6, <2>1, <2>2
<1>9. /\ pending' = SubSeq(C, p + 1, Len(C))
      /\ rejected' \subseteq {C[i] : i \in 1..p}
  BY <1>3, <1>5 DEF Decided, C
<1>10. ASSUME NEW i \in 1..p
       PROVE  IF C[i] \in rejected' THEN Carried(C[i], reqs') = {}
              ELSE \E r \in DOMAIN reqs' : Carried(C[i], reqs') = {r}
  <2>1. Carried(C[i], reqs') = Carried(C[i], reqs)
    BY <1>3, <1>8
  <2>2. IF C[i] \in rejected THEN Carried(C[i], reqs) = {} ELSE \E r \in DOMAIN reqs : Carried(C[i], reqs) = {r}
    BY <1>3 DEF Decided, C
  <2>3. ASSUME NEW r, Carried(C[i], reqs') = {r}  PROVE r \in DOMAIN reqs'
    BY <2>3 DEF Carried
  <2> QED
    BY <1>5, <2>1, <2>2, <2>3
<1>11. \A i \in (p + 1)..Len(C) : Carried(C[i], reqs') = {}
  BY <1>2, <1>3
<1>12. C' = C
  BY DEF C
<1>13. Decided(p)'
  BY <1>9, <1>10, <1>11, <1>12 DEF Decided, C
<1> QED
  BY <1>1, <1>3, <1>7, <1>12, <1>13 DEF DecidedInv, C

\* Nothing else changes what was decided.
LEMMA DecidedSame ==
    ASSUME DecidedInv, Candidates' = Candidates,
           reqs' = reqs, rejected' = rejected, pending' = pending, audited' = audited, profile' = profile,
           \/ step' = step
           \/ step = "curate" /\ step' = "recheck" /\ pending = <<>>
           \/ step = "recheck" /\ step' = "curated" /\ rejected = audited,
           step = "curate" => Candidates \in Seq(Position)
    PROVE  DecidedInv'
<1> SUFFICES ASSUME profile = "efficient"
             PROVE  /\ step' \in {"scout", "audit", "owned"} => reqs' = <<>> /\ rejected' = {}
                    /\ step' \in {"curate", "recheck", "curated"} =>
                         /\ reqs' \in Seq(Curated)
                         /\ \E p \in 0..Len(Candidates') : Decided(p)' /\ (step' # "curate" => p = Len(Candidates'))
                    /\ step' = "curated" => rejected' = audited'
  BY DEF DecidedInv
<1>1. step' \in {"scout", "audit", "owned"} => reqs' = <<>> /\ rejected' = {}
  BY DEF DecidedInv
<1>2. step' = "curated" => rejected' = audited'
  BY DEF DecidedInv
<1>3. ASSUME step' \in {"curate", "recheck", "curated"}
      PROVE  /\ reqs' \in Seq(Curated)
             /\ \E p \in 0..Len(Candidates') : Decided(p)' /\ (step' # "curate" => p = Len(Candidates'))
  <2>1. step \in {"curate", "recheck", "curated"}
    BY <1>3
  <2>2. reqs \in Seq(Curated)
    BY <2>1 DEF DecidedInv
  <2>3. PICK p \in 0..Len(Candidates) : Decided(p) /\ (step # "curate" => p = Len(Candidates))
    BY <2>1 DEF DecidedInv
  <2>4. Decided(p)'
    BY <2>3 DEF Decided
  <2>5. step' # "curate" => p = Len(Candidates)
    <3>1. CASE step # "curate"
      BY <2>3, <3>1
    <3>2. CASE step = "curate" /\ step' # "curate"
      <4> DEFINE m == Len(Candidates)
      <4>1. pending = <<>> /\ pending = SubSeq(Candidates, p + 1, m)
        BY <2>3, <3>2 DEF Decided
      <4>2. m \in Nat /\ p \in 0..m
        BY <2>3, <3>2, LenProperties
      <4>3. \A i \in (p + 1)..m : Candidates[i] \in Position
        BY <3>2, <4>2
      <4>4. p + 1 \in Int /\ m \in Int
        BY <4>2
      <4>5. Len(SubSeq(Candidates, p + 1, m)) = IF p + 1 <= m THEN m - (p + 1) + 1 ELSE 0
        BY <4>3, <4>4, SubSeqProperties
      <4> HIDE DEF m
      <4>6. p = m
        BY <4>1, <4>2, <4>5
      <4> QED
        BY <4>6 DEF m
    <3> QED
      BY <3>1, <3>2
  <2> QED
    BY <2>2, <2>3, <2>4, <2>5
<1> QED
  BY <1>1, <1>2, <1>3

\* Every step keeps that the candidates decided on are the first ones, each once.
LEMMA DecidedStep == ASSUME PhaseInv, FoundInv, DecidedInv, [Next]_vars  PROVE DecidedInv'
<1> USE DEF Claim
<1>1. CASE step' \notin Curating
  BY <1>1 DEF DecidedInv, Curating
<1>2. CASE step' \in Curating /\ profile # "efficient"
  BY <1>2, SameShares DEF DecidedInv
<1>3. CASE step' \in Curating /\ profile = "efficient"
  <2>1. step \in Curating /\ profile' = profile
    BY <1>3, SameShares
  <2>2. CASE Scout \/ SourceAudit
    <3>1. reqs' = reqs /\ rejected' = rejected /\ step \in {"scout", "audit"} /\ step' \in {"scout", "audit", "owned"}
      BY <1>3, <2>2 DEF Scout, SourceAudit, decisions, Curating
    <3>2. reqs = <<>> /\ rejected = {}
      BY <1>3, <3>1 DEF DecidedInv
    <3> QED
      BY <3>1, <3>2 DEF DecidedInv
  <2>3. CASE ~Scout /\ ~SourceAudit
    <3>1. ~\E g \in DOMAIN found : ScoutCorrected(g)
      BY <1>3 DEF ScoutCorrected
    <3>2. Candidates' = Candidates
      BY <1>3, <2>3, <3>1, OtherEnds
    <3>3. CASE CheckOwnership
      BY <1>3, <3>3, OwnedDecides
    <3>4. CASE CurateBatch
      BY <1>3, <3>2, <3>4, BatchDecides
    <3>5. CASE RejectionAudit
      BY <1>3, <3>2, <3>5, AuditDecides
    <3>6. CASE UNCHANGED <<step, curation>> \/ CurateDone \/ RecheckDone
      <4>1. /\ reqs' = reqs /\ rejected' = rejected /\ pending' = pending /\ audited' = audited
            /\ \/ step' = step
               \/ step = "curate" /\ step' = "recheck" /\ pending = <<>>
               \/ step = "recheck" /\ step' = "curated" /\ rejected = audited
        BY <3>6 DEF CurateDone, RecheckDone, curation, decisions
      <4>2. step = "curate" => Candidates \in Seq(Position)
        BY CandidatesAre DEF Complete
      <4> QED
        BY <2>1, <3>2, <4>1, <4>2, DecidedSame
    <3>7. CASE Synthesize \/ DecideAll \/ Materialize \/ MaterializeDone \/ HandOver
      BY <1>3, <3>7 DEF Synthesize, DecideAll, Materialize, MaterializeDone, HandOver, Curating, PhaseInv
    <3>8. CASE Curate /\ step \in Curating
      BY <2>3, <3>1, <3>3, <3>4, <3>5, <3>6, <3>7, <3>8 DEF Curate
    <3> QED
      BY <1>3, <3>6, <3>8, CurationSteps
  <2> QED
    BY <2>2, <2>3
<1> QED
  BY <1>1, <1>2, <1>3

\* Every step keeps the corrected curator's requirements to its assignment.
LEMMA AssignedStep == ASSUME PhaseInv, FoundInv, AssignedInv, [Next]_vars  PROVE AssignedInv'
<1> USE DEF Claim
<1>1. CASE ~(profile' = "corrected" /\ step' \in {"materialize", "curated"})
  BY <1>1 DEF AssignedInv
<1>2. CASE profile' = "corrected" /\ step' \in {"materialize", "curated"}
  <2>1. step \in Curating /\ profile = "corrected" /\ step' \in Curating
    BY <1>2, SameShares DEF Curating
  <2>2. ~Scout /\ ~SourceAudit /\ ~\E g \in DOMAIN found : ScoutCorrected(g)
    BY <1>2, <2>1 DEF Scout, SourceAudit, ScoutCorrected, PhaseInv
  <2>3. Candidates' = Candidates
    BY <2>1, <2>2, OtherEnds
  <2>4. Rejects(assigned)' = Rejects(assigned') /\ SynthesisOK(assigned, reqs)' = SynthesisOK(assigned', reqs')
    BY <2>3 DEF Rejects, SynthesisOK, Sources
  <2>5. ASSUME NEW into \in Assignments, step = "curate"  PROVE into \in [DOMAIN Candidates -> Nat]
    <3> DEFINE top == IF Len(Candidates) < MaxRequirements THEN Len(Candidates) ELSE MaxRequirements
    <3>1. into \in [DOMAIN Candidates -> 0..top]
      BY DEF Assignments
    <3>2. Len(Candidates) \in Nat
      BY <2>5, CandidatesAre DEF Complete
    <3>3. 0..top \subseteq Nat
      BY <3>2, LimitsAssumption
    <3> HIDE DEF top
    <3> QED
      BY <3>1, <3>3
  <2>6. CASE UNCHANGED <<step, curation>>
    <3>1. assigned' = assigned /\ reqs' = reqs /\ rejected' = rejected /\ step' = step
      BY <2>6 DEF curation, decisions
    <3> QED
      BY <1>2, <2>1, <2>3, <2>4, <3>1 DEF AssignedInv
  <2>7. CASE Synthesize
    <3>1. PICK into \in Assignments : 
            step = "curate" /\ SynthesisOK(into, reqs') /\ assigned' = into /\ rejected' = Rejects(into)
      BY <2>7 DEF Synthesize
    <3> QED
      BY <2>3, <2>4, <2>5, <3>1 DEF AssignedInv
  <2>8. CASE DecideAll
    <3>1. PICK into \in Assignments : step = "curate" /\ assigned' = into /\ rejected' = Rejects(into)
      BY <2>8 DEF DecideAll
    <3> QED
      BY <2>3, <2>4, <2>5, <2>8, <3>1 DEF AssignedInv, DecideAll
  <2>9. CASE Materialize \/ MaterializeDone
    <3>1. /\ step = "materialize" /\ assigned' = assigned /\ rejected' = rejected
          /\ step' = "curated" => SynthesisOK(assigned, reqs) /\ reqs' = reqs
      BY <2>9, <1>2 DEF Materialize, MaterializeDone, curation, decisions
    <3> QED
      BY <2>1, <2>3, <2>4, <3>1 DEF AssignedInv
  <2>10. CASE CheckOwnership \/ CurateBatch \/ CurateDone \/ RejectionAudit \/ RecheckDone \/ HandOver
    BY <1>2, <2>1, <2>10 DEF CheckOwnership, CurateBatch, CurateDone, RejectionAudit, RecheckDone, HandOver, PhaseInv
  <2> QED
    BY <2>1, <2>2, <2>6, <2>7, <2>8, <2>9, <2>10, CurationSteps DEF Curate
<1> QED
  BY <1>1, <1>2

\* The invariant of the curation.
LEMMA CurationKept == Spec => []CurationInv
<1>1. Init => CurationInv
  BY CurationInit
<1>2. CurationInv /\ [Next]_vars => CurationInv'
  <2> SUFFICES ASSUME CurationInv, [Next]_vars  PROVE CurationInv'
    OBVIOUS
  <2>1. PhaseInv /\ FoundInv /\ OwnedInv /\ DecidedInv /\ AssignedInv
    BY DEF CurationInv
  <2>2. PhaseInv' /\ FoundInv' /\ OwnedInv' /\ DecidedInv' /\ AssignedInv'
    BY <2>1, PhaseStep, FoundStep, DecidedStep, AssignedStep
  <2> QED
    BY <2>2 DEF CurationInv
<1> QED
  BY <1>1, <1>2, PTL DEF Spec

\* Each chunk of a document is one scout's and is disposed of by it, in order,
\* for every document, group limit and number of scouts.
THEOREM SourcesOnce == Spec => []SourcesOwnedOnce
<1>1. CurationInv => SourcesOwnedOnce
  <2> SUFFICES ASSUME CurationInv  PROVE SourcesOwnedOnce
    OBVIOUS
  <2>1. ASSUME step = "owned"  PROVE disposed = Chunks
    <3>1. profile = "efficient" /\ document \in Seq(Nat \ {0}) \ {<<>>}
      BY <2>1 DEF CurationInv, PhaseInv, Curating
    <3>2. PICK k \in 0..Len(Groups) : Ended(k)
      BY <2>1, <3>1 DEF CurationInv, OwnedInv
    <3>3. k = Len(Groups) /\ disposed = FlattenSeq(SubSeq(Groups, 1, k))
      BY <2>1, <3>2 DEF Ended
    <3>4. Groups \in Seq(Seq(DOMAIN document)) /\ FlattenSeq(Groups) = Chunks
      BY <3>1, GroupsAre
    <3>5. SubSeq(Groups, 1, Len(Groups)) = Groups
      BY <3>4
    <3> QED
      BY <3>3, <3>4, <3>5
  <2>2. ASSUME profile = "corrected", step = "scout"  PROVE FlattenSeq(Bare(Groups)) = Chunks
    BY <2>2, GroupsAre DEF CurationInv, PhaseInv, Curating
  <2> QED
    BY <2>1, <2>2 DEF SourcesOwnedOnce, Bare
<1> QED
  BY <1>1, CurationKept, PTL

\* What the decisions say of each candidate, in terms of the requirements that
\* carry it.
LEMMA EfficientCarriers ==
    ASSUME CurationInv, profile = "efficient", step = "curated", NEW c \in ToSet(Candidates)
    PROVE  IF c \in audited THEN Carried(c, reqs) = {} ELSE \E r : Carried(c, reqs) = {r}
<1>1. Candidates \in Seq(Position) /\ DOMAIN Candidates = 1..Len(Candidates)
  BY CandidatesAre DEF CurationInv, Complete
<1>2. rejected = audited /\ Decided(Len(Candidates))
  BY DEF CurationInv, DecidedInv
<1>3. PICK i \in 1..Len(Candidates) : c = Candidates[i]
  BY <1>1 DEF ToSet
<1> QED
  BY <1>2, <1>3 DEF Decided

\* After the corrected curation, a candidate is rejected and carried by no
\* requirement, or kept and carried by one.
LEMMA CorrectedCarriers ==
    ASSUME CurationInv, profile = "corrected", step = "curated", NEW c \in ToSet(Candidates)
    PROVE  IF c \in rejected THEN Carried(c, reqs) = {} ELSE \E r : Carried(c, reqs) = {r}
<1>1. Distinct(Candidates)
  BY CandidatesAre DEF CurationInv, Complete
<1>2. assigned \in [DOMAIN Candidates -> Nat] /\ rejected = Rejects(assigned) /\ SynthesisOK(assigned, reqs)
  BY DEF CurationInv, AssignedInv
<1>3. PICK i \in DOMAIN Candidates : c = Candidates[i]
  BY DEF ToSet
<1>4. \A r \in DOMAIN reqs : c \in reqs[r].sources <=> assigned[i] = r
  BY <1>1, <1>2, <1>3 DEF SynthesisOK, Sources, Distinct
<1>5. c \in rejected <=> assigned[i] = 0
  BY <1>1, <1>2, <1>3 DEF Rejects, Distinct
<1>6. DOMAIN reqs = {assigned[j] : j \in DOMAIN assigned} \ {0}
  BY <1>2 DEF SynthesisOK
<1>7. assigned[i] # 0 <=> assigned[i] \in DOMAIN reqs
  BY <1>2, <1>3, <1>6
<1>8. Carried(c, reqs) = {r \in DOMAIN reqs : r = assigned[i]}
  BY <1>4 DEF Carried
<1>9. CASE assigned[i] \in DOMAIN reqs
  <2>1. Carried(c, reqs) = {assigned[i]}
    BY <1>8, <1>9
  <2> QED
    BY <1>5, <1>7, <1>9, <2>1
<1>10. CASE assigned[i] \notin DOMAIN reqs
  <2>1. Carried(c, reqs) = {}
    BY <1>8, <1>10
  <2> QED
    BY <1>5, <1>7, <1>10, <2>1
<1> QED
  BY <1>9, <1>10

\* No candidate is lost and none is used twice, whatever the batches, decisions
\* and audits are, and in both pipelines.
THEOREM CandidatesKept == Spec => []CandidatesAccounted
<1>1. CurationInv => CandidatesAccounted
  <2> SUFFICES ASSUME CurationInv, step = "curated", NEW c \in ToSet(Candidates)
               PROVE  Cardinality(Carried(c, reqs)) =
                        IF c \in (IF profile = "efficient" THEN audited ELSE rejected) THEN 0 ELSE 1
    BY DEF CandidatesAccounted, Carried
  <2>1. profile \in {"efficient", "corrected"}
    BY DEF CurationInv, PhaseInv, Curating
  <2>2. IF c \in (IF profile = "efficient" THEN audited ELSE rejected)
          THEN Carried(c, reqs) = {} ELSE \E r : Carried(c, reqs) = {r}
    BY <2>1, EfficientCarriers, CorrectedCarriers
  <2> QED
    BY <2>2, FS_EmptySet, FS_Singleton
<1> QED
  BY <1>1, CurationKept, PTL
-----------------------------------------------------------------------------
(* What the review keeps *)

\* s is a sequence, whatever of.
Listed(s) == s \in Seq(ToSet(s))

Suited(suite) ==
    /\ suite = [reqs |-> suite.reqs, scns |-> suite.scns, tests |-> suite.tests]
    /\ Listed(suite.reqs) /\ Listed(suite.scns) /\ Listed(suite.tests)

\* What is being added is more sequences.
Adding(more) ==
    /\ DOMAIN more = {"left", "tasks", "scns", "targets", "tested", "tests"}
    /\ Listed(more.scns) /\ Listed(more.tests)

\* The steps of the efficient pipeline after its critic.
Repairing == {"repair", "patch", "expand", "expand_tests", "verify"}

\* Findings of the report that are neither being repaired nor await it.
Settled == ToSet(report) \ (group \cup ToSet(queue))

\* A verification resolved the finding, and saw its targets as they are.
Seen(f) == \E j \in judged : j.finding = f.id /\ \A key \in f.on : j.seen[key] = Artifact(bundle, key)

ReportInv ==
    /\ critiques \in Nat
    /\ Listed(report) /\ \A i \in DOMAIN report : report[i].id = i
    /\ step \in Early => report = <<>> /\ queue = <<>> /\ group = {} /\ open = {} /\ judged = {}
    /\ step = "review" => queue = <<>> /\ group = {} /\ open = {} /\ judged = {} /\ (critiques = 0 => report = <<>>)
    /\ step \in {"patch", "expand", "expand_tests", "verify"} => profile = "efficient"
    /\ step \in {"write", "verify_all"} => profile = "corrected"
    /\ step \in {"scenarios", "tests"} => profile = "staged"

SuiteInv == profile = "efficient" =>
    /\ step \in {"design", "review"} \cup Repairing => Suited(bundle)
    /\ step \in {"expand", "expand_tests"} => Adding(gap)
    /\ reviewed \in Nat

RepairInv == profile = "efficient" =>
    /\ step \in {"review"} \cup Repairing => \A f \in ToSet(report) : f.on \subseteq Keys(bundle)
    /\ step \in Repairing =>
         /\ Listed(queue) /\ ToSet(queue) \subseteq ToSet(report) /\ group \subseteq ToSet(report)
         /\ step = "repair" => group = {}
         /\ group \cap ToSet(queue) = {}
         /\ \A f \in group \cup ToSet(queue) : f.id \in open
         /\ \A f \in group \cup ToSet(queue), h \in Settled : f.on \cap h.on = {}
         /\ \A f \in group, h \in ToSet(queue) : f.on \cap h.on = {}
         /\ \A f \in Settled : f.id \in open \/ Seen(f)

OpenInv == profile = "corrected" /\ step \in {"repair", "verify_all"} => open = FindingIds(ToSet(report))

AcceptedInv == step \in {"finish", "completed"} => \A f \in ToSet(report) : Seen(f)

ReviewInv == ReportInv /\ SuiteInv /\ RepairInv /\ OpenInv /\ AcceptedInv
-----------------------------------------------------------------------------
(* What the operations on suites do *)

\* Elements of sequences that are put together, and of a part of one.
LEMMA ListedConcat ==
    ASSUME NEW s, NEW t, Listed(s), Listed(t)
    PROVE  Listed(s \o t) /\ ToSet(s \o t) = ToSet(s) \cup ToSet(t)
<1> DEFINE X == ToSet(s) \cup ToSet(t)
<1>1. s \in Seq(X) /\ t \in Seq(X)
  <2>1. ToSet(s) \subseteq X /\ ToSet(t) \subseteq X
    OBVIOUS
  <2> QED
    BY <2>1, SeqMonotonic DEF Listed
<1> HIDE DEF X
<1>2. ToSet(s \o t) = ToSet(s) \cup ToSet(t) /\ s \o t \in Seq(X)
  BY <1>1, ConcatElements, ConcatProperties
<1>3. s \o t \in Seq(ToSet(s \o t))
  BY <1>2 DEF X
<1> QED
  BY <1>2, <1>3 DEF Listed

\* A function on an initial part of the numbers is a sequence.
LEMMA ListedFunction ==
    ASSUME NEW s, NEW n \in Nat, DOMAIN s = 1..n, s = [i \in 1..n |-> s[i]]
    PROVE  Listed(s) /\ Len(s) = n
<1>1. s \in Seq(ToSet(s))
  BY DEF ToSet
<1> QED
  BY <1>1 DEF Listed

\* A listed sequence is the function of its places.
LEMMA ListedIs ==
    ASSUME NEW s, Listed(s)
    PROVE  Len(s) \in Nat /\ DOMAIN s = 1..Len(s) /\ s = [i \in 1..Len(s) |-> s[i]]
BY LenProperties DEF Listed

\* The empty sequence is listed and has no elements.
LEMMA ListedEmpty == Listed(<<>>) /\ ToSet(<<>>) = {}
BY EmptySeq DEF Listed, ToSet

\* A part of a sequence, and what is selected of one.
LEMMA ListedPart ==
    ASSUME NEW s, Listed(s), NEW m \in Nat, m >= 1, NEW n \in Nat, n <= Len(s)
    PROVE  Listed(SubSeq(s, m, n)) /\ ToSet(SubSeq(s, m, n)) \subseteq ToSet(s)
<1> DEFINE t == SubSeq(s, m, n)
<1>1. Len(s) \in Nat /\ DOMAIN s = 1..Len(s)
  BY ListedIs
<1>2. \A i \in m..n : s[i] \in ToSet(s)
  BY <1>1 DEF ToSet
<1>3. m \in Int /\ n \in Int
  OBVIOUS
<1>4. t \in Seq(ToSet(s))
  BY <1>2, <1>3, SubSeqProperties
<1> HIDE DEF t
<1>5. ToSet(t) \subseteq ToSet(s)
  BY <1>4 DEF ToSet
<1>6. t \in Seq(ToSet(t))
  BY <1>4 DEF ToSet
<1> QED
  BY <1>5, <1>6 DEF Listed, t

\* A part of a listed sequence is listed.
LEMMA ListedSelected ==
    ASSUME NEW s, Listed(s), NEW S
    PROVE  Listed(Selected(s, S)) /\ ToSet(Selected(s, S)) = ToSet(s) \cap S
<1> DEFINE t == Selected(s, S)
<1>1. t \in Seq(ToSet(s)) /\ ToSet(t) = ToSet(s) \cap S
  BY SelectedFrom DEF Listed
<1> HIDE DEF t
<1>2. t \in Seq(ToSet(t))
  BY <1>1 DEF ToSet
<1> QED
  BY <1>1, <1>2 DEF Listed, t

\* A patch of other artifacts leaves what has a key (_merge_patch).
LEMMA MergeKeeps ==
    ASSUME NEW suite, NEW patch, \A k \in DOMAIN patch : patch[k].id = k[2],
           NEW kind \in Kinds, NEW id, <<kind, id>> \notin DOMAIN patch
    PROVE  Artifact(MergePatch(suite, patch), <<kind, id>>) = Artifact(suite, <<kind, id>>)
<1> DEFINE key == <<kind, id>>
           old == List(suite, kind)
           new == List(MergePatch(suite, patch), kind)
<1>1. new = [i \in DOMAIN old |-> IF <<kind, old[i].id>> \in DOMAIN patch THEN patch[<<kind, old[i].id>>] ELSE old[i]]
  BY DEF MergePatch, List, Kinds
<1> HIDE DEF old, new
<1>2. \A i \in DOMAIN old : new[i].id = old[i].id /\ (old[i].id = id => new[i] = old[i])
  <2> SUFFICES ASSUME NEW i \in DOMAIN old  PROVE new[i].id = old[i].id /\ (old[i].id = id => new[i] = old[i])
    OBVIOUS
  <2>1. CASE <<kind, old[i].id>> \in DOMAIN patch
    <3>1. new[i] = patch[<<kind, old[i].id>>] /\ patch[<<kind, old[i].id>>].id = old[i].id
      BY <1>1, <2>1
    <3> QED
      BY <3>1, <2>1
  <2>2. CASE <<kind, old[i].id>> \notin DOMAIN patch
    BY <1>1, <2>2
  <2> QED
    BY <2>1, <2>2
<1>3. DOMAIN new = DOMAIN old
  BY <1>1
<1>4. {a \in ToSet(new) : a.id = id} = {a \in ToSet(old) : a.id = id}
  BY <1>2, <1>3 DEF ToSet
<1>5. Holders(MergePatch(suite, patch), key) = Holders(suite, key)
  BY <1>4 DEF Holders, old, new
<1> QED
  BY <1>5 DEF Artifact

\* A patch keeps the keys of a suite and its sequences.
LEMMA MergeSuited ==
    ASSUME NEW suite, NEW patch, \A k \in DOMAIN patch : patch[k].id = k[2], Suited(suite)
    PROVE  Suited(MergePatch(suite, patch)) /\ Keys(MergePatch(suite, patch)) = Keys(suite)
<1> DEFINE merged == MergePatch(suite, patch)
           put(kind) == [i \in DOMAIN List(suite, kind) |->
                           IF <<kind, List(suite, kind)[i].id>> \in DOMAIN patch
                             THEN patch[<<kind, List(suite, kind)[i].id>>] ELSE List(suite, kind)[i]]
<1>1. merged = [reqs |-> put("REQ"), scns |-> put("SCN"), tests |-> put("TC")]
  BY DEF MergePatch
<1>2. \A kind \in Kinds : Listed(List(suite, kind)) /\ List(merged, kind) = put(kind)
  <2> HIDE DEF put, merged
  <2>1. Listed(List(suite, "REQ")) /\ Listed(List(suite, "SCN")) /\ Listed(List(suite, "TC"))
    BY DEF List, Suited
  <2>2. List(merged, "REQ") = put("REQ") /\ List(merged, "SCN") = put("SCN") /\ List(merged, "TC") = put("TC")
    BY <1>1 DEF List
  <2> QED
    BY <2>1, <2>2 DEF Kinds
<1>3. ASSUME NEW kind \in Kinds  PROVE Listed(put(kind)) /\ Ids(put(kind)) = Ids(List(suite, kind))
  <2> DEFINE old == List(suite, kind)
             new == put(kind)
  <2>1. Len(old) \in Nat /\ DOMAIN old = 1..Len(old)
    BY <1>2, ListedIs
  <2>2. DOMAIN new = DOMAIN old /\ new = [i \in DOMAIN old |-> new[i]]
    OBVIOUS
  <2>3. \A i \in DOMAIN old : new[i].id = old[i].id
    <3> SUFFICES ASSUME NEW i \in DOMAIN old  PROVE new[i].id = old[i].id
      OBVIOUS
    <3> HIDE DEF old
    <3>1. CASE <<kind, old[i].id>> \in DOMAIN patch
      <4>1. new[i] = patch[<<kind, old[i].id>>] /\ patch[<<kind, old[i].id>>].id = old[i].id
        BY <3>1 DEF old
      <4> QED
        BY <4>1
    <3>2. CASE <<kind, old[i].id>> \notin DOMAIN patch
      BY <3>2 DEF old
    <3> QED
      BY <3>1, <3>2
  <2> HIDE DEF old, new
  <2>4. Listed(new)
    BY <2>1, <2>2, ListedFunction
  <2>5. Ids(new) = Ids(old)
    BY <2>2, <2>3 DEF Ids, ToSet
  <2> QED
    BY <2>4, <2>5 DEF old, new
<1> HIDE DEF put
<1>4. Suited(merged)
  <2>1. Listed(put("REQ")) /\ Listed(put("SCN")) /\ Listed(put("TC"))
    BY <1>3 DEF Kinds
  <2> HIDE DEF merged
  <2> QED
    BY <1>1, <2>1 DEF Suited
<1>5. \A kind \in Kinds : Ids(List(merged, kind)) = Ids(List(suite, kind))
  BY <1>2, <1>3
<1> HIDE DEF merged
<1>6. Keys(merged) = Keys(suite)
  BY <1>5 DEF Keys
<1> QED
  BY <1>4, <1>6 DEF merged

\* Scenarios and test cases added to a suite, if it is valid with them, leave
\* what had a key before.
Added(suite, scns, tests) == [suite EXCEPT !.scns = @ \o scns, !.tests = @ \o tests]

\* An addition takes no key away, and a valid one changes no artifact.
LEMMA AddedKeeps ==
    ASSUME NEW suite, NEW scns, NEW tests, Suited(suite), Listed(scns), Listed(tests)
    PROVE  /\ Suited(Added(suite, scns, tests)) /\ Keys(suite) \subseteq Keys(Added(suite, scns, tests))
           /\ Valid(Added(suite, scns, tests)) =>
                \A key \in Keys(suite) : Artifact(Added(suite, scns, tests), key) = Artifact(suite, key)
<1> DEFINE more == Added(suite, scns, tests)
<1>1. more = [reqs |-> suite.reqs, scns |-> suite.scns \o scns, tests |-> suite.tests \o tests]
  <2>1. more = [suite EXCEPT !.scns = @ \o scns, !.tests = @ \o tests]
    BY Zenon DEF Added
  <2> HIDE DEF more
  <2> QED
    BY <2>1 DEF Suited
<1> HIDE DEF more
<1>2. /\ Listed(suite.scns \o scns) /\ ToSet(suite.scns \o scns) = ToSet(suite.scns) \cup ToSet(scns)
      /\ Listed(suite.tests \o tests) /\ ToSet(suite.tests \o tests) = ToSet(suite.tests) \cup ToSet(tests)
  BY ListedConcat DEF Suited
<1>3. Suited(more)
  BY <1>1, <1>2 DEF Suited
<1>4. \A kind \in Kinds : ToSet(List(suite, kind)) \subseteq ToSet(List(more, kind))
  BY <1>1, <1>2 DEF Kinds, List
<1>5. Keys(suite) \subseteq Keys(more)
  BY <1>4 DEF Keys, Ids
<1>6. ASSUME NEW s, NEW t, Listed(s), Listed(t), Duplicates(s \o t) = {}, NEW id \in Ids(s)
      PROVE  {a \in ToSet(s \o t) : a.id = id} = {a \in ToSet(s) : a.id = id}
  <2> DEFINE c == s \o t
             m == Len(s)
             n == Len(t)
  <2>1. m \in Nat /\ n \in Nat /\ DOMAIN s = 1..m /\ DOMAIN t = 1..n
    BY <1>6, ListedIs
  <2>2. /\ DOMAIN c = 1..(m + n) /\ \A i \in 1..m : c[i] = s[i]
        /\ \A i \in 1..n : c[m + i] = t[i]
    BY <1>6, <2>1 DEF Listed
  <2>3. ToSet(c) = ToSet(s) \cup ToSet(t)
    BY <1>6, ListedConcat
  <2> HIDE DEF c, m, n
  <2>4. PICK i \in 1..m : s[i].id = id
    BY <1>6, <2>1 DEF Ids, ToSet
  <2>5. ASSUME NEW j \in 1..n  PROVE t[j].id # id
    <3>1. m + j \in 1..(m + n) /\ i \in 1..(m + n) /\ m + j # i
      BY <2>1
    <3>2. c[m + j].id = id => id \in Duplicates(c)
      <4>1. c[i].id = id
        BY <2>2, <2>4
      <4> QED
        BY <2>2, <3>1, <4>1 DEF Duplicates
    <3> QED
      BY <1>6, <2>2, <3>2 DEF c
  <2>6. \A a \in ToSet(t) : a.id # id
    BY <2>1, <2>5 DEF ToSet
  <2> QED
    BY <2>3, <2>6 DEF c
<1>7. ASSUME Valid(more), NEW key \in Keys(suite)  PROVE Artifact(more, key) = Artifact(suite, key)
  <2>1. \A kind \in Kinds : Duplicates(List(more, kind)) = {}
    BY <1>7, ValidMeans
  <2>2. PICK kind \in Kinds : key \in {kind} \X Ids(List(suite, kind))
    BY DEF Keys
  <2>3. key[1] = kind /\ key[2] \in Ids(List(suite, kind))
    BY <2>2
  <2>4. {a \in ToSet(List(more, kind)) : a.id = key[2]} = {a \in ToSet(List(suite, kind)) : a.id = key[2]}
    <3>1. CASE kind = "REQ"
      BY <1>1, <3>1 DEF List
    <3>2. CASE kind = "SCN"
      <4>1. List(more, kind) = suite.scns \o scns /\ List(suite, kind) = suite.scns
        BY <1>1, <3>2 DEF List
      <4>2. Duplicates(suite.scns \o scns) = {} /\ key[2] \in Ids(suite.scns) /\ Listed(suite.scns)
        BY <2>1, <2>3, <4>1 DEF Suited
      <4>3. {a \in ToSet(suite.scns \o scns) : a.id = key[2]} = {a \in ToSet(suite.scns) : a.id = key[2]}
        BY <1>6, <4>2
      <4> QED
        BY <4>1, <4>3
    <3>3. CASE kind = "TC"
      <4>1. List(more, kind) = suite.tests \o tests /\ List(suite, kind) = suite.tests
        BY <1>1, <3>3 DEF List
      <4>2. Duplicates(suite.tests \o tests) = {} /\ key[2] \in Ids(suite.tests) /\ Listed(suite.tests)
        BY <2>1, <2>3, <4>1 DEF Suited
      <4>3. {a \in ToSet(suite.tests \o tests) : a.id = key[2]} = {a \in ToSet(suite.tests) : a.id = key[2]}
        BY <1>6, <4>2
      <4> QED
        BY <4>1, <4>3
    <3> QED
      BY <3>1, <3>2, <3>3 DEF Kinds
  <2>5. Holders(more, key) = Holders(suite, key)
    BY <2>3, <2>4 DEF Holders
  <2> QED
    BY <2>5 DEF Artifact
<1> QED
  BY <1>3, <1>5, <1>7 DEF more

\* A group that is repaired has every finding that shares a target with it.
LEMMA OverlappingClosed ==
    /\ Overlapping \subseteq ToSet(queue)
    /\ \A f \in Overlapping, h \in ToSet(queue) \ Overlapping : f.on \cap h.on = {}
<1>1. Overlapping \subseteq ToSet(queue)
  BY DEF Overlapping
<1>2. ASSUME NEW f \in Overlapping, NEW h \in ToSet(queue) \ Overlapping  PROVE f.on \cap h.on = {}
  <2>1. PICK S \in SUBSET ToSet(queue) : queue[1] \in S /\ Closed(S) /\ h \notin S
    BY <1>2 DEF Overlapping
  <2>2. f \in S
    BY <1>2, <2>1 DEF Overlapping
  <2> QED
    BY <1>2, <2>1, <2>2 DEF Closed
<1> QED
  BY <1>1, <1>2

\* What a critic reports is numbered after what is there, and its targets exist.
LEMMA ReportsAre ==
    ASSUME Len(report) \in Nat, NEW suite, NEW findings \in Reports(suite)
    PROVE  /\ Listed(findings)
           /\ \A i \in DOMAIN findings : findings[i].id = Len(report) + i /\ findings[i].on \subseteq Keys(suite)
<1> DEFINE X == [on : SUBSET (Kinds \X Nat), type : STRING, kind : {"semantic", "citation", "relationship"}]
<1>1. Complaints \in Seq(X)
  BY ReviewAssumption
<1>2. PICK some \in SUBSET {c \in ToSet(Complaints) : InScope(c, suite)} :
         findings = [i \in DOMAIN Selected(Complaints, some) |->
                       [id |-> Len(report) + i, on |-> Selected(Complaints, some)[i].on,
                        type |-> Selected(Complaints, some)[i].type, kind |-> Selected(Complaints, some)[i].kind]]
  BY DEF Reports
<1> HIDE DEF X
<1> DEFINE chosen == Selected(Complaints, some)
<1>3. chosen \in Seq(X) /\ ToSet(chosen) = ToSet(Complaints) \cap some
  BY <1>1, SelectedFrom
<1>4. Len(chosen) \in Nat /\ DOMAIN chosen = 1..Len(chosen)
  BY <1>3, LenProperties
<1>5. /\ DOMAIN findings = DOMAIN chosen /\ findings = [i \in DOMAIN chosen |-> findings[i]]
      /\ \A i \in DOMAIN chosen : findings[i].id = Len(report) + i /\ findings[i].on = chosen[i].on
  BY <1>2
<1> HIDE DEF chosen
<1>6. Listed(findings)
  BY <1>4, <1>5, ListedFunction
<1>7. \A i \in DOMAIN chosen : chosen[i].on \subseteq Keys(suite)
  BY <1>3 DEF InScope, ToSet
<1> QED
  BY <1>5, <1>6, <1>7

\* What has a key of the part of a suite that is in scope is in the suite.
LEMMA ScopeWithin ==
    ASSUME Suited(bundle), NEW some, ToSet(some) \subseteq ToSet(bundle.reqs)
    PROVE  Keys(Scope(some)) \subseteq Keys(bundle)
<1> DEFINE part == Scope(some)
<1>1. /\ ToSet(Linked(bundle.scns, Ids(some))) \subseteq ToSet(bundle.scns)
      /\ ToSet(Linked(bundle.tests, Ids(some))) \subseteq ToSet(bundle.tests)
  BY ListedSelected DEF Linked, Suited
<1>2. /\ ToSet(part.reqs) \subseteq ToSet(bundle.reqs) /\ ToSet(part.scns) \subseteq ToSet(bundle.scns)
      /\ ToSet(part.tests) \subseteq ToSet(bundle.tests)
  BY <1>1 DEF Scope
<1> HIDE DEF part
<1>3. \A kind \in Kinds : ToSet(List(part, kind)) \subseteq ToSet(List(bundle, kind))
  BY <1>2 DEF Kinds, List
<1>4. Keys(part) \subseteq Keys(bundle)
  BY <1>3 DEF Keys, Ids
<1> QED
  BY <1>4 DEF part

\* A finding stays as a verification saw it while its targets are what they were.
LEMMA SeenStays ==
    ASSUME NEW f, Seen(f), judged \subseteq judged', \A key \in f.on : Artifact(bundle, key)' = Artifact(bundle, key)
    PROVE  Seen(f)'
<1>1. PICK j \in judged : j.finding = f.id /\ \A key \in f.on : j.seen[key] = Artifact(bundle, key)
  BY DEF Seen
<1> QED
  BY <1>1 DEF Seen

\* A finding that is resolved was seen.
LEMMA Closing ==
    ASSUME NEW findings, NEW unresolved, Close(findings, unresolved), bundle' = bundle,
           NEW f \in findings, f.id \notin unresolved
    PROVE  Seen(f)'
<1> DEFINE j == [finding |-> f.id, seen |-> [key \in f.on |-> Artifact(bundle, key)]]
<1>1. j \in judged'
  BY DEF Close
<1>2. j.finding = f.id /\ \A key \in f.on : j.seen[key] = Artifact(bundle', key)
  OBVIOUS
<1> HIDE DEF j
<1> QED
  BY <1>1, <1>2 DEF Seen

\* Until its critic a run has no findings: other phases leave the review alone,
\* and the suites they make are sequences.
LEMMA EarlySteps ==
    ASSUME ReviewInv, review' = review, step \in Early, profile' = profile,
           step' \in Early \cup {"review", "finish", "failed", "conflict"},
           step' = "write" => profile = "corrected", step' \in {"scenarios", "tests"} => profile = "staged",
           profile = "efficient" /\ step' \in {"design", "review"} => Suited(bundle')
    PROVE  ReviewInv'
<1>1. /\ report' = report /\ queue' = queue /\ group' = group /\ open' = open /\ judged' = judged /\ gap' = gap
      /\ critiques' = critiques /\ reviewed' = reviewed
  BY DEF review, critic, repair, verdict
<1>2. report = <<>> /\ queue = <<>> /\ group = {} /\ open = {} /\ judged = {} /\ ToSet(report) = {}
  BY ListedEmpty DEF ReviewInv, ReportInv
<1>3. ReportInv'
  BY <1>1, <1>2 DEF ReviewInv, ReportInv, Early
<1>4. SuiteInv'
  BY <1>1 DEF ReviewInv, SuiteInv, Early, Repairing
<1>5. RepairInv' /\ OpenInv' /\ AcceptedInv'
  BY <1>1, <1>2 DEF RepairInv, OpenInv, AcceptedInv, Early, Repairing
<1> QED
  BY <1>3, <1>4, <1>5 DEF ReviewInv

\* The suite the requirements are handed on as, and one with designs.
LEMMA HandedSuited == ASSUME NEW list \in Seq(Curated)  PROVE Suited(AsSuite(list))
<1> DEFINE rs == [i \in DOMAIN list |-> Requirement(i, list[i].deps)]
<1>1. Len(list) \in Nat /\ DOMAIN list = 1..Len(list)
  BY LenProperties
<1>2. DOMAIN rs = 1..Len(list) /\ rs = [i \in 1..Len(list) |-> rs[i]]
  BY <1>1
<1>3. AsSuite(list) = [reqs |-> rs, scns |-> <<>>, tests |-> <<>>]
  BY DEF AsSuite, EmptySuite
<1> HIDE DEF rs
<1>4. Listed(rs)
  BY <1>1, <1>2, ListedFunction
<1> QED
  BY <1>3, <1>4, ListedEmpty DEF Suited

\* A batch appended to a suite leaves a suite.
LEMMA AppendedSuited ==
    ASSUME NEW suite, Suited(suite), NEW scns, Listed(scns), NEW tests, Listed(tests)
    PROVE  Suited(AppendBatch(suite, scns, tests))
<1> DEFINE ss == [i \in DOMAIN scns |-> [scns[i] EXCEPT !.id = Len(suite.scns) + i]]
           ts == [i \in DOMAIN tests |-> [tests[i] EXCEPT !.id = Len(suite.tests) + i, !.scn = Len(suite.scns) + @]]
<1>1. DOMAIN scns = 1..Len(scns) /\ DOMAIN tests = 1..Len(tests) /\ Len(scns) \in Nat /\ Len(tests) \in Nat
  BY ListedIs
<1>2. /\ DOMAIN ss = 1..Len(scns) /\ ss = [i \in 1..Len(scns) |-> ss[i]]
      /\ DOMAIN ts = 1..Len(tests) /\ ts = [i \in 1..Len(tests) |-> ts[i]]
  BY <1>1
<1>3. AppendBatch(suite, scns, tests) = [reqs |-> suite.reqs, scns |-> suite.scns \o ss, tests |-> suite.tests \o ts]
  <2>1. AppendBatch(suite, scns, tests) = [suite EXCEPT !.scns = @ \o ss, !.tests = @ \o ts]
    BY Zenon DEF AppendBatch
  <2> HIDE DEF ss, ts
  <2> QED
    BY <2>1 DEF Suited
<1> HIDE DEF ss, ts
<1>4. Listed(ss) /\ Listed(ts)
  BY <1>1, <1>2, ListedFunction
<1>5. Listed(suite.scns \o ss) /\ Listed(suite.tests \o ts)
  BY <1>4, ListedConcat DEF Suited
<1> QED
  BY <1>3, <1>5 DEF Suited

\* Answers are sequences.
LEMMA AnswersListed ==
    /\ \A ids : \A scns \in ScenarioAnswers(ids) : Listed(scns)
    /\ \A scns : \A tests \in TestAnswers(scns) : Listed(tests)
<1>1. ASSUME NEW S, NEW s, NEW links \in Answers(S), DOMAIN s = DOMAIN links, s = [i \in DOMAIN s |-> s[i]]
      PROVE  Listed(s)
  <2>1. PICK n \in 0..MaxAnswer : links \in [1..n -> S]
    BY DEF Answers
  <2>2. n \in Nat
    BY IndexAssumption
  <2>3. DOMAIN s = 1..n /\ s = [i \in 1..n |-> s[i]]
    BY <1>1, <2>1
  <2> QED
    BY <2>2, <2>3, ListedFunction
<1>2. ASSUME NEW ids, NEW scns \in ScenarioAnswers(ids)  PROVE Listed(scns)
  <2>1. PICK links \in Answers(NonEmpty(ids)) : scns = [i \in DOMAIN links |-> Scenario(i, links[i])]
    BY DEF ScenarioAnswers
  <2> QED
    BY <1>1, <2>1
<1>3. ASSUME NEW scns, NEW tests \in TestAnswers(scns)  PROVE Listed(tests)
  <2>1. PICK links \in Answers(UNION {{s.id} \X NonEmpty(s.reqs) : s \in ToSet(scns)}) :
           tests = [i \in DOMAIN links |-> TestCase(i, links[i][1], links[i][2])]
    BY DEF TestAnswers
  <2> QED
    BY <1>1, <2>1
<1> QED
  BY <1>2, <1>3

\* The steps of the other parts of a generation keep the review's invariant.
LEMMA OutsideSteps ==
    ASSUME CurationInv, ReviewInv,
           \/ Curate /\ UNCHANGED <<drafting, review, judging>>
           \/ Draft /\ UNCHANGED <<curation, review, judging>>
           \/ JudgeStep /\ UNCHANGED <<curation, drafting, review>>
    PROVE  ReviewInv'
<1> USE DEF Claim, Early
<1>1. CASE Curate /\ UNCHANGED <<drafting, review, judging>>
  <2>1. /\ step \in Early /\ profile' = profile /\ step' \in Early \cup {"failed", "conflict"}
        /\ step' \notin {"write", "scenarios", "tests"}
    BY <1>1 DEF Curate, Scout, SourceAudit, CheckOwnership, CurateBatch, CurateDone, RejectionAudit,
                RecheckDone, ScoutCorrected, Synthesize, DecideAll, Materialize, MaterializeDone, HandOver
  <2>2. ASSUME profile = "efficient", step' \in {"design", "review"}  PROVE Suited(bundle')
    <3>1. HandOver
      BY <1>1, <2>2 DEF Curate, Scout, SourceAudit, CheckOwnership, CurateBatch, CurateDone, RejectionAudit,
                  RecheckDone, ScoutCorrected, Synthesize, DecideAll, Materialize, MaterializeDone
    <3>2. reqs \in Seq(Curated) /\ bundle' = AsSuite(reqs)
      BY <2>2, <3>1 DEF CurationInv, DecidedInv, HandOver
    <3> QED
      BY <3>2, HandedSuited
  <2> QED
    BY <1>1, <2>1, <2>2, EarlySteps
<1>2. CASE Draft /\ UNCHANGED <<curation, review, judging>>
  <2>1. /\ step \in Early /\ profile' = profile /\ step' \in Early \cup {"review", "failed", "conflict"}
        /\ step' = "write" => profile = "corrected"
        /\ step' \in {"scenarios", "tests"} => profile = "staged"
    BY <1>2 DEF Draft, DesignTask, DesignDone, Architect, WriteTests, Assemble, SingleAnswer,
                StagedRequirements, StagedScenarios, StagedTests, ReviewInv, ReportInv
  <2>2. ASSUME profile = "efficient", step' \in {"design", "review"}  PROVE Suited(bundle')
    <3>1. CASE DesignTask
      <4>1. PICK few : \E scns \in ScenarioAnswers(Ids(few)) :
              bundle' = AppendBatch(bundle, scns, [i \in DOMAIN scns |-> TestCase(i, i, scns[i].reqs)])
        BY <3>1 DEF DesignTask
      <4>2. PICK scns \in ScenarioAnswers(Ids(few)) :
              bundle' = AppendBatch(bundle, scns, [i \in DOMAIN scns |-> TestCase(i, i, scns[i].reqs)])
        BY <4>1
      <4> DEFINE tests == [i \in DOMAIN scns |-> TestCase(i, i, scns[i].reqs)]
      <4>3. Listed(scns)
        BY AnswersListed
      <4>4. Len(scns) \in Nat /\ DOMAIN tests = 1..Len(scns) /\ tests = [i \in 1..Len(scns) |-> tests[i]]
        BY <4>3, ListedIs
      <4>5. bundle' = AppendBatch(bundle, scns, tests)
        BY <4>2
      <4> HIDE DEF tests
      <4>6. Listed(tests)
        BY <4>4, ListedFunction
      <4>7. Suited(bundle)
        BY <2>2, <3>1 DEF ReviewInv, SuiteInv, DesignTask
      <4> QED
        BY <4>3, <4>5, <4>6, <4>7, AppendedSuited
    <3>2. CASE DesignDone
      BY <2>2, <3>2 DEF ReviewInv, SuiteInv, DesignDone
    <3>3. CASE Architect \/ Assemble \/ SingleAnswer \/ \E g \in DOMAIN written : WriteTests(g)
      BY <2>2, <3>3 DEF ReviewInv, ReportInv, Architect, Assemble, SingleAnswer, WriteTests
    <3>4. CASE StagedRequirements \/ StagedScenarios \/ StagedTests
      BY <2>2, <3>4 DEF ReviewInv, ReportInv, StagedRequirements, StagedScenarios, StagedTests
    <3> QED
      BY <1>2, <3>1, <3>2, <3>3, <3>4 DEF Draft
  <2> QED
    BY <1>2, <2>1, <2>2, EarlySteps
<1>3. CASE JudgeStep /\ UNCHANGED <<curation, drafting, review>>
  <2>1. /\ step \in {"judge", "evaluate"} /\ profile' = profile /\ step' \in {"judge", "evaluate", "finish", "conflict"}
    BY <1>3 DEF JudgeStep, LoadUnits, ExtractUnits, CatalogDone, StartEvaluation, EvaluationTask,
                NextUnits, Score, JudgeFails, run
  <2> QED
    BY <1>3, <2>1, EarlySteps
<1> QED
  BY <1>1, <1>2, <1>3

\* A critic of the efficient pipeline adds findings on the part it was shown.
LEMMA CriticReports == ASSUME ReviewInv, CriticTask  PROVE ReviewInv'
<1> USE DEF Claim
<1>1. /\ profile = "efficient" /\ step = "review" /\ reviewed \in Nat /\ reviewed < Len(bundle.reqs)
      /\ critiques \in Nat /\ Suited(bundle) /\ Listed(report) /\ profile' = profile /\ bundle' = bundle
      /\ queue = <<>> /\ group = {} /\ open = {} /\ judged = {}
      /\ step' \in {"review", "conflict"} /\ critiques' = critiques + 1
      /\ UNCHANGED <<queue, group, open, judged, gap>>
  BY DEF ReviewInv, ReportInv, SuiteInv, CriticTask, repair, verdict
<1>2. PICK some \in FirstGroups(SubSeq(bundle.reqs, reviewed + 1, Len(bundle.reqs)), CriticBatch) :
        (\E findings \in Reports(Scope(some)) : report' = report \o findings) /\ reviewed' = reviewed + Len(some)
  BY DEF CriticTask
<1>3. PICK findings \in Reports(Scope(some)) : report' = report \o findings
  BY <1>2
<1>4. ToSet(some) \subseteq ToSet(bundle.reqs) /\ Len(some) \in Nat
  <2> DEFINE left == SubSeq(bundle.reqs, reviewed + 1, Len(bundle.reqs))
  <2>1. Listed(bundle.reqs) /\ Len(bundle.reqs) \in Nat
    BY <1>1, ListedIs DEF Suited
  <2>2. Listed(left) /\ ToSet(left) \subseteq ToSet(bundle.reqs)
    <3>1. reviewed + 1 \in Nat /\ reviewed + 1 >= 1
      BY <1>1
    <3> QED
      BY <2>1, <3>1, ListedPart
  <2> HIDE DEF left
  <2>3. PICK n \in 1..(IF Len(left) < CriticBatch THEN Len(left) ELSE CriticBatch) : some = SubSeq(left, 1, n)
    BY <1>2 DEF FirstGroups, left
  <2>4. Len(left) \in Nat /\ n \in Nat /\ n <= Len(left)
    <3>1. Len(left) \in Nat /\ CriticBatch \in Nat
      BY <2>2, ListedIs, ReviewAssumption
    <3> QED
      BY <2>3, <3>1
  <2>5. Listed(some) /\ ToSet(some) \subseteq ToSet(left)
    BY <2>2, <2>3, <2>4, ListedPart
  <2> QED
    BY <2>2, <2>5, ListedIs
<1>5. /\ Listed(findings) /\ Len(report) \in Nat
      /\ \A i \in DOMAIN findings : findings[i].id = Len(report) + i /\ findings[i].on \subseteq Keys(Scope(some))
  BY <1>1, ListedIs, ReportsAre
<1>6. Listed(report') /\ ToSet(report') = ToSet(report) \cup ToSet(findings)
  BY <1>1, <1>3, <1>5, ListedConcat
<1>7. \A i \in DOMAIN report' : report'[i].id = i
  <2> DEFINE m == Len(report)
             n == Len(findings)
  <2>1. m \in Nat /\ n \in Nat /\ DOMAIN report = 1..m /\ DOMAIN findings = 1..n
    BY <1>1, <1>5, ListedIs
  <2>2. /\ DOMAIN report' = 1..(m + n) /\ \A i \in 1..m : report'[i] = report[i]
        /\ \A i \in 1..n : report'[m + i] = findings[i]
    BY <1>1, <1>3, <1>5, <2>1 DEF Listed
  <2>3. (\A i \in 1..m : report[i].id = i) /\ \A i \in 1..n : findings[i].id = m + i
    BY <1>5, <2>1 DEF ReviewInv, ReportInv
  <2> HIDE DEF m, n
  <2>4. ASSUME NEW i \in 1..(m + n), i \notin 1..m  PROVE i - m \in 1..n /\ i = m + (i - m)
    BY <2>1, <2>4
  <2> QED
    BY <2>2, <2>3, <2>4
<1>8. ReportInv'
  BY <1>1, <1>6, <1>7 DEF ReviewInv, ReportInv, Early
<1>9. SuiteInv'
  BY <1>1, <1>2, <1>4 DEF SuiteInv, Repairing
<1>10. \A f \in ToSet(report') : f.on \subseteq Keys(bundle)
  <2>1. \A f \in ToSet(findings) : f.on \subseteq Keys(Scope(some))
    BY <1>5 DEF ToSet
  <2>2. \A f \in ToSet(report) : f.on \subseteq Keys(bundle)
    BY <1>1 DEF ReviewInv, RepairInv
  <2> QED
    BY <1>1, <1>4, <1>6, <2>1, <2>2, ScopeWithin
<1>11. RepairInv' /\ OpenInv' /\ AcceptedInv'
  BY <1>1, <1>10 DEF RepairInv, OpenInv, AcceptedInv, Repairing
<1> QED
  BY <1>8, <1>9, <1>11 DEF ReviewInv

\* The findings go to their repairs, all of them open.
LEMMA CriticEnds == ASSUME ReviewInv, CriticDone  PROVE ReviewInv'
<1>1. /\ profile = "efficient" /\ step = "review" /\ profile' = profile /\ bundle' = bundle
      /\ queue' = report /\ open' = FindingIds(ToSet(report))
      /\ step' = IF report = <<>> THEN "finish" ELSE "repair"
      /\ UNCHANGED <<reviewed, critiques, report, group, gap, judged>> /\ group = {}
      /\ Listed(report)
  BY DEF ReviewInv, ReportInv, CriticDone, critic
<1>2. ReportInv'
  BY <1>1 DEF ReviewInv, ReportInv, Early
<1>3. SuiteInv'
  BY <1>1 DEF ReviewInv, SuiteInv, Repairing
<1>4. Settled' = {}
  BY <1>1 DEF Settled
<1>5. RepairInv'
  <2>1. \A f \in ToSet(report) : f.on \subseteq Keys(bundle) /\ f.id \in open'
    BY <1>1 DEF ReviewInv, RepairInv, FindingIds
  <2> QED
    BY <1>1, <1>4, <2>1 DEF RepairInv
<1>6. OpenInv' /\ AcceptedInv'
  BY <1>1, ListedEmpty DEF OpenInv, AcceptedInv
<1> QED
  BY <1>2, <1>3, <1>5, <1>6 DEF ReviewInv

\* The critic of the corrected pipeline reports on the whole suite.
LEMMA SuiteCritiqued == ASSUME ReviewInv, CritiqueSuite  PROVE ReviewInv'
<1> USE DEF Claim
<1>1. /\ profile = "corrected" /\ profile' = profile /\ step = "review" /\ critiques = 0 /\ report = <<>>
      /\ step' \in {"finish", "repair", "conflict"} /\ critiques' = 1
      /\ UNCHANGED <<group, gap, judged>>
  BY DEF ReviewInv, ReportInv, CritiqueSuite
<1>2. PICK findings \in Reports(bundle) :
         /\ report' = findings /\ open' = FindingIds(ToSet(findings))
         /\ step' = "finish" => findings = <<>>
  BY DEF CritiqueSuite
<1>3. Listed(findings) /\ \A i \in DOMAIN findings : findings[i].id = Len(report) + i
  BY <1>1, ReportsAre
<1>4. \A i \in DOMAIN findings : findings[i].id = i
  <2>1. DOMAIN findings = 1..Len(findings) /\ Len(findings) \in Nat
    BY <1>3, ListedIs
  <2> QED
    BY <1>1, <1>3, <2>1
<1>5. ReportInv'
  BY <1>1, <1>2, <1>3, <1>4 DEF ReportInv, Early
<1>6. SuiteInv' /\ RepairInv' /\ OpenInv'
  BY <1>1, <1>2 DEF SuiteInv, RepairInv, OpenInv
<1>7. AcceptedInv'
  BY <1>1, <1>2, ListedEmpty DEF AcceptedInv
<1> QED
  BY <1>5, <1>6, <1>7 DEF ReviewInv

\* The first finding and all that overlap with it are repaired together; what
\* else awaits its repair shares no target with them.
LEMMA GroupTaken == ASSUME ReviewInv, NextRepair  PROVE ReviewInv'
<1>1. /\ profile = "efficient" /\ step = "repair" /\ profile' = profile /\ bundle' = bundle
      /\ group' = Overlapping /\ queue' = Selected(queue, ToSet(queue) \ group')
      /\ (step' = "expand" /\ gap' = NewGap(group')) \/ step' = "patch"
      /\ UNCHANGED <<reviewed, critiques, report, open, judged>>
  BY DEF NextRepair, critic, verdict
<1>2. /\ group = {} /\ Listed(queue) /\ ToSet(queue) \subseteq ToSet(report)
      /\ \A f \in ToSet(queue) : f.id \in open
      /\ \A f \in ToSet(queue), h \in Settled : f.on \cap h.on = {}
      /\ \A f \in Settled : f.id \in open \/ Seen(f)
      /\ \A f \in ToSet(report) : f.on \subseteq Keys(bundle)
      /\ Suited(bundle) /\ reviewed \in Nat
  BY <1>1 DEF ReviewInv, RepairInv, SuiteInv, Repairing
<1>3. group' \subseteq ToSet(queue) /\ \A f \in group', h \in ToSet(queue) \ group' : f.on \cap h.on = {}
  BY <1>1, OverlappingClosed
<1>4. Listed(queue') /\ ToSet(queue') = ToSet(queue) \ group'
  <2>1. /\ Listed(Selected(queue, ToSet(queue) \ group'))
        /\ ToSet(Selected(queue, ToSet(queue) \ group')) = ToSet(queue) \cap (ToSet(queue) \ group')
    BY <1>2, ListedSelected
  <2> QED
    BY <1>1, <2>1
<1>5. Settled' = Settled
  BY <1>1, <1>2, <1>3, <1>4 DEF Settled
<1>6. \A f \in Settled : Seen(f) => Seen(f)'
  BY <1>1 DEF Seen, Artifact
<1>7. ReportInv'
  BY <1>1 DEF ReviewInv, ReportInv, Early
<1>8. step' = "expand" => Adding(gap')
  BY <1>1, ListedEmpty DEF NewGap, Adding
<1>9. SuiteInv'
  BY <1>1, <1>2, <1>8 DEF SuiteInv
<1>10. RepairInv'
  <2>1. /\ group' \cap ToSet(queue') = {} /\ group' \cup ToSet(queue') = ToSet(queue)
        /\ step' # "repair"
    BY <1>1, <1>3, <1>4
  <2>2. \A f \in group' \cup ToSet(queue') : f.id \in open'
    BY <1>1, <1>2, <2>1
  <2>3. \A f \in group' \cup ToSet(queue'), h \in Settled' : f.on \cap h.on = {}
    BY <1>2, <1>5, <2>1
  <2>4. \A f \in group', h \in ToSet(queue') : f.on \cap h.on = {}
    BY <1>3, <1>4
  <2>5. \A f \in Settled' : f.id \in open' \/ Seen(f)'
    BY <1>1, <1>2, <1>5, <1>6
  <2>6. ToSet(queue') \subseteq ToSet(report') /\ group' \subseteq ToSet(report')
    BY <1>1, <1>2, <1>3, <1>4
  <2>7. \A f \in ToSet(report') : f.on \subseteq Keys(bundle')
    BY <1>1, <1>2
  <2> QED
    BY <1>4, <2>1, <2>2, <2>3, <2>4, <2>5, <2>6, <2>7 DEF RepairInv
<1>11. OpenInv' /\ AcceptedInv'
  BY <1>1 DEF OpenInv, AcceptedInv
<1> QED
  BY <1>7, <1>9, <1>10, <1>11 DEF ReviewInv

\* While a group is repaired, the findings settled before keep their targets.
LEMMA RepairKeeps ==
    ASSUME ReviewInv, profile = "efficient", step \in Repairing \ {"repair"},
           step' \in (Repairing \ {"repair"}) \cup {"failed", "conflict"},
           UNCHANGED <<profile, reviewed, critiques, report, queue, group, open, judged>>,
           step' \in Repairing => /\ Suited(bundle') /\ Keys(bundle) \subseteq Keys(bundle')
                                  /\ \A f \in Settled : \A key \in f.on : Artifact(bundle, key)' = Artifact(bundle, key),
           step' \in {"expand", "expand_tests"} => Adding(gap')
    PROVE  ReviewInv'
<1>1. ReportInv'
  BY DEF ReviewInv, ReportInv, Early, Repairing
<1>2. SuiteInv'
  BY DEF ReviewInv, SuiteInv, Repairing
<1>3. RepairInv'
  <2> SUFFICES ASSUME step' \in Repairing
               PROVE  /\ \A f \in ToSet(report) : f.on \subseteq Keys(bundle')
                      /\ \A f \in Settled : f.id \in open \/ Seen(f)'
    BY DEF ReviewInv, RepairInv, Repairing, Settled
  <2>1. \A f \in ToSet(report) : f.on \subseteq Keys(bundle')
    BY DEF ReviewInv, RepairInv, Repairing
  <2>2. ASSUME NEW f \in Settled, f.id \notin open  PROVE Seen(f)'
    <3>1. Seen(f)
      BY <2>2 DEF ReviewInv, RepairInv, Repairing
    <3>2. \A key \in f.on : Artifact(bundle, key)' = Artifact(bundle, key)
      OBVIOUS
    <3>3. judged \subseteq judged'
      OBVIOUS
    <3> QED
      BY <3>1, <3>2, <3>3, SeenStays
  <2> QED
    BY <2>1, <2>2
<1>4. OpenInv' /\ AcceptedInv'
  BY DEF OpenInv, AcceptedInv, Repairing
<1> QED
  BY <1>1, <1>2, <1>3, <1>4 DEF ReviewInv

\* A repair replaces the targets of its group and no others.
LEMMA GroupPatched == ASSUME ReviewInv, Patch  PROVE ReviewInv'
<1> USE DEF Claim
<1>1. /\ profile = "efficient" /\ step = "patch" /\ profile' = profile
      /\ step' \in {"verify", "failed", "conflict"} /\ review' = review
  BY DEF ReviewInv, ReportInv, Patch
<1>2. UNCHANGED <<profile, reviewed, critiques, report, queue, group, open, judged, gap>>
  BY <1>1 DEF review, critic, repair, verdict
<1>3. PICK patch \in Patches(group) : bundle' = MergePatch(bundle, patch)
  BY DEF Patch
<1>4. DOMAIN patch = Targets(group) /\ \A key \in DOMAIN patch : patch[key].id = key[2]
  BY DEF Patches, RepairOK
<1>5. Suited(bundle) /\ (\A f \in ToSet(report) : f.on \subseteq Keys(bundle))
      /\ \A f \in group, h \in Settled : f.on \cap h.on = {}
  BY <1>1 DEF ReviewInv, SuiteInv, RepairInv, Repairing
<1>6. Suited(bundle') /\ Keys(bundle') = Keys(bundle)
  BY <1>3, <1>4, <1>5, MergeSuited
<1>7. ASSUME NEW f \in Settled, NEW key \in f.on  PROVE Artifact(bundle, key)' = Artifact(bundle, key)
  <2>1. key \in Keys(bundle) /\ key \notin DOMAIN patch
    BY <1>4, <1>5, <1>7 DEF Settled, Targets
  <2>2. PICK kind \in Kinds : key \in {kind} \X Ids(List(bundle, kind))
    BY <2>1 DEF Keys
  <2>3. PICK id \in Ids(List(bundle, kind)) : key = <<kind, id>>
    BY <2>2
  <2>4. Artifact(MergePatch(bundle, patch), <<kind, id>>) = Artifact(bundle, <<kind, id>>)
    BY <1>4, <2>1, <2>3, MergeKeeps
  <2>5. Artifact(bundle, key)' = Artifact(bundle', key)
    OBVIOUS
  <2> QED
    BY <1>3, <2>3, <2>4, <2>5
<1>8. step' \in (Repairing \ {"repair"}) \cup {"failed", "conflict"} /\ step \in Repairing \ {"repair"}
      /\ step' \notin {"expand", "expand_tests"}
  BY <1>1 DEF Repairing
<1> QED
  BY <1>1, <1>2, <1>6, <1>7, <1>8, RepairKeeps

\* What is being added is put together from answers, the suite waits.
LEMMA GapWritten == ASSUME ReviewInv, GapScenarios \/ GapTargets \/ GapTests  PROVE ReviewInv'
<1> USE DEF Claim
<1>1. /\ profile = "efficient" /\ step \in {"expand", "expand_tests"} /\ profile' = profile /\ bundle' = bundle
      /\ step' \in {"expand", "expand_tests", "failed", "conflict"}
  BY DEF ReviewInv, ReportInv, GapScenarios, GapTargets, GapTests
<1>2. UNCHANGED <<profile, reviewed, critiques, report, queue, group, open, judged>>
  BY DEF GapScenarios, GapTargets, GapTests, critic, verdict
<1>3. Suited(bundle) /\ Adding(gap)
  BY <1>1 DEF ReviewInv, SuiteInv, Repairing
<1>4. ASSUME NEW s, NEW k, Listed(s)  PROVE Listed(Numbered_from(s, k))
  <2> DEFINE t == Numbered_from(s, k)
  <2>1. Len(s) \in Nat /\ DOMAIN t = 1..Len(s) /\ t = [i \in 1..Len(s) |-> t[i]]
    BY <1>4, ListedIs DEF Numbered_from
  <2> HIDE DEF t
  <2>2. Listed(t)
    BY <2>1, ListedFunction
  <2> QED
    BY <2>2 DEF t
<1>5. Adding(gap')
  <2>1. CASE GapScenarios
    <3>1. PICK some : \E scns \in ScenarioAnswers(Ids(some)) :
             gap' = [gap EXCEPT !.left = SubSeq(@, Len(some) + 1, Len(@)), !.tasks = @ + 1,
                      !.scns = @ \o Numbered_from(scns, Len(bundle.scns) + Len(@))]
      BY <2>1 DEF GapScenarios
    <3>2. PICK scns \in ScenarioAnswers(Ids(some)) :
             gap' = [gap EXCEPT !.left = SubSeq(@, Len(some) + 1, Len(@)), !.tasks = @ + 1,
                      !.scns = @ \o Numbered_from(scns, Len(bundle.scns) + Len(@))]
      BY <3>1
    <3> DEFINE new == Numbered_from(scns, Len(bundle.scns) + Len(gap.scns))
    <3>3. Listed(new)
      BY <1>4, AnswersListed
    <3> HIDE DEF new
    <3>4. gap'.scns = gap.scns \o new /\ gap'.tests = gap.tests /\ DOMAIN gap' = DOMAIN gap
      BY <1>3, <3>2 DEF Adding, new
    <3> QED
      BY <1>3, <3>3, <3>4, ListedConcat DEF Adding
  <2>2. CASE GapTargets
    BY <1>3, <2>2 DEF GapTargets, Adding
  <2>3. CASE GapTests
    <3>1. PICK some : \E tests \in TestAnswers(some) :
             gap' = [gap EXCEPT !.tested = @ + Len(some), !.tasks = @ + 1,
                      !.tests = @ \o Numbered_from(tests, Len(bundle.tests) + Len(@))]
      BY <2>3 DEF GapTests
    <3>2. PICK tests \in TestAnswers(some) :
             gap' = [gap EXCEPT !.tested = @ + Len(some), !.tasks = @ + 1,
                      !.tests = @ \o Numbered_from(tests, Len(bundle.tests) + Len(@))]
      BY <3>1
    <3> DEFINE new == Numbered_from(tests, Len(bundle.tests) + Len(gap.tests))
    <3>3. Listed(new)
      BY <1>4, AnswersListed
    <3> HIDE DEF new
    <3>4. gap'.tests = gap.tests \o new /\ gap'.scns = gap.scns /\ DOMAIN gap' = DOMAIN gap
      BY <1>3, <3>2 DEF Adding, new
    <3> QED
      BY <1>3, <3>3, <3>4, ListedConcat DEF Adding
  <2> QED
    BY <2>1, <2>2, <2>3
<1>6. \A f \in Settled : \A key \in f.on : Artifact(bundle, key)' = Artifact(bundle, key)
  BY <1>1 DEF Artifact
<1>7. step' \in (Repairing \ {"repair"}) \cup {"failed", "conflict"} /\ step \in Repairing \ {"repair"}
  BY <1>1 DEF Repairing
<1> QED
  BY <1>1, <1>2, <1>3, <1>5, <1>6, <1>7, RepairKeeps

\* An addition changes no artifact, if the suite is valid with it.
LEMMA GapAdded == ASSUME ReviewInv, GapDone  PROVE ReviewInv'
<1>1. /\ profile = "efficient" /\ step = "expand_tests" /\ profile' = profile
      /\ step' = IF Valid(bundle') THEN "verify" ELSE "failed"
      /\ bundle' = [bundle EXCEPT !.scns = @ \o gap.scns, !.tests = @ \o gap.tests]
  BY DEF ReviewInv, ReportInv, GapDone
<1>2. UNCHANGED <<profile, reviewed, critiques, report, queue, group, open, judged>>
  BY DEF GapDone, critic, verdict
<1>3. /\ Suited(bundle) /\ Listed(gap.scns) /\ Listed(gap.tests)
      /\ \A f \in ToSet(report) : f.on \subseteq Keys(bundle)
  BY <1>1 DEF ReviewInv, SuiteInv, RepairInv, Repairing, Adding
<1>4. /\ Suited(bundle') /\ Keys(bundle) \subseteq Keys(bundle')
      /\ Valid(bundle') => \A key \in Keys(bundle) : Artifact(bundle', key) = Artifact(bundle, key)
  <2> DEFINE s == gap.scns
             t == gap.tests
  <2>1. bundle' = Added(bundle, s, t)
    BY <1>1 DEF Added
  <2>2. Suited(bundle) /\ Listed(s) /\ Listed(t)
    BY <1>3
  <2> HIDE DEF s, t
  <2>3. /\ Suited(Added(bundle, s, t)) /\ Keys(bundle) \subseteq Keys(Added(bundle, s, t))
        /\ Valid(Added(bundle, s, t)) =>
             \A key \in Keys(bundle) : Artifact(Added(bundle, s, t), key) = Artifact(bundle, key)
    BY <2>2, AddedKeeps
  <2> QED
    BY <2>1, <2>3
<1>5. step' \in Repairing => \A f \in Settled : \A key \in f.on : Artifact(bundle, key)' = Artifact(bundle, key)
  BY <1>1, <1>3, <1>4 DEF Repairing, Settled
<1>6. step' \in (Repairing \ {"repair"}) \cup {"failed", "conflict"} /\ step \in Repairing \ {"repair"}
      /\ step' \notin {"expand", "expand_tests"}
  BY <1>1 DEF Repairing
<1> QED
  BY <1>1, <1>2, <1>4, <1>5, <1>6, RepairKeeps

\* The verdict on a group: its findings are settled, the unresolved ones open.
LEMMA GroupVerified == ASSUME ReviewInv, Verify  PROVE ReviewInv'
<1> USE DEF Claim
<1>1. PICK resolved, unresolved \in SUBSET FindingIds(ToSet(report)) :
         VerificationOK(resolved, unresolved, group) /\ Close(group, unresolved)
  BY DEF Verify
<1>2. /\ profile = "efficient" /\ step = "verify" /\ profile' = profile /\ bundle' = bundle /\ group' = {}
      /\ UNCHANGED <<reviewed, critiques, report, queue>>
      /\ step' \in {"repair", "finish", "failed", "conflict"}
      /\ step' = "finish" => queue = <<>> /\ open' = {}
      /\ open' = open \ (FindingIds(group) \ unresolved) /\ judged \subseteq judged'
  BY <1>1 DEF ReviewInv, ReportInv, Verify, critic, Close
<1>3. /\ Listed(queue) /\ ToSet(queue) \subseteq ToSet(report) /\ group \subseteq ToSet(report)
      /\ group \cap ToSet(queue) = {}
      /\ \A f \in group \cup ToSet(queue) : f.id \in open
      /\ \A f \in group \cup ToSet(queue), h \in Settled : f.on \cap h.on = {}
      /\ \A f \in group, h \in ToSet(queue) : f.on \cap h.on = {}
      /\ \A f \in Settled : f.id \in open \/ Seen(f)
      /\ \A f \in ToSet(report) : f.on \subseteq Keys(bundle)
      /\ Suited(bundle) /\ reviewed \in Nat
  BY <1>2 DEF ReviewInv, RepairInv, SuiteInv, Repairing
<1>4. \A f, h \in ToSet(report) : f.id = h.id => f = h
  BY DEF ReviewInv, ReportInv, ToSet
<1>5. Settled' = Settled \cup group
  BY <1>2, <1>3 DEF Settled
<1>6. \A f \in ToSet(report) \ group : f.id \in open => f.id \in open'
  BY <1>2, <1>3, <1>4 DEF FindingIds
<1>7. \A f \in Settled' : f.id \in open' \/ Seen(f)'
  <2> SUFFICES ASSUME NEW f \in Settled', f.id \notin open'  PROVE Seen(f)'
    OBVIOUS
  <2>1. CASE f \in group
    <3>1. f.id \notin unresolved
      BY <1>2, <1>3, <2>1
    <3> QED
      BY <1>1, <1>2, <2>1, <3>1, Closing
  <2>2. CASE f \notin group
    <3>1. f \in Settled /\ f \in ToSet(report) \ group
      BY <1>5, <2>2 DEF Settled
    <3>2. Seen(f)
      BY <1>3, <1>6, <3>1
    <3>3. \A key \in f.on : Artifact(bundle, key)' = Artifact(bundle, key)
      BY <1>2 DEF Artifact
    <3> QED
      BY <1>2, <3>2, <3>3, SeenStays
  <2> QED
    BY <2>1, <2>2
<1>8. ReportInv'
  BY <1>2 DEF ReviewInv, ReportInv, Early
<1>9. SuiteInv'
  BY <1>2, <1>3 DEF SuiteInv
<1>10. RepairInv'
  <2>1. \A f \in ToSet(queue) : f.id \in open'
    BY <1>3, <1>6
  <2>2. \A f \in ToSet(queue), h \in Settled' : f.on \cap h.on = {}
    BY <1>3, <1>5
  <2> QED
    BY <1>2, <1>3, <1>7, <2>1, <2>2 DEF RepairInv
<1>11. OpenInv'
  BY <1>2 DEF OpenInv
<1>12. AcceptedInv'
  <2> SUFFICES ASSUME step' \in {"finish", "completed"}, NEW f \in ToSet(report')  PROVE Seen(f)'
    BY DEF AcceptedInv
  <2>1. queue' = <<>> /\ open' = {} /\ group' = {}
    BY <1>2
  <2>2. f \in Settled'
    BY <2>1, ListedEmpty DEF Settled
  <2> QED
    BY <1>7, <2>1, <2>2
<1> QED
  BY <1>8, <1>9, <1>10, <1>11, <1>12 DEF ReviewInv

\* The corrected pipeline keeps all findings open until its one verification,
\* which sees the suite that is returned.
LEMMA AllVerified == ASSUME ReviewInv, RepairRole \/ RepairsDone \/ VerifyAll  PROVE ReviewInv'
<1> USE DEF Claim
<1>1. /\ profile = "corrected" /\ profile' = profile /\ report' = report /\ critiques' = critiques
      /\ step' \in {"repair", "verify_all", "finish", "failed", "conflict"}
  BY DEF ReviewInv, ReportInv, RepairRole, RepairsDone, VerifyAll, review, critic
<1>2. ReportInv'
  BY <1>1 DEF ReviewInv, ReportInv, Early
<1>3. SuiteInv' /\ RepairInv'
  BY <1>1 DEF SuiteInv, RepairInv
<1>4. CASE RepairRole \/ RepairsDone
  <2>1. open' = open /\ step = "repair" /\ step' \in {"repair", "verify_all", "failed", "conflict"}
    BY <1>4 DEF RepairRole, RepairsDone, review, verdict
  <2> QED
    BY <1>1, <1>2, <1>3, <2>1 DEF ReviewInv, OpenInv, AcceptedInv
<1>5. CASE VerifyAll
  <2>1. PICK resolved, unresolved \in SUBSET FindingIds(ToSet(report)) : Close(ToSet(report), unresolved)
    BY <1>5 DEF VerifyAll
  <2>2. step = "verify_all" /\ bundle' = bundle /\ step' \in {"finish", "failed", "conflict"} /\ (step' = "finish" => open' = {})
    BY <1>5 DEF VerifyAll
  <2>3. open' = FindingIds(ToSet(report)) \ (FindingIds(ToSet(report)) \ unresolved)
    BY <1>1, <2>1, <2>2 DEF ReviewInv, OpenInv, Close
  <2>4. AcceptedInv'
    <3> SUFFICES ASSUME step' = "finish", NEW f \in ToSet(report)  PROVE Seen(f)'
      BY <1>1, <2>2 DEF AcceptedInv
    <3>1. f.id \notin unresolved
      BY <2>2, <2>3 DEF FindingIds
    <3> QED
      BY <2>1, <2>2, <3>1, Closing
  <2>5. OpenInv'
    BY <2>2 DEF OpenInv
  <2> QED
    BY <1>2, <1>3, <2>4, <2>5 DEF ReviewInv
<1> QED
  BY <1>4, <1>5

\* The run ends with the suite as it is, or nothing was asked of it.
LEMMA EndSteps ==
    ASSUME ReviewInv, SkipCritic \/ LinkUncovered \/ Revise \/ Finish \/ Fail \/ UNCHANGED vars
    PROVE  ReviewInv'
<1>1. CASE SkipCritic
  <2>1. /\ step' = "finish" /\ profile' = profile /\ bundle' = bundle /\ report = <<>>
        /\ UNCHANGED <<reviewed, critiques, report, queue, group, gap, open, judged>>
    BY <1>1 DEF ReviewInv, ReportInv, SkipCritic, review, critic, repair, verdict
  <2>2. ReportInv'
    BY <2>1 DEF ReviewInv, ReportInv, Early
  <2>3. SuiteInv' /\ RepairInv' /\ OpenInv' /\ AcceptedInv'
    BY <2>1, ListedEmpty DEF ReviewInv, SuiteInv, RepairInv, OpenInv, AcceptedInv, Repairing
  <2> QED
    BY <2>2, <2>3 DEF ReviewInv
<1>2. CASE LinkUncovered \/ Revise
  <2>1. step \in {"check", "revise"} /\ step' \in {"revise", "judge"} /\ profile' = profile /\ review' = review
    BY <1>2 DEF LinkUncovered, Revise
  <2> QED
    BY <2>1, EarlySteps DEF Early
<1>3. CASE Finish
  <2>1. /\ step = "finish" /\ step' \in {"completed", "failed"} /\ profile' = profile /\ bundle' = bundle
        /\ UNCHANGED <<reviewed, critiques, report, queue, group, gap, open, judged>>
    BY <1>3 DEF Finish, review, critic, repair, verdict
  <2>2. ReportInv'
    BY <2>1 DEF ReviewInv, ReportInv, Early
  <2>3. SuiteInv' /\ RepairInv' /\ OpenInv'
    BY <2>1 DEF ReviewInv, SuiteInv, RepairInv, OpenInv, Repairing
  <2>4. \A f \in ToSet(report) : Seen(f)' <=> Seen(f)
    BY <2>1 DEF Seen, Artifact
  <2>5. AcceptedInv'
    BY <2>1, <2>4 DEF ReviewInv, AcceptedInv
  <2> QED
    BY <2>2, <2>3, <2>5 DEF ReviewInv
<1>4. CASE Fail
  <2>1. step' = "failed" /\ report' = <<>> /\ critiques' = critiques /\ profile' = profile /\ reviewed' = 0
    BY <1>4 DEF Fail, NoReview
  <2>2. ReportInv'
    BY <2>1, ListedEmpty DEF ReviewInv, ReportInv, Early
  <2>3. SuiteInv' /\ RepairInv' /\ OpenInv' /\ AcceptedInv'
    BY <2>1 DEF ReviewInv, SuiteInv, RepairInv, OpenInv, AcceptedInv, Repairing
  <2> QED
    BY <2>2, <2>3 DEF ReviewInv
<1>5. CASE UNCHANGED vars
  <2>1. UNCHANGED <<profile, step, bundle, reviewed, critiques, report, queue, group, gap, open, judged>>
    BY <1>5 DEF vars, run, review, critic, repair, verdict
  <2>2. ReportInv' /\ SuiteInv' /\ OpenInv'
    BY <2>1 DEF ReviewInv, ReportInv, SuiteInv, OpenInv
  <2>3. Settled' = Settled /\ \A f : Seen(f)' <=> Seen(f)
    BY <2>1 DEF Settled, Seen, Artifact
  <2>4. RepairInv' /\ AcceptedInv'
    BY <2>1, <2>3 DEF ReviewInv, RepairInv, AcceptedInv
  <2> QED
    BY <2>2, <2>4 DEF ReviewInv
<1> QED
  BY <1>1, <1>2, <1>3, <1>4, <1>5

\* The invariant of the review.
LEMMA ReviewKept == Spec => []ReviewInv
<1>1. Init => ReviewInv
  <2> SUFFICES ASSUME Init  PROVE ReviewInv
    OBVIOUS
  <2>1. /\ step = "scout" /\ critiques = 0 /\ reviewed = 0 /\ report = <<>> /\ queue = <<>> /\ group = {}
        /\ open = {} /\ judged = {}
    BY DEF Init, InitReview
  <2> QED
    BY <2>1, ListedEmpty DEF ReviewInv, ReportInv, SuiteInv, RepairInv, OpenInv, AcceptedInv, Early, Repairing
<1>2. CurationInv /\ ReviewInv /\ [Next]_vars => ReviewInv'
  <2> SUFFICES ASSUME CurationInv, ReviewInv, [Next]_vars  PROVE ReviewInv'
    OBVIOUS
  <2>1. CASE \/ Curate /\ UNCHANGED <<drafting, review, judging>>
             \/ Draft /\ UNCHANGED <<curation, review, judging>>
             \/ JudgeStep /\ UNCHANGED <<curation, drafting, review>>
    BY <2>1, OutsideSteps
  <2>2. CASE ReviewStep
    BY <2>2, CriticReports, CriticEnds, GroupTaken, GroupPatched, GapWritten, GapAdded, GroupVerified,
       SuiteCritiqued, AllVerified, EndSteps DEF ReviewStep
  <2>3. CASE Fail \/ UNCHANGED vars
    BY <2>3, EndSteps
  <2> QED
    BY <2>1, <2>2, <2>3 DEF Next
<1> QED
  BY <1>1, <1>2, CurationKept, PTL DEF Spec

\* A run that completes has every finding of its critic resolved by a
\* verification that saw the targets as the run returns them, whatever the
\* findings are and whatever repairs and additions are made in between.
THEOREM Accepted == Spec => []AcceptedIsVerified
<1>1. ReviewInv => AcceptedIsVerified
  BY DEF ReviewInv, AcceptedInv, AcceptedIsVerified, Seen
<1> QED
  BY <1>1, ReviewKept, PTL
-----------------------------------------------------------------------------
(* What the judge has asked and been told *)

\* Test cases of the suite that were put to the judge with the current units.
Tried(id) == \E i \in 1..tried : bundle.tests[i].id = id

\* Answers about the first units, the current ones for those test cases that
\* were tried with them, and the test cases that the answers map to each.
Answered(done) ==
    /\ \A v \in verdicts : \E id \in Ids(bundle.tests), u \in DOMAIN units, b \in BOOLEAN : v = <<id, units[u], b>>
    /\ \A id \in Ids(bundle.tests), u \in DOMAIN units :
         /\ (\E b \in BOOLEAN : <<id, units[u], b>> \in verdicts) <=> (u <= done \/ (u \in current /\ Tried(id)))
         /\ u \in mappings[id] <=> <<id, units[u], TRUE>> \in verdicts

Evaluated ==
    /\ mappings \in [Ids(bundle.tests) -> SUBSET (DOMAIN units)]
    /\ tried \in 0..Len(bundle.tests)
    /\ \E done \in 0..Len(units) : \E last \in (done + 1)..Len(units) :
         current = (done + 1)..last /\ Answered(done)

\* The suite is as it is returned.
Concluded == {"finish", "completed", "failed"}

\* The steps at which there is only the suite of a single agent, or a judge of one.
Suites == {"scenarios", "tests", "check", "revise", "judge", "evaluate"}

\* The catalog states what the document does, each once; nothing was asked before
\* an evaluation; and a score was made of a whole one.
JudgeInv ==
    /\ step \in Suites => bundle \in Bundle
    /\ units \in Seq(Statements) /\ Distinct(units) /\ ToSet(units) = stated
    /\ step \notin {"evaluate", "conflict"} \cup Concluded => verdicts = {}
    /\ step = "evaluate" => Evaluated
    /\ score # None => step \in Concluded /\ ScoredInFull

\* A statement appended unless it is there.
Inserted(s, x) == IF x \in ToSet(s) THEN s ELSE Append(s, x)

LEMMA AppendNew ==
    ASSUME NEW S, NEW s \in Seq(S), Distinct(s), NEW x \in S
    PROVE  Inserted(s, x) \in Seq(S) /\ Distinct(Inserted(s, x)) /\ ToSet(Inserted(s, x)) = ToSet(s) \cup {x}
<1> DEFINE t == Inserted(s, x)
<1>1. CASE x \in ToSet(s)
  <2>1. t = s
    BY <1>1 DEF Inserted
  <2> QED
    BY <1>1, <2>1
<1>2. CASE x \notin ToSet(s)
  <2> DEFINE one == <<x>>
  <2>1. one \in Seq(S) /\ ToSet(one) = {x} /\ Distinct(one)
    BY DEF ToSet, Distinct
  <2>2. t = s \o one
    BY <1>2 DEF Inserted
  <2>3. ToSet(s) \cap ToSet(one) = {}
    BY <1>2, <2>1
  <2> HIDE DEF one
  <2>4. s \o one \in Seq(S)
    BY <2>1, ConcatProperties
  <2>5. ToSet(s \o one) = ToSet(s) \cup ToSet(one) /\ Distinct(s \o one)
    BY <2>1, <2>3, ConcatElements
  <2> QED
    BY <2>1, <2>2, <2>4, <2>5
<1> QED
  BY <1>1, <1>2

\* A catalog is extended by what a batch states and the catalog does not: no
\* unit states what another does.
LEMMA ExtendAdds ==
    ASSUME NEW catalog \in Seq(Statements), Distinct(catalog), NEW batch \in Seq(Statements)
    PROVE  /\ Extend(catalog, batch) \in Seq(Statements) /\ Distinct(Extend(catalog, batch))
           /\ ToSet(Extend(catalog, batch)) = ToSet(catalog) \cup ToSet(batch)
<1> DEFINE n == Len(batch)
           A == Seq(Statements)
           Put(a, x) == IF x \in ToSet(a) THEN a ELSE Append(a, x)
           Body(g) == [s \in SUBSET (DOMAIN batch) |->
                         IF s = {} THEN catalog ELSE Put(g[s \ {Max(s)}], batch[Max(s)])]
           f == CHOOSE g : g = Body(g)
           end == f[DOMAIN batch]
<1>1. Extend(catalog, batch) = end
  BY Zenon DEF Extend, FoldLeft, MapThenFoldSet
<1>2. n \in Nat /\ DOMAIN batch = 1..n /\ \A i \in 1..n : batch[i] \in Statements
  OBVIOUS
<1>3. ASSUME NEW a \in A, NEW x \in Statements  PROVE Put(a, x) \in A
  OBVIOUS
<1> DEFINE h == [p \in A \X (1..n) |-> Put(p[1], batch[p[2]])]
<1>4. f = Body(f)
  <2>1. h \in [A \X (1..n) -> A] /\ \A a \in A, i \in 1..n : h[<<a, i>>] = Put(a, batch[i])
    <3> HIDE DEF Put, A
    <3> QED
      BY <1>2, <1>3
  <2>0. catalog \in A
    OBVIOUS
  <2> HIDE DEF h, Put, A, n
  <2>2. PICK g \in [SUBSET (1..n) -> A] : Folds(g, h, catalog, n)
    BY <1>2, <2>0, <2>1, Iterated
  <2>3. ASSUME NEW s \in SUBSET (1..n)
        PROVE  g[s] = IF s = {} THEN catalog ELSE Put(g[s \ {Max(s)}], batch[Max(s)])
    <3>1. g[s] = IF s = {} THEN catalog ELSE h[<<g[s \ {Max(s)}], Max(s)>>]
      BY <2>2 DEF Folds
    <3>2. s # {} => Max(s) \in 1..n /\ g[s \ {Max(s)}] \in A
      BY <1>2, MaxPlace
    <3> QED
      BY <2>1, <3>1, <3>2
  <2>4. g = Body(g)
    BY <1>2, <2>3
  <2> HIDE DEF Body
  <2> QED
    BY <2>4
<1> HIDE DEF f
<1>5. \A s \in SUBSET (1..n) : f[s] = IF s = {} THEN catalog ELSE Put(f[s \ {Max(s)}], batch[Max(s)])
  <2> HIDE DEF Put
  <2> QED
    BY <1>2, <1>4
<1> DEFINE Ready(a, k) == /\ a \in A /\ Distinct(a)
                          /\ ToSet(a) = ToSet(catalog) \cup {batch[i] : i \in 1..k}
           T == {k \in Nat : k <= n => Ready(f[1..k], k)}
<1>6. 0 \in T
  <2>1. f[1..0] = catalog
    <3>1. 1..0 = {} /\ {} \in SUBSET (1..n)
      OBVIOUS
    <3> HIDE DEF Put
    <3> QED
      BY <1>5, <3>1
  <2>2. Ready(catalog, 0)
    <3>1. {batch[i] : i \in 1..0} = {}
      OBVIOUS
    <3> QED
      BY <3>1
  <2> HIDE DEF Ready
  <2> QED
    BY <2>1, <2>2
<1>7. ASSUME NEW k \in Nat, k \in T  PROVE k + 1 \in T
  <2>0. SUFFICES ASSUME k + 1 <= n  PROVE Ready(f[1..(k + 1)], k + 1)
    <3>1. k + 1 \in Nat
      OBVIOUS
    <3> HIDE DEF Ready
    <3> QED
      BY <3>1
  <2>1. k + 1 \in 1..n /\ k <= n
    BY <1>2, <2>0
  <2>2. Ready(f[1..k], k)
    <3> HIDE DEF Ready
    <3> QED
      BY <1>7, <2>1
  <2>3. f[1..(k + 1)] = Put(f[1..k], batch[k + 1])
    <3>1. /\ 1..(k + 1) \in SUBSET (1..n) /\ 1..(k + 1) # {} /\ Max(1..(k + 1)) = k + 1
          /\ (1..(k + 1)) \ {k + 1} = 1..((k + 1) - 1)
      BY <1>2, <2>1, IteratedPrefix
    <3>2. (k + 1) - 1 = k
      OBVIOUS
    <3> HIDE DEF Put
    <3> QED
      BY <1>5, <3>1, <3>2
  <2> DEFINE a == f[1..k]
             b == f[1..(k + 1)]
             x == batch[k + 1]
  <2>4. b \in A /\ Distinct(b) /\ ToSet(b) = ToSet(a) \cup {x}
    <3>1. a \in Seq(Statements) /\ Distinct(a) /\ x \in Statements
      BY <1>2, <2>1, <2>2
    <3>2. b = Inserted(a, x)
      BY <2>3 DEF Inserted
    <3> HIDE DEF a, b, x
    <3>3. b \in Seq(Statements) /\ Distinct(b) /\ ToSet(b) = ToSet(a) \cup {x}
      BY <3>1, <3>2, AppendNew
    <3> QED
      BY <3>3
  <2>5. {batch[i] : i \in 1..(k + 1)} = {batch[i] : i \in 1..k} \cup {x}
    <3>1. 1..(k + 1) = (1..k) \cup {k + 1}
      OBVIOUS
    <3> QED
      BY <3>1
  <2> HIDE DEF f
  <2> QED
    BY <2>2, <2>4, <2>5
<1>8. Ready(end, n)
  <2>1. Nat \subseteq T
    <3> HIDE DEF T
    <3> QED
      BY <1>6, <1>7, SetInduction
  <2>2. end = f[1..n]
    BY <1>2
  <2>3. n <= n
    BY <1>2
  <2> HIDE DEF Ready, end
  <2> QED
    BY <1>2, <2>1, <2>2, <2>3
<1> DEFINE after == Extend(catalog, batch)
<1>9. after = end
  BY <1>1
<1>10. ToSet(batch) = {batch[i] : i \in 1..n}
  BY <1>2 DEF ToSet
<1> HIDE DEF end, after
<1>11. after \in Seq(Statements) /\ Distinct(after) /\ ToSet(after) = ToSet(catalog) \cup ToSet(batch)
  BY <1>8, <1>9, <1>10
<1> QED
  BY <1>11 DEF after

\* An answer of statements is a sequence of them.
LEMMA AnswersAre ==
    ASSUME NEW S, NEW batch \in Answers(S)
    PROVE  batch \in Seq(S)
<1>1. PICK n \in 0..MaxAnswer : batch \in [1..n -> S]
  BY DEF Answers
<1>2. n \in Nat
  BY IndexAssumption
<1> QED
  BY <1>1, <1>2

\* The parts of a suite.
RequirementRow == [id : Nat, text : Nat, cites : Nat \cup {Ungrounded}, deps : IdSets]
ScenarioRow    == [id : Nat, text : Nat, cites : Nat \cup {Ungrounded}, reqs : IdSets]
TestRow        == [id : Nat, text : Nat, cites : Nat \cup {Ungrounded}, scn : Nat, reqs : IdSets]

\* One id more is a finite list still, and so are some of the ids.
LEMMA IdMore ==
    /\ \A S \in IdSets : \A id \in Nat : S \cup {id} \in IdSets
    /\ \A S \in IdSets : \A T \in SUBSET S : T \in IdSets
    /\ \A id \in Nat : {} \in IdSets /\ {id} \in IdSets
BY FS_AddElement, FS_Subset, FS_EmptySet, FS_Singleton DEF IdSets

\* Linking adds a requirement to an artifact, and changes nothing else.
LEMMA LinkedScenarios ==
    ASSUME NEW list \in Seq(ScenarioRow), NEW id, NEW req \in Nat
    PROVE  /\ LinkTo(list, id, req) \in Seq(ScenarioRow) /\ DOMAIN LinkTo(list, id, req) = DOMAIN list
           /\ \A i \in DOMAIN list :
                LET old == list[i]
                    new == LinkTo(list, id, req)[i]
                IN  /\ new.id = old.id /\ new.cites = old.cites
                    /\ new.reqs = old.reqs \cup (IF old.id = id THEN {req} ELSE {})
<1>1. Len(list) \in Nat /\ DOMAIN list = 1..Len(list) /\ \A i \in 1..Len(list) : list[i] \in ScenarioRow
  OBVIOUS
<1>2. \A i \in 1..Len(list) :
        LET new == [list[i] EXCEPT !.reqs = @ \cup {req}]
        IN  new \in ScenarioRow /\ new.id = list[i].id /\ new.cites = list[i].cites
            /\ new.reqs = list[i].reqs \cup {req}
  BY <1>1, IdMore DEF ScenarioRow
<1>3. LinkTo(list, id, req) \in [1..Len(list) -> ScenarioRow]
  BY <1>1, <1>2 DEF LinkTo
<1>4. \A i \in 1..Len(list) :
        LinkTo(list, id, req)[i] = IF list[i].id = id THEN [list[i] EXCEPT !.reqs = @ \cup {req}] ELSE list[i]
  BY <1>1 DEF LinkTo
<1>5. ASSUME NEW i \in 1..Len(list)
      PROVE  LET old == list[i]
                 new == LinkTo(list, id, req)[i]
             IN  /\ new.id = old.id /\ new.cites = old.cites
                 /\ new.reqs = old.reqs \cup (IF old.id = id THEN {req} ELSE {})
  <2> DEFINE old == list[i]
             new == LinkTo(list, id, req)[i]
             other == [old EXCEPT !.reqs = @ \cup {req}]
  <2>1. new = IF old.id = id THEN other ELSE old
    BY <1>4
  <2>2. other.id = old.id /\ other.cites = old.cites /\ other.reqs = old.reqs \cup {req}
    BY <1>2
  <2> HIDE DEF old, new, other
  <2>3. /\ new.id = old.id /\ new.cites = old.cites
        /\ new.reqs = old.reqs \cup (IF old.id = id THEN {req} ELSE {})
    BY <2>1, <2>2
  <2> QED
    BY <2>3 DEF old, new
<1>6. LinkTo(list, id, req) \in Seq(ScenarioRow) /\ DOMAIN LinkTo(list, id, req) = DOMAIN list
  BY <1>1, <1>3
<1> QED
  BY <1>1, <1>5, <1>6

\* So does linking a test case.
LEMMA LinkedTests ==
    ASSUME NEW list \in Seq(TestRow), NEW id, NEW req \in Nat
    PROVE  /\ LinkTo(list, id, req) \in Seq(TestRow) /\ DOMAIN LinkTo(list, id, req) = DOMAIN list
           /\ \A i \in DOMAIN list :
                LET old == list[i]
                    new == LinkTo(list, id, req)[i]
                IN  /\ new.id = old.id /\ new.cites = old.cites /\ new.scn = old.scn
                    /\ new.reqs = old.reqs \cup (IF old.id = id THEN {req} ELSE {})
<1>1. Len(list) \in Nat /\ DOMAIN list = 1..Len(list) /\ \A i \in 1..Len(list) : list[i] \in TestRow
  OBVIOUS
<1>2. \A i \in 1..Len(list) :
        LET new == [list[i] EXCEPT !.reqs = @ \cup {req}]
        IN  new \in TestRow /\ new.id = list[i].id /\ new.cites = list[i].cites /\ new.scn = list[i].scn
            /\ new.reqs = list[i].reqs \cup {req}
  BY <1>1, IdMore DEF TestRow
<1>3. LinkTo(list, id, req) \in [1..Len(list) -> TestRow]
  BY <1>1, <1>2 DEF LinkTo
<1>4. \A i \in 1..Len(list) :
        LinkTo(list, id, req)[i] = IF list[i].id = id THEN [list[i] EXCEPT !.reqs = @ \cup {req}] ELSE list[i]
  BY <1>1 DEF LinkTo
<1>5. ASSUME NEW i \in 1..Len(list)
      PROVE  LET old == list[i]
                 new == LinkTo(list, id, req)[i]
             IN  /\ new.id = old.id /\ new.cites = old.cites /\ new.scn = old.scn
                 /\ new.reqs = old.reqs \cup (IF old.id = id THEN {req} ELSE {})
  <2> DEFINE old == list[i]
             new == LinkTo(list, id, req)[i]
             other == [old EXCEPT !.reqs = @ \cup {req}]
  <2>1. new = IF old.id = id THEN other ELSE old
    BY <1>4
  <2>2. other.id = old.id /\ other.cites = old.cites /\ other.scn = old.scn /\ other.reqs = old.reqs \cup {req}
    BY <1>2
  <2> HIDE DEF old, new, other
  <2>3. /\ new.id = old.id /\ new.cites = old.cites /\ new.scn = old.scn
        /\ new.reqs = old.reqs \cup (IF old.id = id THEN {req} ELSE {})
    BY <2>1, <2>2
  <2> QED
    BY <2>3 DEF old, new
<1>6. LinkTo(list, id, req) \in Seq(TestRow) /\ DOMAIN LinkTo(list, id, req) = DOMAIN list
  BY <1>1, <1>3
<1> QED
  BY <1>1, <1>5, <1>6

\* An assignment leaves a suite one.
LEMMA AssignedBundle ==
    ASSUME NEW suite \in Bundle, NEW a, NEW uncovered \in SUBSET Nat
    PROVE  Assign(suite, a, uncovered) \in Bundle
<1> DEFINE scns == LinkTo(suite.scns, a.scn, a.req)
           tests == LinkTo(suite.tests, a.test, a.req)
<1>1. Bundle = [reqs : Seq(RequirementRow), scns : Seq(ScenarioRow), tests : Seq(TestRow)]
  BY DEF Bundle, RequirementRow, ScenarioRow, TestRow
<1>2. CASE a.req \in uncovered
  <2>1. scns \in Seq(ScenarioRow) /\ tests \in Seq(TestRow)
    <3>1. suite.scns \in Seq(ScenarioRow) /\ suite.tests \in Seq(TestRow)
      BY <1>1
    <3> QED
      BY <1>2, <3>1, LinkedScenarios, LinkedTests
  <2>2. [suite EXCEPT !.scns = scns, !.tests = tests] \in Bundle
    <3> HIDE DEF scns, tests
    <3> QED
      BY <1>1, <2>1
  <2>3. Assign(suite, a, uncovered) \in {suite, [suite EXCEPT !.scns = scns, !.tests = tests]}
    BY DEF Assign
  <2> QED
    BY <2>2, <2>3
<1>3. CASE a.req \notin uncovered
  BY <1>3 DEF Assign
<1> QED
  BY <1>2, <1>3

\* The suite with the links of a list of assignments (_repair_coverage).
Linking(suite, list, uncovered) == FoldLeft(LAMBDA s, a : Assign(s, a, uncovered), suite, list)

\* What every assignment keeps, linking with a list of them does.
LEMMA LinkedWithin ==
    ASSUME NEW A, NEW suite \in A, NEW list, NEW n \in Nat, DOMAIN list = 1..n, NEW uncovered,
           \A s \in A : \A i \in 1..n : Assign(s, list[i], uncovered) \in A
    PROVE  Linking(suite, list, uncovered) \in A
<1> DEFINE Put(s, a) == Assign(s, a, uncovered)
           Body(g) == [s \in SUBSET (DOMAIN list) |->
                         IF s = {} THEN suite ELSE Put(g[s \ {Max(s)}], list[Max(s)])]
           f == CHOOSE g : g = Body(g)
           end == f[DOMAIN list]
<1>1. Linking(suite, list, uncovered) = end
  BY Zenon DEF Linking, FoldLeft, MapThenFoldSet
<1>3. ASSUME NEW s \in A, NEW i \in 1..n  PROVE Put(s, list[i]) \in A
  BY DEF Put
<1> DEFINE h == [p \in A \X (1..n) |-> Put(p[1], list[p[2]])]
<1>2. h \in [A \X (1..n) -> A] /\ \A s \in A, i \in 1..n : h[<<s, i>>] = Put(s, list[i])
  <2> HIDE DEF Put
  <2> QED
    BY <1>3
<1> HIDE DEF h, Put
<1>4. PICK g \in [SUBSET (1..n) -> A] : Folds(g, h, suite, n)
  BY <1>2, Iterated
<1>5. g = Body(g)
  <2>1. ASSUME NEW s \in SUBSET (1..n)
        PROVE  g[s] = IF s = {} THEN suite ELSE Put(g[s \ {Max(s)}], list[Max(s)])
    <3>1. g[s] = IF s = {} THEN suite ELSE h[<<g[s \ {Max(s)}], Max(s)>>]
      BY <1>4 DEF Folds
    <3>2. s # {} => Max(s) \in 1..n /\ g[s \ {Max(s)}] \in A
      BY MaxPlace
    <3> QED
      BY <1>2, <3>1, <3>2
  <2> QED
    BY <2>1
<1>6. f = Body(f)
  <2> HIDE DEF Body
  <2> QED
    BY <1>5
<1> HIDE DEF f
<1>7. \A s \in SUBSET (1..n) : f[s] = IF s = {} THEN suite ELSE Put(f[s \ {Max(s)}], list[Max(s)])
  BY <1>6
<1> DEFINE T == {k \in Nat : k <= n => f[1..k] \in A}
<1>8. 0 \in T
  <2>1. 1..0 = {} /\ {} \in SUBSET (1..n)
    OBVIOUS
  <2> QED
    BY <1>7, <2>1
<1>9. ASSUME NEW k \in Nat, k \in T  PROVE k + 1 \in T
  <2>1. SUFFICES ASSUME k + 1 <= n  PROVE f[1..(k + 1)] \in A
    OBVIOUS
  <2>2. k + 1 \in 1..n /\ f[1..k] \in A /\ (k + 1) - 1 = k
    BY <1>9, <2>1
  <2>3. /\ 1..(k + 1) \in SUBSET (1..n) /\ 1..(k + 1) # {} /\ Max(1..(k + 1)) = k + 1
        /\ (1..(k + 1)) \ {k + 1} = 1..((k + 1) - 1)
    BY <2>2, IteratedPrefix
  <2>4. f[1..(k + 1)] = Put(f[1..k], list[k + 1])
    BY <1>7, <2>2, <2>3
  <2> QED
    BY <1>3, <2>2, <2>4
<1>10. end \in A
  <2>1. Nat \subseteq T
    <3> HIDE DEF T
    <3> QED
      BY <1>8, <1>9, SetInduction
  <2>2. end = f[1..n]
    OBVIOUS
  <2> QED
    BY <2>1, <2>2
<1> QED
  BY <1>1, <1>10

\* Linking whatever the repair answers leaves a suite.
LEMMA LinkedBundle ==
    ASSUME NEW suite \in Bundle, NEW list, NEW n \in Nat, DOMAIN list = 1..n, NEW uncovered \in SUBSET Nat
    PROVE  Linking(suite, list, uncovered) \in Bundle
<1>1. \A s \in Bundle : \A i \in 1..n : Assign(s, list[i], uncovered) \in Bundle
  BY AssignedBundle
<1> QED
  BY <1>1, LinkedWithin

\* The units a task asks about are the next ones of the catalog.
LEMMA UnitGroup ==
    ASSUME NEW catalog, Len(catalog) \in Nat, NEW after \in 0..Len(catalog), NEW g \in UnitGroups(catalog, after)
    PROVE  \E last \in (after + 1)..Len(catalog) : g = (after + 1)..last
<1> DEFINE k == Len(catalog) - after
           items == [i \in 1..k |-> after + i]
<1>1. k \in Nat /\ Len(items) = k /\ after \in Nat
  OBVIOUS
<1>2. PICK part \in FirstGroups(items, UnitBatch) : g = ToSet(part)
  BY DEF UnitGroups
<1>3. PICK n \in 1..k : part = SubSeq(items, 1, n)
  <2> HIDE DEF items, k
  <2>1. PICK n \in 1..(IF k < UnitBatch THEN k ELSE UnitBatch) : part = SubSeq(items, 1, n)
    BY <1>1, <1>2 DEF FirstGroups
  <2>2. n \in 1..k
    BY <1>1, JudgingAssumption
  <2> QED
    BY <2>1, <2>2
<1>4. n \in Int /\ \A i \in 1..n : items[i] \in Int
  BY <1>1
<1>5. part \in Seq(Int) /\ Len(part) = n /\ \A i \in 1..n : part[i] = items[i]
  <2> HIDE DEF items, k
  <2>1. /\ SubSeq(items, 1, n) \in Seq(Int) /\ Len(SubSeq(items, 1, n)) = IF 1 <= n THEN n - 1 + 1 ELSE 0
        /\ \A i \in 1..(n - 1 + 1) : SubSeq(items, 1, n)[i] = items[1 + i - 1]
    BY <1>4, SubSeqProperties
  <2>2. 1 <= n /\ n - 1 + 1 = n /\ \A i \in 1..n : 1 + i - 1 = i
    BY <1>1, <1>4
  <2> QED
    BY <1>3, <2>1, <2>2
<1>6. g = {after + i : i \in 1..n}
  <2>1. \A i \in 1..n : part[i] = after + i
    <3>1. \A i \in 1..n : i \in 1..k
      BY <1>1
    <3>2. \A i \in 1..k : items[i] = after + i
      OBVIOUS
    <3> HIDE DEF items, k
    <3> QED
      BY <1>5, <3>1, <3>2
  <2>2. DOMAIN part = 1..n
    BY <1>5
  <2> HIDE DEF items, k
  <2> QED
    BY <1>2, <2>1, <2>2 DEF ToSet
<1>7. \A u \in (after + 1)..(after + n) : u - after \in 1..n /\ u = after + (u - after)
  BY <1>1, <1>4
<1>8. g = (after + 1)..(after + n)
  <2> HIDE DEF items, k
  <2>1. g \subseteq (after + 1)..(after + n)
    BY <1>1, <1>4, <1>6
  <2>2. (after + 1)..(after + n) \subseteq g
    BY <1>6, <1>7
  <2> QED
    BY <2>1, <2>2
<1>9. after + n \in (after + 1)..Len(catalog)
  BY <1>1
<1> QED
  BY <1>8, <1>9

\* The judge begins with no answer (_bounded_evaluation).
LEMMA EvaluationStarts ==
    ASSUME JudgeInv, step = "judge", StartEvaluation(units'),
           units' \in Seq(Statements), Distinct(units'), ToSet(units') = stated'
    PROVE  JudgeInv'
<1>1. /\ bundle \in Bundle /\ bundle' = bundle /\ verdicts' = {} /\ score' = score /\ score = None
      /\ step' = "evaluate" /\ tried' = 0 /\ current' \in UnitGroups(units', 0)
      /\ mappings' = [id \in Ids(bundle.tests) |-> {}]
  BY DEF JudgeInv, Suites, Concluded, StartEvaluation
<1>2. Len(units') \in Nat /\ Len(bundle.tests) \in Nat /\ 0 \in 0..Len(units') /\ 0 + 1 = 1 /\ DOMAIN units' = 1..Len(units')
  <2>1. bundle.tests \in Seq(TestRow)
    BY <1>1 DEF Bundle, TestRow
  <2> QED
    BY <2>1
<1>3. PICK last \in (0 + 1)..Len(units') : current' = (0 + 1)..last
  BY <1>1, <1>2, UnitGroup
<1>4. ~\E id : Tried(id)'
  BY <1>1 DEF Tried
<1>5. Answered(0)'
  BY <1>1, <1>2, <1>4 DEF Answered
<1>6. Evaluated'
  BY <1>1, <1>2, <1>3, <1>5 DEF Evaluated
<1> QED
  BY <1>1, <1>6 DEF JudgeInv, Suites, Concluded

\* A stored catalog was found to state what is in it, and nothing twice.
LEMMA CatalogLoaded == ASSUME JudgeInv, LoadUnits \/ CatalogDone  PROVE JudgeInv'
<1>1. CASE LoadUnits
  <2>1. step = "judge" /\ units' \in StoredCatalogs /\ stated' = ToSet(units') /\ StartEvaluation(units')
    BY <1>1 DEF LoadUnits
  <2>2. units' \in Seq(Statements) /\ Distinct(units')
    BY <2>1, JudgingAssumption DEF Distinct
  <2> QED
    BY <2>1, <2>2, EvaluationStarts
<1>2. CASE CatalogDone
  <2>1. step = "judge" /\ units' = units /\ stated' = stated /\ StartEvaluation(units')
    BY <1>2 DEF CatalogDone
  <2>2. units' \in Seq(Statements) /\ Distinct(units') /\ ToSet(units') = stated'
    BY <2>1 DEF JudgeInv, Suites
  <2> QED
    BY <2>1, <2>2, EvaluationStarts
<1> QED
  BY <1>1, <1>2

\* Every batch extends the catalog by what is not in it.
LEMMA CatalogExtended == ASSUME JudgeInv, ExtractUnits  PROVE JudgeInv'
<1>1. PICK batch \in Answers(Statements) : units' = Extend(units, batch) /\ stated' = stated \cup ToSet(batch)
  BY DEF ExtractUnits
<1>2. /\ step = "judge" /\ step' \in {"judge", "conflict"} /\ bundle' = bundle /\ verdicts' = verdicts
      /\ score' = score /\ score = None
  BY DEF JudgeInv, Suites, Concluded, ExtractUnits, Claim
<1>3. units' \in Seq(Statements) /\ Distinct(units') /\ ToSet(units') = stated'
  <2>1. batch \in Seq(Statements)
    BY AnswersAre
  <2>2. units \in Seq(Statements) /\ Distinct(units) /\ ToSet(units) = stated
    BY DEF JudgeInv, Suites
  <2> QED
    BY <1>1, <2>1, <2>2, ExtendAdds
<1> QED
  BY <1>2, <1>3 DEF JudgeInv, Suites, Concluded

\* The next items of a list that a task takes.
LEMMA NextItems ==
    ASSUME NEW items, Len(items) \in Nat, NEW from \in 0..Len(items), NEW most \in Nat \ {0},
           NEW some \in FirstGroups(SubSeq(items, from + 1, Len(items)), most), from < Len(items)
    PROVE  \E m \in Nat \ {0} : /\ from + m <= Len(items) /\ DOMAIN some = 1..m /\ Len(some) = m
                                /\ \A i \in 1..m : some[i] = items[from + i]
<1> DEFINE N == Len(items)
           S == {items[i] : i \in (from + 1)..N}
           rest == SubSeq(items, from + 1, N)
           k == N - from
<1>1. N \in Nat /\ from \in Nat /\ k \in Nat \ {0} /\ N - (from + 1) + 1 = k /\ from + 1 <= N
      /\ from + 1 \in Int /\ N \in Int /\ \A i \in 1..k : (from + 1) + i - 1 = from + i
  OBVIOUS
<1>2. rest \in Seq(S) /\ Len(rest) = k /\ \A i \in 1..k : rest[i] = items[from + i]
  <2>1. \A i \in (from + 1)..N : items[i] \in S
    OBVIOUS
  <2> HIDE DEF S, N, k
  <2>2. /\ SubSeq(items, from + 1, N) \in Seq(S)
        /\ Len(SubSeq(items, from + 1, N)) = IF from + 1 <= N THEN N - (from + 1) + 1 ELSE 0
        /\ \A i \in 1..(N - (from + 1) + 1) : SubSeq(items, from + 1, N)[i] = items[(from + 1) + i - 1]
    BY <1>1, <2>1, SubSeqProperties
  <2> QED
    BY <1>1, <2>2
<1> HIDE DEF rest, S
<1>3. PICK m \in 1..k : some = SubSeq(rest, 1, m)
  <2>1. some \in FirstGroups(rest, most)
    BY DEF rest
  <2> HIDE DEF k
  <2>2. PICK m \in 1..(IF k < most THEN k ELSE most) : some = SubSeq(rest, 1, m)
    BY <1>2, <2>1 DEF FirstGroups
  <2>3. m \in 1..k
    BY <1>1
  <2> QED
    BY <2>2, <2>3
<1>4. m \in Nat \ {0} /\ m \in Int /\ m <= k /\ from + m <= N /\ (\A i \in 1..m : i \in 1..k) /\ m - 1 + 1 = m /\ 1 <= m
      /\ \A i \in 1..m : 1 + i - 1 = i
  <2>0. N \in Nat /\ from \in Nat /\ k \in Nat /\ k = N - from /\ m \in 1..k
    BY <1>1, <1>3
  <2> HIDE DEF N, k
  <2>1. m \in Nat \ {0} /\ m \in Int /\ m <= k /\ m - 1 + 1 = m /\ 1 <= m
    BY <2>0
  <2>2. from + m <= N
    BY <2>0
  <2>3. (\A i \in 1..m : i \in 1..k) /\ \A i \in 1..m : 1 + i - 1 = i
    BY <2>0
  <2> QED
    BY <2>1, <2>2, <2>3
<1>5. some \in Seq(S) /\ Len(some) = m /\ \A i \in 1..m : some[i] = rest[i]
  <2> HIDE DEF k
  <2>1. \A i \in 1..m : rest[i] \in S
    BY <1>2, <1>4
  <2>2. /\ SubSeq(rest, 1, m) \in Seq(S) /\ Len(SubSeq(rest, 1, m)) = IF 1 <= m THEN m - 1 + 1 ELSE 0
        /\ \A i \in 1..(m - 1 + 1) : SubSeq(rest, 1, m)[i] = rest[1 + i - 1]
    BY <1>4, <2>1, SubSeqProperties
  <2> QED
    BY <1>3, <1>4, <2>2
<1>6. \A i \in 1..m : some[i] = items[from + i]
  <2> HIDE DEF k
  <2> QED
    BY <1>2, <1>4, <1>5
<1>7. DOMAIN some = 1..m
  BY <1>5
<1> QED
  BY <1>4, <1>5, <1>6, <1>7

\* The same, said of their number.
LEMMA NextMany ==
    ASSUME NEW items, Len(items) \in Nat, NEW from \in 0..Len(items), NEW most \in Nat \ {0},
           NEW some \in FirstGroups(SubSeq(items, from + 1, Len(items)), most), from < Len(items)
    PROVE  /\ Len(some) \in Nat \ {0} /\ from + Len(some) <= Len(items) /\ DOMAIN some = 1..Len(some)
           /\ \A i \in 1..Len(some) : some[i] = items[from + i]
  BY NextItems

\* A task's answers are added to those before: of its test cases, about the
\* current units.
LEMMA CasesTried == ASSUME JudgeInv, EvaluationTask  PROVE JudgeInv'
<1>1. PICK some \in FirstGroups(SubSeq(bundle.tests, tried + 1, Len(bundle.tests)), CaseBatch) :
        \E answer \in [Ids(some) -> SUBSET current] :
          /\ mappings' = Mapped(answer)
          /\ verdicts' = verdicts \cup {<<id, units[u], u \in answer[id]>> : id \in Ids(some), u \in current}
          /\ tried' = tried + Len(some)
  BY DEF EvaluationTask
<1>2. PICK answer \in [Ids(some) -> SUBSET current] :
        /\ mappings' = Mapped(answer)
        /\ verdicts' = verdicts \cup {<<id, units[u], u \in answer[id]>> : id \in Ids(some), u \in current}
        /\ tried' = tried + Len(some)
  BY <1>1
<1>3. /\ step = "evaluate" /\ tried < Len(bundle.tests) /\ step' \in {"evaluate", "conflict"}
      /\ UNCHANGED <<bundle, units, stated, current, score>>
      /\ units \in Seq(Statements) /\ Distinct(units) /\ ToSet(units) = stated
      /\ bundle \in Bundle /\ Evaluated /\ score = None
  BY DEF EvaluationTask, Claim, JudgeInv, Suites, Concluded
<1>4. PICK done \in 0..Len(units) : \E last \in (done + 1)..Len(units) : current = (done + 1)..last /\ Answered(done)
  BY <1>3 DEF Evaluated
<1>5. PICK last \in (done + 1)..Len(units) : current = (done + 1)..last /\ Answered(done)
  BY <1>4
<1> DEFINE tests == bundle.tests
           n == Len(units)
<1>6. /\ Len(tests) \in Nat /\ DOMAIN tests = 1..Len(tests) /\ n \in Nat /\ DOMAIN units = 1..n
      /\ mappings \in [Ids(tests) -> SUBSET (1..n)] /\ tried \in 0..Len(tests) /\ current \subseteq 1..n
  <2>1. bundle.tests \in Seq(TestRow)
    BY <1>3 DEF Bundle, TestRow
  <2>2. DOMAIN units = 1..n /\ n \in Nat
    BY <1>3
  <2>3. Len(tests) \in Nat /\ DOMAIN tests = 1..Len(tests)
    BY <2>1
  <2>4. current \subseteq 1..n
    BY <1>5, <2>2
  <2> QED
    BY <1>3, <2>2, <2>3, <2>4 DEF Evaluated
<1> HIDE DEF n, tests
<1>7. PICK m \in Nat \ {0} : /\ tried + m <= Len(tests) /\ DOMAIN some = 1..m /\ Len(some) = m
                             /\ \A i \in 1..m : some[i] = tests[tried + i]
  <2>1. Len(tests) \in Nat /\ tried \in 0..Len(tests) /\ tried < Len(tests)
        /\ some \in FirstGroups(SubSeq(tests, tried + 1, Len(tests)), CaseBatch)
    BY <1>1, <1>3, <1>6 DEF tests
  <2> QED
    BY <2>1, NextItems, JudgingAssumption
<1>8. tried' = tried + m /\ tried' \in 0..Len(tests)
  BY <1>2, <1>6, <1>7
<1>9. \A id : Tried(id)' <=> (Tried(id) \/ id \in Ids(some))
  <2>1. \A id : Tried(id)' <=> \E i \in 1..(tried + m) : tests[i].id = id
    BY <1>3, <1>8 DEF Tried, tests
  <2>2. \A id : Tried(id) <=> \E i \in 1..tried : tests[i].id = id
    BY DEF Tried, tests
  <2>3. \A id : id \in Ids(some) <=> \E i \in 1..m : tests[tried + i].id = id
    BY <1>7 DEF Ids, ToSet
  <2>4. ASSUME NEW id, NEW i \in 1..(tried + m), tests[i].id = id  PROVE Tried(id) \/ id \in Ids(some)
    <3>1. CASE i \in 1..tried
      BY <2>2, <2>4, <3>1
    <3>2. CASE i \notin 1..tried
      <4>1. i - tried \in 1..m /\ tried + (i - tried) = i
        BY <1>6, <1>7, <3>2
      <4> QED
        BY <2>3, <2>4, <4>1
    <3> QED
      BY <3>1, <3>2
  <2>5. (1..tried) \subseteq 1..(tried + m) /\ \A i \in 1..m : tried + i \in 1..(tried + m)
    BY <1>6, <1>7
  <2> QED
    BY <2>1, <2>2, <2>3, <2>4, <2>5
<1>10. Ids(some) \subseteq Ids(tests)
  <2>1. \A i \in 1..m : tried + i \in 1..Len(tests)
    BY <1>6, <1>7
  <2> QED
    BY <1>6, <1>7, <2>1 DEF Ids, ToSet
<1>11. ASSUME NEW id \in Ids(tests)
       PROVE  mappings'[id] = IF id \in Ids(some) THEN mappings[id] \cup answer[id] ELSE mappings[id]
  BY <1>2, <1>6 DEF Mapped
<1>12. mappings' \in [Ids(tests) -> SUBSET (1..n)]
  <2>1. mappings' = [id \in Ids(tests) |-> IF id \in Ids(some) THEN mappings[id] \cup answer[id] ELSE mappings[id]]
    BY <1>2, <1>6 DEF Mapped
  <2> QED
    BY <1>6, <2>1
<1>13. ASSUME NEW id \in Ids(tests), NEW u \in 1..n, NEW b \in BOOLEAN
       PROVE  <<id, units[u], b>> \in verdicts' <=>
                (<<id, units[u], b>> \in verdicts \/ (id \in Ids(some) /\ u \in current /\ b = (u \in answer[id])))
  <2>1. ASSUME NEW other \in Ids(some), NEW w \in current, <<id, units[u], b>> = <<other, units[w], w \in answer[other]>>
        PROVE  id = other /\ u = w /\ b = (w \in answer[other])
    BY <1>3, <1>6, <2>1 DEF Distinct
  <2> QED
    BY <1>2, <2>1
<1>14. \A v \in verdicts' : \E id \in Ids(tests), u \in 1..n, b \in BOOLEAN : v = <<id, units[u], b>>
  <2>1. \A v \in verdicts : \E id \in Ids(tests), u \in 1..n, b \in BOOLEAN : v = <<id, units[u], b>>
    BY <1>5, <1>6 DEF Answered, tests
  <2>2. ASSUME NEW id \in Ids(some), NEW u \in current
        PROVE  \E x \in Ids(tests), w \in 1..n, b \in BOOLEAN : <<id, units[u], u \in answer[id]>> = <<x, units[w], b>>
    <3>1. id \in Ids(tests) /\ u \in 1..n /\ (u \in answer[id]) \in BOOLEAN
      BY <1>6, <1>10
    <3> QED
      BY <3>1
  <2> QED
    BY <1>2, <2>1, <2>2
<1>15. ASSUME NEW id \in Ids(tests), NEW u \in 1..n
       PROVE  /\ (\E b \in BOOLEAN : <<id, units[u], b>> \in verdicts') <=> (u <= done \/ (u \in current /\ Tried(id)'))
              /\ u \in mappings'[id] <=> <<id, units[u], TRUE>> \in verdicts'
  <2>1. /\ (\E b \in BOOLEAN : <<id, units[u], b>> \in verdicts) <=> (u <= done \/ (u \in current /\ Tried(id)))
        /\ u \in mappings[id] <=> <<id, units[u], TRUE>> \in verdicts
    BY <1>5, <1>6 DEF Answered, tests
  <2>2. (\E b \in BOOLEAN : <<id, units[u], b>> \in verdicts') <=>
          ((\E b \in BOOLEAN : <<id, units[u], b>> \in verdicts) \/ (id \in Ids(some) /\ u \in current))
    <3>1. (u \in answer[id]) \in BOOLEAN
      OBVIOUS
    <3> QED
      BY <1>13, <3>1
  <2>3. <<id, units[u], TRUE>> \in verdicts' <=>
          (<<id, units[u], TRUE>> \in verdicts \/ (id \in Ids(some) /\ u \in current /\ u \in answer[id]))
    BY <1>13
  <2>4. id \in Ids(some) => answer[id] \subseteq current
    OBVIOUS
  <2>5. u \in mappings'[id] <=> (u \in mappings[id] \/ (id \in Ids(some) /\ u \in answer[id]))
    BY <1>11
  <2> QED
    BY <1>9, <2>1, <2>2, <2>3, <2>4, <2>5
<1>16. Answered(done)'
  <2>1. Ids(bundle'.tests) = Ids(tests) /\ DOMAIN units' = 1..n /\ units' = units /\ current' = current
    BY <1>3, <1>6 DEF tests
  <2>2. \A v \in verdicts' : \E id \in Ids(bundle'.tests), u \in DOMAIN units', b \in BOOLEAN : v = <<id, units'[u], b>>
    BY <1>14, <2>1
  <2>3. ASSUME NEW id \in Ids(bundle'.tests), NEW u \in DOMAIN units'
        PROVE  /\ (\E b \in BOOLEAN : <<id, units'[u], b>> \in verdicts') <=> (u <= done \/ (u \in current' /\ Tried(id)'))
               /\ u \in mappings'[id] <=> <<id, units'[u], TRUE>> \in verdicts'
    BY <1>15, <2>1
  <2> QED
    BY <2>2, <2>3 DEF Answered
<1>17. Evaluated'
  BY <1>3, <1>5, <1>6, <1>8, <1>12, <1>16 DEF Evaluated, tests, n
<1> QED
  BY <1>3, <1>17 DEF JudgeInv, Suites, Concluded

\* When every test case was tried with some units, the next follow them.
LEMMA UnitsNext == ASSUME JudgeInv, NextUnits  PROVE JudgeInv'
<1>1. /\ step = "evaluate" /\ tried = Len(bundle.tests) /\ ~LastUnits /\ tried' = 0
      /\ UNCHANGED <<step, bundle, units, stated, mappings, verdicts, score>>
      /\ units \in Seq(Statements) /\ bundle \in Bundle /\ Evaluated
  BY DEF NextUnits, run, JudgeInv, Suites, Concluded
<1>2. PICK done \in 0..Len(units) : \E last \in (done + 1)..Len(units) : current = (done + 1)..last /\ Answered(done)
  BY <1>1 DEF Evaluated
<1>3. PICK last \in (done + 1)..Len(units) : current = (done + 1)..last /\ Answered(done)
  BY <1>2
<1>4. Len(units) \in Nat /\ DOMAIN units = 1..Len(units) /\ done \in Nat /\ last \in Nat /\ last \in 0..Len(units)
  BY <1>1
<1>5. current' \in UnitGroups(units, last)
  <2>1. PICK u \in current : (\A v \in current : v <= u) /\ current' \in UnitGroups(units, u)
    BY DEF NextUnits
  <2>2. u = last
    BY <1>3, <1>4, <2>1
  <2> QED
    BY <2>1, <2>2
<1>6. PICK end \in (last + 1)..Len(units) : current' = (last + 1)..end
  BY <1>4, <1>5, UnitGroup
<1>7. \A id \in Ids(bundle.tests) : Tried(id)
  <2>1. bundle.tests \in Seq(TestRow)
    BY <1>1 DEF Bundle, TestRow
  <2> QED
    BY <1>1, <2>1 DEF Ids, ToSet, Tried
<1>8. ~\E id : Tried(id)'
  BY <1>1 DEF Tried
<1>9. \A u \in 1..Len(units) : u <= last <=> (u <= done \/ u \in current)
  BY <1>3, <1>4
<1>10. Answered(last)'
  <2>1. bundle' = bundle /\ units' = units /\ verdicts' = verdicts /\ mappings' = mappings
    BY <1>1
  <2>2. \A v \in verdicts' : \E id \in Ids(bundle'.tests), u \in DOMAIN units', b \in BOOLEAN : v = <<id, units'[u], b>>
    BY <1>3, <2>1 DEF Answered
  <2>3. ASSUME NEW id \in Ids(bundle'.tests), NEW u \in DOMAIN units'
        PROVE  /\ (\E b \in BOOLEAN : <<id, units'[u], b>> \in verdicts') <=> (u <= last \/ (u \in current' /\ Tried(id)'))
               /\ u \in mappings'[id] <=> <<id, units'[u], TRUE>> \in verdicts'
    <3>1. /\ (\E b \in BOOLEAN : <<id, units[u], b>> \in verdicts) <=> (u <= done \/ (u \in current /\ Tried(id)))
          /\ u \in mappings[id] <=> <<id, units[u], TRUE>> \in verdicts
      BY <1>3, <2>1 DEF Answered
    <3>2. Tried(id) /\ ~Tried(id)'
      BY <1>7, <1>8, <2>1
    <3>3. u <= last <=> (u <= done \/ u \in current)
      BY <1>4, <1>9, <2>1
    <3> QED
      BY <2>1, <3>1, <3>2, <3>3
  <2> QED
    BY <2>2, <2>3 DEF Answered
<1>11. Evaluated'
  <2>1. 0 \in 0..Len(bundle.tests)
    BY <1>1 DEF Evaluated
  <2> QED
    BY <1>1, <1>4, <1>6, <1>10, <2>1 DEF Evaluated
<1> QED
  BY <1>1, <1>11 DEF JudgeInv, Suites, Concluded

\* The harmonic mean of two shares is at most 1, and 1 only if both are.
LEMMA HarmonicMean ==
    ASSUME NEW n \in Nat, NEW tp \in 0..n, NEW size \in Nat, NEW hit \in 0..size
    PROVE  /\ 2 * tp * hit <= tp * size + hit * n
           /\ tp # 0 /\ hit # 0 => (2 * tp * hit = tp * size + hit * n <=> (n = tp /\ size = hit))
<1> DEFINE a == n - tp
           b == size - hit
<1>1. a \in Nat /\ b \in Nat /\ tp \in Nat /\ hit \in Nat /\ n = tp + a /\ size = hit + b
  OBVIOUS
<1> HIDE DEF a, b
<1>2. tp * size = tp * hit + tp * b /\ hit * n = tp * hit + hit * a
  BY <1>1
<1>3. tp * b \in Nat /\ hit * a \in Nat /\ tp * hit \in Nat /\ 2 * tp * hit = tp * hit + tp * hit
  BY <1>1
<1>4. ASSUME tp # 0, hit # 0  PROVE (tp * b = 0 <=> b = 0) /\ (hit * a = 0 <=> a = 0)
  BY <1>1, <1>4
<1>5. (n = tp <=> a = 0) /\ (size = hit <=> b = 0)
  BY <1>1
<1>6. 2 * tp * hit <= tp * size + hit * n
  <2> DEFINE x == tp * b
             y == hit * a
             z == tp * hit
             X == tp * size
             Y == hit * n
             D == 2 * tp * hit
  <2>1. x \in Nat /\ y \in Nat /\ z \in Nat /\ X = z + x /\ Y = z + y /\ D = z + z
    BY <1>2, <1>3
  <2> HIDE DEF x, y, z, X, Y, D
  <2>2. D <= X + Y
    BY <2>1
  <2> QED
    BY <2>2 DEF X, Y, D
<1>7. ASSUME tp # 0, hit # 0  PROVE 2 * tp * hit = tp * size + hit * n <=> (n = tp /\ size = hit)
  <2> DEFINE x == tp * b
             y == hit * a
             z == tp * hit
             X == tp * size
             Y == hit * n
             D == 2 * tp * hit
  <2>1. x \in Nat /\ y \in Nat /\ z \in Nat /\ X = z + x /\ Y = z + y /\ D = z + z
    BY <1>2, <1>3
  <2>2. (x = 0 <=> b = 0) /\ (y = 0 <=> a = 0)
    BY <1>4, <1>7
  <2> HIDE DEF x, y, z, X, Y, D
  <2>3. D = X + Y <=> (x = 0 /\ y = 0)
    BY <2>1
  <2>4. D = X + Y <=> (n = tp /\ size = hit)
    BY <1>5, <2>2, <2>3
  <2> QED
    BY <2>4 DEF X, Y, D
<1> QED
  BY <1>6, <1>7

\* A score counts what is covered, and is perfect only if everything is.
LEMMA ScoreCounts ==
    ASSUME NEW ids, IsFiniteSet(ids), NEW k \in Nat \ {0}, NEW covered \in [ids -> SUBSET (1..k)]
    PROVE  LET it == ScoreOf(1..k, covered)
               whole == (1..k) \ UNION {covered[id] : id \in ids}
           IN  /\ it.uncovered = whole
               /\ it.unmapped = {id \in ids : covered[id] = {}}
               /\ it.f1[1] <= it.f1[2]
               /\ it.f1[1] = it.f1[2] <=> (it.falsePositives = 0 /\ it.falseNegatives = 0 /\ ids # {})
<1> DEFINE mapped == {id \in ids : covered[id] # {}}
           all == 1..k
           missed == all \ UNION {covered[id] : id \in ids}
           reached == all \ missed
           tp == Cardinality(mapped)
           n == Cardinality(ids)
           size == Cardinality(all)
           hit == Cardinality(reached)
           lost == Cardinality(missed)
           it == ScoreOf(all, covered)
<1>1. IsFiniteSet(all) /\ size = k
  BY FS_Interval
<1>2. n \in Nat /\ tp \in 0..n /\ (n = tp <=> mapped = ids) /\ (n = 0 <=> ids = {}) /\ (tp = 0 <=> mapped = {})
  <2>1. mapped \in SUBSET ids
    OBVIOUS
  <2>2. IsFiniteSet(mapped) /\ tp <= n /\ (n = tp => ids = mapped)
    BY <2>1, FS_Subset
  <2>3. n \in Nat /\ tp \in Nat
    BY <2>2, FS_CardinalityType
  <2>4. (n = 0 <=> ids = {}) /\ (tp = 0 <=> mapped = {})
    BY <2>2, FS_EmptySet
  <2> QED
    BY <2>2, <2>3, <2>4
<1>3. size \in Nat \ {0} /\ hit \in 0..size /\ lost \in Nat /\ (lost = 0 <=> size = hit) /\ (hit = 0 <=> reached = {})
  <2>1. missed \in SUBSET all /\ reached \in SUBSET all
    OBVIOUS
  <2>2. IsFiniteSet(missed) /\ IsFiniteSet(reached) /\ hit <= size /\ (size = hit => all = reached)
    BY <1>1, <2>1, FS_Subset
  <2>3. lost \in Nat /\ hit \in Nat
    BY <2>2, FS_CardinalityType
  <2>4. (lost = 0 <=> missed = {}) /\ (hit = 0 <=> reached = {})
    BY <2>2, FS_EmptySet
  <2>5. missed = {} <=> all = reached
    OBVIOUS
  <2>6. all = reached => size = hit
    OBVIOUS
  <2>7. size = k
    BY <1>1
  <2> HIDE DEF all, missed, reached, size, hit, lost
  <2> QED
    BY <2>2, <2>3, <2>4, <2>5, <2>6, <2>7
<1>4. mapped = {} <=> reached = {}
  <2>1. reached = UNION {covered[id] : id \in ids}
    OBVIOUS
  <2> QED
    BY <2>1
<1>5. /\ it.uncovered = missed
      /\ it.unmapped = {id \in ids : covered[id] = {}}
      /\ it.falsePositives = n - tp /\ it.falseNegatives = lost
      /\ it.f1 = IF tp = 0 /\ hit = 0 THEN <<0, 1>>
                 ELSE LET precision == IF n > 0 THEN <<tp, n>> ELSE <<0, 1>>
                          recall == IF all # {} THEN <<hit, size>> ELSE <<0, 1>>
                      IN  <<2 * precision[1] * recall[1], precision[1] * recall[2] + recall[1] * precision[2]>>
  <2>1. DOMAIN covered = ids
    OBVIOUS
  <2> QED
    BY <2>1 DEF ScoreOf
<1>6. all # {}
  OBVIOUS
<1> HIDE DEF mapped, all, missed, reached, tp, n, size, hit, lost, it
<1>7. CASE tp = 0 \/ hit = 0
  <2>1. tp = 0 /\ hit = 0
    BY <1>2, <1>3, <1>4, <1>7
  <2>2. it.f1[1] = 0 /\ it.f1[2] = 1
    BY <1>5, <2>1
  <2>3. ~(it.falsePositives = 0 /\ ids # {})
    BY <1>2, <1>5, <2>1
  <2> QED
    BY <1>5, <2>2, <2>3 DEF missed, all, it
<1>8. CASE tp # 0 /\ hit # 0
  <2>1. n > 0 /\ n # 0
    BY <1>2, <1>8
  <2>2. it.f1 = <<2 * tp * hit, tp * size + hit * n>>
    BY <1>5, <1>6, <1>8, <2>1
  <2>3. /\ 2 * tp * hit <= tp * size + hit * n
        /\ 2 * tp * hit = tp * size + hit * n <=> (n = tp /\ size = hit)
    BY <1>2, <1>3, <1>8, HarmonicMean
  <2>4. (it.falsePositives = 0 <=> n = tp) /\ (it.falseNegatives = 0 <=> size = hit) /\ ids # {}
    BY <1>2, <1>3, <1>5, <2>1
  <2>5. it.f1[1] = 2 * tp * hit /\ it.f1[2] = tp * size + hit * n
    BY <2>2
  <2>6. it.f1[1] <= it.f1[2] /\ (it.f1[1] = it.f1[2] <=> (n = tp /\ size = hit))
    BY <2>3, <2>5
  <2> QED
    BY <1>5, <2>4, <2>6 DEF missed, all, it
<1> QED
  BY <1>7, <1>8

\* The ids of a list are finitely many.
LEMMA FiniteIds == ASSUME NEW S, NEW list \in Seq(S)  PROVE IsFiniteSet(Ids(list))
<1> DEFINE n == Len(list)
           f == [i \in 1..n |-> list[i].id]
<1>1. n \in Nat /\ DOMAIN list = 1..n /\ 1 \in Int /\ n \in Int
  OBVIOUS
<1>2. f \in Surjection(1..n, Ids(list))
  BY <1>1 DEF Surjection, Ids, ToSet
<1>3. IsFiniteSet(1..n)
  BY <1>1, FS_Interval
<1> QED
  BY <1>2, <1>3, FS_Surjection

\* The score is made when every test case was tried with every unit.
LEMMA Scoring == ASSUME JudgeInv, Score  PROVE JudgeInv'
<1>1. /\ step = "evaluate" /\ tried = Len(bundle.tests) /\ LastUnits /\ step' = "finish"
      /\ score' = ScoreOf(DOMAIN units, mappings)
      /\ UNCHANGED <<bundle, units, stated, verdicts>>
      /\ units \in Seq(Statements) /\ Distinct(units) /\ ToSet(units) = stated /\ bundle \in Bundle /\ Evaluated
  BY DEF Score, JudgeInv, Suites
<1>2. PICK done \in 0..Len(units) : \E last \in (done + 1)..Len(units) : current = (done + 1)..last /\ Answered(done)
  BY <1>1 DEF Evaluated
<1>3. PICK last \in (done + 1)..Len(units) : current = (done + 1)..last /\ Answered(done)
  BY <1>2
<1> DEFINE ids == Ids(bundle.tests)
           k == Len(units)
           hits == {v \in verdicts : v[3]}
<1>4. k \in Nat /\ DOMAIN units = 1..k /\ k # 0 /\ \A u \in 1..k : u <= done \/ u \in current
  <2>1. k \in Nat /\ DOMAIN units = 1..k
    BY <1>1
  <2>2. k \in current
    BY <1>1 DEF LastUnits
  <2>3. current = (done + 1)..last /\ done \in Nat /\ last \in (done + 1)..k
    BY <1>3, <2>1
  <2> HIDE DEF k
  <2> QED
    BY <2>1, <2>2, <2>3
<1>5. bundle.tests \in Seq(TestRow)
  BY <1>1 DEF Bundle, TestRow
<1>6. \A id \in ids : Tried(id)
  BY <1>1, <1>5 DEF Ids, ToSet, Tried
<1>7. mappings \in [ids -> SUBSET (1..k)]
  BY <1>1, <1>4 DEF Evaluated
<1> HIDE DEF ids, k
<1>8. \A v \in verdicts : \E id \in ids, u \in 1..k, b \in BOOLEAN : v = <<id, units[u], b>>
  BY <1>3, <1>4 DEF Answered, ids
<1>9. \A id \in ids, u \in 1..k :
         /\ \E b \in BOOLEAN : <<id, units[u], b>> \in verdicts
         /\ u \in mappings[id] <=> <<id, units[u], TRUE>> \in verdicts
  BY <1>3, <1>4, <1>6 DEF Answered, ids
<1>10. {<<v[1], v[2]>> : v \in verdicts} = ids \X stated
  <2>1. stated = {units[u] : u \in 1..k}
    BY <1>1, <1>4 DEF ToSet
  <2>2. \A v \in verdicts : <<v[1], v[2]>> \in ids \X stated
    BY <1>8, <2>1
  <2>3. ASSUME NEW id \in ids, NEW u \in 1..k  PROVE <<id, units[u]>> \in {<<v[1], v[2]>> : v \in verdicts}
    <3>1. PICK b \in BOOLEAN : <<id, units[u], b>> \in verdicts
      BY <1>9
    <3> DEFINE w == <<id, units[u], b>>
    <3>2. w \in verdicts /\ w[1] = id /\ w[2] = units[u]
      BY <3>1
    <3> HIDE DEF w
    <3> QED
      BY <3>2
  <2> QED
    BY <2>1, <2>2, <2>3
<1>11. \A id \in ids, u \in 1..k : u \in mappings[id] <=> \E v \in hits : v[1] = id /\ v[2] = units[u]
  <2> TAKE id \in ids, u \in 1..k
  <2>1. ASSUME NEW v \in hits, v[1] = id, v[2] = units[u]  PROVE <<id, units[u], TRUE>> \in verdicts
    <3>1. PICK x \in ids, w \in 1..k, b \in BOOLEAN : v = <<x, units[w], b>>
      BY <1>8
    <3>2. b = TRUE /\ x = id /\ units[w] = units[u]
      BY <2>1, <3>1
    <3> QED
      BY <3>1, <3>2
  <2>2. <<id, units[u], TRUE>> \in verdicts => \E v \in hits : v[1] = id /\ v[2] = units[u]
    <3> DEFINE w == <<id, units[u], TRUE>>
    <3>1. w[3] /\ w[1] = id /\ w[2] = units[u]
      OBVIOUS
    <3> HIDE DEF w
    <3>2. w \in verdicts => w \in hits
      BY <3>1
    <3> QED
      BY <3>1, <3>2 DEF w
  <2> QED
    BY <1>9, <2>1, <2>2
<1>12. \A v \in hits : v[1] \in ids /\ \E u \in 1..k : v[2] = units[u]
  BY <1>8
<1> HIDE DEF hits
<1> DEFINE whole == (1..k) \ UNION {mappings[id] : id \in ids}
<1>13. whole = {u \in 1..k : \A v \in hits : v[2] # units[u]}
  BY <1>7, <1>11, <1>12
<1>14. {id \in ids : mappings[id] = {}} = {id \in ids : \A v \in hits : v[1] # id}
  <2>1. ASSUME NEW id \in ids  PROVE mappings[id] = {} <=> \A v \in hits : v[1] # id
    <3>1. mappings[id] \subseteq 1..k
      BY <1>7
    <3> QED
      BY <1>11, <1>12, <3>1
  <2> QED
    BY <2>1
<1>15. Len(units) = Cardinality(stated)
  <2>1. 1 \in Int /\ k \in Int /\ IsFiniteSet(1..k) /\ Cardinality(1..k) = k
    <3>1. k \in Nat /\ 1 \in Int /\ k \in Int /\ ~(1 > k) /\ k - 1 + 1 = k
      BY <1>4
    <3>2. IsFiniteSet(1..k) /\ Cardinality(1..k) = IF 1 > k THEN 0 ELSE k - 1 + 1
      BY <3>1, FS_Interval
    <3> QED
      BY <3>1, <3>2
  <2> DEFINE f == [u \in 1..k |-> units[u]]
  <2>2. f \in Surjection(1..k, stated) /\ f \in Injection(1..k, stated)
    <3>1. stated = {units[u] : u \in 1..k}
      BY <1>1, <1>4 DEF ToSet
    <3>2. \A u, w \in 1..k : units[u] = units[w] => u = w
      BY <1>1, <1>4 DEF Distinct
    <3>3. f \in [1..k -> stated] /\ \A u \in 1..k : f[u] = units[u]
      BY <3>1
    <3> HIDE DEF f
    <3>4. f \in Injection(1..k, stated)
      BY <3>2, <3>3 DEF Injection, IsInjective
    <3>5. f \in Surjection(1..k, stated)
      BY <3>1, <3>3 DEF Surjection
    <3> QED
      BY <3>4, <3>5
  <2> HIDE DEF f
  <2>3. Cardinality(stated) = Cardinality(1..k)
    BY <2>1, <2>2, FS_Surjection
  <2> QED
    BY <2>1, <2>3 DEF k
<1>16. /\ score'.uncovered = whole
       /\ score'.unmapped = {id \in ids : mappings[id] = {}}
       /\ score'.f1[1] <= score'.f1[2]
       /\ score'.f1[1] = score'.f1[2] <=> (score'.falsePositives = 0 /\ score'.falseNegatives = 0 /\ ids # {})
  <2>1. IsFiniteSet(ids) /\ k \in Nat \ {0} /\ score' = ScoreOf(1..k, mappings)
    BY <1>1, <1>4, <1>5, FiniteIds DEF ids
  <2> QED
    BY <1>7, <2>1, ScoreCounts
<1>17. ScoredInFull'
  <2> SUFFICES /\ Len(units) = Cardinality(stated) /\ ToSet(units) = stated
               /\ {<<v[1], v[2]>> : v \in verdicts} = ids \X stated
               /\ score'.uncovered = {u \in DOMAIN units : \A v \in hits : v[2] # units[u]}
               /\ score'.unmapped = {id \in ids : \A v \in hits : v[1] # id}
               /\ score'.f1[1] <= score'.f1[2]
               /\ score'.f1[1] = score'.f1[2] <=> (score'.falsePositives = 0 /\ score'.falseNegatives = 0 /\ ids # {})
    BY <1>1 DEF ScoredInFull, ids, hits
  <2> QED
    BY <1>1, <1>4, <1>10, <1>13, <1>14, <1>15, <1>16
<1> QED
  BY <1>1, <1>17 DEF JudgeInv, Suites, Concluded

\* Without a score the judge leaves nothing.
LEMMA NotScored == ASSUME JudgeInv, JudgeFails  PROVE JudgeInv'
<1>1. /\ step \in {"judge", "evaluate"} /\ step' = "finish" /\ units' = <<>> /\ stated' = {} /\ score' = score
  BY DEF JudgeFails
<1>2. units' \in Seq(Statements) /\ Distinct(units') /\ ToSet(units') = {}
  BY <1>1 DEF Distinct, ToSet
<1> QED
  BY <1>1, <1>2 DEF JudgeInv, Suites, Concluded

\* A suite is its three lists.
LEMMA BundleIs == Bundle = [reqs : Seq(RequirementRow), scns : Seq(ScenarioRow), tests : Seq(TestRow)]
BY DEF Bundle, RequirementRow, ScenarioRow, TestRow

\* The ids of a list are a finite list of numbers, and so are those it links.
LEMMA IdsAre ==
    /\ \A list \in Seq(RequirementRow) : Ids(list) \in IdSets
    /\ \A list \in Seq(ScenarioRow) : Ids(list) \in IdSets
<1>1. ASSUME NEW S, NEW list \in Seq(S), \A x \in S : x.id \in Nat  PROVE Ids(list) \in IdSets
  <2>1. IsFiniteSet(Ids(list))
    BY FiniteIds
  <2>2. \A x \in ToSet(list) : x \in S
    BY DEF ToSet
  <2> QED
    BY <1>1, <2>1, <2>2 DEF Ids, IdSets
<1>2. (\A x \in RequirementRow : x.id \in Nat) /\ \A x \in ScenarioRow : x.id \in Nat
  BY DEF RequirementRow, ScenarioRow
<1> QED
  BY <1>1, <1>2

\* Scenarios of an answer are numbered locally, and their links are among the
\* requirements the task was asked about.
LEMMA ScenarioAnswer ==
    ASSUME NEW ids, NEW scns \in ScenarioAnswers(ids)
    PROVE  Listed(scns) /\ \A i \in DOMAIN scns : scns[i] = Scenario(i, scns[i].reqs) /\ scns[i].reqs \subseteq ids
<1>1. PICK links \in Answers(NonEmpty(ids)) : scns = [i \in DOMAIN links |-> Scenario(i, links[i])]
  BY DEF ScenarioAnswers
<1>2. \A i \in DOMAIN links : links[i] \subseteq ids
  BY AnswersAre DEF NonEmpty
<1>3. \A i \in DOMAIN scns : scns[i] = Scenario(i, links[i]) /\ scns[i].reqs = links[i]
  BY <1>1 DEF Scenario
<1> QED
  BY <1>1, <1>2, <1>3, AnswersListed

\* Test cases of an answer are each of a scenario that the task was asked about,
\* with some of its requirements.
LEMMA TestAnswer ==
    ASSUME NEW scns, NEW tests \in TestAnswers(scns)
    PROVE  \A i \in DOMAIN tests :
             \E k, s : /\ tests[i] = [id |-> i, text |-> 0, cites |-> 0, scn |-> k, reqs |-> s]
                       /\ \E scn \in ToSet(scns) : k = scn.id /\ s \subseteq scn.reqs
<1> DEFINE refs == UNION {{s.id} \X NonEmpty(s.reqs) : s \in ToSet(scns)}
<1>1. PICK links \in Answers(refs) : tests = [i \in DOMAIN links |-> TestCase(i, links[i][1], links[i][2])]
  BY DEF TestAnswers
<1>2. \A ref \in refs : \E scn \in ToSet(scns) : ref[1] = scn.id /\ ref[2] \subseteq scn.reqs
  BY DEF NonEmpty
<1> HIDE DEF refs
<1>3. links \in Seq(refs)
  BY AnswersAre
<1> SUFFICES ASSUME NEW i \in DOMAIN tests
             PROVE  \E k, s : /\ tests[i] = [id |-> i, text |-> 0, cites |-> 0, scn |-> k, reqs |-> s]
                              /\ \E scn \in ToSet(scns) : k = scn.id /\ s \subseteq scn.reqs
  OBVIOUS
<1>4. links[i] \in refs /\ tests[i] = TestCase(i, links[i][1], links[i][2])
  BY <1>1, <1>3
<1>5. tests[i] = [id |-> i, text |-> 0, cites |-> 0, scn |-> links[i][1], reqs |-> links[i][2]]
  BY <1>4 DEF TestCase
<1> QED
  BY <1>2, <1>4, <1>5

\* Scenarios of an answer are scenarios when the task was asked about a list,
LEMMA AnsweredScenarios ==
    ASSUME NEW ids \in IdSets, NEW scns \in ScenarioAnswers(ids)
    PROVE  scns \in Seq(ScenarioRow)
<1>1. Listed(scns) /\ \A i \in DOMAIN scns : scns[i] = Scenario(i, scns[i].reqs) /\ scns[i].reqs \subseteq ids
  BY ScenarioAnswer
<1>2. Len(scns) \in Nat /\ DOMAIN scns = 1..Len(scns) /\ scns = [i \in 1..Len(scns) |-> scns[i]]
  BY <1>1, ListedIs
<1>3. ASSUME NEW i \in 1..Len(scns)  PROVE scns[i] \in ScenarioRow
  <2>1. scns[i].reqs \in IdSets /\ i \in Nat
    BY <1>1, <1>2, IdMore
  <2>2. scns[i] = [id |-> i, text |-> 0, cites |-> 0, reqs |-> scns[i].reqs]
    BY <1>1, <1>2 DEF Scenario
  <2> QED
    BY <2>1, <2>2 DEF ScenarioRow
<1> QED
  BY <1>2, <1>3

\* and test cases when it was given scenarios.
LEMMA AnsweredTests ==
    ASSUME NEW scns, \A s \in ToSet(scns) : s \in ScenarioRow, NEW tests \in TestAnswers(scns)
    PROVE  tests \in Seq(TestRow)
<1>1. Len(tests) \in Nat /\ DOMAIN tests = 1..Len(tests) /\ tests = [i \in 1..Len(tests) |-> tests[i]]
  BY AnswersListed, ListedIs
<1>2. ASSUME NEW i \in 1..Len(tests)  PROVE tests[i] \in TestRow
  <2>1. PICK k, s : /\ tests[i] = [id |-> i, text |-> 0, cites |-> 0, scn |-> k, reqs |-> s]
                    /\ \E scn \in ToSet(scns) : k = scn.id /\ s \subseteq scn.reqs
    BY <1>1, TestAnswer
  <2>2. PICK scn \in ToSet(scns) : k = scn.id /\ s \subseteq scn.reqs
    BY <2>1
  <2>3. scn.id \in Nat /\ scn.reqs \in IdSets
    BY DEF ScenarioRow
  <2>4. k \in Nat /\ s \in IdSets /\ i \in Nat
    BY <2>2, <2>3, IdMore
  <2> QED
    BY <2>1, <2>4 DEF TestRow
<1> QED
  BY <1>1, <1>2

\* A suite with other scenarios or other test cases is one.
LEMMA OtherLists ==
    ASSUME NEW suite \in Bundle
    PROVE  /\ \A scns \in Seq(ScenarioRow) : [suite EXCEPT !.scns = scns] \in Bundle
           /\ \A tests \in Seq(TestRow) : [suite EXCEPT !.tests = tests] \in Bundle
BY BundleIs

\* So are the lists that the stages of a single agent add to it.
LEMMA StagedSuite ==
    ASSUME step \in {"scenarios", "tests"} => bundle \in Bundle,
           StagedRequirements \/ StagedScenarios \/ StagedTests
    PROVE  bundle' \in Bundle /\ draft' = bundle'
<1>1. CASE StagedRequirements
  <2>1. PICK suite \in RawSuites : bundle' = [EmptySuite EXCEPT !.reqs = suite.reqs]
    BY <1>1 DEF StagedRequirements
  <2>2. suite.reqs \in Seq(RequirementRow)
    BY SuitesAssumption, BundleIs
  <2>3. bundle' = [reqs |-> suite.reqs, scns |-> <<>>, tests |-> <<>>]
    BY <2>1 DEF EmptySuite
  <2>4. bundle' \in Bundle
    BY <2>2, <2>3, BundleIs
  <2> QED
    BY <1>1, <2>4 DEF StagedRequirements
<1>2. CASE StagedScenarios
  <2>1. bundle \in Bundle
    BY <1>2 DEF StagedScenarios
  <2>2. PICK scns \in ScenarioAnswers(Ids(bundle.reqs)) : bundle' = [bundle EXCEPT !.scns = scns]
    BY <1>2 DEF StagedScenarios
  <2>3. bundle.reqs \in Seq(RequirementRow)
    BY <2>1, BundleIs
  <2>4. scns \in Seq(ScenarioRow)
    BY <2>3, IdsAre, AnsweredScenarios
  <2> QED
    BY <1>2, <2>1, <2>2, <2>4, OtherLists DEF StagedScenarios
<1>3. CASE StagedTests
  <2>1. bundle \in Bundle
    BY <1>3 DEF StagedTests
  <2>2. PICK tests \in TestAnswers(bundle.scns) : bundle' = [bundle EXCEPT !.tests = tests]
    BY <1>3 DEF StagedTests
  <2>3. \A x \in ToSet(bundle.scns) : x \in ScenarioRow
    <3>1. bundle.scns \in Seq(ScenarioRow)
      BY <2>1, BundleIs
    <3> QED
      BY <3>1 DEF ToSet
  <2>4. tests \in Seq(TestRow)
    BY <2>3, AnsweredTests
  <2> QED
    BY <1>3, <2>1, <2>2, <2>4, OtherLists DEF StagedTests
<1> QED
  BY <1>1, <1>2, <1>3

\* The suite that the judge gets is one (run_generation).
LEMMA SuiteJudged ==
    ASSUME JudgeInv, UNCHANGED judging,
           \/ SingleAnswer \/ StagedRequirements \/ StagedScenarios \/ StagedTests
           \/ LinkUncovered \/ Revise
    PROVE  JudgeInv'
<1>1. /\ step \in {"scout", "scenarios", "tests", "check", "revise"}
      /\ step' \in {"scenarios", "tests", "check", "revise", "judge", "conflict"}
      /\ UNCHANGED <<units, stated, verdicts, score>>
  BY DEF SingleAnswer, StagedRequirements, StagedScenarios, StagedTests, Claim, LinkUncovered, Revise, judging
<1>2. bundle' \in Bundle
  <2>1. CASE SingleAnswer
    BY <2>1, SuitesAssumption DEF SingleAnswer
  <2>2. CASE Revise
    BY <2>2, SuitesAssumption DEF Revise, JudgeInv, Suites
  <2>4. CASE StagedRequirements \/ StagedScenarios \/ StagedTests
    <3>1. step \in {"scenarios", "tests"} => bundle \in Bundle
      BY DEF JudgeInv, Suites
    <3> QED
      BY <2>4, <3>1, StagedSuite
  <2>3. CASE LinkUncovered
    <3>1. bundle \in Bundle
      BY <2>3 DEF LinkUncovered, JudgeInv, Suites
    <3>2. CASE ~OnlyUncovered(bundle)
      BY <2>3, <3>1, <3>2 DEF LinkUncovered
    <3>3. CASE OnlyUncovered(bundle)
      <4>1. PICK list \in Repairs : bundle' = Linking(bundle, list, Uncovered(bundle))
        BY Zenon, <2>3, <3>3 DEF LinkUncovered, Linking
      <4>2. PICK n \in 1..MaxAnswer : DOMAIN list = 1..n
        BY DEF Repairs
      <4>3. n \in Nat
        BY <4>2, IndexAssumption
      <4>4. Uncovered(bundle) \in SUBSET Nat
        <5>1. bundle.reqs \in Seq(RequirementRow)
          BY <3>1 DEF Bundle, RequirementRow
        <5>2. \A r \in ToSet(bundle.reqs) : r.id \in Nat
          <6>1. \A r \in ToSet(bundle.reqs) : r \in RequirementRow
            BY <5>1 DEF ToSet
          <6>2. \A r \in RequirementRow : r.id \in Nat
            BY DEF RequirementRow
          <6> QED
            BY <6>1, <6>2
        <5> QED
          BY <5>2 DEF Uncovered, Ids
      <4> QED
        BY <3>1, <4>1, <4>2, <4>3, <4>4, LinkedBundle
    <3> QED
      BY <3>2, <3>3
  <2> QED
    BY <2>1, <2>2, <2>3, <2>4
<1> QED
  BY <1>1, <1>2 DEF JudgeInv, Suites, Concluded

\* Nothing but a run's end is left to a run that ended, and nothing else comes
\* to the judge.
LEMMA ElsewhereSteps ==
    ASSUME \/ Curate /\ UNCHANGED <<drafting, review, judging>>
           \/ Draft /\ UNCHANGED <<curation, review, judging>>
           \/ ReviewStep /\ UNCHANGED <<curation, drafting, judging>>
           \/ Fail
    PROVE  /\ UNCHANGED judging
           /\ \/ /\ step \notin {"evaluate", "conflict"} \cup Concluded
                 /\ step' \notin Suites
              \/ SingleAnswer \/ StagedRequirements \/ StagedScenarios \/ StagedTests
              \/ LinkUncovered \/ Revise \/ Finish
<1> USE DEF Claim, Concluded, Suites
<1>1. CASE Curate /\ UNCHANGED <<drafting, review, judging>>
  BY <1>1 DEF Curate, Scout, SourceAudit, CheckOwnership, CurateBatch, CurateDone, RejectionAudit,
              RecheckDone, ScoutCorrected, Synthesize, DecideAll, Materialize, MaterializeDone, HandOver
<1>2. CASE Draft /\ UNCHANGED <<curation, review, judging>>
  BY <1>2 DEF Draft, DesignTask, DesignDone, Architect, WriteTests, Assemble
<1>3. CASE ReviewStep /\ UNCHANGED <<curation, drafting, judging>>
  <2>1. CASE SkipCritic \/ CriticTask \/ CriticDone \/ NextRepair \/ Patch
    BY <1>3, <2>1 DEF SkipCritic, CriticTask, CriticDone, NextRepair, Patch
  <2>2. CASE GapScenarios \/ GapTargets \/ GapTests \/ GapDone \/ Verify
    BY <1>3, <2>2 DEF GapScenarios, GapTargets, GapTests, GapDone, Verify
  <2>3. CASE CritiqueSuite \/ RepairRole \/ RepairsDone \/ VerifyAll
    BY <1>3, <2>3 DEF CritiqueSuite, RepairRole, RepairsDone, VerifyAll
  <2> QED
    BY <1>3, <2>1, <2>2, <2>3 DEF ReviewStep
<1>4. CASE Fail
  BY <1>4 DEF Fail, Asking
<1> QED
  BY <1>1, <1>2, <1>3, <1>4

\* So what the judge has is as above in every behaviour.
LEMMA JudgeKept == Spec => []JudgeInv
<1>1. Init => JudgeInv
  <2> SUFFICES ASSUME Init  PROVE JudgeInv
    OBVIOUS
  <2>1. step = "scout" /\ units = <<>> /\ stated = {} /\ verdicts = {} /\ score = None
    BY DEF Init, InitJudging
  <2>2. units \in Seq(Statements) /\ Distinct(units) /\ ToSet(units) = {}
    BY <2>1 DEF Distinct, ToSet
  <2> QED
    BY <2>1, <2>2 DEF JudgeInv, Suites, Concluded
<1>2. JudgeInv /\ [Next]_vars => JudgeInv'
  <2> SUFFICES ASSUME JudgeInv, [Next]_vars  PROVE JudgeInv'
    OBVIOUS
  <2>1. CASE JudgeStep
    BY <2>1, CatalogLoaded, CatalogExtended, CasesTried, UnitsNext, Scoring, NotScored DEF JudgeStep
  <2>2. CASE \/ Curate /\ UNCHANGED <<drafting, review, judging>>
             \/ Draft /\ UNCHANGED <<curation, review, judging>>
             \/ ReviewStep /\ UNCHANGED <<curation, drafting, judging>>
             \/ Fail
    <3>0. UNCHANGED judging
      BY <2>2, ElsewhereSteps
    <3>1. CASE \/ SingleAnswer \/ StagedRequirements \/ StagedScenarios \/ StagedTests
               \/ LinkUncovered \/ Revise
      BY <3>0, <3>1, SuiteJudged
    <3>2. CASE Finish
      <4>1. /\ step = "finish" /\ step' \in {"completed", "failed"} /\ bundle' = bundle
            /\ UNCHANGED <<units, stated, verdicts, score>>
        BY <3>0, <3>2 DEF Finish, judging
      <4>2. ScoredInFull' <=> ScoredInFull
        BY <4>1 DEF ScoredInFull
      <4> QED
        BY <4>1, <4>2 DEF JudgeInv, Suites, Concluded
    <3>3. CASE /\ step \notin {"evaluate", "conflict"} \cup Concluded
               /\ step' \notin Suites
      <4>1. UNCHANGED <<units, stated, verdicts, score>>
        BY <3>0 DEF judging
      <4> QED
        BY <3>3, <4>1 DEF JudgeInv, Suites
    <3> QED
      BY <2>2, <3>1, <3>2, <3>3, ElsewhereSteps
  <2>3. CASE UNCHANGED vars
    <3>1. UNCHANGED <<step, bundle, units, stated, mappings, current, tried, verdicts, score>>
      BY <2>3 DEF vars, run, judging
    <3>2. ScoredInFull' <=> ScoredInFull
      BY <3>1 DEF ScoredInFull
    <3>3. Evaluated' <=> Evaluated
      BY <3>1 DEF Evaluated, Answered, Tried
    <3> QED
      BY <3>1, <3>2, <3>3 DEF JudgeInv, Suites
  <2> QED
    BY <2>1, <2>2, <2>3 DEF Next
<1> QED
  BY <1>1, <1>2, PTL DEF Spec

\* A score is of the whole: every statement of the document is one unit, every
\* test case was tried on every unit, a unit or a test case counts as missed only
\* if no answer says otherwise, and the mean compute_f1 returns is 1 only for a
\* score that misses nothing, whatever the judge answers and however its tasks
\* cut the catalog and the suite (_bounded_catalog, _bounded_evaluation).
THEOREM Scored == Spec => []ScoredInFull
<1>1. JudgeInv => ScoredInFull
  BY DEF JudgeInv, ScoredInFull
<1> QED
  BY <1>1, JudgeKept, PTL

-----------------------------------------------------------------------------
(* What linking adds to a suite *)

\* The issues of a suite whose only fault is that requirements are uncovered.
Merely(suite) == \A issue \in Issues(suite) : issue[1] = "uncovered_requirement"

\* Such a suite has none of the others.
LEMMA OnlyMeans ==
    ASSUME NEW suite, Merely(suite)
    PROVE  /\ suite # EmptySuite
           /\ \A kind \in Kinds : /\ Duplicates(List(suite, kind)) = {}
                                  /\ \A x \in ToSet(List(suite, kind)) : x.cites # Ungrounded
           /\ \A x \in ToSet(suite.reqs) : x.deps \subseteq Ids(suite.reqs)
           /\ \A x \in ToSet(suite.scns) : /\ x.reqs \subseteq Ids(suite.reqs)
                                           /\ \E t \in ToSet(suite.tests) : t.scn = x.id
           /\ \A x \in ToSet(suite.tests) : /\ x.reqs \subseteq Ids(suite.reqs) /\ x.scn \in Ids(suite.scns)
                                            /\ x.reqs \subseteq ScenarioLinks(suite, x.scn)
<1>1. ASSUME NEW code, NEW kind, NEW ids, Found(code, kind, ids) \subseteq Issues(suite),
             code # "uncovered_requirement"
      PROVE  ids = {}
  <2>1. ASSUME NEW id \in ids  PROVE FALSE
    <3> DEFINE issue == <<code, <<kind, id>>>>
    <3>1. issue \in Found(code, kind, ids) /\ issue[1] = code
      BY DEF Found
    <3> QED
      BY <1>1, <3>1 DEF Merely
  <2> QED
    BY <2>1
<1> DEFINE empty     == IF suite = EmptySuite THEN {<<"empty_bundle", <<"bundle", 0>>>>} ELSE {}
           twice     == UNION {Found("duplicate_id", kind, Duplicates(List(suite, kind))) : kind \in Kinds}
           unfounded == UNION {Found("invalid_source_reference", kind,
                          {a.id : a \in {x \in ToSet(List(suite, kind)) : x.cites = Ungrounded}}) : kind \in Kinds}
           loose     == Found("missing_dependency", "REQ",
                          {r.id : r \in {x \in ToSet(suite.reqs) : ~(x.deps \subseteq Ids(suite.reqs))}})
           others    == Found("missing_requirement", "SCN", Unknown(suite.scns, suite))
           strangers == Found("missing_requirement", "TC", Unknown(suite.tests, suite))
           astray    == Found("missing_scenario", "TC", Astray(suite))
           wrong     == Found("scenario_requirement_mismatch", "TC", Mismatched(suite))
           alone     == Found("orphan_scenario", "SCN", Unlinked(suite))
           orphans   == Found("orphan_test_case", "TC", Astray(suite))
           bare      == Found("uncovered_requirement", "REQ", Uncovered(suite))
<1>2. Issues(suite) = empty \cup twice \cup unfounded \cup loose \cup others \cup strangers
                        \cup astray \cup wrong \cup alone \cup orphans \cup bare
  BY DEF Issues
<1>3. \A kind \in Kinds : Found("duplicate_id", kind, Duplicates(List(suite, kind))) \subseteq twice
  OBVIOUS
<1>4. \A kind \in Kinds : Found("invalid_source_reference", kind,
                              {a.id : a \in {x \in ToSet(List(suite, kind)) : x.cites = Ungrounded}}) \subseteq unfounded
  OBVIOUS
<1>5. suite # EmptySuite
  <2> SUFFICES ASSUME suite = EmptySuite  PROVE FALSE
    OBVIOUS
  <2> DEFINE issue == <<"empty_bundle", <<"bundle", 0>>>>
  <2>1. issue \in Issues(suite) /\ issue[1] = "empty_bundle"
    BY DEF Issues
  <2> QED
    BY <2>1 DEF Merely
<1> HIDE DEF empty, twice, unfounded, loose, others, strangers, astray, wrong, alone, orphans, bare
<1>6. /\ twice \subseteq Issues(suite) /\ unfounded \subseteq Issues(suite) /\ loose \subseteq Issues(suite)
      /\ others \subseteq Issues(suite) /\ strangers \subseteq Issues(suite) /\ astray \subseteq Issues(suite)
      /\ wrong \subseteq Issues(suite) /\ alone \subseteq Issues(suite)
  BY <1>2
<1>7. /\ Unknown(suite.scns, suite) = {} /\ Unknown(suite.tests, suite) = {} /\ Astray(suite) = {}
      /\ Mismatched(suite) = {} /\ Unlinked(suite) = {}
  BY <1>1, <1>6 DEF others, strangers, astray, wrong, alone
<1>8. {r.id : r \in {x \in ToSet(suite.reqs) : ~(x.deps \subseteq Ids(suite.reqs))}} = {}
  BY <1>1, <1>6 DEF loose
<1>9. \A kind \in Kinds : Duplicates(List(suite, kind)) = {}
  BY <1>1, <1>3, <1>6
<1>10. \A kind \in Kinds : {a.id : a \in {x \in ToSet(List(suite, kind)) : x.cites = Ungrounded}} = {}
  BY <1>1, <1>4, <1>6
<1>11. \A x \in ToSet(suite.scns) : x.reqs \subseteq Ids(suite.reqs) /\ \E t \in ToSet(suite.tests) : t.scn = x.id
  BY <1>7 DEF Unknown, Unlinked
<1>12. \A x \in ToSet(suite.tests) : x.reqs \subseteq Ids(suite.reqs) /\ x.scn \in Ids(suite.scns)
  BY <1>7 DEF Unknown, Astray
<1>13. \A x \in ToSet(suite.tests) : x.reqs \subseteq ScenarioLinks(suite, x.scn)
  BY <1>7, <1>12 DEF Mismatched
<1> QED
  BY <1>5, <1>8, <1>9, <1>10, <1>11, <1>12, <1>13

\* A suite with more links, each to a requirement it has and for a test case to
\* one of its scenario, has no issue it had not.
LEMMA MoreLinks ==
    ASSUME NEW suite, Merely(suite), NEW more,
           more # EmptySuite, more.reqs = suite.reqs,
           DOMAIN more.scns = DOMAIN suite.scns, DOMAIN more.tests = DOMAIN suite.tests,
           \A i \in DOMAIN suite.scns :
              /\ more.scns[i].id = suite.scns[i].id /\ more.scns[i].cites = suite.scns[i].cites
              /\ suite.scns[i].reqs \subseteq more.scns[i].reqs
              /\ more.scns[i].reqs \subseteq suite.scns[i].reqs \cup Ids(suite.reqs),
           \A j \in DOMAIN suite.tests :
              /\ more.tests[j].id = suite.tests[j].id /\ more.tests[j].cites = suite.tests[j].cites
              /\ more.tests[j].scn = suite.tests[j].scn
              /\ suite.tests[j].reqs \subseteq more.tests[j].reqs
              /\ more.tests[j].reqs \subseteq suite.tests[j].reqs \cup Ids(suite.reqs)
              /\ \A r \in more.tests[j].reqs \ suite.tests[j].reqs :
                    \E i \in DOMAIN suite.scns : suite.scns[i].id = suite.tests[j].scn /\ r \in more.scns[i].reqs
    PROVE  Issues(more) \subseteq Issues(suite)
<1>1. /\ \A kind \in Kinds : /\ Duplicates(List(suite, kind)) = {}
                             /\ \A x \in ToSet(List(suite, kind)) : x.cites # Ungrounded
      /\ \A x \in ToSet(suite.reqs) : x.deps \subseteq Ids(suite.reqs)
      /\ \A i \in DOMAIN suite.scns : suite.scns[i].reqs \subseteq Ids(suite.reqs)
      /\ \A i \in DOMAIN suite.scns : \E j \in DOMAIN suite.tests : suite.tests[j].scn = suite.scns[i].id
      /\ \A j \in DOMAIN suite.tests : /\ suite.tests[j].reqs \subseteq Ids(suite.reqs) /\ suite.tests[j].scn \in Ids(suite.scns)
                                       /\ suite.tests[j].reqs \subseteq ScenarioLinks(suite, suite.tests[j].scn)
  <2>1. /\ \A i \in DOMAIN suite.scns : suite.scns[i] \in ToSet(suite.scns)
        /\ \A j \in DOMAIN suite.tests : suite.tests[j] \in ToSet(suite.tests)
        /\ \A t \in ToSet(suite.tests) : \E j \in DOMAIN suite.tests : t = suite.tests[j]
    BY DEF ToSet
  <2>2. \A i \in DOMAIN suite.scns : \E t \in ToSet(suite.tests) : t.scn = suite.scns[i].id
    BY <2>1, OnlyMeans
  <2> QED
    BY <2>1, <2>2, OnlyMeans
<1>2. Ids(more.scns) = Ids(suite.scns) /\ Ids(more.tests) = Ids(suite.tests)
  BY DEF Ids, ToSet
<1>3. \A kind \in Kinds : Duplicates(List(more, kind)) = {}
  <2>1. Duplicates(more.scns) = Duplicates(suite.scns) /\ Duplicates(more.tests) = Duplicates(suite.tests)
    BY DEF Duplicates
  <2> QED
    BY <1>1, <2>1 DEF Kinds, List
<1>4. \A kind \in Kinds : {a.id : a \in {x \in ToSet(List(more, kind)) : x.cites = Ungrounded}} = {}
  <2>1. \A x \in ToSet(suite.scns) \cup ToSet(suite.tests) \cup ToSet(suite.reqs) : x.cites # Ungrounded
    BY <1>1 DEF Kinds, List
  <2>2. \A x \in ToSet(more.scns) \cup ToSet(more.tests) \cup ToSet(more.reqs) : x.cites # Ungrounded
    BY <2>1 DEF ToSet
  <2> QED
    BY <2>2 DEF Kinds, List
<1>5. {r.id : r \in {x \in ToSet(more.reqs) : ~(x.deps \subseteq Ids(more.reqs))}} = {}
  BY <1>1
<1>6. Unknown(more.scns, more) = {}
  <2>1. \A i \in DOMAIN suite.scns : suite.scns[i].reqs \subseteq Ids(suite.reqs)
    BY <1>1
  <2>2. \A x \in ToSet(more.scns) : x.reqs \subseteq Ids(more.reqs)
    BY <2>1 DEF ToSet
  <2> QED
    BY <2>2 DEF Unknown
<1>7. Unknown(more.tests, more) = {}
  <2>1. \A i \in DOMAIN suite.tests : suite.tests[i].reqs \subseteq Ids(suite.reqs)
    BY <1>1
  <2>2. \A x \in ToSet(more.tests) : x.reqs \subseteq Ids(more.reqs)
    BY <2>1 DEF ToSet
  <2> QED
    BY <2>2 DEF Unknown
<1>8. Astray(more) = {}
  <2>1. \A j \in DOMAIN suite.tests : suite.tests[j].scn \in Ids(suite.scns)
    BY <1>1
  <2> QED
    BY <1>2, <2>1 DEF Astray, ToSet
<1>9. Unlinked(more) = {}
  <2>1. \A i \in DOMAIN suite.scns : \E j \in DOMAIN suite.tests : suite.tests[j].scn = suite.scns[i].id
    BY <1>1
  <2>2. \A i \in DOMAIN more.scns : \E j \in DOMAIN more.tests : more.tests[j].scn = more.scns[i].id
    BY <2>1
  <2> QED
    BY <2>2 DEF Unlinked, ToSet
<1>10. \A id : ScenarioLinks(suite, id) \subseteq ScenarioLinks(more, id)
  <2>1. \A id, r : r \in ScenarioLinks(suite, id) <=>
                     \E i \in DOMAIN suite.scns : suite.scns[i].id = id /\ r \in suite.scns[i].reqs
    BY DEF ScenarioLinks, ToSet
  <2>2. \A id, r : r \in ScenarioLinks(more, id) <=>
                     \E i \in DOMAIN more.scns : more.scns[i].id = id /\ r \in more.scns[i].reqs
    BY DEF ScenarioLinks, ToSet
  <2> QED
    BY <2>1, <2>2
<1>11. Mismatched(more) = {}
  <2>1. ASSUME NEW j \in DOMAIN suite.tests  PROVE more.tests[j].reqs \subseteq ScenarioLinks(more, more.tests[j].scn)
    <3>1. suite.tests[j].scn \in Ids(suite.scns)
      BY <1>1
    <3>2. suite.tests[j].reqs \subseteq ScenarioLinks(suite, suite.tests[j].scn)
      BY <1>1, <3>1
    <3>3. ASSUME NEW r \in more.tests[j].reqs \ suite.tests[j].reqs  PROVE r \in ScenarioLinks(more, suite.tests[j].scn)
      <4>1. PICK i \in DOMAIN suite.scns : suite.scns[i].id = suite.tests[j].scn /\ r \in more.scns[i].reqs
        OBVIOUS
      <4> QED
        BY <4>1 DEF ScenarioLinks, ToSet
    <3> QED
      BY <1>10, <3>2, <3>3
  <2> QED
    BY <2>1 DEF Mismatched, ToSet
<1>12. Uncovered(more) \subseteq Uncovered(suite)
  <2>1. Links(suite.scns) \subseteq Links(more.scns)
    <3>1. \A r : r \in Links(suite.scns) <=> \E i \in DOMAIN suite.scns : r \in suite.scns[i].reqs
      BY DEF Links, ToSet
    <3>2. \A r : r \in Links(more.scns) <=> \E i \in DOMAIN more.scns : r \in more.scns[i].reqs
      BY DEF Links, ToSet
    <3> QED
      BY <3>1, <3>2
  <2>2. Links(suite.tests) \subseteq Links(more.tests)
    <3>1. \A r : r \in Links(suite.tests) <=> \E i \in DOMAIN suite.tests : r \in suite.tests[i].reqs
      BY DEF Links, ToSet
    <3>2. \A r : r \in Links(more.tests) <=> \E i \in DOMAIN more.tests : r \in more.tests[i].reqs
      BY DEF Links, ToSet
    <3> QED
      BY <3>1, <3>2
  <2> QED
    BY <2>1, <2>2 DEF Uncovered
<1>13. Issues(more) = Found("uncovered_requirement", "REQ", Uncovered(more))
  <2>1. \A code, kind : Found(code, kind, {}) = {}
    BY DEF Found
  <2> DEFINE twice(kind) == Found("duplicate_id", kind, Duplicates(List(more, kind)))
             unfounded(kind) == Found("invalid_source_reference", kind,
                                  {a.id : a \in {x \in ToSet(List(more, kind)) : x.cites = Ungrounded}})
  <2>2. (UNION {twice(kind) : kind \in Kinds}) = {}
    <3>1. \A kind \in Kinds : twice(kind) = {}
      BY <1>3, <2>1
    <3> HIDE DEF twice
    <3> QED
      BY <3>1
  <2>3. (UNION {unfounded(kind) : kind \in Kinds}) = {}
    <3>1. \A kind \in Kinds : unfounded(kind) = {}
      BY <1>4, <2>1
    <3> HIDE DEF unfounded
    <3> QED
      BY <3>1
  <2> QED
    BY <1>5, <1>6, <1>7, <1>8, <1>9, <1>11, <2>1, <2>2, <2>3 DEF Issues
<1>14. Found("uncovered_requirement", "REQ", Uncovered(suite)) \subseteq Issues(suite)
  BY DEF Issues
<1> QED
  BY <1>12, <1>13, <1>14 DEF Found

\* An assignment (_repair_coverage) of a requirement of the suite gives it more
\* links, of that kind.
LEMMA AssignedIssues ==
    ASSUME NEW suite \in Bundle, Merely(suite), NEW a, NEW uncovered \in SUBSET Ids(suite.reqs)
    PROVE  /\ Assign(suite, a, uncovered).reqs = suite.reqs
           /\ Issues(Assign(suite, a, uncovered)) \subseteq Issues(suite)
<1> DEFINE more == Assign(suite, a, uncovered)
           S == LinkTo(suite.scns, a.scn, a.req)
           T == LinkTo(suite.tests, a.test, a.req)
<1>1. /\ suite.reqs \in Seq(RequirementRow) /\ suite.scns \in Seq(ScenarioRow) /\ suite.tests \in Seq(TestRow)
      /\ DOMAIN suite = {"reqs", "scns", "tests"}
  BY DEF Bundle, RequirementRow, ScenarioRow, TestRow
<1>2. CASE more = suite
  BY <1>2
<1>3. CASE more # suite
  <2>1. /\ a.req \in uncovered /\ a.scn \in Ids(suite.scns)
        /\ \E t \in ToSet(suite.tests) : t.id = a.test /\ t.scn = a.scn
        /\ more = [suite EXCEPT !.scns = S, !.tests = T]
    BY <1>3 DEF Assign
  <2>2. more.scns = S /\ more.tests = T /\ more.reqs = suite.reqs
    <3> HIDE DEF S, T, more
    <3> QED
      BY <1>1, <2>1
  <2>3. a.req \in Nat
    <3>1. \A r \in ToSet(suite.reqs) : r \in RequirementRow
      BY <1>1 DEF ToSet
    <3>2. \A r \in RequirementRow : r.id \in Nat
      BY DEF RequirementRow
    <3> QED
      BY <2>1, <3>1, <3>2 DEF Ids
  <2>4. /\ DOMAIN S = DOMAIN suite.scns
        /\ \A i \in DOMAIN suite.scns :
              /\ S[i].id = suite.scns[i].id /\ S[i].cites = suite.scns[i].cites
              /\ S[i].reqs = suite.scns[i].reqs \cup (IF suite.scns[i].id = a.scn THEN {a.req} ELSE {})
    BY <1>1, <2>3, LinkedScenarios
  <2>5. /\ DOMAIN T = DOMAIN suite.tests
        /\ \A j \in DOMAIN suite.tests :
              /\ T[j].id = suite.tests[j].id /\ T[j].cites = suite.tests[j].cites /\ T[j].scn = suite.tests[j].scn
              /\ T[j].reqs = suite.tests[j].reqs \cup (IF suite.tests[j].id = a.test THEN {a.req} ELSE {})
    BY <1>1, <2>3, LinkedTests
  <2>6. PICK k \in DOMAIN suite.tests : suite.tests[k].id = a.test /\ suite.tests[k].scn = a.scn
    BY <2>1 DEF ToSet
  <2>7. PICK l \in DOMAIN suite.scns : suite.scns[l].id = a.scn
    BY <2>1 DEF Ids, ToSet
  <2>8. ASSUME NEW j \in DOMAIN suite.tests, suite.tests[j].id = a.test  PROVE j = k
    <3>1. "TC" \in Kinds /\ List(suite, "TC") = suite.tests
      BY DEF Kinds, List
    <3>2. Duplicates(suite.tests) = {}
      BY <3>1, OnlyMeans
    <3> QED
      BY <2>6, <2>8, <3>2 DEF Duplicates
  <2> HIDE DEF S, T, more
  <2>9. more # EmptySuite
    <3>1. EmptySuite.scns = <<>> /\ DOMAIN <<>> = {}
      BY DEF EmptySuite
    <3> QED
      BY <2>2, <2>4, <2>7, <3>1
  <2>10. ASSUME NEW j \in DOMAIN suite.tests, NEW r \in more.tests[j].reqs \ suite.tests[j].reqs
         PROVE  \E i \in DOMAIN suite.scns : suite.scns[i].id = suite.tests[j].scn /\ r \in more.scns[i].reqs
    <3>1. r = a.req /\ j = k
      BY <2>2, <2>5, <2>8, <2>10
    <3> QED
      BY <2>2, <2>4, <2>6, <2>7, <3>1
  <2>11. a.req \in Ids(suite.reqs)
    BY <2>1
  <2>12. Issues(more) \subseteq Issues(suite)
    BY <2>2, <2>4, <2>5, <2>9, <2>10, <2>11, MoreLinks
  <2> QED
    BY <2>2, <2>12 DEF more
<1> QED
  BY <1>2, <1>3

\* The model's repair of a suite that only leaves requirements uncovered adds no
\* issue to it, whatever it assigns to what (run_generation, _repair_coverage).
THEOREM LinkingKeeps == Spec => LinkingAddsNoIssue
<1>1. JudgeInv /\ [Next]_vars => [step = "check" => Issues(bundle') \subseteq Issues(bundle)]_vars
  <2> SUFFICES ASSUME JudgeInv, Next, step = "check"  PROVE Issues(bundle') \subseteq Issues(bundle)
    BY DEF vars
  <2>1. CASE LinkUncovered
    <3>1. bundle \in Bundle
      BY DEF JudgeInv, Suites
    <3>2. CASE ~OnlyUncovered(bundle)
      BY <2>1, <3>2 DEF LinkUncovered
    <3>3. CASE OnlyUncovered(bundle)
      <4> DEFINE un == Uncovered(bundle)
                 A == {s \in Bundle : s.reqs = bundle.reqs /\ Issues(s) \subseteq Issues(bundle)}
      <4>1. PICK list \in Repairs : bundle' = Linking(bundle, list, un)
        BY Zenon, <2>1, <3>3 DEF LinkUncovered, Linking
      <4>2. PICK n \in 1..MaxAnswer : DOMAIN list = 1..n
        BY DEF Repairs
      <4>3. n \in Nat
        BY <4>2, IndexAssumption
      <4>4. Merely(bundle) /\ un \in SUBSET Ids(bundle.reqs) /\ bundle \in A
        BY <3>1, <3>3 DEF OnlyUncovered, Merely, Uncovered
      <4>5. un \in SUBSET Nat
        <5>1. bundle.reqs \in Seq(RequirementRow)
          BY <3>1 DEF Bundle, RequirementRow
        <5>2. \A r \in ToSet(bundle.reqs) : r \in RequirementRow
          BY <5>1 DEF ToSet
        <5>3. \A r \in RequirementRow : r.id \in Nat
          BY DEF RequirementRow
        <5> QED
          BY <4>4, <5>2, <5>3 DEF Ids
      <4> HIDE DEF un
      <4>6. ASSUME NEW s \in A, NEW i \in 1..n  PROVE Assign(s, list[i], un) \in A
        <5>1. s \in Bundle /\ s.reqs = bundle.reqs /\ Issues(s) \subseteq Issues(bundle) /\ Merely(s)
          BY <4>4 DEF Merely
        <5> DEFINE more == Assign(s, list[i], un)
        <5>2. more \in Bundle /\ more.reqs = s.reqs /\ Issues(more) \subseteq Issues(s)
          BY <4>4, <4>5, <5>1, AssignedBundle, AssignedIssues
        <5> HIDE DEF more
        <5>3. more \in A
          BY <5>1, <5>2
        <5> QED
          BY <5>3 DEF more
      <4> HIDE DEF A
      <4>7. bundle' \in A
        BY <4>1, <4>2, <4>3, <4>4, <4>6, LinkedWithin
      <4> QED
        BY <4>7 DEF A
    <3> QED
      BY <3>2, <3>3
  <2>2. CASE Fail
    BY <2>2 DEF Fail
  <2>3. CASE JudgeStep
    BY <2>3 DEF JudgeStep, LoadUnits, ExtractUnits, CatalogDone, EvaluationTask, NextUnits, Score, JudgeFails
  <2>4. CASE \/ Curate /\ UNCHANGED <<drafting, review, judging>>
             \/ Draft /\ UNCHANGED <<curation, review, judging>>
             \/ ReviewStep /\ UNCHANGED <<curation, drafting, judging>>
    <3>1. Curate => FALSE
      BY DEF Curate, Scout, SourceAudit, CheckOwnership, CurateBatch, CurateDone, RejectionAudit,
             RecheckDone, ScoutCorrected, Synthesize, DecideAll, Materialize, MaterializeDone, HandOver
    <3>2. Draft => FALSE
      BY DEF Draft, DesignTask, DesignDone, Architect, WriteTests, Assemble, SingleAnswer,
                StagedRequirements, StagedScenarios, StagedTests
    <3>3. ReviewStep => LinkUncovered
      BY DEF ReviewStep, SkipCritic, CriticTask, CriticDone, NextRepair, Patch, GapScenarios, GapTargets,
             GapTests, GapDone, Verify, CritiqueSuite, RepairRole, RepairsDone, VerifyAll, Revise, Finish
    <3> QED
      BY <2>1, <2>4, <3>1, <3>2, <3>3
  <2> QED
    BY <2>2, <2>3, <2>4 DEF Next
<1> QED
  BY <1>1, JudgeKept, PTL DEF Spec, LinkingAddsNoIssue

-----------------------------------------------------------------------------
(* The first suite *)

\* The requirements of a list depend on no others.
Within(list) == \A r \in DOMAIN list : list[r].deps \subseteq DOMAIN list

\* A requirement with dependencies among the first m.
Bounded(S, m) == [sources : SUBSET S, deps : SUBSET (1..m)]

\* Decisions that pass their check give no requirement a dependency that does
\* not exist (_validate_curation, _apply_decisions).
LEMMA DecidingWithin ==
    ASSUME reqs \in Seq(Curated), Within(reqs), NEW n \in Nat, NEW batch, DOMAIN batch = 1..n,
           NEW peers \in SUBSET (DOMAIN reqs), NEW choices \in Decisions(n), ChoicesOK(choices, peers)
    PROVE  Within(Decide(batch, choices)) /\ Listed(Decide(batch, choices))
<1> DEFINE m    == Len(reqs)
           S    == (Nat \X Nat) \cup {batch[i] : i \in 1..n}
           L    == {s \in Seq(Bounded(S, m)) : m <= Len(s)}
           Acc  == [reqs : L, at : [1..n -> Nat]]
           base == [reqs |-> reqs, at |-> [i \in DOMAIN batch |-> 0]]
           To(acc, c) == CASE c.action = "reject" -> 0
                           [] c.action = "retain" -> Len(acc.reqs) + 1
                           [] c.action = "merge" -> IF c.into[1] = "REQ" THEN c.into[2] ELSE acc.at[c.into[2]]
           Grown(acc, i, c, at) ==
             CASE c.action = "reject" -> acc.reqs
               [] c.action = "retain" ->
                    Append(acc.reqs, Combine([sources |-> {}, deps |-> {}], batch[i], c.edit))
               [] c.action = "merge" -> [acc.reqs EXCEPT ![at] = Combine(@, batch[i], c.edit)]
           Put(acc, i) == [at   |-> [acc.at EXCEPT ![i] = To(acc, choices[i])],
                           reqs |-> Grown(acc, i, choices[i], To(acc, choices[i]))]
           places == [i \in DOMAIN batch |-> i]
           Body(g) == [s \in SUBSET (DOMAIN places) |->
                         IF s = {} THEN base ELSE Put(g[s \ {Max(s)}], places[Max(s)])]
           f == CHOOSE g : g = Body(g)
           end == f[DOMAIN places]
<1>1. Decide(batch, choices) = end.reqs
  BY Zenon DEF Decide, FoldLeft, MapThenFoldSet
<1>2. n \in Nat /\ m \in Nat /\ DOMAIN reqs = 1..m
  OBVIOUS
<1>3. DOMAIN places = 1..n /\ \A i \in 1..n : places[i] = i
  BY <1>2
<1>4. base \in Acc
  <2>1. [i \in DOMAIN batch |-> 0] \in [1..n -> Nat]
    BY <1>2
  <2>2. \A r \in 1..m : reqs[r] \in Bounded(S, m)
    <3> SUFFICES ASSUME NEW r \in 1..m  PROVE reqs[r] \in Bounded(S, m)
      OBVIOUS
    <3>1. reqs[r] \in Curated /\ reqs[r].deps \subseteq 1..m
      BY <1>2 DEF Within
    <3>2. \A x \in Curated : x.deps \subseteq 1..m => x \in Bounded(S, m)
      BY DEF Curated, Bounded
    <3> QED
      BY <3>1, <3>2
  <2>3. reqs \in Seq(Bounded(S, m))
    <3> HIDE DEF S
    <3> QED
      BY <2>2
  <2>4. m <= Len(reqs)
    BY <1>2
  <2> HIDE DEF S, m
  <2> QED
    BY <2>1, <2>3, <2>4
<1>5. \A i \in 1..n : /\ choices[i].action \in {"retain", "merge", "reject"}
                      /\ choices[i].edit \in {None} \cup SUBSET (1..m)
                      /\ choices[i].action = "merge" =>
                           \/ \E r \in DOMAIN reqs : choices[i].into = <<"REQ", r>>
                           \/ \E j \in 1..(i - 1) : choices[i].into = <<"CAND", j>>
  <2> SUFFICES ASSUME NEW i \in 1..n
               PROVE  /\ choices[i].action \in {"retain", "merge", "reject"}
                      /\ choices[i].edit \in {None} \cup SUBSET (1..m)
                      /\ choices[i].action = "merge" =>
                           \/ \E r \in DOMAIN reqs : choices[i].into = <<"REQ", r>>
                           \/ \E j \in 1..(i - 1) : choices[i].into = <<"CAND", j>>
    OBVIOUS
  <2>1. i \in DOMAIN choices /\ choices[i].action \in {"retain", "merge", "reject"}
    BY DEF Decisions
  <2>2. /\ IF choices[i].action = "merge"
             THEN \/ choices[i].into \in {"REQ"} \X peers
                  \/ \E j \in 1..(i - 1) : choices[j].action = "retain" /\ choices[i].into = <<"CAND", j>>
             ELSE choices[i].into = None
        /\ choices[i].edit # None => choices[i].edit \subseteq DOMAIN reqs
    BY <2>1 DEF ChoicesOK
  <2> HIDE DEF m
  <2> QED
    BY <1>2, <2>1, <2>2
<1>6. ASSUME NEW a \in Acc, NEW i \in 1..n
      PROVE  Put(a, i) \in Acc
  <2> DEFINE ch == choices[i]
             at == To(a, ch)
             x == batch[i]
             grown == Grown(a, i, ch, at)
  <2>1. a.reqs \in Seq(Bounded(S, m)) /\ m <= Len(a.reqs) /\ a.at \in [1..n -> Nat] /\ Len(a.reqs) \in Nat
    <3> HIDE DEF S, m
    <3> QED
      OBVIOUS
  <2>2. Put(a, i) = [at |-> [a.at EXCEPT ![i] = at], reqs |-> grown]
    OBVIOUS
  <2>3. ch.action \in {"retain", "merge", "reject"} /\ ch.edit \in {None} \cup SUBSET (1..m)
    <3> HIDE DEF m
    <3> QED
      BY <1>5
  <2>4. x \in S
    OBVIOUS
  <2>5. \A old : old.sources \in SUBSET S /\ old.deps \in SUBSET (1..m) => Combine(old, x, ch.edit) \in Bounded(S, m)
    <3> HIDE DEF S, m, x, ch
    <3> QED
      BY <2>3, <2>4 DEF Combine, Bounded
  <2>6. grown \in L
    <3>1. CASE ch.action = "reject"
      <4>1. grown = a.reqs
        BY <3>1
      <4> HIDE DEF grown, S, m
      <4> QED
        BY <2>1, <4>1
    <3>2. CASE ch.action = "retain"
      <4> DEFINE bare == [sources |-> {}, deps |-> {}]
                 new  == Combine(bare, x, ch.edit)
                 list == a.reqs
      <4>1. grown = Append(list, new)
        BY <3>2
      <4>2. bare.sources \in SUBSET S /\ bare.deps \in SUBSET (1..m)
        OBVIOUS
      <4> HIDE DEF bare
      <4>3. new \in Bounded(S, m)
        <5> HIDE DEF S, m, x, ch
        <5> QED
          BY <2>5, <4>2
      <4>4. list \in Seq(Bounded(S, m)) /\ m <= Len(list)
        BY <2>1
      <4> HIDE DEF new, grown, S, m, list
      <4>5. Append(list, new) \in Seq(Bounded(S, m)) /\ Len(Append(list, new)) = Len(list) + 1
        BY <4>3, <4>4, AppendProperties
      <4>6. m <= Len(list) + 1
        BY <1>2, <4>4
      <4> QED
        BY <4>1, <4>5, <4>6
    <3>3. CASE ch.action = "merge"
      <4> DEFINE list == a.reqs
      <4>1. grown = [list EXCEPT ![at] = Combine(@, x, ch.edit)]
        BY <3>3
      <4>2. list \in Seq(Bounded(S, m)) /\ m <= Len(list)
        BY <2>1
      <4> HIDE DEF list, grown, at, x, ch, S, m
      <4>3. CASE at \notin DOMAIN list
        <5>1. grown = list
          BY <4>1, <4>2, <4>3
        <5> QED
          BY <4>2, <5>1
      <4>4. CASE at \in DOMAIN list
        <5> DEFINE one == Combine(list[at], x, ch.edit)
        <5>1. list[at] \in Bounded(S, m) /\ grown = [list EXCEPT ![at] = one]
          BY <4>1, <4>2, <4>4
        <5>2. list[at].sources \in SUBSET S /\ list[at].deps \in SUBSET (1..m)
          BY <5>1 DEF Bounded
        <5>3. one \in Bounded(S, m)
          BY <2>5, <5>2
        <5> HIDE DEF one
        <5>4. grown \in Seq(Bounded(S, m)) /\ Len(grown) = Len(list)
          BY <4>2, <4>4, <5>1, <5>3
        <5> QED
          BY <4>2, <5>4
      <4> QED
        BY <4>3, <4>4
    <3> HIDE DEF ch
    <3> QED
      BY <2>3, <3>1, <3>2, <3>3
  <2>7. at \in Nat
    <3>1. CASE ch.action = "reject"
      BY <3>1
    <3>2. CASE ch.action = "retain"
      <4>1. at = Len(a.reqs) + 1
        BY <3>2
      <4> HIDE DEF at
      <4> QED
        BY <2>1, <4>1
    <3>3. CASE ch.action = "merge"
      <4>1. CASE \E r \in DOMAIN reqs : ch.into = <<"REQ", r>>
        <5>1. PICK r \in DOMAIN reqs : ch.into = <<"REQ", r>>
          BY <4>1
        <5>2. at = r /\ r \in Nat
          BY <1>2, <3>3, <5>1
        <5> QED
          BY <5>2
      <4>2. CASE \E j \in 1..(i - 1) : ch.into = <<"CAND", j>>
        <5>1. PICK j \in 1..(i - 1) : ch.into = <<"CAND", j>>
          BY <4>2
        <5>2. at = a.at[j] /\ j \in 1..n
          BY <1>2, <3>3, <5>1
        <5> HIDE DEF at
        <5> QED
          BY <2>1, <5>2
      <4>3. \/ \E r \in DOMAIN reqs : ch.into = <<"REQ", r>>
            \/ \E j \in 1..(i - 1) : ch.into = <<"CAND", j>>
        <5> HIDE DEF m
        <5> QED
          BY <1>5, <3>3
      <4> HIDE DEF at, ch
      <4> QED
        BY <4>1, <4>2, <4>3
    <3> HIDE DEF at, ch
    <3> QED
      BY <2>3, <3>1, <3>2, <3>3
  <2>8. [a.at EXCEPT ![i] = at] \in [1..n -> Nat]
    <3> HIDE DEF at
    <3> QED
      BY <2>1, <2>7
  <2> HIDE DEF ch, at, grown, L, x
  <2> QED
    BY <2>2, <2>6, <2>8
<1> DEFINE h == [p \in Acc \X (1..n) |-> Put(p[1], p[2])]
<1>8. f = Body(f)
  <2>1. h \in [Acc \X (1..n) -> Acc] /\ \A a \in Acc, i \in 1..n : h[<<a, i>>] = Put(a, i)
    <3> HIDE DEF Put, Acc
    <3> QED
      BY <1>6
  <2> HIDE DEF h, Put, Acc, base, places
  <2>2. PICK g \in [SUBSET (1..n) -> Acc] : Folds(g, h, base, n)
    BY <1>2, <1>4, <2>1, Iterated
  <2>3. ASSUME NEW s \in SUBSET (1..n)
        PROVE  g[s] = IF s = {} THEN base ELSE Put(g[s \ {Max(s)}], places[Max(s)])
    <3>1. g[s] = IF s = {} THEN base ELSE h[<<g[s \ {Max(s)}], Max(s)>>]
      BY <2>2 DEF Folds
    <3>2. s # {} => Max(s) \in 1..n /\ g[s \ {Max(s)}] \in Acc /\ places[Max(s)] = Max(s)
      BY <1>2, <1>3, MaxPlace
    <3> QED
      BY <2>1, <3>1, <3>2
  <2>4. g = Body(g)
    BY <1>3, <2>3
  <2> HIDE DEF Body
  <2> QED
    BY <2>4
<1> HIDE DEF f
<1>9. \A s \in SUBSET (1..n) : f[s] = IF s = {} THEN base ELSE Put(f[s \ {Max(s)}], places[Max(s)])
  <2> HIDE DEF Put, base, places
  <2> QED
    BY <1>3, <1>8
<1> DEFINE T == {k \in Nat : k <= n => f[1..k] \in Acc}
<1>10. 0 \in T
  <2>1. f[1..0] = base
    <3>1. 1..0 = {} /\ {} \in SUBSET (1..n)
      OBVIOUS
    <3> HIDE DEF base, Put, places
    <3> QED
      BY <1>9, <3>1
  <2> HIDE DEF Acc, base
  <2> QED
    BY <1>4, <2>1
<1>11. ASSUME NEW k \in Nat, k \in T  PROVE k + 1 \in T
  <2>0. SUFFICES ASSUME k + 1 <= n  PROVE f[1..(k + 1)] \in Acc
    <3>1. k + 1 \in Nat
      OBVIOUS
    <3> HIDE DEF Acc
    <3> QED
      BY <3>1
  <2>1. k + 1 \in 1..n /\ k <= n
    BY <1>2, <2>0
  <2>2. f[1..k] \in Acc
    <3> HIDE DEF Acc
    <3> QED
      BY <1>11, <2>1
  <2>3. f[1..(k + 1)] = Put(f[1..k], k + 1)
    <3>1. /\ 1..(k + 1) \in SUBSET (1..n) /\ 1..(k + 1) # {} /\ Max(1..(k + 1)) = k + 1
          /\ (1..(k + 1)) \ {k + 1} = 1..((k + 1) - 1)
      BY <1>2, <2>1, IteratedPrefix
    <3>2. (k + 1) - 1 = k /\ places[k + 1] = k + 1
      BY <1>3, <2>1
    <3> HIDE DEF Put, base, places
    <3> QED
      BY <1>9, <3>1, <3>2
  <2> HIDE DEF Acc, Put
  <2> QED
    BY <1>6, <2>1, <2>2, <2>3
<1>12. end \in Acc
  <2>1. Nat \subseteq T
    <3> HIDE DEF T
    <3> QED
      BY <1>10, <1>11, SetInduction
  <2>2. end = f[1..n]
    BY <1>3
  <2>3. n <= n
    BY <1>2
  <2> HIDE DEF Acc, end
  <2> QED
    BY <1>2, <2>1, <2>2, <2>3
<1> DEFINE after == Decide(batch, choices)
<1>13. after \in Seq(Bounded(S, m)) /\ m <= Len(after)
  <2>1. after = end.reqs
    BY <1>1
  <2> HIDE DEF after, end, S, m
  <2> QED
    BY <1>12, <2>1
<1> HIDE DEF after, S, m
<1>14. \A r \in DOMAIN after : after[r].deps \subseteq 1..m
  <2>1. \A x \in Bounded(S, m) : x.deps \subseteq 1..m
    BY DEF Bounded
  <2> QED
    BY <1>13, <2>1
<1>15. 1..m \subseteq DOMAIN after
  BY <1>2, <1>13
<1>16. Listed(after)
  BY <1>13 DEF Listed, ToSet
<1> QED
  BY <1>14, <1>15, <1>16 DEF Within, after

\* The artifacts of a list are numbered by their places and cite the document.
Counted(list) == \A i \in DOMAIN list : list[i].id = i /\ list[i].cites = 0

Whole(suite) == suite = [reqs |-> suite.reqs, scns |-> suite.scns, tests |-> suite.tests]

\* The links of a suite lead to what is there: a scenario has requirements of the
\* suite and a test case, a test case a scenario and requirements of that.
Joined(suite) ==
    /\ Counted(suite.reqs) /\ Counted(suite.scns) /\ Counted(suite.tests)
    /\ \A i \in DOMAIN suite.scns : /\ suite.scns[i].reqs \subseteq DOMAIN suite.reqs
                                    /\ \E j \in DOMAIN suite.tests : suite.tests[j].scn = i
    /\ \A j \in DOMAIN suite.tests : /\ suite.tests[j].scn \in DOMAIN suite.scns
                                     /\ suite.tests[j].reqs \subseteq suite.scns[suite.tests[j].scn].reqs

\* Such a list has the ids of its places, each once, and no ungrounded citation.
LEMMA CountedMeans ==
    ASSUME NEW list, Counted(list)
    PROVE  /\ Ids(list) = DOMAIN list /\ Duplicates(list) = {}
           /\ {a.id : a \in {x \in ToSet(list) : x.cites = Ungrounded}} = {}
<1>1. Ids(list) = DOMAIN list
  BY DEF Counted, Ids, ToSet
<1>2. Duplicates(list) = {}
  BY DEF Counted, Duplicates
<1>3. \A x \in ToSet(list) : x.cites # Ungrounded
  BY DEF Counted, Ungrounded, ToSet
<1> QED
  BY <1>1, <1>2, <1>3

\* What is linked in a list.
LEMMA LinksAre ==
    ASSUME NEW list
    PROVE  \A r : r \in Links(list) <=> \E i \in DOMAIN list : r \in list[i].reqs
BY DEF Links, ToSet

\* The artifacts of a suite are there once each and cite the document, its links
\* lead to what is there, and cover its requirements.
Tied(suite) ==
    /\ \A kind \in Kinds : StagedOK(List(suite, kind))
    /\ \A s \in ToSet(suite.scns) : /\ s.reqs \subseteq Ids(suite.reqs)
                                    /\ \E t \in ToSet(suite.tests) : t.scn = s.id
    /\ \A t \in ToSet(suite.tests) : \E s \in ToSet(suite.scns) : t.scn = s.id /\ t.reqs \subseteq s.reqs
    /\ Ids(suite.reqs) \subseteq Links(suite.scns) \cap Links(suite.tests)

\* Such a suite has no issue but of dependencies, and that it is empty.
LEMMA TiedIssues ==
    ASSUME NEW suite, Tied(suite)
    PROVE  /\ \A issue \in Issues(suite) : issue[1] \in {"missing_dependency", "empty_bundle"}
           /\ suite # EmptySuite /\ (\A x \in ToSet(suite.reqs) : x.deps \subseteq Ids(suite.reqs)) => Valid(suite)
<1>1. \A kind \in Kinds : /\ Duplicates(List(suite, kind)) = {}
                          /\ {a.id : a \in {x \in ToSet(List(suite, kind)) : x.cites = Ungrounded}} = {}
  BY DEF Tied, StagedOK
<1>2. \A x \in ToSet(suite.scns) : x.reqs \subseteq Ids(suite.reqs)
  BY DEF Tied
<1>3. \A x \in ToSet(suite.tests) : x.reqs \subseteq Ids(suite.reqs) /\ x.scn \in Ids(suite.scns)
  <2> SUFFICES ASSUME NEW x \in ToSet(suite.tests)
               PROVE  x.reqs \subseteq Ids(suite.reqs) /\ x.scn \in Ids(suite.scns)
    OBVIOUS
  <2>1. PICK s \in ToSet(suite.scns) : x.scn = s.id /\ x.reqs \subseteq s.reqs
    BY DEF Tied
  <2>2. s.id \in Ids(suite.scns)
    BY DEF Ids
  <2> QED
    BY <1>2, <2>1, <2>2
<1>4. /\ Unknown(suite.scns, suite) = {} /\ Unknown(suite.tests, suite) = {} /\ Astray(suite) = {}
  BY <1>2, <1>3 DEF Unknown, Astray
<1>5. Unlinked(suite) = {}
  BY DEF Tied, Unlinked
<1>6. Mismatched(suite) = {}
  <2> SUFFICES ASSUME NEW x \in ToSet(suite.tests)  PROVE x.reqs \subseteq ScenarioLinks(suite, x.scn)
    BY DEF Mismatched
  <2>1. PICK s \in ToSet(suite.scns) : x.scn = s.id /\ x.reqs \subseteq s.reqs
    BY DEF Tied
  <2>2. s.reqs \subseteq ScenarioLinks(suite, s.id)
    BY DEF ScenarioLinks
  <2> QED
    BY <2>1, <2>2
<1>7. Uncovered(suite) = {}
  BY DEF Tied, Uncovered
<1> DEFINE empty == IF suite = EmptySuite THEN {<<"empty_bundle", <<"bundle", 0>>>>} ELSE {}
           bad   == {r.id : r \in {x \in ToSet(suite.reqs) : ~(x.deps \subseteq Ids(suite.reqs))}}
           loose == Found("missing_dependency", "REQ", bad)
<1>8. Issues(suite) = empty \cup loose
  <2>1. \A code, kind : Found(code, kind, {}) = {}
    BY DEF Found
  <2> DEFINE twice(kind) == Found("duplicate_id", kind, Duplicates(List(suite, kind)))
             unfounded(kind) == Found("invalid_source_reference", kind,
                                  {a.id : a \in {x \in ToSet(List(suite, kind)) : x.cites = Ungrounded}})
  <2>2. (UNION {twice(kind) : kind \in Kinds}) = {}
    <3>1. \A kind \in Kinds : twice(kind) = {}
      BY <1>1, <2>1
    <3> HIDE DEF twice
    <3> QED
      BY <3>1
  <2>3. (UNION {unfounded(kind) : kind \in Kinds}) = {}
    <3>1. \A kind \in Kinds : unfounded(kind) = {}
      BY <1>1, <2>1
    <3> HIDE DEF unfounded
    <3> QED
      BY <3>1
  <2> QED
    BY <1>4, <1>5, <1>6, <1>7, <2>1, <2>2, <2>3 DEF Issues
<1>9. \A issue \in Issues(suite) : issue[1] \in {"missing_dependency", "empty_bundle"}
  <2>1. \A issue \in loose : issue[1] = "missing_dependency"
    BY DEF Found
  <2>2. \A issue \in empty : issue[1] = "empty_bundle"
    OBVIOUS
  <2> HIDE DEF loose, empty
  <2> QED
    BY <1>8, <2>1, <2>2
<1>10. ASSUME suite # EmptySuite, \A x \in ToSet(suite.reqs) : x.deps \subseteq Ids(suite.reqs)  PROVE Valid(suite)
  <2>1. bad = {}
    BY <1>10
  <2>2. loose = {} /\ empty = {}
    BY <1>10, <2>1 DEF Found
  <2> HIDE DEF loose, empty
  <2> QED
    BY <1>8, <2>2 DEF Valid
<1> QED
  BY <1>9, <1>10

\* A joined suite that covers its requirements is one of them.
LEMMA JoinedIssues ==
    ASSUME NEW suite, Joined(suite), DOMAIN suite.reqs \subseteq Links(suite.scns) \cap Links(suite.tests)
    PROVE  /\ \A issue \in Issues(suite) : issue[1] \in {"missing_dependency", "empty_bundle"}
           /\ suite # EmptySuite /\ Within(suite.reqs) => Valid(suite)
<1>1. /\ Ids(suite.reqs) = DOMAIN suite.reqs
      /\ \A kind \in Kinds : Counted(List(suite, kind))
  BY CountedMeans DEF Joined, Kinds, List
<1>2. \A kind \in Kinds : StagedOK(List(suite, kind))
  <2>1. ASSUME NEW list, Counted(list)  PROVE StagedOK(list)
    BY <2>1, CountedMeans DEF StagedOK, Counted, Ungrounded, ToSet
  <2> QED
    BY <1>1, <2>1
<1>3. \A s \in ToSet(suite.scns) : s.reqs \subseteq DOMAIN suite.reqs /\ \E t \in ToSet(suite.tests) : t.scn = s.id
  <2>1. \A i \in DOMAIN suite.scns : suite.scns[i].id = i /\ \E j \in DOMAIN suite.tests : suite.tests[j].scn = i
    BY DEF Joined, Counted
  <2>2. \A i \in DOMAIN suite.scns : suite.scns[i].reqs \subseteq DOMAIN suite.reqs
    BY DEF Joined
  <2> QED
    BY <2>1, <2>2 DEF ToSet
<1>4. \A t \in ToSet(suite.tests) : \E s \in ToSet(suite.scns) : t.scn = s.id /\ t.reqs \subseteq s.reqs
  <2> SUFFICES ASSUME NEW j \in DOMAIN suite.tests
               PROVE  \E s \in ToSet(suite.scns) : suite.tests[j].scn = s.id /\ suite.tests[j].reqs \subseteq s.reqs
    BY DEF ToSet
  <2> DEFINE k == suite.tests[j].scn
  <2>1. k \in DOMAIN suite.scns /\ suite.tests[j].reqs \subseteq suite.scns[k].reqs /\ suite.scns[k].id = k
    BY DEF Joined, Counted
  <2> QED
    BY <2>1 DEF ToSet
<1>5. Tied(suite)
  BY <1>1, <1>2, <1>3, <1>4 DEF Tied
<1>6. Within(suite.reqs) => \A x \in ToSet(suite.reqs) : x.deps \subseteq Ids(suite.reqs)
  BY <1>1 DEF Within, ToSet
<1> QED
  BY <1>5, <1>6, TiedIssues

\* The efficient curator's requirements depend on each other only.
DepsInv == profile = "efficient" /\ step \in {"curate", "recheck", "curated"} => Within(reqs)

\* Nothing is designed before the requirements are handed on.
UndesignedInv == step \in Curating => designed = 0

\* What is designed links the first requirements, and nothing that is not there.
DesignInv == profile = "efficient" /\ step = "design" =>
    /\ Suited(bundle) /\ Joined(bundle) /\ Within(bundle.reqs)
    /\ designed \in 0..Len(bundle.reqs)
    /\ 1..designed \subseteq Links(bundle.scns) \cap Links(bundle.tests)

\* A curator's batch leaves no dependency that does not exist.
LEMMA BatchWithin ==
    ASSUME CurationInv, DepsInv, CurateBatch
    PROVE  Within(reqs') /\ Listed(reqs')
<1>1. step = "curate" /\ profile = "efficient" /\ step \in Complete
  BY DEF CurateBatch, Complete
<1>2. reqs \in Seq(Curated) /\ Within(reqs) /\ PhaseInv /\ FoundInv
  BY <1>1 DEF CurationInv, DecidedInv, DepsInv
<1>3. PICK p \in 0..Len(Candidates) : Decided(p)
  BY <1>1 DEF CurationInv, DecidedInv
<1>4. Listed(pending)
  <2> DEFINE m == Len(Candidates)
  <2>1. Candidates \in Seq(Position) /\ m \in Nat
    BY <1>1, <1>2, CandidatesAre
  <2>2. p + 1 \in Int /\ m \in Int /\ \A i \in (p + 1)..m : Candidates[i] \in Position
    BY <1>3, <2>1
  <2>3. SubSeq(Candidates, p + 1, m) \in Seq(Position)
    BY <2>2, SubSeqProperties
  <2>4. pending \in Seq(Position)
    BY <1>3, <2>3 DEF Decided
  <2> QED
    BY <2>4 DEF Listed, ToSet
<1>5. PICK batch \in FirstGroups(pending, CuratorBatch) :
        \E peers \in SUBSET (DOMAIN reqs) : \E choices \in Decisions(Len(batch)) :
          ChoicesOK(choices, peers) /\ reqs' = Decide(batch, choices)
  BY DEF CurateBatch
<1>6. PICK peers \in SUBSET (DOMAIN reqs) : \E choices \in Decisions(Len(batch)) :
          ChoicesOK(choices, peers) /\ reqs' = Decide(batch, choices)
  BY <1>5
<1>7. PICK choices \in Decisions(Len(batch)) : ChoicesOK(choices, peers) /\ reqs' = Decide(batch, choices)
  BY <1>6
<1>8. Len(batch) \in Nat /\ DOMAIN batch = 1..Len(batch)
  <2>1. Len(pending) \in Nat /\ CuratorBatch \in Nat
    BY <1>4, ListedIs, LimitsAssumption
  <2>2. PICK n \in 1..(IF Len(pending) < CuratorBatch THEN Len(pending) ELSE CuratorBatch) : batch = SubSeq(pending, 1, n)
    BY <1>5 DEF FirstGroups
  <2>3. n \in Nat /\ n <= Len(pending)
    BY <2>1, <2>2
  <2>4. Listed(batch)
    BY <1>4, <2>2, <2>3, ListedPart
  <2> QED
    BY <2>4, ListedIs
<1>9. Within(Decide(batch, choices)) /\ Listed(Decide(batch, choices))
  BY <1>2, <1>6, <1>7, <1>8, DecidingWithin
<1> QED
  BY <1>7, <1>9

\* Every step keeps the dependencies right.
LEMMA DepsStep == ASSUME CurationInv, DepsInv, [Next]_vars  PROVE DepsInv'
<1> USE DEF Claim
<1>1. SUFFICES ASSUME profile' = "efficient", step' \in {"curate", "recheck", "curated"}  PROVE Within(reqs')
  BY DEF DepsInv
<1>2. PhaseInv
  BY DEF CurationInv
<1>3. step \in Curating /\ profile = "efficient" /\ (UNCHANGED <<step, curation>> \/ Curate)
  BY <1>1, <1>2, CurationSteps, SameShares DEF Curating
<1>4. CASE UNCHANGED <<step, curation>> \/ CurateDone \/ RecheckDone
  <2>1. reqs' = reqs /\ step \in {"curate", "recheck", "curated"}
    BY <1>1, <1>4 DEF CurateDone, RecheckDone, curation, decisions
  <2> QED
    BY <1>3, <2>1 DEF DepsInv
<1>5. CASE CheckOwnership
  <2>1. reqs' = reqs /\ reqs = <<>>
    BY <1>3, <1>5 DEF CheckOwnership, CurationInv, DecidedInv
  <2> QED
    BY <2>1 DEF Within
<1>6. CASE CurateBatch
  BY <1>6, BatchWithin
<1>7. CASE RejectionAudit
  <2>1. step = "recheck" /\ (reqs' = reqs \/ \E n \in Nat : reqs' = reqs \o Gaps(n))
    BY <1>7, LimitsAssumption DEF RejectionAudit
  <2>2. reqs \in Seq(Curated) /\ Within(reqs)
    BY <1>3, <2>1 DEF CurationInv, DecidedInv, DepsInv
  <2>3. ASSUME NEW n \in Nat, reqs' = reqs \o Gaps(n)  PROVE Within(reqs')
    <3> DEFINE m == Len(reqs)
    <3>1. /\ DOMAIN reqs' = 1..(m + n) /\ DOMAIN reqs = 1..m /\ m \in Nat
          /\ \A r \in 1..m : reqs'[r] = reqs[r]
          /\ \A r \in (m + 1)..(m + n) : reqs'[r].deps = {}
      BY <2>2, <2>3, GapsAdded, LenProperties
    <3> HIDE DEF m
    <3>2. 1..m \subseteq 1..(m + n) /\ \A r \in 1..(m + n) : r \in 1..m \/ r \in (m + 1)..(m + n)
      BY <3>1
    <3>3. ASSUME NEW r \in 1..m  PROVE reqs'[r].deps \subseteq 1..(m + n)
      <4>1. reqs[r].deps \subseteq 1..m /\ reqs'[r] = reqs[r]
        BY <2>2, <3>1 DEF Within
      <4> QED
        BY <3>2, <4>1
    <3>4. ASSUME NEW r \in (m + 1)..(m + n)  PROVE reqs'[r].deps \subseteq 1..(m + n)
      BY <3>1
    <3> QED
      BY <3>1, <3>2, <3>3, <3>4 DEF Within
  <2> QED
    BY <2>1, <2>2, <2>3
<1>8. CASE Scout \/ SourceAudit \/ (\E g \in DOMAIN found : ScoutCorrected(g))
  BY <1>1, <1>3, <1>8 DEF Scout, SourceAudit, ScoutCorrected
<1>9. CASE Synthesize \/ DecideAll \/ Materialize \/ MaterializeDone \/ HandOver
  BY <1>1, <1>2, <1>3, <1>9 DEF Synthesize, DecideAll, Materialize, MaterializeDone, HandOver, PhaseInv
<1> QED
  BY <1>3, <1>4, <1>5, <1>6, <1>7, <1>8, <1>9 DEF Curate

\* The places of two lists that are put together.
LEMMA ConcatPlaces ==
    ASSUME NEW s, NEW t, Listed(s), Listed(t)
    PROVE  /\ DOMAIN (s \o t) = 1..(Len(s) + Len(t))
           /\ \A i \in 1..Len(s) : (s \o t)[i] = s[i]
           /\ \A i \in 1..Len(t) : (s \o t)[Len(s) + i] = t[i]
<1> DEFINE X == ToSet(s) \cup ToSet(t)
<1>1. s \in Seq(X) /\ t \in Seq(X)
  <2>1. ToSet(s) \subseteq X /\ ToSet(t) \subseteq X
    OBVIOUS
  <2> QED
    BY <2>1, SeqMonotonic DEF Listed
<1> HIDE DEF X
<1> DEFINE u == s \o t
<1>2. Len(s) \in Nat /\ Len(t) \in Nat
  BY <1>1, LenProperties
<1>3. /\ u \in Seq(X) /\ Len(u) = Len(s) + Len(t)
      /\ \A i \in 1..(Len(s) + Len(t)) : u[i] = IF i <= Len(s) THEN s[i] ELSE t[i - Len(s)]
  BY <1>1, ConcatProperties
<1>4. DOMAIN u = 1..(Len(s) + Len(t))
  BY <1>3, LenProperties
<1> DEFINE m == Len(s)
           n == Len(t)
<1> HIDE DEF u, m, n
<1>5. ASSUME NEW i \in 1..m  PROVE u[i] = s[i]
  <2>1. m \in Nat /\ n \in Nat /\ i \in 1..(m + n) /\ i <= m
    BY <1>2 DEF m, n
  <2> QED
    BY <1>3, <2>1 DEF m, n
<1>6. ASSUME NEW i \in 1..n  PROVE u[m + i] = t[i]
  <2>1. m \in Nat /\ n \in Nat /\ m + i \in 1..(m + n) /\ ~(m + i <= m) /\ (m + i) - m = i
    BY <1>2 DEF m, n
  <2> QED
    BY <1>3, <2>1 DEF m, n
<1> QED
  BY <1>4, <1>5, <1>6 DEF u, m, n

\* A batch of designs is joined to what was designed before, and links what the
\* task was asked about.
LEMMA DesignsJoined ==
    ASSUME NEW suite, Suited(suite), Joined(suite), NEW ids, ids \subseteq DOMAIN suite.reqs,
           NEW scns \in ScenarioAnswers(ids), ScenarioBatchOK(scns, ids), NEW tests,
           DOMAIN tests = DOMAIN scns, \A i \in DOMAIN scns : tests[i] = TestCase(i, i, scns[i].reqs),
           NEW more, more = AppendBatch(suite, scns, tests), Listed(tests)
    PROVE  /\ Suited(more) /\ more.reqs = suite.reqs /\ Joined(more)
           /\ Links(more.scns) = Links(suite.scns) \cup ids
           /\ Links(more.tests) = Links(suite.tests) \cup ids
<1> DEFINE n  == Len(scns)
           ls == Len(suite.scns)
           lt == Len(suite.tests)
           ss == [i \in DOMAIN scns |-> [scns[i] EXCEPT !.id = Len(suite.scns) + i]]
           ts == [i \in DOMAIN tests |-> [tests[i] EXCEPT !.id = Len(suite.tests) + i, !.scn = Len(suite.scns) + @]]
<1>1. /\ n \in Nat /\ DOMAIN scns = 1..n /\ Listed(scns)
      /\ \A i \in 1..n : scns[i] = Scenario(i, scns[i].reqs) /\ scns[i].reqs \subseteq ids
  BY ScenarioAnswer, ListedIs
<1>2. /\ ls \in Nat /\ DOMAIN suite.scns = 1..ls /\ lt \in Nat /\ DOMAIN suite.tests = 1..lt
  BY ListedIs DEF Suited
<1>3. /\ DOMAIN ss = 1..n
      /\ \A i \in 1..n : ss[i].id = ls + i /\ ss[i].cites = 0 /\ ss[i].reqs = scns[i].reqs
  <2>1. \A s : \A i \in 1..n : scns[i] = Scenario(i, s) => ss[i].id = ls + i /\ ss[i].cites = 0 /\ ss[i].reqs = s
    BY <1>1 DEF Scenario
  <2> QED
    BY <1>1, <2>1
<1>4. /\ DOMAIN ts = 1..n
      /\ \A i \in 1..n : ts[i].id = lt + i /\ ts[i].cites = 0 /\ ts[i].scn = ls + i /\ ts[i].reqs = scns[i].reqs
  <2>1. DOMAIN tests = 1..n /\ DOMAIN ts = 1..n
    BY <1>1
  <2>2. ASSUME NEW i \in 1..n
        PROVE  ts[i].id = lt + i /\ ts[i].cites = 0 /\ ts[i].scn = ls + i /\ ts[i].reqs = scns[i].reqs
    <3>1. tests[i] = [id |-> i, text |-> 0, cites |-> 0, scn |-> i, reqs |-> scns[i].reqs]
      BY <1>1 DEF TestCase
    <3>2. ts[i] = [tests[i] EXCEPT !.id = lt + i, !.scn = ls + @]
      BY <2>1
    <3> HIDE DEF ts, lt, ls
    <3> QED
      BY <3>1, <3>2
  <2> HIDE DEF ts, lt, ls, n
  <2> QED
    BY <2>1, <2>2
<1>5. more = [reqs |-> suite.reqs, scns |-> suite.scns \o ss, tests |-> suite.tests \o ts]
  <2>1. more = [suite EXCEPT !.scns = @ \o ss, !.tests = @ \o ts]
    BY Zenon DEF AppendBatch
  <2> HIDE DEF ss, ts
  <2> QED
    BY <2>1 DEF Suited
<1>6. Listed(ss) /\ Len(ss) = n /\ Listed(ts) /\ Len(ts) = n
  <2>1. ss = [i \in 1..n |-> ss[i]] /\ ts = [i \in 1..n |-> ts[i]]
    BY <1>1
  <2> HIDE DEF ss, ts, n
  <2> QED
    BY <1>1, <1>3, <1>4, <2>1, ListedFunction
<1>7. Suited(more)
  BY <1>1, AppendedSuited
<1> HIDE DEF ss, ts, n, ls, lt
<1>8. /\ DOMAIN more.scns = 1..(ls + n) /\ \A i \in 1..ls : more.scns[i] = suite.scns[i]
      /\ \A i \in 1..n : more.scns[ls + i] = ss[i]
  <2>1. Listed(suite.scns) /\ Listed(ss) /\ Len(suite.scns) = ls /\ more.scns = suite.scns \o ss
    BY <1>5, <1>6 DEF Suited, ls
  <2> QED
    BY <1>6, <2>1, ConcatPlaces
<1>9. /\ DOMAIN more.tests = 1..(lt + n) /\ \A i \in 1..lt : more.tests[i] = suite.tests[i]
      /\ \A i \in 1..n : more.tests[lt + i] = ts[i]
  <2>1. Listed(suite.tests) /\ Listed(ts) /\ Len(suite.tests) = lt /\ more.tests = suite.tests \o ts
    BY <1>5, <1>6 DEF Suited, lt
  <2> QED
    BY <1>6, <2>1, ConcatPlaces
<1>10. \A k \in 1..(ls + n) : k \in 1..ls \/ \E i \in 1..n : k = ls + i
  <2> SUFFICES ASSUME NEW k \in 1..(ls + n), k \notin 1..ls  PROVE \E i \in 1..n : k = ls + i
    OBVIOUS
  <2>1. k - ls \in 1..n /\ k = ls + (k - ls)
    BY <1>1, <1>2
  <2> QED
    BY <2>1
<1>11. \A k \in 1..(lt + n) : k \in 1..lt \/ \E i \in 1..n : k = lt + i
  <2> SUFFICES ASSUME NEW k \in 1..(lt + n), k \notin 1..lt  PROVE \E i \in 1..n : k = lt + i
    OBVIOUS
  <2>1. k - lt \in 1..n /\ k = lt + (k - lt)
    BY <1>1, <1>2
  <2> QED
    BY <2>1
<1>12. /\ 1..ls \subseteq 1..(ls + n) /\ 1..lt \subseteq 1..(lt + n)
       /\ \A i \in 1..n : ls + i \in 1..(ls + n) /\ lt + i \in 1..(lt + n)
  BY <1>1, <1>2
<1>13. Counted(more.reqs) /\ Counted(more.scns) /\ Counted(more.tests) /\ more.reqs = suite.reqs
  <2>1. Counted(suite.reqs) /\ Counted(suite.scns) /\ Counted(suite.tests) /\ more.reqs = suite.reqs
    BY <1>5 DEF Joined
  <2>2. Counted(more.scns)
    <3> SUFFICES ASSUME NEW k \in 1..(ls + n)  PROVE more.scns[k].id = k /\ more.scns[k].cites = 0
      BY <1>8 DEF Counted
    <3>1. CASE k \in 1..ls
      BY <1>2, <1>8, <2>1, <3>1 DEF Counted
    <3>2. CASE \E i \in 1..n : k = ls + i
      BY <1>3, <1>8, <3>2
    <3> QED
      BY <1>10, <3>1, <3>2
  <2>3. Counted(more.tests)
    <3> SUFFICES ASSUME NEW k \in 1..(lt + n)  PROVE more.tests[k].id = k /\ more.tests[k].cites = 0
      BY <1>9 DEF Counted
    <3>1. CASE k \in 1..lt
      BY <1>2, <1>9, <2>1, <3>1 DEF Counted
    <3>2. CASE \E i \in 1..n : k = lt + i
      BY <1>4, <1>9, <3>2
    <3> QED
      BY <1>11, <3>1, <3>2
  <2> QED
    BY <2>1, <2>2, <2>3
<1>14. ASSUME NEW k \in 1..(ls + n)
       PROVE  /\ more.scns[k].reqs \subseteq DOMAIN suite.reqs
              /\ \E j \in 1..(lt + n) : more.tests[j].scn = k
  <2>1. CASE k \in 1..ls
    <3>1. suite.scns[k].reqs \subseteq DOMAIN suite.reqs /\ more.scns[k] = suite.scns[k]
      BY <1>2, <1>8, <2>1 DEF Joined
    <3>2. PICK j \in 1..lt : suite.tests[j].scn = k
      BY <1>2, <2>1 DEF Joined
    <3>3. more.tests[j].scn = k /\ j \in 1..(lt + n)
      BY <1>9, <1>12, <3>2
    <3> QED
      BY <3>1, <3>3
  <2>2. CASE \E i \in 1..n : k = ls + i
    <3>1. PICK i \in 1..n : k = ls + i
      BY <2>2
    <3>2. more.scns[k].reqs = scns[i].reqs /\ scns[i].reqs \subseteq ids
      BY <1>1, <1>3, <1>8, <3>1
    <3>3. more.tests[lt + i].scn = k /\ lt + i \in 1..(lt + n)
      BY <1>4, <1>9, <1>12, <3>1
    <3> QED
      BY <3>2, <3>3
  <2> QED
    BY <1>10, <2>1, <2>2
<1>15. ASSUME NEW k \in 1..(lt + n)
       PROVE  more.tests[k].scn \in 1..(ls + n) /\ more.tests[k].reqs \subseteq more.scns[more.tests[k].scn].reqs
  <2>1. CASE k \in 1..lt
    <3>1. /\ suite.tests[k].scn \in 1..ls /\ suite.tests[k].reqs \subseteq suite.scns[suite.tests[k].scn].reqs
          /\ more.tests[k] = suite.tests[k]
      BY <1>2, <1>9, <2>1 DEF Joined
    <3>2. more.scns[suite.tests[k].scn] = suite.scns[suite.tests[k].scn]
      BY <1>8, <3>1
    <3> QED
      BY <1>12, <3>1, <3>2
  <2>2. CASE \E i \in 1..n : k = lt + i
    <3>1. PICK i \in 1..n : k = lt + i
      BY <2>2
    <3>2. more.tests[k].scn = ls + i /\ more.tests[k].reqs = scns[i].reqs
      BY <1>4, <1>9, <3>1
    <3>3. more.scns[ls + i].reqs = scns[i].reqs /\ ls + i \in 1..(ls + n)
      BY <1>3, <1>8, <1>12
    <3> QED
      BY <3>2, <3>3
  <2> QED
    BY <1>11, <2>1, <2>2
<1>16. Joined(more)
  BY <1>8, <1>9, <1>13, <1>14, <1>15 DEF Joined
<1>17. \A r : r \in ids <=> \E i \in 1..n : r \in scns[i].reqs
  <2>1. Links(scns) = ids
    BY DEF ScenarioBatchOK
  <2> QED
    BY <1>1, <2>1, LinksAre
<1>18. Links(more.scns) = Links(suite.scns) \cup ids
  <2>1. \A r : r \in Links(more.scns) <=> \E k \in 1..(ls + n) : r \in more.scns[k].reqs
    BY <1>8, LinksAre
  <2>2. \A r : r \in Links(suite.scns) <=> \E k \in 1..ls : r \in suite.scns[k].reqs
    BY <1>2, LinksAre
  <2>3. ASSUME NEW r \in Links(more.scns)  PROVE r \in Links(suite.scns) \cup ids
    <3>1. PICK k \in 1..(ls + n) : r \in more.scns[k].reqs
      BY <2>1
    <3>2. CASE k \in 1..ls
      BY <1>8, <2>2, <3>1, <3>2
    <3>3. CASE \E i \in 1..n : k = ls + i
      BY <1>3, <1>8, <1>17, <3>1, <3>3
    <3> QED
      BY <1>10, <3>2, <3>3
  <2>4. ASSUME NEW r \in Links(suite.scns)  PROVE r \in Links(more.scns)
    <3>1. PICK k \in 1..ls : r \in suite.scns[k].reqs
      BY <2>2
    <3>2. r \in more.scns[k].reqs /\ k \in 1..(ls + n)
      BY <1>8, <1>12, <3>1
    <3> QED
      BY <2>1, <3>2
  <2>5. ASSUME NEW r \in ids  PROVE r \in Links(more.scns)
    <3>1. PICK i \in 1..n : r \in scns[i].reqs
      BY <1>17
    <3>2. r \in more.scns[ls + i].reqs /\ ls + i \in 1..(ls + n)
      BY <1>3, <1>8, <1>12, <3>1
    <3> QED
      BY <2>1, <3>2
  <2> QED
    BY <2>3, <2>4, <2>5
<1>19. Links(more.tests) = Links(suite.tests) \cup ids
  <2>1. \A r : r \in Links(more.tests) <=> \E k \in 1..(lt + n) : r \in more.tests[k].reqs
    BY <1>9, LinksAre
  <2>2. \A r : r \in Links(suite.tests) <=> \E k \in 1..lt : r \in suite.tests[k].reqs
    BY <1>2, LinksAre
  <2>3. ASSUME NEW r \in Links(more.tests)  PROVE r \in Links(suite.tests) \cup ids
    <3>1. PICK k \in 1..(lt + n) : r \in more.tests[k].reqs
      BY <2>1
    <3>2. CASE k \in 1..lt
      BY <1>9, <2>2, <3>1, <3>2
    <3>3. CASE \E i \in 1..n : k = lt + i
      BY <1>4, <1>9, <1>17, <3>1, <3>3
    <3> QED
      BY <1>11, <3>2, <3>3
  <2>4. ASSUME NEW r \in Links(suite.tests)  PROVE r \in Links(more.tests)
    <3>1. PICK k \in 1..lt : r \in suite.tests[k].reqs
      BY <2>2
    <3>2. r \in more.tests[k].reqs /\ k \in 1..(lt + n)
      BY <1>9, <1>12, <3>1
    <3> QED
      BY <2>1, <3>2
  <2>5. ASSUME NEW r \in ids  PROVE r \in Links(more.tests)
    <3>1. PICK i \in 1..n : r \in scns[i].reqs
      BY <1>17
    <3>2. r \in more.tests[lt + i].reqs /\ lt + i \in 1..(lt + n)
      BY <1>4, <1>9, <1>12, <3>1
    <3> QED
      BY <2>1, <3>2
  <2> QED
    BY <2>3, <2>4, <2>5
<1> QED
  BY <1>7, <1>13, <1>16, <1>18, <1>19

\* The share of a writer begins where those before end.
Share(scns, sizes, g) ==
    LET before == Together(SubSeq(sizes, 1, g - 1)) IN SubSeq(scns, before + 1, before + sizes[g])

\* What is shared out are such shares, of sizes that are together the list's.
LEMMA SharesAre ==
    ASSUME NEW scns, Listed(scns), scns # <<>>, NEW all \in SharesOf(scns)
    PROVE  \E sizes \in Seq(Nat) : /\ Together(sizes) = Len(scns)
                                   /\ all = [g \in 1..Len(sizes) |-> Share(scns, sizes, g)]
<1> DEFINE N == Len(scns)
           Z == {z \in UNION {[1..n -> 1..WriterBatch] : n \in 1..Len(scns)} : Together(z) = Len(scns)}
<1>1. PICK sizes \in Z : all = [g \in 1..Len(sizes) |-> Share(scns, sizes, g)]
  BY Zenon DEF SharesOf, Share, Together
<1>2. PICK n \in 1..N : sizes \in [1..n -> 1..WriterBatch]
  OBVIOUS
<1>3. n \in Nat /\ 1..WriterBatch \subseteq Nat
  BY ListedIs, DraftingAssumption
<1> HIDE DEF N
<1>4. sizes \in Seq(Nat)
  BY <1>2, <1>3
<1> QED
  BY <1>1, <1>4

\* What is shared out is a list's, and all of it.
Dealt(list, all) ==
    /\ Listed(all)
    /\ \A g \in DOMAIN all : ToSet(all[g]) \subseteq ToSet(list)
    /\ \A x \in ToSet(list) : \E g \in DOMAIN all : x \in ToSet(all[g])

\* The elements of a part of a list.
LEMMA PartOf ==
    ASSUME NEW s, Listed(s), NEW m \in Nat, NEW n \in Nat, n <= Len(s)
    PROVE  \A i \in (m + 1)..n : s[i] \in ToSet(SubSeq(s, m + 1, n))
<1> DEFINE t == SubSeq(s, m + 1, n)
<1>1. Len(s) \in Nat /\ DOMAIN s = 1..Len(s)
  BY ListedIs
<1> SUFFICES ASSUME NEW i \in (m + 1)..n  PROVE s[i] \in ToSet(t)
  OBVIOUS
<1>2. \A j \in (m + 1)..n : s[j] \in ToSet(s)
  BY <1>1 DEF ToSet
<1>3. m + 1 \in Int /\ n \in Int /\ m + 1 <= n
  OBVIOUS
<1>4. /\ t \in Seq(ToSet(s)) /\ Len(t) = n - (m + 1) + 1
      /\ \A j \in 1..(n - (m + 1) + 1) : t[j] = s[(m + 1) + j - 1]
  BY <1>2, <1>3, SubSeqProperties
<1>5. i - m \in 1..(n - (m + 1) + 1) /\ (m + 1) + (i - m) - 1 = i
  OBVIOUS
<1> HIDE DEF t
<1>6. t[i - m] = s[i]
  BY <1>4, <1>5
<1>7. i - m \in DOMAIN t
  BY <1>4, <1>5
<1> QED
  BY <1>6, <1>7 DEF ToSet

\* The writers' shares are the scenarios, together all of them.
LEMMA SharesCover ==
    ASSUME NEW scns, Listed(scns), NEW all \in SharesOf(scns)
    PROVE  Dealt(scns, all)
<1>1. CASE scns = <<>>
  <2>1. all = <<<<>>>>
    BY <1>1 DEF SharesOf
  <2>2. DOMAIN all = 1..1 /\ all = [g \in 1..1 |-> all[g]] /\ 1 \in Nat /\ all[1] = <<>>
    BY <2>1
  <2>3. Listed(all)
    BY <2>2, ListedFunction
  <2>4. ToSet(scns) = {} /\ \A g \in DOMAIN all : ToSet(all[g]) = {}
    <3>1. \A g \in 1..1 : all[g] = <<>>
      BY <2>2
    <3> QED
      BY <1>1, <2>2, <3>1, ListedEmpty
  <2> QED
    BY <2>3, <2>4 DEF Dealt
<1>2. CASE scns # <<>>
  <2> DEFINE N == Len(scns)
  <2>1. PICK sizes \in Seq(Nat) : Together(sizes) = N /\ all = [g \in 1..Len(sizes) |-> Share(scns, sizes, g)]
    BY <1>2, SharesAre
  <2> DEFINE n == Len(sizes)
  <2>2. N \in Nat /\ DOMAIN scns = 1..N /\ n \in Nat /\ SubSeq(sizes, 1, n) = sizes
    BY ListedIs
  <2>3. PICK p \in [0..n -> Nat] : /\ p[0] = 0 /\ \A i \in 1..n : p[i] = p[i - 1] + sizes[i]
                                   /\ \A i \in 0..n : Together(SubSeq(sizes, 1, i)) = p[i]
    BY TogetherPrefix
  <2>4. \A i \in 1..n : sizes[i] \in Nat
    OBVIOUS
  <2>5. DOMAIN all = 1..n /\ \A g \in 1..n : all[g] = Share(scns, sizes, g)
    BY <2>1
  <2>6. all = [g \in 1..n |-> all[g]]
    BY <2>1
  <2>7. p[n] = N
    <3>1. n \in 0..n
      BY <2>2
    <3>2. Together(SubSeq(sizes, 1, n)) = p[n] /\ Together(sizes) = N
      BY <2>1, <2>3, <3>1
    <3> HIDE DEF n, N
    <3> QED
      BY <2>2, <3>2
  <2> HIDE DEF n, N
  <2>8. ASSUME NEW g \in 1..n
        PROVE  /\ p[g - 1] \in Nat /\ p[g] \in Nat /\ all[g] = SubSeq(scns, p[g - 1] + 1, p[g])
    <3>1. g - 1 \in 0..n /\ g \in 0..n
      BY <2>2
    <3>2. Together(SubSeq(sizes, 1, g - 1)) = p[g - 1] /\ p[g] = p[g - 1] + sizes[g]
      BY <2>3, <3>1
    <3> QED
      BY <2>3, <2>5, <3>1, <3>2 DEF Share
  <2>9. ASSUME NEW g \in 0..n  PROVE p[g] <= N
    <3> DEFINE T == {k \in Nat : g + k <= n => p[g] <= p[g + k]}
    <3>1. 0 \in T
      <4>1. g + 0 = g /\ p[g] \in Nat
        BY <2>2, <2>3
      <4> QED
        BY <4>1
    <3>2. ASSUME NEW k \in Nat, k \in T  PROVE k + 1 \in T
      <4>1. SUFFICES ASSUME g + (k + 1) <= n  PROVE p[g] <= p[g + (k + 1)]
        OBVIOUS
      <4>2. g + (k + 1) \in 1..n /\ (g + (k + 1)) - 1 = g + k /\ g + k \in 0..n /\ p[g] <= p[g + k]
        BY <2>2, <3>2, <4>1
      <4>3. p[g + (k + 1)] = p[g + k] + sizes[g + (k + 1)]
        BY <2>3, <4>2
      <4>4. p[g + k] \in Nat /\ sizes[g + (k + 1)] \in Nat /\ p[g] \in Nat
        BY <2>3, <2>4, <4>2
      <4> QED
        BY <4>2, <4>3, <4>4
    <3>3. Nat \subseteq T
      <4> HIDE DEF T
      <4> QED
        BY <3>1, <3>2, SetInduction
    <3>4. n - g \in Nat /\ g + (n - g) = n
      BY <2>2
    <3>5. p[g] <= p[n]
      <4> DEFINE k == n - g
      <4>1. k \in T /\ g + k = n
        BY <3>3, <3>4
      <4>2. n <= n
        BY <2>2
      <4> HIDE DEF k
      <4> QED
        BY <4>1, <4>2
    <3> QED
      BY <2>7, <3>5
  <2>10. ASSUME NEW g \in DOMAIN all  PROVE ToSet(all[g]) \subseteq ToSet(scns)
    <3>0. g \in 1..n /\ g \in 0..n
      BY <2>2, <2>5
    <3>1. p[g - 1] + 1 \in Nat /\ p[g - 1] + 1 >= 1 /\ p[g] \in Nat
      BY <2>8, <3>0
    <3>2. p[g] <= Len(scns)
      BY <2>9, <3>0 DEF N
    <3>3. all[g] = SubSeq(scns, p[g - 1] + 1, p[g])
      BY <2>8, <3>0
    <3> QED
      BY <3>1, <3>2, <3>3, ListedPart
  <2>11. ASSUME NEW x \in ToSet(scns)  PROVE \E g \in DOMAIN all : x \in ToSet(all[g])
    <3>1. PICK i \in 1..N : x = scns[i]
      BY <2>2 DEF ToSet
    <3> DEFINE T == {k \in Nat : k <= n /\ i <= p[k] => \E g \in 1..k : p[g - 1] < i /\ i <= p[g]}
    <3>2. 0 \in T
      BY <2>2, <2>3
    <3>3. ASSUME NEW k \in Nat, k \in T  PROVE k + 1 \in T
      <4>1. SUFFICES ASSUME k + 1 <= n, i <= p[k + 1]  PROVE \E g \in 1..(k + 1) : p[g - 1] < i /\ i <= p[g]
        OBVIOUS
      <4>2. k + 1 \in 1..(k + 1) /\ (k + 1) - 1 = k /\ k \in 0..n /\ p[k] \in Nat /\ i \in Nat
        BY <2>2, <2>3, <4>1
      <4>3. CASE p[k] < i
        BY <4>1, <4>2, <4>3
      <4>4. CASE i <= p[k]
        <5>1. PICK g \in 1..k : p[g - 1] < i /\ i <= p[g]
          BY <2>2, <3>3, <4>1, <4>4
        <5>2. g \in 1..(k + 1)
          OBVIOUS
        <5> QED
          BY <5>1, <5>2
      <4> QED
        BY <4>2, <4>3, <4>4
    <3>4. Nat \subseteq T
      <4> HIDE DEF T
      <4> QED
        BY <3>2, <3>3, SetInduction
    <3>5. n <= n /\ i <= p[n]
      BY <2>2, <2>7
    <3>6. PICK g \in 1..n : p[g - 1] < i /\ i <= p[g]
      BY <2>2, <3>4, <3>5
    <3>7. p[g - 1] \in Nat /\ p[g] \in Nat /\ p[g] <= Len(scns) /\ all[g] = SubSeq(scns, p[g - 1] + 1, p[g])
      <4>1. g \in 0..n
        BY <2>2
      <4> QED
        BY <2>8, <2>9, <4>1 DEF N
    <3>8. i \in (p[g - 1] + 1)..p[g]
      BY <2>2, <3>6, <3>7
    <3>9. scns[i] \in ToSet(all[g])
      BY <3>7, <3>8, PartOf
    <3> QED
      BY <2>5, <3>1, <3>9
  <2>12. Listed(all)
    BY <2>2, <2>5, <2>6, ListedFunction
  <2> QED
    BY <2>10, <2>11, <2>12 DEF Dealt
<1> QED
  BY <1>1, <1>2

\* A design task keeps what is designed joined, and links the next requirements.
LEMMA DesignGrows == ASSUME DesignInv, DesignTask  PROVE DesignInv'
<1>1. profile = "efficient" /\ step = "design" /\ profile' = profile /\ designed < Len(bundle.reqs)
  BY DEF DesignTask
<1>2. /\ Suited(bundle) /\ Joined(bundle) /\ Within(bundle.reqs) /\ designed \in 0..Len(bundle.reqs)
      /\ 1..designed \subseteq Links(bundle.scns) \cap Links(bundle.tests)
  BY <1>1 DEF DesignInv
<1>3. PICK few \in FirstGroups(SubSeq(bundle.reqs, designed + 1, Len(bundle.reqs)), DesignBatch) :
        \E scns \in ScenarioAnswers(Ids(few)) :
          LET tests == [i \in DOMAIN scns |-> TestCase(i, i, scns[i].reqs)] IN
          /\ ScenarioBatchOK(scns, Ids(few)) /\ WriterCasesOK(tests, scns)
          /\ bundle' = AppendBatch(bundle, scns, tests)
          /\ designed' = designed + Len(few)
  BY <1>1 DEF DesignTask
<1>4. PICK scns \in ScenarioAnswers(Ids(few)) :
        LET tests == [i \in DOMAIN scns |-> TestCase(i, i, scns[i].reqs)] IN
        /\ ScenarioBatchOK(scns, Ids(few)) /\ WriterCasesOK(tests, scns)
        /\ bundle' = AppendBatch(bundle, scns, tests)
        /\ designed' = designed + Len(few)
  BY <1>3
<1> DEFINE tests == [i \in DOMAIN scns |-> TestCase(i, i, scns[i].reqs)]
           N == Len(bundle.reqs)
<1>5. ScenarioBatchOK(scns, Ids(few)) /\ bundle' = AppendBatch(bundle, scns, tests) /\ designed' = designed + Len(few)
  BY <1>4
<1>6. N \in Nat /\ DOMAIN bundle.reqs = 1..N /\ designed \in Nat
  BY <1>2, ListedIs DEF Suited
<1>7. PICK m \in Nat \ {0} : /\ designed + m <= N /\ DOMAIN few = 1..m /\ Len(few) = m
                             /\ \A i \in 1..m : few[i] = bundle.reqs[designed + i]
  <2>1. DesignBatch \in Nat \ {0}
    BY DraftingAssumption
  <2> DEFINE items == bundle.reqs
  <2>2. /\ Len(items) \in Nat /\ designed \in 0..Len(items) /\ designed < Len(items)
        /\ few \in FirstGroups(SubSeq(items, designed + 1, Len(items)), DesignBatch)
    BY <1>1, <1>2, <1>3, <1>6
  <2> HIDE DEF items
  <2>3. \E m \in Nat \ {0} : /\ designed + m <= Len(items) /\ DOMAIN few = 1..m /\ Len(few) = m
                            /\ \A i \in 1..m : few[i] = items[designed + i]
    <3>1. /\ Len(few) \in Nat \ {0} /\ designed + Len(few) <= Len(items) /\ DOMAIN few = 1..Len(few)
          /\ \A i \in 1..Len(few) : few[i] = items[designed + i]
      BY <2>1, <2>2, NextMany
    <3> QED
      BY <3>1
  <2> QED
    BY <2>3 DEF items
<1>8. \A i \in 1..m : designed + i \in 1..N
  <2> HIDE DEF N
  <2> QED
    BY <1>6, <1>7
<1>9. \A r : r \in Ids(few) <=> \E i \in 1..m : r = designed + i
  <2>1. \A i \in 1..N : bundle.reqs[i].id = i
    BY <1>2, <1>6 DEF Joined, Counted
  <2>2. \A i \in 1..m : few[i].id = designed + i
    <3> HIDE DEF N
    <3> QED
      BY <1>7, <1>8, <2>1
  <2> QED
    BY <1>7, <2>2 DEF Ids, ToSet
<1>10. Ids(few) \subseteq DOMAIN bundle.reqs
  <2> HIDE DEF N
  <2> QED
    BY <1>6, <1>8, <1>9
<1>11. /\ Listed(tests) /\ DOMAIN tests = DOMAIN scns
       /\ \A i \in DOMAIN scns : tests[i] = TestCase(i, i, scns[i].reqs)
  <2>1. Listed(scns)
    BY ScenarioAnswer
  <2>2. Len(scns) \in Nat /\ DOMAIN tests = 1..Len(scns) /\ tests = [i \in 1..Len(scns) |-> tests[i]]
    BY <2>1, ListedIs
  <2>3. Listed(tests)
    <3> HIDE DEF tests
    <3> QED
      BY <2>2, ListedFunction
  <2> QED
    BY <2>3
<1> HIDE DEF tests
<1>12. /\ Suited(bundle') /\ bundle'.reqs = bundle.reqs /\ Joined(bundle')
       /\ Links(bundle'.scns) = Links(bundle.scns) \cup Ids(few)
       /\ Links(bundle'.tests) = Links(bundle.tests) \cup Ids(few)
  BY <1>2, <1>5, <1>10, <1>11, DesignsJoined
<1>13. designed' \in 0..Len(bundle'.reqs)
  <2>1. designed + m \in 0..N
    <3> HIDE DEF N
    <3> QED
      BY <1>6, <1>7
  <2> QED
    BY <1>5, <1>7, <1>12, <2>1
<1>14. 1..designed' \subseteq Links(bundle'.scns) \cap Links(bundle'.tests)
  <2>1. ASSUME NEW r \in 1..(designed + m)  PROVE r \in 1..designed \/ r \in Ids(few)
    <3>1. CASE r <= designed
      BY <1>6, <3>1
    <3>2. CASE r > designed
      <4>1. r - designed \in 1..m /\ r = designed + (r - designed)
        BY <1>6, <1>7, <3>2
      <4> QED
        BY <1>9, <4>1
    <3> QED
      BY <1>6, <3>1, <3>2
  <2> QED
    BY <1>2, <1>5, <1>7, <1>12, <2>1
<1> QED
  BY <1>2, <1>12, <1>13, <1>14 DEF DesignInv

\* The requirements as a suite are numbered, and nothing else is there.
LEMMA HandedJoined ==
    ASSUME NEW list
    PROVE  /\ Joined(AsSuite(list)) /\ Whole(AsSuite(list)) /\ Counted(AsSuite(list).reqs)
           /\ Within(list) => Within(AsSuite(list).reqs)
<1> DEFINE rs == [i \in DOMAIN list |-> Requirement(i, list[i].deps)]
<1>1. AsSuite(list) = [reqs |-> rs, scns |-> <<>>, tests |-> <<>>]
  BY DEF AsSuite, EmptySuite
<1>2. DOMAIN rs = DOMAIN list /\ \A i \in DOMAIN list : rs[i].id = i /\ rs[i].cites = 0 /\ rs[i].deps = list[i].deps
  BY DEF Requirement
<1>3. DOMAIN <<>> = {}
  OBVIOUS
<1> HIDE DEF rs
<1>4. Counted(rs)
  BY <1>2 DEF Counted
<1>5. Joined(AsSuite(list))
  BY <1>1, <1>3, <1>4 DEF Joined, Counted
<1>6. Whole(AsSuite(list)) /\ AsSuite(list).reqs = rs
  BY <1>1 DEF Whole
<1>7. Within(list) => Within(rs)
  BY <1>2 DEF Within
<1> QED
  BY <1>4, <1>5, <1>6, <1>7

\* The corrected pipeline's architect is given numbered requirements.
HandedInv == profile = "corrected" /\ step = "design" => Whole(bundle) /\ Counted(bundle.reqs)

\* Its writers share the scenarios of all requirements; who has ended has cases
\* that passed the checks of its share.
WritingInv == step = "write" =>
    /\ profile = "corrected" /\ Whole(bundle) /\ Counted(bundle.reqs) /\ Counted(bundle.scns)
    /\ Links(bundle.scns) = DOMAIN bundle.reqs
    /\ Dealt(bundle.scns, shares) /\ DOMAIN written = DOMAIN shares /\ written = [g \in DOMAIN shares |-> written[g]]
    /\ \A g \in DOMAIN shares : written[g] = None \/ (written[g] \in TestAnswers(shares[g]) /\ WriterCasesOK(written[g], shares[g]))

\* What they leave is joined, and links every requirement.
WrittenInv == profile = "corrected" /\ step = "review" /\ critiques = 0 =>
    Joined(bundle) /\ DOMAIN bundle.reqs \subseteq Links(bundle.scns) \cap Links(bundle.tests)

\* The requirements handed on are where designs begin.
LEMMA HandedDesigns ==
    ASSUME CurationInv, DepsInv, UndesignedInv, HandOver, UNCHANGED drafting
    PROVE  DesignInv' /\ HandedInv'
<1>1. step = "curated" /\ profile' = profile /\ bundle' = AsSuite(reqs) /\ designed' = 0 /\ designed = 0
  BY DEF HandOver, UndesignedInv, Curating, drafting
<1>2. Joined(bundle') /\ Whole(bundle') /\ Counted(bundle'.reqs) /\ (Within(reqs) => Within(bundle'.reqs))
  BY <1>1, HandedJoined
<1>3. ASSUME profile = "efficient"
      PROVE  /\ Suited(bundle') /\ Within(bundle'.reqs) /\ designed' \in 0..Len(bundle'.reqs)
             /\ 1..designed' \subseteq Links(bundle'.scns) \cap Links(bundle'.tests)
  <2>1. reqs \in Seq(Curated) /\ Within(reqs)
    BY <1>1, <1>3 DEF CurationInv, DecidedInv, DepsInv
  <2>2. Suited(bundle')
    BY <1>1, <2>1, HandedSuited
  <2>3. Len(bundle'.reqs) \in Nat
    BY <2>2, ListedIs DEF Suited
  <2>4. 0 \in 0..Len(bundle'.reqs) /\ 1..0 = {}
    BY <2>3
  <2> QED
    BY <1>1, <1>2, <2>1, <2>2, <2>4
<1> QED
  BY <1>1, <1>2, <1>3 DEF DesignInv, HandedInv

\* The architect's scenarios are of the requirements, and all of them are shared
\* out.
LEMMA ArchitectShares == ASSUME HandedInv, Architect  PROVE WritingInv'
<1> SUFFICES ASSUME step' = "write"  PROVE WritingInv'
  BY DEF WritingInv
<1>1. profile = "corrected" /\ step = "design" /\ profile' = profile /\ written' = [g \in DOMAIN shares' |-> None]
  BY DEF Architect
<1>2. PICK scns \in ScenarioAnswers(Ids(bundle.reqs)) :
        /\ ScenarioBatchOK(scns, Ids(bundle.reqs)) /\ bundle' = [bundle EXCEPT !.scns = scns] /\ shares' \in SharesOf(scns)
  BY DEF Architect
<1>3. Whole(bundle) /\ Counted(bundle.reqs) /\ Ids(bundle.reqs) = DOMAIN bundle.reqs
  <2>1. Whole(bundle) /\ Counted(bundle.reqs)
    BY <1>1 DEF HandedInv
  <2> QED
    BY <2>1, CountedMeans
<1>4. bundle' = [reqs |-> bundle.reqs, scns |-> scns, tests |-> bundle.tests]
  BY <1>2, <1>3 DEF Whole
<1>5. Whole(bundle') /\ bundle'.reqs = bundle.reqs /\ bundle'.scns = scns
  BY <1>4 DEF Whole
<1>6. Listed(scns) /\ \A i \in DOMAIN scns : scns[i] = Scenario(i, scns[i].reqs)
  BY ScenarioAnswer
<1>7. Counted(scns)
  BY <1>6 DEF Counted, Scenario
<1>8. Links(scns) = DOMAIN bundle.reqs
  BY <1>2, <1>3 DEF ScenarioBatchOK
<1>9. Dealt(scns, shares')
  BY <1>2, <1>6, SharesCover
<1>10. DOMAIN written' = DOMAIN shares' /\ written' = [g \in DOMAIN shares' |-> written'[g]]
       /\ \A g \in DOMAIN shares' : written'[g] = None
  BY <1>1
<1> QED
  BY <1>1, <1>3, <1>5, <1>7, <1>8, <1>9, <1>10 DEF WritingInv

\* A writer that ends has cases that passed the checks.
LEMMA ShareWritten == ASSUME WritingInv, NEW g \in DOMAIN written, WriteTests(g)  PROVE WritingInv'
<1>1. step = "write" /\ profile' = profile /\ bundle' = bundle /\ shares' = shares
  BY DEF WriteTests
<1>2. PICK tests \in TestAnswers(shares[g]) : WriterCasesOK(tests, shares[g]) /\ written' = [written EXCEPT ![g] = tests]
  BY DEF WriteTests
<1>3. /\ profile = "corrected" /\ Whole(bundle) /\ Counted(bundle.reqs) /\ Counted(bundle.scns)
      /\ Links(bundle.scns) = DOMAIN bundle.reqs
      /\ Dealt(bundle.scns, shares) /\ DOMAIN written = DOMAIN shares /\ written = [h \in DOMAIN shares |-> written[h]]
      /\ \A h \in DOMAIN shares : written[h] = None \/ (written[h] \in TestAnswers(shares[h]) /\ WriterCasesOK(written[h], shares[h]))
  BY <1>1 DEF WritingInv
<1>4. /\ DOMAIN written' = DOMAIN shares /\ written' = [h \in DOMAIN shares |-> written'[h]]
      /\ \A h \in DOMAIN shares : written'[h] = IF h = g THEN tests ELSE written[h]
  BY <1>2, <1>3
<1>5. ASSUME NEW h \in DOMAIN shares
      PROVE  written'[h] = None \/ (written'[h] \in TestAnswers(shares[h]) /\ WriterCasesOK(written'[h], shares[h]))
  BY <1>2, <1>3, <1>4
<1> QED
  BY <1>1, <1>3, <1>4, <1>5 DEF WritingInv

\* The cases of all shares are joined to the scenarios, and link what they link.
LEMMA CasesAssembled == ASSUME WritingInv, Assemble  PROVE WrittenInv'
<1>1. step = "write" /\ \A g \in DOMAIN written : written[g] # None
  BY DEF Assemble
<1>2. /\ profile = "corrected" /\ Whole(bundle) /\ Counted(bundle.reqs) /\ Counted(bundle.scns)
      /\ Links(bundle.scns) = DOMAIN bundle.reqs
      /\ Dealt(bundle.scns, shares) /\ DOMAIN written = DOMAIN shares /\ written = [h \in DOMAIN shares |-> written[h]]
      /\ \A g \in DOMAIN shares : written[g] \in TestAnswers(shares[g]) /\ WriterCasesOK(written[g], shares[g])
  BY <1>1 DEF WritingInv
<1> DEFINE tests == FlattenSeq(written)
           cases == [i \in DOMAIN tests |-> [tests[i] EXCEPT !.id = i]]
           n == Len(shares)
           X == UNION {ToSet(written[g]) : g \in 1..n}
           scns == bundle.scns
<1>3. n \in Nat /\ DOMAIN shares = 1..n
  BY <1>2, ListedIs DEF Dealt
<1>4. bundle' = [reqs |-> bundle.reqs, scns |-> scns, tests |-> cases]
  <2>1. bundle' = [bundle EXCEPT !.tests = cases]
    BY Zenon DEF Assemble
  <2> HIDE DEF cases
  <2> QED
    BY <1>2, <2>1 DEF Whole
<1>5. written \in Seq(Seq(X)) /\ Len(written) = n
  <2>1. ASSUME NEW g \in 1..n  PROVE written[g] \in Seq(X)
    <3>1. Listed(written[g])
      BY <1>2, <1>3, AnswersListed
    <3>2. ToSet(written[g]) \subseteq X
      OBVIOUS
    <3> HIDE DEF X
    <3> QED
      BY <3>1, <3>2, SeqMonotonic DEF Listed
  <2> HIDE DEF X, n
  <2>2. written = [g \in 1..n |-> written[g]]
    BY <1>2, <1>3
  <2> QED
    BY <1>3, <2>1, <2>2
<1>6. tests \in Seq(X) /\ ToSet(tests) = X
  <2>1. ToSet(tests) = UNION {ToSet(written[g]) : g \in 1..Len(written)}
    <3> HIDE DEF X, n
    <3> QED
      BY <1>5, FlattenElements
  <2>2. <<>> \in Seq(X)
    OBVIOUS
  <2>3. tests \in Seq(X)
    <3> HIDE DEF X, n
    <3> QED
      BY <1>5, <2>2, FlattenAppend
  <2> QED
    BY <1>5, <2>1, <2>3
<1> HIDE DEF tests, n
<1>7. ASSUME NEW g \in 1..n, NEW t \in ToSet(written[g])
      PROVE  \E i, k, s : /\ t = [id |-> i, text |-> 0, cites |-> 0, scn |-> k, reqs |-> s]
                          /\ k \in DOMAIN scns /\ s \subseteq scns[k].reqs
  <2>1. PICK i \in DOMAIN written[g] : t = written[g][i]
    BY DEF ToSet
  <2>2. written[g] \in TestAnswers(shares[g]) /\ g \in DOMAIN shares
    BY <1>2, <1>3
  <2>3. PICK k, s : /\ t = [id |-> i, text |-> 0, cites |-> 0, scn |-> k, reqs |-> s]
                    /\ \E scn \in ToSet(shares[g]) : k = scn.id /\ s \subseteq scn.reqs
    <3> DEFINE mine  == written[g]
               share == shares[g]
    <3>1. mine \in TestAnswers(share) /\ t = mine[i] /\ i \in DOMAIN mine
      BY <2>1, <2>2
    <3> HIDE DEF mine, share
    <3>2. \A j \in DOMAIN mine :
            \E k, s : /\ mine[j] = [id |-> j, text |-> 0, cites |-> 0, scn |-> k, reqs |-> s]
                      /\ \E scn \in ToSet(share) : k = scn.id /\ s \subseteq scn.reqs
      BY <3>1, TestAnswer
    <3>3. \E k, s : /\ t = [id |-> i, text |-> 0, cites |-> 0, scn |-> k, reqs |-> s]
                    /\ \E scn \in ToSet(share) : k = scn.id /\ s \subseteq scn.reqs
      BY <3>1, <3>2
    <3> QED
      BY <3>3 DEF share
  <2>4. PICK scn \in ToSet(shares[g]) : k = scn.id /\ s \subseteq scn.reqs
    BY <2>3
  <2>5. scn \in ToSet(scns)
    BY <1>2, <2>2 DEF Dealt
  <2>6. PICK j \in DOMAIN scns : scn = scns[j]
    BY <2>5 DEF ToSet
  <2>7. scn.id = j
    BY <1>2, <2>6 DEF Counted
  <2> QED
    BY <2>3, <2>4, <2>6, <2>7
<1>8. ASSUME NEW j \in DOMAIN tests
      PROVE  /\ cases[j].id = j /\ cases[j].cites = 0 /\ cases[j].scn = tests[j].scn /\ cases[j].reqs = tests[j].reqs
             /\ cases[j].scn \in DOMAIN scns /\ cases[j].reqs \subseteq scns[cases[j].scn].reqs
  <2>1. tests[j] \in X
    BY <1>6 DEF ToSet
  <2>2. PICK g \in 1..n : tests[j] \in ToSet(written[g])
    BY <2>1
  <2>3. PICK i, k, s : /\ tests[j] = [id |-> i, text |-> 0, cites |-> 0, scn |-> k, reqs |-> s]
                       /\ k \in DOMAIN scns /\ s \subseteq scns[k].reqs
    BY <1>7, <2>2
  <2>4. cases[j] = [tests[j] EXCEPT !.id = j]
    OBVIOUS
  <2> HIDE DEF cases, scns
  <2> QED
    BY <2>3, <2>4
<1>9. DOMAIN cases = DOMAIN tests
  OBVIOUS
<1>10. ASSUME NEW k \in DOMAIN scns
       PROVE  scns[k].reqs \subseteq DOMAIN bundle.reqs /\ \E j \in DOMAIN tests : tests[j].scn = k
  <2>1. scns[k].reqs \subseteq Links(scns)
    BY LinksAre
  <2>2. PICK g \in DOMAIN shares : scns[k] \in ToSet(shares[g])
    BY <1>2 DEF Dealt, ToSet
  <2>3. k \in Ids(shares[g])
    <3>1. scns[k].id = k
      BY <1>2 DEF Counted
    <3> QED
      BY <2>2, <3>1 DEF Ids
  <2>4. {t.scn : t \in ToSet(written[g])} = Ids(shares[g])
    BY <1>2 DEF WriterCasesOK
  <2>5. PICK t \in ToSet(written[g]) : t.scn = k
    BY <2>3, <2>4
  <2>6. t \in ToSet(tests)
    BY <1>3, <1>6
  <2> QED
    BY <1>2, <2>1, <2>5, <2>6 DEF ToSet
<1>11. Links(cases) = DOMAIN bundle.reqs
  <2>1. \A r : r \in Links(cases) <=> \E j \in DOMAIN tests : r \in tests[j].reqs
    <3>1. \A r : r \in Links(cases) <=> \E j \in DOMAIN cases : r \in cases[j].reqs
      BY LinksAre
    <3> HIDE DEF cases
    <3> QED
      BY <1>8, <1>9, <3>1
  <2>2. ASSUME NEW j \in DOMAIN tests  PROVE tests[j].reqs \subseteq DOMAIN bundle.reqs
    <3>1. tests[j].scn \in DOMAIN scns /\ tests[j].reqs \subseteq scns[tests[j].scn].reqs
      <4> HIDE DEF cases, scns
      <4> QED
        BY <1>8
    <3> HIDE DEF scns
    <3> QED
      BY <1>10, <3>1
  <2>3. ASSUME NEW r \in DOMAIN bundle.reqs  PROVE \E j \in DOMAIN tests : r \in tests[j].reqs
    <3>1. PICK k \in DOMAIN scns : r \in scns[k].reqs
      BY <1>2, LinksAre
    <3>2. PICK g \in DOMAIN shares : scns[k] \in ToSet(shares[g])
      BY <1>2 DEF Dealt, ToSet
    <3>3. r \in Links(shares[g])
      BY <3>1, <3>2 DEF Links
    <3>4. Links(written[g]) = Links(shares[g])
      BY <1>2 DEF WriterCasesOK
    <3>5. PICK t \in ToSet(written[g]) : r \in t.reqs
      BY <3>3, <3>4 DEF Links
    <3>6. t \in ToSet(tests)
      BY <1>3, <1>6
    <3> QED
      BY <3>5, <3>6 DEF ToSet
  <2> HIDE DEF cases
  <2> QED
    BY <2>1, <2>2, <2>3
<1> HIDE DEF cases, X
<1>12. Joined(bundle')
  <2>1. Counted(bundle.reqs) /\ Counted(scns) /\ Counted(cases)
    BY <1>2, <1>8, <1>9 DEF Counted
  <2>2. \A i \in DOMAIN scns : scns[i].reqs \subseteq DOMAIN bundle.reqs /\ \E j \in DOMAIN cases : cases[j].scn = i
    <3> HIDE DEF scns
    <3> QED
      BY <1>8, <1>9, <1>10
  <2>3. \A j \in DOMAIN cases : cases[j].scn \in DOMAIN scns /\ cases[j].reqs \subseteq scns[cases[j].scn].reqs
    BY <1>8, <1>9
  <2>4. bundle'.reqs = bundle.reqs /\ bundle'.scns = scns /\ bundle'.tests = cases
    BY <1>4
  <2> HIDE DEF scns
  <2> QED
    BY <2>1, <2>2, <2>3, <2>4 DEF Joined
<1>13. Links(bundle'.scns) = DOMAIN bundle'.reqs /\ Links(bundle'.tests) = DOMAIN bundle'.reqs
  BY <1>2, <1>4, <1>11
<1> QED
  BY <1>12, <1>13 DEF WrittenInv

\* The stages of a single agent: each adds a list that its check passed, and the
\* last ties the suite together.
StagedInv ==
    /\ step \in {"scenarios", "tests"} => profile = "staged" /\ Whole(bundle) /\ StagedOK(bundle.reqs)
    /\ step = "tests" => StagedOK(bundle.scns) /\ Links(bundle.scns) = Ids(bundle.reqs)
    /\ profile = "staged" /\ step = "check" => Tied(bundle)

\* So does every step of the stages.
LEMMA StagesTied ==
    ASSUME StagedInv, StagedRequirements \/ StagedScenarios \/ StagedTests
    PROVE  StagedInv'
<1> USE DEF Claim
<1>1. CASE StagedRequirements
  <2>1. PICK suite \in RawSuites : StagedOK(suite.reqs) /\ bundle' = [EmptySuite EXCEPT !.reqs = suite.reqs]
    BY <1>1 DEF StagedRequirements
  <2>2. bundle' = [reqs |-> suite.reqs, scns |-> <<>>, tests |-> <<>>]
    BY <2>1 DEF EmptySuite
  <2>3. Whole(bundle') /\ bundle'.reqs = suite.reqs
    BY <2>2 DEF Whole
  <2>4. profile' = "staged" /\ step' \in {"scenarios", "conflict"}
    BY <1>1 DEF StagedRequirements
  <2> QED
    BY <2>1, <2>3, <2>4 DEF StagedInv
<1>2. CASE StagedScenarios
  <2>1. step = "scenarios" /\ profile' = profile /\ step' \in {"tests", "conflict"}
    BY <1>2 DEF StagedScenarios
  <2>2. PICK scns \in ScenarioAnswers(Ids(bundle.reqs)) :
          StagedOK(scns) /\ ScenarioBatchOK(scns, Ids(bundle.reqs)) /\ bundle' = [bundle EXCEPT !.scns = scns]
    BY <1>2 DEF StagedScenarios
  <2>3. profile = "staged" /\ Whole(bundle) /\ StagedOK(bundle.reqs)
    BY <2>1 DEF StagedInv
  <2>4. bundle' = [reqs |-> bundle.reqs, scns |-> scns, tests |-> bundle.tests]
    BY <2>2, <2>3 DEF Whole
  <2>5. Whole(bundle') /\ bundle'.reqs = bundle.reqs /\ bundle'.scns = scns
    BY <2>4 DEF Whole
  <2>6. Links(scns) = Ids(bundle.reqs)
    BY <2>2 DEF ScenarioBatchOK
  <2> QED
    BY <2>1, <2>2, <2>3, <2>5, <2>6 DEF StagedInv
<1>3. CASE StagedTests
  <2>1. step = "tests" /\ profile' = profile /\ step' \in {"check", "conflict"}
    BY <1>3 DEF StagedTests
  <2>2. PICK tests \in TestAnswers(bundle.scns) :
          StagedOK(tests) /\ WriterCasesOK(tests, bundle.scns) /\ bundle' = [bundle EXCEPT !.tests = tests]
    BY <1>3 DEF StagedTests
  <2>3. Whole(bundle) /\ StagedOK(bundle.reqs) /\ StagedOK(bundle.scns) /\ Links(bundle.scns) = Ids(bundle.reqs)
    BY <2>1 DEF StagedInv
  <2> DEFINE reqs_ == bundle.reqs
             scns == bundle.scns
  <2>4. bundle' = [reqs |-> reqs_, scns |-> scns, tests |-> tests]
    BY <2>2, <2>3 DEF Whole
  <2>5. bundle'.reqs = reqs_ /\ bundle'.scns = scns /\ bundle'.tests = tests
    BY <2>4
  <2>6. \A kind \in Kinds : StagedOK(List(bundle', kind))
    BY <2>2, <2>3, <2>5 DEF Kinds, List
  <2>7. \A s \in ToSet(scns) : s.reqs \subseteq Ids(reqs_) /\ \E t \in ToSet(tests) : t.scn = s.id
    <3>1. ASSUME NEW s \in ToSet(scns)  PROVE s.reqs \subseteq Ids(reqs_)
      BY <2>3 DEF Links
    <3>2. ASSUME NEW s \in ToSet(scns)  PROVE \E t \in ToSet(tests) : t.scn = s.id
      <4>1. s.id \in Ids(scns)
        BY DEF Ids
      <4>2. {t.scn : t \in ToSet(tests)} = Ids(scns)
        BY <2>2 DEF WriterCasesOK
      <4> QED
        BY <4>1, <4>2
    <3> QED
      BY <3>1, <3>2
  <2>8. \A t \in ToSet(tests) : \E s \in ToSet(scns) : t.scn = s.id /\ t.reqs \subseteq s.reqs
    <3> TAKE t \in ToSet(tests)
    <3>1. t.scn \in Ids(scns) /\ t.reqs \subseteq (CHOOSE s \in ToSet(scns) : s.id = t.scn).reqs
      BY <2>2 DEF WriterCasesOK
    <3>2. \E s \in ToSet(scns) : s.id = t.scn
      BY <3>1 DEF Ids
    <3> QED
      BY <3>1, <3>2
  <2>9. Ids(reqs_) \subseteq Links(scns) \cap Links(tests)
    BY <2>2, <2>3 DEF WriterCasesOK
  <2>10. Tied(bundle')
    <3> HIDE DEF reqs_, scns
    <3> QED
      BY <2>5, <2>6, <2>7, <2>8, <2>9 DEF Tied
  <2> QED
    BY <2>1, <2>10 DEF StagedInv
<1> QED
  BY <1>1, <1>2, <1>3

DraftInv == DepsInv /\ UndesignedInv /\ DesignInv /\ HandedInv /\ WritingInv /\ WrittenInv /\ StagedInv

\* Nothing is drafted before the requirements are curated.
LEMMA DraftInit == ASSUME Init  PROVE DraftInv
<1>1. step = "scout" /\ designed = 0
  BY DEF Init, InitDrafting
<1> QED
  BY <1>1 DEF DraftInv, DepsInv, UndesignedInv, DesignInv, HandedInv, WritingInv, WrittenInv, StagedInv

\* The curation's steps lead nowhere but to designs.
LEMMA CurateDrafts ==
    ASSUME CurationInv, DraftInv, DepsInv', Curate, UNCHANGED drafting
    PROVE  DraftInv'
<1>1. UndesignedInv /\ DepsInv /\ designed' = designed
  BY DEF DraftInv, drafting
<1>2. CASE HandOver
  <2>1. DesignInv' /\ HandedInv'
    BY <1>1, <1>2, HandedDesigns
  <2>2. step' = "design"
    BY <1>2 DEF HandOver
  <2> QED
    BY <2>1, <2>2 DEF DraftInv, UndesignedInv, WritingInv, WrittenInv, StagedInv, Curating
<1>3. CASE ~HandOver
  <2>1. step \in Curating /\ step' \notin {"design", "write", "review", "scenarios", "tests", "check"}
    BY <1>3 DEF Curating, Claim, Curate, Scout, SourceAudit, CheckOwnership, CurateBatch, CurateDone, RejectionAudit,
                RecheckDone, ScoutCorrected, Synthesize, DecideAll, Materialize, MaterializeDone
  <2>2. designed' = 0
    BY <1>1, <2>1 DEF UndesignedInv
  <2> QED
    BY <2>1, <2>2 DEF DraftInv, UndesignedInv, DesignInv, HandedInv, WritingInv, WrittenInv, StagedInv
<1> QED
  BY <1>2, <1>3

\* The steps of drafting.
LEMMA DraftGrows == ASSUME DraftInv, DepsInv', Draft  PROVE DraftInv'
<1> USE DEF Claim, Curating
<1>0. DesignInv /\ HandedInv /\ WritingInv
  BY DEF DraftInv
<1>1. CASE DesignTask
  <2>1. DesignInv'
    BY <1>0, <1>1, DesignGrows
  <2>2. step' \in {"design", "conflict"} /\ profile' = "efficient"
    BY <1>1 DEF DesignTask
  <2> QED
    BY <2>1, <2>2 DEF DraftInv, UndesignedInv, HandedInv, WritingInv, WrittenInv, StagedInv
<1>2. CASE DesignDone \/ SingleAnswer
  <2>1. /\ step' \in {"review", "failed", "check"} /\ (step' = "review" => profile' = "efficient")
        /\ step' = "check" => profile' = "single"
    BY <1>2 DEF DesignDone, SingleAnswer
  <2> QED
    BY <2>1 DEF DraftInv, UndesignedInv, DesignInv, HandedInv, WritingInv, WrittenInv, StagedInv
<1>3. CASE Architect
  <2>1. WritingInv'
    BY <1>0, <1>3, ArchitectShares
  <2>2. step' \in {"write", "conflict"}
    BY <1>3 DEF Architect
  <2> QED
    BY <2>1, <2>2 DEF DraftInv, UndesignedInv, DesignInv, HandedInv, WrittenInv, StagedInv
<1>4. CASE \E g \in DOMAIN written : WriteTests(g)
  <2>1. PICK g \in DOMAIN written : WriteTests(g)
    BY <1>4
  <2>2. WritingInv'
    BY <1>0, <2>1, ShareWritten
  <2>3. step' \in {"write", "conflict"}
    BY <2>1 DEF WriteTests
  <2> QED
    BY <2>2, <2>3 DEF DraftInv, UndesignedInv, DesignInv, HandedInv, WrittenInv, StagedInv
<1>5. CASE Assemble
  <2>1. WrittenInv'
    BY <1>0, <1>5, CasesAssembled
  <2>2. step' = "review"
    BY <1>5 DEF Assemble
  <2> QED
    BY <2>1, <2>2 DEF DraftInv, UndesignedInv, DesignInv, HandedInv, WritingInv, StagedInv
<1>6. CASE StagedRequirements \/ StagedScenarios \/ StagedTests
  <2>1. StagedInv'
    BY <1>6, StagesTied DEF DraftInv
  <2>2. step' \in {"scenarios", "tests", "check", "conflict"}
    BY <1>6 DEF StagedRequirements, StagedScenarios, StagedTests
  <2> QED
    BY <2>1, <2>2 DEF DraftInv, UndesignedInv, DesignInv, HandedInv, WritingInv, WrittenInv
<1> QED
  BY <1>1, <1>2, <1>3, <1>4, <1>5, <1>6 DEF Draft

\* No other step makes a first suite.
LEMMA OtherDrafts ==
    ASSUME ReviewStep \/ JudgeStep \/ Fail
    PROVE  step' \notin Curating \cup {"design", "write", "scenarios", "tests", "check"} /\ (step' = "review" => profile' = "efficient")
<1> USE DEF Claim, Curating
<1>1. CASE SkipCritic \/ CriticTask \/ CriticDone \/ NextRepair \/ Patch
  BY <1>1 DEF SkipCritic, CriticTask, CriticDone, NextRepair, Patch
<1>2. CASE GapScenarios \/ GapTargets \/ GapTests \/ GapDone \/ Verify
  BY <1>2 DEF GapScenarios, GapTargets, GapTests, GapDone, Verify
<1>3. CASE CritiqueSuite \/ RepairRole \/ RepairsDone \/ VerifyAll
  BY <1>3 DEF CritiqueSuite, RepairRole, RepairsDone, VerifyAll
<1>4. CASE LinkUncovered \/ Revise \/ Finish
  BY <1>4 DEF LinkUncovered, Revise, Finish
<1>5. CASE JudgeStep
  BY <1>5 DEF JudgeStep, LoadUnits, ExtractUnits, CatalogDone, StartEvaluation, EvaluationTask,
              NextUnits, Score, JudgeFails, run
<1>6. CASE Fail
  BY <1>6 DEF Fail
<1> QED
  BY <1>1, <1>2, <1>3, <1>4, <1>5, <1>6 DEF ReviewStep

\* So the first suite is as above in every behaviour.
LEMMA DraftInvKept == Spec => [](CurationInv /\ DraftInv)
<1>1. Init => DraftInv
  BY DraftInit
<1>2. CurationInv /\ DraftInv /\ [Next]_vars => DraftInv'
  <2> SUFFICES ASSUME CurationInv, DraftInv, [Next]_vars  PROVE DraftInv'
    OBVIOUS
  <2>1. DepsInv'
    BY DepsStep DEF DraftInv
  <2>2. CASE Curate /\ UNCHANGED <<drafting, review, judging>>
    BY <2>1, <2>2, CurateDrafts
  <2>3. CASE Draft
    BY <2>1, <2>3, DraftGrows
  <2>4. CASE ReviewStep \/ JudgeStep \/ Fail
    BY <2>1, <2>4, OtherDrafts DEF DraftInv, UndesignedInv, DesignInv, HandedInv, WritingInv, WrittenInv, StagedInv
  <2>5. CASE UNCHANGED vars
    <3>1. UNCHANGED <<profile, step, bundle, critiques, designed, shares, written>>
      BY <2>5 DEF vars, run, review, critic, drafting
    <3>2. UndesignedInv' /\ DesignInv' /\ HandedInv' /\ WrittenInv' /\ StagedInv'
      BY <3>1 DEF DraftInv, UndesignedInv, DesignInv, HandedInv, WrittenInv, StagedInv
    <3>3. WritingInv'
      BY <3>1 DEF DraftInv, WritingInv
    <3> QED
      BY <2>1, <3>2, <3>3 DEF DraftInv
  <2> QED
    BY <2>2, <2>3, <2>4, <2>5 DEF Next
<1> QED
  BY <1>1, <1>2, CurationKept, PTL DEF Spec

\* The tasks' own checks are enough for the whole: a suite of designs is valid
\* when every requirement has had its task (_design_tests), and one put together
\* by the corrected pipeline's writers or by the stages of a single agent has no fault
\* but dependencies that do not exist, or that it is empty, for every answer of the models and however the
\* requirements and scenarios are cut into tasks.
THEOREM DraftValid == Spec => []DraftIsValid
<1>1. DraftInv => DraftIsValid
  <2> SUFFICES ASSUME DraftInv  PROVE DraftIsValid
    OBVIOUS
  <2>1. ASSUME profile = "efficient", step = "design", designed = Len(bundle.reqs), designed > 0  PROVE Valid(bundle)
    <3>1. /\ Suited(bundle) /\ Joined(bundle) /\ Within(bundle.reqs)
          /\ 1..designed \subseteq Links(bundle.scns) \cap Links(bundle.tests)
      BY <2>1 DEF DraftInv, DesignInv
    <3>2. DOMAIN bundle.reqs = 1..designed
      BY <2>1, <3>1, ListedIs DEF Suited
    <3>3. bundle # EmptySuite
      <4>1. EmptySuite.reqs = <<>> /\ Len(<<>>) = 0
        BY DEF EmptySuite
      <4> QED
        BY <2>1, <4>1
    <3> QED
      BY <3>1, <3>2, <3>3, JoinedIssues
  <2>3. ASSUME profile = "staged", step = "check"
        PROVE  \A issue \in Issues(bundle) : issue[1] \in {"missing_dependency", "empty_bundle"}
    BY <2>3, TiedIssues DEF DraftInv, StagedInv
  <2>2. ASSUME profile = "corrected", step = "review", critiques = 0
        PROVE  \A issue \in Issues(bundle) : issue[1] \in {"missing_dependency", "empty_bundle"}
    <3>1. Joined(bundle) /\ DOMAIN bundle.reqs \subseteq Links(bundle.scns) \cap Links(bundle.tests)
      BY <2>2 DEF DraftInv, WrittenInv
    <3> QED
      BY <3>1, JoinedIssues
  <2> QED
    BY <2>1, <2>2, <2>3 DEF DraftIsValid
<1> QED
  BY <1>1, DraftInvKept, PTL
=============================================================================
