----------------------------- MODULE Generation -----------------------------
\* The generation of a suite by each workflow, from the document's chunks to
\* the outcome of the run: PIPELINES[run_type](context, chunks) and what
\* run_generation makes of its suite.  The phases follow each other; a task
\* that fails ends the run with context.partial_bundle as its draft.
EXTENDS Curation, Drafting, Review, Judging, StoredSuite

vars == <<run, curation, drafting, review, judging>>

Init == /\ InitPipeline /\ step = "scout"
        /\ InitCuration /\ InitDrafting /\ InitReview /\ InitJudging

\* Variant: the draft of an addition is not put back.
Restored_not == draft

\* The suite a failed task leaves: additions in progress are taken back.
Restored == IF step \in {"expand", "expand_tests"} THEN bundle ELSE draft

Asking == {"scout", "audit", "curate", "recheck", "materialize", "design", "write",
           "review", "patch", "repair", "expand", "expand_tests", "verify", "verify_all",
           "scenarios", "tests", "check", "revise"}

\* The error ends the workflow, and its locals with it.
Fail == /\ step \in Asking
        /\ step' = "failed" /\ draft' = Restored
        /\ NoCuration /\ NoDrafting /\ NoReview
        /\ UNCHANGED <<profile, rows, bundle, judging>>

Next ==
    \/ Curate /\ UNCHANGED <<drafting, review, judging>>
    \/ Draft /\ UNCHANGED <<curation, review, judging>>
    \/ ReviewStep /\ UNCHANGED <<curation, drafting, judging>>
    \/ JudgeStep /\ UNCHANGED <<curation, drafting, review>>
    \/ Fail

Spec == Init /\ [][Next]_vars
-----------------------------------------------------------------------------
\* Each chunk is one scout's to extract from and is disposed of by it, in
\* order; the corrected pipeline's scouts see one more chunk as context.
SourcesOwnedOnce ==
    /\ step = "owned" => disposed = Chunks
    /\ profile = "corrected" /\ step = "scout" =>
         FlattenSeq([g \in DOMAIN Groups |-> IF g = 1 \/ Groups[g] = <<>> THEN Groups[g] ELSE Tail(Groups[g])]) = Chunks

\* No candidate is lost, and none is used twice: when the requirements are
\* handed on, every candidate's citations are in exactly one requirement, or it
\* was rejected, and in the efficient pipeline its rejection audited.
CandidatesAccounted ==
    step = "curated" =>
        \A c \in ToSet(Candidates) :
            LET carriers == {r \in DOMAIN reqs : c \in reqs[r].sources}
                dropped  == IF profile = "efficient" THEN audited ELSE rejected
            IN  Cardinality(carriers) = IF c \in dropped THEN 0 ELSE 1

\* The tasks' own checks are enough for the whole: a suite put together from
\* answers that passed them is valid, except that the corrected pipeline's curator
\* and a staged agent may name dependencies that do not exist, or keep no
\* requirement.
DraftIsValid ==
    /\ profile = "efficient" /\ step = "design" /\ designed = Len(bundle.reqs) /\ designed > 0 => Valid(bundle)
    /\ (profile = "corrected" /\ step = "review" /\ critiques = 0) \/ (profile = "staged" /\ step = "check") =>
         \A issue \in Issues(bundle) : issue[1] \in {"missing_dependency", "empty_bundle"}

\* No two tasks of a run have one identity, whatever is split, added or
\* verified, in whichever order.
RowsDistinct == step # "conflict"

\* A run that completes has every finding of its critic resolved, by a
\* verification that saw the targets as the run returns them.
AcceptedIsVerified ==
    step = "completed" =>
        \A f \in ToSet(report) : \E j \in judged :
            j.finding = f.id /\ \A key \in f.on : j.seen[key] = Artifact(bundle, key)

\* A run that fails once its suite is under review keeps all of the suite.
DraftKept ==
    step = "failed" /\ critiques > 0 => Keys(bundle) \subseteq Keys(draft)

\* What the validator and the matrix say of a suite agree, and a suite without
\* issues has full coverage in every metric and no orphan.
ValidIsTraceable ==
    step = "finish" =>
        LET m == Metrics(bundle) IN
        /\ Uncovered(bundle) = {Matrix(bundle)[i].requirement : i \in {j \in DOMAIN bundle.reqs : ~Matrix(bundle)[j].covered}}
        /\ Valid(bundle) =>
             /\ \A ratio \in {m.scenarioCoverage, m.testCoverage, m.citationCoverage, m.rtmCompleteness} :
                  ratio[1] = ratio[2]
             /\ m.orphanRate[1] = 0

Kept(suite)     == LoadBundle(InsertBundle(suite)) = suite
Checked(result) == \A r \in {result} : \A tables \in {InsertValidation(r)} : LoadValidation(tables) = r

\* Whatever a run may end with, also a draft that uses an id twice, is read back
\* as it was, and so is what the validator says of the suite it returns.
StoredAsReturned ==
    [][/\ bundle' # bundle => Kept(bundle')
       /\ draft' \notin {draft, bundle'} => Kept(draft')
       /\ step' = "finish" => Checked(Report(bundle'))]_vars

\* A score is of the whole: what the document states is one unit each, every
\* test case was tried on every unit, a unit or a test case counts as missed only
\* if no answer says otherwise, and only a score that misses nothing is perfect.
ScoredInFull ==
    score # None =>
        LET ids  == Ids(bundle.tests)
            hits == {v \in verdicts : v[3]}
        IN  /\ Len(units) = Cardinality(stated) /\ ToSet(units) = stated
            /\ {<<v[1], v[2]>> : v \in verdicts} = ids \X stated
            /\ score.uncovered = {u \in DOMAIN units : \A v \in hits : v[2] # units[u]}
            /\ score.unmapped = {id \in ids : \A v \in hits : v[1] # id}
            /\ score.f1[1] <= score.f1[2]
            /\ score.f1[1] = score.f1[2] <=> score.falsePositives = 0 /\ score.falseNegatives = 0 /\ ids # {}

\* Linking what is uncovered adds no issue to a suite.
LinkingAddsNoIssue == [][step = "check" => Issues(bundle') \subseteq Issues(bundle)]_vars
=============================================================================
