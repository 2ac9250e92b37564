------------------------------ MODULE Curation ------------------------------
\* From the document to the canonical requirements: scouts and source audits,
\* the curator, and in the efficient pipeline the audit of what it rejected
\* (efficient.run_efficient_pipeline and _curate; pipelines
\* run_centralized_multi_agent and _run_curator).
\*
\* A candidate is the number of its scout and its own; it stands for the
\* citations it brings.  A requirement is [sources, deps]: the candidates whose
\* citations it carries, and the requirements it says it depends on.
EXTENDS Pipeline

CONSTANTS
    Documents,      \* sequences of chunk sizes
    ChunkLimit,     \* size of a scout's share (6_000 characters)
    ScoutCount,     \* scouts of the corrected pipeline at least: WORKER_COUNT, or 0 with
                    \* a local provider (bounded_tasks)
    CuratorBatch,   \* candidates in a curator task (48)
    PeerLimit,      \* requirements a candidate may be merged into (8)
    RejectBatch,    \* rejected candidates in an audit (10)
    RejectBase,     \* task index of the first of these audits (1_000_000)
    SinglePassMax,  \* candidates the corrected curator takes at once (100)
    MaterializeMax, \* requirements it writes in one task otherwise (24)
    MaxCandidates,   \* bound: candidates
    MaxRequirements, \* bound: requirements
    MaxDependencies, \* bound: dependencies that a curator gives a requirement
    MaxDependents    \* bound: requirements that have dependencies

ASSUME DocumentsAssumption == Documents \subseteq Seq(Nat \ {0}) \ {<<>>}
ASSUME LimitsAssumption ==
    /\ ChunkLimit \in Nat \ {0} /\ CuratorBatch \in Nat \ {0} /\ RejectBatch \in Nat \ {0}
    /\ PeerLimit \in Nat /\ RejectBase \in Nat /\ SinglePassMax \in Nat /\ MaterializeMax \in Nat \ {0}
    /\ ScoutCount \in Nat /\ MaxCandidates \in Nat /\ MaxRequirements \in Nat
    /\ MaxDependencies \in Nat /\ MaxDependents \in Nat

\* None is not what a scout may find.
ASSUME NoneAssumption == None \notin Seq(Nat \X Nat)

VARIABLES
    document,  \* the sizes of the document's chunks
    disposed,  \* source_dispositions: chunks in the order they were disposed of
    doubt,     \* the last scout called a chunk unresolved
    found,     \* what each scout found: candidates, or None
    pending,   \* candidates that await the efficient curator
    assigned,  \* decisions of the corrected curator: a requirement for each
               \* candidate, 0 if it is rejected
    reqs,      \* the requirements so far
    rejected,  \* candidates that recorded curator decisions reject
    audited    \* rejected candidates whose rejection was audited

extraction == <<document, disposed, doubt, found>>
decisions  == <<pending, assigned, reqs, rejected, audited>>
curation   == <<extraction, decisions>>

Chunks == [c \in DOMAIN document |-> c]
Padding(groups) == [g \in 1..(ScoutCount - Len(groups)) |-> <<>>]

\* The chunks of each scout.
Groups ==
    IF profile = "efficient" THEN BoundedGroups(Chunks, document, ChunkLimit)
    ELSE LET groups == EvidenceGroups(Chunks, document, ChunkLimit)
         IN  IF Len(groups) < ScoutCount THEN groups \o Padding(groups) ELSE groups

Candidates == FlattenSeq(found)
Scouted    == \A g \in DOMAIN found : found[g] # None
NextScout  == CHOOSE g \in DOMAIN found : found[g] = None /\ \A h \in 1..(g - 1) : found[h] # None
LastScout  == IF Scouted THEN Len(found) ELSE NextScout - 1

Total == Len(FlattenSeq([g \in DOMAIN found |-> IF found[g] = None THEN <<>> ELSE found[g]]))

InitCuration ==
    /\ document \in IF profile \in {"single", "staged"} THEN {<<1>>} ELSE Documents
    /\ disposed = <<>> /\ doubt = FALSE
    /\ found = [g \in DOMAIN Groups |-> None]
    /\ pending = <<>> /\ assigned = <<>> /\ reqs = <<>>
    /\ rejected = {} /\ audited = {}

NoCuration ==
    /\ document' = <<>> /\ disposed' = <<>> /\ doubt' = FALSE /\ found' = <<>>
    /\ pending' = <<>> /\ assigned' = <<>> /\ reqs' = <<>>
    /\ rejected' = {} /\ audited' = {}
-----------------------------------------------------------------------------
\* As many candidates as a scout of some chunks may find.
FindsFrom(chunks) == IF chunks = <<>> THEN {0} ELSE 0..MaxCandidates

\* A scout of the efficient pipeline, one after the other; every chunk has a
\* disposition and a candidate cites one of the scout's own (_validate_extraction).
Scout ==
    /\ profile = "efficient" /\ step = "scout" /\ ~Scouted
    /\ \E n \in FindsFrom(Groups[NextScout]), unresolved \in BOOLEAN :
         /\ Total + n <= MaxCandidates
         /\ found' = [found EXCEPT ![NextScout] = [i \in 1..n |-> <<NextScout, i>>]]
         /\ doubt' = unresolved
    /\ disposed' = disposed \o Groups[NextScout]
    /\ Claim(Halves("scout", 3 * (NextScout - 1)), "audit")
    /\ UNCHANGED <<profile, bundle, draft, document, decisions>>

\* The audit of its chunks may add candidates; all are numbered again.
SourceAudit ==
    /\ step = "audit"
    /\ \E missing \in 0..MaxCandidates, unresolved \in BOOLEAN :
         /\ Total + missing <= MaxCandidates
         /\ IF unresolved \/ doubt
              THEN Claim(Halves("source_audit", 3 * (LastScout - 1)), "failed") /\ UNCHANGED found
              ELSE /\ Claim(Halves("source_audit", 3 * (LastScout - 1)), IF Scouted THEN "owned" ELSE "scout")
                   /\ found' = [found EXCEPT ![LastScout] = [i \in 1..(Len(@) + missing) |-> <<LastScout, i>>]]
    /\ UNCHANGED <<profile, bundle, draft, document, disposed, doubt, decisions>>

\* _ids_exact: every chunk was disposed of exactly once.
Owned == Len(disposed) = Len(document) /\ ToSet(disposed) = DOMAIN document

CheckOwnership ==
    /\ step = "owned"
    /\ step' = IF Owned THEN "curate" ELSE "failed"
    /\ pending' = Candidates
    /\ UNCHANGED <<profile, rows, bundle, draft, extraction, assigned, reqs, rejected, audited>>

\* Dependencies of requirements, of which one may not exist.
Dependencies(count) == {d \in SUBSET (1..(count + 1)) : Cardinality(d) <= MaxDependencies}
Dependents(list)    == {r \in DOMAIN list : list[r].deps # {}}

\* Decisions on a group: the action, where a candidate is merged into (an
\* offered requirement or one retained earlier in the group), and the
\* dependencies an edit gives the requirement.
Decisions(n) ==
    [1..n -> [action : {"retain", "merge", "reject"},
              into : {None} \cup ({"REQ"} \X DOMAIN reqs) \cup ({"CAND"} \X (1..n)),
              edit : {None} \cup Dependencies(Len(reqs))]]

ChoicesOK(choices, peers) ==
    \A i \in DOMAIN choices :
        LET c == choices[i] IN
        /\ IF c.action = "merge"
             THEN \/ c.into \in {"REQ"} \X peers
                  \/ \E j \in 1..(i - 1) : choices[j].action = "retain" /\ c.into = <<"CAND", j>>
             ELSE c.into = None
        /\ c.edit # None => c.edit \subseteq DOMAIN reqs

\* A requirement and one more candidate.
\* Variant: a merge replaces the citations of the requirement.
Combine_replace(old, candidate, edit) ==
    [sources |-> {candidate}, deps |-> IF edit = None THEN old.deps ELSE edit]

Combine(old, candidate, edit) ==
    [sources |-> old.sources \cup {candidate}, deps |-> IF edit = None THEN old.deps ELSE edit]

\* The decisions applied in order, with the requirement each candidate went to.
Decide(group, choices) ==
    LET Put(acc, i) ==
          LET c  == choices[i]
              at == CASE c.action = "reject" -> 0
                      [] c.action = "retain" -> Len(acc.reqs) + 1
                      [] c.action = "merge" -> IF c.into[1] = "REQ" THEN c.into[2] ELSE acc.at[c.into[2]]
          IN  [at   |-> [acc.at EXCEPT ![i] = at],
               reqs |-> CASE c.action = "reject" -> acc.reqs
                          [] c.action = "retain" ->
                               Append(acc.reqs, Combine([sources |-> {}, deps |-> {}], group[i], c.edit))
                          [] c.action = "merge" -> [acc.reqs EXCEPT ![at] = Combine(@, group[i], c.edit)]]
    IN  FoldLeft(Put, [reqs |-> reqs, at |-> [i \in DOMAIN group |-> 0]], [i \in DOMAIN group |-> i]).reqs

\* What the requirements alone are as a suite.
AsSuite(list) ==
    [EmptySuite EXCEPT !.reqs = [i \in DOMAIN list |-> Requirement(i, list[i].deps)]]

\* A batch of the efficient curator: as many pending candidates as its request
\* has room for, against the requirements most like them.
CurateBatch ==
    /\ profile = "efficient" /\ step = "curate" /\ pending # <<>>
    /\ \E group \in FirstGroups(pending, CuratorBatch),
          peers \in {p \in SUBSET (DOMAIN reqs) :
                       Cardinality(p) = IF Len(reqs) < PeerLimit THEN Len(reqs) ELSE PeerLimit} :
       \E choices \in Decisions(Len(group)) :
         /\ ChoicesOK(choices, peers)
         /\ reqs' = Decide(group, choices)
         /\ Len(reqs') <= MaxRequirements
         /\ Cardinality(Dependents(reqs')) <= MaxDependents
         /\ rejected' = rejected \cup {group[i] : i \in {j \in DOMAIN group : choices[j].action = "reject"}}
         /\ pending' = SubSeq(pending, Len(group) + 1, Len(pending))
    /\ draft' = AsSuite(reqs')
    /\ Claim(Halves("curator", 3 * Tasks("curator")), "curate")
    /\ UNCHANGED <<profile, bundle, extraction, assigned, audited>>

CurateDone ==
    /\ profile = "efficient" /\ step = "curate" /\ pending = <<>>
    /\ step' = "recheck"
    /\ UNCHANGED <<profile, rows, bundle, draft, curation>>

\* REJECTION GAP AUDIT: what the rejections lost becomes requirements, each with
\* citations of its own (scout 0).
Gaps(count) == [i \in 1..count |-> [sources |-> {<<0, Len(reqs) + i>>}, deps |-> {}]]

RejectionAudit ==
    /\ step = "recheck"
    /\ LET left == Selected(Candidates, rejected \ audited) IN
         /\ left # <<>>
         /\ \E group \in FirstGroups(left, RejectBatch), gap \in 0..MaxRequirements, unresolved \in BOOLEAN :
              /\ Len(reqs) + gap <= MaxRequirements
              /\ audited' = audited \cup ToSet(group)
              /\ reqs' = IF unresolved THEN reqs ELSE reqs \o Gaps(gap)
              /\ Claim(Halves("source_audit", RejectBase + 3 * (Tasks("source_audit") - Len(found))),
                       IF unresolved THEN "failed" ELSE "recheck")
    /\ UNCHANGED <<profile, bundle, draft, extraction, pending, assigned, rejected>>

RecheckDone ==
    /\ step = "recheck" /\ rejected = audited
    /\ step' = "curated"
    /\ UNCHANGED <<profile, rows, bundle, draft, curation>>
-----------------------------------------------------------------------------
\* The scouts of the corrected pipeline end in any order.  Candidates whose
\* citations stay wrong after a correction are discarded, but not all of them.
ScoutCorrected(g) ==
    /\ profile = "corrected" /\ step = "scout" /\ found[g] = None
    /\ \E n \in FindsFrom(Groups[g]) : \E kept \in SUBSET (1..n) :
         /\ Total + n <= MaxCandidates
         /\ kept = {} => n = 0
         /\ found' = [found EXCEPT ![g] = Selected([i \in 1..n |-> <<g, i>>], {g} \X kept)]
         /\ Claim({<<"scout", g - 1>>}, IF \A h \in (DOMAIN found) \ {g} : found[h] # None THEN "curate" ELSE "scout")
    /\ UNCHANGED <<profile, bundle, draft, document, disposed, doubt, decisions>>

\* Assignments of the candidates to m requirements, each of which has one.
Assignments == [DOMAIN Candidates -> 0..(IF Len(Candidates) < MaxRequirements THEN Len(Candidates) ELSE MaxRequirements)]

\* _validate_curator_decisions: the numbers given begin at 1 without a gap.
DecisionsOK(into) ==
    LET given == {into[i] : i \in DOMAIN into} \ {0} IN given = 1..Cardinality(given)

Sources(into, r) == {Candidates[i] : i \in {j \in DOMAIN into : into[j] = r}}

\* _validate_synthesis: the requirements are those decided on, each with the
\* citations of its candidates.
\* Variant: with any citations.
SynthesisOK_ids(into, list) == {into[i] : i \in DOMAIN into} \ {0} = DOMAIN list

SynthesisOK(into, list) ==
    /\ {into[i] : i \in DOMAIN into} \ {0} = DOMAIN list
    /\ \A r \in DOMAIN list : list[r].sources = Sources(into, r)

\* What the model may say of the requirements: citations as another assignment
\* would have them, and dependencies.
Written(into, count) ==
    {list \in {[r \in 1..count |-> [sources |-> Sources(into, r), deps |-> deps[r]]] :
                  deps \in [1..count -> Dependencies(count)]} :
        Cardinality(Dependents(list)) <= MaxDependents}

Rejects(into) == {Candidates[i] : i \in {j \in DOMAIN into : into[j] = 0}}

\* _run_curator: few candidates in one pass,
Synthesize ==
    /\ profile = "corrected" /\ step = "curate" /\ Len(Candidates) <= SinglePassMax
    /\ \E into, said \in Assignments : \E list \in Written(said, Cardinality({into[i] : i \in DOMAIN into} \ {0})) :
         /\ DecisionsOK(into) /\ SynthesisOK(into, list)
         /\ assigned' = into /\ reqs' = list /\ rejected' = Rejects(into)
    /\ Claim({<<"curator", 0>>}, "curated")
    /\ UNCHANGED <<profile, bundle, draft, extraction, pending, audited>>

\* or first the decisions on all of them,
DecideAll ==
    /\ profile = "corrected" /\ step = "curate" /\ Len(Candidates) > SinglePassMax
    /\ \E into \in Assignments : DecisionsOK(into) /\ assigned' = into /\ rejected' = Rejects(into)
    /\ step' = "materialize"
    /\ UNCHANGED <<profile, rows, bundle, draft, extraction, pending, reqs, audited>>

\* then the requirements, a few at a time, with the citations the code collects.
Wanted == Cardinality({assigned[i] : i \in DOMAIN assigned} \ {0})

Materialize ==
    /\ step = "materialize" /\ Len(reqs) < Wanted
    /\ LET upto == IF Len(reqs) + MaterializeMax < Wanted THEN Len(reqs) + MaterializeMax ELSE Wanted IN
         \E list \in Written(assigned, Wanted) :
            reqs' = reqs \o SubSeq(list, Len(reqs) + 1, upto)
    /\ Cardinality(Dependents(reqs')) <= MaxDependents
    /\ UNCHANGED <<profile, step, rows, bundle, draft, extraction, pending, assigned, rejected, audited>>

MaterializeDone ==
    /\ step = "materialize" /\ Len(reqs) = Wanted
    /\ IF SynthesisOK(assigned, reqs) THEN Claim({<<"curator", 0>>}, "curated")
                                      ELSE step' = "failed" /\ rows' = rows
    /\ UNCHANGED <<profile, bundle, draft, curation>>
-----------------------------------------------------------------------------
\* The requirements go to the next phase.  Its tasks have other stages, so the
\* identities claimed so far are let go with the locals of this phase.
HandOver ==
    /\ step = "curated"
    /\ step' = "design" /\ rows' = {}
    /\ bundle' = AsSuite(reqs)
    /\ NoCuration
    /\ UNCHANGED <<profile, draft>>

Curate ==
    \/ Scout \/ SourceAudit \/ CheckOwnership \/ CurateBatch \/ CurateDone
    \/ RejectionAudit \/ RecheckDone
    \/ \E g \in DOMAIN found : ScoutCorrected(g)
    \/ Synthesize \/ DecideAll \/ Materialize \/ MaterializeDone \/ HandOver
=============================================================================
