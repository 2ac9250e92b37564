------------------------------ MODULE StorageProofs ------------------------------
\* Proofs about what a run of Generation leaves in the database: the rows of its
\* tasks and the artifacts of its suites.
\*
\* The identities of tasks (RowsInv) are below those the next task of their stage
\* will have, or are the first ones exactly where that number is counted.
\* Everything a run works on is lists of artifacts that link finitely many
\* (SuitesInv), and such lists are read back from their tables as they were.
EXTENDS GenerationProofs

-----------------------------------------------------------------------------
(* The identities of the tasks *)

\* The indices of a stage's rows.
Indices(all, stage) == {row[2] : row \in {x \in all : x[1] = stage}}

\* The stages that claim rows.
Stages ==
    {"scout", "source_audit", "curator", "scenario_architect", "test_writer", "critic", "repair",
     "requirements", "scenarios", "test_cases", "catalog", "evaluation"}

\* Every row is of a stage and has a number.
Named == rows \in SUBSET (Stages \X Int)

\* A row has a stage and an index.
LEMMA Paired ==
    ASSUME NEW A, NEW B, NEW x \in A \X B
    PROVE  x = <<x[1], x[2]>> /\ x[1] \in A /\ x[2] \in B
BY SMT

\* Rows of one stage.
LEMMA OneStage ==
    ASSUME NEW stage, NEW S, NEW x \in {stage} \X S
    PROVE  x = <<stage, x[2]>> /\ x[2] \in S
<1>1. x = <<x[1], x[2]>> /\ x[1] = stage /\ x[2] \in S
  BY Paired
<1> QED
  BY <1>1, Zenon

\* The indices of a stage are those its rows have.
LEMMA StageRows ==
    ASSUME NEW all \in SUBSET (Stages \X Int), NEW stage \in Stages
    PROVE  \A i : i \in Indices(all, stage) <=> <<stage, i>> \in all
<1>1. \A x \in all : x = <<x[1], x[2]>>
  OBVIOUS
<1>2. \A i : <<stage, i>>[1] = stage /\ <<stage, i>>[2] = i
  OBVIOUS
<1> QED
  BY <1>1, <1>2 DEF Indices

\* A claim that meets no row of its stage adds its own, and none to another stage.
LEMMA ClaimAdds ==
    ASSUME Named, NEW stage \in Stages, NEW S \in SUBSET Int, NEW next, Claim({stage} \X S, next),
           S \cap Indices(rows, stage) = {}
    PROVE  /\ step' = next /\ Named' /\ Indices(rows', stage) = Indices(rows, stage) \cup S
           /\ \A other \in Stages : other # stage => Indices(rows', other) = Indices(rows, other)
<1>1. ({stage} \X S) \cap rows = {}
  <2>1. \A i : i \in Indices(rows, stage) <=> <<stage, i>> \in rows
    BY StageRows DEF Named
  <2>2. \A x \in {stage} \X S : x = <<stage, x[2]>> /\ x[2] \in S
    BY OneStage
  <2> QED
    BY <2>1, <2>2
<1>2. step' = next /\ rows' = rows \cup ({stage} \X S)
  BY <1>1 DEF Claim
<1>3. rows' \in SUBSET (Stages \X Int)
  BY <1>2 DEF Named
<1>4. ASSUME NEW other \in Stages
      PROVE  \A i : i \in Indices(rows', other) <=> i \in Indices(rows, other) \/ (other = stage /\ i \in S)
  <2>1. \A i : i \in Indices(rows, other) <=> <<other, i>> \in rows
    BY StageRows DEF Named
  <2>2. \A i : i \in Indices(rows', other) <=> <<other, i>> \in rows'
    BY <1>3, StageRows
  <2>3. \A i : <<other, i>> \in {stage} \X S <=> other = stage /\ i \in S
    OBVIOUS
  <2> QED
    BY <1>2, <2>1, <2>2, <2>3
<1>5. Indices(rows', stage) = Indices(rows, stage) \cup S
  BY <1>4
<1>6. \A other \in Stages : other # stage => Indices(rows', other) = Indices(rows, other)
  BY <1>4
<1> QED
  BY <1>2, <1>3, <1>5, <1>6 DEF Named

\* A task that may be split claims three indices.
LEMMA HalvesAdd ==
    ASSUME Named, NEW stage \in Stages, NEW index \in Int, NEW next, Claim(Halves(stage, index), next),
           index \notin Indices(rows, stage), index + 1 \notin Indices(rows, stage), index + 2 \notin Indices(rows, stage)
    PROVE  /\ step' = next /\ Named' /\ Indices(rows', stage) = Indices(rows, stage) \cup index..(index + 2)
           /\ \A other \in Stages : other # stage => Indices(rows', other) = Indices(rows, other)
<1> DEFINE S == index..(index + 2)
<1>1. S \in SUBSET Int /\ \A i \in S : i = index \/ i = index + 1 \/ i = index + 2
  OBVIOUS
<1>2. Halves(stage, index) = {stage} \X S
  <2>1. \A i \in S : i - index \in 0..2 /\ index + (i - index) = i
    OBVIOUS
  <2>2. \A i \in 0..2 : index + i \in S
    OBVIOUS
  <2> HIDE DEF S
  <2>3. \A x \in {stage} \X S : x = <<stage, x[2]>> /\ x[2] \in S
    BY OneStage
  <2>4. ASSUME NEW x \in {stage} \X S  PROVE x \in {<<stage, index + i>> : i \in 0..2}
    <3>1. x = <<stage, index + (x[2] - index)>> /\ x[2] - index \in 0..2
      BY <2>1, <2>3
    <3> QED
      BY <3>1, Zenon
  <2>5. ASSUME NEW x \in {<<stage, index + i>> : i \in 0..2}  PROVE x \in {stage} \X S
    <3>1. PICK i \in 0..2 : x = <<stage, index + i>>
      BY Zenon
    <3>2. index + i \in S /\ stage \in {stage}
      BY <2>2
    <3> QED
      BY <3>1, <3>2, Zenon
  <2>6. {<<stage, index + i>> : i \in 0..2} = {stage} \X S
    BY <2>4, <2>5, Zenon
  <2> QED
    BY <2>6, Zenon DEF Halves
<1>3. S \cap Indices(rows, stage) = {}
  BY <1>1
<1> HIDE DEF S
<1>4. Claim({stage} \X S, next)
  BY <1>2
<1>5. /\ step' = next /\ Named' /\ Indices(rows', stage) = Indices(rows, stage) \cup S
      /\ \A other \in Stages : other # stage => Indices(rows', other) = Indices(rows, other)
  BY <1>1, <1>3, <1>4, ClaimAdds
<1> QED
  BY <1>5 DEF S

\* A task that is not split claims one.
LEMMA OneAdds ==
    ASSUME Named, NEW stage \in Stages, NEW index \in Int, NEW next, Claim({<<stage, index>>}, next),
           index \notin Indices(rows, stage)
    PROVE  /\ step' = next /\ Named' /\ Indices(rows', stage) = Indices(rows, stage) \cup {index}
           /\ \A other \in Stages : other # stage => Indices(rows', other) = Indices(rows, other)
<1>1. {<<stage, index>>} = {stage} \X {index}
  <2>1. ASSUME NEW x \in {stage} \X {index}  PROVE x = <<stage, index>>
    <3>1. x = <<stage, x[2]>> /\ x[2] = index
      BY OneStage
    <3> QED
      BY <3>1, Zenon
  <2>2. <<stage, index>> \in {stage} \X {index}
    OBVIOUS
  <2> QED
    BY <2>1, <2>2, Zenon
<1>2. {index} \in SUBSET Int /\ {index} \cap Indices(rows, stage) = {}
  OBVIOUS
<1>3. Claim({stage} \X {index}, next)
  BY <1>1
<1> QED
  BY <1>2, <1>3, ClaimAdds

\* A stage that has the rows of m tasks has had m.
LEMMA TasksAre ==
    ASSUME Named, NEW stage \in Stages, NEW m \in Nat, IsFiniteSet(Indices(rows, stage)),
           Cardinality(Indices(rows, stage)) = 3 * m
    PROVE  Tasks(stage) = m
<1> DEFINE R == {row \in rows : row[1] = stage}
           f == [i \in Indices(rows, stage) |-> <<stage, i>>]
<1>1. \A i : i \in Indices(rows, stage) <=> <<stage, i>> \in rows
  BY StageRows DEF Named
<1>2. f \in Bijection(Indices(rows, stage), R)
  <2>1. f \in [Indices(rows, stage) -> R]
    BY <1>1
  <2>2. \A a, b \in Indices(rows, stage) : f[a] = f[b] => a = b
    OBVIOUS
  <2>3. ASSUME NEW t \in R  PROVE \E s \in Indices(rows, stage) : f[s] = t
    <3>1. t \in rows /\ t[1] = stage /\ t \in Stages \X Int
      BY <2>3 DEF Named, R
    <3>2. t = <<stage, t[2]>>
      <4>1. t = <<t[1], t[2]>>
        BY <3>1, Paired
      <4> QED
        BY <3>1, <4>1, Zenon
    <3>3. t[2] \in Indices(rows, stage)
      BY <1>1, <3>1, <3>2
    <3> QED
      BY <3>2, <3>3 DEF f
  <2>4. \A t \in R : \E s \in Indices(rows, stage) : f[s] = t
    BY <2>3
  <2> HIDE DEF f, R
  <2> QED
    BY <2>1, <2>2, <2>4 DEF Bijection, Injection, Surjection, IsInjective
<1>3. Cardinality(R) = 3 * m
  <2> HIDE DEF f, R
  <2>1. ExistsBijection(Indices(rows, stage), R)
    BY <1>2 DEF ExistsBijection
  <2> QED
    BY <2>1, FS_Bijection
<1>4. (3 * m) \div 3 = m
  OBVIOUS
<1> QED
  BY <1>3, <1>4 DEF Tasks

\* The first indices, and those of the next task.
LEMMA FirstIndices ==
    ASSUME NEW m \in Nat
    PROVE  /\ IsFiniteSet(0..(3 * m - 1)) /\ Cardinality(0..(3 * m - 1)) = 3 * m
           /\ 0..(3 * m - 1) \cup (3 * m)..(3 * m + 2) = 0..(3 * (m + 1) - 1)
           /\ \A i \in 0..2 : 3 * m + i \notin 0..(3 * m - 1)
<1>1. 0 \in Int /\ 3 * m - 1 \in Int /\ (0 > 3 * m - 1 => m = 0) /\ (3 * m - 1) - 0 + 1 = 3 * m
  OBVIOUS
<1>2. IsFiniteSet(0..(3 * m - 1)) /\ Cardinality(0..(3 * m - 1)) = 3 * m
  BY <1>1, FS_Interval
<1>3. 0..(3 * m - 1) \cup (3 * m)..(3 * m + 2) = 0..(3 * (m + 1) - 1)
  OBVIOUS
<1>4. \A i \in 0..2 : 3 * m + i \notin 0..(3 * m - 1)
  OBVIOUS
<1> QED
  BY <1>2, <1>3, <1>4

\* The code leaves room for a million indices of one kind and for three hundred
\* of one repair (efficient.py: 1_000_000, 300); it does not check that they are
\* enough.
Roomy ==
    /\ 3 * Len(found) <= RejectBase /\ 3 * Len(bundle.reqs) <= RepairBase
    /\ step \in {"expand", "expand_tests"} => 3 * gap.tasks <= RepairStride

\* The indices of the first m tasks, and of m from one on.
From(index, m) == index..(index + 3 * m - 1)
Firsts(m) == From(0, m)
Under(S, m) == \A i \in S : i < m

\* Where the indices of the n-th repair's additions begin.
GapStart(n) == RepairBase + n * RepairStride

CountInv ==
    /\ step # "conflict" /\ Named
    /\ repairs \in Nat /\ extracted \in Nat
    /\ step \in {"expand", "expand_tests"} => gap.tasks \in Nat

\* The curation of the efficient pipeline: a scout and its audit have the indices
\* of its group, and a batch those after the last; the audits of rejections begin
\* where those of the sources cannot come.
ScoutRows == profile = "efficient" =>
    /\ step \in {"scout", "audit"} =>
         \E k \in 0..Len(Groups) :
            /\ Ended(k) /\ Under(Indices(rows, "scout"), 3 * k)
            /\ Indices(rows, "source_audit") = Firsts(IF step = "audit" THEN k - 1 ELSE k)
    /\ step \in {"scout", "audit", "owned"} => Indices(rows, "curator") = {}
    /\ step \in {"owned", "curate"} => Indices(rows, "source_audit") = Firsts(Len(found))
    /\ step = "curate" => \E m \in Nat : Indices(rows, "curator") = Firsts(m)
    /\ step = "recheck" => \E m \in Nat : Indices(rows, "source_audit") = Firsts(Len(found)) \cup From(RejectBase, m)

\* The corrected pipeline: a scout or a writer that has not ended has not
\* claimed its index.
CorrectedRows == profile = "corrected" =>
    /\ step = "scout" => \A g \in DOMAIN found : found[g] = None => g - 1 \notin Indices(rows, "scout")
    /\ step \in {"scout", "curate", "materialize"} => Indices(rows, "curator") = {}
    /\ step = "design" => rows = {}
    /\ step \in {"design", "write"} => DOMAIN bundle.reqs \subseteq Nat
    /\ step = "write" => DOMAIN bundle.scns \subseteq Nat
    /\ step = "write" => \A g \in DOMAIN written : written[g] = None => g - 1 \notin Indices(rows, "test_writer")
    /\ step \in {"write", "review"} => Indices(rows, "critic") = {} /\ Indices(rows, "repair") = {}
    /\ step \in {"repair", "verify_all"} => 1 \notin Indices(rows, "critic")
    /\ step = "repair" => Under(Indices(rows, "repair"), repairs)

\* No more design tasks than requirements were designed, and no other stage yet.
DesignRows == profile = "efficient" /\ step = "design" =>
    /\ \E m \in 0..designed : Indices(rows, "test_writer") = Firsts(m)
    /\ Indices(rows, "critic") = {} /\ Indices(rows, "repair") = {} /\ Indices(rows, "scenario_architect") = {}

\* The review: a critic task has three indices and a verification the one after,
\* a patch has those of its repair, and what an addition asks for stays within
\* the room of its repair.
ReviewRows == profile = "efficient" /\ step \in {"review"} \cup Repairing =>
    /\ Under(Indices(rows, "critic"), 3 * critiques + (IF step = "review" THEN 0 ELSE repairs))
    /\ IF step = "review" THEN Indices(rows, "repair") = {}
                          ELSE Under(Indices(rows, "repair"), 3 * (IF step = "verify" THEN repairs + 1 ELSE repairs))
    /\ Under(Indices(rows, "scenario_architect"),
             IF step = "expand" THEN GapStart(repairs) + 3 * gap.tasks
             ELSE IF step \in {"expand_tests", "verify"} THEN GapStart(repairs + 1) ELSE GapStart(repairs))
    /\ Under(Indices(rows, "test_writer"),
             IF step = "expand_tests" THEN GapStart(repairs) + 3 * gap.tasks
             ELSE IF step = "verify" THEN GapStart(repairs + 1) ELSE GapStart(repairs))

\* A single agent claims at most one index of each of its stages, and none of the
\* judge's.  The judge: as many catalog tasks as groups were extracted, and a
\* first part of the indices of evaluations.
JudgeRows ==
    /\ profile \in {"single", "staged"} /\ step = "scout" => rows = {}
    /\ step = "scenarios" => Indices(rows, "scenarios") = {} /\ Indices(rows, "test_cases") = {}
    /\ step = "tests" => Indices(rows, "test_cases") = {}
    /\ step \in {"scenarios", "tests", "check", "revise"} =>
         Indices(rows, "catalog") = {} /\ Indices(rows, "evaluation") = {}
    /\ step = "judge" => Under(Indices(rows, "catalog"), 3 * extracted) /\ Indices(rows, "evaluation") = {}
    /\ step = "evaluate" => \E m \in Nat : Indices(rows, "evaluation") = Firsts(m)

RowsInv == CountInv /\ ScoutRows /\ CorrectedRows /\ DesignRows /\ ReviewRows /\ JudgeRows
\* What a claim above all indices of a stage, or of the next of its tasks, does.
LEMMA AboveAdds ==
    ASSUME Named, NEW stage \in Stages, NEW index \in Int, NEW next, Claim(Halves(stage, index), next),
           Under(Indices(rows, stage), index)
    PROVE  /\ step' = next /\ Named' /\ Under(Indices(rows', stage), index + 3)
           /\ \A other \in Stages : other # stage => Indices(rows', other) = Indices(rows, other)
<1>1. index \notin Indices(rows, stage) /\ index + 1 \notin Indices(rows, stage) /\ index + 2 \notin Indices(rows, stage)
  <2>1. ~(index < index) /\ ~(index + 1 < index) /\ ~(index + 2 < index)
    OBVIOUS
  <2> QED
    BY <2>1 DEF Under
<1>2. /\ step' = next /\ Named' /\ Indices(rows', stage) = Indices(rows, stage) \cup index..(index + 2)
      /\ \A other \in Stages : other # stage => Indices(rows', other) = Indices(rows, other)
  BY <1>1, HalvesAdd
<1>3. Indices(rows, stage) \subseteq Int
  <2>1. \A i \in Indices(rows, stage) : <<stage, i>> \in rows
    BY StageRows DEF Named
  <2> QED
    BY <2>1 DEF Named
<1>4. \A i \in Int : i < index => i < index + 3
  OBVIOUS
<1>5. \A i \in index..(index + 2) : i < index + 3
  OBVIOUS
<1>6. \A i \in Indices(rows, stage) : i \in Int /\ i < index
  BY <1>3 DEF Under
<1> QED
  BY <1>2, <1>4, <1>5, <1>6 DEF Under

\* The next task after a first part of the indices from one on.
LEMMA NextAdds ==
    ASSUME Named, NEW stage \in Stages, NEW from \in Int, NEW m \in Nat, NEW rest \in SUBSET Int, NEW next,
           Claim(Halves(stage, from + 3 * m), next), Indices(rows, stage) = rest \cup From(from, m), Under(rest, from)
    PROVE  /\ step' = next /\ Named' /\ Indices(rows', stage) = rest \cup From(from, m + 1)
           /\ \A other \in Stages : other # stage => Indices(rows', other) = Indices(rows, other)
<1> DEFINE index == from + 3 * m
<1>1. \A i \in rest \cup From(from, m) : i < index
  BY DEF Under, From
<1>2. From(from, m) \cup index..(index + 2) = From(from, m + 1)
  BY DEF From
<1>3. index \in Int /\ ~(index < index) /\ ~(index + 1 < index) /\ ~(index + 2 < index)
  OBVIOUS
<1>4. Claim(Halves(stage, index), next)
  OBVIOUS
<1> HIDE DEF index
<1>5. index \notin Indices(rows, stage) /\ index + 1 \notin Indices(rows, stage) /\ index + 2 \notin Indices(rows, stage)
  BY <1>1, <1>3
<1>6. /\ step' = next /\ Named' /\ Indices(rows', stage) = Indices(rows, stage) \cup index..(index + 2)
      /\ \A other \in Stages : other # stage => Indices(rows', other) = Indices(rows, other)
  BY <1>3, <1>4, <1>5, HalvesAdd
<1> QED
  BY <1>2, <1>6

\* How many tasks have a first part of the indices, or of two ranges.
LEMMA FirstTasks ==
    ASSUME Named, NEW stage \in Stages, NEW n \in Nat, NEW m \in Nat, NEW from \in Int, 3 * n <= from,
           Indices(rows, stage) = Firsts(n) \cup From(from, m)
    PROVE  Tasks(stage) = n + m
<1>1. /\ IsFiniteSet(Firsts(n)) /\ Cardinality(Firsts(n)) = 3 * n
      /\ IsFiniteSet(From(from, m)) /\ Cardinality(From(from, m)) = 3 * m
  <2>1. 0 \in Int /\ 0 + 3 * n - 1 \in Int /\ from \in Int /\ from + 3 * m - 1 \in Int
    OBVIOUS
  <2>2. /\ IsFiniteSet(0..(0 + 3 * n - 1))
        /\ Cardinality(0..(0 + 3 * n - 1)) = IF 0 > 0 + 3 * n - 1 THEN 0 ELSE (0 + 3 * n - 1) - 0 + 1
    BY <2>1, FS_Interval
  <2>3. /\ IsFiniteSet(from..(from + 3 * m - 1))
        /\ Cardinality(from..(from + 3 * m - 1)) = IF from > from + 3 * m - 1 THEN 0 ELSE (from + 3 * m - 1) - from + 1
    BY <2>1, FS_Interval
  <2> QED
    BY <2>2, <2>3 DEF Firsts, From
<1>2. Firsts(n) \cap From(from, m) = {}
  BY DEF Firsts, From
<1>3. IsFiniteSet(Indices(rows, stage)) /\ Cardinality(Indices(rows, stage)) = 3 * n + 3 * m
  <2>1. Cardinality(Firsts(n) \cap From(from, m)) = 0
    BY <1>2, FS_EmptySet
  <2>2. /\ IsFiniteSet(Firsts(n) \cup From(from, m))
        /\ Cardinality(Firsts(n) \cup From(from, m)) =
             Cardinality(Firsts(n)) + Cardinality(From(from, m)) - Cardinality(Firsts(n) \cap From(from, m))
    BY <1>1, FS_Union
  <2> QED
    BY <1>1, <2>1, <2>2
<1>4. 3 * n + 3 * m = 3 * (n + m) /\ n + m \in Nat
  OBVIOUS
<1> QED
  BY <1>3, <1>4, TasksAre

\* A batch of a stage that has had the first of its tasks is the next of them.
LEMMA BatchAdds ==
    ASSUME Named, NEW stage \in Stages, NEW m \in Nat, NEW next, Indices(rows, stage) = Firsts(m),
           Claim(Halves(stage, 3 * Tasks(stage)), next)
    PROVE  /\ step' = next /\ Named' /\ Indices(rows', stage) = Firsts(m + 1)
           /\ \A other \in Stages : other # stage => Indices(rows', other) = Indices(rows, other)
<1>1. Tasks(stage) = m
  <2> DEFINE from == 3 * m
  <2>1. From(from, 0) = {} /\ from \in Int /\ 3 * m <= from /\ m + 0 = m /\ 0 \in Nat
    BY DEF From
  <2> HIDE DEF from
  <2>2. Indices(rows, stage) = Firsts(m) \cup From(from, 0)
    BY <2>1
  <2>3. Tasks(stage) = m + 0
    BY <2>1, <2>2, FirstTasks
  <2> QED
    BY <2>1, <2>3
<1>2. 0 + 3 * m = 3 * m /\ {} \in SUBSET Int /\ 0 \in Int
  OBVIOUS
<1>3. Claim(Halves(stage, 0 + 3 * m), next)
  BY <1>1, <1>2
<1>4. Indices(rows, stage) = {} \cup From(0, m) /\ Under({}, 0)
  BY DEF Firsts, Under
<1>5. /\ step' = next /\ Named' /\ Indices(rows', stage) = {} \cup From(0, m + 1)
      /\ \A other \in Stages : other # stage => Indices(rows', other) = Indices(rows, other)
  BY <1>2, <1>3, <1>4, NextAdds
<1> QED
  BY <1>5 DEF Firsts

\* Who claims nothing leaves what is claimed.
LEMMA NothingClaimed ==
    ASSUME rows' = rows
    PROVE  Named' <=> Named
BY DEF Named

\* Each part of the invariant is about its own steps.
LEMMA RowsParts ==
    ASSUME CountInv',
           profile' = "efficient" /\ step' \in {"scout", "audit", "owned", "curate", "recheck"} => ScoutRows',
           profile' = "corrected" /\ step' \in {"scout", "curate", "materialize", "design", "write", "review", "repair", "verify_all"}
             => CorrectedRows',
           profile' = "efficient" /\ step' = "design" => DesignRows',
           profile' = "efficient" /\ step' \in {"review"} \cup Repairing => ReviewRows',
           profile' \in {"single", "staged"} /\ step' = "scout" => JudgeRows',
           step' \in {"scenarios", "tests", "check", "revise", "judge", "evaluate"} => JudgeRows'
    PROVE  RowsInv'
<1>1. ScoutRows' /\ DesignRows' /\ ReviewRows'
  BY DEF ScoutRows, DesignRows, ReviewRows
<1>2. CorrectedRows' /\ JudgeRows'
  BY DEF CorrectedRows, JudgeRows
<1> QED
  BY <1>1, <1>2 DEF RowsInv

\* The curation and the drafting leave the counts of the other phases.
LEMMA CountStays ==
    ASSUME CountInv, Named', UNCHANGED <<review, judging>>, step' \notin {"conflict", "expand", "expand_tests"}
    PROVE  CountInv'
BY DEF CountInv, review, repair, judging

\* A scout of the efficient pipeline claims the indices of its group.
LEMMA ScoutClaims ==
    ASSUME CurationInv, RowsInv, [Next]_vars, Scout, UNCHANGED <<drafting, review, judging>>
    PROVE  RowsInv'
<1> USE DEF Stages
<1>1. step = "scout" /\ profile = "efficient" /\ profile' = profile /\ ~Scouted /\ Named
  BY DEF Scout, RowsInv, CountInv
<1>2. PICK k \in 0..Len(Groups) : /\ Ended(k) /\ Under(Indices(rows, "scout"), 3 * k)
                                  /\ Indices(rows, "source_audit") = Firsts(k) /\ Indices(rows, "curator") = {}
  BY <1>1 DEF RowsInv, ScoutRows
<1>3. NextScout = k + 1 /\ k \in Nat
  <2>1. NextScout = k + 1 /\ Len(Groups) \in Nat
    BY <1>1, <1>2, Scouts DEF CurationInv
  <2> QED
    BY <2>1
<1>4. Claim(Halves("scout", 3 * k), "audit") /\ 3 * k \in Int
  <2>1. (k + 1) - 1 = k /\ 3 * k \in Int
    BY <1>3
  <2> QED
    BY <1>3, <2>1 DEF Scout
<1>5. /\ step' = "audit" /\ Named' /\ Under(Indices(rows', "scout"), 3 * k + 3)
      /\ Indices(rows', "source_audit") = Firsts(k) /\ Indices(rows', "curator") = {}
  <2> DEFINE index == 3 * k
  <2>1. index \in Int /\ Claim(Halves("scout", index), "audit") /\ Under(Indices(rows, "scout"), index)
    BY <1>2, <1>4
  <2> HIDE DEF index
  <2>2. /\ step' = "audit" /\ Named' /\ Under(Indices(rows', "scout"), index + 3)
        /\ \A other \in Stages : other # "scout" => Indices(rows', other) = Indices(rows, other)
    BY <1>1, <2>1, AboveAdds
  <2>3. Indices(rows', "source_audit") = Indices(rows, "source_audit") /\ Indices(rows', "curator") = Indices(rows, "curator")
    BY <2>2
  <2> QED
    BY <1>2, <2>2, <2>3 DEF index
<1>6. k + 1 \in 0..Len(Groups)' /\ Ended(k + 1)'
  BY <1>1, <1>2, <1>5, ScoutEnds DEF CurationInv, Curating
<1>7. (k + 1) - 1 = k /\ 3 * (k + 1) = 3 * k + 3
  BY <1>3
<1>8. ScoutRows'
  BY <1>5, <1>6, <1>7 DEF ScoutRows
<1>9. CountInv'
  BY <1>5, CountStays DEF RowsInv
<1> QED
  BY <1>1, <1>5, <1>8, <1>9, RowsParts DEF Repairing

\* So does the audit of its sources.
LEMMA AuditClaims ==
    ASSUME CurationInv, RowsInv, [Next]_vars, SourceAudit, UNCHANGED <<drafting, review, judging>>
    PROVE  RowsInv'
<1> USE DEF Stages
<1>1. step = "audit" /\ profile = "efficient" /\ profile' = profile /\ Named
  BY DEF SourceAudit, RowsInv, CountInv, CurationInv, PhaseInv
<1>2. PICK k \in 0..Len(Groups) : /\ Ended(k) /\ Under(Indices(rows, "scout"), 3 * k)
                                  /\ Indices(rows, "source_audit") = Firsts(k - 1) /\ Indices(rows, "curator") = {}
  BY <1>1 DEF RowsInv, ScoutRows
<1>3. /\ LastScout = k /\ k - 1 \in Nat /\ k \in Nat /\ (Scouted <=> k = Len(Groups))
      /\ Len(found) = Len(Groups) /\ DOMAIN found = 1..Len(Groups) /\ Len(Groups) \in Nat
  <2>1. /\ LastScout = k /\ Len(Groups) \in Nat /\ (Scouted <=> k = Len(Groups))
        /\ Len(found) = Len(Groups) /\ DOMAIN found = 1..Len(Groups)
    BY <1>1, <1>2, Scouts DEF CurationInv
  <2>2. k >= 1
    BY <1>1, <1>2 DEF Ended
  <2>3. k \in Nat /\ k - 1 \in Nat
    <3>1. Len(Groups) \in Nat
      BY <2>1
    <3> QED
      BY <2>2, <3>1
  <2> QED
    BY <2>1, <2>3
<1>4. k \in Nat /\ k - 1 \in Nat
  BY <1>3
<1>5. PICK next \in {"failed", "owned", "scout"} :
        /\ Claim(Halves("source_audit", 0 + 3 * (k - 1)), next)
        /\ next # "failed" => next = IF Scouted THEN "owned" ELSE "scout"
  <2>1. 3 * (k - 1) = 0 + 3 * (k - 1)
    BY <1>4
  <2>2. \E next \in {"failed", "owned", "scout"} :
          /\ Claim(Halves("source_audit", 3 * (LastScout - 1)), next)
          /\ next # "failed" => next = IF Scouted THEN "owned" ELSE "scout"
    BY DEF SourceAudit
  <2> QED
    BY <1>3, <2>1, <2>2
<1>6. /\ step' = next /\ Named' /\ Indices(rows', "source_audit") = Firsts(k)
      /\ Under(Indices(rows', "scout"), 3 * k) /\ Indices(rows', "curator") = {}
  <2> DEFINE p == k - 1
  <2>1. p \in Nat /\ p + 1 = k /\ {} \in SUBSET Int /\ 0 \in Int
    BY <1>4
  <2>2. Claim(Halves("source_audit", 0 + 3 * p), next)
    BY <1>5
  <2>3. Indices(rows, "source_audit") = {} \cup From(0, p) /\ Under({}, 0)
    BY <1>2 DEF Firsts, Under
  <2> HIDE DEF p
  <2>4. /\ step' = next /\ Named' /\ Indices(rows', "source_audit") = {} \cup From(0, p + 1)
        /\ \A other \in Stages : other # "source_audit" => Indices(rows', other) = Indices(rows, other)
    BY <1>1, <2>1, <2>2, <2>3, NextAdds
  <2>5. Indices(rows', "scout") = Indices(rows, "scout") /\ Indices(rows', "curator") = Indices(rows, "curator")
    BY <2>4
  <2> QED
    BY <1>2, <2>1, <2>4, <2>5 DEF Firsts
<1>7. CASE next = "failed"
  <2>1. CountInv'
    BY <1>6, <1>7, CountStays DEF RowsInv
  <2> QED
    BY <1>6, <1>7, <2>1, RowsParts DEF Repairing
<1>8. CASE next # "failed"
  <2>1. step' \in Curating /\ step' = IF Scouted THEN "owned" ELSE "scout"
    BY <1>5, <1>6, <1>8 DEF Curating
  <2>2. k \in 0..Len(Groups)' /\ Ended(k)'
    BY <1>2, <2>1, AuditEnds DEF CurationInv
  <2>3. step' = "owned" => Len(found') = k
    <3>1. DOMAIN found' = DOMAIN found
      BY DEF SourceAudit
    <3>2. Len(Groups)' = Len(Groups)
      BY <2>1, SameShares DEF CurationInv
    <3>3. Len(found') = Len(found)
      <4>1. found' \in [1..Len(Groups)' -> {None} \cup Seq(Position)]
        BY <1>2, <2>1, AuditEnds DEF CurationInv, FoundInv
      <4> DEFINE n == Len(Groups)
      <4>2. n \in Nat /\ Len(found) = n
        BY <1>3
      <4>3. found' \in [1..n -> {None} \cup Seq(Position)]
        BY <3>2, <4>1
      <4> HIDE DEF n
      <4> QED
        BY <4>2, <4>3
    <3> QED
      BY <1>3, <2>1, <3>3
  <2>4. ScoutRows'
    BY <1>6, <2>1, <2>2, <2>3 DEF ScoutRows
  <2>5. CountInv'
    BY <1>6, <2>1, CountStays DEF RowsInv
  <2> QED
    BY <1>1, <2>1, <2>4, <2>5, RowsParts DEF Repairing
<1> QED
  BY <1>7, <1>8

\* The scouts are as many as their groups.
LEMMA ScoutsCounted ==
    ASSUME CurationInv, step \in Curating
    PROVE  Len(found) \in Nat /\ DOMAIN found = 1..Len(found)
<1>1. Len(Groups) \in Nat
  BY GroupsAre DEF CurationInv, PhaseInv
<1>2. found \in [1..Len(Groups) -> {None} \cup Seq(Position)]
  BY DEF CurationInv, FoundInv
<1> DEFINE n == Len(Groups)
<1>3. n \in Nat /\ found \in [1..n -> {None} \cup Seq(Position)]
  BY <1>1, <1>2
<1> HIDE DEF n
<1> QED
  BY <1>3

\* The batches of the efficient curator are numbered as they come.
LEMMA CuratorClaims ==
    ASSUME CurationInv, RowsInv, CheckOwnership \/ CurateBatch \/ CurateDone, UNCHANGED <<drafting, review, judging>>
    PROVE  RowsInv'
<1> USE DEF Stages
<1>1. profile = "efficient" /\ profile' = profile /\ Named /\ found' = found
  BY DEF CheckOwnership, CurateBatch, CurateDone, RowsInv, CountInv, CurationInv, PhaseInv, curation, extraction
<1>2. CASE CheckOwnership
  <2>1. step = "owned" /\ rows' = rows /\ step' \in {"curate", "failed"}
    BY <1>2 DEF CheckOwnership
  <2>2. Firsts(0) = {}
    BY DEF Firsts, From
  <2>3. ScoutRows'
    BY <1>1, <2>1, <2>2 DEF RowsInv, ScoutRows
  <2>4. CountInv'
    BY <1>1, <2>1, CountStays, NothingClaimed DEF RowsInv
  <2> QED
    BY <1>1, <2>1, <2>3, <2>4, RowsParts DEF Repairing
<1>3. CASE CurateBatch
  <2>1. step = "curate" /\ Claim(Halves("curator", 3 * Tasks("curator")), "curate")
    BY <1>3 DEF CurateBatch
  <2>2. PICK m \in Nat : Indices(rows, "curator") = Firsts(m) /\ Indices(rows, "source_audit") = Firsts(Len(found))
    BY <1>1, <2>1 DEF RowsInv, ScoutRows
  <2>3. /\ step' = "curate" /\ Named' /\ Indices(rows', "curator") = Firsts(m + 1)
        /\ \A other \in Stages : other # "curator" => Indices(rows', other) = Indices(rows, other)
    BY <1>1, <2>1, <2>2, BatchAdds
  <2>4. m + 1 \in Nat /\ Indices(rows', "source_audit") = Firsts(Len(found'))
    BY <1>1, <2>2, <2>3
  <2>5. ScoutRows'
    BY <2>3, <2>4 DEF ScoutRows
  <2>6. CountInv'
    BY <2>3, CountStays DEF RowsInv
  <2> QED
    BY <1>1, <2>3, <2>5, <2>6, RowsParts DEF Repairing
<1>4. CASE CurateDone
  <2>1. step = "curate" /\ rows' = rows /\ step' = "recheck"
    BY <1>4 DEF CurateDone
  <2>2. Indices(rows', "source_audit") = Firsts(Len(found'))
    BY <1>1, <2>1 DEF RowsInv, ScoutRows
  <2>3. From(RejectBase, 0) = {}
    BY LimitsAssumption DEF From
  <2>4. Indices(rows', "source_audit") = Firsts(Len(found')) \cup From(RejectBase, 0) /\ 0 \in Nat
    BY <2>2, <2>3
  <2>5. ScoutRows'
    BY <2>1, <2>4 DEF ScoutRows
  <2>6. CountInv'
    BY <1>1, <2>1, CountStays, NothingClaimed DEF RowsInv
  <2> QED
    BY <1>1, <2>1, <2>5, <2>6, RowsParts DEF Repairing
<1> QED
  BY <1>2, <1>3, <1>4

\* The audits of rejections come after those of the sources.
LEMMA RecheckClaims ==
    ASSUME CurationInv, RowsInv, Roomy, RejectionAudit \/ RecheckDone, UNCHANGED <<drafting, review, judging>>
    PROVE  RowsInv'
<1> USE DEF Stages
<1>1. profile = "efficient" /\ profile' = profile /\ Named /\ found' = found /\ step = "recheck"
  BY DEF RejectionAudit, RecheckDone, RowsInv, CountInv, CurationInv, PhaseInv, curation, extraction
<1>2. CASE RecheckDone
  <2>1. rows' = rows /\ step' = "curated"
    BY <1>2 DEF RecheckDone
  <2>2. CountInv'
    BY <1>1, <2>1, CountStays, NothingClaimed DEF RowsInv
  <2> QED
    BY <1>1, <2>1, <2>2, RowsParts DEF Repairing
<1>3. CASE RejectionAudit
  <2> DEFINE n == Len(found)
             from == RejectBase
  <2>1. n \in Nat /\ from \in Int /\ 3 * n <= from
    <3>1. n \in Nat
      BY <1>1, ScoutsCounted DEF Curating
    <3> QED
      BY <3>1, LimitsAssumption DEF Roomy
  <2>2. PICK m \in Nat : Indices(rows, "source_audit") = Firsts(n) \cup From(from, m)
    BY <1>1 DEF RowsInv, ScoutRows
  <2>3. PICK next \in {"failed", "recheck"} : Claim(Halves("source_audit", from + 3 * (Tasks("source_audit") - n)), next)
    BY <1>3 DEF RejectionAudit
  <2>4. Firsts(n) \in SUBSET Int /\ Under(Firsts(n), from)
    <3> HIDE DEF n, from
    <3> QED
      BY <2>1 DEF Firsts, From, Under
  <2> HIDE DEF n, from
  <2>5. Tasks("source_audit") = n + m
    BY <1>1, <2>1, <2>2, FirstTasks
  <2>6. from + 3 * (Tasks("source_audit") - n) = from + 3 * m
    BY <2>1, <2>5
  <2>7. Claim(Halves("source_audit", from + 3 * m), next)
    BY <2>3, <2>6
  <2>8. step' = next /\ Named' /\ Indices(rows', "source_audit") = Firsts(n) \cup From(from, m + 1)
    <3>1. "source_audit" \in Stages /\ Named
      BY <1>1
    <3> HIDE DEF Stages
    <3> QED
      BY <2>1, <2>2, <2>4, <2>7, <3>1, NextAdds
  <2>9. m + 1 \in Nat /\ Indices(rows', "source_audit") = Firsts(Len(found')) \cup From(RejectBase, m + 1)
    BY <1>1, <2>8 DEF n, from
  <2>10. step' \in {"failed", "recheck"}
    BY <2>3, <2>8
  <2>11. ScoutRows'
    BY <2>9, <2>10 DEF ScoutRows
  <2>12. CountInv'
    BY <2>8, <2>10, CountStays DEF RowsInv
  <2> QED
    BY <1>1, <2>10, <2>11, <2>12, RowsParts DEF Repairing
<1> QED
  BY <1>2, <1>3

\* A scout of the corrected pipeline claims its own index, once; its curator has
\* one task.
LEMMA CorrectedClaims ==
    ASSUME CurationInv, RowsInv, [Next]_vars, UNCHANGED <<drafting, review, judging>>,
           \/ \E g \in DOMAIN found : ScoutCorrected(g)
           \/ Synthesize \/ DecideAll \/ Materialize \/ MaterializeDone
    PROVE  RowsInv'
<1> USE DEF Stages
<1>1. profile = "corrected" /\ profile' = profile /\ Named
  BY DEF ScoutCorrected, Synthesize, DecideAll, Materialize, MaterializeDone, RowsInv, CountInv, CurationInv, PhaseInv
<1>2. CASE \E g \in DOMAIN found : ScoutCorrected(g)
  <2>1. PICK g \in DOMAIN found : ScoutCorrected(g)
    BY <1>2
  <2>2. PICK next \in {"scout", "curate"} : Claim({<<"scout", g - 1>>}, next)
    BY <2>1 DEF ScoutCorrected
  <2>3. step = "scout" /\ found[g] = None /\ \E s : found' = [found EXCEPT ![g] = s]
    BY <2>1 DEF ScoutCorrected
  <2>4. DOMAIN found = 1..Len(found) /\ Len(found) \in Nat
    BY <2>3, ScoutsCounted DEF Curating
  <2>5. g - 1 \in Int /\ g - 1 \notin Indices(rows, "scout") /\ Indices(rows, "curator") = {}
    BY <1>1, <2>3, <2>4 DEF RowsInv, CorrectedRows
  <2>6. /\ step' = next /\ Named' /\ Indices(rows', "scout") = Indices(rows, "scout") \cup {g - 1}
        /\ \A other \in Stages : other # "scout" => Indices(rows', other) = Indices(rows, other)
    BY <1>1, <2>2, <2>5, OneAdds
  <2>7. step' \in {"scout", "curate"}
    BY <2>2, <2>6
  <2>8. found'[g] # None
    BY <2>1, <2>7, CorrectedEnds DEF CurationInv, Curating
  <2>9. ASSUME NEW h \in DOMAIN found', found'[h] = None  PROVE h - 1 \notin Indices(rows', "scout")
    <3>1. h # g /\ h \in DOMAIN found /\ found[h] = None
      BY <2>3, <2>8, <2>9
    <3>2. h - 1 \notin Indices(rows, "scout")
      BY <1>1, <2>3, <3>1 DEF RowsInv, CorrectedRows
    <3>3. h - 1 # g - 1
      BY <2>4, <3>1
    <3> QED
      BY <2>6, <3>2, <3>3
  <2>10. Indices(rows', "curator") = {}
    BY <2>5, <2>6
  <2>11. CorrectedRows'
    BY <2>7, <2>9, <2>10 DEF CorrectedRows
  <2>12. CountInv'
    BY <2>6, <2>7, CountStays DEF RowsInv
  <2> QED
    BY <1>1, <2>7, <2>11, <2>12, RowsParts DEF Repairing
<1>3. CASE Synthesize \/ (MaterializeDone /\ SynthesisOK(assigned, reqs))
  <2>1. step \in {"curate", "materialize"} /\ Claim({<<"curator", 0>>}, "curated")
    BY <1>3 DEF Synthesize, MaterializeDone
  <2>2. 0 \notin Indices(rows, "curator") /\ 0 \in Int
    BY <1>1, <2>1 DEF RowsInv, CorrectedRows
  <2>3. step' = "curated" /\ Named'
    BY <1>1, <2>1, <2>2, OneAdds
  <2>4. CountInv'
    BY <2>3, CountStays DEF RowsInv
  <2> QED
    BY <1>1, <2>3, <2>4, RowsParts DEF Repairing
<1>4. CASE DecideAll \/ Materialize \/ (MaterializeDone /\ ~SynthesisOK(assigned, reqs))
  <2>1. step \in {"curate", "materialize"} /\ rows' = rows /\ step' \in {"materialize", "failed"}
    BY <1>4 DEF DecideAll, Materialize, MaterializeDone
  <2>2. Indices(rows', "curator") = {}
    BY <1>1, <2>1 DEF RowsInv, CorrectedRows
  <2>3. CorrectedRows'
    BY <2>1, <2>2 DEF CorrectedRows
  <2>4. CountInv'
    BY <1>1, <2>1, CountStays, NothingClaimed DEF RowsInv
  <2> QED
    BY <1>1, <2>1, <2>3, <2>4, RowsParts DEF Repairing
<1> QED
  BY <1>2, <1>3, <1>4

\* The requirements are handed on without the identities claimed for them.
LEMMA HandedRows ==
    ASSUME CurationInv, UndesignedInv, RowsInv, HandOver, UNCHANGED <<drafting, review, judging>>
    PROVE  RowsInv'
<1> USE DEF Stages
<1>1. step = "curated" /\ step' = "design" /\ rows' = {} /\ bundle' = AsSuite(reqs) /\ profile' = profile /\ designed' = 0
  BY DEF HandOver, UndesignedInv, Curating, drafting
<1>2. \A stage : Indices(rows', stage) = {}
  BY <1>1 DEF Indices
<1>3. Named'
  BY <1>1 DEF Named
<1>4. DesignRows'
  <2>1. Firsts(0) = {} /\ 0 \in 0..0
    BY DEF Firsts, From
  <2> QED
    BY <1>1, <1>2, <2>1 DEF DesignRows
<1>5. profile = "corrected" => DOMAIN bundle'.reqs \subseteq Nat
  <2>1. DOMAIN bundle'.reqs = DOMAIN reqs
    BY <1>1 DEF AsSuite, EmptySuite
  <2>2. ASSUME profile = "corrected"  PROVE DOMAIN reqs \subseteq Nat
    <3>1. assigned \in [DOMAIN Candidates -> Nat] /\ SynthesisOK(assigned, reqs)
      BY <1>1, <2>2 DEF CurationInv, AssignedInv
    <3> QED
      BY <3>1 DEF SynthesisOK
  <2> QED
    BY <2>1, <2>2
<1>6. CorrectedRows'
  BY <1>1, <1>5 DEF CorrectedRows
<1>7. CountInv'
  BY <1>1, <1>3, CountStays DEF RowsInv
<1> QED
  BY <1>1, <1>4, <1>6, <1>7, RowsParts DEF Repairing

\* The room of a repair begins where that of the one before ends.
LEMMA Rooms ==
    ASSUME NEW n \in Nat
    PROVE  GapStart(n) \in Nat /\ RepairBase <= GapStart(n) /\ GapStart(n + 1) = GapStart(n) + RepairStride
<1> DEFINE room == n * RepairStride
<1>1. room \in Nat /\ (n + 1) * RepairStride = room + RepairStride /\ RepairStride \in Nat /\ RepairBase \in Nat
  BY IndexAssumption
<1> HIDE DEF room
<1>2. GapStart(n) = RepairBase + room /\ GapStart(n + 1) = RepairBase + (room + RepairStride)
  BY <1>1 DEF GapStart, room
<1> QED
  BY <1>1, <1>2

\* Design tasks are numbered as they come, and are no more than the requirements.
LEMMA DesignClaims ==
    ASSUME DesignInv, RowsInv, Roomy, DesignTask \/ DesignDone, UNCHANGED <<curation, review, judging>>
    PROVE  RowsInv'
<1> USE DEF Stages
<1>1. profile = "efficient" /\ profile' = profile /\ Named /\ step = "design"
  BY DEF DesignTask, DesignDone, RowsInv, CountInv
<1>2. PICK m \in 0..designed : Indices(rows, "test_writer") = Firsts(m)
  BY <1>1 DEF RowsInv, DesignRows
<1>3. Indices(rows, "critic") = {} /\ Indices(rows, "repair") = {} /\ Indices(rows, "scenario_architect") = {}
  BY <1>1 DEF RowsInv, DesignRows
<1> DEFINE items == bundle.reqs
<1>4. Len(items) \in Nat /\ designed \in 0..Len(items) /\ m \in Nat /\ designed \in Nat
  <2>1. Len(items) \in Nat /\ designed \in 0..Len(items)
    BY <1>1, ListedIs DEF DesignInv, Suited
  <2> HIDE DEF items
  <2>2. designed \in Nat
    BY <2>1
  <2> QED
    BY <2>1, <2>2
<1>5. CASE DesignTask
  <2>1. PICK few \in FirstGroups(SubSeq(items, designed + 1, Len(items)), DesignBatch) : designed' = designed + Len(few)
    BY <1>5 DEF DesignTask
  <2>2. designed < Len(items) /\ Claim(Halves("test_writer", 3 * Tasks("test_writer")), "design")
    BY <1>5 DEF DesignTask
  <2> HIDE DEF items
  <2>3. Len(few) \in Nat \ {0}
    BY <1>4, <2>1, <2>2, NextItems, DraftingAssumption
  <2>4. m + 1 \in 0..designed'
    BY <1>2, <1>4, <2>1, <2>3
  <2>5. /\ step' = "design" /\ Named' /\ Indices(rows', "test_writer") = Firsts(m + 1)
        /\ \A other \in Stages : other # "test_writer" => Indices(rows', other) = Indices(rows, other)
    BY <1>1, <1>2, <1>4, <2>2, BatchAdds
  <2>6. Indices(rows', "critic") = {} /\ Indices(rows', "repair") = {} /\ Indices(rows', "scenario_architect") = {}
    BY <1>3, <2>5
  <2>7. DesignRows'
    BY <2>4, <2>5, <2>6 DEF DesignRows
  <2>8. CountInv'
    BY <2>5, CountStays DEF RowsInv
  <2> QED
    BY <1>1, <2>5, <2>7, <2>8, RowsParts DEF Repairing
<1>6. CASE DesignDone
  <2>1. step' \in {"review", "failed"} /\ rows' = rows /\ designed = Len(items)
    BY <1>6 DEF DesignDone
  <2>2. repairs' = repairs /\ repairs \in Nat
    BY DEF RowsInv, CountInv, review, repair
  <2>3. Under(Indices(rows', "test_writer"), GapStart(repairs'))
    <3> DEFINE start == GapStart(repairs)
    <3>1. 3 * designed <= RepairBase /\ RepairBase \in Nat
      BY <2>1, IndexAssumption DEF Roomy
    <3>2. start \in Nat /\ RepairBase <= start
      BY <2>2, Rooms
    <3> HIDE DEF start
    <3>3. \A i \in Firsts(m) : i < start
      BY <1>2, <1>4, <3>1, <3>2 DEF Firsts, From
    <3> QED
      BY <1>2, <2>1, <2>2, <3>3 DEF Under, start
  <2>4. ReviewRows'
    BY <1>3, <2>1, <2>3 DEF ReviewRows, Under, Repairing
  <2>5. CountInv'
    BY <1>1, <2>1, CountStays, NothingClaimed DEF RowsInv
  <2> QED
    BY <1>1, <2>1, <2>4, <2>5, RowsParts DEF Repairing
<1> QED
  BY <1>5, <1>6

\* The corrected pipeline's architect and its writers claim an index each.
LEMMA ArchitectClaims ==
    ASSUME HandedInv, RowsInv, Architect, UNCHANGED <<curation, review, judging>>
    PROVE  RowsInv'
<1> USE DEF Stages
<1>1. profile = "corrected" /\ profile' = profile /\ Named /\ step = "design" /\ rows = {}
  BY DEF Architect, RowsInv, CountInv, CorrectedRows
<1>2. \A stage : Indices(rows, stage) = {}
  BY <1>1 DEF Indices
<1>3. /\ step' = "write" /\ Named'
      /\ \A other \in Stages : other # "scenario_architect" => Indices(rows', other) = Indices(rows, other)
  <2>1. Claim({<<"scenario_architect", 0>>}, "write") /\ 0 \in Int /\ 0 \notin Indices(rows, "scenario_architect")
    BY <1>2 DEF Architect
  <2> QED
    BY <1>1, <2>1, OneAdds
<1>4. Indices(rows', "test_writer") = {} /\ Indices(rows', "critic") = {} /\ Indices(rows', "repair") = {}
  BY <1>2, <1>3
<1>5. DOMAIN bundle'.reqs \subseteq Nat /\ DOMAIN bundle'.scns \subseteq Nat
  <2>1. PICK scns \in ScenarioAnswers(Ids(bundle.reqs)) : bundle' = [bundle EXCEPT !.scns = scns]
    BY DEF Architect
  <2>2. bundle = [reqs |-> bundle.reqs, scns |-> bundle.scns, tests |-> bundle.tests]
    BY <1>1 DEF HandedInv, Whole
  <2>3. bundle'.reqs = bundle.reqs /\ bundle'.scns = scns
    BY <2>1, <2>2
  <2>4. Len(scns) \in Nat /\ DOMAIN scns = 1..Len(scns)
    BY AnswersListed, ListedIs
  <2>5. DOMAIN bundle.reqs \subseteq Nat
    BY <1>1 DEF RowsInv, CorrectedRows
  <2> QED
    BY <2>3, <2>4, <2>5
<1>6. CorrectedRows'
  BY <1>3, <1>4, <1>5 DEF CorrectedRows
<1>7. CountInv'
  BY <1>3, CountStays DEF RowsInv
<1> QED
  BY <1>1, <1>3, <1>6, <1>7, RowsParts DEF Repairing

\* A writer that ends has claimed its index, and is not asked again.
LEMMA WriterClaims ==
    ASSUME WritingInv, RowsInv, NEW g \in DOMAIN written, WriteTests(g), UNCHANGED <<curation, review, judging>>
    PROVE  RowsInv'
<1> USE DEF Stages
<1>1. /\ profile = "corrected" /\ profile' = profile /\ Named /\ step = "write" /\ written[g] = None
      /\ bundle' = bundle /\ Claim({<<"test_writer", g - 1>>}, "write")
  BY DEF WriteTests, RowsInv, CountInv, WritingInv
<1>2. PICK tests \in TestAnswers(shares[g]) : written' = [written EXCEPT ![g] = tests]
  BY DEF WriteTests
<1>3. /\ DOMAIN bundle.reqs \subseteq Nat /\ DOMAIN bundle.scns \subseteq Nat
      /\ Indices(rows, "critic") = {} /\ Indices(rows, "repair") = {}
      /\ \A h \in DOMAIN written : written[h] = None => h - 1 \notin Indices(rows, "test_writer")
  BY <1>1 DEF RowsInv, CorrectedRows
<1>4. Dealt(bundle.scns, shares) /\ DOMAIN written = DOMAIN shares /\ Links(bundle.scns) = DOMAIN bundle.reqs /\ Counted(bundle.scns)
  BY <1>1 DEF WritingInv
<1>5. \A h \in DOMAIN written : h \in Int
  BY <1>4, ListedIs DEF Dealt
<1>6. /\ step' = "write" /\ Named' /\ Indices(rows', "test_writer") = Indices(rows, "test_writer") \cup {g - 1}
      /\ \A other \in Stages : other # "test_writer" => Indices(rows', other) = Indices(rows, other)
  <2>1. g - 1 \in Int /\ g - 1 \notin Indices(rows, "test_writer")
    BY <1>1, <1>3, <1>5
  <2> QED
    BY <1>1, <2>1, OneAdds
<1>7. tests # None
  <2> DEFINE Case == [id : Nat, text : Nat, cites : Nat \cup {Ungrounded}, scn : Nat, reqs : SUBSET Nat]
  <2>1. ASSUME NEW i \in DOMAIN tests  PROVE tests[i] \in Case
    <3>1. PICK k, s : /\ tests[i] = [id |-> i, text |-> 0, cites |-> 0, scn |-> k, reqs |-> s]
                      /\ \E scn \in ToSet(shares[g]) : k = scn.id /\ s \subseteq scn.reqs
      BY TestAnswer
    <3>2. PICK scn \in ToSet(bundle.scns) : k = scn.id /\ s \subseteq scn.reqs
      BY <1>4, <3>1 DEF Dealt
    <3>3. PICK j \in DOMAIN bundle.scns : scn = bundle.scns[j]
      BY DEF ToSet
    <3>4. k \in Nat
      BY <1>3, <1>4, <3>2, <3>3 DEF Counted
    <3>5. s \in SUBSET Nat
      <4>1. scn.reqs \subseteq Links(bundle.scns)
        BY <3>3, LinksAre
      <4> QED
        BY <1>3, <1>4, <3>2, <4>1
    <3>6. i \in Nat
      BY AnswersListed, ListedIs
    <3> QED
      BY <3>1, <3>4, <3>5, <3>6
  <2>2. Len(tests) \in Nat /\ DOMAIN tests = 1..Len(tests) /\ tests = [i \in 1..Len(tests) |-> tests[i]]
    BY AnswersListed, ListedIs
  <2>3. tests \in Seq(Case)
    <3> HIDE DEF Case
    <3> QED
      BY <2>1, <2>2
  <2> QED
    BY <2>3, UnwrittenAssumption
<1>8. ASSUME NEW h \in DOMAIN written', written'[h] = None  PROVE h - 1 \notin Indices(rows', "test_writer")
  <2>1. h # g /\ h \in DOMAIN written /\ written[h] = None
    BY <1>2, <1>7, <1>8
  <2>2. h - 1 # g - 1
    BY <1>5, <2>1
  <2> QED
    BY <1>3, <1>6, <2>1, <2>2
<1>9. Indices(rows', "critic") = {} /\ Indices(rows', "repair") = {}
  BY <1>3, <1>6
<1>10. CorrectedRows'
  BY <1>1, <1>3, <1>6, <1>8, <1>9 DEF CorrectedRows
<1>11. CountInv'
  BY <1>6, CountStays DEF RowsInv
<1> QED
  BY <1>1, <1>6, <1>10, <1>11, RowsParts DEF Repairing

\* The other ends of a draft claim nothing.
LEMMA DraftedRows ==
    ASSUME ReviewInv, RowsInv, Assemble \/ SingleAnswer, UNCHANGED <<curation, review, judging>>
    PROVE  RowsInv'
<1>1. rows' = rows /\ profile' = profile /\ Named
  BY DEF Assemble, SingleAnswer, RowsInv, CountInv
<1>2. CASE Assemble
  <2>1. step = "write" /\ step' = "review" /\ profile = "corrected"
    BY <1>2 DEF Assemble, ReviewInv, ReportInv
  <2>2. CorrectedRows'
    BY <1>1, <2>1 DEF CorrectedRows, RowsInv
  <2>3. CountInv'
    BY <1>1, <2>1, CountStays, NothingClaimed DEF RowsInv
  <2> QED
    BY <1>1, <2>1, <2>2, <2>3, RowsParts DEF Repairing
<1>3. CASE SingleAnswer
  <2>1. step = "scout" /\ step' = "check" /\ profile = "single"
    BY <1>3 DEF SingleAnswer
  <2>2. \A stage : Indices(rows', stage) = {}
    BY <1>1, <2>1 DEF JudgeRows, RowsInv, Indices
  <2>3. JudgeRows'
    BY <2>1, <2>2 DEF JudgeRows
  <2>4. CountInv'
    BY <1>1, <2>1, CountStays, NothingClaimed DEF RowsInv
  <2> QED
    BY <1>1, <2>1, <2>3, <2>4, RowsParts DEF Repairing
<1> QED
  BY <1>2, <1>3

\* Each stage of a single agent is one task.
LEMMA StagedClaims ==
    ASSUME RowsInv, StagedRequirements \/ StagedScenarios \/ StagedTests, UNCHANGED <<curation, review, judging>>
    PROVE  RowsInv'
<1> USE DEF Stages
<1>1. profile' = profile /\ Named /\ 0 \in Int
  BY DEF StagedRequirements, StagedScenarios, StagedTests, RowsInv, CountInv
<1>2. CASE StagedRequirements
  <2>1. profile = "staged" /\ step = "scout" /\ Claim({<<"requirements", 0>>}, "scenarios")
    BY <1>2 DEF StagedRequirements
  <2>2. \A stage : Indices(rows, stage) = {}
    BY <2>1 DEF JudgeRows, RowsInv, Indices
  <2>3. /\ step' = "scenarios" /\ Named'
        /\ \A other \in Stages : other # "requirements" => Indices(rows', other) = Indices(rows, other)
    BY <1>1, <2>1, <2>2, OneAdds
  <2>4. JudgeRows'
    BY <2>2, <2>3 DEF JudgeRows
  <2>5. CountInv'
    BY <2>3, CountStays DEF RowsInv
  <2> QED
    BY <2>3, <2>4, <2>5, RowsParts DEF Repairing
<1>3. CASE StagedScenarios
  <2>1. step = "scenarios" /\ Claim({<<"scenarios", 0>>}, "tests")
    BY <1>3 DEF StagedScenarios
  <2>2. \A stage \in {"scenarios", "test_cases", "catalog", "evaluation"} : Indices(rows, stage) = {}
    BY <2>1 DEF JudgeRows, RowsInv
  <2>3. /\ step' = "tests" /\ Named'
        /\ \A other \in Stages : other # "scenarios" => Indices(rows', other) = Indices(rows, other)
    BY <1>1, <2>1, <2>2, OneAdds
  <2>4. JudgeRows'
    BY <2>2, <2>3 DEF JudgeRows
  <2>5. CountInv'
    BY <2>3, CountStays DEF RowsInv
  <2> QED
    BY <2>3, <2>4, <2>5, RowsParts DEF Repairing
<1>4. CASE StagedTests
  <2>1. step = "tests" /\ Claim({<<"test_cases", 0>>}, "check")
    BY <1>4 DEF StagedTests
  <2>2. \A stage \in {"test_cases", "catalog", "evaluation"} : Indices(rows, stage) = {}
    BY <2>1 DEF JudgeRows, RowsInv
  <2>3. /\ step' = "check" /\ Named'
        /\ \A other \in Stages : other # "test_cases" => Indices(rows', other) = Indices(rows, other)
    BY <1>1, <2>1, <2>2, OneAdds
  <2>4. JudgeRows'
    BY <2>2, <2>3 DEF JudgeRows
  <2>5. CountInv'
    BY <2>3, CountStays DEF RowsInv
  <2> QED
    BY <2>3, <2>4, <2>5, RowsParts DEF Repairing
<1> QED
  BY <1>2, <1>3, <1>4

\* Indices are integers, so what is under one is under a larger one.
LEMMA UnderMore ==
    ASSUME Named, NEW stage \in Stages, NEW a \in Int, NEW b \in Int, a <= b, Under(Indices(rows, stage), a)
    PROVE  Under(Indices(rows, stage), b)
<1>1. \A i \in Indices(rows, stage) : <<stage, i>> \in rows
  BY StageRows DEF Named
<1>2. \A i \in Indices(rows, stage) : i \in Int /\ i < a
  BY <1>1 DEF Named, Under
<1>3. \A i \in Int : i < a => i < b
  OBVIOUS
<1> QED
  BY <1>2, <1>3 DEF Under

\* One claim above all indices of its stage.
LEMMA OneAbove ==
    ASSUME Named, NEW stage \in Stages, NEW index \in Int, NEW next, Claim({<<stage, index>>}, next),
           Under(Indices(rows, stage), index)
    PROVE  /\ step' = next /\ Named' /\ Under(Indices(rows', stage), index + 1)
           /\ \A other \in Stages : other # stage => Indices(rows', other) = Indices(rows, other)
<1>1. index \notin Indices(rows, stage) /\ index <= index + 1 /\ index + 1 \in Int /\ index < index + 1
  <2>1. ~(index < index)
    OBVIOUS
  <2>2. index \notin Indices(rows, stage)
    BY <2>1 DEF Under
  <2> QED
    BY <2>2
<1>2. /\ step' = next /\ Named' /\ Indices(rows', stage) = Indices(rows, stage) \cup {index}
      /\ \A other \in Stages : other # stage => Indices(rows', other) = Indices(rows, other)
  BY <1>1, OneAdds
<1>3. Under(Indices(rows, stage), index + 1)
  BY <1>1, UnderMore
<1> QED
  BY <1>1, <1>2, <1>3 DEF Under

\* A critic task has three indices; a review that ends leaves room for the
\* verifications, which have one each.
LEMMA CriticClaims ==
    ASSUME ReviewInv, RowsInv, CriticTask \/ CriticDone, UNCHANGED <<curation, drafting, judging>>
    PROVE  RowsInv'
<1> USE DEF Stages
<1>1. /\ profile = "efficient" /\ profile' = profile /\ Named /\ step = "review" /\ critiques \in Nat
      /\ repairs \in Nat /\ repairs' = repairs /\ extracted' = extracted /\ extracted \in Nat
  BY DEF CriticTask, CriticDone, RowsInv, CountInv, ReviewInv, ReportInv, repair, judging
<1>2. /\ Under(Indices(rows, "critic"), 3 * critiques + 0) /\ Indices(rows, "repair") = {}
      /\ Under(Indices(rows, "scenario_architect"), GapStart(repairs))
      /\ Under(Indices(rows, "test_writer"), GapStart(repairs))
  BY <1>1 DEF RowsInv, ReviewRows
<1>3. CASE CriticTask
  <2> DEFINE index == 3 * critiques
  <2>1. /\ index \in Int /\ Claim(Halves("critic", index), "review") /\ critiques' = critiques + 1
        /\ 3 * critiques + 0 = index /\ index + 3 = 3 * (critiques + 1) + 0
    BY <1>1, <1>3 DEF CriticTask
  <2> HIDE DEF index
  <2>2. /\ step' = "review" /\ Named' /\ Under(Indices(rows', "critic"), index + 3)
        /\ \A other \in Stages : other # "critic" => Indices(rows', other) = Indices(rows, other)
    BY <1>1, <1>2, <2>1, AboveAdds
  <2>3. Under(Indices(rows', "critic"), 3 * critiques' + 0)
    BY <2>1, <2>2
  <2>4. /\ Indices(rows', "repair") = {}
        /\ Under(Indices(rows', "scenario_architect"), GapStart(repairs'))
        /\ Under(Indices(rows', "test_writer"), GapStart(repairs'))
    BY <1>1, <1>2, <2>2
  <2>5. ReviewRows'
    BY <2>2, <2>3, <2>4 DEF ReviewRows
  <2>6. CountInv'
    BY <1>1, <2>2 DEF CountInv
  <2> QED
    BY <1>1, <2>2, <2>5, <2>6, RowsParts DEF Repairing
<1>4. CASE CriticDone
  <2>1. step' \in {"finish", "repair"} /\ rows' = rows /\ critiques' = critiques
    BY <1>4 DEF CriticDone, critic
  <2>2. Under(Indices(rows, "critic"), 3 * critiques + repairs)
    <3>1. 3 * critiques + 0 \in Int /\ 3 * critiques + repairs \in Int /\ 3 * critiques + 0 <= 3 * critiques + repairs
      BY <1>1
    <3> QED
      BY <1>1, <1>2, <3>1, UnderMore
  <2>3. /\ Under(Indices(rows', "critic"), 3 * critiques' + repairs') /\ Under(Indices(rows', "repair"), 3 * repairs')
        /\ Under(Indices(rows', "scenario_architect"), GapStart(repairs'))
        /\ Under(Indices(rows', "test_writer"), GapStart(repairs'))
    BY <1>1, <1>2, <2>1, <2>2 DEF Under
  <2>4. ReviewRows'
    BY <2>1, <2>3 DEF ReviewRows
  <2>5. CountInv'
    BY <1>1, <2>1, NothingClaimed DEF CountInv
  <2> QED
    BY <1>1, <2>1, <2>4, <2>5, RowsParts DEF Repairing
<1> QED
  BY <1>3, <1>4

\* What a group of findings begins with: nothing added yet.
LEMMA GroupRows ==
    ASSUME ReviewInv, RowsInv, NextRepair, UNCHANGED <<curation, drafting, judging>>
    PROVE  RowsInv'
<1> USE DEF Stages
<1>1. /\ profile = "efficient" /\ profile' = profile /\ Named /\ step = "repair" /\ critiques' = critiques
      /\ repairs \in Nat /\ repairs' = repairs /\ extracted' = extracted /\ extracted \in Nat /\ rows' = rows
      /\ step' \in {"expand", "patch"} /\ (step' = "expand" => gap'.tasks = 0)
  BY DEF NextRepair, NewGap, RowsInv, CountInv, critic, judging
<1>2. /\ Under(Indices(rows, "critic"), 3 * critiques + repairs) /\ Under(Indices(rows, "repair"), 3 * repairs)
      /\ Under(Indices(rows, "scenario_architect"), GapStart(repairs))
      /\ Under(Indices(rows, "test_writer"), GapStart(repairs))
  BY <1>1 DEF RowsInv, ReviewRows, Repairing
<1>3. GapStart(repairs) + 3 * 0 = GapStart(repairs)
  <2> DEFINE start == GapStart(repairs)
  <2>1. start \in Nat
    BY <1>1, Rooms
  <2> HIDE DEF start
  <2>2. start + 3 * 0 = start
    BY <2>1
  <2> QED
    BY <2>2 DEF start
<1>4. ReviewRows'
  BY <1>1, <1>2, <1>3 DEF ReviewRows
<1>5. CountInv'
  BY <1>1, NothingClaimed DEF CountInv
<1> QED
  BY <1>1, <1>4, <1>5, RowsParts DEF Repairing

\* A patch has the indices of its repair.
LEMMA PatchClaims ==
    ASSUME ReviewInv, RowsInv, Patch, UNCHANGED <<curation, drafting, judging>>
    PROVE  RowsInv'
<1> USE DEF Stages
<1>1. /\ profile = "efficient" /\ profile' = profile /\ Named /\ step = "patch" /\ critiques' = critiques
      /\ repairs \in Nat /\ repairs' = repairs /\ extracted' = extracted /\ extracted \in Nat
  BY DEF Patch, RowsInv, CountInv, ReviewInv, ReportInv, review, critic, repair, judging
<1>2. /\ Under(Indices(rows, "critic"), 3 * critiques + repairs) /\ Under(Indices(rows, "repair"), 3 * repairs)
      /\ Under(Indices(rows, "scenario_architect"), GapStart(repairs))
      /\ Under(Indices(rows, "test_writer"), GapStart(repairs))
  BY <1>1 DEF RowsInv, ReviewRows, Repairing
<1>3. /\ Under(Indices(rows, "scenario_architect"), GapStart(repairs + 1))
      /\ Under(Indices(rows, "test_writer"), GapStart(repairs + 1))
  <2> DEFINE start == GapStart(repairs)
             end == GapStart(repairs + 1)
  <2>1. start \in Int /\ end \in Int /\ start <= end
    <3>1. start \in Nat /\ end = start + RepairStride /\ RepairStride \in Nat
      BY <1>1, Rooms, IndexAssumption
    <3> HIDE DEF start, end
    <3> QED
      BY <3>1
  <2>2. Under(Indices(rows, "scenario_architect"), start) /\ Under(Indices(rows, "test_writer"), start)
    BY <1>2
  <2> HIDE DEF start, end
  <2>3. Under(Indices(rows, "scenario_architect"), end) /\ Under(Indices(rows, "test_writer"), end)
    BY <1>1, <2>1, <2>2, UnderMore
  <2> QED
    BY <2>3 DEF end
<1> DEFINE index == 3 * repairs
<1>4. index \in Int /\ index + 3 = 3 * (repairs + 1) /\ Under(Indices(rows, "repair"), index)
  BY <1>1, <1>2
<1>5. PICK next \in {"verify", "failed"} : Claim(Halves("repair", index), next)
  BY DEF Patch
<1> HIDE DEF index
<1>6. /\ step' = next /\ Named' /\ Under(Indices(rows', "repair"), index + 3)
      /\ \A other \in Stages : other # "repair" => Indices(rows', other) = Indices(rows, other)
  BY <1>1, <1>4, <1>5, AboveAdds
<1>7. /\ Under(Indices(rows', "critic"), 3 * critiques' + repairs') /\ Under(Indices(rows', "repair"), 3 * (repairs' + 1))
      /\ Under(Indices(rows', "scenario_architect"), GapStart(repairs' + 1))
      /\ Under(Indices(rows', "test_writer"), GapStart(repairs' + 1))
  BY <1>1, <1>2, <1>3, <1>4, <1>6
<1>8. ReviewRows'
  BY <1>5, <1>6, <1>7 DEF ReviewRows, Repairing
<1>9. CountInv'
  BY <1>1, <1>5, <1>6 DEF CountInv
<1> QED
  BY <1>1, <1>5, <1>6, <1>8, <1>9, RowsParts DEF Repairing

\* What the additions of a repair ask for has indices within its room.
LEMMA GapClaims ==
    ASSUME ReviewInv, RowsInv, Roomy, GapScenarios \/ GapTargets, UNCHANGED <<curation, drafting, judging>>
    PROVE  RowsInv'
<1> USE DEF Stages
<1>1. /\ profile = "efficient" /\ profile' = profile /\ Named /\ step = "expand" /\ critiques' = critiques
      /\ repairs \in Nat /\ repairs' = repairs /\ extracted' = extracted /\ extracted \in Nat
  BY DEF GapScenarios, GapTargets, RowsInv, CountInv, ReviewInv, ReportInv, critic, judging
<1>2. gap.tasks \in Nat /\ 3 * gap.tasks <= RepairStride /\ DOMAIN gap = {"left", "tasks", "scns", "targets", "tested", "tests"}
  BY <1>1 DEF RowsInv, CountInv, Roomy, ReviewInv, SuiteInv, Adding
<1> DEFINE start == GapStart(repairs)
           end == GapStart(repairs + 1)
           n == gap.tasks
<1>3. /\ Under(Indices(rows, "critic"), 3 * critiques + repairs) /\ Under(Indices(rows, "repair"), 3 * repairs)
      /\ Under(Indices(rows, "scenario_architect"), start + 3 * n)
      /\ Under(Indices(rows, "test_writer"), start)
  BY <1>1 DEF RowsInv, ReviewRows, Repairing
<1>4. start \in Nat /\ end = start + RepairStride /\ RepairStride \in Nat /\ n \in Nat /\ 3 * n <= RepairStride
  BY <1>1, <1>2, Rooms, IndexAssumption
<1>5. CASE GapScenarios
  <2> DEFINE index == start + 3 * n
  <2>1. Claim(Halves("scenario_architect", index), "expand")
    <3>1. GapIndex(gap.tasks) = index
      BY DEF GapIndex, GapStart
    <3> QED
      BY <1>5, <3>1 DEF GapScenarios
  <2>2. gap'.tasks = n + 1
    <3>1. \E left, scns : gap' = [gap EXCEPT !.left = left, !.tasks = @ + 1, !.scns = scns]
      BY <1>5 DEF GapScenarios
    <3> QED
      BY <1>2, <3>1
  <2> HIDE DEF start, end, n
  <2>3. index \in Int /\ index + 3 = start + 3 * (n + 1) /\ n + 1 \in Nat
    BY <1>4
  <2>4. Under(Indices(rows, "scenario_architect"), index)
    BY <1>3
  <2> HIDE DEF index
  <2>5. /\ step' = "expand" /\ Named' /\ Under(Indices(rows', "scenario_architect"), index + 3)
        /\ \A other \in Stages : other # "scenario_architect" => Indices(rows', other) = Indices(rows, other)
    BY <1>1, <2>1, <2>3, <2>4, AboveAdds
  <2>6. /\ Under(Indices(rows', "critic"), 3 * critiques' + repairs') /\ Under(Indices(rows', "repair"), 3 * repairs')
        /\ Under(Indices(rows', "scenario_architect"), GapStart(repairs') + 3 * gap'.tasks)
        /\ Under(Indices(rows', "test_writer"), GapStart(repairs'))
    BY <1>1, <1>3, <2>2, <2>3, <2>5 DEF start
  <2>7. ReviewRows'
    BY <2>5, <2>6 DEF ReviewRows
  <2>8. CountInv'
    BY <1>1, <2>2, <2>3, <2>5 DEF CountInv
  <2> QED
    BY <1>1, <2>5, <2>7, <2>8, RowsParts DEF Repairing
<1>6. CASE GapTargets
  <2>1. rows' = rows /\ step' \in {"failed", "expand_tests"}
    BY <1>6 DEF GapTargets
  <2>2. gap'.tasks = 0
    <3>1. \E targets : gap' = [gap EXCEPT !.targets = targets, !.tasks = 0]
      BY <1>6 DEF GapTargets
    <3> QED
      BY <1>2, <3>1
  <2> HIDE DEF start, end, n
  <2>3. start + 3 * n \in Int /\ end \in Int /\ start + 3 * n <= end /\ start + 3 * 0 = start
    BY <1>4
  <2>4. Under(Indices(rows, "scenario_architect"), end)
    BY <1>1, <1>3, <2>3, UnderMore
  <2>5. /\ Under(Indices(rows', "critic"), 3 * critiques' + repairs') /\ Under(Indices(rows', "repair"), 3 * repairs')
        /\ Under(Indices(rows', "scenario_architect"), GapStart(repairs' + 1))
        /\ Under(Indices(rows', "test_writer"), GapStart(repairs') + 3 * gap'.tasks)
    BY <1>1, <1>3, <2>1, <2>2, <2>3, <2>4 DEF start, end
  <2>6. ReviewRows'
    BY <2>1, <2>5 DEF ReviewRows, Repairing
  <2>7. CountInv'
    BY <1>1, <2>1, <2>2, NothingClaimed DEF CountInv
  <2> QED
    BY <1>1, <2>1, <2>6, <2>7, RowsParts DEF Repairing
<1> QED
  BY <1>5, <1>6

\* So have the test cases that are added.
LEMMA GapTestClaims ==
    ASSUME ReviewInv, RowsInv, Roomy, GapTests \/ GapDone, UNCHANGED <<curation, drafting, judging>>
    PROVE  RowsInv'
<1> USE DEF Stages
<1>1. /\ profile = "efficient" /\ profile' = profile /\ Named /\ step = "expand_tests" /\ critiques' = critiques
      /\ repairs \in Nat /\ repairs' = repairs /\ extracted' = extracted /\ extracted \in Nat
  BY DEF GapTests, GapDone, RowsInv, CountInv, ReviewInv, ReportInv, critic, judging
<1>2. gap.tasks \in Nat /\ 3 * gap.tasks <= RepairStride /\ DOMAIN gap = {"left", "tasks", "scns", "targets", "tested", "tests"}
  BY <1>1 DEF RowsInv, CountInv, Roomy, ReviewInv, SuiteInv, Adding
<1> DEFINE start == GapStart(repairs)
           end == GapStart(repairs + 1)
           n == gap.tasks
<1>3. /\ Under(Indices(rows, "critic"), 3 * critiques + repairs) /\ Under(Indices(rows, "repair"), 3 * repairs)
      /\ Under(Indices(rows, "scenario_architect"), end)
      /\ Under(Indices(rows, "test_writer"), start + 3 * n)
  BY <1>1 DEF RowsInv, ReviewRows, Repairing
<1>4. start \in Nat /\ end = start + RepairStride /\ RepairStride \in Nat /\ n \in Nat /\ 3 * n <= RepairStride
  BY <1>1, <1>2, Rooms, IndexAssumption
<1>5. CASE GapTests
  <2> DEFINE index == start + 3 * n
  <2>1. Claim(Halves("test_writer", index), "expand_tests")
    <3>1. GapIndex(gap.tasks) = index
      BY DEF GapIndex, GapStart
    <3> QED
      BY <1>5, <3>1 DEF GapTests
  <2>2. gap'.tasks = n + 1
    <3>1. \E tested, tests : gap' = [gap EXCEPT !.tested = tested, !.tasks = @ + 1, !.tests = tests]
      BY <1>5 DEF GapTests
    <3> QED
      BY <1>2, <3>1
  <2> HIDE DEF start, end, n
  <2>3. index \in Int /\ index + 3 = start + 3 * (n + 1) /\ n + 1 \in Nat
    BY <1>4
  <2>4. Under(Indices(rows, "test_writer"), index)
    BY <1>3
  <2> HIDE DEF index
  <2>5. /\ step' = "expand_tests" /\ Named' /\ Under(Indices(rows', "test_writer"), index + 3)
        /\ \A other \in Stages : other # "test_writer" => Indices(rows', other) = Indices(rows, other)
    BY <1>1, <2>1, <2>3, <2>4, AboveAdds
  <2>6. /\ Under(Indices(rows', "critic"), 3 * critiques' + repairs') /\ Under(Indices(rows', "repair"), 3 * repairs')
        /\ Under(Indices(rows', "scenario_architect"), GapStart(repairs' + 1))
        /\ Under(Indices(rows', "test_writer"), GapStart(repairs') + 3 * gap'.tasks)
    BY <1>1, <1>3, <2>2, <2>3, <2>5 DEF start, end
  <2>7. ReviewRows'
    BY <2>5, <2>6 DEF ReviewRows
  <2>8. CountInv'
    BY <1>1, <2>2, <2>3, <2>5 DEF CountInv
  <2> QED
    BY <1>1, <2>5, <2>7, <2>8, RowsParts DEF Repairing
<1>6. CASE GapDone
  <2>1. rows' = rows /\ step' \in {"failed", "verify"}
    BY <1>6 DEF GapDone
  <2> HIDE DEF start, end, n
  <2>2. start + 3 * n \in Int /\ end \in Int /\ start + 3 * n <= end
    BY <1>4
  <2>3. Under(Indices(rows, "test_writer"), end)
    BY <1>1, <1>3, <2>2, UnderMore
  <2>4. Under(Indices(rows, "repair"), 3 * (repairs + 1))
    <3>1. 3 * repairs \in Int /\ 3 * (repairs + 1) \in Int /\ 3 * repairs <= 3 * (repairs + 1)
      BY <1>1
    <3> QED
      BY <1>1, <1>3, <3>1, UnderMore
  <2>5. /\ Under(Indices(rows', "critic"), 3 * critiques' + repairs') /\ Under(Indices(rows', "repair"), 3 * (repairs' + 1))
        /\ Under(Indices(rows', "scenario_architect"), GapStart(repairs' + 1))
        /\ Under(Indices(rows', "test_writer"), GapStart(repairs' + 1))
    BY <1>1, <1>3, <2>1, <2>3, <2>4 DEF start, end
  <2>6. ReviewRows'
    BY <2>1, <2>5 DEF ReviewRows, Repairing
  <2>7. CountInv'
    BY <1>1, <2>1, NothingClaimed DEF CountInv
  <2> QED
    BY <1>1, <2>1, <2>6, <2>7, RowsParts DEF Repairing
<1> QED
  BY <1>5, <1>6

\* A verification has the index after those of the critic's tasks and of the
\* verifications before it.
LEMMA VerifyClaims ==
    ASSUME ReviewInv, RowsInv, Verify, UNCHANGED <<curation, drafting, judging>>
    PROVE  RowsInv'
<1> USE DEF Stages
<1>1. /\ profile = "efficient" /\ profile' = profile /\ Named /\ step = "verify" /\ critiques' = critiques
      /\ repairs \in Nat /\ repairs' = repairs + 1 /\ extracted' = extracted /\ extracted \in Nat /\ critiques \in Nat
  BY DEF Verify, RowsInv, CountInv, ReviewInv, ReportInv, critic, judging
<1>2. /\ Under(Indices(rows, "critic"), 3 * critiques + repairs) /\ Under(Indices(rows, "repair"), 3 * (repairs + 1))
      /\ Under(Indices(rows, "scenario_architect"), GapStart(repairs + 1))
      /\ Under(Indices(rows, "test_writer"), GapStart(repairs + 1))
  BY <1>1 DEF RowsInv, ReviewRows, Repairing
<1> DEFINE index == 3 * critiques + repairs
<1>3. index \in Int /\ index + 1 = 3 * critiques + (repairs + 1) /\ Under(Indices(rows, "critic"), index) /\ repairs + 1 \in Nat
  BY <1>1, <1>2
<1>4. PICK next \in {"repair", "finish", "failed"} : Claim({<<"critic", index>>}, next)
  BY DEF Verify
<1> HIDE DEF index
<1>5. /\ step' = next /\ Named' /\ Under(Indices(rows', "critic"), index + 1)
      /\ \A other \in Stages : other # "critic" => Indices(rows', other) = Indices(rows, other)
  BY <1>1, <1>3, <1>4, OneAbove
<1>6. /\ Under(Indices(rows', "critic"), 3 * critiques' + repairs') /\ Under(Indices(rows', "repair"), 3 * repairs')
      /\ Under(Indices(rows', "scenario_architect"), GapStart(repairs'))
      /\ Under(Indices(rows', "test_writer"), GapStart(repairs'))
  BY <1>1, <1>2, <1>3, <1>5
<1>7. ReviewRows'
  BY <1>4, <1>5, <1>6 DEF ReviewRows, Repairing
<1>8. CountInv'
  BY <1>1, <1>3, <1>4, <1>5 DEF CountInv
<1> QED
  BY <1>1, <1>4, <1>5, <1>7, <1>8, RowsParts DEF Repairing

\* The corrected pipeline asks its critic once for a report and once for a
\* verification, and once for each repair between.
LEMMA CorrectedReviews ==
    ASSUME ReviewInv, RowsInv, CritiqueSuite \/ RepairRole \/ RepairsDone \/ VerifyAll, UNCHANGED <<curation, drafting, judging>>
    PROVE  RowsInv'
<1> USE DEF Stages
<1>1. /\ profile = "corrected" /\ profile' = profile /\ Named /\ repairs \in Nat /\ extracted' = extracted /\ extracted \in Nat
  BY DEF CritiqueSuite, RepairRole, RepairsDone, VerifyAll, RowsInv, CountInv, ReviewInv, ReportInv, judging
<1>2. CASE CritiqueSuite
  <2>1. step = "review" /\ repairs' = repairs
    BY <1>2 DEF CritiqueSuite
  <2>2. PICK next \in {"finish", "repair"} : Claim({<<"critic", 0>>}, next)
    BY <1>2 DEF CritiqueSuite
  <2>3. Indices(rows, "critic") = {} /\ Indices(rows, "repair") = {} /\ 0 \in Int
    BY <1>1, <2>1 DEF RowsInv, CorrectedRows
  <2>4. /\ step' = next /\ Named' /\ Indices(rows', "critic") = {} \cup {0}
        /\ \A other \in Stages : other # "critic" => Indices(rows', other) = Indices(rows, other)
    BY <1>1, <2>2, <2>3, OneAdds
  <2>5. 1 \notin Indices(rows', "critic") /\ Under(Indices(rows', "repair"), repairs')
    BY <2>3, <2>4 DEF Under
  <2>6. CorrectedRows'
    BY <2>2, <2>4, <2>5 DEF CorrectedRows
  <2>7. CountInv'
    BY <1>1, <2>1, <2>2, <2>4 DEF CountInv
  <2> QED
    BY <1>1, <2>2, <2>4, <2>6, <2>7, RowsParts DEF Repairing
<1>3. CASE RepairRole
  <2>1. step = "repair" /\ repairs' = repairs + 1 /\ Claim({<<"repair", repairs>>}, "repair") /\ repairs \in Int
    BY <1>1, <1>3 DEF RepairRole
  <2>2. 1 \notin Indices(rows, "critic") /\ Under(Indices(rows, "repair"), repairs)
    BY <1>1, <2>1 DEF RowsInv, CorrectedRows
  <2>3. /\ step' = "repair" /\ Named' /\ Under(Indices(rows', "repair"), repairs + 1)
        /\ \A other \in Stages : other # "repair" => Indices(rows', other) = Indices(rows, other)
    BY <1>1, <2>1, <2>2, OneAbove
  <2>4. 1 \notin Indices(rows', "critic") /\ Under(Indices(rows', "repair"), repairs') /\ repairs' \in Nat
    BY <1>1, <2>1, <2>2, <2>3
  <2>5. CorrectedRows'
    BY <2>3, <2>4 DEF CorrectedRows
  <2>6. CountInv'
    BY <1>1, <2>3, <2>4 DEF CountInv
  <2> QED
    BY <1>1, <2>3, <2>5, <2>6, RowsParts DEF Repairing
<1>4. CASE RepairsDone
  <2>1. step = "repair" /\ rows' = rows /\ repairs' = repairs /\ step' \in {"verify_all", "failed"}
    BY <1>4 DEF RepairsDone, review, repair
  <2>2. 1 \notin Indices(rows', "critic")
    BY <1>1, <2>1 DEF RowsInv, CorrectedRows
  <2>3. CorrectedRows'
    BY <2>1, <2>2 DEF CorrectedRows
  <2>4. CountInv'
    BY <1>1, <2>1, NothingClaimed DEF CountInv
  <2> QED
    BY <1>1, <2>1, <2>3, <2>4, RowsParts DEF Repairing
<1>5. CASE VerifyAll
  <2>1. step = "verify_all" /\ repairs' = repairs /\ 1 \in Int
    BY <1>5 DEF VerifyAll, repair
  <2>2. PICK next \in {"finish", "failed"} : Claim({<<"critic", 1>>}, next)
    BY <1>5 DEF VerifyAll
  <2>3. 1 \notin Indices(rows, "critic")
    BY <1>1, <2>1 DEF RowsInv, CorrectedRows
  <2>4. step' = next /\ Named'
    BY <1>1, <2>1, <2>2, <2>3, OneAdds
  <2>5. CountInv'
    BY <1>1, <2>1, <2>2, <2>4 DEF CountInv
  <2> QED
    BY <1>1, <2>2, <2>4, <2>5, RowsParts DEF Repairing
<1> QED
  BY <1>2, <1>3, <1>4, <1>5

\* The ends of a review, and what is done to the suite of a single agent, claim
\* nothing.
LEMMA EndingRows ==
    ASSUME RowsInv, SkipCritic \/ LinkUncovered \/ Revise \/ Finish, UNCHANGED <<curation, drafting, judging>>
    PROVE  RowsInv'
<1>1. /\ rows' = rows /\ profile' = profile /\ Named /\ repairs' = repairs /\ repairs \in Nat
      /\ extracted' = extracted /\ extracted \in Nat
  BY DEF SkipCritic, LinkUncovered, Revise, Finish, RowsInv, CountInv, review, repair, judging
<1>2. step' \in {"finish", "completed", "failed", "revise", "judge"}
  BY DEF SkipCritic, LinkUncovered, Revise, Finish
<1>3. CountInv'
  BY <1>1, <1>2, NothingClaimed DEF CountInv
<1>4. ASSUME step' \in {"revise", "judge"}  PROVE JudgeRows'
  <2>1. step \in {"check", "revise"}
    BY <1>4 DEF SkipCritic, LinkUncovered, Revise, Finish
  <2>2. Indices(rows', "catalog") = {} /\ Indices(rows', "evaluation") = {}
    BY <1>1, <2>1 DEF RowsInv, JudgeRows
  <2> QED
    BY <1>4, <2>2 DEF JudgeRows, Under
<1> QED
  BY <1>1, <1>2, <1>3, <1>4, RowsParts DEF Repairing

\* The judge: the tasks of the catalog and the evaluations are numbered as they
\* come.
LEMMA JudgeClaims ==
    ASSUME RowsInv, JudgeStep, UNCHANGED <<curation, drafting, review>>
    PROVE  RowsInv'
<1> USE DEF Stages
<1>1. Named /\ repairs' = repairs /\ repairs \in Nat /\ extracted \in Nat
  BY DEF RowsInv, CountInv, review, repair
<1>2. CASE LoadUnits \/ CatalogDone
  <2>1. step = "judge" /\ step' = "evaluate" /\ rows' = rows /\ extracted' = extracted /\ Firsts(0) = {}
    BY <1>2 DEF LoadUnits, CatalogDone, StartEvaluation, Firsts, From
  <2>2. Indices(rows', "evaluation") = Firsts(0) /\ 0 \in Nat
    BY <2>1 DEF RowsInv, JudgeRows
  <2>3. JudgeRows'
    BY <2>1, <2>2 DEF JudgeRows
  <2>4. CountInv'
    BY <1>1, <2>1, NothingClaimed DEF CountInv
  <2> QED
    BY <2>1, <2>3, <2>4, RowsParts DEF Repairing
<1>3. CASE ExtractUnits
  <2> DEFINE index == 3 * extracted
  <2>1. /\ step = "judge" /\ Claim(Halves("catalog", index), "judge") /\ extracted' = extracted + 1 /\ index \in Int
        /\ index + 3 = 3 * extracted' /\ extracted' \in Nat
    BY <1>1, <1>3 DEF ExtractUnits
  <2>2. Under(Indices(rows, "catalog"), index) /\ Indices(rows, "evaluation") = {}
    BY <2>1 DEF RowsInv, JudgeRows
  <2> HIDE DEF index
  <2>3. /\ step' = "judge" /\ Named' /\ Under(Indices(rows', "catalog"), index + 3)
        /\ \A other \in Stages : other # "catalog" => Indices(rows', other) = Indices(rows, other)
    BY <1>1, <2>1, <2>2, AboveAdds
  <2>4. Under(Indices(rows', "catalog"), 3 * extracted') /\ Indices(rows', "evaluation") = {}
    BY <2>1, <2>2, <2>3
  <2>5. JudgeRows'
    BY <2>3, <2>4 DEF JudgeRows
  <2>6. CountInv'
    BY <1>1, <2>1, <2>3 DEF CountInv
  <2> QED
    BY <2>3, <2>5, <2>6, RowsParts DEF Repairing
<1>4. CASE EvaluationTask
  <2>1. /\ step = "evaluate" /\ Claim(Halves("evaluation", 3 * Tasks("evaluation")), "evaluate") /\ extracted' = extracted
    BY <1>4 DEF EvaluationTask
  <2>2. PICK m \in Nat : Indices(rows, "evaluation") = Firsts(m)
    BY <2>1 DEF RowsInv, JudgeRows
  <2>3. step' = "evaluate" /\ Named' /\ Indices(rows', "evaluation") = Firsts(m + 1) /\ m + 1 \in Nat
    BY <1>1, <2>1, <2>2, BatchAdds
  <2>4. JudgeRows'
    BY <2>3 DEF JudgeRows
  <2>5. CountInv'
    BY <1>1, <2>1, <2>3 DEF CountInv
  <2> QED
    BY <2>3, <2>4, <2>5, RowsParts DEF Repairing
<1>5. CASE NextUnits
  <2>1. step = "evaluate" /\ step' = step /\ rows' = rows /\ extracted' = extracted
    BY <1>5 DEF NextUnits, run
  <2>2. JudgeRows'
    BY <2>1 DEF RowsInv, JudgeRows
  <2>3. CountInv'
    BY <1>1, <2>1, NothingClaimed DEF CountInv
  <2> QED
    BY <2>1, <2>2, <2>3, RowsParts DEF Repairing
<1>6. CASE Score \/ JudgeFails
  <2>1. step' = "finish" /\ rows' = rows /\ extracted' \in {extracted, 0}
    BY <1>6 DEF Score, JudgeFails
  <2>2. CountInv'
    BY <1>1, <2>1, NothingClaimed DEF CountInv
  <2> QED
    BY <2>1, <2>2, RowsParts DEF Repairing
<1> QED
  BY <1>2, <1>3, <1>4, <1>5, <1>6 DEF JudgeStep

\* A run begins without rows.
LEMMA RowsInit == ASSUME Init  PROVE RowsInv
<1>1. /\ step = "scout" /\ rows = {} /\ repairs = 0 /\ extracted = 0 /\ disposed = <<>>
      /\ found = [g \in DOMAIN Groups |-> None]
  BY DEF Init, InitPipeline, InitCuration, InitReview, InitJudging
<1>2. \A stage : Indices(rows, stage) = {}
  BY <1>1 DEF Indices
<1>3. CountInv
  BY <1>1 DEF CountInv, Named
<1>4. Firsts(0) = {}
  BY DEF Firsts, From
<1>5. ASSUME profile = "efficient"  PROVE \E k \in 0..Len(Groups) : Ended(k) /\ k = 0
  <2>1. PICK k \in 0..Len(Groups) : Ended(k)
    BY <1>1, <1>5, CurationInit DEF CurationInv, OwnedInv
  <2>2. Len(Groups) \in Nat /\ DOMAIN Groups = 1..Len(Groups)
    BY <1>1, CurationInit, GroupsAre DEF CurationInv, PhaseInv, Curating
  <2>3. CASE k >= 1
    <3>1. k \in 1..Len(Groups) /\ k <= k
      BY <2>2, <2>3
    <3> QED
      BY <1>1, <2>1, <2>2, <3>1 DEF Ended
  <2>4. CASE ~(k >= 1)
    <3>1. k = 0
      BY <2>2, <2>4
    <3> QED
      BY <2>1, <3>1
  <2> QED
    BY <2>3, <2>4
<1>6. ScoutRows
  BY <1>1, <1>2, <1>4, <1>5 DEF ScoutRows, Under
<1>7. CorrectedRows /\ JudgeRows
  BY <1>1, <1>2 DEF CorrectedRows, JudgeRows
<1>8. DesignRows /\ ReviewRows
  BY <1>1 DEF DesignRows, ReviewRows, Repairing
<1> QED
  BY <1>3, <1>6, <1>7, <1>8 DEF RowsInv

\* Every step of a run that leaves the code the room it counts on keeps it.
LEMMA RowsStep ==
    ASSUME CurationInv, ReviewInv, DraftInv, RowsInv, Roomy, [Next]_vars
    PROVE  RowsInv'
<1>1. CASE Curate /\ UNCHANGED <<drafting, review, judging>>
  <2>1. CASE Scout \/ SourceAudit
    BY <1>1, <2>1, ScoutClaims, AuditClaims
  <2>2. CASE CheckOwnership \/ CurateBatch \/ CurateDone \/ RejectionAudit \/ RecheckDone
    BY <1>1, <2>2, CuratorClaims, RecheckClaims
  <2>3. CASE \/ \E g \in DOMAIN found : ScoutCorrected(g)
             \/ Synthesize \/ DecideAll \/ Materialize \/ MaterializeDone
    BY <1>1, <2>3, CorrectedClaims
  <2>4. CASE HandOver
    BY <1>1, <2>4, HandedRows DEF DraftInv
  <2> QED
    BY <1>1, <2>1, <2>2, <2>3, <2>4 DEF Curate
<1>2. CASE Draft /\ UNCHANGED <<curation, review, judging>>
  <2>1. CASE DesignTask \/ DesignDone
    BY <1>2, <2>1, DesignClaims DEF DraftInv
  <2>2. CASE Architect \/ \E g \in DOMAIN written : WriteTests(g)
    BY <1>2, <2>2, ArchitectClaims, WriterClaims DEF DraftInv
  <2>3. CASE Assemble \/ SingleAnswer
    BY <1>2, <2>3, DraftedRows
  <2>4. CASE StagedRequirements \/ StagedScenarios \/ StagedTests
    BY <1>2, <2>4, StagedClaims
  <2> QED
    BY <1>2, <2>1, <2>2, <2>3, <2>4 DEF Draft
<1>3. CASE ReviewStep /\ UNCHANGED <<curation, drafting, judging>>
  <2>1. CASE CriticTask \/ CriticDone \/ NextRepair \/ Patch
    BY <1>3, <2>1, CriticClaims, GroupRows, PatchClaims
  <2>2. CASE GapScenarios \/ GapTargets \/ GapTests \/ GapDone \/ Verify
    BY <1>3, <2>2, GapClaims, GapTestClaims, VerifyClaims
  <2>3. CASE CritiqueSuite \/ RepairRole \/ RepairsDone \/ VerifyAll
    BY <1>3, <2>3, CorrectedReviews
  <2>4. CASE SkipCritic \/ LinkUncovered \/ Revise \/ Finish
    BY <1>3, <2>4, EndingRows
  <2> QED
    BY <1>3, <2>1, <2>2, <2>3, <2>4 DEF ReviewStep
<1>4. CASE JudgeStep /\ UNCHANGED <<curation, drafting, review>>
  BY <1>4, JudgeClaims
<1>5. CASE Fail
  <2>1. step' = "failed" /\ rows' = rows /\ repairs' = 0 /\ extracted' = extracted
    BY <1>5 DEF Fail, NoReview, judging
  <2>2. CountInv'
    BY <2>1, NothingClaimed DEF RowsInv, CountInv
  <2> QED
    BY <2>1, <2>2, RowsParts DEF Repairing
<1>6. CASE UNCHANGED vars
  <2>1. /\ profile' = profile /\ step' = step /\ rows' = rows /\ bundle' = bundle /\ draft' = draft
        /\ document' = document /\ disposed' = disposed /\ found' = found /\ designed' = designed /\ written' = written
        /\ critiques' = critiques /\ repairs' = repairs /\ gap' = gap /\ extracted' = extracted
    BY <1>6 DEF vars, run, curation, extraction, drafting, review, critic, repair, judging
  <2>2. Groups' = Groups
    BY <2>1 DEF Groups, Chunks, Padding
  <2>3. \A k : Ended(k) => Ended(k)'
    BY <2>1, <2>2 DEF Ended
  <2>4. CountInv' /\ CorrectedRows' /\ DesignRows' /\ JudgeRows'
    BY <2>1 DEF RowsInv, CountInv, Named, CorrectedRows, DesignRows, JudgeRows
  <2>5. ScoutRows'
    BY <2>1, <2>2, <2>3 DEF RowsInv, ScoutRows
  <2>6. ReviewRows'
    BY <2>1 DEF RowsInv, ReviewRows
  <2> QED
    BY <2>4, <2>5, <2>6 DEF RowsInv
<1> QED
  BY <1>1, <1>2, <1>3, <1>4, <1>5, <1>6 DEF Next

\* No two tasks of a run have one identity, so that the database refuses no row,
\* whatever is split, added or verified and in whichever order, as long as the
\* indices the code reserves for rejections' audits and for repairs are enough.
THEOREM IdentitiesDistinct == Spec /\ []Roomy => []RowsDistinct
<1>1. Init => RowsInv
  BY RowsInit
<1>2. CurationInv /\ ReviewInv /\ DraftInv /\ RowsInv /\ Roomy /\ [Next]_vars => RowsInv'
  BY RowsStep
<1>3. RowsInv => RowsDistinct
  BY DEF RowsInv, CountInv, RowsDistinct
<1> QED
  BY <1>1, <1>2, <1>3, ReviewKept, DraftInvKept, PTL DEF Spec
-----------------------------------------------------------------------------
(* What the database keeps of a suite *)

\* As many rows as places, when each has its own position.
LEMMA RowsCounted ==
    ASSUME NEW m \in Nat, NEW row, \A i \in 1..m : row[i].position = i
    PROVE  Cardinality({row[i] : i \in 1..m}) = m
<1> DEFINE T == {row[i] : i \in 1..m}
           f == [i \in 1..m |-> row[i]]
<1>1. f \in Bijection(1..m, T)
  <2>1. f \in [1..m -> T] /\ (\A t \in T : \E i \in 1..m : f[i] = t)
    OBVIOUS
  <2>2. \A i, j \in 1..m : f[i] = f[j] => i = j
    <3>1. \A i, j \in 1..m : row[i] = row[j] => row[i].position = row[j].position
      OBVIOUS
    <3> QED
      BY <3>1
  <2> HIDE DEF f, T
  <2> QED
    BY <2>1, <2>2 DEF Bijection, Injection, Surjection, IsInjective
<1> HIDE DEF f, T
<1>2. ExistsBijection(1..m, T)
  BY <1>1 DEF ExistsBijection
<1>3. Cardinality(T) = m
  BY <1>2, FS_CountingElements
<1> QED
  BY <1>3 DEF T

\* In the order of positions such rows stand as they were numbered.
LEMMA RowsInOrder ==
    ASSUME NEW n \in Nat, NEW row, \A i \in 1..n : row[i].position = i
    PROVE  InPosition({row[i] : i \in 1..n}) = [i \in 1..n |-> row[i]]
<1> DEFINE T == {row[i] : i \in 1..n}
           Before(x) == Cardinality({r \in T : r.position < x.position})
           Upto(x)   == Cardinality({r \in T : r.position <= x.position})
<1>1. \A i \in 1..n : row[i] \in T
  OBVIOUS
<1>2. \A x \in T : \E i \in 1..n : x = row[i]
  OBVIOUS
<1>3. Cardinality(T) = n
  BY RowsCounted
<1>4. ASSUME NEW i \in 1..n  PROVE Before(row[i]) = i - 1 /\ Upto(row[i]) = i
  <2>1. i - 1 \in Nat /\ i \in Nat /\ (\A j \in 1..(i - 1) : j \in 1..n) /\ (\A j \in 1..i : j \in 1..n) /\ row[i].position = i
    OBVIOUS
  <2>2. {r \in T : r.position < i} = {row[j] : j \in 1..(i - 1)}
    <3>1. \A j \in 1..n : j < i <=> j \in 1..(i - 1)
      OBVIOUS
    <3> HIDE DEF T
    <3> QED
      BY <1>1, <1>2, <2>1, <3>1
  <2>3. {r \in T : r.position <= i} = {row[j] : j \in 1..i}
    <3>1. \A j \in 1..n : j <= i <=> j \in 1..i
      OBVIOUS
    <3> HIDE DEF T
    <3> QED
      BY <1>1, <1>2, <2>1, <3>1
  <2>4. Cardinality({row[j] : j \in 1..(i - 1)}) = i - 1
    BY <2>1, RowsCounted
  <2>5. Cardinality({row[j] : j \in 1..i}) = i
    BY <2>1, RowsCounted
  <2> HIDE DEF T
  <2> QED
    BY <2>1, <2>2, <2>3, <2>4, <2>5
<1>5. InPosition(T) = [i \in 1..Cardinality(T) |-> CHOOSE x \in T : Before(x) < i /\ i <= Upto(x)]
  BY DEF InPosition
<1> HIDE DEF T, Before, Upto
<1>6. ASSUME NEW i \in 1..n  PROVE (CHOOSE x \in T : Before(x) < i /\ i <= Upto(x)) = row[i]
  <2>1. Before(row[i]) < i /\ i <= Upto(row[i])
    BY <1>4
  <2>2. ASSUME NEW x \in T, Before(x) < i /\ i <= Upto(x)  PROVE x = row[i]
    <3>1. PICK j \in 1..n : x = row[j]
      BY <1>2
    <3>2. j - 1 < i /\ i <= j
      BY <1>4, <2>2, <3>1
    <3> QED
      BY <3>1, <3>2
  <2> QED
    BY <1>1, <2>1, <2>2
<1>7. InPosition(T) = [i \in 1..n |-> row[i]]
  BY <1>3, <1>5, <1>6
<1> QED
  BY <1>7 DEF T

\* The values of rows that were numbered.
LEMMA ValuesInOrder ==
    ASSUME NEW n \in Nat, NEW row, \A i \in 1..n : row[i].position = i
    PROVE  InOrder({row[i] : i \in 1..n}) = [i \in 1..n |-> row[i].value]
<1> DEFINE T == {row[i] : i \in 1..n}
<1>1. InPosition(T) = [i \in 1..n |-> row[i]]
  BY RowsInOrder
<1> HIDE DEF T
<1>2. InOrder(T) = [i \in 1..n |-> row[i].value]
  BY <1>1 DEF InOrder
<1> QED
  BY <1>2 DEF T

\* What an artifact lists is read back, whatever id it has.
LEMMA GroupRead ==
    ASSUME NEW list, NEW listed, NEW p \in DOMAIN list, NEW m \in Nat, DOMAIN listed[p] = 1..m
    PROVE  GroupOf(ChildRows(list, listed), p) = [j \in 1..m |-> listed[p][j]]
<1> DEFINE row == [j \in 1..m |-> [parent |-> p, position |-> j, value |-> listed[p][j]]]
           table == ChildRows(list, listed)
<1>1. \A j \in 1..m : row[j].position = j /\ row[j].value = listed[p][j]
  OBVIOUS
<1>2. {r \in table : r.parent = p} = {row[j] : j \in 1..m}
  <2>1. ASSUME NEW r \in table, r.parent = p  PROVE r \in {row[j] : j \in 1..m}
    <3>1. PICK i \in DOMAIN list : \E j \in DOMAIN listed[i] : r = [parent |-> i, position |-> j, value |-> listed[i][j]]
      BY <2>1 DEF ChildRows
    <3>2. i = p
      BY <2>1, <3>1
    <3> QED
      BY <3>1, <3>2
  <2>2. ASSUME NEW j \in 1..m  PROVE row[j] \in table /\ row[j].parent = p
    BY DEF ChildRows
  <2> HIDE DEF row, table
  <2> QED
    BY <2>1, <2>2
<1>3. InOrder({row[j] : j \in 1..m}) = [j \in 1..m |-> row[j].value]
  <2> HIDE DEF row
  <2> QED
    BY <1>1, ValuesInOrder
<1>4. GroupOf(table, p) = InOrder({r \in table : r.parent = p})
  BY DEF GroupOf
<1> HIDE DEF row, table
<1>5. GroupOf(table, p) = [j \in 1..m |-> listed[p][j]]
  BY <1>1, <1>2, <1>3, <1>4
<1> QED
  BY <1>5 DEF table

\* A finite set is enumerated by a sequence, of its elements.
LEMMA SetListed ==
    ASSUME NEW S, IsFiniteSet(S)
    PROVE  /\ Cardinality(S) \in Nat /\ DOMAIN SetToSeq(S) = 1..Cardinality(S)
           /\ SetToSeq(S) = [i \in 1..Cardinality(S) |-> SetToSeq(S)[i]]
           /\ ToSet(SetToSeq(S)) = S
<1> DEFINE n == Cardinality(S)
<1>1. n \in Nat
  BY FS_CardinalityType
<1>2. PICK f : f \in Bijection(1..n, S)
  BY FS_CardinalityType DEF ExistsBijection
<1>3. f \in [1..n -> S] /\ IsInjective(f)
  <2> HIDE DEF n
  <2> QED
    BY <1>2 DEF Bijection, Injection, IsInjective
<1> DEFINE g == SetToSeq(S)
<1>4. g \in [1..n -> S] /\ IsInjective(g)
  <2>1. g = CHOOSE h \in [1..n -> S] : IsInjective(h)
    BY DEF SetToSeq
  <2> HIDE DEF g, n
  <2> QED
    BY <1>3, <2>1, Zenon
<1>5. g \in Bijection(1..n, S)
  <2>1. g \in Injection(1..n, S)
    <3> HIDE DEF g, n
    <3> QED
      BY <1>4 DEF Injection, IsInjective
  <2>2. Cardinality(1..n) = n /\ IsFiniteSet(1..n)
    <3>1. 1 \in Int /\ n \in Int /\ (1 > n => n = 0) /\ n - 1 + 1 = n
      BY <1>1
    <3> HIDE DEF n
    <3> QED
      BY <3>1, FS_Interval
  <2>3. g \in Surjection(1..n, S)
    <3> HIDE DEF g
    <3> QED
      BY <2>1, <2>2, FS_Injection
  <2> HIDE DEF g, n
  <2> QED
    BY <2>1, <2>3 DEF Bijection
<1> HIDE DEF g, n
<1>6. DOMAIN g = 1..n /\ g = [i \in 1..n |-> g[i]] /\ ToSet(g) = S
  BY <1>5 DEF Bijection, Injection, Surjection, ToSet
<1> QED
  BY <1>1, <1>6 DEF g, n

\* One value is read back as itself.
LEMMA FirstRead ==
    ASSUME NEW list, NEW listed, NEW p \in DOMAIN list, NEW m \in Nat, 1 <= m, DOMAIN listed[p] = 1..m
    PROVE  Version(GroupOf(ChildRows(list, listed), p)) = listed[p][1]
<1> DEFINE values == GroupOf(ChildRows(list, listed), p)
<1>1. values = [j \in 1..m |-> listed[p][j]]
  BY GroupRead
<1> HIDE DEF values
<1>2. 1 \in DOMAIN values /\ values[1] = listed[p][1]
  BY <1>1
<1>3. values # <<>>
  BY <1>2
<1>4. Version(values) = listed[p][1]
  BY <1>2, <1>3 DEF Version
<1> QED
  BY <1>4 DEF values

\* So is the version that a list of it holds.
LEMMA VersionRead ==
    ASSUME NEW list, NEW listed, NEW p \in DOMAIN list, NEW value, listed[p] = <<value>>
    PROVE  Version(GroupOf(ChildRows(list, listed), p)) = value
<1> DEFINE one == 1
<1>1. one \in Nat /\ 1 <= one /\ DOMAIN listed[p] = 1..one /\ listed[p][1] = value
  OBVIOUS
<1> HIDE DEF one
<1>2. Version(GroupOf(ChildRows(list, listed), p)) = listed[p][1]
  BY <1>1, FirstRead
<1> QED
  BY <1>1, <1>2

\* So is a set.
LEMMA SetRead ==
    ASSUME NEW list, NEW listed, NEW p \in DOMAIN list, NEW S, IsFiniteSet(S), listed[p] = SetToSeq(S)
    PROVE  ToSet(GroupOf(ChildRows(list, listed), p)) = S
<1> DEFINE m == Cardinality(S)
<1>1. m \in Nat /\ DOMAIN listed[p] = 1..m /\ listed[p] = [j \in 1..m |-> listed[p][j]] /\ ToSet(listed[p]) = S
  BY SetListed
<1> HIDE DEF m
<1>2. GroupOf(ChildRows(list, listed), p) = [j \in 1..m |-> listed[p][j]]
  BY <1>1, GroupRead
<1> QED
  BY <1>1, <1>2

\* The artifacts of a list are read back in its order.
LEMMA RootsRead ==
    ASSUME NEW n \in Nat, NEW list, DOMAIN list = 1..n
    PROVE  /\ InPosition({[position |-> i, id |-> list[i].id] : i \in DOMAIN list})
                = [i \in 1..n |-> [position |-> i, id |-> list[i].id]]
           /\ InPosition({[position |-> i, id |-> list[i].id, scn |-> list[i].scn] : i \in DOMAIN list})
                = [i \in 1..n |-> [position |-> i, id |-> list[i].id, scn |-> list[i].scn]]
<1> DEFINE row  == [i \in 1..n |-> [position |-> i, id |-> list[i].id]]
           test == [i \in 1..n |-> [position |-> i, id |-> list[i].id, scn |-> list[i].scn]]
<1>1. \A i \in 1..n : row[i].position = i /\ test[i].position = i
  OBVIOUS
<1>2. /\ {[position |-> i, id |-> list[i].id] : i \in DOMAIN list} = {row[i] : i \in 1..n}
      /\ {[position |-> i, id |-> list[i].id, scn |-> list[i].scn] : i \in DOMAIN list} = {test[i] : i \in 1..n}
      /\ row = [i \in 1..n |-> row[i]] /\ test = [i \in 1..n |-> test[i]]
  OBVIOUS
<1>3. /\ InPosition({row[i] : i \in 1..n}) = [i \in 1..n |-> row[i]]
      /\ InPosition({test[i] : i \in 1..n}) = [i \in 1..n |-> test[i]]
  <2> HIDE DEF row, test
  <2> QED
    BY <1>1, RowsInOrder
<1> QED
  BY <1>2, <1>3

\* Requirements are read back as they were.
LEMMA RequirementsRead ==
    ASSUME NEW list \in Seq(RequirementRow)
    PROVE  LET tables == RequirementTables(list)
               roots  == InPosition(tables.rows)
           IN  [i \in DOMAIN roots |-> LoadRequirement(tables, roots[i])] = list
<1> DEFINE n == Len(list)
           tables == RequirementTables(list)
           roots == InPosition(tables.rows)
<1>1. n \in Nat /\ DOMAIN list = 1..n /\ (\A i \in 1..n : list[i] \in RequirementRow) /\ list = [i \in 1..n |-> list[i]]
  OBVIOUS
<1> HIDE DEF n
<1>2. /\ tables.rows = {[position |-> i, id |-> list[i].id] : i \in DOMAIN list}
      /\ tables.details = ChildRows(list, Authored(list)) /\ tables.sources = ChildRows(list, Cited(list))
      /\ tables.deps = ChildRows(list, Depends(list))
  BY DEF RequirementTables
<1>3. roots = [i \in 1..n |-> [position |-> i, id |-> list[i].id]]
  <2>1. InPosition({[position |-> i, id |-> list[i].id] : i \in DOMAIN list})
          = [i \in 1..n |-> [position |-> i, id |-> list[i].id]]
    BY <1>1, RootsRead
  <2> DEFINE stored == tables.rows
  <2>2. stored = {[position |-> i, id |-> list[i].id] : i \in DOMAIN list}
    BY <1>2
  <2>3. roots = InPosition(stored)
    OBVIOUS
  <2> HIDE DEF stored, roots
  <2> QED
    BY <2>1, <2>2, <2>3
<1> HIDE DEF tables, roots
<1>4. ASSUME NEW i \in 1..n  PROVE LoadRequirement(tables, roots[i]) = list[i]
  <2>1. roots[i].position = i /\ roots[i].id = list[i].id /\ i \in DOMAIN list
    BY <1>1, <1>3
  <2>2. Version(GroupOf(tables.details, i)) = list[i].text
    <3>1. Authored(list)[i] = <<list[i].text>>
      BY <2>1 DEF Authored
    <3> QED
      BY <1>2, <2>1, <3>1, VersionRead
  <2>3. Version(GroupOf(tables.sources, i)) = list[i].cites
    <3>1. Cited(list)[i] = <<list[i].cites>>
      BY <2>1 DEF Cited
    <3> QED
      BY <1>2, <2>1, <3>1, VersionRead
  <2>4. ToSet(GroupOf(tables.deps, i)) = list[i].deps
    <3>1. Depends(list)[i] = SetToSeq(list[i].deps)
      BY <2>1 DEF Depends
    <3>2. IsFiniteSet(list[i].deps)
      BY <1>1 DEF RequirementRow, IdSets
    <3> QED
      BY <1>2, <2>1, <3>1, <3>2, SetRead
  <2>5. list[i] = [id |-> list[i].id, text |-> list[i].text, cites |-> list[i].cites, deps |-> list[i].deps]
    BY <1>1 DEF RequirementRow
  <2> QED
    BY <2>1, <2>2, <2>3, <2>4, <2>5 DEF LoadRequirement
<1>5. DOMAIN roots = 1..n
  BY <1>3
<1>6. [i \in DOMAIN roots |-> LoadRequirement(tables, roots[i])] = list
  BY <1>1, <1>4, <1>5
<1> QED
  BY <1>6 DEF tables, roots

\* So are scenarios,
LEMMA ScenariosRead ==
    ASSUME NEW list \in Seq(ScenarioRow)
    PROVE  LET tables == ScenarioTables(list)
               roots  == InPosition(tables.rows)
           IN  [i \in DOMAIN roots |-> LoadScenario(tables, roots[i])] = list
<1> DEFINE n == Len(list)
           tables == ScenarioTables(list)
           roots == InPosition(tables.rows)
<1>1. n \in Nat /\ DOMAIN list = 1..n /\ (\A i \in 1..n : list[i] \in ScenarioRow) /\ list = [i \in 1..n |-> list[i]]
  OBVIOUS
<1> HIDE DEF n
<1>2. /\ tables.rows = {[position |-> i, id |-> list[i].id] : i \in DOMAIN list}
      /\ tables.details = ChildRows(list, Authored(list)) /\ tables.sources = ChildRows(list, Cited(list))
      /\ tables.reqs = ChildRows(list, Covers(list))
  BY DEF ScenarioTables
<1>3. roots = [i \in 1..n |-> [position |-> i, id |-> list[i].id]]
  <2>1. InPosition({[position |-> i, id |-> list[i].id] : i \in DOMAIN list})
          = [i \in 1..n |-> [position |-> i, id |-> list[i].id]]
    BY <1>1, RootsRead
  <2> DEFINE stored == tables.rows
  <2>2. stored = {[position |-> i, id |-> list[i].id] : i \in DOMAIN list}
    BY <1>2
  <2>3. roots = InPosition(stored)
    OBVIOUS
  <2> HIDE DEF stored, roots
  <2> QED
    BY <2>1, <2>2, <2>3
<1> HIDE DEF tables, roots
<1>4. ASSUME NEW i \in 1..n  PROVE LoadScenario(tables, roots[i]) = list[i]
  <2>1. roots[i].position = i /\ roots[i].id = list[i].id /\ i \in DOMAIN list
    BY <1>1, <1>3
  <2>2. Version(GroupOf(tables.details, i)) = list[i].text
    <3>1. Authored(list)[i] = <<list[i].text>>
      BY <2>1 DEF Authored
    <3> QED
      BY <1>2, <2>1, <3>1, VersionRead
  <2>3. Version(GroupOf(tables.sources, i)) = list[i].cites
    <3>1. Cited(list)[i] = <<list[i].cites>>
      BY <2>1 DEF Cited
    <3> QED
      BY <1>2, <2>1, <3>1, VersionRead
  <2>4. ToSet(GroupOf(tables.reqs, i)) = list[i].reqs
    <3>1. Covers(list)[i] = SetToSeq(list[i].reqs)
      BY <2>1 DEF Covers
    <3>2. IsFiniteSet(list[i].reqs)
      BY <1>1 DEF ScenarioRow, IdSets
    <3> QED
      BY <1>2, <2>1, <3>1, <3>2, SetRead
  <2>5. list[i] = [id |-> list[i].id, text |-> list[i].text, cites |-> list[i].cites, reqs |-> list[i].reqs]
    BY <1>1 DEF ScenarioRow
  <2> QED
    BY <2>1, <2>2, <2>3, <2>4, <2>5 DEF LoadScenario
<1>5. DOMAIN roots = 1..n
  BY <1>3
<1>6. [i \in DOMAIN roots |-> LoadScenario(tables, roots[i])] = list
  BY <1>1, <1>4, <1>5
<1> QED
  BY <1>6 DEF tables, roots

\* and test cases.
LEMMA TestsRead ==
    ASSUME NEW list \in Seq(TestRow)
    PROVE  LET tables == TestCaseTables(list)
               roots  == InPosition(tables.rows)
           IN  [i \in DOMAIN roots |-> LoadTestCase(tables, roots[i])] = list
<1> DEFINE n == Len(list)
           tables == TestCaseTables(list)
           roots == InPosition(tables.rows)
<1>1. n \in Nat /\ DOMAIN list = 1..n /\ (\A i \in 1..n : list[i] \in TestRow) /\ list = [i \in 1..n |-> list[i]]
  OBVIOUS
<1> HIDE DEF n
<1>2. /\ tables.rows = {[position |-> i, id |-> list[i].id, scn |-> list[i].scn] : i \in DOMAIN list}
      /\ tables.details = ChildRows(list, Authored(list)) /\ tables.sources = ChildRows(list, Cited(list))
      /\ tables.reqs = ChildRows(list, Covers(list))
  BY DEF TestCaseTables
<1>3. roots = [i \in 1..n |-> [position |-> i, id |-> list[i].id, scn |-> list[i].scn]]
  <2>1. InPosition({[position |-> i, id |-> list[i].id, scn |-> list[i].scn] : i \in DOMAIN list})
          = [i \in 1..n |-> [position |-> i, id |-> list[i].id, scn |-> list[i].scn]]
    BY <1>1, RootsRead
  <2> DEFINE stored == tables.rows
  <2>2. stored = {[position |-> i, id |-> list[i].id, scn |-> list[i].scn] : i \in DOMAIN list}
    BY <1>2
  <2>3. roots = InPosition(stored)
    OBVIOUS
  <2> HIDE DEF stored, roots
  <2> QED
    BY <2>1, <2>2, <2>3
<1> HIDE DEF tables, roots
<1>4. ASSUME NEW i \in 1..n  PROVE LoadTestCase(tables, roots[i]) = list[i]
  <2>1. roots[i].position = i /\ roots[i].id = list[i].id /\ roots[i].scn = list[i].scn /\ i \in DOMAIN list
    BY <1>1, <1>3
  <2>2. Version(GroupOf(tables.details, i)) = list[i].text
    <3>1. Authored(list)[i] = <<list[i].text>>
      BY <2>1 DEF Authored
    <3> QED
      BY <1>2, <2>1, <3>1, VersionRead
  <2>3. Version(GroupOf(tables.sources, i)) = list[i].cites
    <3>1. Cited(list)[i] = <<list[i].cites>>
      BY <2>1 DEF Cited
    <3> QED
      BY <1>2, <2>1, <3>1, VersionRead
  <2>4. ToSet(GroupOf(tables.reqs, i)) = list[i].reqs
    <3>1. Covers(list)[i] = SetToSeq(list[i].reqs)
      BY <2>1 DEF Covers
    <3>2. IsFiniteSet(list[i].reqs)
      BY <1>1 DEF TestRow, IdSets
    <3> QED
      BY <1>2, <2>1, <3>1, <3>2, SetRead
  <2>5. list[i] = [id |-> list[i].id, text |-> list[i].text, cites |-> list[i].cites, scn |-> list[i].scn,
                   reqs |-> list[i].reqs]
    BY <1>1 DEF TestRow
  <2> QED
    BY <2>1, <2>2, <2>3, <2>4, <2>5 DEF LoadTestCase
<1>5. DOMAIN roots = 1..n
  BY <1>3
<1>6. [i \in DOMAIN roots |-> LoadTestCase(tables, roots[i])] = list
  BY <1>1, <1>4, <1>5
<1> QED
  BY <1>6 DEF tables, roots

\* Any suite is read back as it was stored, also one that uses an id twice.
LEMMA SuiteRead ==
    ASSUME NEW suite \in Bundle
    PROVE  LoadBundle(InsertBundle(suite)) = suite
<1>1. /\ suite.reqs \in Seq(RequirementRow) /\ suite.scns \in Seq(ScenarioRow) /\ suite.tests \in Seq(TestRow)
      /\ suite = [reqs |-> suite.reqs, scns |-> suite.scns, tests |-> suite.tests]
  BY DEF Bundle, RequirementRow, ScenarioRow, TestRow
<1>2. InsertBundle(suite) = [reqs |-> RequirementTables(suite.reqs), scns |-> ScenarioTables(suite.scns),
                             tests |-> TestCaseTables(suite.tests)]
  BY DEF InsertBundle
<1>3. LoadBundle(InsertBundle(suite)) =
        [reqs  |-> LET tables == RequirementTables(suite.reqs)
                       roots  == InPosition(tables.rows) IN [i \in DOMAIN roots |-> LoadRequirement(tables, roots[i])],
         scns  |-> LET tables == ScenarioTables(suite.scns)
                       roots  == InPosition(tables.rows) IN [i \in DOMAIN roots |-> LoadScenario(tables, roots[i])],
         tests |-> LET tables == TestCaseTables(suite.tests)
                       roots  == InPosition(tables.rows) IN [i \in DOMAIN roots |-> LoadTestCase(tables, roots[i])]]
  BY <1>2 DEF LoadBundle
<1> QED
  BY <1>1, <1>3, RequirementsRead, ScenariosRead, TestsRead

\* A list without artifacts of its own is read back in its order.
LEMMA ListRead ==
    ASSUME NEW n \in Nat, NEW values, DOMAIN values = 1..n, values = [i \in 1..n |-> values[i]]
    PROVE  InOrder(ListRows(values)) = values
<1> DEFINE row == [i \in 1..n |-> [position |-> i, value |-> values[i]]]
<1>1. \A i \in 1..n : row[i].position = i /\ row[i].value = values[i]
  OBVIOUS
<1>2. ListRows(values) = {row[i] : i \in 1..n}
  BY DEF ListRows
<1> HIDE DEF row
<1>3. InOrder({row[i] : i \in 1..n}) = [i \in 1..n |-> row[i].value]
  BY <1>1, ValuesInOrder
<1> QED
  BY <1>1, <1>2, <1>3

\* So is one that enumerates a set.
LEMMA EnumerationRead == ASSUME NEW S, IsFiniteSet(S)  PROVE InOrder(ListRows(SetToSeq(S))) = SetToSeq(S)
<1> DEFINE n == Cardinality(S)
           s == SetToSeq(S)
<1>1. n \in Nat /\ DOMAIN s = 1..n /\ s = [i \in 1..n |-> s[i]]
  BY SetListed
<1> HIDE DEF n, s
<1>2. InOrder(ListRows(s)) = s
  BY <1>1, ListRead
<1> QED
  BY <1>2 DEF s

\* The ids of a list are finitely many.
LEMMA IdsFinite ==
    ASSUME NEW list, NEW n \in Nat, DOMAIN list = 1..n
    PROVE  IsFiniteSet(Ids(list)) /\ IsFiniteSet(ToSet(list))
<1>1. IsFiniteSet(1..n)
  <2>1. 1 \in Int /\ n \in Int
    OBVIOUS
  <2> QED
    BY <2>1, FS_Interval
<1> DEFINE f == [i \in 1..n |-> list[i].id]
           g == [i \in 1..n |-> list[i]]
<1>2. f \in Surjection(1..n, Ids(list)) /\ g \in Surjection(1..n, ToSet(list))
  BY DEF Surjection, Ids, ToSet
<1> HIDE DEF f, g
<1> QED
  BY <1>1, <1>2, FS_Surjection

\* What the validator lists of a suite is finite: issues are of codes and ids.
LEMMA ReportFinite ==
    ASSUME NEW suite \in Bundle
    PROVE  /\ IsFiniteSet(Issues(suite)) /\ IsFiniteSet(Uncovered(suite))
           /\ IsFiniteSet(Unlinked(suite)) /\ IsFiniteSet(Astray(suite))
<1> DEFINE ids   == Ids(suite.reqs) \cup Ids(suite.scns) \cup Ids(suite.tests)
           codes == {"duplicate_id", "invalid_source_reference", "missing_dependency", "missing_requirement",
                     "missing_scenario", "scenario_requirement_mismatch", "orphan_scenario", "orphan_test_case",
                     "uncovered_requirement"}
           empty == {<<"empty_bundle", <<"bundle", 0>>>>}
<1>1. IsFiniteSet(Ids(suite.reqs)) /\ IsFiniteSet(Ids(suite.scns)) /\ IsFiniteSet(Ids(suite.tests))
  <2>1. ASSUME NEW list, NEW X, list \in Seq(X)  PROVE IsFiniteSet(Ids(list))
    <3>1. Len(list) \in Nat /\ DOMAIN list = 1..Len(list)
      BY <2>1
    <3> QED
      BY <3>1, IdsFinite
  <2>2. /\ suite.reqs \in Seq(RequirementRow) /\ suite.scns \in Seq(ScenarioRow) /\ suite.tests \in Seq(TestRow)
    BY DEF Bundle, RequirementRow, ScenarioRow, TestRow
  <2> QED
    BY <2>1, <2>2
<1>2. Uncovered(suite) \subseteq Ids(suite.reqs) /\ Unlinked(suite) \subseteq Ids(suite.scns) /\ Astray(suite) \subseteq Ids(suite.tests)
  BY DEF Uncovered, Unlinked, Astray, Ids
<1>3. IsFiniteSet(ids) /\ IsFiniteSet(codes) /\ IsFiniteSet(Kinds) /\ IsFiniteSet(empty)
  <2>1. IsFiniteSet(ids)
    BY <1>1, FS_Union
  <2>2. IsFiniteSet(Kinds) /\ IsFiniteSet(empty)
    <3>1. \A S, x : IsFiniteSet(S) => IsFiniteSet(S \cup {x})
      BY FS_AddElement
    <3>2. IsFiniteSet({}) /\ Kinds = (({} \cup {"REQ"}) \cup {"SCN"}) \cup {"TC"} /\ empty = {} \cup {<<"empty_bundle", <<"bundle", 0>>>>}
      BY FS_EmptySet DEF Kinds
    <3> QED
      BY <3>1, <3>2
  <2>3. IsFiniteSet(codes)
    <3>1. \A S, x : IsFiniteSet(S) => IsFiniteSet(S \cup {x})
      BY FS_AddElement
    <3> DEFINE first == (({} \cup {"duplicate_id"}) \cup {"invalid_source_reference"}) \cup {"missing_dependency"}
               then  == ((first \cup {"missing_requirement"}) \cup {"missing_scenario"}) \cup {"scenario_requirement_mismatch"}
               last  == ((then \cup {"orphan_scenario"}) \cup {"orphan_test_case"}) \cup {"uncovered_requirement"}
    <3>2. IsFiniteSet(first)
      BY <3>1, FS_EmptySet
    <3>3. codes = last
      OBVIOUS
    <3> HIDE DEF first
    <3>4. IsFiniteSet(then)
      BY <3>1, <3>2
    <3> HIDE DEF then, codes
    <3>5. IsFiniteSet(last)
      BY <3>1, <3>4
    <3> QED
      BY <3>3, <3>5
  <2> QED
    BY <2>1, <2>2, <2>3
<1>4. Issues(suite) \subseteq empty \cup (codes \X (Kinds \X ids))
  <2>1. \A kind \in Kinds : Duplicates(List(suite, kind)) \subseteq ids
    BY DEF Kinds, List, Duplicates, Ids, ToSet
  <2>2. \A kind \in Kinds : {a.id : a \in {x \in ToSet(List(suite, kind)) : x.cites = Ungrounded}} \subseteq ids
    BY DEF Kinds, List, Ids
  <2>3. {r.id : r \in {x \in ToSet(suite.reqs) : ~(x.deps \subseteq Ids(suite.reqs))}} \subseteq ids
    BY DEF Ids
  <2>4. Unknown(suite.scns, suite) \subseteq ids /\ Unknown(suite.tests, suite) \subseteq ids
    BY DEF Unknown, Ids
  <2>5. Mismatched(suite) \subseteq ids
    BY DEF Mismatched, Ids
  <2>6. Uncovered(suite) \subseteq ids /\ Unlinked(suite) \subseteq ids /\ Astray(suite) \subseteq ids
    BY <1>2
  <2>7. \A code \in codes, kind \in Kinds : \A S : S \subseteq ids => Found(code, kind, S) \subseteq codes \X (Kinds \X ids)
    BY DEF Found
  <2>8. "REQ" \in Kinds /\ "SCN" \in Kinds /\ "TC" \in Kinds
    BY DEF Kinds
  <2>9. /\ "duplicate_id" \in codes /\ "invalid_source_reference" \in codes /\ "missing_dependency" \in codes
        /\ "missing_requirement" \in codes /\ "missing_scenario" \in codes /\ "scenario_requirement_mismatch" \in codes
        /\ "orphan_scenario" \in codes /\ "orphan_test_case" \in codes /\ "uncovered_requirement" \in codes
    OBVIOUS
  <2> HIDE DEF ids, codes
  <2> DEFINE all == codes \X (Kinds \X ids)
  <2> HIDE DEF empty, all
  <2>10. (UNION {Found("duplicate_id", kind, Duplicates(List(suite, kind))) : kind \in Kinds}) \subseteq all
    BY <2>1, <2>7, <2>9 DEF all
  <2>11. (UNION {Found("invalid_source_reference", kind,
                 {a.id : a \in {x \in ToSet(List(suite, kind)) : x.cites = Ungrounded}}) : kind \in Kinds}) \subseteq all
    <3> DEFINE bad(kind) == {a.id : a \in {x \in ToSet(List(suite, kind)) : x.cites = Ungrounded}}
    <3>1. \A kind \in Kinds : bad(kind) \subseteq ids
      BY <2>2
    <3> HIDE DEF bad
    <3>2. \A kind \in Kinds : Found("invalid_source_reference", kind, bad(kind)) \subseteq all
      BY <2>7, <2>9, <3>1 DEF all
    <3>3. (UNION {Found("invalid_source_reference", kind, bad(kind)) : kind \in Kinds}) \subseteq all
      BY <3>2
    <3> QED
      BY <3>3 DEF bad
  <2>12. /\ Found("missing_dependency", "REQ",
                  {r.id : r \in {x \in ToSet(suite.reqs) : ~(x.deps \subseteq Ids(suite.reqs))}}) \subseteq all
         /\ Found("missing_requirement", "SCN", Unknown(suite.scns, suite)) \subseteq all
         /\ Found("missing_requirement", "TC", Unknown(suite.tests, suite)) \subseteq all
         /\ Found("missing_scenario", "TC", Astray(suite)) \subseteq all
         /\ Found("scenario_requirement_mismatch", "TC", Mismatched(suite)) \subseteq all
         /\ Found("orphan_scenario", "SCN", Unlinked(suite)) \subseteq all
         /\ Found("orphan_test_case", "TC", Astray(suite)) \subseteq all
         /\ Found("uncovered_requirement", "REQ", Uncovered(suite)) \subseteq all
    BY <2>3, <2>4, <2>5, <2>6, <2>7, <2>8, <2>9 DEF all
  <2>13. (IF suite = EmptySuite THEN {<<"empty_bundle", <<"bundle", 0>>>>} ELSE {}) \subseteq empty
    BY DEF empty
  <2>14. Issues(suite) \subseteq empty \cup all
    BY <2>10, <2>11, <2>12, <2>13 DEF Issues
  <2> QED
    BY <2>14 DEF all
<1> HIDE DEF ids, codes, empty
<1>5. IsFiniteSet(empty \cup (codes \X (Kinds \X ids)))
  <2>1. IsFiniteSet(Kinds \X ids)
    BY <1>3, FS_Product
  <2>2. IsFiniteSet(codes \X (Kinds \X ids))
    BY <1>3, <2>1, FS_Product
  <2> QED
    BY <1>3, <2>2, FS_Union
<1>6. IsFiniteSet(Issues(suite))
  BY <1>4, <1>5, FS_Subset
<1> QED
  BY <1>1, <1>2, <1>6, FS_Subset

\* What the validator says of a suite is read back as it was stored.
LEMMA ReportRead ==
    ASSUME NEW suite \in Bundle
    PROVE  LoadValidation(InsertValidation(Report(suite))) = Report(suite)
<1> DEFINE told == Report(suite)
<1>1. /\ InOrder(ListRows(told.issues)) = told.issues
      /\ InOrder(ListRows(told.uncovered)) = told.uncovered
      /\ InOrder(ListRows(told.orphanScenarios)) = told.orphanScenarios
      /\ InOrder(ListRows(told.orphanTests)) = told.orphanTests
  BY ReportFinite, EnumerationRead DEF Report
<1>2. told = [valid |-> told.valid, issues |-> told.issues, uncovered |-> told.uncovered,
                orphanScenarios |-> told.orphanScenarios, orphanTests |-> told.orphanTests]
  BY DEF Report
<1> HIDE DEF told
<1>3. LoadValidation(InsertValidation(told)) = told
  BY <1>1, <1>2 DEF LoadValidation, InsertValidation
<1> QED
  BY <1>3 DEF told

-----------------------------------------------------------------------------
(* The suites a run works on are lists of artifacts *)

\* A first group of what is left of a list is a list of the same.
LEMMA GroupIs ==
    ASSUME NEW S, NEW s \in Seq(S), NEW done \in Nat, NEW most \in Nat,
           NEW some \in FirstGroups(SubSeq(s, done + 1, Len(s)), most)
    PROVE  some \in Seq(S) /\ Len(some) \in Nat
<1> DEFINE t == SubSeq(s, done + 1, Len(s))
<1>1. t \in Seq(S)
  <2>1. Len(s) \in Nat /\ done + 1 \in Int /\ \A i \in (done + 1)..Len(s) : s[i] \in S
    OBVIOUS
  <2> QED
    BY <2>1, SubSeqProperties
<1> HIDE DEF t
<1>2. PICK n \in 1..(IF Len(t) < most THEN Len(t) ELSE most) : some = SubSeq(t, 1, n)
  BY DEF FirstGroups, t
<1>3. 1 \in Int /\ n \in Int /\ \A i \in 1..n : t[i] \in S
  BY <1>1
<1>4. some \in Seq(S)
  BY <1>2, <1>3, SubSeqProperties
<1> QED
  BY <1>4

\* So is one of a list that was not begun.
LEMMA FirstGroupIs ==
    ASSUME NEW S, NEW s \in Seq(S), NEW most \in Nat, NEW some \in FirstGroups(s, most)
    PROVE  some \in Seq(S) /\ Len(some) \in Nat
<1>1. PICK n \in 1..(IF Len(s) < most THEN Len(s) ELSE most) : some = SubSeq(s, 1, n)
  BY DEF FirstGroups
<1>2. 1 \in Int /\ n \in Int /\ \A i \in 1..n : s[i] \in S
  OBVIOUS
<1>3. some \in Seq(S)
  BY <1>1, <1>2, SubSeqProperties
<1> QED
  BY <1>3

\* Numbered from an offset they are the same.
LEMMA NumberedRows ==
    ASSUME NEW k \in Nat
    PROVE  /\ \A list \in Seq(ScenarioRow) : Numbered_from(list, k) \in Seq(ScenarioRow)
           /\ \A list \in Seq(TestRow) : Numbered_from(list, k) \in Seq(TestRow)
<1>1. ASSUME NEW S, \A x \in S, id \in Nat : [x EXCEPT !.id = id] \in S, NEW list \in Seq(S)
      PROVE  Numbered_from(list, k) \in Seq(S)
  <2> DEFINE new == Numbered_from(list, k)
  <2>1. Len(list) \in Nat /\ DOMAIN new = 1..Len(list) /\ new = [i \in 1..Len(list) |-> new[i]]
    BY DEF Numbered_from
  <2>2. ASSUME NEW i \in 1..Len(list)  PROVE new[i] \in S
    <3>1. new[i] = [list[i] EXCEPT !.id = k + i] /\ list[i] \in S /\ k + i \in Nat
      BY DEF Numbered_from
    <3> QED
      BY <1>1, <3>1
  <2> HIDE DEF new
  <2>3. new \in Seq(S)
    BY <2>1, <2>2
  <2> QED
    BY <2>3 DEF new
<1>2. \A x \in ScenarioRow, id \in Nat : [x EXCEPT !.id = id] \in ScenarioRow
  BY DEF ScenarioRow
<1>3. \A x \in TestRow, id \in Nat : [x EXCEPT !.id = id] \in TestRow
  BY DEF TestRow
<1> QED
  BY <1>1, <1>2, <1>3

\* A batch appended to a suite leaves one (append of _design_tests).
LEMMA AppendedRows ==
    ASSUME NEW suite \in Bundle, NEW scns \in Seq(ScenarioRow), NEW tests \in Seq(TestRow)
    PROVE  AppendBatch(suite, scns, tests) \in Bundle
<1> DEFINE ss == [i \in DOMAIN scns |-> [scns[i] EXCEPT !.id = Len(suite.scns) + i]]
           ts == [i \in DOMAIN tests |-> [tests[i] EXCEPT !.id = Len(suite.tests) + i, !.scn = Len(suite.scns) + @]]
<1>1. /\ suite.reqs \in Seq(RequirementRow) /\ suite.scns \in Seq(ScenarioRow) /\ suite.tests \in Seq(TestRow)
      /\ suite = [reqs |-> suite.reqs, scns |-> suite.scns, tests |-> suite.tests]
  BY BundleIs
<1>2. Len(suite.scns) \in Nat /\ Len(suite.tests) \in Nat
  BY <1>1
<1>3. ss \in Seq(ScenarioRow)
  <2>1. \A x \in ScenarioRow, id \in Nat : [x EXCEPT !.id = id] \in ScenarioRow
    BY DEF ScenarioRow
  <2>2. \A i \in DOMAIN scns : scns[i] \in ScenarioRow /\ Len(suite.scns) + i \in Nat
    BY <1>2
  <2> QED
    BY <2>1, <2>2
<1>4. ts \in Seq(TestRow)
  <2>1. Len(tests) \in Nat /\ DOMAIN tests = 1..Len(tests)
    OBVIOUS
  <2>2. ASSUME NEW i \in 1..Len(tests)  PROVE ts[i] \in TestRow
    <3>1. ts[i] = [tests[i] EXCEPT !.id = Len(suite.tests) + i, !.scn = Len(suite.scns) + tests[i].scn]
      BY <2>1
    <3>2. tests[i] \in TestRow
      BY <2>1
    <3> DEFINE x == tests[i]
               n == Len(suite.tests)
               m == Len(suite.scns)
    <3>3. /\ x = [id |-> x.id, text |-> x.text, cites |-> x.cites, scn |-> x.scn, reqs |-> x.reqs]
          /\ x.text \in Nat /\ x.cites \in Nat \cup {Ungrounded} /\ x.scn \in Nat /\ x.reqs \in IdSets
      BY <3>2 DEF TestRow
    <3>4. n + i \in Nat /\ m + x.scn \in Nat
      BY <1>2, <3>3
    <3>5. ts[i] = [x EXCEPT !.id = n + i, !.scn = m + x.scn]
      BY <3>1
    <3> HIDE DEF ts, x, n, m
    <3>6. ts[i] = [id |-> n + i, text |-> x.text, cites |-> x.cites, scn |-> m + x.scn, reqs |-> x.reqs]
      BY <3>3, <3>5
    <3> QED
      BY <3>3, <3>4, <3>6 DEF TestRow
  <2>3. ts = [i \in 1..Len(tests) |-> ts[i]]
    BY <2>1
  <2> HIDE DEF ts
  <2> QED
    BY <2>1, <2>2, <2>3
<1>5. AppendBatch(suite, scns, tests) = [suite EXCEPT !.scns = @ \o ss, !.tests = @ \o ts]
  BY Zenon DEF AppendBatch
<1> HIDE DEF ss, ts
<1>6. AppendBatch(suite, scns, tests) = [reqs |-> suite.reqs, scns |-> suite.scns \o ss, tests |-> suite.tests \o ts]
  BY <1>1, <1>5
<1>7. suite.scns \o ss \in Seq(ScenarioRow) /\ suite.tests \o ts \in Seq(TestRow)
  BY <1>1, <1>3, <1>4, ConcatProperties
<1> QED
  BY <1>1, <1>6, <1>7, BundleIs

\* What the curation decided on is a suite when its dependencies are finite.
Curable(list) == Listed(list) /\ \A r \in ToSet(list) : r.deps \in IdSets

LEMMA HandedBundle == ASSUME NEW list, Curable(list)  PROVE AsSuite(list) \in Bundle
<1> DEFINE rs == [i \in DOMAIN list |-> Requirement(i, list[i].deps)]
<1>1. Len(list) \in Nat /\ DOMAIN list = 1..Len(list)
  BY ListedIs DEF Curable
<1>2. AsSuite(list) = [reqs |-> rs, scns |-> <<>>, tests |-> <<>>]
  BY DEF AsSuite, EmptySuite
<1>3. ASSUME NEW i \in 1..Len(list)  PROVE rs[i] \in RequirementRow
  <2>1. list[i].deps \in IdSets /\ i \in Nat
    BY <1>1 DEF Curable, ToSet
  <2>2. rs[i] = [id |-> i, text |-> 0, cites |-> 0, deps |-> list[i].deps]
    BY <1>1 DEF Requirement
  <2> HIDE DEF rs
  <2> QED
    BY <2>1, <2>2 DEF RequirementRow
<1>4. rs \in Seq(RequirementRow)
  <2>1. rs = [i \in 1..Len(list) |-> rs[i]]
    BY <1>1
  <2> HIDE DEF rs
  <2> QED
    BY <1>1, <1>3, <2>1
<1> HIDE DEF rs
<1>5. <<>> \in Seq(ScenarioRow) /\ <<>> \in Seq(TestRow)
  OBVIOUS
<1> QED
  BY <1>2, <1>4, <1>5, BundleIs

\* Dependencies on requirements that are there are finite.
LEMMA WithinCurable == ASSUME NEW list, Listed(list), Within(list)  PROVE Curable(list)
<1>1. Len(list) \in Nat /\ DOMAIN list = 1..Len(list)
  BY ListedIs
<1>2. IsFiniteSet(DOMAIN list) /\ DOMAIN list \subseteq Nat
  BY <1>1, FS_Interval
<1>3. DOMAIN list \in IdSets
  BY <1>2 DEF IdSets
<1>4. ASSUME NEW r \in ToSet(list)  PROVE r.deps \in IdSets
  <2>1. PICK i \in DOMAIN list : r = list[i]
    BY DEF ToSet
  <2>2. r.deps \subseteq DOMAIN list
    BY <2>1 DEF Within
  <2> QED
    BY <1>3, <2>2, IdMore
<1> QED
  BY <1>4 DEF Curable

\* Lists put together are finite in what they depend on if both are.
LEMMA CurableConcat == ASSUME NEW s, NEW t, Curable(s), Curable(t)  PROVE Curable(s \o t)
BY ListedConcat DEF Curable

\* The rows of a kind of artifact.
RowsOf(kind) == CASE kind = "REQ" -> RequirementRow [] kind = "SCN" -> ScenarioRow [] kind = "TC" -> TestRow

\* An artifact of a suite has the kind of its key, and the id.
LEMMA ArtifactIs ==
    ASSUME NEW suite \in Bundle, NEW kind \in Kinds, NEW id, <<kind, id>> \in Keys(suite)
    PROVE  Artifact(suite, <<kind, id>>) \in RowsOf(kind)
<1> DEFINE key  == <<kind, id>>
           list == List(suite, kind)
<1>1. id \in Ids(list)
  BY DEF Keys
<1>2. \A x \in ToSet(list) : x \in RowsOf(kind)
  <2>1. suite.reqs \in Seq(RequirementRow) /\ suite.scns \in Seq(ScenarioRow) /\ suite.tests \in Seq(TestRow)
    BY BundleIs
  <2>2. list \in Seq(RowsOf(kind))
    BY <2>1 DEF Kinds, List, RowsOf
  <2> HIDE DEF list
  <2> QED
    BY <2>2 DEF ToSet
<1>3. Holders(suite, key) = {a \in ToSet(list) : a.id = id}
  BY DEF Holders
<1> HIDE DEF list
<1>4. \E a \in Holders(suite, key) : TRUE
  BY <1>1, <1>3 DEF Ids
<1>5. Artifact(suite, key) \in Holders(suite, key)
  BY <1>4 DEF Artifact
<1> QED
  BY <1>2, <1>3, <1>5

\* What a repair may replace an artifact by is an artifact of its kind.
LEMMA RewritesAre ==
    ASSUME bundle \in Bundle, NEW kind \in Kinds, NEW id, <<kind, id>> \in Keys(bundle)
    PROVE  Rewrites(<<kind, id>>) \subseteq RowsOf(kind)
<1> DEFINE a == Artifact(bundle, <<kind, id>>)
<1>1. a \in RowsOf(kind)
  BY ArtifactIs
<1>2. bundle.reqs \in Seq(RequirementRow) /\ bundle.scns \in Seq(ScenarioRow) /\ bundle.tests \in Seq(TestRow)
  BY BundleIs
<1>3. Rewrites(<<kind, id>>) = {a, [a EXCEPT !.cites = @ + 1]} \cup Relinked(a, kind)
                               \cup {[b EXCEPT !.text = @ + 1] : b \in Relinked(a, kind)}
  BY DEF Rewrites
<1> HIDE DEF a
<1>4. [a EXCEPT !.cites = @ + 1] \in RowsOf(kind)
  <2>1. \A c \in Nat \cup {Ungrounded} : c + 1 \in Nat \cup {Ungrounded}
    BY DEF Ungrounded
  <2>2. ASSUME NEW x \in RequirementRow  PROVE [x EXCEPT !.cites = @ + 1] \in RequirementRow
    BY <2>1 DEF RequirementRow
  <2>3. ASSUME NEW x \in ScenarioRow  PROVE [x EXCEPT !.cites = @ + 1] \in ScenarioRow
    BY <2>1 DEF ScenarioRow
  <2>4. ASSUME NEW x \in TestRow  PROVE [x EXCEPT !.cites = @ + 1] \in TestRow
    BY <2>1 DEF TestRow
  <2> QED
    BY <1>1, <2>2, <2>3, <2>4 DEF Kinds, RowsOf
<1>5. Relinked(a, kind) \subseteq RowsOf(kind)
  <2>1. CASE kind = "REQ"
    <3>1. a \in RequirementRow /\ Relinked(a, kind) = {[a EXCEPT !.deps = d] : d \in {{}, {a.id}}}
      BY <1>1, <2>1 DEF RowsOf, Relinked
    <3>2. a.id \in Nat
      BY <3>1 DEF RequirementRow
    <3>3. \A d \in {{}, {a.id}} : d \in IdSets
      BY <3>2, IdMore
    <3>4. \A d \in IdSets : [a EXCEPT !.deps = d] \in RequirementRow
      BY <3>1 DEF RequirementRow
    <3> QED
      BY <2>1, <3>1, <3>3, <3>4 DEF RowsOf
  <2>2. CASE kind = "SCN"
    <3>1. a \in ScenarioRow /\ Relinked(a, kind) = {[a EXCEPT !.reqs = s] : s \in (SUBSET Ids(bundle.reqs)) \ {{}}}
      BY <1>1, <2>2 DEF RowsOf, Relinked
    <3>2. Ids(bundle.reqs) \in IdSets
      BY <1>2, IdsAre
    <3>3. \A s \in SUBSET Ids(bundle.reqs) : s \in IdSets
      BY <3>2, IdMore
    <3>4. \A s \in (SUBSET Ids(bundle.reqs)) \ {{}} : [a EXCEPT !.reqs = s] \in ScenarioRow
      BY <3>1, <3>3 DEF ScenarioRow
    <3>5. Relinked(a, kind) \subseteq ScenarioRow
      BY <3>1, <3>4
    <3>6. RowsOf(kind) = ScenarioRow
      BY <2>2 DEF RowsOf
    <3> QED
      BY <3>5, <3>6
  <2>3. CASE kind = "TC"
    <3> DEFINE R == {Artifact(bundle, <<"SCN", n>>).reqs : n \in Ids(bundle.scns)}
               F(link) == [a EXCEPT !.scn = link.scn, !.reqs = link.reqs]
    <3>1. a \in TestRow /\ RowsOf(kind) = TestRow
      BY <1>1, <2>3 DEF RowsOf
    <3>7. ASSUME NEW x \in Relinked(a, kind)  PROVE \E link \in [scn : Ids(bundle.scns), reqs : R] : x = F(link)
      BY <2>3 DEF Relinked
    <3>2. Ids(bundle.scns) \subseteq Nat
      BY <1>2, IdsAre DEF IdSets
    <3>3. ASSUME NEW r \in R  PROVE r \in IdSets
      <4>1. PICK n \in Ids(bundle.scns) : r = Artifact(bundle, <<"SCN", n>>).reqs
        OBVIOUS
      <4>2. "SCN" \in Kinds /\ <<"SCN", n>> \in Keys(bundle) /\ RowsOf("SCN") = ScenarioRow
        BY DEF Kinds, Keys, List, RowsOf
      <4>3. Artifact(bundle, <<"SCN", n>>) \in ScenarioRow
        BY <4>2, ArtifactIs
      <4>4. \A x \in ScenarioRow : x.reqs \in IdSets
        BY DEF ScenarioRow
      <4> QED
        BY <4>1, <4>3, <4>4
    <3> HIDE DEF R
    <3>4. ASSUME NEW link \in [scn : Ids(bundle.scns), reqs : R]  PROVE F(link) \in TestRow
      <4>1. link.scn \in Nat /\ link.reqs \in IdSets
        BY <3>2, <3>3
      <4> QED
        BY <3>1, <4>1 DEF TestRow
    <3> HIDE DEF F
    <3>5. \A x \in Relinked(a, kind) : x \in TestRow
      BY <3>4, <3>7
    <3> QED
      BY <3>1, <3>5
  <2> QED
    BY <2>1, <2>2, <2>3 DEF Kinds
<1>6. \A b \in Relinked(a, kind) : [b EXCEPT !.text = @ + 1] \in RowsOf(kind)
  <2>1. ASSUME NEW x \in RequirementRow  PROVE [x EXCEPT !.text = @ + 1] \in RequirementRow
    BY DEF RequirementRow
  <2>2. ASSUME NEW x \in ScenarioRow  PROVE [x EXCEPT !.text = @ + 1] \in ScenarioRow
    BY DEF ScenarioRow
  <2>3. ASSUME NEW x \in TestRow  PROVE [x EXCEPT !.text = @ + 1] \in TestRow
    BY DEF TestRow
  <2> QED
    BY <1>5, <2>1, <2>2, <2>3 DEF Kinds, RowsOf
<1> QED
  BY <1>1, <1>3, <1>4, <1>5, <1>6

\* A patch of a suite's artifacts leaves a suite (_merge_patch).
LEMMA MergedRows ==
    ASSUME bundle \in Bundle, NEW findings, \A f \in findings : f.on \subseteq Keys(bundle), NEW patch \in Patches(findings)
    PROVE  MergePatch(bundle, patch) \in Bundle /\ Keys(MergePatch(bundle, patch)) = Keys(bundle)
<1> DEFINE put(kind) == [i \in DOMAIN List(bundle, kind) |->
                           IF <<kind, List(bundle, kind)[i].id>> \in DOMAIN patch
                             THEN patch[<<kind, List(bundle, kind)[i].id>>] ELSE List(bundle, kind)[i]]
<1>1. MergePatch(bundle, patch) = [reqs |-> put("REQ"), scns |-> put("SCN"), tests |-> put("TC")]
  BY DEF MergePatch
<1>2. DOMAIN patch = Targets(findings) /\ (\A key \in DOMAIN patch : patch[key] \in Rewrites(key) /\ patch[key].id = key[2])
  BY DEF Patches, RepairOK
<1>3. Targets(findings) \subseteq Keys(bundle)
  BY DEF Targets
<1>4. bundle.reqs \in Seq(RequirementRow) /\ bundle.scns \in Seq(ScenarioRow) /\ bundle.tests \in Seq(TestRow)
  BY BundleIs
<1>5. ASSUME NEW kind \in Kinds  PROVE put(kind) \in Seq(RowsOf(kind))
  <2> DEFINE old == List(bundle, kind)
             new == put(kind)
  <2>1. old \in Seq(RowsOf(kind))
    BY <1>4 DEF Kinds, List, RowsOf
  <2>2. ASSUME NEW i \in DOMAIN old  PROVE new[i] \in RowsOf(kind)
    <3>1. CASE <<kind, old[i].id>> \in DOMAIN patch
      <4> DEFINE id == old[i].id
      <4>1. new[i] = patch[<<kind, id>>]
        BY <3>1
      <4>2. patch[<<kind, id>>] \in Rewrites(<<kind, id>>) /\ <<kind, id>> \in Keys(bundle)
        BY <1>2, <1>3, <3>1
      <4> HIDE DEF new, id
      <4>3. Rewrites(<<kind, id>>) \subseteq RowsOf(kind)
        BY <4>2, RewritesAre
      <4> QED
        BY <4>1, <4>2, <4>3
    <3>2. CASE <<kind, old[i].id>> \notin DOMAIN patch
      <4>1. new[i] = old[i]
        BY <3>2
      <4> HIDE DEF new, old
      <4> QED
        BY <2>1, <4>1
    <3> QED
      BY <3>1, <3>2
  <2>3. DOMAIN new = DOMAIN old /\ new = [i \in DOMAIN old |-> new[i]]
    OBVIOUS
  <2> HIDE DEF old, new
  <2>4. new \in Seq(RowsOf(kind))
    <3>1. DOMAIN old = 1..Len(old) /\ Len(old) \in Nat
      BY <2>1
    <3>2. new = [i \in 1..Len(old) |-> new[i]] /\ \A i \in 1..Len(old) : new[i] \in RowsOf(kind)
      BY <2>2, <2>3, <3>1
    <3> QED
      BY <3>1, <3>2
  <2> QED
    BY <2>4 DEF new
<1> HIDE DEF put
<1>6. MergePatch(bundle, patch) \in Bundle
  <2>1. put("REQ") \in Seq(RequirementRow) /\ put("SCN") \in Seq(ScenarioRow) /\ put("TC") \in Seq(TestRow)
    <3>1. "REQ" \in Kinds /\ "SCN" \in Kinds /\ "TC" \in Kinds
          /\ RowsOf("REQ") = RequirementRow /\ RowsOf("SCN") = ScenarioRow /\ RowsOf("TC") = TestRow
      BY DEF Kinds, RowsOf
    <3> QED
      BY <1>5, <3>1
  <2> QED
    BY <1>1, <2>1, BundleIs
<1>7. Suited(bundle)
  <2>1. bundle = [reqs |-> bundle.reqs, scns |-> bundle.scns, tests |-> bundle.tests]
    BY BundleIs
  <2> QED
    BY <1>4, <2>1 DEF Suited, Listed, ToSet
<1>8. Keys(MergePatch(bundle, patch)) = Keys(bundle)
  BY <1>2, <1>7, MergeSuited
<1> QED
  BY <1>6, <1>8

\* What the curation keeps depends on finitely many, what is being added is made
\* of scenarios and test cases, and the findings that await their repair by the
\* corrected pipeline have targets.
DecidedListInv == profile = "corrected" /\ step \in Curating => Curable(reqs)

AddingInv == step \in {"expand", "expand_tests"} =>
    /\ gap.left \in Seq(RequirementRow) /\ gap.scns \in Seq(ScenarioRow)
    /\ gap.targets \in Seq(ScenarioRow) /\ gap.tests \in Seq(TestRow) /\ gap.tested \in Nat

TargetsInv == profile = "corrected" /\ step = "repair" =>
    Listed(queue) /\ \A f \in ToSet(queue) : f.on \subseteq Keys(bundle)

SuitesInv == bundle \in Bundle /\ draft \in Bundle /\ DecidedListInv /\ AddingInv /\ TargetsInv

\* A run begins with nothing.
LEMMA SuitesInit == ASSUME Init  PROVE SuitesInv
<1>1. step = "scout" /\ bundle = EmptySuite /\ draft = EmptySuite /\ reqs = <<>>
  BY DEF Init, InitPipeline, InitCuration
<1>2. EmptySuite \in Bundle
  BY BundleIs DEF EmptySuite
<1>3. Curable(<<>>)
  BY ListedEmpty DEF Curable
<1> QED
  BY <1>1, <1>2, <1>3 DEF SuitesInv, DecidedListInv, AddingInv, TargetsInv

\* How many requirements an assignment makes is a number.
LEMMA AssignedCount ==
    ASSUME NEW n \in Nat, NEW into, DOMAIN into = 1..n
    PROVE  Cardinality({into[i] : i \in DOMAIN into} \ {0}) \in Nat
<1> DEFINE f == [i \in 1..n |-> into[i]]
           S == {into[i] : i \in DOMAIN into}
<1>1. f \in Surjection(1..n, S)
  BY DEF Surjection
<1>2. IsFiniteSet(1..n)
  BY FS_Interval
<1>3. IsFiniteSet(S)
  BY <1>1, <1>2, FS_Surjection
<1>4. IsFiniteSet(S \ {0})
  BY <1>3, FS_Subset
<1> QED
  BY <1>4, FS_CardinalityType

\* What the corrected curator says of its requirements is finite.
LEMMA WrittenCurable ==
    ASSUME NEW into, NEW count \in Nat, NEW list \in Written(into, count)
    PROVE  Curable(list) /\ Len(list) = count
<1>1. PICK deps \in [1..count -> Dependencies(count)] :
        list = [r \in 1..count |-> [sources |-> Sources(into, r), deps |-> deps[r]]]
  BY DEF Written
<1>2. /\ DOMAIN list = 1..count /\ list = [i \in 1..count |-> list[i]]
      /\ \A i \in 1..count : list[i].deps \in Dependencies(count)
  BY <1>1
<1>3. Listed(list) /\ Len(list) = count
  BY <1>2, ListedFunction
<1>4. \A d \in Dependencies(count) : d \in IdSets
  <2>1. 1..(count + 1) \in IdSets
    <3>1. IsFiniteSet(1..(count + 1)) /\ 1..(count + 1) \subseteq Nat
      BY FS_Interval
    <3> QED
      BY <3>1 DEF IdSets
  <2>2. \A d \in Dependencies(count) : d \subseteq 1..(count + 1)
    BY DEF Dependencies
  <2> QED
    BY <2>1, <2>2, IdMore
<1>5. \A r \in ToSet(list) : r.deps \in IdSets
  BY <1>2, <1>4 DEF ToSet
<1> QED
  BY <1>3, <1>5 DEF Curable

\* The steps of the curation keep what it decided on finite, and what is handed
\* on is a suite.
LEMMA CuratedSuites ==
    ASSUME CurationInv, DepsInv, SuitesInv, Curate
    PROVE  SuitesInv'
<1> USE DEF Claim
<1>0. PhaseInv /\ FoundInv /\ bundle \in Bundle /\ draft \in Bundle
  BY DEF CurationInv, SuitesInv
<1>1. step \in Curating /\ profile' = profile
  BY DEF Curate, Curating, Scout, SourceAudit, CheckOwnership, CurateBatch, CurateDone, RejectionAudit, RecheckDone,
         ScoutCorrected, Synthesize, DecideAll, Materialize, MaterializeDone, HandOver
<1>2. step' \in Curating \cup {"design", "failed", "conflict"}
  BY DEF Curate, Curating, Scout, SourceAudit, CheckOwnership, CurateBatch, CurateDone, RejectionAudit, RecheckDone,
         ScoutCorrected, Synthesize, DecideAll, Materialize, MaterializeDone, HandOver
<1>3. AddingInv' /\ TargetsInv'
  BY <1>2 DEF AddingInv, TargetsInv, Curating
<1>4. CASE CurateBatch
  <2>1. Within(reqs') /\ Listed(reqs')
    BY <1>4, BatchWithin
  <2>2. AsSuite(reqs') \in Bundle
    BY <2>1, WithinCurable, HandedBundle
  <2>3. profile = "efficient" /\ bundle' = bundle /\ draft' = AsSuite(reqs')
    BY <1>4 DEF CurateBatch
  <2> QED
    BY <1>0, <1>1, <1>3, <2>2, <2>3 DEF SuitesInv, DecidedListInv
<1>5. CASE HandOver
  <2>1. step = "curated" /\ step' = "design" /\ bundle' = AsSuite(reqs) /\ draft' = draft
    BY <1>5 DEF HandOver
  <2>2. Curable(reqs)
    <3>1. CASE profile = "efficient"
      <4>1. reqs \in Seq(Curated) /\ Within(reqs)
        BY <2>1, <3>1 DEF CurationInv, DecidedInv, DepsInv
      <4>2. Listed(reqs)
        BY <4>1 DEF Listed, ToSet
      <4> QED
        BY <4>1, <4>2, WithinCurable
    <3>2. CASE profile = "corrected"
      BY <2>1, <3>2 DEF SuitesInv, DecidedListInv, Curating
    <3> QED
      BY <1>0, <2>1, <3>1, <3>2 DEF PhaseInv, Curating
  <2> QED
    BY <1>0, <1>3, <2>1, <2>2, HandedBundle DEF SuitesInv, DecidedListInv, Curating
<1>6. CASE ~CurateBatch /\ ~HandOver
  <2>1. bundle' = bundle /\ draft' = draft
    BY <1>6 DEF Curate, Scout, SourceAudit, CheckOwnership, CurateDone, RejectionAudit, RecheckDone,
                ScoutCorrected, Synthesize, DecideAll, Materialize, MaterializeDone
  <2> SUFFICES ASSUME profile = "corrected", step' \in Curating  PROVE Curable(reqs')
    BY <1>0, <1>1, <1>3, <2>1 DEF SuitesInv, DecidedListInv
  <2>2. Curable(reqs)
    BY <1>1 DEF SuitesInv, DecidedListInv
  <2>3. CASE Synthesize
    <3>1. step = "curate" /\ step \in Complete
      BY <2>3 DEF Synthesize, Complete
    <3>2. Len(Candidates) \in Nat /\ DOMAIN Candidates = 1..Len(Candidates)
      BY <1>0, <3>1, CandidatesAre
    <3>3. PICK into \in Assignments : \E said \in Assignments :
             \E list \in Written(said, Cardinality({into[i] : i \in DOMAIN into} \ {0})) : reqs' = list
      BY <2>3 DEF Synthesize
    <3>4. PICK said \in Assignments : \E list \in Written(said, Cardinality({into[i] : i \in DOMAIN into} \ {0})) : reqs' = list
      BY <3>3
    <3>5. DOMAIN into = 1..Len(Candidates)
      BY <3>2 DEF Assignments
    <3> DEFINE count == Cardinality({into[i] : i \in DOMAIN into} \ {0})
    <3>6. count \in Nat
      BY <3>2, <3>5, AssignedCount
    <3>7. reqs' \in Written(said, count)
      BY <3>4
    <3> HIDE DEF count
    <3> QED
      BY <3>6, <3>7, WrittenCurable
  <2>4. CASE Materialize
    <3>1. step = "materialize" /\ step \in Complete
      BY <2>4 DEF Materialize, Complete
    <3>2. Len(Candidates) \in Nat /\ DOMAIN Candidates = 1..Len(Candidates)
      BY <1>0, <3>1, CandidatesAre
    <3>3. assigned \in [DOMAIN Candidates -> Nat]
      BY <3>1 DEF CurationInv, AssignedInv
    <3>4. Wanted \in Nat
      BY <3>2, <3>3, AssignedCount DEF Wanted
    <3> DEFINE upto == IF Len(reqs) + MaterializeMax < Wanted THEN Len(reqs) + MaterializeMax ELSE Wanted
    <3>5. PICK list \in Written(assigned, Wanted) : reqs' = reqs \o SubSeq(list, Len(reqs) + 1, upto)
      BY <2>4 DEF Materialize
    <3>6. Curable(list) /\ Len(list) = Wanted
      BY <3>4, WrittenCurable
    <3>7. Len(reqs) \in Nat
      BY <2>2, ListedIs DEF Curable
    <3>8. upto \in Nat /\ upto <= Len(list) /\ Len(reqs) + 1 \in Nat /\ Len(reqs) + 1 >= 1
      BY <3>4, <3>6, <3>7, LimitsAssumption
    <3> HIDE DEF upto
    <3> DEFINE new == SubSeq(list, Len(reqs) + 1, upto)
    <3>9. Listed(new) /\ ToSet(new) \subseteq ToSet(list)
      BY <3>6, <3>8, ListedPart DEF Curable
    <3>10. Curable(new)
      BY <3>6, <3>9 DEF Curable
    <3> HIDE DEF new
    <3>11. Curable(reqs \o new)
      BY <2>2, <3>10, CurableConcat
    <3> QED
      BY <3>5, <3>11 DEF new
  <2>5. CASE ~Synthesize /\ ~Materialize
    <3>1. ~RejectionAudit
      BY <1>0 DEF RejectionAudit, PhaseInv
    <3>2. reqs' = reqs
      BY <1>6, <2>5, <3>1 DEF Curate, Scout, SourceAudit, CheckOwnership, CurateDone, RecheckDone,
                              ScoutCorrected, DecideAll, MaterializeDone, decisions, curation
    <3> QED
      BY <2>2, <3>2
  <2> QED
    BY <2>3, <2>4, <2>5
<1> QED
  BY <1>4, <1>5, <1>6

\* Where nothing is curated, added or awaits its repair, there is only the suite.
LEMMA SuitesRest ==
    ASSUME bundle' \in Bundle, draft' \in Bundle, step' \notin Curating \cup {"expand", "expand_tests", "repair"}
    PROVE  SuitesInv'
BY DEF SuitesInv, DecidedListInv, AddingInv, TargetsInv

\* A batch of designs is appended to the suite (_design_tests).
LEMMA DesignedSuite == ASSUME bundle \in Bundle, DesignInv, DesignTask  PROVE bundle' \in Bundle
<1>1. /\ bundle.reqs \in Seq(RequirementRow) /\ designed \in Nat /\ DesignBatch \in Nat
  <2>1. bundle.reqs \in Seq(RequirementRow)
    BY BundleIs
  <2>2. designed \in 0..Len(bundle.reqs) /\ Len(bundle.reqs) \in Nat
    BY <2>1 DEF DesignInv, DesignTask
  <2> QED
    BY <2>1, <2>2, DraftingAssumption
<1>2. PICK some \in FirstGroups(SubSeq(bundle.reqs, designed + 1, Len(bundle.reqs)), DesignBatch) :
        \E scns \in ScenarioAnswers(Ids(some)) :
           bundle' = AppendBatch(bundle, scns, [i \in DOMAIN scns |-> TestCase(i, i, scns[i].reqs)])
  BY DEF DesignTask
<1>3. PICK scns \in ScenarioAnswers(Ids(some)) :
           bundle' = AppendBatch(bundle, scns, [i \in DOMAIN scns |-> TestCase(i, i, scns[i].reqs)])
  BY <1>2
<1>4. some \in Seq(RequirementRow)
  <2> DEFINE s == bundle.reqs
  <2>1. s \in Seq(RequirementRow) /\ some \in FirstGroups(SubSeq(s, designed + 1, Len(s)), DesignBatch)
    BY <1>1, <1>2
  <2> HIDE DEF s
  <2> QED
    BY <1>1, <2>1, GroupIs
<1>5. scns \in Seq(ScenarioRow)
  BY <1>3, <1>4, IdsAre, AnsweredScenarios
<1> DEFINE tests == [i \in DOMAIN scns |-> TestCase(i, i, scns[i].reqs)]
<1>6. tests \in Seq(TestRow)
  <2>1. Len(scns) \in Nat /\ DOMAIN scns = 1..Len(scns) /\ \A i \in 1..Len(scns) : scns[i] \in ScenarioRow
    BY <1>5
  <2>2. ASSUME NEW i \in 1..Len(scns)  PROVE tests[i] \in TestRow
    <3>1. scns[i].reqs \in IdSets /\ i \in Nat
      BY <2>1 DEF ScenarioRow
    <3>2. tests[i] = [id |-> i, text |-> 0, cites |-> 0, scn |-> i, reqs |-> scns[i].reqs]
      BY <2>1 DEF TestCase
    <3> HIDE DEF tests
    <3> QED
      BY <3>1, <3>2 DEF TestRow
  <2>3. tests = [i \in 1..Len(scns) |-> tests[i]]
    BY <2>1
  <2> HIDE DEF tests
  <2> QED
    BY <2>1, <2>2, <2>3
<1>7. bundle' = AppendBatch(bundle, scns, tests)
  BY <1>3
<1> HIDE DEF tests
<1> QED
  BY <1>5, <1>6, <1>7, AppendedRows

\* What the writers wrote is numbered through (run_centralized_multi_agent).
LEMMA AssembledSuite == ASSUME bundle \in Bundle, WritingInv, Assemble  PROVE bundle' \in Bundle
<1>1. step = "write" /\ \A g \in DOMAIN written : written[g] # None
  BY DEF Assemble
<1>2. /\ Dealt(bundle.scns, shares) /\ DOMAIN written = DOMAIN shares /\ written = [h \in DOMAIN shares |-> written[h]]
      /\ \A g \in DOMAIN shares : written[g] \in TestAnswers(shares[g])
  BY <1>1 DEF WritingInv
<1> DEFINE tests == FlattenSeq(written)
           cases == [i \in DOMAIN tests |-> [tests[i] EXCEPT !.id = i]]
           n == Len(shares)
<1>3. n \in Nat /\ DOMAIN shares = 1..n
  BY <1>2, ListedIs DEF Dealt
<1>4. \A s \in ToSet(bundle.scns) : s \in ScenarioRow
  <2>1. bundle.scns \in Seq(ScenarioRow)
    BY BundleIs
  <2> QED
    BY <2>1 DEF ToSet
<1>5. ASSUME NEW g \in DOMAIN shares  PROVE written[g] \in Seq(TestRow)
  <2> DEFINE share == shares[g]
  <2>1. \A s \in ToSet(share) : s \in ScenarioRow
    BY <1>2, <1>4 DEF Dealt
  <2>2. written[g] \in TestAnswers(share)
    BY <1>2
  <2> HIDE DEF share
  <2> QED
    BY <2>1, <2>2, AnsweredTests
<1>6. tests \in Seq(TestRow)
  <2>1. written \in Seq(Seq(TestRow))
    BY <1>2, <1>3, <1>5
  <2>2. <<>> \in Seq(TestRow)
    OBVIOUS
  <2> QED
    BY <2>1, <2>2, FlattenAppend
<1> HIDE DEF tests
<1>7. cases \in Seq(TestRow)
  <2>1. \A x \in TestRow, id \in Nat : [x EXCEPT !.id = id] \in TestRow
    BY DEF TestRow
  <2>2. Len(tests) \in Nat /\ DOMAIN tests = 1..Len(tests) /\ \A i \in 1..Len(tests) : tests[i] \in TestRow /\ i \in Nat
    BY <1>6
  <2> QED
    BY <2>1, <2>2
<1>8. bundle' = [bundle EXCEPT !.tests = cases]
  BY Zenon DEF Assemble, cases, tests
<1> HIDE DEF cases
<1> QED
  BY <1>7, <1>8, OtherLists

\* The steps of drafting leave suites.
LEMMA DraftedSuites == ASSUME DraftInv, SuitesInv, Draft  PROVE SuitesInv'
<1> USE DEF Claim, Curating
<1>1. bundle \in Bundle /\ draft \in Bundle
  BY DEF SuitesInv
<1>2. CASE DesignTask
  <2>1. bundle' \in Bundle
    BY <1>1, <1>2, DesignedSuite DEF DraftInv
  <2>2. draft' = bundle' /\ step' \in {"design", "conflict"}
    BY <1>2 DEF DesignTask
  <2> QED
    BY <2>1, <2>2, SuitesRest
<1>3. CASE DesignDone
  <2>1. draft' = bundle /\ bundle' = bundle /\ step' \in {"review", "failed"}
    BY <1>3 DEF DesignDone
  <2> QED
    BY <1>1, <2>1, SuitesRest
<1>4. CASE Architect
  <2>1. PICK scns \in ScenarioAnswers(Ids(bundle.reqs)) : bundle' = [bundle EXCEPT !.scns = scns]
    BY <1>4 DEF Architect
  <2>2. bundle.reqs \in Seq(RequirementRow)
    BY <1>1, BundleIs
  <2>3. scns \in Seq(ScenarioRow)
    BY <2>2, IdsAre, AnsweredScenarios
  <2>4. bundle' \in Bundle
    BY <1>1, <2>1, <2>3, OtherLists
  <2>5. draft' = draft /\ step' \in {"write", "conflict"}
    BY <1>4 DEF Architect
  <2> QED
    BY <1>1, <2>4, <2>5, SuitesRest
<1>5. CASE \E g \in DOMAIN written : WriteTests(g)
  <2>1. draft' = draft /\ bundle' = bundle /\ step' \in {"write", "conflict"}
    BY <1>5 DEF WriteTests
  <2> QED
    BY <1>1, <2>1, SuitesRest
<1>6. CASE Assemble
  <2>1. bundle' \in Bundle
    BY <1>1, <1>6, AssembledSuite DEF DraftInv
  <2>2. draft' = bundle' /\ step' = "review"
    BY <1>6 DEF Assemble
  <2> QED
    BY <2>1, <2>2, SuitesRest
<1>7. CASE SingleAnswer
  <2>1. bundle' \in Bundle /\ draft' = bundle' /\ step' = "check"
    BY <1>7, SuitesAssumption DEF SingleAnswer
  <2> QED
    BY <2>1, SuitesRest
<1>8. CASE StagedRequirements \/ StagedScenarios \/ StagedTests
  <2>1. bundle' \in Bundle /\ draft' = bundle'
    BY <1>1, <1>8, StagedSuite
  <2>2. step' \in {"scenarios", "tests", "check", "conflict"}
    BY <1>8 DEF StagedRequirements, StagedScenarios, StagedTests
  <2> QED
    BY <2>1, <2>2, SuitesRest
<1> QED
  BY <1>2, <1>3, <1>4, <1>5, <1>6, <1>7, <1>8 DEF Draft

\* What a repair of the efficient pipeline replaces are artifacts of the suite.
LEMMA PatchedSuites == ASSUME ReviewInv, SuitesInv, Patch  PROVE SuitesInv'
<1> USE DEF Claim, Curating
<1>1. step = "patch" /\ profile = "efficient" /\ draft' = bundle' /\ step' \in {"verify", "failed", "conflict"}
  BY DEF Patch, ReviewInv, ReportInv
<1>2. PICK patch \in Patches(group) : bundle' = MergePatch(bundle, patch)
  BY DEF Patch
<1>3. bundle \in Bundle /\ \A f \in group : f.on \subseteq Keys(bundle)
  BY <1>1 DEF SuitesInv, ReviewInv, RepairInv, Repairing
<1>4. bundle' \in Bundle
  BY <1>2, <1>3, MergedRows
<1> QED
  BY <1>1, <1>4, SuitesRest

\* A group of findings is taken: requirements that lack a scenario are the suite's.
LEMMA TakenSuites == ASSUME SuitesInv, NextRepair  PROVE SuitesInv'
<1> USE DEF Curating
<1>1. /\ profile' = "efficient" /\ bundle' = bundle /\ draft' = draft /\ bundle \in Bundle /\ draft \in Bundle
      /\ (step' = "expand" /\ gap' = NewGap(group')) \/ step' = "patch"
  BY DEF NextRepair, SuitesInv
<1>2. CASE step' = "patch"
  BY <1>1, <1>2, SuitesRest
<1>3. CASE step' = "expand" /\ gap' = NewGap(group')
  <2> DEFINE new == NewGap(group')
  <2>1. bundle.reqs \in Seq(RequirementRow) /\ \A S : Selected(bundle.reqs, S) \in Seq(RequirementRow)
    BY <1>1, BundleIs, SelectedFrom
  <2>2. /\ new.left \in Seq(RequirementRow)
        /\ new.scns = <<>> /\ new.targets = <<>> /\ new.tests = <<>> /\ new.tested = 0
    BY <2>1 DEF NewGap
  <2>3. <<>> \in Seq(ScenarioRow) /\ <<>> \in Seq(TestRow) /\ 0 \in Nat
    OBVIOUS
  <2> HIDE DEF new
  <2>4. AddingInv'
    BY <1>3, <2>2, <2>3 DEF AddingInv, new
  <2> QED
    BY <1>1, <1>3, <2>4 DEF SuitesInv, DecidedListInv, TargetsInv
<1> QED
  BY <1>1, <1>2, <1>3

\* What is left of a list is one of the same.
LEMMA RestIs ==
    ASSUME NEW S, NEW s \in Seq(S), NEW done \in Nat
    PROVE  SubSeq(s, done + 1, Len(s)) \in Seq(S)
<1>1. Len(s) \in Nat /\ done + 1 \in Int /\ \A i \in (done + 1)..Len(s) : s[i] \in S
  OBVIOUS
<1> QED
  BY <1>1, SubSeqProperties

\* While something is being added, it is made of scenarios and test cases.
LEMMA AddingSuites ==
    ASSUME SuitesInv, bundle' = bundle, draft' \in Bundle, step' \notin Curating \cup {"repair"}, AddingInv'
    PROVE  SuitesInv'
BY DEF SuitesInv, DecidedListInv, TargetsInv

\* A task that adds scenarios,
LEMMA GapScenarioSuites == ASSUME ReviewInv, SuitesInv, GapScenarios  PROVE SuitesInv'
<1> USE DEF Claim, Curating
<1>1. /\ step = "expand" /\ step' \in {"expand", "conflict"} /\ bundle' = bundle /\ draft' = draft
      /\ profile = "efficient" /\ draft \in Bundle
  BY DEF GapScenarios, ReviewInv, ReportInv, SuitesInv
<1>2. /\ gap.left \in Seq(RequirementRow) /\ gap.scns \in Seq(ScenarioRow)
      /\ gap.targets \in Seq(ScenarioRow) /\ gap.tests \in Seq(TestRow) /\ gap.tested \in Nat
      /\ DOMAIN gap = {"left", "tasks", "scns", "targets", "tested", "tests"} /\ ScenarioBatch \in Nat
      /\ bundle.scns \in Seq(ScenarioRow)
  BY <1>1, BundleIs, ReviewAssumption DEF SuitesInv, AddingInv, ReviewInv, SuiteInv, Adding
<1>3. PICK some \in FirstGroups(gap.left, ScenarioBatch) :
        \E scns \in ScenarioAnswers(Ids(some)) :
           gap' = [gap EXCEPT !.left = SubSeq(@, Len(some) + 1, Len(@)), !.tasks = @ + 1,
                      !.scns = @ \o Numbered_from(scns, Len(bundle.scns) + Len(@))]
  BY DEF GapScenarios
<1>4. PICK scns \in ScenarioAnswers(Ids(some)) :
           gap' = [gap EXCEPT !.left = SubSeq(@, Len(some) + 1, Len(@)), !.tasks = @ + 1,
                      !.scns = @ \o Numbered_from(scns, Len(bundle.scns) + Len(@))]
  BY <1>3
<1>5. some \in Seq(RequirementRow) /\ Len(some) \in Nat
  BY <1>2, <1>3, FirstGroupIs
<1>6. scns \in Seq(ScenarioRow)
  BY <1>4, <1>5, IdsAre, AnsweredScenarios
<1> DEFINE new  == Numbered_from(scns, Len(bundle.scns) + Len(gap.scns))
           rest == SubSeq(gap.left, Len(some) + 1, Len(gap.left))
<1>7. new \in Seq(ScenarioRow)
  <2> DEFINE k == Len(bundle.scns) + Len(gap.scns)
  <2>1. k \in Nat /\ new = Numbered_from(scns, k)
    BY <1>2
  <2> HIDE DEF k, new
  <2> QED
    BY <1>6, <2>1, NumberedRows
<1>8. rest \in Seq(RequirementRow)
  BY <1>2, <1>5, RestIs
<1>9. /\ gap'.left = rest /\ gap'.scns = gap.scns \o new /\ gap'.targets = gap.targets
      /\ gap'.tests = gap.tests /\ gap'.tested = gap.tested
  <2>1. gap' = [gap EXCEPT !.left = rest, !.tasks = @ + 1, !.scns = @ \o new]
    BY <1>4
  <2> HIDE DEF new, rest
  <2> QED
    BY <1>2, <2>1
<1> HIDE DEF new, rest
<1>10. gap.scns \o new \in Seq(ScenarioRow)
  BY <1>2, <1>7, ConcatProperties
<1>11. AddingInv'
  BY <1>2, <1>8, <1>9, <1>10 DEF AddingInv
<1> QED
  BY <1>1, <1>11, AddingSuites

\* the choice of those that tests are asked for,
LEMMA GapTargetSuites == ASSUME ReviewInv, SuitesInv, GapTargets  PROVE SuitesInv'
<1> USE DEF Curating
<1>1. /\ step = "expand" /\ step' \in {"failed", "expand_tests"} /\ bundle' = bundle /\ draft' = draft
      /\ profile = "efficient" /\ draft \in Bundle
  BY DEF GapTargets, ReviewInv, ReportInv, SuitesInv
<1>2. /\ gap.left \in Seq(RequirementRow) /\ gap.scns \in Seq(ScenarioRow)
      /\ gap.targets \in Seq(ScenarioRow) /\ gap.tests \in Seq(TestRow) /\ gap.tested \in Nat
      /\ DOMAIN gap = {"left", "tasks", "scns", "targets", "tested", "tests"}
      /\ bundle.scns \in Seq(ScenarioRow)
  BY <1>1, BundleIs DEF SuitesInv, AddingInv, ReviewInv, SuiteInv, Adding
<1> DEFINE targets == IF gap.scns # <<>> THEN gap.scns
                      ELSE Selected(bundle.scns, {s \in ToSet(bundle.scns) : s.id \in TargetScns(group)})
<1>3. targets \in Seq(ScenarioRow)
  <2>1. \A S : Selected(bundle.scns, S) \in Seq(ScenarioRow)
    BY <1>2, SelectedFrom
  <2> QED
    BY <1>2, <2>1
<1>4. gap' = [gap EXCEPT !.targets = targets, !.tasks = 0]
  BY DEF GapTargets
<1> HIDE DEF targets
<1>5. /\ gap'.left = gap.left /\ gap'.scns = gap.scns /\ gap'.targets = targets
      /\ gap'.tests = gap.tests /\ gap'.tested = gap.tested
  BY <1>2, <1>4
<1>6. AddingInv'
  BY <1>2, <1>3, <1>5 DEF AddingInv
<1> QED
  BY <1>1, <1>6, AddingSuites

\* a task that adds test cases,
LEMMA GapTestSuites == ASSUME ReviewInv, SuitesInv, GapTests  PROVE SuitesInv'
<1> USE DEF Claim, Curating
<1>1. /\ step = "expand_tests" /\ step' \in {"expand_tests", "conflict"} /\ bundle' = bundle
      /\ draft' = [bundle EXCEPT !.scns = gap.targets, !.tests = gap'.tests] /\ profile = "efficient"
  BY DEF GapTests, ReviewInv, ReportInv
<1>2. /\ gap.left \in Seq(RequirementRow) /\ gap.scns \in Seq(ScenarioRow)
      /\ gap.targets \in Seq(ScenarioRow) /\ gap.tests \in Seq(TestRow) /\ gap.tested \in Nat
      /\ DOMAIN gap = {"left", "tasks", "scns", "targets", "tested", "tests"} /\ TestBatch \in Nat
      /\ bundle.tests \in Seq(TestRow) /\ bundle \in Bundle
  BY <1>1, BundleIs, ReviewAssumption DEF SuitesInv, AddingInv, ReviewInv, SuiteInv, Adding
<1>3. PICK some \in FirstGroups(SubSeq(gap.targets, gap.tested + 1, Len(gap.targets)), TestBatch) :
        \E tests \in TestAnswers(some) :
           gap' = [gap EXCEPT !.tested = @ + Len(some), !.tasks = @ + 1,
                      !.tests = @ \o Numbered_from(tests, Len(bundle.tests) + Len(@))]
  BY DEF GapTests
<1>4. PICK tests \in TestAnswers(some) :
           gap' = [gap EXCEPT !.tested = @ + Len(some), !.tasks = @ + 1,
                      !.tests = @ \o Numbered_from(tests, Len(bundle.tests) + Len(@))]
  BY <1>3
<1>5. some \in Seq(ScenarioRow) /\ Len(some) \in Nat
  <2> DEFINE s == gap.targets
             done == gap.tested
  <2>1. s \in Seq(ScenarioRow) /\ done \in Nat /\ some \in FirstGroups(SubSeq(s, done + 1, Len(s)), TestBatch)
    BY <1>2, <1>3
  <2> HIDE DEF s, done
  <2> QED
    BY <1>2, <2>1, GroupIs
<1>6. tests \in Seq(TestRow)
  <2>1. \A s \in ToSet(some) : s \in ScenarioRow
    BY <1>5 DEF ToSet
  <2> QED
    BY <1>4, <2>1, AnsweredTests
<1> DEFINE new == Numbered_from(tests, Len(bundle.tests) + Len(gap.tests))
<1>7. new \in Seq(TestRow)
  <2> DEFINE k == Len(bundle.tests) + Len(gap.tests)
  <2>1. k \in Nat /\ new = Numbered_from(tests, k)
    BY <1>2
  <2> HIDE DEF k, new
  <2> QED
    BY <1>6, <2>1, NumberedRows
<1>8. /\ gap'.left = gap.left /\ gap'.scns = gap.scns /\ gap'.targets = gap.targets
      /\ gap'.tests = gap.tests \o new /\ gap'.tested = gap.tested + Len(some)
  <2>1. gap' = [gap EXCEPT !.tested = @ + Len(some), !.tasks = @ + 1, !.tests = @ \o new]
    BY <1>4
  <2> HIDE DEF new
  <2> QED
    BY <1>2, <2>1
<1> HIDE DEF new
<1>9. gap'.tests \in Seq(TestRow) /\ gap'.tested \in Nat
  BY <1>2, <1>5, <1>7, <1>8, ConcatProperties
<1>10. AddingInv'
  BY <1>2, <1>8, <1>9 DEF AddingInv
<1>11. draft' \in Bundle
  <2> DEFINE targets == gap.targets
             all == gap'.tests
  <2>1. targets \in Seq(ScenarioRow) /\ all \in Seq(TestRow) /\ draft' = [bundle EXCEPT !.scns = targets, !.tests = all]
    BY <1>1, <1>2, <1>9
  <2> HIDE DEF targets, all
  <2> QED
    BY <1>2, <2>1, BundleIs
<1> QED
  BY <1>1, <1>10, <1>11, AddingSuites

\* and the addition of all of it.
LEMMA GapDoneSuites == ASSUME SuitesInv, GapDone  PROVE SuitesInv'
<1> USE DEF Curating
<1>1. /\ step = "expand_tests" /\ step' \in {"verify", "failed"} /\ draft' = bundle'
      /\ bundle' = [bundle EXCEPT !.scns = @ \o gap.scns, !.tests = @ \o gap.tests]
  BY DEF GapDone
<1> DEFINE s == gap.scns
           t == gap.tests
<1>2. s \in Seq(ScenarioRow) /\ t \in Seq(TestRow) /\ bundle \in Bundle
  BY <1>1 DEF SuitesInv, AddingInv
<1>3. bundle' = [bundle EXCEPT !.scns = @ \o s, !.tests = @ \o t]
  BY <1>1
<1> HIDE DEF s, t
<1>4. /\ bundle = [reqs |-> bundle.reqs, scns |-> bundle.scns, tests |-> bundle.tests] /\ bundle.reqs \in Seq(RequirementRow)
      /\ bundle.scns \in Seq(ScenarioRow) /\ bundle.tests \in Seq(TestRow)
  BY <1>2, BundleIs
<1>5. bundle' = [reqs |-> bundle.reqs, scns |-> bundle.scns \o s, tests |-> bundle.tests \o t]
  BY <1>3, <1>4
<1>6. bundle.scns \o s \in Seq(ScenarioRow) /\ bundle.tests \o t \in Seq(TestRow)
  BY <1>2, <1>4, ConcatProperties
<1>7. bundle' \in Bundle
  BY <1>4, <1>5, <1>6, BundleIs
<1> QED
  BY <1>1, <1>7, SuitesRest

\* The findings of the corrected critic have targets,
LEMMA CritiqueSuites == ASSUME ReviewInv, SuitesInv, CritiqueSuite  PROVE SuitesInv'
<1> USE DEF Claim, Curating
<1>1. /\ bundle' = bundle /\ draft' = draft /\ bundle \in Bundle /\ draft \in Bundle
      /\ step' \in {"finish", "repair", "conflict"}
  BY DEF CritiqueSuite, SuitesInv
<1>2. PICK findings \in Reports(bundle) : queue' = findings
  BY DEF CritiqueSuite
<1>3. Len(report) \in Nat
  BY ListedIs DEF ReviewInv, ReportInv
<1>4. Listed(findings) /\ \A i \in DOMAIN findings : findings[i].on \subseteq Keys(bundle)
  BY <1>3, ReportsAre
<1>5. \A f \in ToSet(findings) : f.on \subseteq Keys(bundle)
  BY <1>4 DEF ToSet
<1>6. TargetsInv'
  BY <1>1, <1>2, <1>4, <1>5 DEF TargetsInv
<1> QED
  BY <1>1, <1>6 DEF SuitesInv, DecidedListInv, AddingInv

\* and have them after the repairs of the roles before theirs.
LEMMA RoleSuites == ASSUME SuitesInv, RepairRole  PROVE SuitesInv'
<1> USE DEF Claim, Curating
<1>1. /\ profile = "corrected" /\ step = "repair" /\ draft' = bundle' /\ bundle \in Bundle
      /\ step' \in {"repair", "conflict"}
  BY DEF RepairRole, SuitesInv
<1> DEFINE mine == {f \in ToSet(queue) : RoleOf(f) = RoleOf(queue[1])}
<1>2. (\E patch \in Patches(mine) : bundle' = MergePatch(bundle, patch)) /\ queue' = Selected(queue, ToSet(queue) \ mine)
  BY DEF RepairRole
<1>3. mine \subseteq ToSet(queue)
  OBVIOUS
<1> HIDE DEF mine
<1>4. PICK patch \in Patches(mine) : bundle' = MergePatch(bundle, patch)
  BY <1>2
<1>5. Listed(queue) /\ \A f \in ToSet(queue) : f.on \subseteq Keys(bundle)
  BY <1>1 DEF SuitesInv, TargetsInv
<1>6. bundle' \in Bundle /\ Keys(bundle') = Keys(bundle)
  BY <1>1, <1>3, <1>4, <1>5, MergedRows
<1>7. Listed(queue') /\ ToSet(queue') \subseteq ToSet(queue)
  BY <1>2, <1>5, ListedSelected
<1>8. \A f \in ToSet(queue') : f.on \subseteq Keys(bundle')
  BY <1>5, <1>6, <1>7
<1>9. TargetsInv'
  BY <1>7, <1>8 DEF TargetsInv
<1> QED
  BY <1>1, <1>6, <1>9 DEF SuitesInv, DecidedListInv, AddingInv

\* What links the uncovered requirements of a single agent's suite is a suite.
LEMMA LinkedSuites == ASSUME SuitesInv, LinkUncovered  PROVE SuitesInv'
<1> USE DEF Curating
<1>1. draft' = bundle' /\ step' = "revise" /\ bundle \in Bundle
  BY DEF LinkUncovered, SuitesInv
<1> DEFINE un == Uncovered(bundle)
<1>2. un \in SUBSET Nat
  <2>1. bundle.reqs \in Seq(RequirementRow)
    BY <1>1, BundleIs
  <2>2. Ids(bundle.reqs) \subseteq Nat
    BY <2>1, IdsAre DEF IdSets
  <2> QED
    BY <2>2 DEF Uncovered
<1>3. CASE OnlyUncovered(bundle)
  <2>1. PICK list \in Repairs : bundle' = Linking(bundle, list, un)
    BY Zenon, <1>3 DEF LinkUncovered, Linking
  <2>2. PICK n \in 1..MaxAnswer : DOMAIN list = 1..n
    BY DEF Repairs
  <2>3. n \in Nat
    BY <2>2, IndexAssumption
  <2> HIDE DEF un
  <2>4. bundle' \in Bundle
    BY <1>1, <1>2, <2>1, <2>2, <2>3, LinkedBundle
  <2> QED
    BY <1>1, <2>4, SuitesRest
<1>4. CASE ~OnlyUncovered(bundle)
  <2>1. bundle' = bundle
    BY <1>4 DEF LinkUncovered
  <2> QED
    BY <1>1, <2>1, SuitesRest
<1> QED
  BY <1>3, <1>4

\* The steps of the review leave suites.
LEMMA ReviewedSuites == ASSUME ReviewInv, SuitesInv, ReviewStep  PROVE SuitesInv'
<1> USE DEF Claim, Curating
<1>1. bundle \in Bundle /\ draft \in Bundle
  BY DEF SuitesInv
<1>2. CASE SkipCritic \/ CriticTask \/ RepairsDone \/ VerifyAll
  <2>1. bundle' = bundle /\ draft' = draft /\ step' \in {"finish", "review", "verify_all", "failed", "conflict"}
    BY <1>2 DEF SkipCritic, CriticTask, RepairsDone, VerifyAll
  <2> QED
    BY <1>1, <2>1, SuitesRest
<1>3. CASE CriticDone \/ Verify
  <2>1. /\ bundle' = bundle /\ draft' = draft /\ profile' = "efficient"
        /\ step' \in {"finish", "repair", "failed", "conflict"}
    BY <1>3 DEF CriticDone, Verify, ReviewInv, ReportInv
  <2> QED
    BY <1>1, <2>1 DEF SuitesInv, DecidedListInv, AddingInv, TargetsInv
<1>4. CASE NextRepair \/ Patch \/ GapScenarios \/ GapTargets \/ GapTests \/ GapDone
  BY <1>4, TakenSuites, PatchedSuites, GapScenarioSuites, GapTargetSuites, GapTestSuites, GapDoneSuites
<1>5. CASE CritiqueSuite \/ RepairRole \/ LinkUncovered
  BY <1>5, CritiqueSuites, RoleSuites, LinkedSuites
<1>6. CASE Revise \/ Finish
  <2>1. bundle' \in Bundle /\ draft' = bundle' /\ step' \in {"judge", "completed", "failed"}
    BY <1>1, <1>6, SuitesAssumption DEF Revise, Finish
  <2> QED
    BY <2>1, SuitesRest
<1> QED
  BY <1>2, <1>3, <1>4, <1>5, <1>6 DEF ReviewStep

\* So is every other step of a run.
LEMMA SuitesStep ==
    ASSUME CurationInv, DraftInv, ReviewInv, SuitesInv, [Next]_vars
    PROVE  SuitesInv'
<1>1. bundle \in Bundle /\ draft \in Bundle
  BY DEF SuitesInv
<1>2. CASE Curate
  BY <1>2, CuratedSuites DEF DraftInv
<1>3. CASE Draft
  BY <1>3, DraftedSuites
<1>4. CASE ReviewStep
  BY <1>4, ReviewedSuites
<1>5. CASE JudgeStep
  <2>1. bundle' = bundle /\ draft' = draft /\ step' \in {"judge", "evaluate", "finish", "conflict"}
    BY <1>5 DEF JudgeStep, LoadUnits, ExtractUnits, CatalogDone, StartEvaluation, EvaluationTask,
                NextUnits, Score, JudgeFails, run, Claim
  <2> QED
    BY <1>1, <2>1, SuitesRest DEF Curating
<1>6. CASE Fail
  <2>1. bundle' = bundle /\ draft' \in {bundle, draft} /\ step' = "failed"
    BY <1>6 DEF Fail, Restored
  <2> QED
    BY <1>1, <2>1, SuitesRest DEF Curating
<1>7. CASE UNCHANGED vars
  <2>1. UNCHANGED <<profile, step, bundle, draft, reqs, gap, queue>>
    BY <1>7 DEF vars, run, curation, decisions, review, repair
  <2> QED
    BY <2>1 DEF SuitesInv, DecidedListInv, AddingInv, TargetsInv
<1> QED
  BY <1>2, <1>3, <1>4, <1>5, <1>6, <1>7 DEF Next

\* So the bundle and the draft are suites in every behaviour.
LEMMA SuitesKept == Spec => []SuitesInv
<1>1. Init => SuitesInv
  BY SuitesInit
<1>2. CurationInv /\ DraftInv /\ ReviewInv /\ SuitesInv /\ [Next]_vars => SuitesInv'
  BY SuitesStep
<1> QED
  BY <1>1, <1>2, DraftInvKept, ReviewKept, PTL DEF Spec

\* What a run stores is what it returned: the suite of every step, the part of
\* one that a failed run keeps and the report of what validation found are read
\* back from their tables as they were written, in their order, with artifacts
\* of one id told apart, however many there are and whatever they list.
THEOREM StoredIntact == Spec => StoredAsReturned
<1>1. SuitesInv' => [/\ bundle' # bundle => Kept(bundle')
                     /\ draft' \notin {draft, bundle'} => Kept(draft')
                     /\ step' = "finish" => Checked(Report(bundle'))]_vars
  <2> SUFFICES ASSUME SuitesInv'
               PROVE  Kept(bundle') /\ Kept(draft') /\ Checked(Report(bundle'))
    OBVIOUS
  <2>1. bundle' \in Bundle /\ draft' \in Bundle
    BY DEF SuitesInv
  <2>2. Kept(bundle') /\ Kept(draft')
    BY <2>1, SuiteRead DEF Kept
  <2>3. Checked(Report(bundle'))
    BY <2>1, ReportRead DEF Checked
  <2> QED
    BY <2>2, <2>3
<1> QED
  BY <1>1, SuitesKept, PTL DEF StoredAsReturned
=============================================================================
