-------------------------- MODULE BoundedTaskProofs --------------------------
\* For every plan, chain of runs, configuration and room for requests: type
\* correctness; that halves make a whole, wherever an output is valid if it
\* covers its items; that the rows of a chain of recoveries agree; and that a
\* recovery asks for nothing that it could have reused.
EXTENDS BoundedTask, FiniteSetTheorems, TLAPS

\* An odd group splits unevenly, but into sequences.
LEMMA MiddleType ==
    ASSUME NEW n \in Nat
    PROVE  n \div 2 \in Nat /\ n \div 2 <= n
OBVIOUS

\* An element of a sequence over a set is in the set.
LEMMA ElementType ==
    ASSUME NEW S, NEW s \in Seq(S), NEW i \in 1..Len(s)
    PROVE  s[i] \in S /\ i \in DOMAIN s
OBVIOUS

\* Cut at a place of a sequence, both parts are sequences with its elements.
LEMMA HalvesType ==
    ASSUME NEW s \in Seq(Item), NEW m \in Nat, m <= Len(s)
    PROVE  /\ SubSeq(s, 1, m) \in Seq(Item) /\ Len(SubSeq(s, 1, m)) = m
           /\ \A i \in 1..m : SubSeq(s, 1, m)[i] = s[i]
           /\ SubSeq(s, m + 1, Len(s)) \in Seq(Item)
           /\ Len(SubSeq(s, m + 1, Len(s))) = Len(s) - m
           /\ \A i \in 1..(Len(s) - m) : SubSeq(s, m + 1, Len(s))[i] = s[m + i]
OBVIOUS

\* What covers the first items, and what covers the rest, cover them all.
LEMMA Concatenate ==
    ASSUME NEW s \in Seq(Item), NEW m \in Nat, m <= Len(s),
           NEW u \in Seq(Piece), Covers(u, SubSeq(s, 1, m)),
           NEW v \in Seq(Piece), Covers(v, SubSeq(s, m + 1, Len(s)))
    PROVE  Covers(u \o v, s)
<1>1. Len(u) = m /\ Len(v) = Len(s) - m
  BY HalvesType DEF Covers
<1>2. Len(u \o v) = Len(s)
  BY <1>1
<1>3. ASSUME NEW i \in 1..Len(s) PROVE (u \o v)[i].item = s[i]
  <2>1. CASE i <= m
    <3>1. (u \o v)[i] = u[i]
      BY <1>1, <2>1
    <3>2. u[i].item = SubSeq(s, 1, m)[i] /\ SubSeq(s, 1, m)[i] = s[i]
      BY <1>1, <2>1, HalvesType DEF Covers
    <3> QED
      BY <3>1, <3>2
  <2>2. CASE i > m
    <3>1. i - m \in 1..(Len(s) - m)
      BY <2>2
    <3>2. (u \o v)[i] = v[i - m]
      BY <1>1, <2>2
    <3>3. /\ v[i - m].item = SubSeq(s, m + 1, Len(s))[i - m]
          /\ SubSeq(s, m + 1, Len(s))[i - m] = s[m + (i - m)]
      BY <1>1, <3>1, HalvesType DEF Covers
    <3> QED
      BY <3>1, <3>2, <3>3
  <2>3. i <= m \/ i > m
    OBVIOUS
  <2> QED
    BY <2>1, <2>2, <2>3, Zenon
<1> QED
  BY <1>2, <1>3 DEF Covers
-----------------------------------------------------------------------------
\* Between its halves a split has what covers the first, and after them what
\* covers both.
SplitPlace ==
    /\ child = 1 => parts = <<>>
    /\ child = 2 => Covers(parts, Assigned(1))
    /\ pc = "combine" => child = 0 /\ Covers(parts, Whole)

SplitInv == TypeOK /\ SplitPlace

\* While a call is under way, its run is running and has a list of outputs.
LEMMA InRun ==
    ASSUME TypeOK, pc # "idle"
    PROVE  run \in Run /\ fate[run] = "running" /\ Len(outputs[run]) \in Nat
BY BoundAssumption DEF TypeOK, Run

\* The current task is one of the plan, and it and its halves are sequences.
LEMMA AssignedType ==
    ASSUME TypeOK, pc # "idle"
    PROVE  /\ Current \in DOMAIN Plan /\ Whole \in Seq(Item)
           /\ Middle \in Nat /\ Middle <= Len(Whole)
           /\ \A c \in 0..2 : Assigned(c) \in Seq(Item)
<1>1. Current \in 1..Len(Plan)
  BY InRun, PlanAssumption DEF TypeOK, Current
<1>2. Current \in DOMAIN Plan /\ Whole \in Seq(Item)
  <2>1. Plan[Current] \in [stage : Stage, items : Seq(Item)]
    BY <1>1, PlanAssumption, ElementType, Zenon
  <2>2. Current \in DOMAIN Plan
    BY <1>1, PlanAssumption, ElementType, Zenon
  <2> QED
    BY <2>1, <2>2 DEF Whole
<1>3. Len(Whole) \in Nat
  BY <1>2
<1>4. Middle \in Nat /\ Middle <= Len(Whole)
  BY <1>3, MiddleType DEF Middle
<1>5. ASSUME NEW c \in 0..2 PROVE Assigned(c) \in Seq(Item)
  <2>1. CASE c = 0
    BY <1>2, <2>1 DEF Assigned
  <2>2. CASE c = 1
    BY <1>2, <1>4, <2>2, HalvesType DEF Assigned
  <2>3. CASE c = 2
    BY <1>2, <1>4, <2>3, HalvesType DEF Assigned
  <2> QED
    BY <2>1, <2>2, <2>3
<1> QED
  BY <1>2, <1>4, <1>5

\* A run that stops leaves no task half done.
LEMMA StopKeeps ==
    ASSUME SplitInv, pc # "idle", NEW how \in {"failed", "conflict"}, Stop(how)
    PROVE  SplitInv'
<1>1. run \in Run
  BY InRun DEF SplitInv
<1>2. TypeOK'
  <2>1. fate' \in [Run -> {"absent", "running", "done", "failed", "conflict"}]
    BY <1>1 DEF SplitInv, TypeOK, Stop
  <2>2. pc' = "idle" /\ fate'[run] # "running"
    BY <1>1 DEF SplitInv, TypeOK, Stop
  <2>3. parts' \in Seq(Piece)
    BY DEF Stop
  <2>4. RowsTyped'
    BY DEF SplitInv, TypeOK, Stop, data, RowsTyped, RowType
  <2>5. /\ fits' \in 0..MaxFits /\ run' \in 0..MaxRuns
        /\ config' \in [Run -> Config \cup {None}]
        /\ outputs' \in [Run -> Seq(Seq(Piece))]
        /\ child' \in 0..2
    BY DEF SplitInv, TypeOK, Stop, data
  <2>8. corrected' \in BOOLEAN
    BY Zenon DEF Stop
  <2>9. pc' = "idle"
    BY DEF Stop
  <2>6. parent' \in [Run -> 0..MaxRuns] /\ \A r \in Run : parent'[r] < r
    BY DEF SplitInv, TypeOK, Stop, data
  <2>7. pc' # "idle" <=> run' # 0 /\ fate'[run'] = "running"
    BY <1>1, <2>2 DEF SplitInv, TypeOK, Stop, data
  <2> QED
    BY <2>1, <2>2, <2>3, <2>4, <2>5, <2>6, <2>7, <2>8, <2>9 DEF TypeOK
<1>3. SplitPlace'
  BY DEF SplitPlace, Stop
<1> QED
  BY <1>2, <1>3 DEF SplitInv

\* A value that covers what its task was given is recorded and returned.
LEMMA RecordKeeps ==
    ASSUME SplitInv, pc # "idle", NEW c \in 0..2, NEW from \in Run \cup {None},
           c = child \/ (c = 0 /\ pc = "combine"),
           NEW value \in Seq(Piece), Covers(value, Assigned(c)),
           Record(c, value, from)
    PROVE  SplitInv'
<1> DEFINE row == [print |-> Fingerprint(c), value |-> value, reusedFrom |-> from]
<1>1. run \in Run /\ fate[run] = "running" /\ Len(outputs[run]) \in Nat
  BY InRun DEF SplitInv
<1>2. /\ Current \in DOMAIN Plan /\ Whole \in Seq(Item)
      /\ Middle \in Nat /\ Middle <= Len(Whole)
      /\ Assigned(c) \in Seq(Item)
  BY AssignedType DEF SplitInv
<1>3. CASE rows[run][SlotOf(c)] # None
  BY <1>3, StopKeeps DEF Record
<1>4. CASE rows[run][SlotOf(c)] = None
  <2>1. /\ rows' = [rows EXCEPT ![run][SlotOf(c)] = row]
        /\ IF c = 0 THEN ReturnWhole(value) ELSE ReturnHalf(c, value)
        /\ corrected' = FALSE
        /\ UNCHANGED <<fits, run, parent, config>>
    BY <1>4 DEF Record
  <2>2. /\ DOMAIN rows' = Run
        /\ \A r \in Run : DOMAIN rows'[r] = Slot
        /\ \A r \in Run, s \in Slot : rows'[r][s] = rows[r][s] \/ rows'[r][s] = row
    BY <2>1, <1>1 DEF SplitInv, TypeOK, RowsTyped
  <2>3. RowType(row)
    <3>1. row.print.config \in Config /\ row.print.items \in Seq(Item)
      BY <1>2 DEF SplitInv, TypeOK, Fingerprint
    <3> QED
      BY <3>1 DEF RowType
  <2>4. RowsTyped'
    BY <2>2, <2>3 DEF SplitInv, TypeOK, RowsTyped, RowType
  <2>5. corrected' \in BOOLEAN
    BY <2>1, Zenon
  <2>6. /\ fits' \in 0..MaxFits /\ run' \in 0..MaxRuns
        /\ parent' \in [Run -> 0..MaxRuns] /\ \A r \in Run : parent'[r] < r
        /\ config' \in [Run -> Config \cup {None}]
    BY <2>1 DEF SplitInv, TypeOK
  <2>7. CASE c = 0
    <3>1. ReturnWhole(value)
      BY <2>1, <2>7
    <3>2. /\ outputs' \in [Run -> Seq(Seq(Piece))]
          /\ Len(outputs'[run]) = Current
      BY <1>1, <3>1 DEF SplitInv, TypeOK, ReturnWhole, Current
    <3>3. CASE Current = Len(Plan)
      <4>1. /\ fate' \in [Run -> {"absent", "running", "done", "failed", "conflict"}]
            /\ pc' = "idle" /\ fate'[run] # "running"
        BY <1>1, <3>1, <3>3 DEF SplitInv, TypeOK, ReturnWhole
      <4>2. TypeOK'
        <5>1. child' \in 0..2 /\ parts' \in Seq(Piece)
          BY <3>1 DEF ReturnWhole
        <5>2. run' # 0 /\ run' = run
          BY <1>1, <2>1 DEF Run
        <5> QED
          BY <2>4, <2>5, <2>6, <3>2, <4>1, <5>1, <5>2 DEF TypeOK
      <4>3. SplitPlace'
        BY <3>1, <4>1 DEF SplitPlace, ReturnWhole
      <4> QED
        BY <4>2, <4>3 DEF SplitInv
    <3>4. CASE Current # Len(Plan)
      <4>1. Len(outputs'[run]) < Len(Plan)
        BY <1>2, <3>2, <3>4, PlanAssumption
      <4>2. TypeOK'
        <5>1. child' \in 0..2 /\ parts' \in Seq(Piece) /\ pc' = "enter"
          BY <3>1, <3>4 DEF ReturnWhole
        <5>2. run' # 0 /\ run' = run /\ config' = config /\ fate' = fate
          BY <1>1, <2>1, <3>1, <3>4 DEF Run, ReturnWhole
        <5> QED
          BY <1>1, <2>4, <2>5, <2>6, <3>2, <4>1, <5>1, <5>2 DEF SplitInv, TypeOK
      <4>3. SplitPlace'
        BY <3>1, <3>4 DEF SplitPlace, ReturnWhole
      <4> QED
        BY <4>2, <4>3 DEF SplitInv
    <3> QED
      BY <3>3, <3>4
  <2>8. CASE c # 0
    <3>1. ReturnHalf(c, value) /\ c = child
      BY <2>1, <2>8
    <3>2. parts' = parts \o value /\ parts' \in Seq(Piece)
      BY <3>1 DEF SplitInv, TypeOK, ReturnHalf
    <3>3. UNCHANGED <<run, outputs, fate, config>>
      BY <2>1, <3>1 DEF ReturnHalf
    <3>4. TypeOK'
      <4>1. child' \in 0..2 /\ pc' \in {"enter", "combine"}
        BY <3>1 DEF ReturnHalf
      <4>2. run # 0
        BY <1>1 DEF Run
      <4> QED
        BY <1>1, <2>4, <2>5, <2>6, <3>2, <3>3, <4>1, <4>2 DEF SplitInv, TypeOK
    <3>5. CASE c = 1
      <4>1. parts' = value
        BY <3>1, <3>2, <3>5 DEF SplitInv, SplitPlace
      <4>2. Assigned(1)' = Assigned(1)
        BY <3>3 DEF Assigned, Middle, Whole, Current
      <4>3. SplitPlace'
        BY <3>1, <3>5, <4>1, <4>2 DEF SplitPlace, ReturnHalf, Covers
      <4> QED
        BY <3>4, <4>3 DEF SplitInv
    <3>6. CASE c = 2
      <4>1. Covers(parts, SubSeq(Whole, 1, Middle))
        BY <3>1, <3>6 DEF SplitInv, SplitPlace, Assigned
      <4>2. Covers(value, SubSeq(Whole, Middle + 1, Len(Whole)))
        BY <3>6 DEF Assigned
      <4>3. Covers(parts \o value, Whole)
        BY <1>2, <4>1, <4>2, Concatenate DEF SplitInv, TypeOK
      <4>4. Whole' = Whole
        BY <3>3 DEF Whole, Current
      <4>5. SplitPlace'
        BY <3>1, <3>2, <3>6, <4>3, <4>4 DEF SplitPlace, ReturnHalf, Covers
      <4> QED
        BY <3>4, <4>5 DEF SplitInv
    <3> QED
      BY <2>8, <3>5, <3>6
  <2> QED
    BY <2>7, <2>8
<1> QED
  BY <1>3, <1>4

-----------------------------------------------------------------------------
\* The items, the place and the fingerprint of any task, not only of the one
\* that a run is in.
AssignedAt(t, c) ==
    LET whole  == Plan[t].items
        middle == Len(whole) \div 2 IN
    CASE c = 0 -> whole
      [] c = 1 -> SubSeq(whole, 1, middle)
      [] c = 2 -> SubSeq(whole, middle + 1, Len(whole))
EarlierAt(t) == {u \in 1..(t - 1) : Plan[u].stage = Plan[t].stage}
SlotAt(t, c) == <<Plan[t].stage, 3 * Cardinality(EarlierAt(t)) + c>>
PrintAt(r, t, c) ==
    [config |-> config[r], items |-> AssignedAt(t, c),
     context |-> SubSeq(outputs[r], 1, t - 1)]

\* Task indices stay within three for every group of the plan.
LEMMA SlotAtType ==
    ASSUME NEW t \in Task, NEW c \in 0..2
    PROVE  SlotAt(t, c) \in Slot
<1>1. t \in 1..Len(Plan) /\ Len(Plan) \in Nat
  BY PlanAssumption DEF Task
<1>2. Plan[t].stage \in Stage
  <2>1. Plan[t] \in [stage : Stage, items : Seq(Item)]
    BY <1>1, PlanAssumption, ElementType, Zenon
  <2> QED
    BY <2>1
<1>3. IsFiniteSet(1..(t - 1)) /\ Cardinality(1..(t - 1)) = t - 1
  <2> DEFINE last == t - 1
  <2>1. last \in Int /\ last >= 0
    BY <1>1
  <2> HIDE DEF last
  <2>2. IsFiniteSet(1..last) /\ Cardinality(1..last) = last
    BY <2>1, FS_Interval
  <2> QED
    BY <2>2 DEF last
<1>4. EarlierAt(t) \subseteq 1..(t - 1)
  BY DEF EarlierAt
<1>5. Cardinality(EarlierAt(t)) \in Nat /\ Cardinality(EarlierAt(t)) <= t - 1
  BY <1>3, <1>4, FS_Subset, FS_CardinalityType
<1>6. 3 * Cardinality(EarlierAt(t)) + c \in 0..3 * Len(Plan)
  BY <1>1, <1>5
<1> QED
  BY <1>2, <1>6 DEF SlotAt, Slot

\* What the step reads of a child is what its task says of it.
LEMMA CurrentAt ==
    ASSUME NEW c
    PROVE  SlotOf(c) = SlotAt(Current, c) /\ Assigned(c) = AssignedAt(Current, c)
<1>1. SlotOf(c) = SlotAt(Current, c)
  BY DEF SlotOf, SlotAt, Earlier, EarlierAt
<1>2. Assigned(c) = AssignedAt(Current, c)
  BY DEF Assigned, AssignedAt, Whole, Middle
<1> QED
  BY <1>1, <1>2

\* What the task keeps of a child is a slot.
LEMMA SlotType ==
    ASSUME TypeOK, pc # "idle", NEW c \in 0..2
    PROVE  SlotOf(c) \in Slot
<1>1. Current \in Task
  BY AssignedType DEF Task
<1> QED
  BY <1>1, SlotAtType, CurrentAt

\* Every answer that the model of a stage admits covers what was asked for.
LEMMA AnswersCover ==
    ASSUME NEW items \in Seq(Item), run \in Run, NEW value \in Answers(items)
    PROVE  value \in Seq(Piece) /\ Covers(value, items)
<1>1. DOMAIN items = 1..Len(items) /\ Len(items) \in Nat
      /\ \A i \in 1..Len(items) : items[i] \in Item
  OBVIOUS
<1>2. CASE Plan[Current].stage \notin Extracting
  <2>1. value = Plain(items)
    BY <1>2 DEF Answers
  <2>2. value \in [1..Len(items) -> Piece]
    BY <1>1, <2>1 DEF Plain, Piece
  <2>3. value \in Seq(Piece) /\ Len(value) = Len(items)
    BY <1>1, <2>2
  <2>4. \A i \in 1..Len(items) : value[i].item = items[i]
    BY <1>1, <2>1 DEF Plain
  <2> QED
    BY <2>3, <2>4 DEF Covers
<1>3. CASE Plan[Current].stage \in Extracting
  <2>1. /\ value \in [DOMAIN items -> [item : Range(items), by : {run},
                        testable : BOOLEAN, cites : SUBSET Evidence(items)]]
        /\ Covers(value, items)
    BY <1>3 DEF Answers, Valid
  <2>2. Range(items) \subseteq Item /\ Evidence(items) \subseteq Item
    BY <1>1 DEF Range, Evidence
  <2>3. value \in [1..Len(items) -> Piece]
    BY <1>1, <2>1, <2>2 DEF Piece
  <2>4. value \in Seq(Piece)
    BY <1>1, <2>3
  <2> QED
    BY <2>1, <2>4
<1> QED
  BY <1>2, <1>3

-----------------------------------------------------------------------------

\* No run has stored anything at first.
LEMMA SplitInit == Init => SplitInv
<1> SUFFICES ASSUME Init PROVE SplitInv
  OBVIOUS
<1>1. RowsTyped
  BY DEF Init, RowsTyped, RowType
<1>2. /\ parent \in [Run -> 0..MaxRuns] /\ \A r \in Run : parent[r] < r
      /\ run \in 0..MaxRuns /\ fits \in 0..MaxFits
  BY BoundAssumption DEF Init, Run
<1>3. corrected \in BOOLEAN
  BY Zenon DEF Init
<1>4. TypeOK
  BY <1>1, <1>2, <1>3 DEF Init, TypeOK
<1> QED
  BY <1>4 DEF SplitInv, SplitPlace, Init

\* A new run begins with nothing of its own.
LEMMA StartKeeps == SplitInv /\ StartRun => SplitInv'
<1> SUFFICES ASSUME SplitInv, StartRun PROVE SplitInv'
  OBVIOUS
<1> USE DEF SplitInv
<1>1. /\ run \in 0..MaxRuns /\ run + 1 \in Run /\ run + 1 # 0 /\ run' = run + 1
      /\ run' \in 0..MaxRuns
  BY BoundAssumption DEF StartRun, TypeOK, Run
<1>2. parent' \in [Run -> 0..MaxRuns] /\ \A r \in Run : parent'[r] < r
  <2>1. PICK p \in 0..run : parent' = [parent EXCEPT ![run + 1] = p]
    BY DEF StartRun
  <2>2. p \in 0..MaxRuns /\ p < run + 1
    BY <1>1, <2>1, BoundAssumption
  <2> QED
    BY <1>1, <2>1, <2>2 DEF TypeOK
<1>3. config' \in [Run -> Config \cup {None}] /\ config'[run + 1] \in Config
  <2>1. PICK c \in Config : config' = [config EXCEPT ![run + 1] = c]
    BY DEF StartRun
  <2> QED
    BY <1>1, <2>1 DEF TypeOK
<1>4. /\ outputs' \in [Run -> Seq(Seq(Piece))] /\ Len(outputs'[run + 1]) = 0
      /\ fits' = fits /\ child' = 0 /\ parts' = <<>>
  BY <1>1 DEF StartRun, TypeOK
<1>5. RowsTyped'
  BY DEF StartRun, TypeOK, RowsTyped, RowType
<1>6. corrected' \in BOOLEAN
  BY Zenon DEF StartRun
<1>7. fate' \in [Run -> {"absent", "running", "done", "failed", "conflict"}]
  BY <1>1 DEF StartRun, TypeOK
<1>8. /\ pc' \in {"enter", "idle"}
      /\ pc' # "idle" <=> fate'[run + 1] = "running"
      /\ pc' # "idle" => Plan # <<>>
  BY <1>1 DEF StartRun, TypeOK
<1>9. Plan # <<>> => Len(Plan) > 0
  BY PlanAssumption
<1>10. TypeOK'
  BY <1>1, <1>2, <1>3, <1>4, <1>5, <1>6, <1>7, <1>8, <1>9 DEF TypeOK
<1>11. SplitPlace'
  BY <1>4, <1>8 DEF SplitPlace
<1> QED
  BY <1>10, <1>11

\* A split that is allowed starts in its first half, with nothing returned yet.
LEMMA SplitKeeps ==
    ASSUME SplitInv, pc # "idle", Split PROVE SplitInv'
<1>1. CASE ~MaySplit(child)
  BY <1>1, StopKeeps DEF Split
<1>2. CASE MaySplit(child)
  <2>1. /\ pc' = "enter" /\ child' = 1 /\ parts' = <<>> /\ UNCHANGED <<chain, data>>
        /\ corrected' = FALSE
    BY <1>2 DEF Split
  <2>2. corrected' \in BOOLEAN
    BY <2>1, Zenon
  <2>3. TypeOK'
    BY <2>1, <2>2 DEF SplitInv, TypeOK, chain, data, RowsTyped, RowType
  <2>4. SplitPlace'
    BY <2>1 DEF SplitPlace
  <2> QED
    BY <2>3, <2>4 DEF SplitInv
<1> QED
  BY <1>1, <1>2

\* A recovered result takes the place a call's would have.
LEMMA ReuseKeeps == SplitInv /\ Reuse => SplitInv'
<1> SUFFICES ASSUME SplitInv, Reuse PROVE SplitInv'
  OBVIOUS
<1> DEFINE value == Checkpoint(SlotOf(child)).value
<1>1. pc = "enter" /\ pc # "idle" /\ child \in 0..2 /\ run \in Run
  BY InRun DEF Reuse, SplitInv, TypeOK
<1>2. CASE ~Valid(value, Assigned(child))
  BY <1>1, <1>2, StopKeeps DEF Reuse
<1>3. CASE Valid(value, Assigned(child))
  <2>1. Record(child, value, parent[run]) /\ Covers(value, Assigned(child))
    BY <1>3 DEF Reuse, Valid
  <2>2. SlotOf(child) \in Slot
    BY <1>1, SlotType DEF SplitInv
  <2>3. Checkpoint(SlotOf(child)) # None
    BY DEF Reuse, Saved
  <2>4. parent[run] \in Run
    BY <1>1, <2>3 DEF SplitInv, TypeOK, Checkpoint, Run
  <2>5. value \in Seq(Piece)
    <3>1. Checkpoint(SlotOf(child)) = rows[parent[run]][SlotOf(child)]
      BY <2>3 DEF Checkpoint
    <3>2. RowType(rows[parent[run]][SlotOf(child)])
      BY <2>2, <2>4 DEF SplitInv, TypeOK, RowsTyped
    <3> QED
      BY <2>3, <3>1, <3>2 DEF RowType
  <2> HIDE DEF value
  <2> QED
    BY <1>1, <2>1, <2>4, <2>5, RecordKeeps
<1> QED
  BY <1>2, <1>3

\* Every step keeps the invariant: the actions that end a run, and the others.
LEMMA StepKeeps == SplitInv /\ [Next]_vars => SplitInv'
<1> SUFFICES ASSUME SplitInv, [Next]_vars PROVE SplitInv'
  OBVIOUS
<1>1. CASE StartRun
  BY <1>1, StartKeeps
<1>2. CASE Reuse
  BY <1>2, ReuseKeeps
<1>3. CASE Enter
  <2>1. CASE ~AskAtOnce(child)
    BY <1>3, <2>1, SplitKeeps DEF Enter
  <2>2. CASE AskAtOnce(child)
    <3>1. pc = "enter" /\ pc' = "ask" /\ UNCHANGED <<chain, data, child, corrected, parts>>
      BY <1>3, <2>2 DEF Enter
    <3>2. TypeOK'
      BY <3>1 DEF SplitInv, TypeOK, chain, data, RowsTyped, RowType
    <3>3. SplitPlace'
      BY <3>1 DEF SplitInv, SplitPlace, Covers, Assigned, Middle, Whole, Current,
                  chain, data
    <3> QED
      BY <3>2, <3>3 DEF SplitInv
  <2> QED
    BY <2>1, <2>2
<1>4. CASE Accept
  <2>1. pc # "idle" /\ child \in 0..2 /\ run \in Run
    BY <1>4, InRun DEF Accept, SplitInv, TypeOK
  <2>2. Assigned(child) \in Seq(Item)
    BY <2>1, AssignedType DEF SplitInv
  <2>3. PICK value \in Answers(Assigned(child)) : Record(child, value, None)
    BY <1>4 DEF Accept
  <2>4. value \in Seq(Piece) /\ Covers(value, Assigned(child))
    BY <2>1, <2>2, AnswersCover
  <2> QED
    BY <2>1, <2>3, <2>4, RecordKeeps
<1>5. CASE Correct
  <2>1. CASE corrected
    BY <1>5, <2>1, StopKeeps DEF Correct
  <2>2. CASE ~corrected
    <3>1. corrected' = TRUE /\ UNCHANGED <<chain, data, pc, child, parts>>
      BY <1>5, <2>2, Zenon DEF Correct
    <3>2. corrected' \in BOOLEAN
      BY <3>1, Zenon
    <3>3. TypeOK'
      BY <3>1, <3>2 DEF SplitInv, TypeOK, chain, data, RowsTyped, RowType
    <3>4. SplitPlace'
      BY <3>1 DEF SplitInv, SplitPlace, Covers, Assigned, Middle, Whole, Current,
                  chain, data
    <3> QED
      BY <3>3, <3>4 DEF SplitInv
  <2> QED
    BY <2>1, <2>2
<1>6. CASE Truncated
  BY <1>6, SplitKeeps DEF Truncated
<1>7. CASE Interrupt
  BY <1>7, StopKeeps DEF Interrupt
<1>8. CASE Combine
  <2>1. CASE ~Valid(parts, Whole)
    BY <1>8, <2>1, StopKeeps DEF Combine
  <2>2. CASE Valid(parts, Whole)
    <3>1. Record(0, parts, None) /\ pc = "combine" /\ pc # "idle"
      BY <1>8, <2>2 DEF Combine
    <3>2. parts \in Seq(Piece) /\ Covers(parts, Assigned(0))
      BY <2>2 DEF SplitInv, TypeOK, Valid, Assigned
    <3> QED
      BY <3>1, <3>2, RecordKeeps
  <2> QED
    BY <2>1, <2>2
<1>9. CASE UNCHANGED vars
  BY <1>9 DEF SplitInv, TypeOK, SplitPlace, RowsTyped, RowType, Covers, Assigned,
              Middle, Whole, Current, vars, chain, data, place
<1> QED
  BY <1>1, <1>2, <1>3, <1>4, <1>5, <1>6, <1>7, <1>8, <1>9 DEF Next, Step

\* So the structure of a split holds in every behaviour.
LEMMA SplitInvariant == Spec => []SplitInv
<1> QED
  BY SplitInit, StepKeeps, PTL DEF Spec

\* The pipeline's tasks are typed: every output, fresh, copied or combined, is a
\* sequence of pieces, and a run in progress is in a group of its plan.
THEOREM TypeCorrect == Spec => []TypeOK
<1>1. SplitInv => TypeOK
  BY DEF SplitInv
<1> QED
  BY <1>1, SplitInvariant, PTL

\* Wherever outputs are valid item by item, so at every stage but the scouts',
\* the validated halves of a split combine to a valid whole: bounded_task never
\* fails in a way that its recoveries must repeat.
THEOREM HalvesFit ==
    ASSUME Extracting = {} PROVE Spec => []HalvesMakeAWhole
<1>1. SplitInv => HalvesMakeAWhole
  BY DEF SplitInv, SplitPlace, HalvesMakeAWhole, Valid
<1> QED
  BY <1>1, SplitInvariant, PTL
-----------------------------------------------------------------------------
\* The rows of a chain of runs.  To see that they agree takes more than what
\* RowsAgree says: where in the plan each row stands, that nothing is recorded
\* for a run before it starts, and, for what is never asked twice, what the task
\* in progress has already looked up.
LEMMA WholePrefix ==
    ASSUME NEW S, NEW s \in Seq(S)
    PROVE  SubSeq(s, 1, Len(s)) = s
OBVIOUS

\* A sequence that grows keeps its prefixes.
LEMMA PrefixKept ==
    ASSUME NEW S, NEW s \in Seq(S), NEW e \in S, NEW n \in 0..Len(s)
    PROVE  /\ SubSeq(Append(s, e), 1, n) = SubSeq(s, 1, n)
           /\ Len(SubSeq(s, 1, n)) = n /\ n <= Len(Append(s, e))
OBVIOUS

\* A run is among its own ancestors.
LEMMA AncestorSelf == ASSUME NEW r \in Run PROVE r \in Ancestors(r)
BY DEF Ancestors

\* The ancestors of the run that is recovered are those of the one recovering.
LEMMA AncestorOfParent ==
    ASSUME NEW r \in Run, parent[r] # 0
    PROVE  Ancestors(parent[r]) \subseteq Ancestors(r)
BY DEF Ancestors

\* No run has a later one among its ancestors.
LEMMA AncestorBelow ==
    ASSUME TypeOK, NEW r \in Run, NEW x \in Ancestors(r)
    PROVE  x \in Run /\ x <= r
<1>1. 1..r \subseteq Run /\ r \in 1..r
  BY BoundAssumption DEF Run
<1>2. \A y \in 1..r : parent[y] # 0 => parent[y] \in 1..r
  BY <1>1 DEF TypeOK, Run
<1>3. x \in 1..r
  BY <1>1, <1>2 DEF Ancestors
<1> QED
  BY <1>1, <1>3

\* A run that starts takes no ancestor from the others.
LEMMA AncestorsGrow ==
    ASSUME NEW new \in Run, parent[new] = 0,
           \A y \in Run : y # new => parent'[y] = parent[y],
           NEW r \in Run
    PROVE  Ancestors(r) \subseteq Ancestors(r)'
<1> SUFFICES ASSUME NEW x \in Ancestors(r), NEW S \in SUBSET Run, r \in S,
                    \A y \in S : parent'[y] # 0 => parent'[y] \in S
             PROVE  x \in S
  BY DEF Ancestors
<1>1. \A y \in S : parent[y] # 0 => parent[y] \in S
  OBVIOUS
<1> QED
  BY <1>1 DEF Ancestors

\* Every piece was made by a run of the ancestry and under its configuration.
MadeFor(r, value) ==
    \A i \in DOMAIN value :
        value[i].by \in Ancestors(r) /\ config[value[i].by] = config[r]

\* A row stands where some task of the plan, or a half of one, puts it.
RowPlaced(r, s) ==
    \E t \in Task, c \in 0..2 :
        /\ t - 1 <= Len(outputs[r]) /\ s = SlotAt(t, c)
        /\ rows[r][s].print = PrintAt(r, t, c)
        /\ c # 0 => Len(Plan[t].items) >= 2
        /\ c = 2 => rows[r][SlotAt(t, 1)] # None

RowRight(r, s) ==
    /\ r <= run
    /\ RowPlaced(r, s)
    /\ Covers(rows[r][s].value, rows[r][s].print.items)
    /\ MadeFor(r, rows[r][s].value)

RowsRight == \A r \in Run, s \in Slot : rows[r][s] # None => RowRight(r, s)

FutureRuns == \A r \in Run : r > run => parent[r] = 0

PartsRight == pc # "idle" => MadeFor(run, parts)

\* What has been looked up on the way to where the task is.
LookedUp ==
    pc # "idle" =>
        /\ pc = "ask" => ~Saved(child) /\ (child = 0 => ~(SplitBefore /\ Len(Whole) > 1))
        /\ child # 0 => ~Saved(0) /\ Len(Whole) >= 2
        /\ child = 2 => rows[run][SlotOf(1)] # None

ChainInv == SplitInv /\ RowsRight /\ FutureRuns /\ PartsRight /\ LookedUp

\* The fingerprint of the step in progress is that of its place in its task.
LEMMA FingerprintAt ==
    ASSUME TypeOK, pc # "idle", NEW c
    PROVE  Fingerprint(c) = PrintAt(run, Current, c)
<1>1. run \in Run /\ outputs[run] \in Seq(Seq(Piece))
  BY InRun DEF TypeOK
<1>2. SubSeq(outputs[run], 1, Current - 1) = outputs[run]
  <2>1. Current - 1 = Len(outputs[run])
    BY <1>1 DEF Current
  <2> QED
    BY <1>1, <2>1, WholePrefix
<1> QED
  BY <1>2, CurrentAt DEF Fingerprint, PrintAt

\* As long as the run, its parent, the configurations and the outputs stay, so
\* does what was looked up: a run never writes into the one it recovers.
LEMMA LookupStable ==
    ASSUME TypeOK, pc # "idle",
           UNCHANGED <<run, parent, config, outputs>>,
           \A r \in Run : r # run => rows'[r] = rows[r],
           NEW c \in 0..2
    PROVE  /\ Checkpoint(SlotOf(c))' = Checkpoint(SlotOf(c))
           /\ Saved(c)' = Saved(c) /\ SplitBefore' = SplitBefore
           /\ Whole' = Whole /\ SlotOf(c)' = SlotOf(c) /\ SlotOf(1)' = SlotOf(1)
<1>1. run \in Run /\ parent[run] \in 0..MaxRuns /\ parent[run] # run
  BY InRun DEF TypeOK
<1>2. parent[run] # 0 => parent[run] \in Run
  BY <1>1, BoundAssumption DEF Run
<1>3. /\ Whole' = Whole /\ SlotOf(c)' = SlotOf(c) /\ SlotOf(1)' = SlotOf(1)
      /\ Fingerprint(c)' = Fingerprint(c)
  BY DEF Whole, SlotOf, Earlier, Current, Fingerprint, Assigned, Middle
<1>4. \A s : Checkpoint(s)' = Checkpoint(s)
  BY <1>1, <1>2 DEF Checkpoint
<1>5. /\ Checkpoint(SlotOf(c))' = Checkpoint(SlotOf(c))
      /\ Checkpoint(SlotOf(1))' = Checkpoint(SlotOf(1))
  BY <1>1, <1>2, <1>3 DEF Checkpoint
<1> QED
  BY <1>3, <1>5 DEF Saved, SplitBefore

\* A row stays right as long as its run keeps it, its outputs are at most added
\* to, and no configuration of its ancestors changes.
LEMMA RowKept ==
    ASSUME TypeOK, NEW r \in Run, NEW s \in Slot, RowRight(r, s),
           rows'[r][s] = rows[r][s],
           \A z \in Slot : rows[r][z] # None => rows'[r][z] # None,
           run \in Nat, run' \in Nat, run <= run',
           \A x \in Run : x <= run => config'[x] = config[x],
           Len(outputs[r]) \in Nat, Len(outputs'[r]) \in Nat,
           Len(outputs[r]) <= Len(outputs'[r]),
           \A n \in 0..Len(outputs[r]) : SubSeq(outputs'[r], 1, n) = SubSeq(outputs[r], 1, n),
           Ancestors(r) \subseteq Ancestors(r)'
    PROVE  RowRight(r, s)'
<1>1. r <= run /\ r \in Nat /\ config'[r] = config[r]
  BY BoundAssumption DEF RowRight, Run
<1>2. RowPlaced(r, s)'
  <2>1. PICK t \in Task, c \in 0..2 :
            /\ t - 1 <= Len(outputs[r]) /\ s = SlotAt(t, c)
            /\ rows[r][s].print = PrintAt(r, t, c)
            /\ c # 0 => Len(Plan[t].items) >= 2
            /\ c = 2 => rows[r][SlotAt(t, 1)] # None
    BY DEF RowRight, RowPlaced
  <2>2. SlotAt(t, 1) \in Slot
    BY SlotAtType
  <2>3. t - 1 \in 0..Len(outputs[r])
    BY <2>1, PlanAssumption DEF Task
  <2>4. PrintAt(r, t, c)' = PrintAt(r, t, c)
    BY <1>1, <2>3 DEF PrintAt
  <2>5. t - 1 <= Len(outputs'[r])
    BY <2>1, <2>3
  <2> QED
    BY <2>1, <2>2, <2>4, <2>5 DEF RowPlaced
<1>3. MadeFor(r, rows[r][s].value)'
  <2>1. ASSUME NEW i \in DOMAIN rows[r][s].value
        PROVE  /\ rows[r][s].value[i].by \in Ancestors(r)'
               /\ config'[rows[r][s].value[i].by] = config[r]
    <3>1. /\ rows[r][s].value[i].by \in Ancestors(r)
          /\ config[rows[r][s].value[i].by] = config[r]
      BY DEF RowRight, MadeFor
    <3> DEFINE by == rows[r][s].value[i].by
    <3>2. by \in Run /\ by <= r
      BY <3>1, AncestorBelow
    <3>3. by <= run
      BY <1>1, <3>2 DEF Run
    <3> QED
      BY <3>1, <3>2, <3>3
  <2> QED
    BY <1>1, <2>1 DEF MadeFor
<1>4. Covers(rows[r][s].value, rows[r][s].print.items)'
  BY DEF RowRight, Covers
<1> QED
  BY <1>1, <1>2, <1>3, <1>4 DEF RowRight

\* As long as the chain and its rows stay, the rows stay right.
LEMMA RowsStay ==
    ASSUME ChainInv, UNCHANGED <<run, parent, config, rows, outputs>>
    PROVE  RowsRight' /\ FutureRuns' /\ (\A r \in Run : Ancestors(r)' = Ancestors(r))
<1>1. \A r \in Run : Ancestors(r)' = Ancestors(r)
  BY DEF Ancestors
<1>2. FutureRuns'
  BY DEF ChainInv, FutureRuns
<1>3. ASSUME NEW r \in Run, NEW s \in Slot, rows'[r][s] # None PROVE RowRight(r, s)'
  <2>1. TypeOK /\ RowRight(r, s)
    BY <1>3 DEF ChainInv, SplitInv, RowsRight
  <2>2. run \in Nat /\ Len(outputs[r]) \in Nat
    BY <2>1, BoundAssumption DEF TypeOK
  <2> QED
    BY <1>1, <2>1, <2>2, RowKept
<1> QED
  BY <1>1, <1>2, <1>3 DEF RowsRight

\* A run that stops leaves its rows, and those of its ancestors, as they were.
LEMMA StopChain ==
    ASSUME ChainInv, pc # "idle", NEW how \in {"failed", "conflict"}, Stop(how)
    PROVE  ChainInv'
<1>1. SplitInv'
  BY StopKeeps DEF ChainInv
<1>2. RowsRight' /\ FutureRuns'
  BY RowsStay DEF Stop, data
<1>3. PartsRight' /\ LookedUp'
  BY DEF Stop, PartsRight, LookedUp
<1> QED
  BY <1>1, <1>2, <1>3 DEF ChainInv

\* What is recorded goes where the current task belongs and was made from what
\* the run has so far; the lookups of the task hold for its other half.
LEMMA RecordChain ==
    ASSUME ChainInv, pc # "idle", NEW c \in 0..2, NEW from \in Run \cup {None},
           c = child \/ (c = 0 /\ pc = "combine"),
           NEW value \in Seq(Piece), Covers(value, Assigned(c)), MadeFor(run, value),
           Record(c, value, from)
    PROVE  ChainInv'
<1> DEFINE row == [print |-> Fingerprint(c), value |-> value, reusedFrom |-> from]
<1>1. /\ TypeOK /\ run \in Run /\ run \in Nat /\ outputs[run] \in Seq(Seq(Piece))
      /\ Current \in Task /\ Current \in Nat /\ Current - 1 = Len(outputs[run])
      /\ Len(outputs[run]) \in Nat
  <2>1. TypeOK /\ run \in Run /\ Len(outputs[run]) \in Nat /\ Current \in DOMAIN Plan
    BY InRun, AssignedType DEF ChainInv, SplitInv
  <2> QED
    BY <2>1, BoundAssumption DEF TypeOK, Task, Current, Run
<1>2. SplitInv'
  BY RecordKeeps DEF ChainInv
<1>3. CASE rows[run][SlotOf(c)] # None
  BY <1>3, StopChain DEF Record
<1>4. CASE rows[run][SlotOf(c)] = None
  <2>1. /\ rows' = [rows EXCEPT ![run][SlotOf(c)] = row]
        /\ IF c = 0 THEN ReturnWhole(value) ELSE ReturnHalf(c, value)
        /\ UNCHANGED <<fits, run, parent, config>>
    BY <1>4 DEF Record
  <2>2. SlotOf(c) \in Slot /\ SlotOf(c) = SlotAt(Current, c)
    BY <1>1, SlotType, CurrentAt
  <2>3. row # None
    <3>1. config[run] \in Config /\ Assigned(c) \in Seq(Item)
      BY <1>1, AssignedType DEF TypeOK
    <3>2. Fingerprint(c) \in [config : Config, items : Seq(Item), context : Seq(Seq(Piece))]
      BY <1>1, <3>1 DEF Fingerprint
    <3>3. row \in [print : [config : Config, items : Seq(Item), context : Seq(Seq(Piece))],
                   value : Seq(Piece), reusedFrom : Run \cup {None}]
      BY <3>2
    <3> QED
      BY <3>3, NoneAssumption
  <2>4. /\ rows'[run][SlotOf(c)] = row
        /\ \A r \in Run : r # run => rows'[r] = rows[r]
        /\ \A r \in Run, z \in Slot : <<r, z>> # <<run, SlotOf(c)>> => rows'[r][z] = rows[r][z]
    BY <1>1, <2>1, <2>2 DEF TypeOK, RowsTyped
  <2>5. \A r \in Run, z \in Slot : rows[r][z] # None => rows'[r][z] # None
    BY <1>4, <2>4
  <2>6. \A r \in Run : Ancestors(r)' = Ancestors(r)
    BY <2>1 DEF Ancestors
  <2>7. FutureRuns'
    BY <2>1 DEF ChainInv, FutureRuns
  <2>8. ASSUME NEW r \in Run
        PROVE  /\ Len(outputs[r]) \in Nat /\ Len(outputs'[r]) \in Nat
               /\ Len(outputs[r]) <= Len(outputs'[r])
               /\ \A n \in 0..Len(outputs[r]) :
                      SubSeq(outputs'[r], 1, n) = SubSeq(outputs[r], 1, n)
    <3>1. outputs \in [Run -> Seq(Seq(Piece))] /\ outputs[r] \in Seq(Seq(Piece))
      BY <1>1 DEF TypeOK
    <3>2. outputs'[r] = outputs[r] \/ outputs'[r] = Append(outputs[r], value)
      BY <2>1, <3>1 DEF ReturnWhole, ReturnHalf
    <3> QED
      BY <3>1, <3>2, PrefixKept
  <2>9. RowsRight'
    <3> SUFFICES ASSUME NEW r \in Run, NEW s \in Slot, rows'[r][s] # None
                 PROVE  RowRight(r, s)'
      BY DEF RowsRight
    <3>1. CASE <<r, s>> # <<run, SlotOf(c)>>
      <4>1. rows'[r][s] = rows[r][s] /\ RowRight(r, s)
        BY <2>4, <3>1 DEF ChainInv, RowsRight
      <4>2. /\ run' \in Nat /\ run <= run'
            /\ \A x \in Run : x <= run => config'[x] = config[x]
        BY <1>1, <2>1
      <4> QED
        BY <1>1, <2>5, <2>6, <2>8, <4>1, <4>2, RowKept
    <3>2. CASE r = run /\ s = SlotOf(c)
      <4>1. PICK t \in Task : t = Current
        BY <1>1
      <4>2. PrintAt(run, t, c)' = PrintAt(run, t, c)
        <5>1. t - 1 \in 0..Len(outputs[run])
          BY <1>1, <4>1
        <5>2. SubSeq(outputs'[run], 1, t - 1) = SubSeq(outputs[run], 1, t - 1)
          BY <1>1, <2>8, <5>1
        <5> QED
          BY <2>1, <5>2 DEF PrintAt
      <4>3. rows'[run][s].print = PrintAt(run, t, c)
        BY <1>1, <2>4, <3>2, <4>1, FingerprintAt
      <4>4. c # 0 => Len(Plan[t].items) >= 2
        BY <4>1 DEF ChainInv, LookedUp, Whole
      <4>5. c = 2 => rows'[run][SlotAt(t, 1)] # None
        <5>1. SlotAt(t, 1) \in Slot
          BY SlotAtType
        <5>2. c = 2 => rows[run][SlotAt(t, 1)] # None
          BY <4>1, CurrentAt DEF ChainInv, LookedUp
        <5> QED
          BY <1>1, <2>5, <5>1, <5>2
      <4>6. RowPlaced(run, s)'
        <5>1. t - 1 <= Len(outputs'[run]) /\ s = SlotAt(t, c)
          BY <1>1, <2>2, <2>8, <3>2, <4>1
        <5>2. rows'[run][s].print = PrintAt(run, t, c)'
          BY <4>2, <4>3
        <5> QED
          BY <2>1, <4>4, <4>5, <5>1, <5>2 DEF RowPlaced
      <4>7. MadeFor(run, value)'
        BY <1>1, <2>1, <2>6 DEF MadeFor
      <4>8. /\ Covers(rows'[run][s].value, rows'[run][s].print.items)
            /\ rows'[run][s].value = value
        BY <2>4, <3>2 DEF Fingerprint
      <4>9. RowRight(run, s)'
        <5>1. run' = run /\ rows'[run'] = rows'[run]
          BY <2>1
        <5>2. MadeFor(run, rows[run][s].value)'
          BY <4>7, <4>8, <5>1 DEF MadeFor
        <5>3. Covers(rows[run][s].value, rows[run][s].print.items)'
          BY <4>8, <5>1 DEF Covers
        <5> QED
          BY <1>1, <4>6, <5>1, <5>2, <5>3 DEF RowRight
      <4> QED
        BY <2>1, <3>2, <4>9
    <3> QED
      BY <3>1, <3>2
  <2>10. CASE c = 0
    <3>1. pc' \in {"enter", "idle"} /\ child' = 0 /\ parts' = <<>>
      BY <2>1, <2>10 DEF ReturnWhole
    <3>2. PartsRight' /\ LookedUp'
      BY <3>1 DEF PartsRight, LookedUp, MadeFor
    <3> QED
      BY <1>2, <2>7, <2>9, <3>2 DEF ChainInv
  <2>11. CASE c # 0
    <3>1. ReturnHalf(c, value) /\ c = child /\ UNCHANGED outputs
      BY <2>1, <2>11 DEF ReturnHalf
    <3>2. PartsRight'
      <4>1. parts' = parts \o value /\ MadeFor(run, parts) /\ parts \in Seq(Piece)
        BY <1>1, <3>1 DEF ReturnHalf, ChainInv, PartsRight, TypeOK
      <4>2. \A i \in DOMAIN (parts \o value) :
                \/ i \in DOMAIN parts /\ (parts \o value)[i] = parts[i]
                \/ i - Len(parts) \in DOMAIN value
                   /\ (parts \o value)[i] = value[i - Len(parts)]
        BY <4>1
      <4>3. MadeFor(run, parts \o value)
        BY <4>1, <4>2 DEF MadeFor
      <4>4. MadeFor(run, parts \o value)'
        BY <1>1, <2>1, <2>6, <4>1, <4>3 DEF MadeFor
      <4> QED
        BY <2>1, <4>1, <4>4 DEF PartsRight, MadeFor
    <3>3. LookedUp'
      <4>1. CASE c = 2
        BY <3>1, <4>1 DEF ReturnHalf, LookedUp
      <4>2. CASE c = 1
        <5>1. pc' = "enter" /\ child' = 2
          BY <3>1, <4>2 DEF ReturnHalf
        <5>2. ~Saved(0) /\ Len(Whole) >= 2
          BY <3>1, <4>2 DEF ChainInv, LookedUp
        <5>3. Saved(0)' = Saved(0) /\ Whole' = Whole /\ SlotOf(1)' = SlotOf(1)
          BY <1>1, <2>1, <2>4, <3>1, LookupStable
        <5>4. rows'[run][SlotOf(1)] # None
          BY <2>3, <2>4, <4>2
        <5> QED
          BY <2>1, <5>1, <5>2, <5>3, <5>4 DEF LookedUp
      <4> QED
        BY <2>11, <4>1, <4>2
    <3> QED
      BY <1>2, <2>7, <2>9, <3>2, <3>3 DEF ChainInv
  <2> QED
    BY <2>10, <2>11
<1> QED
  BY <1>3, <1>4

\* At first no run has a row.
LEMMA ChainInit == Init => ChainInv
<1> SUFFICES ASSUME Init PROVE ChainInv
  OBVIOUS
<1>1. SplitInv
  BY SplitInit
<1>2. RowsRight
  BY DEF Init, RowsRight
<1>3. FutureRuns
  BY DEF Init, FutureRuns
<1>4. PartsRight /\ LookedUp
  BY DEF Init, PartsRight, LookedUp
<1> QED
  BY <1>1, <1>2, <1>3, <1>4 DEF ChainInv

\* A run that starts has no rows yet, and none of the others has it among its
\* ancestors.
LEMMA StartChain == ASSUME ChainInv, StartRun PROVE ChainInv'
<1>1. TypeOK /\ run \in Nat /\ run + 1 \in Run /\ run' = run + 1
  BY BoundAssumption DEF ChainInv, SplitInv, TypeOK, StartRun, Run
<1>2. SplitInv'
  BY StartKeeps DEF ChainInv
<1>3. \A r \in Run : r # run + 1 =>
        parent'[r] = parent[r] /\ config'[r] = config[r] /\ outputs'[r] = outputs[r]
  BY <1>1 DEF StartRun, TypeOK
<1>4. FutureRuns'
  <2>1. \A r \in Run : r > run' => r > run /\ r # run + 1
    BY <1>1 DEF Run
  <2> QED
    BY <1>3, <2>1 DEF ChainInv, FutureRuns
<1>5. RowsRight'
  <2> SUFFICES ASSUME NEW r \in Run, NEW s \in Slot, rows'[r][s] # None
               PROVE  RowRight(r, s)'
    BY DEF RowsRight
  <2>1. rows' = rows
    BY DEF StartRun
  <2>2. RowRight(r, s) /\ r <= run
    BY <2>1 DEF ChainInv, RowsRight, RowRight
  <2>3. r # run + 1
    BY <1>1, <2>2
  <2>4. parent[run + 1] = 0
    BY <1>1 DEF ChainInv, FutureRuns
  <2>5. Ancestors(r) \subseteq Ancestors(r)'
    BY <1>1, <1>3, <2>4, AncestorsGrow
  <2>6. outputs'[r] = outputs[r] /\ Len(outputs[r]) \in Nat
    BY <1>1, <1>3, <2>3 DEF TypeOK
  <2>7. \A x \in Run : x <= run => config'[x] = config[x]
    <3>1. \A x \in Run : x <= run => x # run + 1
      BY <1>1 DEF Run
    <3> QED
      BY <1>3, <3>1
  <2>8. run' \in Nat /\ run <= run'
    BY <1>1
  <2>9. Len(outputs'[r]) \in Nat /\ Len(outputs[r]) <= Len(outputs'[r])
    BY <2>6
  <2> QED
    BY <1>1, <2>1, <2>2, <2>5, <2>6, <2>7, <2>8, <2>9, RowKept
<1>6. child' = 0 /\ parts' = <<>> /\ pc' \in {"enter", "idle"}
  BY DEF StartRun
<1>7. PartsRight' /\ LookedUp'
  BY <1>6 DEF PartsRight, LookedUp, MadeFor
<1> QED
  BY <1>2, <1>4, <1>5, <1>7 DEF ChainInv

\* A split starts in its first half; that the whole is not saved was looked up
\* before it was asked for.
LEMMA SplitChain ==
    ASSUME ChainInv, pc # "idle", Split, child = 0 => ~Saved(0)
    PROVE  ChainInv'
<1>1. CASE ~MaySplit(child)
  BY <1>1, StopChain DEF Split
<1>2. CASE MaySplit(child)
  <2>1. /\ pc' = "enter" /\ child' = 1 /\ parts' = <<>> /\ UNCHANGED <<chain, data>>
        /\ child = 0 /\ Len(Whole) >= 2
    BY <1>2 DEF Split, MaySplit
  <2>2. SplitInv'
    BY SplitKeeps DEF ChainInv
  <2>3. RowsRight' /\ FutureRuns'
    BY <2>1, RowsStay DEF chain, data
  <2>4. PartsRight'
    BY <2>1 DEF PartsRight, MadeFor
  <2>5. TypeOK
    BY DEF ChainInv, SplitInv
  <2>6. Saved(0)' = Saved(0) /\ Whole' = Whole
    BY <2>1, <2>5, LookupStable DEF chain, data
  <2>7. LookedUp'
    BY <2>1, <2>6 DEF LookedUp
  <2> QED
    BY <2>2, <2>3, <2>4, <2>7 DEF ChainInv
<1> QED
  BY <1>1, <1>2

\* What is reused was made for the run recovered, under the same configuration,
\* so also for the run that recovers it.
LEMMA ReuseChain == ASSUME ChainInv, Reuse PROVE ChainInv'
<1> DEFINE value == Checkpoint(SlotOf(child)).value
<1>1. pc = "enter" /\ pc # "idle" /\ child \in 0..2 /\ run \in Run /\ TypeOK
  BY InRun DEF Reuse, ChainInv, SplitInv, TypeOK
<1>2. CASE ~Valid(value, Assigned(child))
  BY <1>1, <1>2, StopChain DEF Reuse
<1>3. CASE Valid(value, Assigned(child))
  <2>1. Record(child, value, parent[run]) /\ Covers(value, Assigned(child))
    BY <1>3 DEF Reuse, Valid
  <2>2. SlotOf(child) \in Slot
    BY <1>1, SlotType
  <2>3. Checkpoint(SlotOf(child)) # None
    BY DEF Reuse, Saved
  <2>4. parent[run] \in Run /\ parent[run] # 0
    BY <1>1, <2>3 DEF TypeOK, Checkpoint, Run
  <2> DEFINE p == parent[run]
             s == SlotOf(child)
  <2>5. rows[p][s] # None /\ value = rows[p][s].value /\ rows[p][s].print = Fingerprint(child)
    BY <2>3 DEF Checkpoint, Reuse, Saved
  <2>6. value \in Seq(Piece)
    <3>1. RowType(rows[p][s])
      BY <1>1, <2>2, <2>4 DEF TypeOK, RowsTyped
    <3> QED
      BY <2>5, <3>1 DEF RowType
  <2>7. RowRight(p, s)
    BY <2>2, <2>4, <2>5 DEF ChainInv, RowsRight
  <2>8. config[p] = config[run]
    <3>1. PICK t \in Task, c \in 0..2 : rows[p][s].print = PrintAt(p, t, c)
      BY <2>7 DEF RowRight, RowPlaced
    <3>2. rows[p][s].print.config = config[p]
      BY <3>1 DEF PrintAt
    <3>3. rows[p][s].print.config = config[run]
      BY <2>5 DEF Fingerprint
    <3> QED
      BY <3>2, <3>3
  <2>9. MadeFor(run, value)
    <3>1. MadeFor(p, value) /\ Ancestors(p) \subseteq Ancestors(run)
      BY <1>1, <2>4, <2>5, <2>7, AncestorOfParent DEF RowRight
    <3> QED
      BY <2>8, <3>1 DEF MadeFor
  <2>10. p \in Run \cup {None}
    BY <2>4
  <2> HIDE DEF value
  <2> QED
    BY <1>1, <2>1, <2>6, <2>9, <2>10, RecordChain
<1> QED
  BY <1>2, <1>3

\* Every step of a run keeps what is known of it and of its ancestors.
LEMMA ChainStep == ChainInv /\ [Next]_vars => ChainInv'
<1> SUFFICES ASSUME ChainInv, [Next]_vars PROVE ChainInv'
  OBVIOUS
<1>0. TypeOK /\ child \in 0..2 /\ SplitInv'
  BY StepKeeps DEF ChainInv, SplitInv, TypeOK
<1>1. CASE StartRun
  BY <1>1, StartChain
<1>2. CASE Reuse
  BY <1>2, ReuseChain
<1>3. CASE Enter
  <2>1. CASE ~AskAtOnce(child)
    BY <1>3, <2>1, SplitChain DEF Enter
  <2>2. CASE AskAtOnce(child)
    <3>1. /\ pc = "enter" /\ pc' = "ask" /\ ~Saved(child)
          /\ UNCHANGED <<chain, data, child, corrected, parts>>
      BY <1>3, <2>2 DEF Enter
    <3>2. RowsRight' /\ FutureRuns' /\ \A r \in Run : Ancestors(r)' = Ancestors(r)
      BY <3>1, RowsStay DEF chain, data
    <3>3. PartsRight'
      <4>1. run \in Run
        BY <1>0, <3>1, InRun
      <4> QED
        BY <3>1, <3>2, <4>1 DEF ChainInv, PartsRight, MadeFor, chain
    <3>4. LookedUp'
      <4>1. \A c \in 0..2 : /\ Saved(c)' = Saved(c) /\ SplitBefore' = SplitBefore
                            /\ Whole' = Whole /\ SlotOf(1)' = SlotOf(1)
        BY <1>0, <3>1, LookupStable DEF chain, data
      <4>2. /\ child = 0 => ~(SplitBefore /\ Len(Whole) > 1)
            /\ child # 0 => ~Saved(0) /\ Len(Whole) >= 2
            /\ child = 2 => rows[run][SlotOf(1)] # None
        BY <2>2, <3>1 DEF AskAtOnce, ChainInv, LookedUp
      <4>3. Saved(child)' = Saved(child)
        BY <1>0, <3>1, LookupStable DEF chain, data
      <4>4. Saved(0)' = Saved(0)
        BY <4>1
      <4>5. rows' = rows /\ run' = run /\ child' = child
        BY <3>1 DEF chain, data
      <4> QED
        BY <1>0, <3>1, <4>1, <4>2, <4>3, <4>4, <4>5 DEF LookedUp
    <3> QED
      BY <1>0, <3>2, <3>3, <3>4 DEF ChainInv
  <2> QED
    BY <2>1, <2>2
<1>4. CASE Accept
  <2>1. pc # "idle" /\ run \in Run
    BY <1>0, <1>4, InRun DEF Accept
  <2>2. Assigned(child) \in Seq(Item)
    BY <1>0, <2>1, AssignedType
  <2>3. PICK value \in Answers(Assigned(child)) : Record(child, value, None)
    BY <1>4 DEF Accept
  <2>4. value \in Seq(Piece) /\ Covers(value, Assigned(child))
    BY <2>1, <2>2, AnswersCover
  <2>5. \A i \in DOMAIN value : value[i].by = run
    <3>1. CASE Plan[Current].stage \in Extracting
      BY <3>1 DEF Answers
    <3>2. CASE Plan[Current].stage \notin Extracting
      BY <3>2 DEF Answers, Plain
    <3> QED
      BY <3>1, <3>2
  <2>6. MadeFor(run, value)
    BY <2>1, <2>5, AncestorSelf DEF MadeFor
  <2> QED
    BY <1>0, <2>1, <2>3, <2>4, <2>6, RecordChain
<1>5. CASE Correct
  <2>1. CASE corrected
    BY <1>5, <2>1, StopChain DEF Correct
  <2>2. CASE ~corrected
    <3>1. UNCHANGED <<chain, data, pc, child, parts>> /\ pc = "ask"
      BY <1>5, <2>2, Zenon DEF Correct
    <3>2. RowsRight' /\ FutureRuns' /\ \A r \in Run : Ancestors(r)' = Ancestors(r)
      BY <3>1, RowsStay DEF chain, data
    <3>3. PartsRight'
      <4>1. run \in Run
        BY <1>0, <3>1, InRun
      <4> QED
        BY <3>1, <3>2, <4>1 DEF ChainInv, PartsRight, MadeFor, chain
    <3>4. LookedUp'
      <4>1. /\ Saved(child)' = Saved(child) /\ Saved(0)' = Saved(0)
            /\ SplitBefore' = SplitBefore /\ Whole' = Whole /\ SlotOf(1)' = SlotOf(1)
        BY <1>0, <3>1, LookupStable DEF chain, data
      <4>2. rows' = rows /\ run' = run /\ child' = child /\ pc' = pc
        BY <3>1 DEF chain, data
      <4> QED
        BY <4>1, <4>2 DEF ChainInv, LookedUp
    <3> QED
      BY <1>0, <3>2, <3>3, <3>4 DEF ChainInv
  <2> QED
    BY <2>1, <2>2
<1>6. CASE Truncated
  <2>1. child = 0 => ~Saved(0)
    BY <1>6 DEF Truncated, ChainInv, LookedUp
  <2> QED
    BY <1>6, <2>1, SplitChain DEF Truncated
<1>7. CASE Interrupt
  BY <1>7, StopChain DEF Interrupt
<1>8. CASE Combine
  <2>1. CASE ~Valid(parts, Whole)
    BY <1>8, <2>1, StopChain DEF Combine
  <2>2. CASE Valid(parts, Whole)
    <3>1. Record(0, parts, None) /\ pc = "combine" /\ pc # "idle"
      BY <1>8, <2>2 DEF Combine
    <3>2. parts \in Seq(Piece) /\ Covers(parts, Assigned(0))
      BY <1>0, <2>2 DEF TypeOK, Valid, Assigned
    <3>3. MadeFor(run, parts)
      BY <3>1 DEF ChainInv, PartsRight
    <3> QED
      BY <3>1, <3>2, <3>3, RecordChain
  <2> QED
    BY <2>1, <2>2
<1>9. CASE UNCHANGED vars
  <2>1. UNCHANGED <<chain, data, place>>
    BY <1>9 DEF vars
  <2>2. RowsRight' /\ FutureRuns' /\ \A r \in Run : Ancestors(r)' = Ancestors(r)
    BY <2>1, RowsStay DEF chain, data
  <2>3. CASE pc = "idle"
    BY <1>0, <2>1, <2>2, <2>3 DEF ChainInv, PartsRight, LookedUp, place
  <2>4. CASE pc # "idle"
    <3>1. PartsRight'
      <4>1. run \in Run
        BY <1>0, <2>4, InRun
      <4> QED
        BY <2>1, <2>2, <4>1 DEF ChainInv, PartsRight, MadeFor, chain, place
    <3>2. LookedUp'
      <4>1. /\ Saved(child)' = Saved(child) /\ Saved(0)' = Saved(0)
            /\ SplitBefore' = SplitBefore /\ Whole' = Whole /\ SlotOf(1)' = SlotOf(1)
        BY <1>0, <2>1, <2>4, LookupStable DEF chain, data, place
      <4>2. rows' = rows /\ run' = run /\ child' = child /\ pc' = pc
        BY <2>1 DEF chain, data, place
      <4> QED
        BY <4>1, <4>2 DEF ChainInv, LookedUp
    <3> QED
      BY <1>0, <2>2, <3>1, <3>2 DEF ChainInv
  <2> QED
    BY <2>3, <2>4
<1> QED
  BY <1>1, <1>2, <1>3, <1>4, <1>5, <1>6, <1>7, <1>8, <1>9 DEF Next, Step

\* So rows, parts and look-ups agree in every behaviour.
LEMMA ChainInvariant == Spec => []ChainInv
<1> QED
  BY ChainInit, ChainStep, PTL DEF Spec

\* Through any number of recoveries of recoveries, whatever crashed and whichever
\* configurations came between, a row was made under the configuration of the
\* run that holds it, from that run's own earlier outputs, by its ancestry.
THEOREM RowsConsistent == Spec => []RowsAgree
<1>1. ASSUME ChainInv PROVE RowsAgree
  <2> SUFFICES ASSUME NEW r \in Run, NEW s \in Slot, rows[r][s] # None
               PROVE  /\ rows[r][s].print.config = config[r]
                      /\ rows[r][s].print.context
                           = SubSeq(outputs[r], 1, Len(rows[r][s].print.context))
                      /\ Covers(rows[r][s].value, rows[r][s].print.items)
                      /\ MadeFor(r, rows[r][s].value)
    BY DEF RowsAgree, MadeFor
  <2>1. RowRight(r, s)
    BY <1>1 DEF ChainInv, RowsRight
  <2>2. PICK t \in Task, c \in 0..2 :
            t - 1 <= Len(outputs[r]) /\ rows[r][s].print = PrintAt(r, t, c)
    BY <2>1 DEF RowRight, RowPlaced
  <2>3. /\ rows[r][s].print.config = config[r]
        /\ rows[r][s].print.context = SubSeq(outputs[r], 1, t - 1)
    <3>1. PrintAt(r, t, c).config = config[r]
      BY DEF PrintAt
    <3>2. PrintAt(r, t, c).context = SubSeq(outputs[r], 1, t - 1)
      BY DEF PrintAt
    <3> QED
      BY <2>2, <3>1, <3>2
  <2>4. Len(SubSeq(outputs[r], 1, t - 1)) = t - 1
    <3>1. outputs[r] \in Seq(Seq(Piece)) /\ t - 1 \in Nat
      BY <1>1, PlanAssumption DEF ChainInv, SplitInv, TypeOK, Task
    <3> QED
      BY <2>2, <3>1
  <2> QED
    BY <2>1, <2>3, <2>4 DEF RowRight
<1> QED
  BY <1>1, ChainInvariant, PTL

\* The two halves of a split share no member: the group lists each once.
LEMMA HalvesDisjoint ==
    ASSUME NEW t \in Task
    PROVE  Range(AssignedAt(t, 1)) \cap Range(AssignedAt(t, 2)) = {}
<1> DEFINE s == Plan[t].items
           m == Len(s) \div 2
<1>1. s \in Seq(Item) /\ Len(s) \in Nat /\ IsInjective(s)
  <2>1. Plan[t] \in [stage : Stage, items : Seq(Item)]
    <3>1. t \in 1..Len(Plan)
      BY PlanAssumption DEF Task
    <3> QED
      BY <3>1, PlanAssumption, ElementType, Zenon
  <2> QED
    BY <2>1, DistinctAssumption DEF Task
<1>2. m \in Nat /\ m <= Len(s)
  BY <1>1, MiddleType
<1>3. AssignedAt(t, 1) = SubSeq(s, 1, m) /\ AssignedAt(t, 2) = SubSeq(s, m + 1, Len(s))
  <2>1. ASSUME NEW c, c = 1 PROVE AssignedAt(t, c) = SubSeq(s, 1, m)
    BY <2>1 DEF AssignedAt
  <2>2. ASSUME NEW c, c = 2 PROVE AssignedAt(t, c) = SubSeq(s, m + 1, Len(s))
    <3>1. c # 0 /\ c # 1
      BY <2>2
    <3> QED
      BY <2>2, <3>1, Zenon DEF AssignedAt
  <2> QED
    BY <2>1, <2>2
<1> HIDE DEF s, m
<1>4. /\ DOMAIN SubSeq(s, 1, m) = 1..m
      /\ \A i \in 1..m : SubSeq(s, 1, m)[i] = s[i]
      /\ DOMAIN SubSeq(s, m + 1, Len(s)) = 1..(Len(s) - m)
      /\ \A i \in 1..(Len(s) - m) : SubSeq(s, m + 1, Len(s))[i] = s[m + i]
  BY <1>1, <1>2, HalvesType
<1>5. \A i \in 1..m, j \in 1..(Len(s) - m) : s[i] # s[m + j]
  BY <1>1, <1>2 DEF IsInjective
<1>6. /\ Range(AssignedAt(t, 1)) = {s[i] : i \in 1..m}
      /\ Range(AssignedAt(t, 2)) = {s[m + i] : i \in 1..(Len(s) - m)}
  BY <1>3, <1>4 DEF Range
<1> QED
  BY <1>5, <1>6

\* A recovery asks the model for nothing that the run it recovers has made from
\* the same inputs: not for a half when the whole is there, not for the whole
\* when a half is, not for the half itself.
THEOREM AskedOnce == Spec => []NothingAskedTwice
<1>1. ASSUME ChainInv PROVE NothingAskedTwice
  <2> SUFFICES ASSUME pc = "ask", parent[run] # 0, NEW s \in Slot,
                      rows[parent[run]][s] # None, s[1] = Plan[Current].stage,
                      rows[parent[run]][s].print.config = config[run],
                      rows[parent[run]][s].print.context = outputs[run]
               PROVE  Range(rows[parent[run]][s].print.items) \cap Range(Assigned(child)) = {}
    BY DEF NothingAskedTwice
  <2> DEFINE p == parent[run]
  <2>1. /\ TypeOK /\ run \in Run /\ p \in Run /\ Current \in Task
        /\ child \in 0..2 /\ outputs[run] \in Seq(Seq(Piece)) /\ outputs[p] \in Seq(Seq(Piece))
    <3>1. TypeOK /\ run \in Run /\ Current \in Task
      BY <1>1, InRun, AssignedType DEF ChainInv, SplitInv, Task
    <3> QED
      BY <3>1 DEF TypeOK, Run
  <2>2. RowRight(p, s)
    BY <1>1, <2>1 DEF ChainInv, RowsRight
  <2>3. PICK t \in Task, c \in 0..2 :
            /\ t - 1 <= Len(outputs[p]) /\ s = SlotAt(t, c)
            /\ rows[p][s].print = PrintAt(p, t, c)
            /\ c # 0 => Len(Plan[t].items) >= 2
            /\ c = 2 => rows[p][SlotAt(t, 1)] # None
    BY <2>2 DEF RowRight, RowPlaced
  <2>4. t = Current
    <3>1. t - 1 \in 0..Len(outputs[p])
      BY <2>3, PlanAssumption DEF Task
    <3>2. Len(SubSeq(outputs[p], 1, t - 1)) = t - 1
      BY <2>1, <3>1
    <3>3. SubSeq(outputs[p], 1, t - 1) = outputs[run]
      BY <2>3 DEF PrintAt
    <3>4. t \in Int /\ t - 1 = Len(outputs[run])
      BY <3>1, <3>2, <3>3, PlanAssumption DEF Task
    <3> QED
      BY <3>4 DEF Current
  <2>5. s = SlotOf(c) /\ rows[p][s].print.items = Assigned(c)
    BY <2>3, <2>4, CurrentAt DEF PrintAt
  <2>6. rows[p][s].print = Fingerprint(c)
    <3>1. /\ rows[p][s].print.config = config[run] /\ rows[p][s].print.items = Assigned(c)
          /\ rows[p][s].print.context = outputs[run]
      BY <2>5
    <3> QED
      BY <2>3, <3>1 DEF PrintAt, Fingerprint
  <2>7. Saved(c)
    BY <2>5, <2>6 DEF Saved, Checkpoint
  <2>8. c # 0 => SplitBefore /\ Len(Whole) > 1
    <3>1. c # 0 => rows[p][SlotOf(1)] # None
      BY <2>3, <2>4, <2>5, CurrentAt
    <3>2. c # 0 => Len(Whole) > 1
      <4>1. Len(Whole) \in Nat
        BY <2>1, AssignedType
      <4> QED
        BY <2>3, <2>4, <4>1 DEF Whole
    <3> QED
      BY <3>1, <3>2 DEF SplitBefore, Checkpoint
  <2>9. /\ ~Saved(child) /\ (child = 0 => ~(SplitBefore /\ Len(Whole) > 1))
        /\ child # 0 => ~Saved(0)
    BY <1>1 DEF ChainInv, LookedUp
  <2>10. c # 0 /\ child # 0 /\ c # child
    BY <2>7, <2>8, <2>9
  <2>11. Range(Assigned(c)) \cap Range(Assigned(child)) = {}
    <3>1. (c = 1 /\ child = 2) \/ (c = 2 /\ child = 1)
      BY <2>1, <2>10
    <3>2. Range(Assigned(1)) \cap Range(Assigned(2)) = {}
      BY <2>1, HalvesDisjoint, CurrentAt
    <3> QED
      BY <3>1, <3>2
  <2> QED
    BY <2>5, <2>11
<1> QED
  BY <1>1, ChainInvariant, PTL
=============================================================================
