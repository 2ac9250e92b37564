----------------------------- MODULE RunRecord -----------------------------
(***************************************************************************)
(* What the run store promises its readers, whoever writes and however     *)
(* writers interleave, crash or lose their leases: a run is a journal that *)
(* is opened once, only grows while it is open, is closed at most once     *)
(* with an outcome, and then never changes.  Its identity, what it was     *)
(* asked to do and which run it recovers, is fixed when it is opened, and  *)
(* a recovered run was opened earlier.                                     *)
(***************************************************************************)
CONSTANTS Runs,      \* run ids
          Identity,  \* what a run may be asked to do
          Entry,     \* what a journal may hold
          Outcome,   \* how a run may end
          None       \* "no such thing"

VARIABLES identity, journal, outcome

vars == <<identity, journal, outcome>>

Opened(r) == identity[r] # None
Closed(r) == outcome[r] # None

Init == /\ identity = [r \in Runs |-> None]
        /\ journal = [r \in Runs |-> {}]
        /\ outcome = [r \in Runs |-> None]

Open(r) ==
    /\ ~Opened(r)
    /\ \E i \in Identity :
        /\ i.parent = None \/ Opened(i.parent)
        /\ identity' = [identity EXCEPT ![r] = i]
    /\ UNCHANGED <<journal, outcome>>

\* Entries are added; none is lost or replaced.
Extends(r) ==
    /\ journal'[r] \in SUBSET Entry
    /\ journal[r] \subseteq journal'[r]
    /\ journal' = [journal EXCEPT ![r] = journal'[r]]

Write(r) ==
    /\ Opened(r) /\ ~Closed(r)
    /\ Extends(r)
    /\ UNCHANGED <<identity, outcome>>

\* The last entries and the outcome appear together.
Finish(r) ==
    /\ Opened(r) /\ ~Closed(r)
    /\ Extends(r)
    /\ outcome'[r] \in Outcome
    /\ outcome' = [outcome EXCEPT ![r] = outcome'[r]]
    /\ UNCHANGED identity

Next == \E r \in Runs : Open(r) \/ Write(r) \/ Finish(r)

Spec == Init /\ [][Next]_vars
=============================================================================
