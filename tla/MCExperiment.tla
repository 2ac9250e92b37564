----------------------------- MODULE MCExperiment -----------------------------
\* An instance of Experiment for TLC.
EXTENDS Experiment, TLC

CONSTANTS t1, t2
MCOrder == <<t2, t1>>
MCOver == [generation |-> 1, judge |-> 0]

Symmetry == Permutations(Execution) \cup Permutations(Units)
=============================================================================
