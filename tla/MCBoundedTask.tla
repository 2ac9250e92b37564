---------------------------- MODULE MCBoundedTask ----------------------------
EXTENDS BoundedTask

\* Two groups of one stage, so that task indices of a stage can meet, and a
\* later stage with a group that cannot be split.
TwoStages == << [stage |-> "source_audit", items |-> <<1, 2, 3>>],
                [stage |-> "source_audit", items |-> <<4>>],
                [stage |-> "curator", items |-> <<5>>] >>

\* One group of two neighbouring chunks.
OneScout == << [stage |-> "scout", items |-> <<1, 2>>] >>
=============================================================================
