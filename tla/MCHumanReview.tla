---------------------------- MODULE MCHumanReview ----------------------------
\* An instance of HumanReview for TLC: interchangeable runs, raters, sessions.
EXTENDS HumanReview, TLC

CONSTANTS coverage, groundedness
MCDimensions == <<coverage, groundedness>>
MCAnswers == {coverage :> a[1] @@ groundedness :> a[2] : a \in {<<1, 4>>, <<3, 2>>}}

Symmetry == Permutations(Run) \cup Permutations(Rater) \cup Permutations(Session)
=============================================================================
