----------------------------- MODULE HumanReview -----------------------------
\* The independent human evaluation of finished runs (app.py: the rating form,
\* the adjudication and the agreement table; evaluation.py; the ratings' tables).
\* Sessions of the app read the ratings of a run, show a form or an adjudication
\* accordingly, and store a rating for each dimension in a transaction of its
\* own; only the tables' uniqueness stands between them.
EXTENDS Integers, Sequences, FiniteSets, Functions

CONSTANTS
    Run,        \* finished runs
    Rater,
    Dimensions, \* HumanRatingDimension in its order, a sequence
    Answers,    \* the ratings a form may hold: a score for each dimension
    Session,    \* sessions of the app
    MaxForms,   \* bound on the forms that are submitted
    None

Dimension == {Dimensions[i] : i \in DOMAIN Dimensions}

ASSUME AnswersAssumption == Answers \subseteq [Dimension -> 1..4]
\* An undefined kappa is no fraction.
ASSUME NoneAssumption == None \notin Int \X Int
ASSUME DimensionsAssumption == Dimensions \in Seq(Dimension) /\ Dimensions # <<>>

VARIABLES
    ratings,      \* human_ratings: [run, rater, dimension, score, at]
    adjudicated,  \* human_adjudications: <<run, dimension>>
    page,         \* of each session: the run and raters its form was shown for
    form,         \* of each session: the form it is storing
    submitted     \* number of forms; a form's number stands for its created_at

vars == <<ratings, adjudicated, page, form, submitted>>

Init ==
    /\ ratings = {}
    /\ adjudicated = {}
    /\ page = [s \in Session |-> None]
    /\ form = [s \in Session |-> None]
    /\ submitted = 0

Of(run) == {x \in ratings : x.run = run}
Raters(rows) == {x.rater : x \in rows}

\* _render_human_ratings: the form is shown while there are fewer than two raters.
\* What is read here is what the form is checked against: the read of the rerun in
\* which it is submitted (app.py:1993), some time before Submit's first INSERT.
Render(s) ==
    /\ form[s] = None
    /\ \E run \in Run :
         /\ Cardinality(Raters(Of(run))) < 2
         /\ page' = [page EXCEPT ![s] = [run |-> run, raters |-> Raters(Of(run))]]
    /\ UNCHANGED <<ratings, adjudicated, form, submitted>>

\* A rater who is not among those the page has read, all dimensions scored.
Submit(s) ==
    /\ page[s] # None
    /\ submitted < MaxForms
    /\ \E rater \in Rater \ page[s].raters, scores \in Answers :
         form' = [form EXCEPT ![s] = [run |-> page[s].run, rater |-> rater, scores |-> scores,
                                      at |-> submitted + 1, next |-> 1]]
    /\ page' = [page EXCEPT ![s] = None]
    /\ submitted' = submitted + 1
    /\ UNCHANGED <<ratings, adjudicated>>

\* UNIQUE (run_id, rater_id, dimension, round); the form has only round 1.
\* Variant: each submission is a round of its own.
Taken_never(f) == FALSE

Taken(f) == \E x \in ratings :
    x.run = f.run /\ x.rater = f.rater /\ x.dimension = Dimensions[f.next]

\* save_human_rating of the form's next dimension; a refusal ends the form, what
\* it has stored stays.
SaveRating(s) ==
    LET f == form[s] IN
    /\ f # None
    /\ ratings' = IF Taken(f) THEN ratings
                  ELSE ratings \cup {[run |-> f.run, rater |-> f.rater, at |-> f.at,
                                      dimension |-> Dimensions[f.next],
                                      score |-> f.scores[Dimensions[f.next]]]}
    /\ form' = [form EXCEPT ![s] = IF Taken(f) \/ f.next = Len(Dimensions)
                                     THEN None ELSE [f EXCEPT !.next = @ + 1]]
    /\ UNCHANGED <<adjudicated, page, submitted>>

\* The connection or the server is lost between two dimensions.
Lose(s) ==
    /\ form[s] # None
    /\ form' = [form EXCEPT ![s] = None]
    /\ UNCHANGED <<ratings, adjudicated, page, submitted>>

\* The dimensions whose ratings differ.
Disputed(rows) ==
    {d \in Dimension : Cardinality({x.score : x \in {y \in rows : y.dimension = d}}) > 1}

\* _render_adjudication and save_human_adjudication: once for a run and dimension.
\* What the page offers may be old, but ratings are never withdrawn, and a second
\* adjudication is refused.
Adjudicate(run) ==
    /\ Cardinality(Raters(Of(run))) >= 2
    /\ \E d \in Disputed(Of(run)) : adjudicated' = adjudicated \cup {<<run, d>>}
    /\ UNCHANGED <<ratings, page, form, submitted>>

Next == \/ \E s \in Session : Render(s) \/ Submit(s) \/ SaveRating(s) \/ Lose(s)
        \/ \E run \in Run : Adjudicate(run)

Spec == Init /\ [][Next]_vars
-----------------------------------------------------------------------------
\* summarize_human_agreement: the runs with exactly two ratings of a dimension,
\* by two raters; the earlier one is on the left.
Items(run, d) == {x \in Of(run) : x.dimension = d}

Paired(d) == {run \in Run : Cardinality(Items(run, d)) = 2 /\ Cardinality(Raters(Items(run, d))) = 2}

Earlier(rows) == CHOOSE x \in rows : \A y \in rows : x.at <= y.at
Later(rows)   == CHOOSE x \in rows : \A y \in rows : y.at <= x.at

Pairs(d) == [run \in Paired(d) |-> <<Earlier(Items(run, d)).score, Later(Items(run, d)).score>>]

SumOver(values) == FoldFunction(+, 0, values)
Square(n) == n * n

\* quadratic_weighted_kappa: 1 - observed / expected as a fraction over the
\* expected disagreement, times the number of pairs squared; undefined when no
\* disagreement is to be expected.
Count(pairs, side, score) == Cardinality({p \in DOMAIN pairs : pairs[p][side] = score})

\* Variant: the marginal of one rater is used for both.
Expected_oneSided(pairs) ==
    SumOver([c \in (1..4) \X (1..4) |-> Square(c[1] - c[2]) * Count(pairs, 1, c[1]) * Count(pairs, 1, c[2])])

Expected(pairs) ==
    SumOver([c \in (1..4) \X (1..4) |-> Square(c[1] - c[2]) * Count(pairs, 1, c[1]) * Count(pairs, 2, c[2])])

Observed(pairs) == SumOver([p \in DOMAIN pairs |-> Square(pairs[p][1] - pairs[p][2])])

Kappa(pairs) ==
    LET expected == Expected(pairs)
    IN  IF DOMAIN pairs = {} \/ expected = 0 THEN None
        ELSE <<expected - Cardinality(DOMAIN pairs) * Observed(pairs), expected>>

\* Variant: a kappa that is undefined does not count against the gate.
Passes_undefined(pairs) ==
    /\ Cardinality(DOMAIN pairs) >= 2
    /\ LET kappa == Kappa(pairs) IN kappa # None => 10 * kappa[1] >= 7 * kappa[2]

\* agreement_gate over the summaries, with _render_human_agreement's demand of
\* two pairs: every dimension's kappa is at least 0.70.
Passes(pairs) ==
    /\ Cardinality(DOMAIN pairs) >= 2
    /\ LET kappa == Kappa(pairs) IN kappa # None /\ 10 * kappa[1] >= 7 * kappa[2]

GatePassed == \A d \in Dimension : Passes(Pairs(d))
-----------------------------------------------------------------------------
\* Whatever sessions and raters do at once, a rater's ratings of a run are those
\* of one form, each dimension rated once: no rating mixes two submissions.
OneFormPerRater ==
    \A x, y \in ratings :
        x.run = y.run /\ x.rater = y.rater => x.at = y.at /\ (x.dimension = y.dimension => x = y)

\* What the table shows is agreement.  Every pair is of two raters' opinions; by
\* its own definition kappa compares the disagreement within the pairs to that
\* between all left and all right scores, so it is undefined exactly when there
\* is none at all, is 1 exactly when every pair agrees, and is never more.
KappaMeasuresAgreement ==
    \A d \in Dimension :
        LET pairs == Pairs(d)
            kappa == Kappa(pairs)
            all   == (DOMAIN pairs) \X (DOMAIN pairs)
            apart == SumOver([c \in all |-> Square(pairs[c[1]][1] - pairs[c[2]][2])])
            agree == \A p \in DOMAIN pairs : pairs[p][1] = pairs[p][2]
        IN  /\ \A p \in DOMAIN pairs : \A x, y \in Items(p, d) : x # y => x.rater # y.rater
            /\ kappa = None <=> \A c \in all : pairs[c[1]][1] = pairs[c[2]][2]
            /\ kappa # None =>
                 /\ kappa[2] = apart /\ kappa[1] <= kappa[2]
                 /\ kappa[1] = kappa[2] <=> agree

\* The gate cannot pass on raters who merely use one score, nor on fewer than two
\* common runs of every dimension.
GateIsEarned ==
    GatePassed => \A d \in Dimension :
        /\ Cardinality({run \in Run : Cardinality(Raters(Items(run, d))) = 2}) >= 2
        /\ Cardinality({x.score : x \in {y \in ratings : y.dimension = d}}) > 1
=============================================================================
