-------------------------- MODULE HumanReviewProofs --------------------------
\* Any number of sessions storing forms a dimension at a time, each dimension in
\* a transaction of its own, never mix two submissions of a rater: what the
\* uniqueness of a rating gives for one dimension carries over to the form,
\* because every form stores the first dimension first and ends at a refusal.
\* The tables over the ratings follow: a weighted kappa is undefined exactly when
\* no scores differ and 1 exactly when every pair agrees, and a gate is open only
\* to runs that two raters rated in every dimension.
EXTENDS HumanReview, FoldTheorems

\* The form a session is storing, and the run of the page it comes from.
Form == [run : Run, rater : Rater, scores : Answers, at : Nat, next : DOMAIN Dimensions]

FormsTyped ==
    /\ submitted \in Nat
    /\ form \in [Session -> Form \cup {None}]
    /\ DOMAIN page = Session
    /\ \A s \in Session : page[s] # None => page[s].run \in Run

\* The rating of the first dimension by the form f, or by the form rating f is of.
Opening(f, y) == y.run = f.run /\ y.rater = f.rater /\ y.at = f.at /\ y.dimension = Dimensions[1]

\* Every rating has beside it the first rating of its form ...
Opened == \A x \in ratings : \E y \in ratings : Opening(x, y)

\* ... as has every form that is past its first dimension ...
FormsOpened ==
    \A s \in Session : form[s] # None =>
        form[s].next = 1 \/ (\E y \in ratings : Opening(form[s], y))

\* ... and a rater has rated a dimension of a run once.
RatedOnce ==
    \A x, y \in ratings :
        x.run = y.run /\ x.rater = y.rater /\ x.dimension = y.dimension => x = y

HInv == FormsTyped /\ Opened /\ FormsOpened /\ RatedOnce

\* A form starts with a dimension, and moves on to one.
LEMMA Positions ==
    /\ 1 \in DOMAIN Dimensions
    /\ \A n \in DOMAIN Dimensions : n # Len(Dimensions) => n + 1 \in DOMAIN Dimensions
    /\ DOMAIN Dimensions \subseteq Nat
<1>1. Dimensions \in Seq(Dimension) /\ Dimensions # <<>>
    BY DimensionsAssumption
<1>2. Len(Dimensions) \in Nat \ {0} /\ DOMAIN Dimensions = 1..Len(Dimensions)
    BY <1>1
<1> QED
    BY <1>2

\* Two ratings of a rater share the first rating of their forms, hence the form.
LEMMA OneForm == ASSUME Opened, RatedOnce  PROVE OneFormPerRater
<1> SUFFICES ASSUME NEW x \in ratings, NEW y \in ratings, x.run = y.run, x.rater = y.rater
             PROVE  x.at = y.at /\ (x.dimension = y.dimension => x = y)
    BY DEF OneFormPerRater
<1>1. PICK a \in ratings : Opening(x, a)
    BY DEF Opened
<1>2. PICK b \in ratings : Opening(y, b)
    BY DEF Opened
<1>3. a = b
    BY <1>1, <1>2 DEF Opening, RatedOnce
<1> QED
    BY <1>1, <1>2, <1>3 DEF Opening, RatedOnce

\* No rating is stored at first.
LEMMA HumanInit == Init => HInv
BY DEF Init, HInv, FormsTyped, Opened, FormsOpened, RatedOnce

\* A page read, and ratings that stay as they are.
LEMMA RenderKeeps == ASSUME NEW s \in Session, HInv, Render(s)  PROVE HInv'
<1>1. FormsTyped'
    BY DEF HInv, FormsTyped, Render
<1> QED
    BY <1>1 DEF HInv, Render, Opened, FormsOpened, RatedOnce

\* A new form has stored nothing yet.
LEMMA SubmitKeeps == ASSUME NEW s \in Session, HInv, Submit(s)  PROVE HInv'
<1>1. PICK rater \in Rater, scores \in Answers :
          form' = [form EXCEPT ![s] = [run |-> page[s].run, rater |-> rater, scores |-> scores,
                                       at |-> submitted + 1, next |-> 1]]
    BY DEF Submit
<1> DEFINE f == [run |-> page[s].run, rater |-> rater, scores |-> scores, at |-> submitted + 1, next |-> 1]
<1>2. page[s].run \in Run /\ submitted + 1 \in Nat /\ submitted' = submitted + 1 /\ ratings' = ratings
      /\ page' = [page EXCEPT ![s] = None]
    BY DEF Submit, HInv, FormsTyped
<1>3. f \in Form /\ f.next = 1
    BY <1>2, Positions DEF Form
<1>4. form' = [form EXCEPT ![s] = f]
    BY <1>1
<1> HIDE DEF f
<1>5. FormsTyped'
    BY <1>2, <1>3, <1>4 DEF HInv, FormsTyped
<1>6. \A t \in Session : form'[t] = IF t = s THEN f ELSE form[t]
    BY <1>4 DEF HInv, FormsTyped
<1>7. FormsOpened'
    BY <1>2, <1>3, <1>6 DEF HInv, FormsOpened
<1> QED
    BY <1>2, <1>5, <1>7 DEF HInv, Opened, RatedOnce

\* A form that is dropped leaves its ratings.
LEMMA LoseKeeps == ASSUME NEW s \in Session, HInv, Lose(s)  PROVE HInv'
<1>1. form' = [form EXCEPT ![s] = None] /\ UNCHANGED <<ratings, page, submitted>>
    BY DEF Lose
<1>2. \A t \in Session : form'[t] # None => form'[t] = form[t]
    BY <1>1 DEF HInv, FormsTyped
<1> QED
    BY <1>1, <1>2 DEF HInv, FormsTyped, Opened, FormsOpened, RatedOnce

\* The next dimension is stored unless it is taken, which ends the form.
LEMMA SaveKeeps == ASSUME NEW s \in Session, HInv, SaveRating(s)  PROVE HInv'
<1> DEFINE f == form[s]
           row == [run |-> f.run, rater |-> f.rater, at |-> f.at,
                   dimension |-> Dimensions[f.next], score |-> f.scores[Dimensions[f.next]]]
           more == [f EXCEPT !.next = @ + 1]
<1>1. f \in Form /\ f # None
    BY DEF SaveRating, HInv, FormsTyped
<1>2. f.next \in DOMAIN Dimensions /\ f.next \in Nat
    BY <1>1, Positions DEF Form
<1>3. /\ ratings' = IF Taken(f) THEN ratings ELSE ratings \cup {row}
      /\ form' = [form EXCEPT ![s] = IF Taken(f) \/ f.next = Len(Dimensions) THEN None ELSE more]
      /\ UNCHANGED <<page, submitted>>
    BY DEF SaveRating
<1>4. row.run = f.run /\ row.rater = f.rater /\ row.at = f.at /\ row.dimension = Dimensions[f.next]
    OBVIOUS
<1>5. f.next # Len(Dimensions) =>
          more \in Form /\ more.run = f.run /\ more.rater = f.rater /\ more.at = f.at
    BY <1>1, <1>2, Positions DEF Form
<1>6. f.next = 1 \/ (\E y \in ratings : Opening(f, y))
    BY <1>1 DEF HInv, FormsOpened
<1> HIDE DEF row, more
<1>7. CASE Taken(f)
    <2>1. ratings' = ratings /\ form' = [form EXCEPT ![s] = None]
        BY <1>3, <1>7
    <2>2. \A t \in Session : form'[t] # None => form'[t] = form[t]
        BY <2>1 DEF HInv, FormsTyped
    <2> QED
        BY <1>3, <2>1, <2>2 DEF HInv, FormsTyped, Opened, FormsOpened, RatedOnce
<1>8. CASE ~Taken(f)
    <2>1. ratings' = ratings \cup {row}
          /\ form' = [form EXCEPT ![s] = IF f.next = Len(Dimensions) THEN None ELSE more]
        BY <1>3, <1>8
    <2>2. FormsTyped'
        BY <1>3, <1>5, <2>1 DEF HInv, FormsTyped
    <2>3. \E y \in ratings' : Opening(f, y)
        BY <1>4, <1>6, <2>1 DEF Opening
    <2>4. Opened'
        BY <1>4, <2>1, <2>3 DEF HInv, Opened, Opening
    <2>5. RatedOnce'
        BY <1>4, <1>8, <2>1 DEF HInv, RatedOnce, Taken
    <2>6. FormsOpened'
        <3>1. \A t \in Session : t # s => form'[t] = form[t]
            BY <2>1 DEF HInv, FormsTyped
        <3>2. form'[s] # None => form'[s] = more /\ f.next # Len(Dimensions)
            BY <2>1 DEF HInv, FormsTyped
        <3>3. form'[s] # None => \E y \in ratings' : Opening(form'[s], y)
            BY <1>5, <2>3, <3>2 DEF Opening
        <3> QED
            BY <2>1, <3>1, <3>3 DEF HInv, FormsOpened
    <2> QED
        BY <2>2, <2>4, <2>5, <2>6 DEF HInv
<1> QED
    BY <1>7, <1>8

\* The invariant holds in every behaviour of the sessions that submit app.py's
\* form, each dimension stored by a save_human_rating of its own.
THEOREM HumanInv == Spec => []HInv
<1>1. HInv /\ [Next]_vars => HInv'
    <2> SUFFICES ASSUME HInv, [Next]_vars  PROVE HInv'
        OBVIOUS
    <2>1. ASSUME NEW s \in Session, Render(s) \/ Submit(s) \/ SaveRating(s) \/ Lose(s)  PROVE HInv'
        BY <2>1, RenderKeeps, SubmitKeeps, SaveKeeps, LoseKeeps
    <2>2. ASSUME NEW run \in Run, Adjudicate(run)  PROVE HInv'
        BY <2>2 DEF Adjudicate, HInv, FormsTyped, Opened, FormsOpened, RatedOnce
    <2>3. CASE UNCHANGED vars
        BY <2>3 DEF vars, HInv, FormsTyped, Opened, FormsOpened, RatedOnce
    <2> QED
        BY <2>1, <2>2, <2>3 DEF Next
<1> QED
    BY <1>1, HumanInit, PTL DEF Spec

\* However many sessions, raters and runs there are, and wherever a form is
\* interrupted (save_human_rating once for each dimension of app.py's form): the
\* ratings of a run that bear a rater's name are those of one submission.
THEOREM RatedAsSubmitted == Spec => []OneFormPerRater
<1>1. HInv => OneFormPerRater
    BY OneForm DEF HInv
<1> QED
    BY <1>1, HumanInv, PTL
-----------------------------------------------------------------------------
\* Agreement.  What a rating is, for the tables that summarize them.
RowsTyped ==
    /\ IsFiniteSet(ratings)
    /\ \A x \in ratings : x.run \in Run /\ x.at \in Nat /\ x.dimension \in Dimension /\ x.score \in 1..4

\* The stored rows of every behaviour are ratings.
LEMMA RowsInv == Spec => []RowsTyped
<1>1. Init => RowsTyped
    BY FS_EmptySet DEF Init, RowsTyped
<1>2. HInv /\ RowsTyped /\ [Next]_vars => RowsTyped'
    <2> SUFFICES ASSUME HInv, RowsTyped, [Next]_vars  PROVE RowsTyped'
        OBVIOUS
    <2>1. CASE UNCHANGED ratings
        BY <2>1 DEF RowsTyped
    <2>2. ASSUME NEW s \in Session, SaveRating(s), ~Taken(form[s])  PROVE RowsTyped'
        <3> DEFINE f == form[s]
                   row == [run |-> f.run, rater |-> f.rater, at |-> f.at,
                           dimension |-> Dimensions[f.next], score |-> f.scores[Dimensions[f.next]]]
        <3>1. f \in Form
            BY <2>2 DEF SaveRating, HInv, FormsTyped
        <3>2. Dimensions[f.next] \in Dimension /\ f.scores \in [Dimension -> 1..4]
            BY <3>1, AnswersAssumption DEF Form, Dimension
        <3>3. row.run \in Run /\ row.at \in Nat /\ row.dimension \in Dimension /\ row.score \in 1..4
            BY <3>1, <3>2 DEF Form
        <3>4. ratings' = ratings \cup {row}
            BY <2>2 DEF SaveRating
        <3> HIDE DEF row
        <3>5. IsFiniteSet(ratings')
            BY <3>4, FS_AddElement DEF RowsTyped
        <3> QED
            BY <3>3, <3>4, <3>5 DEF RowsTyped
    <2>3. ASSUME NEW s \in Session, SaveRating(s), Taken(form[s])  PROVE UNCHANGED ratings
        BY <2>3 DEF SaveRating
    <2> QED
        BY <2>1, <2>2, <2>3 DEF Next, Render, Submit, Lose, Adjudicate, vars
<1> QED
    BY <1>1, <1>2, HumanInv, PTL DEF Spec

\* A set of two.
LEMMA TwoElements ==
    ASSUME NEW S, IsFiniteSet(S), Cardinality(S) = 2
    PROVE  \E x, y \in S : x # y /\ S = {x, y}
<1>1. S # {}
    BY FS_EmptySet
<1>2. PICK x \in S : TRUE
    BY <1>1
<1>3. IsFiniteSet(S \ {x}) /\ Cardinality(S \ {x}) = 1
    BY FS_RemoveElement
<1>4. PICK y : S \ {x} = {y}
    BY <1>3, FS_Singleton
<1> QED
    BY <1>2, <1>4

\* The runs that somebody has rated are finitely many.
LEMMA RatedFinite ==
    ASSUME RowsTyped
    PROVE  IsFiniteSet({x.run : x \in ratings})
<1> DEFINE f == [x \in ratings |-> x.run]
           R == {x.run : x \in ratings}
<1>1. f \in Surjection(ratings, R)
    BY DEF Surjection
<1> QED
    BY <1>1, FS_Surjection DEF RowsTyped

\* The ratings of one output are finitely many.
LEMMA ItemsFinite ==
    ASSUME RowsTyped, NEW run, NEW d
    PROVE  IsFiniteSet(Items(run, d)) /\ Items(run, d) \subseteq ratings
<1>1. Items(run, d) \subseteq ratings
    BY DEF Items, Of
<1> QED
    BY <1>1, FS_Subset DEF RowsTyped

\* A pair is of two ratings, by two raters; each side is the score of one.
LEMMA PairsTyped ==
    ASSUME RowsTyped, NEW d
    PROVE  /\ IsFiniteSet(Paired(d))
           /\ Pairs(d) \in [Paired(d) -> (1..4) \X (1..4)]
           /\ \A p \in Paired(d), i \in 1..2 : \E x \in Items(p, d) : Pairs(d)[p][i] = x.score
           /\ \A p \in Paired(d) : \A x, y \in Items(p, d) : x # y => x.rater # y.rater
<1>1. IsFiniteSet(Paired(d))
    <2>1. ASSUME NEW p \in Paired(d)  PROVE p \in {x.run : x \in ratings}
        <3>1. Items(p, d) # {}
            <4>1. Cardinality({}) # 2
                BY FS_EmptySet
            <4> QED
                BY <4>1 DEF Paired
        <3>2. PICK x \in Items(p, d) : TRUE
            BY <3>1
        <3> QED
            BY <3>2 DEF Items, Of
    <2>2. Paired(d) \subseteq {x.run : x \in ratings}
        BY <2>1
    <2> QED
        BY <2>2, RatedFinite, FS_Subset
<1>2. ASSUME NEW p \in Paired(d)
      PROVE  \E x, y \in Items(p, d) : x # y /\ Items(p, d) = {x, y}
    BY ItemsFinite, TwoElements DEF Paired
<1>3. ASSUME NEW p \in Paired(d)
      PROVE  /\ Earlier(Items(p, d)) \in Items(p, d)
             /\ Later(Items(p, d)) \in Items(p, d)
    <2>1. PICK x, y \in Items(p, d) : x # y /\ Items(p, d) = {x, y}
        BY <1>2
    <2>2. x.at \in Nat /\ y.at \in Nat
        BY ItemsFinite DEF RowsTyped
    <2> DEFINE I == Items(p, d)
    <2>3. I = {x, y}
        BY <2>1
    <2> HIDE DEF I
    <2>4. \E e \in I : \A z \in I : e.at <= z.at
        BY <2>2, <2>3
    <2>5. \E e \in I : \A z \in I : z.at <= e.at
        BY <2>2, <2>3
    <2>6. Earlier(I) \in I
        BY <2>4 DEF Earlier
    <2>7. Later(I) \in I
        BY <2>5 DEF Later
    <2> QED
        BY <2>6, <2>7 DEF I
<1>4. ASSUME NEW p \in Paired(d), NEW x \in Items(p, d)  PROVE x.score \in 1..4
    BY ItemsFinite DEF RowsTyped
<1>5. Pairs(d) \in [Paired(d) -> (1..4) \X (1..4)]
    BY <1>3, <1>4 DEF Pairs
<1>6. \A p \in Paired(d), i \in 1..2 : \E x \in Items(p, d) : Pairs(d)[p][i] = x.score
    BY <1>3 DEF Pairs
<1>7. ASSUME NEW p \in Paired(d), NEW x \in Items(p, d), NEW y \in Items(p, d), x # y, x.rater = y.rater
      PROVE  FALSE
    <2>1. Items(p, d) = {x, y}
        BY <1>2, <1>7
    <2>2. Raters(Items(p, d)) = {x.rater}
        BY <1>7, <2>1 DEF Raters
    <2>3. Cardinality({x.rater}) = 1
        BY FS_Singleton
    <2> QED
        BY <2>2, <2>3 DEF Paired
<1> QED
    BY <1>1, <1>5, <1>6, <1>7

\* Sums of the model are those of FoldTheorems.
LEMMA SumIsSumOf == ASSUME NEW f  PROVE SumOver(f) = SumOf(f)
BY Zenon DEF SumOver, SumOf

\* A squared difference is a natural number, 0 for equal scores only.
LEMMA Squares ==
    ASSUME NEW i \in Int, NEW j \in Int
    PROVE  Square(i - j) \in Nat /\ (Square(i - j) = 0 <=> i = j)
<1> DEFINE k == i - j
<1>1. k \in Int /\ (k = 0 <=> i = j)
    OBVIOUS
<1> HIDE DEF k
<1>2. k * k \in Int /\ k * k >= 0 /\ (k * k = 0 <=> k = 0)
    BY <1>1
<1> QED
    BY <1>1, <1>2 DEF Square, k

\* The disagreement between all left and all right scores.
Apart(pairs) == SumOf([c \in (DOMAIN pairs) \X (DOMAIN pairs) |-> Square(pairs[c[1]][1] - pairs[c[2]][2])])

Scored(D) == [D -> (1..4) \X (1..4)]

\* The expected disagreement, summed over the scores, is that between all left
\* and all right scores.
LEMMA ExpectedIsApart ==
    ASSUME NEW D, IsFiniteSet(D), NEW pairs \in Scored(D)
    PROVE  Expected(pairs) = Apart(pairs)
<1> DEFINE S == D \X D
           T == (1..4) \X (1..4)
           g == [c \in S |-> <<pairs[c[1]][1], pairs[c[2]][2]>>]
           w == [t \in T |-> Square(t[1] - t[2])]
           Side(i, v) == {p \in D : pairs[p][i] = v}
<1>1. IsFiniteSet(1..4)
    <2>1. 1 \in Int /\ 4 \in Int
        OBVIOUS
    <2> QED
        BY <2>1, FS_Interval
<1>2. IsFiniteSet(S) /\ IsFiniteSet(T)
    BY <1>1, FS_Product
<1>3. g \in [S -> T]
    BY DEF Scored
<1>4. w \in [T -> Int]
    <2>1. \A t \in T : t[1] \in Int /\ t[2] \in Int
        OBVIOUS
    <2>2. ASSUME NEW t \in T  PROVE Square(t[1] - t[2]) \in Int
        <3>1. t[1] \in Int /\ t[2] \in Int
            BY <2>1
        <3>2. Square(t[1] - t[2]) \in Nat
            BY <3>1, Squares
        <3> QED
            BY <3>2
    <2> QED
        BY <2>2
<1>5. ASSUME NEW t \in T
      PROVE  w[t] * Cardinality({s \in S : g[s] = t})
                = Square(t[1] - t[2]) * Count(pairs, 1, t[1]) * Count(pairs, 2, t[2])
    <2>1. {s \in S : g[s] = t} = Side(1, t[1]) \X Side(2, t[2])
        <3>1. ASSUME NEW s \in S  PROVE g[s] = t <=> pairs[s[1]][1] = t[1] /\ pairs[s[2]][2] = t[2]
            OBVIOUS
        <3>2. {s \in S : g[s] = t} = {s \in S : pairs[s[1]][1] = t[1] /\ pairs[s[2]][2] = t[2]}
            BY <3>1
        <3> QED
            BY <3>2
    <2>2. IsFiniteSet(Side(1, t[1])) /\ IsFiniteSet(Side(2, t[2]))
        BY FS_Subset
    <2>3. Cardinality(Side(1, t[1]) \X Side(2, t[2])) = Cardinality(Side(1, t[1])) * Cardinality(Side(2, t[2]))
        BY <2>2, FS_Product
    <2>4. Count(pairs, 1, t[1]) = Cardinality(Side(1, t[1])) /\ Count(pairs, 2, t[2]) = Cardinality(Side(2, t[2]))
        BY DEF Count, Scored
    <2>5. Count(pairs, 1, t[1]) \in Int /\ Count(pairs, 2, t[2]) \in Int
        BY <2>2, <2>4, FS_CardinalityType
    <2>6. w[t] = Square(t[1] - t[2]) /\ w[t] \in Int
        BY <1>4
    <2>7. \A i, j, k \in Int : i * (j * k) = (i * j) * k
        OBVIOUS
    <2> DEFINE n == Count(pairs, 1, t[1])
               m == Count(pairs, 2, t[2])
    <2>8. w[t] * Cardinality({s \in S : g[s] = t}) = w[t] * (n * m)
        BY <2>1, <2>3, <2>4
    <2>9. n \in Int /\ m \in Int
        BY <2>5
    <2> HIDE DEF n, m, w, g, S, T
    <2>10. w[t] * (n * m) = (w[t] * n) * m
        BY <2>6, <2>7, <2>9
    <2> QED
        BY <2>6, <2>8, <2>10 DEF n, m
<1>6. SumOf([s \in S |-> w[g[s]]]) = SumOf([t \in T |-> w[t] * Cardinality({s \in S : g[s] = t})])
    <2> HIDE DEF S, T, g, w
    <2> QED
        BY <1>2, <1>3, <1>4, SumByValue
<1>7. [s \in S |-> w[g[s]]] = [c \in (DOMAIN pairs) \X (DOMAIN pairs) |-> Square(pairs[c[1]][1] - pairs[c[2]][2])]
    <2>1. DOMAIN pairs = D
        BY DEF Scored
    <2>2. ASSUME NEW s \in S  PROVE w[g[s]] = Square(pairs[s[1]][1] - pairs[s[2]][2])
        BY <1>3
    <2> QED
        BY <2>1, <2>2
<1>8. [t \in T |-> w[t] * Cardinality({s \in S : g[s] = t})]
         = [c \in (1..4) \X (1..4) |-> Square(c[1] - c[2]) * Count(pairs, 1, c[1]) * Count(pairs, 2, c[2])]
    BY <1>5
<1>9. Expected(pairs) = SumOf([c \in (1..4) \X (1..4) |-> Square(c[1] - c[2]) * Count(pairs, 1, c[1]) * Count(pairs, 2, c[2])])
    BY SumIsSumOf DEF Expected
<1> HIDE DEF S, T, g, w
<1> QED
    BY <1>6, <1>7, <1>8, <1>9 DEF Apart

\* What kappa says of any pairs of scores.
LEMMA KappaOf ==
    ASSUME NEW D, IsFiniteSet(D), NEW pairs \in Scored(D)
    PROVE  /\ Kappa(pairs) = None <=> \A c \in D \X D : pairs[c[1]][1] = pairs[c[2]][2]
           /\ Kappa(pairs) # None =>
                /\ Kappa(pairs)[2] = Apart(pairs) /\ Kappa(pairs)[1] <= Kappa(pairs)[2]
                /\ Kappa(pairs)[1] = Kappa(pairs)[2] <=> \A p \in D : pairs[p][1] = pairs[p][2]
<1> DEFINE f == [c \in D \X D |-> Square(pairs[c[1]][1] - pairs[c[2]][2])]
           h == [p \in D |-> Square(pairs[p][1] - pairs[p][2])]
           e == Expected(pairs)
           o == Observed(pairs)
           n == Cardinality(DOMAIN pairs)
<1>0. DOMAIN pairs = D /\ \A p \in D : pairs[p][1] \in Int /\ pairs[p][2] \in Int
    BY DEF Scored
<1>1. /\ e = SumOf(f)
      /\ o = SumOf(h)
    BY <1>0, ExpectedIsApart, SumIsSumOf DEF Apart, Observed
<1>2. e \in Nat /\ (e = 0 <=> \A c \in D \X D : pairs[c[1]][1] = pairs[c[2]][2])
    <2>1. ASSUME NEW c \in D \X D
          PROVE  f[c] \in Nat /\ (f[c] = 0 <=> pairs[c[1]][1] = pairs[c[2]][2])
        <3>1. pairs[c[1]][1] \in Int /\ pairs[c[2]][2] \in Int
            BY <1>0
        <3>2. f[c] = Square(pairs[c[1]][1] - pairs[c[2]][2])
            OBVIOUS
        <3> QED
            BY <3>1, <3>2, Squares
    <2>2. IsFiniteSet(DOMAIN f) /\ f \in [DOMAIN f -> Nat] /\ DOMAIN f = D \X D
        BY <2>1, FS_Product
    <2> HIDE DEF f, e
    <2>3. SumOf(f) \in Nat /\ (SumOf(f) = 0 <=> \A c \in D \X D : f[c] = 0)
        BY <2>2, SumNat
    <2> QED
        BY <1>1, <2>1, <2>3
<1>3. o \in Nat /\ (o = 0 <=> \A p \in D : pairs[p][1] = pairs[p][2])
    <2>1. ASSUME NEW p \in D
          PROVE  h[p] \in Nat /\ (h[p] = 0 <=> pairs[p][1] = pairs[p][2])
        BY <1>0, Squares
    <2>2. IsFiniteSet(DOMAIN h) /\ h \in [DOMAIN h -> Nat] /\ DOMAIN h = D
        BY <2>1
    <2> HIDE DEF h, o
    <2>3. SumOf(h) \in Nat /\ (SumOf(h) = 0 <=> \A p \in D : h[p] = 0)
        BY <2>2, SumNat
    <2> QED
        BY <1>1, <2>1, <2>3
<1>4. n \in Nat /\ (n = 0 <=> D = {})
    BY <1>0, FS_CardinalityType, FS_EmptySet
<1>5. Kappa(pairs) = IF D = {} \/ e = 0 THEN None ELSE <<e - n * o, e>>
    BY <1>0 DEF Kappa
<1>6. e = Apart(pairs)
    BY ExpectedIsApart
<1>7. D = {} => e = 0
    BY <1>2
<1>8. \A i, j \in Nat : i * j \in Nat /\ (i # 0 => (i * j = 0 <=> j = 0))
    OBVIOUS
<1> HIDE DEF e, o, n
<1>9. n * o \in Nat /\ (D # {} => (n * o = 0 <=> o = 0))
    BY <1>3, <1>4, <1>8
<1>10. <<e - n * o, e>> # None
    BY <1>2, <1>9, NoneAssumption
<1>11. Kappa(pairs) = None <=> e = 0
    BY <1>5, <1>7, <1>10
<1>12. ASSUME Kappa(pairs) # None  PROVE Kappa(pairs)[1] = e - n * o /\ Kappa(pairs)[2] = e /\ D # {}
    BY <1>5, <1>12
<1>13. e - n * o <= e /\ (e - n * o = e <=> n * o = 0)
    BY <1>2, <1>9
<1> QED
    BY <1>2, <1>3, <1>6, <1>9, <1>11, <1>12, <1>13

\* What the agreement table shows is agreement, for any number of runs, raters
\* and sessions (summarize_human_agreement, quadratic_weighted_kappa): pairs are
\* of two raters, kappa is undefined exactly when no scores differ, 1 exactly
\* when every pair agrees, and relates the disagreement within the pairs to that
\* between all left and all right scores.
THEOREM KappaIsAgreement == Spec => []KappaMeasuresAgreement
<1>1. RowsTyped => KappaMeasuresAgreement
    <2> SUFFICES ASSUME RowsTyped  PROVE KappaMeasuresAgreement
        OBVIOUS
    <2>1. ASSUME NEW d \in Dimension
          PROVE  LET pairs == Pairs(d)
                     kappa == Kappa(pairs)
                     all   == (DOMAIN pairs) \X (DOMAIN pairs)
                     apart == SumOver([c \in all |-> Square(pairs[c[1]][1] - pairs[c[2]][2])])
                     agree == \A p \in DOMAIN pairs : pairs[p][1] = pairs[p][2]
                 IN  /\ \A p \in DOMAIN pairs : \A x, y \in Items(p, d) : x # y => x.rater # y.rater
                     /\ kappa = None <=> \A c \in all : pairs[c[1]][1] = pairs[c[2]][2]
                     /\ kappa # None =>
                          /\ kappa[2] = apart /\ kappa[1] <= kappa[2]
                          /\ kappa[1] = kappa[2] <=> agree
        <3> DEFINE P == Pairs(d)
                   D == Paired(d)
        <3>1. IsFiniteSet(D) /\ P \in Scored(D) /\ DOMAIN P = D
              /\ \A p \in D : \A x, y \in Items(p, d) : x # y => x.rater # y.rater
            BY PairsTyped DEF Scored
        <3>2. Apart(P) = SumOver([c \in (DOMAIN P) \X (DOMAIN P) |-> Square(P[c[1]][1] - P[c[2]][2])])
            BY SumIsSumOf DEF Apart
        <3> HIDE DEF P, D
        <3>3. /\ Kappa(P) = None <=> \A c \in D \X D : P[c[1]][1] = P[c[2]][2]
              /\ Kappa(P) # None =>
                   /\ Kappa(P)[2] = Apart(P) /\ Kappa(P)[1] <= Kappa(P)[2]
                   /\ Kappa(P)[1] = Kappa(P)[2] <=> \A p \in D : P[p][1] = P[p][2]
            BY <3>1, KappaOf
        <3> QED
            BY <3>1, <3>2, <3>3 DEF P
    <2> QED
        BY <2>1 DEF KappaMeasuresAgreement
<1> QED
    BY <1>1, RowsInv, PTL

\* The gate is passed only by two runs or more that two raters rated, in every
\* dimension, with more than one score (agreement_gate, _render_human_agreement).
THEOREM EarnedGate == Spec => []GateIsEarned
<1>1. RowsTyped => GateIsEarned
    <2> SUFFICES ASSUME RowsTyped, GatePassed, NEW d \in Dimension
                 PROVE  /\ Cardinality({run \in Run : Cardinality(Raters(Items(run, d))) = 2}) >= 2
                        /\ Cardinality({x.score : x \in {y \in ratings : y.dimension = d}}) > 1
        BY DEF GateIsEarned
    <2> DEFINE P == Pairs(d)
               D == Paired(d)
               both   == {run \in Run : Cardinality(Raters(Items(run, d))) = 2}
               scores == {x.score : x \in {y \in ratings : y.dimension = d}}
    <2>1. IsFiniteSet(D) /\ P \in Scored(D) /\ DOMAIN P = D
          /\ \A p \in D, i \in 1..2 : \E x \in Items(p, d) : P[p][i] = x.score
        BY PairsTyped DEF Scored
    <2>2. Cardinality(DOMAIN P) >= 2 /\ Kappa(P) # None
        BY DEF GatePassed, Passes
    <2>3. Cardinality(both) >= 2
        <3>1. D \subseteq both
            BY DEF Paired
        <3>2. both \subseteq {x.run : x \in ratings}
            <4> SUFFICES ASSUME NEW run \in both  PROVE run \in {x.run : x \in ratings}
                OBVIOUS
            <4>1. Items(run, d) # {}
                <5>1. Raters({}) = {} /\ Cardinality({}) # 2
                    BY FS_EmptySet DEF Raters
                <5> QED
                    BY <5>1
            <4> QED
                BY <4>1 DEF Items, Of
        <3>3. IsFiniteSet(both)
            BY <3>2, RatedFinite, FS_Subset
        <3>4. Cardinality(D) <= Cardinality(both) /\ Cardinality(D) \in Nat /\ Cardinality(both) \in Nat
            BY <2>1, <3>1, <3>3, FS_Subset, FS_CardinalityType
        <3>5. Cardinality(D) >= 2
            BY <2>1, <2>2
        <3> HIDE DEF D, both
        <3> QED
            BY <3>4, <3>5
    <2>4. Cardinality(scores) > 1
        <3>1. ~ \A c \in D \X D : P[c[1]][1] = P[c[2]][2]
            <4> HIDE DEF P, D
            <4> QED
                BY <2>1, <2>2, KappaOf
        <3>2. PICK p \in D, q \in D : P[p][1] # P[q][2]
            BY <3>1
        <3>3. P[p][1] \in scores /\ P[q][2] \in scores
            BY <2>1 DEF Items, Of
        <3>4. IsFiniteSet(scores)
            <4>1. scores \subseteq 1..4
                BY DEF RowsTyped
            <4>2. 1 \in Int /\ 4 \in Int
                OBVIOUS
            <4>3. IsFiniteSet(1..4)
                BY <4>2, FS_Interval
            <4> QED
                BY <4>1, <4>3, FS_Subset
        <3> DEFINE a == P[p][1]
                   b == P[q][2]
        <3>5. a # b /\ {a, b} \subseteq scores
            BY <3>2, <3>3
        <3> HIDE DEF a, b, scores
        <3>6. IsFiniteSet({a}) /\ Cardinality({a}) = 1
            BY FS_Singleton
        <3>7. {a} \cup {b} \subseteq scores /\ Cardinality({a} \cup {b}) = 1 + 1
            BY <3>5, <3>6, FS_AddElement
        <3>8. Cardinality({a} \cup {b}) <= Cardinality(scores) /\ Cardinality(scores) \in Nat
            BY <3>4, <3>7, FS_Subset, FS_CardinalityType
        <3> QED
            BY <3>7, <3>8
    <2> QED
        BY <2>3, <2>4
<1> QED
    BY <1>1, RowsInv, PTL
=============================================================================
