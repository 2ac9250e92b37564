---------------------------- MODULE FoldTheorems ----------------------------
\* What the folds of the community modules compute, for every finite domain and
\* every sequence.
\*
\* The sum that FoldFunction makes of a function's values: that it is a number
\* at all, that the order of adding does not matter, and how it follows a change
\* of the function.  The community module defines the fold by recursion over the
\* subsets of the domain.  That such a function exists, and what it is, is shown
\* by induction over the number of elements; the induction rests on the least
\* element of a set of natural numbers.
\*
\* The sequences that FoldLeft and FlattenSeq make, step by step: the fold is the
\* last of its results after each place, and a flattened sequence has the
\* elements of its parts, none twice if no part and no two parts repeat one.
EXTENDS Integers, FiniteSets, Functions, SequencesExt, FiniteSetTheorems, SequenceTheorems, TLAPS

-----------------------------------------------------------------------------
(* Sums *)

\* Every set of natural numbers that is not empty has a least element.
LEMMA Least ==
    ASSUME NEW T \in SUBSET Nat, T # {}
    PROVE  \E n \in T : \A m \in T : n <= m
<1> DEFINE R == OpToRel(<, Nat)
<1>1. IsWellFoundedOn(R, Nat)
    BY NatLessThanWellFounded
<1>2. \A m, n \in Nat : m < n => <<m, n>> \in R
    BY DEF OpToRel
<1> HIDE DEF R
<1>3. PICK n \in T : \A m \in T : ~(<<m, n>> \in R)
    BY <1>1, WFMin
<1>4. \A m \in T : ~(m < n)
    BY <1>2, <1>3
<1>5. n \in Nat /\ \A m \in T : m \in Nat
    OBVIOUS
<1> QED
    BY <1>4, <1>5

\* A set that has 0, and with every number the next, has all of them.
LEMMA SetInduction ==
    ASSUME NEW S, 0 \in S, \A n \in Nat : n \in S => n + 1 \in S
    PROVE  Nat \subseteq S
<1> DEFINE T == Nat \ S
<1>1. CASE T # {}
    <2>1. PICK n \in T : \A m \in T : n <= m
        BY <1>1, Least
    <2>2. n # 0 /\ n \in Nat /\ n - 1 \in Nat
        BY <2>1
    <2>3. n - 1 \in S
        BY <2>1, <2>2
    <2> QED
        BY <2>1, <2>2, <2>3
<1> QED
    BY <1>1

\* What holds of the empty set, and with one element more, holds of a finite set.
\* G are the subsets of which it holds.
LEMMA FiniteInduction ==
    ASSUME NEW S, IsFiniteSet(S), NEW G, {} \in G,
           \A U \in SUBSET S : \A x \in S \ U : U \in G => U \cup {x} \in G
    PROVE  S \in G
<1> DEFINE N == {n \in Nat : \A U \in SUBSET S : Cardinality(U) = n => U \in G}
<1>1. \A U \in SUBSET S : IsFiniteSet(U) /\ Cardinality(U) \in Nat
    BY FS_Subset, FS_CardinalityType
<1>2. 0 \in N
    BY <1>1, FS_EmptySet
<1>3. ASSUME NEW n \in Nat, n \in N  PROVE n + 1 \in N
    <2> SUFFICES ASSUME NEW U \in SUBSET S, Cardinality(U) = n + 1  PROVE U \in G
        OBVIOUS
    <2>1. U # {}
        <3>1. n + 1 # 0 /\ Cardinality({}) = 0
            BY FS_EmptySet
        <3> QED
            BY <3>1
    <2>2. PICK x \in U : TRUE
        BY <2>1
    <2>3. U \ {x} \in SUBSET S /\ Cardinality(U \ {x}) = n
        <3>1. IsFiniteSet(U)
            BY <1>1
        <3>2. Cardinality(U \ {x}) = Cardinality(U) - 1
            BY <3>1, FS_RemoveElement
        <3>3. (n + 1) - 1 = n
            OBVIOUS
        <3> QED
            BY <3>2, <3>3
    <2>4. U \ {x} \in G
        BY <1>3, <2>3
    <2>5. x \in S \ (U \ {x}) /\ (U \ {x}) \cup {x} = U
        OBVIOUS
    <2> QED
        BY <2>3, <2>4, <2>5
<1>4. Nat \subseteq N
    <2> HIDE DEF N
    <2> QED
        BY <1>2, <1>3, SetInduction
<1> QED
    BY <1>1, <1>4
-----------------------------------------------------------------------------
\* Any element of a set, and the sums over the subsets of the domain.
Some(s) == CHOOSE x \in s : TRUE

Equation(f, h, s) == IF s = {} THEN 0 ELSE f[Some(s)] + h[s \ {Some(s)}]

Partial(f) == CHOOSE h : h = [s \in SUBSET (DOMAIN f) |-> Equation(f, h, s)]

SumOf(f) == FoldFunction(+, 0, f)

\* The domain is finite and the values are numbers.
Summable(f) == IsFiniteSet(DOMAIN f) /\ f \in [DOMAIN f -> Int]

\* The sum of a function is its partial sum over the whole domain.
LEMMA SumIsPartial ==
    ASSUME NEW f
    PROVE  SumOf(f) = Partial(f)[DOMAIN f]
BY Zenon DEF SumOf, FoldFunction, FoldFunctionOnSet, MapThenFoldSet, Partial, Equation, Some

\* What is chosen from a set is in it.
LEMMA SomeIn == ASSUME NEW s, s # {} PROVE Some(s) \in s
BY DEF Some

\* Subsets of the domain are finite, and smaller without one of their elements.
LEMMA Smaller ==
    ASSUME NEW f, Summable(f), NEW s \in SUBSET (DOMAIN f)
    PROVE  /\ Cardinality(s) \in Nat
           /\ Cardinality(s) = 0 <=> s = {}
           /\ \A x \in s : Cardinality(s \ {x}) = Cardinality(s) - 1
<1>1. IsFiniteSet(s)
    BY FS_Subset DEF Summable
<1> QED
    BY <1>1, FS_CardinalityType, FS_EmptySet, FS_RemoveElement

\* There is a function that adds up, up to any number of elements ...
LEMMA SumsExist ==
    ASSUME NEW f, Summable(f)
    PROVE  \E h : h = [s \in SUBSET (DOMAIN f) |-> Equation(f, h, s)]
<1> DEFINE D == DOMAIN f
           Upto(h, n) == \A s \in SUBSET D : Cardinality(s) <= n => h[s] = Equation(f, h, s)
           S == {n \in Nat : \E h \in [SUBSET D -> Int] : Upto(h, n)}
<1>1. 0 \in S
    <2> DEFINE zero == [s \in SUBSET D |-> 0]
    <2>1. \A s \in SUBSET D : Cardinality(s) <= 0 => s = {}
        BY Smaller
    <2>2. Upto(zero, 0)
        BY <2>1 DEF Equation
    <2>3. zero \in [SUBSET D -> Int]
        OBVIOUS
    <2> HIDE DEF zero, Upto
    <2> QED
        BY <2>2, <2>3
<1>2. ASSUME NEW n \in Nat, n \in S  PROVE n + 1 \in S
    <2>1. PICK h \in [SUBSET D -> Int] : Upto(h, n)
        BY <1>2
    <2> DEFINE g == [s \in SUBSET D |-> IF Cardinality(s) <= n THEN h[s] ELSE Equation(f, h, s)]
    <2>2. \A s \in SUBSET D : g[s] = Equation(f, h, s) \/ g[s] = h[s]
        OBVIOUS
    <2>3. ASSUME NEW s \in SUBSET D  PROVE Equation(f, h, s) \in Int
        <3>1. CASE s = {}
            BY <3>1 DEF Equation
        <3>2. CASE s # {}
            <4>1. Some(s) \in D /\ s \ {Some(s)} \in SUBSET D
                BY <3>2, SomeIn
            <4>2. f[Some(s)] \in Int /\ h[s \ {Some(s)}] \in Int
                BY <4>1 DEF Summable
            <4> QED
                BY <3>2, <4>2 DEF Equation
        <3> QED
            BY <3>1, <3>2
    <2>4. g \in [SUBSET D -> Int]
        BY <2>3
    <2>5. ASSUME NEW s \in SUBSET D, Cardinality(s) <= n + 1  PROVE g[s] = Equation(f, g, s)
        <3>1. g[s] = Equation(f, h, s)
            BY <2>1
        <3>2. CASE s = {}
            BY <3>1, <3>2 DEF Equation
        <3>3. CASE s # {}
            <4>1. Some(s) \in s /\ s \ {Some(s)} \in SUBSET D
                BY <3>3, SomeIn
            <4>2. Cardinality(s \ {Some(s)}) <= n
                BY <2>5, <4>1, Smaller
            <4>3. g[s \ {Some(s)}] = h[s \ {Some(s)}]
                BY <4>1, <4>2
            <4> HIDE DEF g
            <4> QED
                BY <3>1, <3>3, <4>3 DEF Equation
        <3> QED
            BY <3>2, <3>3
    <2> HIDE DEF g
    <2> QED
        BY <2>4, <2>5
<1>3. Nat \subseteq S
    <2> HIDE DEF S
    <2> QED
        BY <1>1, <1>2, SetInduction
<1>4. Cardinality(D) \in Nat /\ \A s \in SUBSET D : Cardinality(s) <= Cardinality(D)
    <2>1. IsFiniteSet(D)
        BY DEF Summable
    <2> QED
        BY <2>1, FS_CardinalityType, FS_Subset
<1>5. PICK h \in [SUBSET D -> Int] : Upto(h, Cardinality(D))
    BY <1>3, <1>4
<1>6. \A s \in SUBSET D : h[s] = Equation(f, h, s)
    BY <1>4, <1>5
<1>7. h = [s \in SUBSET D |-> Equation(f, h, s)]
    BY <1>6
<1> QED
    BY <1>7

\* ... so the one that the fold chooses does.
LEMMA PartialAdds ==
    ASSUME NEW f, Summable(f), NEW s \in SUBSET (DOMAIN f)
    PROVE  Partial(f)[s] = Equation(f, Partial(f), s)
<1>1. Partial(f) = [t \in SUBSET (DOMAIN f) |-> Equation(f, Partial(f), t)]
    BY SumsExist DEF Partial
<1> DEFINE h == Partial(f)
<1>2. h = [t \in SUBSET (DOMAIN f) |-> Equation(f, h, t)]
    BY <1>1
<1> HIDE DEF h
<1>3. h[s] = Equation(f, h, s)
    BY <1>2
<1> QED
    BY <1>3 DEF h

\* Partial sums are numbers.
LEMMA PartialType ==
    ASSUME NEW f, Summable(f)
    PROVE  \A s \in SUBSET (DOMAIN f) : Partial(f)[s] \in Int
<1> DEFINE D == DOMAIN f
           S == {n \in Nat : \A s \in SUBSET D : Cardinality(s) = n => Partial(f)[s] \in Int}
<1>1. ASSUME NEW s \in SUBSET D, s # {} => Partial(f)[s \ {Some(s)}] \in Int
      PROVE  Partial(f)[s] \in Int
    <2>1. Partial(f)[s] = Equation(f, Partial(f), s)
        BY PartialAdds
    <2>2. CASE s = {}
        BY <2>1, <2>2 DEF Equation
    <2>3. CASE s # {}
        <3>1. f[Some(s)] \in Int
            BY <2>3, SomeIn DEF Summable
        <3> QED
            BY <1>1, <2>1, <2>3, <3>1 DEF Equation
    <2> QED
        BY <2>2, <2>3
<1>2. 0 \in S
    BY <1>1, Smaller
<1>3. ASSUME NEW n \in Nat, n \in S  PROVE n + 1 \in S
    <2> SUFFICES ASSUME NEW s \in SUBSET D, Cardinality(s) = n + 1  PROVE Partial(f)[s] \in Int
        OBVIOUS
    <2>1. s # {} /\ s \ {Some(s)} \in SUBSET D /\ Cardinality(s \ {Some(s)}) = n
        BY Smaller, SomeIn
    <2>2. Partial(f)[s \ {Some(s)}] \in Int
        BY <1>3, <2>1
    <2> QED
        BY <1>1, <2>2
<1>4. Nat \subseteq S
    <2> HIDE DEF S
    <2> QED
        BY <1>2, <1>3, SetInduction
<1> QED
    BY <1>4, Smaller

\* Whichever element is added last.
LEMMA PartialWithout ==
    ASSUME NEW f, Summable(f), NEW s \in SUBSET (DOMAIN f), NEW x \in s
    PROVE  Partial(f)[s] = f[x] + Partial(f)[s \ {x}]
<1> DEFINE D == DOMAIN f
           P == Partial(f)
           S == {n \in Nat : \A t \in SUBSET D : Cardinality(t) = n =>
                                \A y \in t : P[t] = f[y] + P[t \ {y}]}
<1>1. 0 \in S
    BY Smaller
<1>2. ASSUME NEW n \in Nat, n \in S  PROVE n + 1 \in S
    <2> SUFFICES ASSUME NEW t \in SUBSET D, Cardinality(t) = n + 1, NEW y \in t
                 PROVE  P[t] = f[y] + P[t \ {y}]
        OBVIOUS
    <2> DEFINE c == Some(t)
    <2>1. c \in t /\ t # {}
        BY SomeIn
    <2>2. P[t] = f[c] + P[t \ {c}]
        BY <2>1, PartialAdds DEF Equation
    <2>3. CASE y = c
        BY <2>2, <2>3
    <2>4. CASE y # c
        <3>1. /\ t \ {c} \in SUBSET D /\ Cardinality(t \ {c}) = n /\ y \in t \ {c}
              /\ t \ {y} \in SUBSET D /\ Cardinality(t \ {y}) = n /\ c \in t \ {y}
            BY <2>1, <2>4, Smaller
        <3>2. P[t \ {c}] = f[y] + P[(t \ {c}) \ {y}]
            BY <1>2, <3>1
        <3>3. P[t \ {y}] = f[c] + P[(t \ {y}) \ {c}]
            BY <1>2, <3>1
        <3>4. (t \ {c}) \ {y} = (t \ {y}) \ {c}
            OBVIOUS
        <3>5. f[y] \in Int /\ f[c] \in Int /\ P[(t \ {y}) \ {c}] \in Int
            BY <2>1, PartialType DEF Summable
        <3> DEFINE q == P[(t \ {y}) \ {c}]
        <3>6. P[t] = f[c] + (f[y] + q) /\ P[t \ {y}] = f[c] + q
            BY <2>2, <3>2, <3>3, <3>4
        <3>7. q \in Int
            BY <3>5
        <3> HIDE DEF P, c, q
        <3> QED
            BY <3>5, <3>6, <3>7
    <2> HIDE DEF P, c
    <2> QED
        BY <2>3, <2>4
<1>3. Nat \subseteq S
    <2> HIDE DEF S
    <2> QED
        BY <1>1, <1>2, SetInduction
<1> QED
    BY <1>3, Smaller

\* Functions that agree on a set have the same sum over it.
LEMMA PartialAgree ==
    ASSUME NEW f, Summable(f), NEW g, Summable(g), DOMAIN g = DOMAIN f,
           NEW s \in SUBSET (DOMAIN f), \A x \in s : g[x] = f[x]
    PROVE  Partial(g)[s] = Partial(f)[s]
<1> DEFINE D == DOMAIN f
           S == {n \in Nat : \A t \in SUBSET s : Cardinality(t) = n => Partial(g)[t] = Partial(f)[t]}
<1>1. 0 \in S
    <2> SUFFICES ASSUME NEW t \in SUBSET s, Cardinality(t) = 0  PROVE Partial(g)[t] = Partial(f)[t]
        OBVIOUS
    <2>1. t = {} /\ t \in SUBSET D
        BY Smaller
    <2>2. Partial(g)[t] = Equation(g, Partial(g), t) /\ Partial(f)[t] = Equation(f, Partial(f), t)
        BY <2>1, PartialAdds
    <2> QED
        BY <2>1, <2>2 DEF Equation
<1>2. ASSUME NEW n \in Nat, n \in S  PROVE n + 1 \in S
    <2> SUFFICES ASSUME NEW t \in SUBSET s, Cardinality(t) = n + 1
                 PROVE  Partial(g)[t] = Partial(f)[t]
        OBVIOUS
    <2>1. PICK x \in t : TRUE
        BY Smaller
    <2>2. Cardinality(t \ {x}) = n /\ t \ {x} \in SUBSET s
        BY Smaller
    <2>3. Partial(f)[t] = f[x] + Partial(f)[t \ {x}] /\ Partial(g)[t] = g[x] + Partial(g)[t \ {x}]
        BY PartialWithout
    <2>4. Partial(g)[t \ {x}] = Partial(f)[t \ {x}] /\ g[x] = f[x]
        BY <1>2, <2>2
    <2> QED
        BY <2>3, <2>4
<1>3. Nat \subseteq S
    <2> HIDE DEF S
    <2> QED
        BY <1>1, <1>2, SetInduction
<1> QED
    BY <1>3, Smaller
-----------------------------------------------------------------------------
\* A sum of numbers is a number.
THEOREM SumType ==
    ASSUME NEW f, Summable(f)
    PROVE  SumOf(f) \in Int
BY PartialType, SumIsPartial

\* A change of one value changes the sum by as much.
THEOREM SumChange ==
    ASSUME NEW f, Summable(f), NEW g, Summable(g), DOMAIN g = DOMAIN f,
           NEW x \in DOMAIN f, \A y \in DOMAIN f : y # x => g[y] = f[y]
    PROVE  SumOf(g) = SumOf(f) + (g[x] - f[x])
<1> DEFINE D == DOMAIN f
<1>0. D \in SUBSET (DOMAIN f) /\ D \in SUBSET (DOMAIN g) /\ x \in D
    OBVIOUS
<1>1. Partial(f)[D] = f[x] + Partial(f)[D \ {x}]
    <2> HIDE DEF D
    <2> QED
        BY <1>0, PartialWithout
<1>2. Partial(g)[D] = g[x] + Partial(g)[D \ {x}]
    <2> HIDE DEF D
    <2> QED
        BY <1>0, PartialWithout
<1>3. Partial(g)[D \ {x}] = Partial(f)[D \ {x}]
    BY PartialAgree
<1>4. f[x] \in Int /\ g[x] \in Int /\ Partial(f)[D \ {x}] \in Int
    BY PartialType DEF Summable
<1>5. SumOf(f) = Partial(f)[D] /\ SumOf(g) = Partial(g)[D]
    BY SumIsPartial
<1> HIDE DEF D
<1> QED
    BY <1>1, <1>2, <1>3, <1>4, <1>5

\* Nothing adds up to nothing.
THEOREM SumZero ==
    ASSUME NEW f, IsFiniteSet(DOMAIN f), f = [x \in DOMAIN f |-> 0]
    PROVE  SumOf(f) = 0
<1> DEFINE D == DOMAIN f
           S == {n \in Nat : \A t \in SUBSET D : Cardinality(t) = n => Partial(f)[t] = 0}
<1>0. Summable(f)
    BY DEF Summable
<1>1. 0 \in S
    BY <1>0, Smaller, PartialAdds DEF Equation
<1>2. ASSUME NEW n \in Nat, n \in S  PROVE n + 1 \in S
    <2> SUFFICES ASSUME NEW t \in SUBSET D, Cardinality(t) = n + 1  PROVE Partial(f)[t] = 0
        OBVIOUS
    <2>1. PICK x \in t : TRUE
        BY <1>0, Smaller
    <2>2. Cardinality(t \ {x}) = n /\ t \ {x} \in SUBSET D
        BY <1>0, Smaller
    <2>3. Partial(f)[t] = f[x] + Partial(f)[t \ {x}]
        BY <1>0, PartialWithout
    <2>4. Partial(f)[t \ {x}] = 0 /\ f[x] = 0
        BY <1>2, <2>2
    <2> QED
        BY <2>3, <2>4
<1>3. Nat \subseteq S
    <2> HIDE DEF S
    <2> QED
        BY <1>1, <1>2, SetInduction
<1>4. Partial(f)[D] = 0
    BY <1>0, <1>3, Smaller
<1> QED
    BY <1>4, SumIsPartial

\* The sum over a part of the domain, an element at a time.
Mask(f, U) == [x \in DOMAIN f |-> IF x \in U THEN f[x] ELSE 0]

\* A function with some values left out is summable as well.
LEMMA MaskSummable ==
    ASSUME NEW f, Summable(f), NEW U
    PROVE  Summable(Mask(f, U)) /\ DOMAIN Mask(f, U) = DOMAIN f
BY DEF Mask, Summable

\* With every value left out the sum is 0.
LEMMA MaskNone == ASSUME NEW f, Summable(f)  PROVE SumOf(Mask(f, {})) = 0
<1>1. Mask(f, {}) = [x \in DOMAIN Mask(f, {}) |-> 0] /\ IsFiniteSet(DOMAIN Mask(f, {}))
    BY DEF Mask, Summable
<1> QED
    BY <1>1, SumZero

\* A value let in adds to the sum.
LEMMA MaskMore ==
    ASSUME NEW f, Summable(f), NEW U \in SUBSET (DOMAIN f), NEW x \in (DOMAIN f) \ U
    PROVE  SumOf(Mask(f, U \cup {x})) = SumOf(Mask(f, U)) + f[x]
<1> DEFINE g == Mask(f, U)
           h == Mask(f, U \cup {x})
<1>1. Summable(g) /\ Summable(h) /\ DOMAIN g = DOMAIN f /\ DOMAIN h = DOMAIN g
    BY MaskSummable
<1>2. g[x] = 0 /\ h[x] = f[x] /\ \A y \in DOMAIN g : y # x => h[y] = g[y]
    BY DEF Mask
<1>3. f[x] \in Int /\ SumOf(g) \in Int
    BY <1>1, SumType DEF Summable
<1> HIDE DEF g, h
<1>4. SumOf(h) = SumOf(g) + (h[x] - g[x])
    BY <1>1, <1>2, SumChange
<1>5. SumOf(h) = SumOf(g) + (f[x] - 0)
    BY <1>2, <1>4
<1>6. SumOf(h) = SumOf(g) + f[x]
    BY <1>3, <1>5
<1> QED
    BY <1>6 DEF g, h

\* With nothing left out it is the function.
LEMMA MaskAll == ASSUME NEW f, Summable(f)  PROVE Mask(f, DOMAIN f) = f
BY DEF Mask, Summable

\* A sum of natural numbers is one, and is 0 only if all of them are.
THEOREM SumNat ==
    ASSUME NEW f, IsFiniteSet(DOMAIN f), f \in [DOMAIN f -> Nat]
    PROVE  /\ SumOf(f) \in Nat
           /\ SumOf(f) = 0 <=> \A x \in DOMAIN f : f[x] = 0
<1> DEFINE D == DOMAIN f
           Good(U) == SumOf(Mask(f, U)) \in Nat /\ (SumOf(Mask(f, U)) = 0 <=> \A x \in U : f[x] = 0)
           G == {U \in SUBSET D : Good(U)}
<1>0. Summable(f)
    BY DEF Summable
<1>1. {} \in G
    BY <1>0, MaskNone
<1>2. ASSUME NEW U \in SUBSET D, NEW x \in D \ U, U \in G  PROVE U \cup {x} \in G
    <2>1. SumOf(Mask(f, U \cup {x})) = SumOf(Mask(f, U)) + f[x]
        BY <1>0, MaskMore
    <2>2. f[x] \in Nat /\ Good(U)
        BY <1>2
    <2> QED
        BY <2>1, <2>2
<1>3. D \in G
    <2> HIDE DEF G
    <2> QED
        BY <1>1, <1>2, FiniteInduction
<1> QED
    BY <1>0, <1>3, MaskAll

\* Summands that depend on a property can be added up by it: each value as often
\* as it occurs.
THEOREM SumByValue ==
    ASSUME NEW S, IsFiniteSet(S), NEW T, IsFiniteSet(T), NEW g \in [S -> T], NEW w \in [T -> Int]
    PROVE  SumOf([s \in S |-> w[g[s]]]) = SumOf([t \in T |-> w[t] * Cardinality({s \in S : g[s] = t})])
<1> DEFINE f == [s \in S |-> w[g[s]]]
           At(U, t) == {s \in U : g[s] = t}
           h(U) == [t \in T |-> w[t] * Cardinality(At(U, t))]
           G == {U \in SUBSET S : SumOf(Mask(f, U)) = SumOf(h(U))}
<1>1. Summable(f) /\ DOMAIN f = S
    BY DEF Summable
<1>2. ASSUME NEW U \in SUBSET S, NEW t \in T  PROVE IsFiniteSet(At(U, t)) /\ Cardinality(At(U, t)) \in Nat
    <2>1. At(U, t) \subseteq S
        OBVIOUS
    <2> QED
        BY <2>1, FS_Subset, FS_CardinalityType
<1>3. ASSUME NEW U \in SUBSET S  PROVE Summable(h(U)) /\ DOMAIN h(U) = T
    <2>1. ASSUME NEW t \in T  PROVE w[t] \in Int /\ Cardinality(At(U, t)) \in Int
        <3>1. Cardinality(At(U, t)) \in Nat
            BY <1>2
        <3> HIDE DEF At
        <3> QED
            BY <3>1
    <2>2. \A t \in T : w[t] * Cardinality(At(U, t)) \in Int
        <3> HIDE DEF At
        <3> QED
            BY <2>1
    <2> QED
        BY <2>2 DEF Summable
<1>4. {} \in G
    <2>1. \A t \in T : At({}, t) = {} /\ w[t] * 0 = 0
        OBVIOUS
    <2>2. h({}) = [t \in DOMAIN h({}) |-> 0] /\ IsFiniteSet(DOMAIN h({}))
        BY <2>1, FS_EmptySet
    <2>3. SumOf(h({})) = 0
        <3> HIDE DEF h
        <3> QED
            BY <2>2, SumZero
    <2> QED
        BY <1>1, <2>3, MaskNone
<1>5. ASSUME NEW U \in SUBSET S, NEW x \in S \ U, U \in G  PROVE U \cup {x} \in G
    <2> DEFINE V == U \cup {x}
               c == g[x]
               k == Cardinality(At(U, c))
    <2>1. SumOf(Mask(f, V)) = SumOf(Mask(f, U)) + w[c]
        BY <1>1, MaskMore
    <2>2. c \in T /\ V \in SUBSET S
        OBVIOUS
    <2>3. At(V, c) = At(U, c) \cup {x} /\ x \notin At(U, c) /\ \A t \in T : t # c => At(V, t) = At(U, t)
        OBVIOUS
    <2>4. Cardinality(At(V, c)) = k + 1
        <3>1. IsFiniteSet(At(U, c))
            BY <1>2, <2>2
        <3> HIDE DEF At, V, c
        <3> QED
            BY <2>3, <3>1, FS_AddElement
    <2>5. h(V)[c] = w[c] * (k + 1) /\ h(U)[c] = w[c] * k /\ \A t \in T : t # c => h(V)[t] = h(U)[t]
        BY <2>2, <2>3, <2>4
    <2>6. w[c] \in Int /\ k \in Int
        <3>1. Cardinality(At(U, c)) \in Nat
            BY <1>2, <2>2
        <3> HIDE DEF At, c
        <3> QED
            BY <2>2, <3>1
    <2>7. w[c] * (k + 1) - w[c] * k = w[c]
        <3>1. \A i, j \in Int : i * (j + 1) = i * j + i /\ i * j \in Int
            OBVIOUS
        <3> HIDE DEF k, c
        <3>2. w[c] * (k + 1) = w[c] * k + w[c] /\ w[c] * k \in Int
            BY <2>6, <3>1
        <3> QED
            BY <2>6, <3>2
    <2>8. SumOf(h(V)) = SumOf(h(U)) + (h(V)[c] - h(U)[c])
        <3>1. /\ Summable(h(U)) /\ Summable(h(V)) /\ DOMAIN h(U) = T /\ DOMAIN h(V) = DOMAIN h(U)
              /\ c \in DOMAIN h(U) /\ \A t \in DOMAIN h(U) : t # c => h(V)[t] = h(U)[t]
            BY <1>3, <2>2, <2>5
        <3> HIDE DEF h, c, V
        <3> QED
            BY <3>1, SumChange
    <2>9. SumOf(h(V)) = SumOf(h(U)) + w[c]
        BY <2>5, <2>7, <2>8
    <2> QED
        BY <1>5, <2>1, <2>2, <2>9
<1>6. S \in G
    <2> HIDE DEF G
    <2> QED
        BY <1>4, <1>5, FiniteInduction
<1> QED
    BY <1>1, <1>6, MaskAll
-----------------------------------------------------------------------------
(* Folds over sequences *)

\* The greatest element of a set of places.
LEMMA MaxPlace ==
    ASSUME NEW n \in Nat, NEW s \in SUBSET (1..n), s # {}
    PROVE  Max(s) \in s /\ \A y \in s : y <= Max(s)
<1> DEFINE U == {u \in Nat : \A y \in s : y <= u}
<1>1. n \in U /\ U \in SUBSET Nat
  OBVIOUS
<1>2. PICK u \in U : \A v \in U : u <= v
  <2> HIDE DEF U
  <2> QED
    BY <1>1, Least
<1>3. u \in Nat /\ \A y \in s : y \in Nat /\ y <= u /\ y >= 1
  BY <1>2
<1>4. u \in s
  <2>1. SUFFICES ASSUME u \notin s  PROVE FALSE
    OBVIOUS
  <2>2. \A y \in s : y <= u - 1
    BY <1>3, <2>1
  <2>3. u - 1 \in Nat
    <3>1. PICK y \in s : TRUE
      OBVIOUS
    <3>2. u \in Nat /\ y \in Nat /\ y <= u /\ y >= 1
      BY <1>3
    <3> QED
      BY <3>2
  <2>4. u - 1 \in U
    BY <2>2, <2>3
  <2> HIDE DEF U
  <2> QED
    BY <1>2, <1>3, <2>4
<1>5. \E x \in s : \A y \in s : x >= y
  BY <1>3, <1>4
<1>6. Max(s) \in s /\ \A y \in s : Max(s) >= y
  BY <1>5 DEF Max
<1> QED
  BY <1>3, <1>6

\* What a function makes of sets of places if it folds h over them.
Folds(iter, h, base, n) == \A s \in SUBSET (1..n) :
    iter[s] = IF s = {} THEN base ELSE h[<<iter[s \ {Max(s)}], Max(s)>>]

\* A fold over the first n places exists: it is built up place by place, a set
\* with the next place from the set without.
LEMMA Iterated ==
    ASSUME NEW A, NEW base \in A, NEW n \in Nat, NEW h \in [A \X (1..n) -> A]
    PROVE  \E iter \in [SUBSET (1..n) -> A] : Folds(iter, h, base, n)
<1> DEFINE Is(iter, k) == \A s \in SUBSET (1..k) :
                            iter[s] = IF s = {} THEN base ELSE h[<<iter[s \ {Max(s)}], Max(s)>>]
           T == {k \in Nat : k <= n => \E iter \in [SUBSET (1..k) -> A] : Is(iter, k)}
<1>1. 0 \in T
  <2> DEFINE none == [s \in SUBSET (1..0) |-> base]
  <2>1. \A s \in SUBSET (1..0) : s = {}
    OBVIOUS
  <2>2. none \in [SUBSET (1..0) -> A] /\ Is(none, 0)
    BY <2>1
  <2> HIDE DEF none, Is
  <2> QED
    BY <2>2
<1>2. ASSUME NEW k \in Nat, k \in T  PROVE k + 1 \in T
  <2>1. SUFFICES ASSUME k + 1 <= n
                 PROVE  \E iter \in [SUBSET (1..(k + 1)) -> A] : Is(iter, k + 1)
    <3>1. k + 1 \in Nat
      OBVIOUS
    <3> HIDE DEF Is
    <3> QED
      BY <3>1
  <2>2. k <= n
    BY <2>1
  <2>3. PICK iter \in [SUBSET (1..k) -> A] : Is(iter, k)
    BY <1>2, <2>2
  <2> DEFINE next == [s \in SUBSET (1..(k + 1)) |->
                        IF k + 1 \in s THEN h[<<iter[s \ {k + 1}], k + 1>>] ELSE iter[s]]
  <2>4. \A s \in SUBSET (1..(k + 1)) : /\ s \ {k + 1} \in SUBSET (1..k)
                                       /\ k + 1 \notin s => s \in SUBSET (1..k)
    OBVIOUS
  <2>5. k + 1 \in 1..n
    BY <2>1
  <2>6. next \in [SUBSET (1..(k + 1)) -> A]
    <3>1. \A s \in SUBSET (1..k) : iter[s] \in A
      OBVIOUS
    <3>2. \A a \in A : h[<<a, k + 1>>] \in A
      BY <2>5
    <3> QED
      BY <2>4, <3>1, <3>2
  <2>7. ASSUME NEW s \in SUBSET (1..(k + 1))
        PROVE  next[s] = IF s = {} THEN base ELSE h[<<next[s \ {Max(s)}], Max(s)>>]
    <3>1. CASE k + 1 \in s
      <4>1. Max(s) = k + 1
        <5>1. Max(s) \in s /\ k + 1 <= Max(s)
          <6>1. k + 1 \in Nat /\ s # {}
            BY <3>1
          <6> QED
            BY <3>1, <6>1, MaxPlace
        <5>2. Max(s) \in 1..(k + 1)
          BY <5>1
        <5> QED
          BY <5>1, <5>2
      <4>2. next[s \ {k + 1}] = iter[s \ {k + 1}]
        BY <2>4
      <4>3. next[s] = h[<<iter[s \ {k + 1}], k + 1>>]
        BY <3>1
      <4> QED
        BY <3>1, <4>1, <4>2, <4>3
    <3>2. CASE k + 1 \notin s
      <4>1. s \in SUBSET (1..k) /\ next[s] = iter[s]
        BY <2>4, <3>2
      <4>2. iter[s] = IF s = {} THEN base ELSE h[<<iter[s \ {Max(s)}], Max(s)>>]
        BY <2>3, <4>1
      <4>3. k + 1 \notin s \ {Max(s)} /\ s \ {Max(s)} \in SUBSET (1..(k + 1))
        BY <3>2
      <4>4. next[s \ {Max(s)}] = iter[s \ {Max(s)}]
        BY <4>3
      <4> HIDE DEF next
      <4> QED
        BY <4>1, <4>2, <4>4
    <3> QED
      BY <3>1, <3>2
  <2> HIDE DEF next
  <2> QED
    BY <2>6, <2>7
<1>3. Nat \subseteq T
  <2> HIDE DEF T
  <2> QED
    BY <1>1, <1>2, SetInduction
<1>4. n \in T
  <2> HIDE DEF T
  <2> QED
    BY <1>3
<1>5. \E iter \in [SUBSET (1..n) -> A] : Is(iter, n)
  <2>1. n <= n
    OBVIOUS
  <2> HIDE DEF Is
  <2> QED
    BY <1>4, <2>1
<1> QED
  BY <1>5 DEF Folds

\* What such a fold makes of the first places only.
LEMMA IteratedPrefix ==
    ASSUME NEW n \in Nat, NEW i \in 1..n
    PROVE  1..i \in SUBSET (1..n) /\ 1..i # {} /\ Max(1..i) = i /\ (1..i) \ {i} = 1..(i - 1)
<1>1. 1..i \in SUBSET (1..n) /\ i \in 1..i /\ (1..i) \ {i} = 1..(i - 1)
  OBVIOUS
<1>2. Max(1..i) \in 1..i /\ i <= Max(1..i)
  BY <1>1, MaxPlace
<1> QED
  BY <1>1, <1>2

-----------------------------------------------------------------------------
(* Sequences of sequences *)

\* FlattenSeq puts together what a function that adds one sequence after the
\* other puts together.
LEMMA Flattened ==
    ASSUME NEW S, NEW seqs \in Seq(Seq(S)), NEW pre, pre[0] = <<>>,
           \A i \in 1..Len(seqs) : pre[i] = pre[i - 1] \o seqs[i]
    PROVE  /\ FlattenSeq(seqs) = pre[Len(seqs)]
           /\ \A i \in 0..Len(seqs) : pre[i] \in Seq(S)
<1> DEFINE n == Len(seqs)
<1>1. n \in Nat /\ \A i \in 1..n : seqs[i] \in Seq(S)
  OBVIOUS
<1>a. \A i \in 1..n : pre[i] = pre[i - 1] \o seqs[i]
  OBVIOUS
<1>2. \A i \in 0..n : pre[i] \in Seq(S)
  <2> DEFINE T == {k \in Nat : k <= n => pre[k] \in Seq(S)}
  <2>1. 0 \in T
    BY EmptySeq
  <2>2. ASSUME NEW k \in Nat, k \in T  PROVE k + 1 \in T
    <3>1. CASE k + 1 <= n
      <4>1. k + 1 \in 1..n /\ pre[(k + 1) - 1] = pre[k] /\ k <= n
        BY <1>1, <3>1
      <4>2. pre[k + 1] = pre[k] \o seqs[k + 1]
        BY <4>1
      <4>3. pre[k] \in Seq(S) /\ seqs[k + 1] \in Seq(S)
        BY <2>2, <4>1, <1>1
      <4>4. pre[k + 1] \in Seq(S)
        BY <4>2, <4>3, ConcatProperties
      <4> QED
        BY <4>4
    <3> QED
      BY <3>1
  <2>3. Nat \subseteq T
    <3> HIDE DEF T
    <3> QED
      BY <2>1, <2>2, SetInduction
  <2> QED
    BY <1>1, <2>3
<1>3. CASE n = 0
  BY <1>2, <1>3 DEF FlattenSeq
<1>4. CASE n # 0
  <2> DEFINE Is(f) == f = [i \in 1..n |-> IF i = 1 THEN seqs[i] ELSE f[i - 1] \o seqs[i]]
             f == CHOOSE g : Is(g)
             h == [i \in 1..n |-> pre[i]]
  <2>1. Is(h)
    <3>1. ASSUME NEW i \in 1..n
          PROVE  h[i] = IF i = 1 THEN seqs[i] ELSE h[i - 1] \o seqs[i]
      <4>1. CASE i = 1
        <5>1. pre[1] = pre[0] \o seqs[1] /\ seqs[1] \in Seq(S)
          <6>1. 1 - 1 = 0 /\ 1 \in 1..n
            BY <1>1, <4>1
          <6> HIDE DEF n
          <6> QED
            BY <1>1, <1>a, <6>1
        <5>2. <<>> \o seqs[1] = seqs[1]
          BY <5>1, ConcatEmptySeq
        <5> QED
          BY <4>1, <5>1, <5>2
      <4>2. CASE i # 1
        <5>1. i - 1 \in 1..n
          BY <1>1, <4>2
        <5> QED
          BY <4>2, <5>1
      <4> QED
        BY <4>1, <4>2
    <3> QED
      BY <3>1
  <2>2. Is(f)
    BY <2>1
  <2>3. FlattenSeq(seqs) = f[n]
    BY <1>4, Zenon DEF FlattenSeq
  <2> HIDE DEF f
  <2>4. \A i \in 1..n : f[i] = IF i = 1 THEN seqs[i] ELSE f[i - 1] \o seqs[i]
    BY <2>2
  <2> DEFINE T == {k \in Nat : k + 1 <= n => f[k + 1] = pre[k + 1]}
  <2>5. 0 \in T
    <3>1. 1 \in 1..n
      BY <1>1, <1>4
    <3>2. f[1] = h[1]
      BY <2>1, <2>4, <3>1
    <3> QED
      BY <3>1, <3>2
  <2>6. ASSUME NEW k \in Nat, k \in T  PROVE k + 1 \in T
    <3>1. CASE (k + 1) + 1 <= n
      <4>1. (k + 1) + 1 \in 1..n /\ (k + 1) + 1 # 1 /\ ((k + 1) + 1) - 1 = k + 1 /\ k + 1 <= n
        BY <1>1, <3>1
      <4>2. f[(k + 1) + 1] = f[k + 1] \o seqs[(k + 1) + 1]
        BY <2>4, <4>1
      <4>3. pre[(k + 1) + 1] = pre[k + 1] \o seqs[(k + 1) + 1]
        BY <4>1
      <4>4. f[k + 1] = pre[k + 1]
        BY <2>6, <4>1
      <4>5. f[(k + 1) + 1] = pre[(k + 1) + 1]
        BY <4>2, <4>3, <4>4, Zenon
      <4> QED
        BY <4>5
    <3> QED
      BY <3>1
  <2>7. Nat \subseteq T
    <3> HIDE DEF T
    <3> QED
      BY <2>5, <2>6, SetInduction
  <2>8. n - 1 \in Nat /\ (n - 1) + 1 = n
    BY <1>1, <1>4
  <2>9. f[n] = pre[n]
    <3>1. n - 1 \in T
      BY <2>7, <2>8
    <3>2. (n - 1) + 1 <= n
      BY <1>1, <2>8
    <3> QED
      BY <2>8, <3>1, <3>2
  <2> QED
    BY <1>2, <2>3, <2>9
<1> QED
  BY <1>3, <1>4

\* What FlattenSeq has put together after each sequence.
LEMMA FlattenSteps ==
    ASSUME NEW S, NEW seqs \in Seq(Seq(S))
    PROVE  \E pre \in [0..Len(seqs) -> Seq(S)] :
             /\ pre[0] = <<>> /\ \A i \in 1..Len(seqs) : pre[i] = pre[i - 1] \o seqs[i]
             /\ FlattenSeq(seqs) = pre[Len(seqs)]
<1> DEFINE n == Len(seqs)
           h == [p \in Seq(S) \X (1..n) |-> p[1] \o seqs[p[2]]]
<1>1. n \in Nat /\ \A i \in 1..n : seqs[i] \in Seq(S)
  OBVIOUS
<1>2. h \in [Seq(S) \X (1..n) -> Seq(S)] /\ \A p \in Seq(S), i \in 1..n : h[<<p, i>>] = p \o seqs[i]
  <2>1. \A p \in Seq(S), i \in 1..n : p \o seqs[i] \in Seq(S)
    BY <1>1, ConcatProperties
  <2> QED
    BY <2>1
<1>3. <<>> \in Seq(S)
  BY EmptySeq
<1>4. PICK iter \in [SUBSET (1..n) -> Seq(S)] : Folds(iter, h, <<>>, n)
  <2> HIDE DEF h, n
  <2> QED
    BY <1>1, <1>2, <1>3, Iterated
<1> DEFINE pre == [i \in 0..n |-> iter[1..i]]
<1>5. pre[0] = <<>>
  <2>1. 1..0 = {} /\ 0 \in 0..n
    BY <1>1
  <2>2. iter[{}] = <<>>
    BY <1>4 DEF Folds
  <2> QED
    BY <2>1, <2>2
<1>6. ASSUME NEW i \in 1..n  PROVE pre[i] = pre[i - 1] \o seqs[i]
  <2>1. 1..i \in SUBSET (1..n) /\ 1..i # {} /\ Max(1..i) = i /\ (1..i) \ {i} = 1..(i - 1)
    BY <1>1, IteratedPrefix
  <2>2. iter[1..i] = h[<<iter[1..(i - 1)], i>>]
    <3> HIDE DEF h
    <3> QED
      BY <1>4, <2>1 DEF Folds
  <2>3. iter[1..(i - 1)] \in Seq(S)
    <3>1. 1..(i - 1) \in SUBSET (1..n)
      BY <1>1
    <3> QED
      BY <3>1
  <2>4. i \in 0..n /\ i - 1 \in 0..n
    BY <1>1
  <2> HIDE DEF h
  <2> QED
    BY <1>2, <2>2, <2>3, <2>4
<1>7. pre \in [0..n -> Seq(S)]
  <2>1. \A i \in 0..n : 1..i \in SUBSET (1..n)
    BY <1>1
  <2> QED
    BY <2>1
<1> HIDE DEF pre
<1>8. FlattenSeq(seqs) = pre[n]
  BY <1>5, <1>6, Flattened
<1> QED
  BY <1>5, <1>6, <1>7, <1>8

\* Nothing, and one sequence more.
LEMMA FlattenEmpty == FlattenSeq(<<>>) = <<>>
BY DEF FlattenSeq

\* A flattened list of sequences, with one more, ends in that one.
LEMMA FlattenAppend ==
    ASSUME NEW S, NEW seqs \in Seq(Seq(S)), NEW t \in Seq(S)
    PROVE  /\ FlattenSeq(seqs) \in Seq(S)
           /\ FlattenSeq(Append(seqs, t)) = FlattenSeq(seqs) \o t
<1> DEFINE n == Len(seqs)
           more == Append(seqs, t)
<1>1. PICK pre \in [0..n -> Seq(S)] :
             /\ pre[0] = <<>> /\ \A i \in 1..n : pre[i] = pre[i - 1] \o seqs[i]
             /\ FlattenSeq(seqs) = pre[n]
  BY FlattenSteps
<1>2. n \in Nat
  OBVIOUS
<1>3. more \in Seq(Seq(S)) /\ Len(more) = n + 1 /\ more[n + 1] = t /\ \A i \in 1..n : more[i] = seqs[i]
  BY AppendProperties
<1> DEFINE all == [i \in 0..(n + 1) |-> IF i = n + 1 THEN pre[n] \o t ELSE pre[i]]
<1> HIDE DEF more, n
<1>4. all[0] = <<>>
  BY <1>1, <1>2
<1>5. ASSUME NEW i \in 1..(n + 1)  PROVE all[i] = all[i - 1] \o more[i]
  <2>1. CASE i = n + 1
    <3>1. all[i] = pre[n] \o t /\ all[i - 1] = pre[n]
      BY <1>2, <2>1
    <3> QED
      BY <1>3, <2>1, <3>1
  <2>2. CASE i # n + 1
    <3>1. i \in 1..n /\ all[i] = pre[i] /\ all[i - 1] = pre[i - 1]
      BY <1>2, <2>2
    <3> QED
      BY <1>1, <1>3, <3>1
  <2> QED
    BY <2>1, <2>2
<1>6. all[n + 1] = pre[n] \o t
  BY <1>2
<1> HIDE DEF all
<1>7. FlattenSeq(more) = all[n + 1]
  BY <1>3, <1>4, <1>5, Flattened
<1>8. pre[n] \in Seq(S)
  BY <1>1, <1>2
<1> QED
  BY <1>1, <1>6, <1>7, <1>8 DEF more

\* Empty sequences at the end add nothing.
LEMMA FlattenPadded ==
    ASSUME NEW S, NEW seqs \in Seq(Seq(S)), NEW t \in Seq(Seq(S)), \A i \in 1..Len(t) : t[i] = <<>>
    PROVE  FlattenSeq(seqs \o t) = FlattenSeq(seqs)
<1> DEFINE n == Len(seqs)
           m == Len(t)
           more == seqs \o t
<1>1. PICK pre \in [0..n -> Seq(S)] :
             /\ pre[0] = <<>> /\ \A i \in 1..n : pre[i] = pre[i - 1] \o seqs[i]
             /\ FlattenSeq(seqs) = pre[n]
  BY FlattenSteps
<1>2. n \in Nat /\ m \in Nat
  OBVIOUS
<1>3. /\ more \in Seq(Seq(S)) /\ Len(more) = n + m
      /\ \A i \in 1..(n + m) : more[i] = IF i <= n THEN seqs[i] ELSE t[i - n]
  BY ConcatProperties
<1>4. \A i \in 1..m : t[i] = <<>>
  OBVIOUS
<1> DEFINE all == [i \in 0..(n + m) |-> IF i <= n THEN pre[i] ELSE pre[n]]
<1> HIDE DEF more, n, m
<1>a. \A i \in 0..(n + m) : all[i] = IF i <= n THEN pre[i] ELSE pre[n]
  OBVIOUS
<1> HIDE DEF all
<1>5. all[0] = <<>> /\ all[n + m] = pre[n]
  <2>1. 0 \in 0..(n + m) /\ 0 <= n /\ n + m \in 0..(n + m) /\ (n + m <= n => n + m = n)
    BY <1>2
  <2> QED
    BY <1>1, <1>a, <2>1
<1>6. ASSUME NEW i \in 1..(n + m)  PROVE all[i] = all[i - 1] \o more[i]
  <2>1. CASE i <= n
    <3>0. i \in 1..n /\ i \in 0..(n + m) /\ i - 1 \in 0..(n + m) /\ i - 1 <= n
      BY <1>2, <2>1
    <3>1. i \in 1..n /\ all[i] = pre[i] /\ all[i - 1] = pre[i - 1] /\ more[i] = seqs[i]
      BY <1>a, <1>3, <2>1, <3>0
    <3> QED
      BY <1>1, <3>1
  <2>2. CASE i > n
    <3>0. /\ i - n \in 1..m /\ i \in 0..(n + m) /\ i - 1 \in 0..(n + m) /\ ~(i <= n)
          /\ i - 1 <= n => i - 1 = n
      BY <1>2, <2>2
    <3>1. more[i] = t[i - n] /\ all[i] = pre[n]
      BY <1>a, <1>3, <3>0
    <3>2. all[i - 1] = pre[n]
      BY <1>a, <3>0
    <3>3. pre[n] \o <<>> = pre[n]
      <4>1. pre[n] \in Seq(S)
        BY <1>1, <1>2
      <4> QED
        BY <4>1, ConcatEmptySeq
    <3> QED
      BY <1>4, <3>0, <3>1, <3>2, <3>3
  <2>3. i <= n \/ i > n
    BY <1>2
  <2> QED
    BY <2>1, <2>2, <2>3
<1>7. FlattenSeq(more) = all[n + m]
  BY <1>3, <1>5, <1>6, Flattened
<1> QED
  BY <1>1, <1>5, <1>7 DEF more

\* No element twice.
Distinct(s) == \A i, j \in DOMAIN s : s[i] = s[j] => i = j

\* What is in a concatenation, and when it has no element twice.
LEMMA ConcatElements ==
    ASSUME NEW S, NEW s \in Seq(S), NEW t \in Seq(S)
    PROVE  /\ ToSet(s \o t) = ToSet(s) \cup ToSet(t)
           /\ Distinct(s) /\ Distinct(t) /\ ToSet(s) \cap ToSet(t) = {} => Distinct(s \o t)
<1> DEFINE m == Len(s)
           n == Len(t)
           c == s \o t
<1>1. m \in Nat /\ n \in Nat /\ DOMAIN s = 1..m /\ DOMAIN t = 1..n
  OBVIOUS
<1>2. DOMAIN c = 1..(m + n) /\ \A i \in 1..(m + n) : c[i] = IF i <= m THEN s[i] ELSE t[i - m]
  BY ConcatProperties
<1> HIDE DEF c, m, n
<1>3. \A i \in 1..m : i \in 1..(m + n) /\ c[i] = s[i]
  <2>1. \A i \in 1..m : i \in 1..(m + n) /\ i <= m
    BY <1>1
  <2> QED
    BY <1>2, <2>1
<1>4. \A i \in 1..n : m + i \in 1..(m + n) /\ c[m + i] = t[i]
  <2>1. \A i \in 1..n : m + i \in 1..(m + n) /\ ~(m + i <= m) /\ (m + i) - m = i
    BY <1>1
  <2> QED
    BY <1>2, <2>1
<1>5. \A i \in 1..(m + n) : \/ i \in 1..m /\ c[i] = s[i]
                            \/ i - m \in 1..n /\ c[i] = t[i - m]
  <2>1. \A i \in 1..(m + n) : \/ i \in 1..m /\ i <= m
                              \/ i - m \in 1..n /\ ~(i <= m)
    BY <1>1
  <2> QED
    BY <1>2, <2>1
<1>6. ToSet(c) = ToSet(s) \cup ToSet(t)
  <2>1. ToSet(c) = {c[i] : i \in 1..(m + n)} /\ ToSet(s) = {s[i] : i \in 1..m} /\ ToSet(t) = {t[i] : i \in 1..n}
    BY <1>1, <1>2 DEF ToSet
  <2> QED
    BY <2>1, <1>3, <1>4, <1>5
<1>7. ASSUME Distinct(s), Distinct(t), ToSet(s) \cap ToSet(t) = {}  PROVE Distinct(c)
  <2> SUFFICES ASSUME NEW i \in 1..(m + n), NEW j \in 1..(m + n), c[i] = c[j]  PROVE i = j
    BY <1>2 DEF Distinct
  <2>1. \A k \in 1..m : s[k] \in ToSet(s)
    BY <1>1 DEF ToSet
  <2>2. \A k \in 1..n : t[k] \in ToSet(t)
    BY <1>1 DEF ToSet
  <2>3. \/ i \in 1..m /\ j \in 1..m /\ s[i] = s[j]
        \/ i - m \in 1..n /\ j - m \in 1..n /\ t[i - m] = t[j - m]
    BY <1>5, <1>7, <2>1, <2>2
  <2>4. \/ i = j
        \/ i - m = j - m
    BY <1>1, <1>7, <2>3 DEF Distinct
  <2> QED
    BY <1>1, <2>4
<1> QED
  BY <1>6, <1>7 DEF c

\* The elements of a flattened sequence are those of its parts; they are distinct
\* if those of each part are, and no two parts share one.
LEMMA FlattenElements ==
    ASSUME NEW S, NEW seqs \in Seq(Seq(S))
    PROVE  /\ ToSet(FlattenSeq(seqs)) = UNION {ToSet(seqs[i]) : i \in 1..Len(seqs)}
           /\ (/\ \A i \in 1..Len(seqs) : Distinct(seqs[i])
               /\ \A i, j \in 1..Len(seqs) : i # j => ToSet(seqs[i]) \cap ToSet(seqs[j]) = {})
              => Distinct(FlattenSeq(seqs))
<1> DEFINE n == Len(seqs)
           Apart == /\ \A i \in 1..n : Distinct(seqs[i])
                    /\ \A i, j \in 1..n : i # j => ToSet(seqs[i]) \cap ToSet(seqs[j]) = {}
           Of(k) == UNION {ToSet(seqs[i]) : i \in 1..k}
<1>1. PICK pre \in [0..n -> Seq(S)] :
             /\ pre[0] = <<>> /\ \A i \in 1..n : pre[i] = pre[i - 1] \o seqs[i]
             /\ FlattenSeq(seqs) = pre[n]
  BY FlattenSteps
<1>2. n \in Nat /\ \A i \in 1..n : seqs[i] \in Seq(S)
  OBVIOUS
<1> DEFINE T == {k \in Nat : k <= n => ToSet(pre[k]) = Of(k) /\ (Apart => Distinct(pre[k]))}
<1>3. 0 \in T
  <2>1. ToSet(<<>>) = {} /\ Of(0) = {} /\ Distinct(<<>>)
    BY DEF ToSet, Distinct
  <2> HIDE DEF Of, Apart
  <2> QED
    BY <1>1, <2>1
<1>4. ASSUME NEW k \in Nat, k \in T  PROVE k + 1 \in T
  <2>0. SUFFICES ASSUME k + 1 <= n
                 PROVE  ToSet(pre[k + 1]) = Of(k + 1) /\ (Apart => Distinct(pre[k + 1]))
    <3>1. k + 1 \in Nat
      OBVIOUS
    <3> HIDE DEF Of, Apart, n
    <3> QED
      BY <3>1
  <2>1. k + 1 \in 1..n /\ (k + 1) - 1 = k /\ k <= n /\ k \in 0..n
    BY <1>2, <2>0
  <2>2. pre[k + 1] = pre[k] \o seqs[k + 1] /\ pre[k] \in Seq(S) /\ seqs[k + 1] \in Seq(S)
    <3> HIDE DEF n
    <3> QED
      BY <1>1, <1>2, <2>1
  <2>3. ToSet(pre[k]) = Of(k) /\ (Apart => Distinct(pre[k]))
    <3> HIDE DEF Of, Apart, n
    <3> QED
      BY <1>4, <2>1
  <2>4. Of(k + 1) = Of(k) \cup ToSet(seqs[k + 1])
    <3>1. \A i : i \in 1..(k + 1) <=> i \in 1..k \/ i = k + 1
      OBVIOUS
    <3> QED
      BY <3>1
  <2>5. ASSUME Apart  PROVE Of(k) \cap ToSet(seqs[k + 1]) = {}
    <3>1. \A i \in 1..k : i \in 1..n /\ i # k + 1
      BY <1>2, <2>1
    <3>2. \A i \in 1..k : ToSet(seqs[i]) \cap ToSet(seqs[k + 1]) = {}
      BY <2>1, <2>5, <3>1
    <3> QED
      BY <3>2
  <2>6. Apart => Distinct(seqs[k + 1])
    BY <2>1
  <2> DEFINE a == pre[k]
             b == seqs[k + 1]
  <2>7. /\ ToSet(a \o b) = ToSet(a) \cup ToSet(b)
        /\ Distinct(a) /\ Distinct(b) /\ ToSet(a) \cap ToSet(b) = {} => Distinct(a \o b)
    <3>1. a \in Seq(S) /\ b \in Seq(S)
      BY <2>2
    <3> HIDE DEF a, b
    <3> QED
      BY <3>1, ConcatElements
  <2> HIDE DEF Of, Apart, n
  <2> QED
    BY <2>2, <2>3, <2>4, <2>5, <2>6, <2>7
<1>5. Nat \subseteq T
  <2> HIDE DEF T
  <2> QED
    BY <1>3, <1>4, SetInduction
<1>6. n \in T /\ n <= n
  <2> HIDE DEF T
  <2> QED
    BY <1>2, <1>5
<1>7. ToSet(pre[n]) = Of(n) /\ (Apart => Distinct(pre[n]))
  <2> HIDE DEF Of, Apart, n
  <2> QED
    BY <1>6
<1> QED
  BY <1>1, <1>7

\* One item more of a sequence.
LEMMA OneMore ==
    ASSUME NEW S, NEW s \in Seq(S), NEW k \in Nat, k + 1 <= Len(s)
    PROVE  SubSeq(s, 1, k + 1) = SubSeq(s, 1, k) \o <<s[k + 1]>>
<1>1. Len(s) \in Nat
  OBVIOUS
<1>2. 1 \in 1..Len(s) /\ k + 1 \in 1..Len(s) /\ (k + 1) - 1 = k
  BY <1>1
<1> QED
  BY <1>2, SubSeqRecursiveSecond
-----------------------------------------------------------------------------
(* What the numbers of a list are together *)

\* What numbers are together.
Together(sizes) == FoldLeft(+, 0, sizes)

\* The sum of a list of numbers is that of the list without the last and the last.
LEMMA TogetherSteps ==
    ASSUME NEW z \in Seq(Nat)
    PROVE  \E p \in [0..Len(z) -> Nat] :
             p[0] = 0 /\ (\A i \in 1..Len(z) : p[i] = p[i - 1] + z[i]) /\ Together(z) = p[Len(z)]
<1> DEFINE n == Len(z)
           Put(a, x) == a + x
           Body(g) == [s \in SUBSET (DOMAIN z) |->
                         IF s = {} THEN 0 ELSE Put(g[s \ {Max(s)}], z[Max(s)])]
           f == CHOOSE g : g = Body(g)
           end == f[DOMAIN z]
<1>1. Together(z) = end
  BY Zenon DEF Together, FoldLeft, MapThenFoldSet
<1>2. n \in Nat /\ DOMAIN z = 1..n /\ \A i \in 1..n : z[i] \in Nat
  OBVIOUS
<1> DEFINE h == [p \in Nat \X (1..n) |-> Put(p[1], z[p[2]])]
<1>3. h \in [Nat \X (1..n) -> Nat] /\ \A a \in Nat, i \in 1..n : h[<<a, i>>] = Put(a, z[i])
  <2>1. \A a \in Nat, i \in 1..n : Put(a, z[i]) \in Nat
    BY <1>2
  <2> HIDE DEF Put
  <2> QED
    BY <2>1
<1> HIDE DEF n
<1>4. f = Body(f)
  <2> HIDE DEF h, Put
  <2>2. PICK g \in [SUBSET (1..n) -> Nat] : Folds(g, h, 0, n)
    BY <1>2, <1>3, Iterated
  <2>3. ASSUME NEW s \in SUBSET (1..n)
        PROVE  g[s] = IF s = {} THEN 0 ELSE Put(g[s \ {Max(s)}], z[Max(s)])
    <3>1. g[s] = IF s = {} THEN 0 ELSE h[<<g[s \ {Max(s)}], Max(s)>>]
      BY <2>2 DEF Folds
    <3>2. s # {} => Max(s) \in 1..n /\ g[s \ {Max(s)}] \in Nat
      BY <1>2, MaxPlace
    <3> QED
      BY <1>3, <3>1, <3>2
  <2>4. g = Body(g)
    BY <1>2, <2>3
  <2> HIDE DEF Body
  <2> QED
    BY <2>4
<1> HIDE DEF f
<1>5. \A s \in SUBSET (1..n) : f[s] = IF s = {} THEN 0 ELSE Put(f[s \ {Max(s)}], z[Max(s)])
  <2> HIDE DEF Put
  <2> QED
    BY <1>2, <1>4
<1> DEFINE p == [i \in 0..n |-> f[1..i]]
<1>6. p[0] = 0
  <2>1. 1..0 = {} /\ {} \in SUBSET (1..n) /\ 0 \in 0..n
    BY <1>2
  <2> HIDE DEF Put
  <2> QED
    BY <1>5, <2>1
<1>7. ASSUME NEW i \in 1..n  PROVE p[i] = p[i - 1] + z[i]
  <2>1. 1..i \in SUBSET (1..n) /\ 1..i # {} /\ Max(1..i) = i /\ (1..i) \ {i} = 1..(i - 1)
    BY <1>2, IteratedPrefix
  <2>2. f[1..i] = Put(f[1..(i - 1)], z[i])
    <3> HIDE DEF Put
    <3> QED
      BY <1>5, <2>1
  <2>3. i \in 0..n /\ i - 1 \in 0..n
    BY <1>2
  <2> QED
    BY <2>2, <2>3
<1>8. p \in [0..n -> Nat]
  <2> DEFINE T == {k \in Nat : k <= n => p[k] \in Nat}
  <2> HIDE DEF p
  <2>1. 0 \in T
    BY <1>6
  <2>2. ASSUME NEW k \in Nat, k \in T  PROVE k + 1 \in T
    <3>1. SUFFICES ASSUME k + 1 <= n  PROVE p[k + 1] \in Nat
      OBVIOUS
    <3>2. k + 1 \in 1..n /\ (k + 1) - 1 = k /\ p[k] \in Nat
      BY <1>2, <2>2, <3>1
    <3> QED
      BY <1>2, <1>7, <3>2
  <2>3. Nat \subseteq T
    <3> HIDE DEF T
    <3> QED
      BY <2>1, <2>2, SetInduction
  <2>4. \A i \in 0..n : p[i] \in Nat
    BY <1>2, <2>3
  <2> QED
    BY <2>4 DEF p
<1>9. end = p[n]
  <2>1. n \in 0..n
    BY <1>2
  <2> QED
    BY <1>2, <2>1
<1> HIDE DEF p, end
<1> QED
  BY <1>1, <1>6, <1>7, <1>8, <1>9 DEF n

\* Such steps determine the sums of all first parts.
LEMMA TogetherPrefix ==
    ASSUME NEW z \in Seq(Nat)
    PROVE  \E p \in [0..Len(z) -> Nat] :
             /\ p[0] = 0 /\ \A i \in 1..Len(z) : p[i] = p[i - 1] + z[i]
             /\ \A i \in 0..Len(z) : Together(SubSeq(z, 1, i)) = p[i]
<1> DEFINE n == Len(z)
<1>1. n \in Nat
  OBVIOUS
<1>2. PICK p \in [0..n -> Nat] : p[0] = 0 /\ \A i \in 1..n : p[i] = p[i - 1] + z[i]
  BY TogetherSteps
<1> HIDE DEF n
<1>3. ASSUME NEW i \in 0..n  PROVE Together(SubSeq(z, 1, i)) = p[i]
  <2> DEFINE y == SubSeq(z, 1, i)
  <2>1. y \in Seq(Nat) /\ Len(y) = i /\ \A j \in 1..i : y[j] = z[j]
    BY <1>1 DEF n
  <2> HIDE DEF y
  <2>2. PICK q \in [0..i -> Nat] : q[0] = 0 /\ (\A j \in 1..i : q[j] = q[j - 1] + y[j]) /\ Together(y) = q[i]
    BY <2>1, TogetherSteps
  <2> DEFINE T == {k \in Nat : k <= i => q[k] = p[k]}
  <2>3. 0 \in T
    BY <1>2, <2>2
  <2>4. ASSUME NEW k \in Nat, k \in T  PROVE k + 1 \in T
    <3>1. SUFFICES ASSUME k + 1 <= i  PROVE q[k + 1] = p[k + 1]
      OBVIOUS
    <3>2. k + 1 \in 1..i /\ k + 1 \in 1..n /\ (k + 1) - 1 = k /\ q[k] = p[k]
      BY <1>1, <2>4, <3>1
    <3>3. p[k + 1] = p[k] + z[k + 1]
      BY <1>2, <3>2
    <3>4. q[k + 1] = q[k] + y[k + 1]
      BY <2>2, <3>2
    <3>5. y[k + 1] = z[k + 1]
      BY <2>1, <3>2
    <3> QED
      BY <3>2, <3>3, <3>4, <3>5
  <2>5. Nat \subseteq T
    <3> HIDE DEF T
    <3> QED
      BY <2>3, <2>4, SetInduction
  <2>6. q[i] = p[i]
    BY <1>1, <2>5
  <2> QED
    BY <2>2, <2>6 DEF y
<1> QED
  BY <1>2, <1>3 DEF n
=============================================================================
