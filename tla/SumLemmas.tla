------------------------------- MODULE SumLemmas -------------------------------
(***************************************************************************)
(* Sums over finite sets: what SumFunctionOnSet adds up to.                *)
(* SumFunctionOnSet(f, S) is a function on the subsets of S, chosen for    *)
(* its recursive definition, applied to S.  So there must be such a        *)
(* function, and two of them must agree, for anything to be known of it.   *)
(* Both are shown with a least subset for which they do not hold, which    *)
(* SubsetInduction turns into induction over a set of subsets: a set, not  *)
(* a predicate, so that it can be instantiated wherever it is cited.       *)
(***************************************************************************)
EXTENDS FiniteSetsExt, FiniteSetTheorems, TLAPS

\* The element that a sum over s takes first.
First(s) == CHOOSE x \in s : TRUE

\* g adds up f over every subset of S.
Adds(g, f, S) ==
    g = [s \in SUBSET S |-> IF s = {} THEN 0 ELSE f[First(s)] + g[s \ {First(s)}]]

\* A set of subsets of a finite set has a least one.
LEMMA LeastSubset ==
    ASSUME NEW S, IsFiniteSet(S), NEW B \in SUBSET (SUBSET S), B # {}
    PROVE  \E s \in B : \A t \in B : t \subseteq s => t = s
<1>1. B \subseteq FiniteSubsetsOf(S)
    BY FS_Subset DEF FiniteSubsetsOf
<1>2. PICK s \in B : \A t \in B : <<t, s>> \notin StrictSubsetOrdering(S)
    BY <1>1, WFMin, FS_StrictSubsetOrderingWellFounded
<1>3. ASSUME NEW t \in B, t \subseteq s, t # s PROVE FALSE
    <2>1. <<t, s>> \in (SUBSET S) \X (SUBSET S)
        OBVIOUS
    <2> QED
        BY <1>2, <1>3, <2>1 DEF StrictSubsetOrdering
<1> QED
    BY <1>2, <1>3

\* What holds of the empty set, and of a set when it holds of it without any one of
\* its elements, holds of every finite set.
LEMMA SubsetInduction ==
    ASSUME NEW S, IsFiniteSet(S), NEW P, {} \in P,
           \A T \in SUBSET S : \A x \in T : T \ {x} \in P => T \in P
    PROVE  S \in P
<1> SUFFICES ASSUME S \notin P PROVE FALSE
    OBVIOUS
<1> DEFINE B == {T \in SUBSET S : T \notin P}
<1>1. B \in SUBSET (SUBSET S) /\ B # {}
    OBVIOUS
<1>2. PICK s \in B : \A t \in B : t \subseteq s => t = s
    <2> HIDE DEF B
    <2> QED
        BY <1>1, LeastSubset
<1>3. PICK x \in s : TRUE
    <2>1. s # {}
        OBVIOUS
    <2> QED
        BY <2>1
<1>4. s \ {x} \notin B
    BY <1>2, <1>3
<1> QED
    BY <1>2, <1>3, <1>4
-------------------------------------------------------------------------------
\* The recursive definition, subset by subset.
LEMMA AddsAt ==
    ASSUME NEW g, NEW f, NEW S, Adds(g, f, S), NEW s \in SUBSET S
    PROVE  g[s] = IF s = {} THEN 0 ELSE f[First(s)] + g[s \ {First(s)}]
<1> DEFINE h == [t \in SUBSET S |-> IF t = {} THEN 0 ELSE f[First(t)] + g[t \ {First(t)}]]
<1>1. g = h
    BY DEF Adds
<1>2. h[s] = IF s = {} THEN 0 ELSE f[First(s)] + g[s \ {First(s)}]
    OBVIOUS
<1> HIDE DEF h
<1> QED
    BY <1>1, <1>2

LEMMA FirstIn ==
    ASSUME NEW s, s # {}
    PROVE  First(s) \in s
BY DEF First

\* Functions that add up the same agree where both are defined.
LEMMA AddsAgree ==
    ASSUME NEW f, NEW S, NEW T, NEW g, NEW h, Adds(g, f, S), Adds(h, f, T),
           NEW s \in SUBSET S, s \in SUBSET T, IsFiniteSet(s)
    PROVE  g[s] = h[s]
<1> DEFINE B == {t \in SUBSET s : g[t] # h[t]}
<1> SUFFICES ASSUME B # {} PROVE FALSE
    OBVIOUS
<1>1. PICK t \in B : \A u \in B : u \subseteq t => u = t
    <2>1. B \in SUBSET (SUBSET s)
        OBVIOUS
    <2> HIDE DEF B
    <2> QED
        BY <2>1, LeastSubset
<1>2. t \in SUBSET S /\ t \in SUBSET T /\ g[t] # h[t]
    BY <1>1
<1>3. t # {}
    BY <1>2, AddsAt
<1>4. First(t) \in t
    BY <1>3, FirstIn
<1>5. g[t \ {First(t)}] = h[t \ {First(t)}]
    <2>1. t \ {First(t)} \in SUBSET s /\ t \ {First(t)} \subseteq t /\ t \ {First(t)} # t
        BY <1>1, <1>4
    <2> QED
        BY <1>1, <2>1
<1> QED
    BY <1>2, <1>3, <1>5, AddsAt

\* There is one for every finite set.
LEMMA AddsExists ==
    ASSUME NEW f, NEW S, IsFiniteSet(S)
    PROVE  \E g : Adds(g, f, S)
<1> DEFINE B == {T \in SUBSET S : \A g : ~Adds(g, f, T)}
<1> SUFFICES ASSUME B # {} PROVE FALSE
    OBVIOUS
<1>1. PICK T \in B : \A u \in B : u \subseteq T => u = T
    <2>1. B \in SUBSET (SUBSET S)
        OBVIOUS
    <2> HIDE DEF B
    <2> QED
        BY <2>1, LeastSubset
<1> DEFINE h(s) == CHOOSE g : Adds(g, f, s)
<1>2. \A s \in SUBSET T : s # T => Adds(h(s), f, s)
    <2> SUFFICES ASSUME NEW s \in SUBSET T, s # T PROVE Adds(h(s), f, s)
        OBVIOUS
    <2>1. s \notin B /\ s \in SUBSET S
        BY <1>1
    <2>2. \E g : Adds(g, f, s)
        BY <2>1
    <2> QED
        BY <2>2
<1> HIDE DEF h
<1> DEFINE part(s) == IF s = {} THEN 0 ELSE h(s)[s]
           g == [s \in SUBSET T |-> IF s # T THEN part(s)
                                    ELSE IF s = {} THEN 0
                                    ELSE f[First(s)] + part(s \ {First(s)})]
<1>3. ASSUME NEW s \in SUBSET T, s # {} PROVE g[s] = f[First(s)] + g[s \ {First(s)}]
    <2> DEFINE r == s \ {First(s)}
    <2>1. First(s) \in s
        BY <1>3, FirstIn
    <2>2. r \in SUBSET T /\ r # T /\ r # s /\ g[r] = part(r)
        BY <2>1
    <2>3. CASE s = T
        BY <1>3, <2>2, <2>3
    <2>4. CASE s # T
        <3>1. g[s] = h(s)[s]
            BY <1>3, <2>4
        <3>2. h(s)[s] = f[First(s)] + h(s)[r]
            BY <1>2, <1>3, <2>4, AddsAt
        <3>3. h(s)[r] = part(r)
            <4>1. CASE r = {}
                BY <1>2, <2>4, <4>1, AddsAt
            <4>2. CASE r # {}
                <5>1. Adds(h(r), f, r) /\ Adds(h(s), f, s)
                    BY <1>2, <2>2, <2>4
                <5>2. IsFiniteSet(r)
                    BY <2>2, FS_Subset
                <5>3. h(s)[r] = h(r)[r]
                    BY <5>1, <5>2, AddsAgree
                <5> QED
                    BY <4>2, <5>3
            <4> QED
                BY <4>1, <4>2
        <3> QED
            BY <2>2, <3>1, <3>2, <3>3
    <2> QED
        BY <2>3, <2>4
<1>4. g[{}] = 0
    OBVIOUS
<1>5. g = [s \in SUBSET T |-> IF s = {} THEN 0 ELSE f[First(s)] + g[s \ {First(s)}]]
    <2>1. g = [s \in SUBSET T |-> g[s]]
        OBVIOUS
    <2> HIDE DEF g
    <2> QED
        BY <1>3, <1>4, <2>1
<1>6. Adds(g, f, T)
    BY <1>5 DEF Adds
<1> QED
    BY <1>1, <1>6
-------------------------------------------------------------------------------
(* Sums.  No proof below looks into SumFunctionOnSet again. *)

\* The library's definition, with its local function named.
LEMMA SumIs ==
    ASSUME NEW f, NEW S
    PROVE  SumFunctionOnSet(f, S) = (CHOOSE g : Adds(g, f, S))[S]
BY Zenon DEF SumFunctionOnSet, FoldFunctionOnSet, MapThenFoldSet, Adds, First

\* A sum is an element's value and the sum of the rest.
LEMMA SumUnfolds ==
    ASSUME NEW f, NEW S, IsFiniteSet(S)
    PROVE  SumFunctionOnSet(f, S) =
              IF S = {} THEN 0 ELSE f[First(S)] + SumFunctionOnSet(f, S \ {First(S)})
<1> DEFINE G(T) == CHOOSE g : Adds(g, f, T)
           R == S \ {First(S)}
<1>1. IsFiniteSet(R)
    BY FS_RemoveElement
<1>2. Adds(G(S), f, S) /\ Adds(G(R), f, R)
    BY <1>1, AddsExists
<1>3. SumFunctionOnSet(f, S) = G(S)[S] /\ SumFunctionOnSet(f, R) = G(R)[R]
    BY SumIs
<1> HIDE DEF G
<1>4. G(S)[R] = G(R)[R]
    BY <1>1, <1>2, AddsAgree
<1>5. G(S)[S] = IF S = {} THEN 0 ELSE f[First(S)] + G(S)[R]
    BY <1>2, AddsAt
<1> QED
    BY <1>3, <1>4, <1>5

LEMMA SumEmpty ==
    ASSUME NEW f
    PROVE  SumFunctionOnSet(f, {}) = 0
BY SumUnfolds, FS_EmptySet

\* A sum of integers is an integer, and may begin with any element.
LEMMA SumTypeAndRemove ==
    ASSUME NEW S, IsFiniteSet(S), NEW f, \A x \in S : f[x] \in Int
    PROVE  /\ SumFunctionOnSet(f, S) \in Int
           /\ \A x \in S : SumFunctionOnSet(f, S) = f[x] + SumFunctionOnSet(f, S \ {x})
<1> DEFINE Sum(T) == SumFunctionOnSet(f, T)
           P == {T \in SUBSET S : /\ Sum(T) \in Int
                                  /\ \A x \in T : Sum(T) = f[x] + Sum(T \ {x})}
           B == {T \in SUBSET S : T \notin P}
<1> SUFFICES ASSUME B # {} PROVE FALSE
    OBVIOUS
<1>1. PICK T \in B : \A u \in B : u \subseteq T => u = T
    <2>1. B \in SUBSET (SUBSET S)
        OBVIOUS
    <2> HIDE DEF B
    <2> QED
        BY <2>1, LeastSubset
<1>2. \A u \in SUBSET T : u # T => u \in P
    BY <1>1
<1>3. IsFiniteSet(T)
    BY <1>1, FS_Subset
<1> DEFINE a == First(T)
<1>4. CASE T = {}
    BY <1>1, <1>4, SumEmpty
<1>5. CASE T # {}
    <2>1. a \in T /\ a \in S
        BY <1>1, <1>5, FirstIn
    <2>2. Sum(T) = f[a] + Sum(T \ {a})
        BY <1>3, <1>5, SumUnfolds
    <2>3. T \ {a} \in P
        BY <1>2, <2>1
    <2> HIDE DEF a
    <2>4. Sum(T) \in Int
        BY <2>1, <2>2, <2>3
    <2>5. ASSUME NEW x \in T, x # a PROVE Sum(T) = f[x] + Sum(T \ {x})
        <3>1. T \ {x} \in P /\ a \in T \ {x} /\ x \in T \ {a} /\ x \in S
            BY <1>1, <1>2, <2>1, <2>5
        <3>2. (T \ {a}) \ {x} \in P /\ (T \ {a}) \ {x} = (T \ {x}) \ {a}
            BY <1>2, <2>1
        <3> DEFINE r == Sum((T \ {a}) \ {x})
        <3>3. Sum(T \ {a}) = f[x] + r /\ Sum(T \ {x}) = f[a] + r /\ r \in Int
            BY <2>3, <3>1, <3>2
        <3>4. f[a] \in Int /\ f[x] \in Int
            BY <2>1, <3>1
        <3> HIDE DEF r, Sum
        <3> QED
            BY <2>2, <3>3, <3>4
    <2>6. T \in P
        <3> HIDE DEF Sum
        <3> QED
            BY <1>1, <2>2, <2>4, <2>5
    <2> QED
        BY <1>1, <2>6
<1> QED
    BY <1>4, <1>5

LEMMA SumInt ==
    ASSUME NEW S, IsFiniteSet(S), NEW f, \A x \in S : f[x] \in Int
    PROVE  SumFunctionOnSet(f, S) \in Int
BY SumTypeAndRemove

LEMMA SumRemove ==
    ASSUME NEW S, IsFiniteSet(S), NEW f, \A x \in S : f[x] \in Int, NEW x \in S
    PROVE  SumFunctionOnSet(f, S) = f[x] + SumFunctionOnSet(f, S \ {x})
BY SumTypeAndRemove

\* A sum grows with its terms.
LEMMA SumGrows ==
    ASSUME NEW S, IsFiniteSet(S), NEW f, NEW g,
           \A x \in S : f[x] \in Int /\ g[x] \in Int /\ f[x] <= g[x]
    PROVE  SumFunctionOnSet(f, S) <= SumFunctionOnSet(g, S)
<1> DEFINE P == {T \in SUBSET S : SumFunctionOnSet(f, T) <= SumFunctionOnSet(g, T)}
<1>1. {} \in P
    BY SumEmpty
<1>2. ASSUME NEW T \in SUBSET S, NEW x \in T, T \ {x} \in P PROVE T \in P
    <2>1. IsFiniteSet(T) /\ IsFiniteSet(T \ {x})
        BY FS_Subset
    <2> DEFINE ff == SumFunctionOnSet(f, T \ {x})
               gg == SumFunctionOnSet(g, T \ {x})
    <2>2. SumFunctionOnSet(f, T) = f[x] + ff /\ SumFunctionOnSet(g, T) = g[x] + gg
        BY <2>1, SumRemove
    <2>3. ff \in Int /\ gg \in Int
        BY <2>1, SumInt
    <2>4. ff <= gg /\ f[x] <= g[x] /\ f[x] \in Int /\ g[x] \in Int
        BY <1>2
    <2>5. f[x] + ff <= g[x] + gg
        <3> HIDE DEF ff, gg
        <3> QED
            BY <2>3, <2>4
    <2> QED
        BY <2>2, <2>5
<1> HIDE DEF P
<1>3. S \in P
    BY <1>1, <1>2, SubsetInduction
<1> QED
    BY <1>3 DEF P

\* Equal terms, equal sums.
LEMMA SumSame ==
    ASSUME NEW S, IsFiniteSet(S), NEW f, NEW g, \A x \in S : f[x] \in Int /\ f[x] = g[x]
    PROVE  SumFunctionOnSet(f, S) = SumFunctionOnSet(g, S)
<1>1. \A x \in S : /\ f[x] \in Int /\ g[x] \in Int /\ f[x] <= g[x]
                   /\ g[x] <= f[x]
    OBVIOUS
<1>2. /\ SumFunctionOnSet(f, S) <= SumFunctionOnSet(g, S)
      /\ SumFunctionOnSet(g, S) <= SumFunctionOnSet(f, S)
    BY <1>1, SumGrows
<1>3. SumFunctionOnSet(f, S) \in Int /\ SumFunctionOnSet(g, S) \in Int
    BY <1>1, SumInt
<1> QED
    BY <1>2, <1>3

\* A sum of terms that are not negative is not negative.
LEMMA SumNat ==
    ASSUME NEW S, IsFiniteSet(S), NEW f, \A x \in S : f[x] \in Nat
    PROVE  SumFunctionOnSet(f, S) \in Nat
<1> DEFINE P == {T \in SUBSET S : SumFunctionOnSet(f, T) \in Nat}
<1>1. {} \in P
    BY SumEmpty
<1>2. ASSUME NEW T \in SUBSET S, NEW x \in T, T \ {x} \in P PROVE T \in P
    <2>1. IsFiniteSet(T)
        BY FS_Subset
    <2>2. SumFunctionOnSet(f, T) = f[x] + SumFunctionOnSet(f, T \ {x})
        BY <2>1, SumRemove
    <2>3. f[x] \in Nat /\ SumFunctionOnSet(f, T \ {x}) \in Nat
        BY <1>2
    <2> QED
        BY <2>2, <2>3
<1> HIDE DEF P
<1>3. S \in P
    BY <1>1, <1>2, SubsetInduction
<1> QED
    BY <1>3 DEF P

\* The sum over the values of a function that takes no value twice is the sum over
\* where it takes them.
LEMMA SumRenamed ==
    ASSUME NEW S, IsFiniteSet(S), NEW b, NEW f, NEW g,
           \A x \in S : \A y \in S : b[x] = b[y] => x = y,
           \A x \in S : f[x] \in Int /\ g[b[x]] = f[x]
    PROVE  SumFunctionOnSet(g, {b[x] : x \in S}) = SumFunctionOnSet(f, S)
<1> DEFINE Image(T) == {b[x] : x \in T}
           P == {T \in SUBSET S : /\ IsFiniteSet(Image(T))
                                  /\ SumFunctionOnSet(g, Image(T)) = SumFunctionOnSet(f, T)}
<1>1. {} \in P
    <2>1. Image({}) = {}
        OBVIOUS
    <2> HIDE DEF Image
    <2> QED
        BY <2>1, SumEmpty, FS_EmptySet
<1>2. ASSUME NEW T \in SUBSET S, NEW x \in T, T \ {x} \in P PROVE T \in P
    <2>1. IsFiniteSet(T)
        BY FS_Subset
    <2>2. Image(T) = Image(T \ {x}) \cup {b[x]} /\ b[x] \in Image(T)
        OBVIOUS
    <2>3. Image(T) \ {b[x]} = Image(T \ {x})
        OBVIOUS
    <2>4. \A y \in Image(T) : g[y] \in Int
        OBVIOUS
    <2>5. IsFiniteSet(Image(T \ {x}))
        BY <1>2
    <2>6. SumFunctionOnSet(g, Image(T \ {x})) = SumFunctionOnSet(f, T \ {x})
        BY <1>2
    <2>7. g[b[x]] = f[x]
        OBVIOUS
    <2> HIDE DEF Image
    <2>8. IsFiniteSet(Image(T))
        <3>1. IsFiniteSet(Image(T \ {x}) \cup {b[x]})
            BY <2>5, FS_AddElement
        <3> QED
            BY <2>2, <3>1
    <2>9. SumFunctionOnSet(g, Image(T)) = g[b[x]] + SumFunctionOnSet(g, Image(T) \ {b[x]})
        BY <2>2, <2>4, <2>8, SumRemove
    <2>10. SumFunctionOnSet(f, T) = f[x] + SumFunctionOnSet(f, T \ {x})
        BY <2>1, SumRemove
    <2> QED
        BY <2>3, <2>6, <2>7, <2>8, <2>9, <2>10
<1> HIDE DEF P
<1>3. S \in P
    BY <1>1, <1>2, SubsetInduction
<1> QED
    BY <1>3 DEF P

\* A sum over what is left of a sequence.
LEMMA SumFrom ==
    ASSUME NEW L \in Nat, NEW f, \A i \in 1 .. L : f[i] \in Nat, NEW n \in Nat \ {0}
    PROVE  /\ SumFunctionOnSet(f, n .. L) \in Nat
           /\ n <= L => SumFunctionOnSet(f, n .. L) = f[n] + SumFunctionOnSet(f, (n + 1) .. L)
           /\ n > L => SumFunctionOnSet(f, n .. L) = 0
<1>1. IsFiniteSet(n .. L)
    BY FS_Interval
<1>2. \A i \in n .. L : f[i] \in Nat /\ f[i] \in Int
    OBVIOUS
<1>3. SumFunctionOnSet(f, n .. L) \in Nat
    BY <1>1, <1>2, SumNat
<1>4. ASSUME n <= L PROVE SumFunctionOnSet(f, n .. L) = f[n] + SumFunctionOnSet(f, (n + 1) .. L)
    <2>1. n \in n .. L /\ (n .. L) \ {n} = (n + 1) .. L
        BY <1>4
    <2>2. SumFunctionOnSet(f, n .. L) = f[n] + SumFunctionOnSet(f, (n .. L) \ {n})
        BY <1>1, <1>2, <2>1, SumRemove
    <2> QED
        BY <2>1, <2>2
<1>5. ASSUME n > L PROVE SumFunctionOnSet(f, n .. L) = 0
    <2>1. n .. L = {}
        BY <1>5
    <2> QED
        BY <2>1, SumEmpty
<1> QED
    BY <1>3, <1>4, <1>5
===============================================================================
