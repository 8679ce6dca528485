----------------------- MODULE StagedSelection_proofs -----------------------
(***************************************************************************)
(* What is installed is what was selected, for every request, manifest,    *)
(* board, list of packs and profiles, and every course of staging.         *)
(*                                                                         *)
(* Stage_proofs shows that what the install reads is what the plan has the *)
(* digests of.  What is left is a matter of the plan.  A plan flattens     *)
(* places, each with at most one file: a bootloader, two images, the seed  *)
(* of /home, the Minimal and one for every other profile.  What lands in a *)
(* place is right for it, and there whenever it is listed: WantedFits, for *)
(* the images by ShippedIs and FindIs, for the packs by PackForIs.  Since  *)
(* the names in different places differ (NamesDiffer), the plan is a list  *)
(* that Stage takes: PlanIsListing.                                        *)
(*                                                                         *)
(* The first section is about sequences: what flattening one of sequences  *)
(* of at most one element yields, a recursive function on indexes that is  *)
(* CHOSEn by its equation, as the sums of SumLemmas are.                   *)
(***************************************************************************)
EXTENDS StagedSelection, Stage_proofs

-------------------------------------------------------------------------------
(* Numbers and sequences. *)

\* A finite set of numbers has a least and a greatest element.
LEMMA Extremes ==
    ASSUME NEW S \in SUBSET Int, IsFiniteSet(S), S # {}
    PROVE  /\ \E n \in S : \A m \in S : n <= m
           /\ \E n \in S : \A m \in S : n >= m
<1> DEFINE Has(T) == /\ \E n \in T : \A m \in T : n <= m
                     /\ \E n \in T : \A m \in T : n >= m
           P == {T \in SUBSET S : T # {} => Has(T)}
<1>1. {} \in P
    OBVIOUS
<1>2. ASSUME NEW T \in SUBSET S, NEW x \in T, T \ {x} \in P
      PROVE  T \in P
    <2>1. CASE T = {x}
        BY <2>1
    <2>2. CASE T # {x}
        <3>1. Has(T \ {x})
            BY <1>2, <2>2
        <3>2. \A m \in T : m = x \/ m \in T \ {x}
            OBVIOUS
        <3>3. PICK low \in T \ {x} : \A m \in T \ {x} : low <= m
            BY <3>1
        <3>4. PICK high \in T \ {x} : \A m \in T \ {x} : high >= m
            BY <3>1
        <3>5. \E n \in T : \A m \in T : n <= m
            <4>1. CASE low <= x
                BY <3>2, <3>3, <4>1
            <4>2. CASE x <= low
                BY <3>2, <3>3, <4>2
            <4> QED
                BY <4>1, <4>2
        <3>6. \E n \in T : \A m \in T : n >= m
            <4>1. CASE high >= x
                BY <3>2, <3>4, <4>1
            <4>2. CASE x >= high
                BY <3>2, <3>4, <4>2
            <4> QED
                BY <4>1, <4>2
        <3> QED
            BY <3>5, <3>6
    <2> QED
        BY <2>1, <2>2
<1> HIDE DEF P
<1>3. S \in P
    BY <1>1, <1>2, SubsetInduction
<1> QED
    BY <1>3 DEF P

\* A set of numbers has a least element.
LEMMA LeastNat ==
    ASSUME NEW S \in SUBSET Nat, S # {}
    PROVE  \E n \in S : \A m \in S : n <= m
<1>1. PICK b \in S : TRUE
    OBVIOUS
<1> DEFINE T == S \cap 0 .. b
<1>2. T \in SUBSET Int /\ T # {} /\ IsFiniteSet(T)
    <2>1. IsFiniteSet(0 .. b)
        BY FS_Interval
    <2> QED
        BY <1>1, <2>1, FS_Subset
<1>3. PICK n \in T : \A m \in T : n <= m
    <2> HIDE DEF T
    <2> QED
        BY <1>2, Extremes
<1>4. ASSUME NEW m \in S PROVE n <= m
    BY <1>1, <1>3
<1> QED
    BY <1>3, <1>4

\* What holds of 0, and of the successor of each number it holds of, holds of every
\* number.
LEMMA NatSteps ==
    ASSUME NEW P, 0 \in P, \A n \in Nat : n \in P => n + 1 \in P
    PROVE  \A n \in Nat : n \in P
<1> SUFFICES ASSUME NEW b \in Nat, b \notin P PROVE FALSE
    OBVIOUS
<1> DEFINE B == {n \in Nat : n \notin P}
<1>1. PICK least \in B : \A m \in B : least <= m
    <2>1. B \in SUBSET Nat /\ B # {}
        OBVIOUS
    <2> HIDE DEF B
    <2> QED
        BY <2>1, LeastNat
<1>2. least \in Nat /\ least # 0 /\ least \notin P
    OBVIOUS
<1>3. least - 1 \in Nat /\ least - 1 \notin B
    BY <1>1, <1>2
<1> QED
    BY <1>2, <1>3

\* f joins the sequences one after the other, up to each of the first n.
Joins(f, seqs, n) ==
    f = [i \in 1 .. n |-> IF i = 1 THEN seqs[i] ELSE f[i - 1] \o seqs[i]]

\* The recursive definition, index by index.
LEMMA JoinsAt ==
    ASSUME NEW f, NEW seqs, NEW n \in Nat, Joins(f, seqs, n)
    PROVE  /\ n # 0 => f[1] = seqs[1]
           /\ \A i \in 1 .. n : i # 1 => f[i] = f[i - 1] \o seqs[i]
<1> DEFINE g == [k \in 1 .. n |-> IF k = 1 THEN seqs[k] ELSE f[k - 1] \o seqs[k]]
<1>1. f = g
    BY DEF Joins
<1>2. \A i \in 1 .. n : g[i] = IF i = 1 THEN seqs[i] ELSE f[i - 1] \o seqs[i]
    OBVIOUS
<1>3. n # 0 => g[1] = seqs[1]
    OBVIOUS
<1> HIDE DEF g
<1> QED
    BY <1>1, <1>2, <1>3

\* There is one for every n.
LEMMA JoinsExists ==
    ASSUME NEW seqs
    PROVE  \A n \in Nat : \E f : Joins(f, seqs, n)
<1> DEFINE P == {n \in Nat : \E f : Joins(f, seqs, n)}
<1>1. 0 \in P
    <2>1. Joins(<<>>, seqs, 0)
        BY DEF Joins
    <2> QED
        BY <2>1
<1>2. ASSUME NEW n \in Nat, n \in P PROVE n + 1 \in P
    <2>1. PICK f : Joins(f, seqs, n)
        BY <1>2
    <2> DEFINE last(i) == IF i = 1 THEN seqs[i] ELSE f[n] \o seqs[i]
               g == [i \in 1 .. n + 1 |->
                        IF i <= n THEN f[i] ELSE last(i)]
    <2>2. \A i \in 1 .. n : g[i] = f[i]
        OBVIOUS
    <2>3. \A i \in 1 .. n + 1 : g[i] = IF i = 1 THEN seqs[i] ELSE g[i - 1] \o seqs[i]
        <3>1. g[1] = seqs[1]
            <4>1. CASE n = 0
                BY <4>1
            <4>2. CASE n # 0
                <5>1. 1 \in 1 .. n
                    BY <4>2
                <5>2. f[1] = seqs[1]
                    BY <2>1, <4>2, JoinsAt, Zenon
                <5> HIDE DEF g
                <5> QED
                    BY <2>2, <5>1, <5>2
            <4> QED
                BY <4>1, <4>2
        <3> SUFFICES ASSUME NEW i \in 1 .. n + 1, i # 1
                     PROVE  g[i] = g[i - 1] \o seqs[i]
            BY <3>1
        <3> HIDE DEF g
        <3>2. i - 1 \in 1 .. n
            OBVIOUS
        <3>3. g[i - 1] = f[i - 1]
            BY <3>2, <2>2
        <3>4. CASE i = n + 1
            <4>1. g[i] = last(i)
                <5> HIDE DEF last
                <5> QED
                    BY <3>4 DEF g
            <4>2. i - 1 = n
                BY <3>4
            <4> QED
                BY <3>3, <4>1, <4>2, Zenon
        <3>5. CASE i # n + 1
            <4>1. i \in 1 .. n
                BY <3>5
            <4>2. g[i] = f[i]
                BY <4>1, <2>2, Zenon
            <4>3. f[i] = f[i - 1] \o seqs[i]
                BY <4>1, <2>1, JoinsAt
            <4> QED
                BY <4>2, <4>3, <3>3, Zenon
        <3> QED
            BY <3>4, <3>5
    <2>4. g = [i \in 1 .. n + 1 |-> g[i]]
        OBVIOUS
    <2> HIDE DEF g
    <2>5. Joins(g, seqs, n + 1)
        BY <2>3, <2>4 DEF Joins
    <2> QED
        BY <2>5
<1> HIDE DEF P
<1>3. \A n \in Nat : n \in P
    BY <1>1, <1>2, NatSteps
<1> QED
    BY <1>3 DEF P

\* FlattenSeq is one.
LEMMA FlattenIs ==
    ASSUME NEW seqs, Len(seqs) \in Nat \ {0}
    PROVE  \E f : /\ FlattenSeq(seqs) = f[Len(seqs)]
                  /\ f[1] = seqs[1]
                  /\ \A i \in 1 .. Len(seqs) : i # 1 => f[i] = f[i - 1] \o seqs[i]
<1> DEFINE f == CHOOSE f : Joins(f, seqs, Len(seqs))
           n == Len(seqs)
<1>1. FlattenSeq(seqs) = f[n]
    BY DEF FlattenSeq, Joins
<1>2. Joins(f, seqs, n) /\ n \in Nat /\ n # 0
    BY JoinsExists
<1> HIDE DEF f, n
<1>3. \A i \in 1 .. n : i # 1 => f[i] = f[i - 1] \o seqs[i]
    BY <1>2, JoinsAt
<1>4. f[1] = seqs[1]
    BY <1>2, JoinsAt, Zenon
<1> QED
    BY <1>1, <1>3, <1>4 DEF n

\* s is what the first n of opts hold, each at most one; src says which of them.
Gathers(opts, n, s, src) ==
    /\ src \in [1 .. Len(s) -> 1 .. n]
    /\ \A k, l \in 1 .. Len(s) : k # l => src[k] # src[l]
    /\ \A k \in 1 .. Len(s) : opts[src[k]] = <<s[k]>>
    /\ \A i \in 1 .. n : opts[i] # <<>> => \E k \in 1 .. Len(s) : src[k] = i

\* A sequence of at most one.
LEMMA SingleIs ==
    ASSUME NEW S, NEW o \in Seq(S), Len(o) <= 1, o # <<>>
    PROVE  \E x \in S : o = <<x>>
<1> DEFINE n == Len(o)
<1>1. n # 0 /\ n \in Nat /\ n <= 1
    <2>1. Len(o) # 0
        BY EmptySeq
    <2>2. Len(o) \in Nat
        BY LenProperties
    <2> QED
        BY <2>1, <2>2
<1> HIDE DEF n
<1>2. n = 1
    BY <1>1
<1>3. Len(o) = 1
    BY <1>2 DEF n
<1>4. o = <<o[1]>> /\ o[1] \in S
    BY <1>3
<1> QED
    BY <1>4

\* One more.
LEMMA GathersOne ==
    ASSUME NEW S, NEW opts, NEW n \in Nat, NEW s \in Seq(S), NEW src,
           Gathers(opts, n, s, src), opts[n + 1] \in Seq(S), Len(opts[n + 1]) <= 1
    PROVE  \E to : Gathers(opts, n + 1, s \o opts[n + 1], to)
<1>1. CASE opts[n + 1] = <<>>
    <2>1. s \o opts[n + 1] = s
        BY <1>1
    <2>2. Gathers(opts, n + 1, s, src)
        BY <1>1 DEF Gathers
    <2> QED
        BY <2>1, <2>2
<1>2. CASE opts[n + 1] # <<>>
    <2>1. PICK x \in S : opts[n + 1] = <<x>>
        BY <1>2, SingleIs
    <2> DEFINE t == s \o <<x>>
               to == [k \in 1 .. Len(s) + 1 |-> IF k <= Len(s) THEN src[k] ELSE n + 1]
    <2>2. /\ Len(t) = Len(s) + 1 /\ t[Len(s) + 1] = x
          /\ \A k \in 1 .. Len(s) : t[k] = s[k]
        OBVIOUS
    <2>3. /\ to[Len(s) + 1] = n + 1
          /\ \A k \in 1 .. Len(s) : to[k] = src[k]
        OBVIOUS
    <2>4. to \in [1 .. Len(t) -> 1 .. n + 1]
        BY <2>2 DEF Gathers
    <2> HIDE DEF t, to
    <2>5. \A k \in 1 .. Len(t) : k = Len(s) + 1 \/ k \in 1 .. Len(s)
        BY <2>2
    <2>6. \A k \in 1 .. Len(s) : to[k] \in 1 .. n /\ to[k] # n + 1
        BY <2>3 DEF Gathers
    <2>7. \A k, l \in 1 .. Len(t) : k # l => to[k] # to[l]
        BY <2>3, <2>5, <2>6 DEF Gathers
    <2>8. \A k \in 1 .. Len(t) : opts[to[k]] = <<t[k]>>
        BY <2>1, <2>2, <2>3, <2>5 DEF Gathers
    <2>9. ASSUME NEW i \in 1 .. n + 1, opts[i] # <<>>
          PROVE  \E k \in 1 .. Len(t) : to[k] = i
        <3>1. CASE i = n + 1
            <4>1. Len(s) + 1 \in 1 .. Len(t)
                BY <2>2
            <4> QED
                BY <2>3, <3>1, <4>1
        <3>2. CASE i # n + 1
            <4>1. PICK k \in 1 .. Len(s) : src[k] = i
                BY <2>9, <3>2 DEF Gathers
            <4>2. k \in 1 .. Len(t) /\ to[k] = i
                BY <2>2, <2>3, <4>1
            <4> QED
                BY <4>2
        <3> QED
            BY <3>1, <3>2
    <2>10. Gathers(opts, n + 1, t, to)
        BY <2>4, <2>7, <2>8, <2>9 DEF Gathers
    <2> QED
        BY <2>1, <2>10 DEF t
<1> QED
    BY <1>1, <1>2

\* What is flattened is what there is, once each.
LEMMA FlattenGathers ==
    ASSUME NEW S, NEW opts \in Seq(Seq(S)), Len(opts) # 0,
           \A i \in 1 .. Len(opts) : Len(opts[i]) <= 1
    PROVE  /\ FlattenSeq(opts) \in Seq(S)
           /\ \E src : Gathers(opts, Len(opts), FlattenSeq(opts), src)
<1>1. Len(opts) \in Nat \ {0}
    OBVIOUS
<1>2. PICK f : /\ FlattenSeq(opts) = f[Len(opts)]
               /\ f[1] = opts[1]
               /\ \A i \in 1 .. Len(opts) : i # 1 => f[i] = f[i - 1] \o opts[i]
    BY <1>1, FlattenIs
<1> DEFINE Sofar(n) == f[n] \in Seq(S) /\ \E src : Gathers(opts, n, f[n], src)
           P == {n \in Nat : n \in 1 .. Len(opts) => Sofar(n)}
<1>3. 0 \in P
    OBVIOUS
<1>4. ASSUME NEW n \in Nat, n \in P PROVE n + 1 \in P
    <2> SUFFICES ASSUME n + 1 \in 1 .. Len(opts) PROVE Sofar(n + 1)
        OBVIOUS
    <2>1. opts[n + 1] \in Seq(S) /\ Len(opts[n + 1]) <= 1
        OBVIOUS
    <2>2. CASE n = 0
        <3>1. Gathers(opts, 0, <<>>, <<>>)
            BY DEF Gathers
        <3>2. <<>> \in Seq(S) /\ <<>> \o opts[n + 1] = opts[n + 1]
            BY <2>1
        <3>3. \E to : Gathers(opts, n + 1, <<>> \o opts[n + 1], to)
            BY <2>1, <2>2, <3>1, <3>2, GathersOne
        <3>4. f[n + 1] = opts[n + 1]
            <4>1. n + 1 = 1
                BY <2>2
            <4> QED
                BY <1>2, <4>1, Zenon
        <3> QED
            BY <2>1, <3>2, <3>3, <3>4, Zenon
    <2>3. CASE n # 0
        <3>1. Sofar(n)
            BY <1>4, <2>3
        <3>2. PICK src : Gathers(opts, n, f[n], src)
            BY <3>1
        <3>3. \E to : Gathers(opts, n + 1, f[n] \o opts[n + 1], to)
            BY <2>1, <3>1, <3>2, GathersOne
        <3>4. f[n + 1] = f[n] \o opts[n + 1]
            <4>1. n + 1 # 1 /\ (n + 1) - 1 = n
                BY <2>3
            <4> QED
                BY <1>2, <4>1, Zenon
        <3>5. f[n] \o opts[n + 1] \in Seq(S)
            BY <2>1, <3>1
        <3> QED
            BY <3>3, <3>4, <3>5, Zenon
    <2> QED
        BY <2>2, <2>3
<1>5. Len(opts) \in 1 .. Len(opts)
    OBVIOUS
<1> HIDE DEF P
<1>6. \A n \in Nat : n \in P
    BY <1>3, <1>4, NatSteps
<1> QED
    BY <1>2, <1>5, <1>6 DEF P

\* An index among the first n is found, the least or the greatest there is.
LEMMA FoundIs ==
    ASSUME NEW n \in Nat, NEW I \in SUBSET (1 .. n), I # {}
    PROVE  Min(I) \in I /\ Max(I) \in I /\ Min(I) # 0 /\ Max(I) # 0
<1>1. IsFiniteSet(I) /\ I \in SUBSET Int
    <2>1. IsFiniteSet(1 .. n)
        BY FS_Interval
    <2>2. IsFiniteSet(I)
        BY <2>1, FS_Subset
    <2> QED
        BY <2>2
<1>2. \E i \in I : \A k \in I : i <= k
    BY <1>1, Extremes
<1>3. \E i \in I : \A k \in I : i >= k
    BY <1>1, Extremes
<1>4. Min(I) \in I
    BY <1>2 DEF Min
<1>5. Max(I) \in I
    BY <1>3 DEF Max
<1> QED
    BY <1>4, <1>5

\* A request an install may be started from.
Startable(r) ==
    /\ \A o \in Optional(r) : o = <<>> \/ DOMAIN o = {1}
    /\ \A listed \in Manifests(r) : Manifest(listed) /\ Truthful(listed)
    /\ CanStart(r)
-------------------------------------------------------------------------------
(* Images. *)

\* What may be found is nothing, or one file that is such an image for the board.
ImageFor(o, name, item, whom) ==
    o # <<>> =>
        \E f : /\ o = <<f>> /\ NameOf(f) = name
               /\ f.sha \in Contents \cup {"none"} /\ f.size \in Nat
               /\ f.sha # "none" => Purpose[f.sha] = Use(item, whom)

\* Such an image is what its path says, the board's by its directory.
Tells(name, item) ==
    /\ name \in Images
    /\ \A path \in Seq(STRING) :
          Len(path) > 1 /\ BaseName(path) = name => UseOf(path) = Use(item, path[Len(path) - 1])

\* The names of the images tell the items.
LEMMA ImagesTell ==
    /\ Tells(UbootImage, "u-boot") /\ Tells(BootMenuImage, "menu") /\ Tells(RecoveryImage, "recovery")
<1>1. ASSUME NEW path \in Seq(STRING), Len(path) > 1
      PROVE  /\ BaseName(path) = UbootImage => UseOf(path) = Use("u-boot", path[Len(path) - 1])
             /\ BaseName(path) = BootMenuImage => UseOf(path) = Use("menu", path[Len(path) - 1])
             /\ BaseName(path) = RecoveryImage => UseOf(path) = Use("recovery", path[Len(path) - 1])
    <2> DEFINE b == BaseName(path)
    <2>1. DOMAIN Packs \cap Images = {}
        BY PacksAssumption
    <2>2. b \in {UbootImage, BootMenuImage, RecoveryImage} => b \notin DOMAIN Packs
        BY <2>1 DEF Images
    <2> HIDE DEF b
    <2>3. UbootImage # BootMenuImage /\ UbootImage # RecoveryImage /\ BootMenuImage # RecoveryImage
        BY DEF UbootImage, BootMenuImage, RecoveryImage
    <2> QED
        BY <2>2, <2>3, Zenon DEF UseOf, b
<1> QED
    BY <1>1 DEF Tells, Images

\* The entry of a manifest that is found is what its path says.
LEMMA EntryIs ==
    ASSUME NEW listed, Manifest(listed), Truthful(listed), NEW i \in DOMAIN listed
    PROVE  /\ listed[i].path \in Seq(STRING) /\ listed[i].path # <<>>
           /\ listed[i].sha \in Contents \cup {"none"} /\ listed[i].size \in Nat
           /\ BaseName(listed[i].path) \in DOMAIN Packs \/
                 (BaseName(listed[i].path) \in Images /\ Len(listed[i].path) > 1)
              => (listed[i].sha # "none" => Purpose[listed[i].sha] = UseOf(listed[i].path))
<1>1. listed[i] \in [path : Seq(STRING), sha : Contents \cup {"none"}, size : Nat]
    <2> DEFINE R == [path : Seq(STRING), sha : Contents \cup {"none"}, size : Nat]
    <2>1. listed \in Seq(R)
        BY DEF Manifest
    <2> HIDE DEF R
    <2>2. i \in 1 .. Len(listed)
        BY <2>1, LenProperties
    <2>3. listed[i] \in R
        BY <2>1, <2>2, ElementOfSeq
    <2> QED
        BY <2>3 DEF R
<1>2. listed[i].path # <<>>
    BY DEF Manifest
<1> DEFINE e == listed[i]
<1>3. BaseName(e.path) \in DOMAIN Packs \/ (BaseName(e.path) \in Images /\ Len(e.path) > 1)
      => (e.sha # "none" => Purpose[e.sha] = UseOf(e.path))
    BY DEF Truthful
<1> QED
    BY <1>1, <1>2, <1>3

\* Of a build: the last two names of the path are the location that was listed.
LEMMA SuffixIs ==
    ASSUME NEW path \in Seq(STRING), NEW dir, NEW name, IsSuffix(<<dir, name>>, path)
    PROVE  Len(path) > 1 /\ BaseName(path) = name /\ path[Len(path) - 1] = dir
BY DEF IsSuffix, IsPrefix, Reverse, BaseName, Last

\* Of a manifest: its domain.
LEMMA ManifestIs ==
    ASSUME NEW listed, Manifest(listed)
    PROVE  Len(listed) \in Nat /\ DOMAIN listed = 1 .. Len(listed)
<1> DEFINE R == [path : Seq(STRING), sha : Contents \cup {"none"}, size : Nat]
<1>1. listed \in Seq(R)
    BY DEF Manifest
<1> HIDE DEF R
<1> QED
    BY <1>1, LenProperties

\* One image of a bundle's board directory, if and only if it is listed.
LEMMA ShippedIs ==
    ASSUME NEW b, Manifest(b.files), Truthful(b.files), NEW kind, NEW dir, NEW name, NEW item,
           Tells(name, item)
    PROVE  LET o == Shipped(b, <<kind, dir, name>>)
           IN /\ o = <<>> \/ \E f : o = <<f>>
              /\ ImageFor(o, name, item, dir)
              /\ o # <<>> <=> \E f \in ToSet(b.files) : f.path = <<kind, dir, name>>
<1> DEFINE path == <<kind, dir, name>>
           I == {i \in 1 .. Len(b.files) : b.files[i].path = path}
           hit == FirstOf(b.files, LAMBDA f : f.path = path)
           o == Shipped(b, path)
<1>1. hit = IF I # {} THEN At(b.files, Min(I)) ELSE <<>>
    BY DEF FirstOf, SelectInSeq, At
<1>2. o = [i \in DOMAIN hit |-> Located(b.root, path, hit[i])]
    BY DEF Shipped
<1>3. Len(b.files) \in Nat /\ DOMAIN b.files = 1 .. Len(b.files)
    BY ManifestIs
<1>4. I # {} <=> \E f \in ToSet(b.files) : f.path = path
    BY <1>3 DEF ToSet
<1>5. CASE I = {}
    <2>1. hit = <<>>
        BY <1>1, <1>5
    <2> HIDE DEF hit
    <2>2. o = <<>>
        BY <1>2, <2>1
    <2> QED
        BY <1>4, <1>5, <2>2 DEF ImageFor
<1>6. CASE I # {}
    <2> DEFINE n == Min(I)
               e == b.files[n]
               f == Located(b.root, path, e)
    <2>1. n \in I /\ n # 0
        BY <1>3, <1>6, FoundIs
    <2> HIDE DEF n, hit
    <2>2. hit = <<e>>
        BY <1>1, <1>6, <2>1 DEF At, n
    <2>3. o = <<f>>
        BY <1>2, <2>2
    <2>4. NameOf(f) = name
        BY DEF NameOf, BaseName, Last, Located
    <2>5. n \in DOMAIN b.files /\ e.path = path
        BY <1>3, <2>1
    <2>6. /\ e.path \in Seq(STRING)
          /\ e.sha \in Contents \cup {"none"} /\ e.size \in Nat
          /\ BaseName(e.path) \in Images /\ Len(e.path) > 1
             => (e.sha # "none" => Purpose[e.sha] = UseOf(e.path))
        BY <2>5, EntryIs
    <2>7. Len(path) = 3 /\ BaseName(path) = name /\ path[Len(path) - 1] = dir
        BY DEF BaseName, Last
    <2>8. /\ e.sha \in Contents \cup {"none"} /\ e.size \in Nat
          /\ e.sha # "none" => Purpose[e.sha] = Use(item, dir)
        <3> HIDE DEF e, path
        <3>1. Len(path) > 1
            BY <2>7
        <3>2. UseOf(path) = Use(item, dir)
            BY <2>5, <2>6, <2>7, <3>1 DEF Tells
        <3> QED
            BY <2>5, <2>6, <2>7, <3>1, <3>2 DEF Tells
    <2>9. f.sha = e.sha /\ f.size = e.size
        BY DEF Located
    <2> HIDE DEF e, f, o
    <2>10. ImageFor(o, name, item, dir) /\ o # <<>>
        BY <2>3, <2>4, <2>8, <2>9 DEF ImageFor
    <2> QED
        BY <1>4, <1>6, <2>3, <2>10 DEF o
<1> QED
    BY <1>5, <1>6

\* One image of a build.
LEMMA FindIs ==
    ASSUME NEW b, Manifest(b.files), Truthful(b.files), NEW dir, NEW name, NEW item,
           Tells(name, item)
    PROVE  LET o == FindForBoard(b, dir, name)
           IN (o = <<>> \/ \E f : o = <<f>>) /\ ImageFor(o, name, item, dir)
<1> DEFINE I == {i \in 1 .. Len(b.files) : IsSuffix(<<dir, name>>, b.files[i].path)}
           hit == FirstOf(b.files, LAMBDA f : IsSuffix(<<dir, name>>, f.path))
           o == FindForBoard(b, dir, name)
<1>1. hit = IF I # {} THEN At(b.files, Min(I)) ELSE <<>>
    BY DEF FirstOf, SelectInSeq, At
<1>2. o = IF b.loaded THEN [i \in DOMAIN hit |-> Located(b.root, <<dir, name>>, hit[i])] ELSE <<>>
    BY DEF FindForBoard
<1>3. Len(b.files) \in Nat /\ DOMAIN b.files = 1 .. Len(b.files)
    BY ManifestIs
<1>4. CASE ~b.loaded
    <2>1. o = <<>>
        BY <1>2, <1>4
    <2> QED
        BY <2>1 DEF ImageFor
<1>5. CASE b.loaded /\ I = {}
    <2>1. hit = <<>>
        BY <1>1, <1>5
    <2> HIDE DEF hit
    <2>2. o = <<>>
        BY <1>2, <1>5, <2>1
    <2> QED
        BY <2>2 DEF ImageFor
<1>6. CASE b.loaded /\ I # {}
    <2> DEFINE n == Min(I)
               e == b.files[n]
               f == Located(b.root, <<dir, name>>, e)
    <2>1. n \in I /\ n # 0
        BY <1>3, <1>6, FoundIs
    <2> HIDE DEF n, hit
    <2>2. hit = <<e>>
        BY <1>1, <1>6, <2>1 DEF At, n
    <2>3. o = <<f>>
        BY <1>2, <1>6, <2>2
    <2>4. NameOf(f) = name
        BY DEF NameOf, BaseName, Last, Located
    <2>5. n \in DOMAIN b.files /\ IsSuffix(<<dir, name>>, e.path)
        BY <1>3, <2>1
    <2>6. /\ e.path \in Seq(STRING)
          /\ e.sha \in Contents \cup {"none"} /\ e.size \in Nat
          /\ BaseName(e.path) \in Images /\ Len(e.path) > 1
             => (e.sha # "none" => Purpose[e.sha] = UseOf(e.path))
        BY <2>5, EntryIs
    <2>7. Len(e.path) > 1 /\ BaseName(e.path) = name /\ e.path[Len(e.path) - 1] = dir
        <3> HIDE DEF e
        <3> QED
            BY <2>5, <2>6, SuffixIs
    <2>8. /\ e.sha \in Contents \cup {"none"} /\ e.size \in Nat
          /\ e.sha # "none" => Purpose[e.sha] = Use(item, dir)
        <3> HIDE DEF e
        <3>1. UseOf(e.path) = Use(item, dir)
            BY <2>6, <2>7 DEF Tells
        <3> QED
            BY <2>6, <2>7, <3>1 DEF Tells
    <2>9. f.sha = e.sha /\ f.size = e.size
        BY DEF Located
    <2> HIDE DEF e, f, o
    <2>10. ImageFor(o, name, item, dir)
        BY <2>3, <2>4, <2>8, <2>9 DEF ImageFor
    <2> QED
        BY <2>3, <2>10 DEF o
<1> QED
    BY <1>4, <1>5, <1>6
-------------------------------------------------------------------------------
(* Packs. *)

\* The directory and the files the packs of a request are looked for in.
PackDir(r) == IF r.mode = "bundle" THEN <<"profile-packs">> ELSE <<>>
PacksOf(r) ==
    IF r.mode = "bundle" THEN BundlePacks(r.bundle[1])
    ELSE IF r.rootfs.loaded THEN BuildPacks(r.rootfs) ELSE <<>>
PackList(r) == IF r.mode = "bundle" THEN r.bundle[1].files ELSE r.rootfs.files

\* The profiles there are packs of.
NamedIn(dir, packs) ==
    {Packs[NameOf(f)].profile :
        f \in {g \in ToSet(packs) : IsPack(dir, g) /\ Packs[NameOf(g)].kind # "home"}}

\* The fields of what is read.
LEMMA ReadIs ==
    ASSUME NEW dir, NEW packs
    PROVE  LET build == ReadPacks(dir, packs)
           IN /\ build.profiles = NamedIn(dir, packs)
              /\ build.home = PackFor(dir, packs, "home", "home")
              /\ \A p \in NamedIn(dir, packs) :
                    /\ build.full[p] = PackFor(dir, packs, "full", p)
                    /\ build.inc[p] = PackFor(dir, packs, "inc", p)
<1> DEFINE named == NamedIn(dir, packs)
<1>1. ReadPacks(dir, packs) =
        [profiles |-> named,
         full |-> [p \in named |-> PackFor(dir, packs, "full", p)],
         inc  |-> [p \in named |-> PackFor(dir, packs, "inc", p)],
         home |-> PackFor(dir, packs, "home", "home")]
    BY Zenon DEF ReadPacks, NamedIn
<1> HIDE DEF named
<1> QED
    BY <1>1 DEF named

\* Packs are read in the same way for a bundle and for a build.
LEMMA BuildIs ==
    ASSUME NEW r
    PROVE  Selected(r).build = ReadPacks(PackDir(r), PacksOf(r))
BY DEF Selected, Resolve, Custom, PackDir, PacksOf

\* The manifest of a request that it has.
LEMMA PackListIs ==
    ASSUME NEW r, Startable(r)
    PROVE  /\ Manifest(PackList(r)) /\ Truthful(PackList(r))
           /\ SourceFiles(r) = ToSet(PackList(r))
           /\ r.mode = "bundle" => DOMAIN r.bundle = {1}
<1>1. CASE r.mode = "bundle"
    <2>1. DOMAIN r.bundle = {1}
        <3>1. r.bundle # <<>>
            BY <1>1 DEF Startable, CanStart
        <3>2. r.bundle \in Optional(r)
            BY <1>1 DEF Optional
        <3> QED
            BY <3>1, <3>2 DEF Startable
    <2>2. r.bundle[1] \in ToSet(r.bundle)
        BY <2>1 DEF ToSet
    <2>3. r.bundle[1].files \in Manifests(r)
        BY <1>1, <2>2 DEF Manifests
    <2> QED
        BY <1>1, <2>1, <2>3 DEF Startable, PackList, SourceFiles
<1>2. CASE r.mode # "bundle"
    <2>1. r.rootfs.files \in Manifests(r)
        BY <1>2 DEF Manifests, Builds
    <2> QED
        BY <1>2, <2>1 DEF Startable, PackList, SourceFiles
<1> QED
    BY <1>1, <1>2

\* The first Minimal of the order that the build has.
LEMMA MinimalIs ==
    ASSUME NEW build, MinimalOf(build) # <<>>
    PROVE  \E p : MinimalOf(build) = <<p>> /\ p \in build.profiles \cap Minimals
<1> DEFINE I == {i \in 1 .. Len(Profiles) : Profiles[i] \in build.profiles \cap Minimals}
<1>1. MinimalOf(build) = IF I # {} THEN At(Profiles, Min(I)) ELSE <<>>
    BY DEF MinimalOf, FirstOf, SelectInSeq, At
<1>2. Len(Profiles) \in Nat
    BY PacksAssumption, LenProperties
<1>3. I # {}
    BY <1>1
<1>4. Min(I) \in I /\ Min(I) # 0
    BY <1>2, <1>3, FoundIs
<1>5. MinimalOf(build) = <<Profiles[Min(I)]>>
    BY <1>1, <1>3, <1>4 DEF At
<1> QED
    BY <1>4, <1>5

\* There is one when an install may start.
LEMMA MinimalFound ==
    ASSUME NEW r, Startable(r)
    PROVE  \E p : /\ MinimalOf(Selected(r).build) = <<p>>
                  /\ p \in Selected(r).build.profiles \cap Minimals
BY MinimalIs DEF Startable, CanStart

\* A name appended to a path of at most one name.
LEMMA AppendOne ==
    ASSUME NEW x, NEW y
    PROVE  Append(<<x>>, y) = <<x, y>> /\ Append(<<>>, y) = <<y>>
<1> DEFINE S == {x, y}
           t == Append(<<x>>, y)
           u == <<x, y>>
<1>1. t \in Seq(S) /\ Len(t) = 2 /\ t[1] = x /\ t[2] = y
    <2>1. <<x>> \in Seq(S) /\ y \in S
        OBVIOUS
    <2> QED
        BY <2>1, AppendProperties
<1>2. u \in Seq(S) /\ Len(u) = 2 /\ u[1] = x /\ u[2] = y
    OBVIOUS
<1> HIDE DEF t, u, S
<1>3. t = u
    <2>1. \A i \in 1 .. 2 : t[i] = u[i]
        BY <1>1, <1>2
    <2> QED
        BY <1>1, <1>2, <2>1, SeqEqual
<1> QED
    BY <1>3 DEF t, u

\* The packs of a request are files of its manifest, all of them, under their own names.
LEMMA PacksAre ==
    ASSUME NEW r, Startable(r)
    PROVE  /\ Len(PacksOf(r)) \in Nat /\ DOMAIN PacksOf(r) = 1 .. Len(PacksOf(r))
           /\ DOMAIN PacksOf(r) = DOMAIN PackList(r)
           /\ \A i \in DOMAIN PacksOf(r) :
                LET e == PackList(r)[i]
                    f == PacksOf(r)[i]
                IN /\ NameOf(f) = BaseName(e.path) /\ f.sha = e.sha /\ f.size = e.size
                   /\ IsPack(PackDir(r), f) <=>
                        /\ BaseName(e.path) \in DOMAIN Packs
                        /\ r.mode = "bundle" => e.path = <<"profile-packs", BaseName(e.path)>>
<1> DEFINE list == PackList(r)
<1>1. Manifest(list) /\ Len(list) \in Nat /\ DOMAIN list = 1 .. Len(list)
    BY PackListIs, ManifestIs
<1>2. ASSUME NEW root, NEW path, NEW e
      PROVE  LET f == Located(root, path, e)
             IN NameOf(f) = Last(path) /\ f.sha = e.sha /\ f.size = e.size /\ f.loc[2] = path
    BY DEF Located, NameOf, BaseName
<1>3. CASE r.mode = "bundle"
    <2> DEFINE b == r.bundle[1]
    <2>1. PacksOf(r) = [i \in DOMAIN list |-> Located(b.root, list[i].path, list[i])]
        BY <1>3 DEF PacksOf, PackList, BundlePacks
    <2>2. Len(PacksOf(r)) = Len(list) /\ DOMAIN PacksOf(r) = DOMAIN list
        BY <1>1, <2>1
    <2> SUFFICES ASSUME NEW i \in DOMAIN list
                 PROVE  LET e == list[i]
                            f == PacksOf(r)[i]
                        IN /\ NameOf(f) = BaseName(e.path) /\ f.sha = e.sha /\ f.size = e.size
                           /\ IsPack(PackDir(r), f) <=>
                                /\ BaseName(e.path) \in DOMAIN Packs
                                /\ e.path = <<"profile-packs", BaseName(e.path)>>
        BY <1>1, <1>3, <2>2
    <2> DEFINE e == list[i]
               f == PacksOf(r)[i]
    <2>3. f = Located(b.root, e.path, e)
        BY <2>1
    <2> HIDE DEF e, f, list
    <2>4. NameOf(f) = BaseName(e.path) /\ f.sha = e.sha /\ f.size = e.size /\ f.loc[2] = e.path
        BY <1>2, <2>3 DEF BaseName
    <2>5. Append(<<"profile-packs">>, BaseName(e.path)) = <<"profile-packs", BaseName(e.path)>>
        BY AppendOne
    <2> QED
        BY <1>3, <2>4, <2>5 DEF IsPack, PackDir, e, f
<1>4. CASE r.mode # "bundle"
    <2>1. r.rootfs.loaded
        <3> SUFFICES ASSUME ~r.rootfs.loaded PROVE FALSE
            OBVIOUS
        <3>1. PacksOf(r) = <<>>
            BY <1>4 DEF PacksOf
        <3>2. Selected(r).build.profiles = {}
            <4>1. ToSet(PacksOf(r)) = {}
                BY <3>1 DEF ToSet
            <4>2. NamedIn(PackDir(r), PacksOf(r)) = {}
                BY <4>1 DEF NamedIn
            <4> QED
                BY <4>2, BuildIs, ReadIs
        <3> QED
            BY <3>2, MinimalFound
    <2>2. PacksOf(r) = [i \in DOMAIN list |-> Located(r.rootfs.root, <<BaseName(list[i].path)>>, list[i])]
        BY <1>4, <2>1 DEF PacksOf, PackList, BuildPacks
    <2>3. Len(PacksOf(r)) = Len(list) /\ DOMAIN PacksOf(r) = DOMAIN list
        BY <1>1, <2>2
    <2> SUFFICES ASSUME NEW i \in DOMAIN list
                 PROVE  LET e == list[i]
                            f == PacksOf(r)[i]
                        IN /\ NameOf(f) = BaseName(e.path) /\ f.sha = e.sha /\ f.size = e.size
                           /\ IsPack(PackDir(r), f) <=> BaseName(e.path) \in DOMAIN Packs
        BY <1>1, <1>4, <2>3
    <2> DEFINE e == list[i]
               f == PacksOf(r)[i]
    <2>4. f = Located(r.rootfs.root, <<BaseName(e.path)>>, e)
        BY <2>2
    <2> HIDE DEF e, f, list
    <2>5. Last(<<BaseName(e.path)>>) = BaseName(e.path)
        BY DEF Last
    <2>6. /\ NameOf(f) = BaseName(e.path) /\ f.sha = e.sha /\ f.size = e.size
          /\ f.loc[2] = <<BaseName(e.path)>>
        BY <1>2, <2>4, <2>5
    <2>7. Append(<<>>, BaseName(e.path)) = <<BaseName(e.path)>>
        BY AppendOne
    <2> QED
        BY <1>4, <2>6, <2>7 DEF IsPack, PackDir, e, f
<1> QED
    BY <1>3, <1>4

\* The i-th file is such a pack, in the directory of the packs.
PackAt(r, i, kind, profile) ==
    /\ IsPack(PackDir(r), PacksOf(r)[i])
    /\ Packs[NameOf(PacksOf(r)[i])] = [kind |-> kind, profile |-> profile]

\* A pack is listed if and only if such a file is among the packs.
LEMMA ListsPackIs ==
    ASSUME NEW r, Startable(r), NEW kind, NEW profile
    PROVE  ListsPack(r, kind, profile) <=> \E i \in DOMAIN PacksOf(r) : PackAt(r, i, kind, profile)
<1> DEFINE list == PackList(r)
           packs == PacksOf(r)
           Fits(f) == /\ BaseName(f.path) \in DOMAIN Packs
                      /\ Packs[BaseName(f.path)] = [kind |-> kind, profile |-> profile]
                      /\ r.mode = "bundle" => f.path = <<"profile-packs", BaseName(f.path)>>
<1>1. ListsPack(r, kind, profile) <=> \E f \in ToSet(list) : Fits(f)
    BY PackListIs DEF ListsPack
<1>2. (\E f \in ToSet(list) : Fits(f)) <=> \E i \in DOMAIN list : Fits(list[i])
    <2> HIDE DEF list, Fits
    <2> QED
        BY DEF ToSet
<1>3. DOMAIN packs = DOMAIN list
    BY PacksAre
<1>4. ASSUME NEW i \in DOMAIN packs
      PROVE  Fits(list[i]) <=> PackAt(r, i, kind, profile)
    <2>1. /\ NameOf(packs[i]) = BaseName(list[i].path)
          /\ IsPack(PackDir(r), packs[i]) <=>
                /\ BaseName(list[i].path) \in DOMAIN Packs
                /\ r.mode = "bundle" => list[i].path = <<"profile-packs", BaseName(list[i].path)>>
        BY PacksAre
    <2> HIDE DEF list
    <2> QED
        BY <2>1 DEF PackAt
<1> HIDE DEF list, packs, Fits
<1>5. (\E i \in DOMAIN list : Fits(list[i])) <=> \E i \in DOMAIN packs : PackAt(r, i, kind, profile)
    BY <1>3, <1>4
<1> QED
    BY <1>1, <1>2, <1>5 DEF packs

\* A pack of a kind and profile, if and only if one is listed.
LEMMA PackForIs ==
    ASSUME NEW r, Startable(r), NEW kind, NEW profile
    PROVE  LET o == PackFor(PackDir(r), PacksOf(r), kind, profile)
           IN /\ o # <<>> <=> ListsPack(r, kind, profile)
              /\ o # <<>> =>
                   \E f : /\ o = <<f>> /\ NameOf(f) \in DOMAIN Packs
                          /\ Packs[NameOf(f)] = [kind |-> kind, profile |-> profile]
                          /\ f.sha \in Contents \cup {"none"} /\ f.size \in Nat
                          /\ f.sha # "none" => Purpose[f.sha] = Use(kind, profile)
<1> DEFINE list == PackList(r)
           packs == PacksOf(r)
           I == {i \in 1 .. Len(packs) : /\ IsPack(PackDir(r), packs[i])
                                         /\ Packs[NameOf(packs[i])] = [kind |-> kind, profile |-> profile]}
           o == PackFor(PackDir(r), packs, kind, profile)
<1>1. o = IF I # {} THEN At(packs, Max(I)) ELSE <<>>
    BY DEF PackFor, LastOf, SelectLastInSeq, At
<1>2. Len(packs) \in Nat /\ DOMAIN packs = 1 .. Len(packs) /\ DOMAIN packs = DOMAIN list
    BY PacksAre
<1>3. I # {} <=> ListsPack(r, kind, profile)
    <2>1. I = {i \in DOMAIN packs : PackAt(r, i, kind, profile)}
        BY <1>2 DEF PackAt
    <2> HIDE DEF I
    <2> QED
        BY <2>1, ListsPackIs
<1>4. CASE I = {}
    BY <1>1, <1>3, <1>4
<1>5. CASE I # {}
    <2> DEFINE n == Max(I)
               f == packs[n]
               e == list[n]
    <2>1. n \in I /\ n # 0
        BY <1>2, <1>5, FoundIs
    <2>2. o = <<f>>
        BY <1>1, <1>5, <2>1 DEF At
    <2>3. n \in DOMAIN packs
        BY <1>2, <2>1
    <2>4. IsPack(PackDir(r), f) /\ Packs[NameOf(f)] = [kind |-> kind, profile |-> profile]
        BY <2>1
    <2> HIDE DEF n, o, I
    <2>5. /\ NameOf(f) = BaseName(e.path) /\ f.sha = e.sha /\ f.size = e.size
        BY <2>3, PacksAre
    <2>6. /\ e.sha \in Contents \cup {"none"} /\ e.size \in Nat
          /\ BaseName(e.path) \in DOMAIN Packs => (e.sha # "none" => Purpose[e.sha] = UseOf(e.path))
        BY <1>2, <2>3, PackListIs, EntryIs
    <2> HIDE DEF e, f
    <2>7. NameOf(f) \in DOMAIN Packs
        BY <2>4 DEF IsPack
    <2>8. UseOf(e.path) = Use(kind, profile)
        <3> DEFINE b == BaseName(e.path)
        <3>1. b \in DOMAIN Packs /\ Packs[b] = [kind |-> kind, profile |-> profile]
            BY <2>4, <2>5, <2>7
        <3>2. b \notin Images
            BY <3>1, PacksAssumption
        <3>3. b # UbootImage /\ b # BootMenuImage /\ b # RecoveryImage
            BY <3>2 DEF Images
        <3> HIDE DEF b
        <3>4. UseOf(e.path) = Use(Packs[b].kind, Packs[b].profile)
            BY <3>1, <3>3, Zenon DEF UseOf, b
        <3>5. Packs[b].kind = kind /\ Packs[b].profile = profile
            BY <3>1
        <3> QED
            BY <3>4, <3>5
    <2>9. o # <<>>
        BY <2>2
    <2>10. /\ o = <<f>> /\ NameOf(f) \in DOMAIN Packs
           /\ Packs[NameOf(f)] = [kind |-> kind, profile |-> profile]
           /\ f.sha \in Contents \cup {"none"} /\ f.size \in Nat
           /\ f.sha # "none" => Purpose[f.sha] = Use(kind, profile)
        BY <2>2, <2>4, <2>5, <2>6, <2>7, <2>8
    <2> QED
        BY <1>3, <1>5, <2>9, <2>10 DEF o
<1> QED
    BY <1>4, <1>5

\* The profiles of the build are those with a pack that is not the seed of /home.
LEMMA NamedIs ==
    ASSUME NEW r, Startable(r), NEW p
    PROVE  /\ p \in Selected(r).build.profiles <=>
                ListsPack(r, "full", p) \/ ListsPack(r, "inc", p)
           /\ p \in Selected(r).build.profiles => p \in ToSet(Profiles)
<1> DEFINE packs == PacksOf(r)
           Other(i) == IsPack(PackDir(r), packs[i]) /\ Packs[NameOf(packs[i])].kind # "home"
<1>1. p \in Selected(r).build.profiles <=>
        \E i \in DOMAIN packs : Other(i) /\ Packs[NameOf(packs[i])].profile = p
    <2>1. Selected(r).build.profiles = NamedIn(PackDir(r), packs)
        BY BuildIs, ReadIs
    <2> HIDE DEF packs
    <2> QED
        BY <2>1 DEF NamedIn, ToSet
<1>2. ASSUME NEW i \in DOMAIN packs, IsPack(PackDir(r), packs[i])
      PROVE  LET pack == Packs[NameOf(packs[i])]
             IN /\ pack \in [kind : {"full", "inc", "home"}, profile : STRING]
                /\ pack.kind # "home" => pack.profile \in ToSet(Profiles)
    <2>1. NameOf(packs[i]) \in DOMAIN Packs
        BY <1>2 DEF IsPack
    <2> QED
        BY <2>1, PacksAssumption
<1>3. ASSUME NEW i \in DOMAIN packs
      PROVE  Other(i) /\ Packs[NameOf(packs[i])].profile = p <=>
                PackAt(r, i, "full", p) \/ PackAt(r, i, "inc", p)
    BY <1>2 DEF PackAt
<1> HIDE DEF packs, Other
<1>4. p \in Selected(r).build.profiles <=>
        \E i \in DOMAIN packs : PackAt(r, i, "full", p) \/ PackAt(r, i, "inc", p)
    BY <1>1, <1>3
<1>5. p \in Selected(r).build.profiles => p \in ToSet(Profiles)
    BY <1>1, <1>2 DEF Other
<1> QED
    BY <1>4, <1>5, ListsPackIs DEF packs
-------------------------------------------------------------------------------
(* The plan: what is wanted, one after the other. *)

\* The Minimal that is installed, and the profiles beside it.
MinimalName(r) == MinimalOf(Selected(r).build)[1]
Chosen(r) == Extras(Selected(r).build, r.chosen)
Incremental(r, p) == IF p \in Chosen(r) THEN Selected(r).build.inc[p] ELSE <<>>

\* What is wanted, place by place.
LEMMA WantedIs ==
    ASSUME NEW r
    PROVE  LET w == Wanted(r)
               s == Selected(r)
           IN /\ Len(w) = 5 + Len(Profiles) /\ DOMAIN w = 1 .. 5 + Len(Profiles)
              /\ w = [i \in DOMAIN w |-> w[i]]
              /\ w[1] = s.uboot
              /\ w[2] = IF r.ufs THEN s.bootMenu ELSE <<>>
              /\ w[3] = IF r.ufs THEN s.recovery ELSE <<>>
              /\ w[4] = s.build.home
              /\ w[5] = s.build.full[MinimalName(r)]
              /\ \A j \in DOMAIN Profiles : w[5 + j] = Incremental(r, Profiles[j])
<1> DEFINE s == Selected(r)
           Beside(image) == IF r.ufs THEN image ELSE <<>>
           head == <<s.uboot, Beside(s.bootMenu), Beside(s.recovery), s.build.home,
                     s.build.full[MinimalName(r)]>>
           tail == [i \in DOMAIN Profiles |-> Incremental(r, Profiles[i])]
           S == {head[i] : i \in 1 .. 5} \cup {tail[i] : i \in DOMAIN Profiles}
           w == head \o tail
<1>1. Len(Profiles) \in Nat /\ DOMAIN Profiles = 1 .. Len(Profiles)
    BY PacksAssumption, LenProperties
<1>2. Wanted(r) = w
    BY DEF Wanted, MinimalName, Incremental, Chosen
<1>3. /\ Len(head) = 5 /\ DOMAIN head = 1 .. 5
      /\ head[1] = s.uboot /\ head[2] = Beside(s.bootMenu) /\ head[3] = Beside(s.recovery)
      /\ head[4] = s.build.home /\ head[5] = s.build.full[MinimalName(r)]
    OBVIOUS
<1>4. /\ Len(tail) = Len(Profiles)
      /\ \A j \in DOMAIN Profiles : tail[j] = Incremental(r, Profiles[j])
    BY <1>1
<1>5. head \in Seq(S) /\ tail \in Seq(S)
    <2>1. tail \in [1 .. Len(Profiles) -> S]
        BY <1>1
    <2>2. head \in [1 .. 5 -> S]
        OBVIOUS
    <2> HIDE DEF S, head, tail
    <2>3. ASSUME NEW n \in Nat, NEW f \in [1 .. n -> S] PROVE f \in Seq(S)
        BY SeqDef
    <2> QED
        BY <1>1, <2>1, <2>2, <2>3
<1> HIDE DEF head, tail, S
<1>6. /\ Len(w) = Len(head) + Len(tail) /\ w \in Seq(S)
      /\ \A i \in 1 .. Len(w) : w[i] = IF i <= Len(head) THEN head[i] ELSE tail[i - Len(head)]
    BY <1>5, ConcatProperties
<1>7. DOMAIN w = 1 .. Len(w) /\ w = [i \in DOMAIN w |-> w[i]]
    BY <1>6, LenProperties
<1> HIDE DEF w
<1>8. Len(w) = 5 + Len(Profiles)
    BY <1>3, <1>4, <1>6
<1>9. /\ w[1] = head[1] /\ w[2] = head[2] /\ w[3] = head[3] /\ w[4] = head[4] /\ w[5] = head[5]
    BY <1>1, <1>3, <1>6, <1>8
<1>10. ASSUME NEW j \in DOMAIN Profiles PROVE w[5 + j] = tail[j]
    <2>1. 5 + j \in 1 .. Len(w) /\ ~(5 + j <= 5) /\ (5 + j) - 5 = j
        BY <1>1, <1>8
    <2> QED
        BY <1>3, <1>6, <2>1
<1> QED
    BY <1>2, <1>3, <1>4, <1>7, <1>8, <1>9, <1>10

\* A path of three names.
LEMMA ThreeNames ==
    ASSUME NEW path \in Seq(STRING), NEW a, NEW b, NEW c
    PROVE  path = <<a, b, c>> <=> Len(path) = 3 /\ path[1] = a /\ path[2] = b /\ path[3] = c
<1> DEFINE u == <<a, b, c>>
           S == STRING \cup {a, b, c}
<1>1. u \in Seq(S) /\ Len(u) = 3 /\ u[1] = a /\ u[2] = b /\ u[3] = c
    OBVIOUS
<1>2. path \in Seq(S)
    <2>1. STRING \subseteq S
        OBVIOUS
    <2> HIDE DEF S
    <2> QED
        BY <2>1, SeqMonotonic
<1> HIDE DEF u, S
<1>3. ASSUME Len(path) = 3, path[1] = a, path[2] = b, path[3] = c PROVE path = u
    <2>1. \A i \in 1 .. 3 : path[i] = u[i]
        BY <1>1, <1>3
    <2> QED
        BY <1>1, <1>2, <1>3, <2>1, SeqEqual
<1> QED
    BY <1>1, <1>3 DEF u

\* The directory the images are read from is the board's, whichever way it is found.
LEMMA BoardIs ==
    ASSUME NEW r, Startable(r)
    PROVE  /\ r.mode = "bundle" => BoardDir(r.bundle[1].files, r.board) = BoardOf(r)
           /\ r.mode # "bundle" => ListingBoardDir(r.board, r.offered) = BoardOf(r)
<1>1. r.mode # "bundle" => ListingBoardDir(r.board, r.offered) = BoardOf(r)
    BY DEF ListingBoardDir, BoardOf
<1>2. ASSUME r.mode = "bundle"
      PROVE  r.board \in DeviceTypes(r.bundle[1].files) <=> Lists(r, <<"u-boot", r.board, UbootImage>>)
    <2> DEFINE listed == r.bundle[1].files
    <2>1. PackList(r) = listed /\ SourceFiles(r) = ToSet(listed)
        BY <1>2 DEF PackList, SourceFiles
    <2> HIDE DEF listed
    <2>2. Manifest(listed) /\ Truthful(listed)
        BY <2>1, PackListIs
    <2>3. ASSUME NEW f \in ToSet(listed)
          PROVE  f.path = <<"u-boot", r.board, UbootImage>> <=>
                    /\ Len(f.path) = 3 /\ f.path[1] = "u-boot"
                    /\ f.path[2] = r.board /\ f.path[3] = UbootImage
        <3> DEFINE path == f.path
        <3>1. path \in Seq(STRING)
            BY <2>2, EntryIs DEF ToSet
        <3> HIDE DEF path
        <3>2. path = <<"u-boot", r.board, UbootImage>> <=>
                 /\ Len(path) = 3 /\ path[1] = "u-boot"
                 /\ path[2] = r.board /\ path[3] = UbootImage
            BY <3>1, ThreeNames
        <3> QED
            BY <3>2 DEF path
    <2>4. r.board \in DeviceTypes(listed) <=>
            \E f \in ToSet(listed) : /\ Len(f.path) = 3 /\ f.path[1] = "u-boot"
                                     /\ f.path[2] = r.board /\ f.path[3] = UbootImage
        BY DEF DeviceTypes
    <2>5. r.board \in DeviceTypes(listed) <=>
            \E f \in ToSet(listed) : f.path = <<"u-boot", r.board, UbootImage>>
        BY <2>3, <2>4
    <2> QED
        BY <2>1, <2>5 DEF Lists, listed
<1> QED
    BY <1>1, <1>2 DEF BoardDir, BoardOf

\* Every image is for the board, and a bundle's are found if they are listed.
LEMMA ImagesAre ==
    ASSUME NEW r, Startable(r)
    PROVE  LET s == Selected(r)
               There(o, path) == r.mode = "bundle" /\ Lists(r, path) => o # <<>>
           IN /\ ImageFor(s.uboot, UbootImage, "u-boot", BoardOf(r))
              /\ ImageFor(s.bootMenu, BootMenuImage, "menu", BoardOf(r))
              /\ ImageFor(s.recovery, RecoveryImage, "recovery", BoardOf(r))
              /\ There(s.bootMenu, <<"falcon-bootmenu", BoardOf(r), BootMenuImage>>)
              /\ There(s.recovery, <<"falcon-recovery", BoardOf(r), RecoveryImage>>)
              /\ s.uboot # <<>>
<1> DEFINE dir == BoardOf(r)
<1>3. Selected(r).uboot # <<>>
    BY DEF Startable, CanStart
<1>4. CASE r.mode = "bundle"
    <2> DEFINE b == r.bundle[1]
    <2>1. Manifest(b.files) /\ Truthful(b.files) /\ SourceFiles(r) = ToSet(b.files)
        BY <1>4, PackListIs DEF PackList
    <2>2. BoardDir(b.files, r.board) = dir
        BY <1>4, BoardIs
    <2>3. /\ Selected(r).uboot = Shipped(b, <<"u-boot", dir, UbootImage>>)
          /\ Selected(r).bootMenu = Shipped(b, <<"falcon-bootmenu", dir, BootMenuImage>>)
          /\ Selected(r).recovery = Shipped(b, <<"falcon-recovery", dir, RecoveryImage>>)
        BY <1>4, <2>2 DEF Selected, Resolve
    <2> HIDE DEF b, dir
    <2>4. ASSUME NEW kind, NEW name, NEW item, Tells(name, item)
          PROVE  /\ ImageFor(Shipped(b, <<kind, dir, name>>), name, item, dir)
                 /\ Shipped(b, <<kind, dir, name>>) # <<>> <=>
                       \E f \in ToSet(b.files) : f.path = <<kind, dir, name>>
        BY <2>1, <2>4, ShippedIs
    <2>5. ImageFor(Selected(r).uboot, UbootImage, "u-boot", dir)
        BY <2>3, <2>4, ImagesTell, Zenon
    <2>6. /\ ImageFor(Selected(r).bootMenu, BootMenuImage, "menu", dir)
          /\ Selected(r).bootMenu # <<>> <=>
                \E f \in ToSet(b.files) : f.path = <<"falcon-bootmenu", dir, BootMenuImage>>
        BY <2>3, <2>4, ImagesTell, Zenon
    <2>7. /\ ImageFor(Selected(r).recovery, RecoveryImage, "recovery", dir)
          /\ Selected(r).recovery # <<>> <=>
                \E f \in ToSet(b.files) : f.path = <<"falcon-recovery", dir, RecoveryImage>>
        BY <2>3, <2>4, ImagesTell, Zenon
    <2> QED
        BY <1>3, <2>1, <2>5, <2>6, <2>7 DEF Lists, dir
<1>5. CASE r.mode # "bundle"
    <2>1. ListingBoardDir(r.board, r.offered) = dir
        BY <1>5, BoardIs
    <2> DEFINE menu == IF r.menu = <<>> THEN r.uboot ELSE r.menu[1]
    <2>2. /\ Selected(r).uboot = FindForBoard(r.uboot, dir, UbootImage)
          /\ Selected(r).bootMenu = FindForBoard(menu, dir, BootMenuImage)
          /\ Selected(r).recovery = IF r.recovery = <<>> THEN <<>>
                                    ELSE FindForBoard(r.recovery[1], dir, RecoveryImage)
        BY <1>5, <2>1 DEF Selected, Custom
    <2>3. \A o \in {r.menu, r.recovery} : o # <<>> => o[1] \in ToSet(o)
        BY <1>5 DEF Startable, Optional, ToSet
    <2>4. r.uboot \in Builds(r) /\ menu \in Builds(r) /\ (r.recovery # <<>> => r.recovery[1] \in Builds(r))
        BY <2>3 DEF Builds
    <2>5. \A b \in Builds(r) : Manifest(b.files) /\ Truthful(b.files)
        BY <1>5 DEF Startable, Manifests
    <2> HIDE DEF dir, menu
    <2>6. ImageFor(Selected(r).uboot, UbootImage, "u-boot", dir)
        BY <2>2, <2>4, <2>5, ImagesTell, FindIs
    <2>7. ImageFor(Selected(r).bootMenu, BootMenuImage, "menu", dir)
        BY <2>2, <2>4, <2>5, ImagesTell, FindIs
    <2>8. ImageFor(Selected(r).recovery, RecoveryImage, "recovery", dir)
        <3>1. CASE r.recovery = <<>>
            BY <2>2, <3>1 DEF ImageFor
        <3>2. CASE r.recovery # <<>>
            BY <2>2, <2>4, <2>5, <3>2, ImagesTell, FindIs
        <3> QED
            BY <3>1, <3>2
    <2> QED
        BY <1>3, <1>5, <2>6, <2>7, <2>8 DEF dir
<1> QED
    BY <1>4, <1>5

\* What is wanted in each place, and for what board or profile.
ImageName(i) == CASE i = 1 -> UbootImage [] i = 2 -> BootMenuImage [] i = 3 -> RecoveryImage
ItemAt(i) ==
    CASE i = 1 -> "u-boot" [] i = 2 -> "menu" [] i = 3 -> "recovery"
      [] i = 4 -> "home" [] i = 5 -> "full" [] OTHER -> "inc"
WhomAt(r, i) ==
    CASE i \in 1 .. 3 -> BoardOf(r) [] i = 4 -> "home" [] i = 5 -> MinimalName(r)
      [] OTHER -> Profiles[i - 5]

FitsAt(r, i, f) ==
    /\ IF i \in 1 .. 3 THEN NameOf(f) = ImageName(i)
       ELSE /\ NameOf(f) \in DOMAIN Packs
            /\ Packs[NameOf(f)] = [kind |-> ItemAt(i), profile |-> WhomAt(r, i)]
    /\ f.sha \in Contents \cup {"none"} /\ f.size \in Nat
    /\ f.sha # "none" => Purpose[f.sha] = Use(ItemAt(i), WhomAt(r, i))

\* The incremental packs of what is chosen.
LEMMA IncrementalIs ==
    ASSUME NEW r, Startable(r), NEW p
    PROVE  /\ Incremental(r, p) # <<>> <=> p \in r.chosen \ Minimals /\ ListsPack(r, "inc", p)
           /\ Incremental(r, p) # <<>> =>
                Incremental(r, p) = PackFor(PackDir(r), PacksOf(r), "inc", p)
<1>1. p \in Chosen(r) <=>
        p \in r.chosen \ Minimals /\ (ListsPack(r, "full", p) \/ ListsPack(r, "inc", p))
    BY NamedIs DEF Chosen, Extras
<1>2. p \in Chosen(r) => Incremental(r, p) = PackFor(PackDir(r), PacksOf(r), "inc", p)
    <2>1. p \in Chosen(r) => p \in Selected(r).build.profiles
        BY DEF Chosen, Extras
    <2> QED
        BY <2>1, BuildIs, ReadIs DEF Incremental
<1>3. p \notin Chosen(r) => Incremental(r, p) = <<>>
    BY DEF Incremental
<1>4. PackFor(PackDir(r), PacksOf(r), "inc", p) # <<>> <=> ListsPack(r, "inc", p)
    BY PackForIs, Zenon
<1> QED
    BY <1>1, <1>2, <1>3, <1>4, Zenon

\* The Minimal that is installed.
LEMMA MinimalNameIs ==
    ASSUME NEW r, Startable(r)
    PROVE  /\ MinimalName(r) \in Minimals
           /\ ListsPack(r, "full", MinimalName(r)) \/ ListsPack(r, "inc", MinimalName(r))
           /\ Selected(r).build.full[MinimalName(r)]
                = PackFor(PackDir(r), PacksOf(r), "full", MinimalName(r))
<1>1. MinimalName(r) \in Selected(r).build.profiles \cap Minimals
    BY MinimalFound DEF MinimalName
<1>2. Selected(r).build.full[MinimalName(r)] = PackFor(PackDir(r), PacksOf(r), "full", MinimalName(r))
    BY <1>1, BuildIs, ReadIs
<1> QED
    BY <1>1, <1>2, NamedIs

\* In every place is nothing, or one file that fits it.
LEMMA WantedFits ==
    ASSUME NEW r, Startable(r), NEW i \in DOMAIN Wanted(r), Wanted(r)[i] # <<>>
    PROVE  \E f : Wanted(r)[i] = <<f>> /\ FitsAt(r, i, f)
<1> DEFINE o == Wanted(r)[i]
<1>1. Len(Profiles) \in Nat /\ DOMAIN Profiles = 1 .. Len(Profiles)
    BY PacksAssumption, LenProperties
<1>2. i \in 1 .. 5 + Len(Profiles)
    BY WantedIs
<1>3. ASSUME i \in 1 .. 3, ImageFor(o, ImageName(i), ItemAt(i), WhomAt(r, i))
      PROVE  \E f : o = <<f>> /\ FitsAt(r, i, f)
    <2> HIDE DEF o
    <2> QED
        BY <1>3 DEF ImageFor, FitsAt, o
<1>4. ASSUME i \notin 1 .. 3, o = PackFor(PackDir(r), PacksOf(r), ItemAt(i), WhomAt(r, i))
      PROVE  \E f : o = <<f>> /\ FitsAt(r, i, f)
    <2> HIDE DEF o
    <2>1. \E f : /\ o = <<f>> /\ NameOf(f) \in DOMAIN Packs
                 /\ Packs[NameOf(f)] = [kind |-> ItemAt(i), profile |-> WhomAt(r, i)]
                 /\ f.sha \in Contents \cup {"none"} /\ f.size \in Nat
                 /\ f.sha # "none" => Purpose[f.sha] = Use(ItemAt(i), WhomAt(r, i))
        BY <1>4, PackForIs DEF o
    <2> QED
        BY <1>4, <2>1 DEF FitsAt
<1> DEFINE s == Selected(r)
<1>5. CASE i = 1
    <2>1. ImageName(i) = UbootImage /\ ItemAt(i) = "u-boot" /\ WhomAt(r, i) = BoardOf(r)
        BY <1>5 DEF ImageName, ItemAt, WhomAt
    <2>2. o = s.uboot
        BY <1>5, WantedIs
    <2>3. ImageFor(o, ImageName(i), ItemAt(i), WhomAt(r, i))
        BY <2>1, <2>2, ImagesAre, Zenon
    <2> QED
        BY <1>3, <1>5, <2>3
<1>6. CASE i = 2
    <2>1. ImageName(i) = BootMenuImage /\ ItemAt(i) = "menu" /\ WhomAt(r, i) = BoardOf(r)
        BY <1>6 DEF ImageName, ItemAt, WhomAt
    <2>2. o = s.bootMenu
        BY <1>6, WantedIs
    <2>3. ImageFor(o, ImageName(i), ItemAt(i), WhomAt(r, i))
        BY <2>1, <2>2, ImagesAre, Zenon
    <2> QED
        BY <1>3, <1>6, <2>3
<1>7. CASE i = 3
    <2>1. ImageName(i) = RecoveryImage /\ ItemAt(i) = "recovery" /\ WhomAt(r, i) = BoardOf(r)
        BY <1>7 DEF ImageName, ItemAt, WhomAt
    <2>2. o = s.recovery
        BY <1>7, WantedIs
    <2>3. ImageFor(o, ImageName(i), ItemAt(i), WhomAt(r, i))
        BY <2>1, <2>2, ImagesAre, Zenon
    <2> QED
        BY <1>3, <1>7, <2>3
<1>8. CASE i = 4
    <2>1. ItemAt(i) = "home" /\ WhomAt(r, i) = "home"
        BY <1>8 DEF ItemAt, WhomAt
    <2>2. o = PackFor(PackDir(r), PacksOf(r), "home", "home")
        <3>1. o = s.build.home
            BY <1>8, WantedIs
        <3> QED
            BY <3>1, BuildIs, ReadIs, Zenon
    <2> QED
        BY <1>4, <1>8, <2>1, <2>2
<1>9. CASE i = 5
    <2>1. ItemAt(i) = "full" /\ WhomAt(r, i) = MinimalName(r)
        BY <1>9 DEF ItemAt, WhomAt
    <2>2. o = PackFor(PackDir(r), PacksOf(r), "full", MinimalName(r))
        BY <1>9, WantedIs, MinimalNameIs
    <2> QED
        BY <1>4, <1>9, <2>1, <2>2
<1>10. CASE i > 5
    <2> DEFINE j == i - 5
    <2>1. j \in DOMAIN Profiles /\ 5 + j = i
        BY <1>1, <1>2, <1>10
    <2>2. ItemAt(i) = "inc" /\ WhomAt(r, i) = Profiles[j]
        BY <1>2, <1>10 DEF ItemAt, WhomAt
    <2> HIDE DEF j
    <2>3. o = Incremental(r, Profiles[j])
        BY <2>1, WantedIs
    <2>4. o = PackFor(PackDir(r), PacksOf(r), "inc", Profiles[j])
        BY <2>3, IncrementalIs
    <2> QED
        BY <1>4, <1>10, <2>2, <2>4
<1> QED
    BY <1>2, <1>5, <1>6, <1>7, <1>8, <1>9, <1>10

\* Files of different places have different names.
LEMMA NamesDiffer ==
    ASSUME NEW r, NEW i \in DOMAIN Wanted(r), NEW k \in DOMAIN Wanted(r), i # k,
           NEW f, NEW g, FitsAt(r, i, f), FitsAt(r, k, g)
    PROVE  NameOf(f) # NameOf(g)
<1>1. Len(Profiles) \in Nat /\ DOMAIN Profiles = 1 .. Len(Profiles)
    BY PacksAssumption, LenProperties
<1>2. i \in 1 .. 5 + Len(Profiles) /\ k \in 1 .. 5 + Len(Profiles)
    BY WantedIs
<1>3. \A n \in 1 .. 3 : ImageName(n) \in Images /\ ImageName(n) \notin DOMAIN Packs
    <2>1. \A n \in 1 .. 3 : ImageName(n) \in Images
        BY DEF ImageName, Images
    <2> QED
        BY <2>1, PacksAssumption
<1>4. CASE i \in 1 .. 3 /\ k \in 1 .. 3
    <2>1. UbootImage # BootMenuImage /\ UbootImage # RecoveryImage /\ BootMenuImage # RecoveryImage
        BY DEF UbootImage, BootMenuImage, RecoveryImage
    <2>2. ImageName(i) # ImageName(k)
        BY <1>4, <2>1 DEF ImageName
    <2> QED
        BY <1>4, <2>2 DEF FitsAt
<1>5. CASE i \in 1 .. 3 /\ k \notin 1 .. 3
    BY <1>3, <1>5 DEF FitsAt
<1>6. CASE i \notin 1 .. 3 /\ k \in 1 .. 3
    BY <1>3, <1>6 DEF FitsAt
<1>7. CASE i \notin 1 .. 3 /\ k \notin 1 .. 3
    <2> SUFFICES ASSUME NameOf(f) = NameOf(g) PROVE FALSE
        OBVIOUS
    <2>1. ItemAt(i) = ItemAt(k) /\ WhomAt(r, i) = WhomAt(r, k)
        <3> DEFINE p == [kind |-> ItemAt(i), profile |-> WhomAt(r, i)]
                   q == [kind |-> ItemAt(k), profile |-> WhomAt(r, k)]
        <3>1. Packs[NameOf(f)] = p /\ Packs[NameOf(g)] = q
            BY <1>7 DEF FitsAt
        <3>2. p = q
            BY <3>1
        <3>3. p.kind = q.kind /\ p.profile = q.profile
            BY <3>2
        <3> QED
            BY <3>3
    <2>2. ASSUME NEW n \in 1 .. 5 + Len(Profiles), n \notin 1 .. 3
          PROVE  /\ n = 4 <=> ItemAt(n) = "home"
                 /\ n = 5 <=> ItemAt(n) = "full"
                 /\ n > 5 => WhomAt(r, n) = Profiles[n - 5] /\ n - 5 \in DOMAIN Profiles
        BY <1>1, <2>2 DEF ItemAt, WhomAt
    <2>3. i > 5 /\ k > 5
        BY <1>1, <1>2, <1>7, <2>1, <2>2
    <2>4. Profiles[i - 5] = Profiles[k - 5]
        BY <1>2, <1>7, <2>1, <2>2, <2>3
    <2>5. i - 5 = k - 5
        BY <1>2, <1>7, <2>2, <2>3, <2>4, PacksAssumption DEF IsInjective
    <2> QED
        BY <1>1, <1>2, <2>5
<1> QED
    BY <1>4, <1>5, <1>6, <1>7

\* The plan holds what fits, a file for every place there is one for.
LEMMA PlanIs ==
    ASSUME NEW r, Startable(r)
    PROVE  LET flat == FlattenSeq(Wanted(r))
           IN /\ Len(flat) \in Nat /\ DOMAIN flat = 1 .. Len(flat)
              /\ \E src : /\ Gathers(Wanted(r), Len(Wanted(r)), flat, src)
                          /\ \A k \in DOMAIN flat :
                                src[k] \in DOMAIN Wanted(r) /\ FitsAt(r, src[k], flat[k])
<1> DEFINE w == Wanted(r)
           flat == FlattenSeq(w)
           S == {w[i][1] : i \in DOMAIN w}
<1>1. Len(Profiles) \in Nat /\ Len(w) = 5 + Len(Profiles) /\ DOMAIN w = 1 .. Len(w)
    BY WantedIs, PacksAssumption, LenProperties
<1>2. ASSUME NEW i \in DOMAIN w PROVE w[i] \in Seq(S) /\ Len(w[i]) <= 1
    <2>1. CASE w[i] = <<>>
        BY <2>1
    <2>2. CASE w[i] # <<>>
        <3>1. PICK f : w[i] = <<f>>
            BY <2>2, WantedFits
        <3>2. f = w[i][1] /\ f \in S
            BY <3>1
        <3> QED
            BY <3>1, <3>2
    <2> QED
        BY <2>1, <2>2
<1> HIDE DEF S
<1>3. w \in Seq(Seq(S))
    <2>1. w = [i \in 1 .. Len(w) |-> w[i]]
        BY <1>1, WantedIs
    <2> HIDE DEF w
    <2>2. w \in [1 .. Len(w) -> Seq(S)]
        BY <1>1, <1>2, <2>1
    <2> QED
        BY <1>1, <2>2, SeqDef
<1>4. flat \in Seq(S) /\ \E src : Gathers(w, Len(w), flat, src)
    <2>1. Len(w) # 0 /\ \A i \in 1 .. Len(w) : Len(w[i]) <= 1
        BY <1>1, <1>2
    <2> HIDE DEF w
    <2> QED
        BY <1>3, <2>1, FlattenGathers
<1>5. Len(flat) \in Nat /\ DOMAIN flat = 1 .. Len(flat)
    BY <1>4, LenProperties
<1>6. PICK src : Gathers(w, Len(w), flat, src)
    BY <1>4
<1>7. ASSUME NEW k \in DOMAIN flat PROVE src[k] \in DOMAIN w /\ FitsAt(r, src[k], flat[k])
    <2>1. src[k] \in DOMAIN w /\ w[src[k]] = <<flat[k]>>
        BY <1>1, <1>5, <1>6, <1>7 DEF Gathers
    <2>2. w[src[k]] # <<>>
        BY <2>1
    <2>3. PICK f : w[src[k]] = <<f>> /\ FitsAt(r, src[k], f)
        BY <2>1, <2>2, WantedFits
    <2>4. f = flat[k]
        BY <2>1, <2>3
    <2> QED
        BY <2>1, <2>3, <2>4
<1> QED
    BY <1>5, <1>6, <1>7

\* Every plan is a list as staging takes it (stage.rs, run): artifacts with different
\* names and locations, none read from where another is copied to.
THEOREM PlanIsListing ==
    \A n \in DOMAIN Requests : CanStart(Requests[n]) => Listing(Plan(Requests[n]))
<1> SUFFICES ASSUME NEW n \in DOMAIN Requests, CanStart(Requests[n])
             PROVE  Listing(Plan(Requests[n]))
    OBVIOUS
<1> DEFINE r == Requests[n]
           flat == FlattenSeq(Wanted(r))
           arts == Plan(r)
<1>1. Startable(r)
    BY SelectionAssumption DEF Startable
<1> HIDE DEF r
<1>2. PICK src : /\ Gathers(Wanted(r), Len(Wanted(r)), flat, src)
                 /\ \A k \in DOMAIN flat : src[k] \in DOMAIN Wanted(r) /\ FitsAt(r, src[k], flat[k])
    BY <1>1, PlanIs
<1>3. Len(flat) \in Nat /\ DOMAIN flat = 1 .. Len(flat)
    BY <1>1, PlanIs
<1>4. arts = [i \in 1 .. Len(flat) |-> [loc |-> flat[i].loc, sha |-> flat[i].sha,
                                        size |-> flat[i].size, rel |-> <<NameOf(flat[i])>>]]
    BY <1>3 DEF Plan, Named
<1> HIDE DEF flat, arts
<1>5. DOMAIN arts = 1 .. Len(arts) /\ Len(arts) \in Nat /\ DOMAIN arts = DOMAIN flat
    BY <1>3, <1>4
<1>6. ASSUME NEW i \in DOMAIN arts
      PROVE  /\ arts[i].sha \in Contents \cup {"none"} /\ arts[i].size \in Nat
             /\ arts[i].rel = <<NameOf(flat[i])>> /\ arts[i].loc = flat[i].loc
    BY <1>2, <1>3, <1>4, <1>5 DEF FitsAt
<1>7. ASSUME NEW i \in DOMAIN arts, NEW k \in DOMAIN arts \ {i}
      PROVE  /\ arts[k].rel # arts[i].rel /\ arts[k].loc # arts[i].loc
             /\ arts[k].loc # <<"cache", arts[i].rel>>
    <2>1. src[i] # src[k]
        BY <1>2, <1>3, <1>5 DEF Gathers
    <2>2. NameOf(flat[i]) # NameOf(flat[k])
        BY <1>2, <1>5, <2>1, NamesDiffer
    <2>3. arts[k].rel # arts[i].rel
        BY <1>6, <2>2
    <2>4. arts[k].loc # arts[i].loc
        BY <1>6, <2>2 DEF NameOf
    <2>5. ASSUME arts[k].loc = <<"cache", arts[i].rel>> PROVE FALSE
        <3>1. flat[k].loc[2] = <<NameOf(flat[i])>>
            BY <1>6, <2>5
        <3>2. NameOf(flat[k]) = NameOf(flat[i])
            BY <3>1 DEF NameOf, BaseName, Last
        <3> QED
            BY <2>2, <3>2
    <2> QED
        BY <2>3, <2>4, <2>5
<1> QED
    BY <1>5, <1>6, <1>7 DEF Listing, arts, r
-------------------------------------------------------------------------------
(* What is staged. *)

\* Whom the files of an item are for.
For(copied, item) == {Purpose[c].for : c \in {d \in copied : Purpose[d].item = item}}
Digests(arts) == {arts[i].sha : i \in DOMAIN arts}

\* By the digests of a plan: whom it wants the item for, where there is one.
LEMMA ForIs ==
    ASSUME NEW r, Startable(r), \A i \in DOMAIN Plan(r) : Plan(r)[i].sha # "none", NEW item
    PROVE  \A whom : whom \in For(Digests(Plan(r)), item) <=>
              \E i \in DOMAIN Wanted(r) : Wanted(r)[i] # <<>> /\ ItemAt(i) = item /\ WhomAt(r, i) = whom
<1> DEFINE w == Wanted(r)
           flat == FlattenSeq(w)
<1>1. Len(w) \in Nat /\ DOMAIN w = 1 .. Len(w)
    <2>1. Len(Profiles) \in Nat
        BY PacksAssumption, LenProperties
    <2>2. Len(w) = 5 + Len(Profiles) /\ DOMAIN w = 1 .. 5 + Len(Profiles)
        BY WantedIs
    <2> HIDE DEF w
    <2> QED
        BY <2>1, <2>2
<1>2. PICK src : /\ Gathers(w, Len(w), flat, src)
                 /\ \A k \in DOMAIN flat : src[k] \in DOMAIN w /\ FitsAt(r, src[k], flat[k])
    BY PlanIs
<1>3. Len(flat) \in Nat /\ DOMAIN flat = 1 .. Len(flat)
    BY PlanIs
<1>4. DOMAIN Plan(r) = DOMAIN flat /\ \A k \in DOMAIN flat : Plan(r)[k].sha = flat[k].sha
    BY DEF Plan, Named
<1> HIDE DEF flat, w
<1>5. ASSUME NEW k \in DOMAIN flat
      PROVE  Purpose[flat[k].sha].item = ItemAt(src[k]) /\ Purpose[flat[k].sha].for = WhomAt(r, src[k])
    <2>1. flat[k].sha # "none"
        BY <1>4
    <2>2. Purpose[flat[k].sha] = Use(ItemAt(src[k]), WhomAt(r, src[k]))
        BY <1>2, <2>1 DEF FitsAt
    <2> QED
        BY <2>2 DEF Use
<1>6. ASSUME NEW k \in DOMAIN flat PROVE src[k] \in DOMAIN w /\ w[src[k]] # <<>>
    <2>1. w[src[k]] = <<flat[k]>>
        BY <1>2, <1>3 DEF Gathers
    <2>2. w[src[k]] # <<>>
        BY <2>1
    <2> QED
        BY <1>2, <2>2
<1>7. ASSUME NEW i \in DOMAIN w, w[i] # <<>> PROVE \E k \in DOMAIN flat : src[k] = i
    BY <1>1, <1>2, <1>3, <1>7 DEF Gathers
<1>8. ASSUME NEW whom, whom \in For(Digests(Plan(r)), item)
      PROVE  \E i \in DOMAIN w : w[i] # <<>> /\ ItemAt(i) = item /\ WhomAt(r, i) = whom
    <2>1. PICK k \in DOMAIN flat : Purpose[flat[k].sha].item = item /\ Purpose[flat[k].sha].for = whom
        BY <1>4, <1>8 DEF For, Digests
    <2> QED
        BY <1>5, <1>6, <2>1
<1>9. ASSUME NEW i \in DOMAIN w, w[i] # <<>>, ItemAt(i) = item
      PROVE  WhomAt(r, i) \in For(Digests(Plan(r)), item)
    <2>1. PICK k \in DOMAIN flat : src[k] = i
        BY <1>7, <1>9
    <2>2. flat[k].sha \in Digests(Plan(r))
        BY <1>4 DEF Digests
    <2> QED
        BY <1>5, <1>9, <2>1, <2>2 DEF For
<1> QED
    BY <1>8, <1>9 DEF w

\* The place of every item.
LEMMA PlaceOf ==
    ASSUME NEW r, NEW i \in DOMAIN Wanted(r)
    PROVE  /\ ItemAt(i) = "u-boot" <=> i = 1
           /\ ItemAt(i) = "menu" <=> i = 2
           /\ ItemAt(i) = "recovery" <=> i = 3
           /\ ItemAt(i) = "home" <=> i = 4
           /\ ItemAt(i) = "full" <=> i = 5
           /\ ItemAt(i) = "inc" <=> i > 5
<1>1. Len(Profiles) \in Nat /\ i \in 1 .. 5 + Len(Profiles)
    BY WantedIs, PacksAssumption, LenProperties
<1> QED
    BY <1>1 DEF ItemAt

\* A plan that says the digest of everything is the selection.
LEMMA PlanIsSelection ==
    ASSUME NEW r, Startable(r), \A i \in DOMAIN Plan(r) : Plan(r)[i].sha # "none"
    PROVE  LET Of(item) == For(Digests(Plan(r)), item)
               Beside(item, path) ==
                  /\ Of(item) \subseteq (IF r.ufs THEN {BoardOf(r)} ELSE {})
                  /\ r.ufs /\ r.mode = "bundle" /\ Lists(r, path) => Of(item) = {BoardOf(r)}
           IN /\ Of("u-boot") = {BoardOf(r)}
              /\ Beside("menu", <<"falcon-bootmenu", BoardOf(r), BootMenuImage>>)
              /\ Beside("recovery", <<"falcon-recovery", BoardOf(r), RecoveryImage>>)
              /\ Of("home") = {p \in {"home"} : ListsPack(r, "home", p)}
              /\ Of("full") = {p \in {MinimalName(r)} : ListsPack(r, "full", p)}
              /\ Of("inc") = {p \in r.chosen \ Minimals : ListsPack(r, "inc", p)}
<1> DEFINE w == Wanted(r)
           Of(item) == For(Digests(Plan(r)), item)
<1>1. /\ Len(Profiles) \in Nat /\ DOMAIN Profiles = 1 .. Len(Profiles)
      /\ DOMAIN w = 1 .. 5 + Len(Profiles)
    BY WantedIs, PacksAssumption, LenProperties
<1>2. {1, 2, 3, 4, 5} \subseteq DOMAIN w
    BY <1>1
<1>3. ASSUME NEW item, NEW i \in DOMAIN w, \A k \in DOMAIN w : ItemAt(k) = item <=> k = i
      PROVE  Of(item) = {whom \in {WhomAt(r, i)} : w[i] # <<>>}
    BY <1>3, ForIs
<1> HIDE DEF Of
<1>4. /\ WhomAt(r, 1) = BoardOf(r) /\ WhomAt(r, 2) = BoardOf(r) /\ WhomAt(r, 3) = BoardOf(r)
      /\ WhomAt(r, 4) = "home" /\ WhomAt(r, 5) = MinimalName(r)
    BY DEF WhomAt
<1>5. /\ Of("u-boot") = {whom \in {BoardOf(r)} : w[1] # <<>>}
      /\ Of("menu") = {whom \in {BoardOf(r)} : w[2] # <<>>}
      /\ Of("recovery") = {whom \in {BoardOf(r)} : w[3] # <<>>}
      /\ Of("home") = {whom \in {"home"} : w[4] # <<>>}
      /\ Of("full") = {whom \in {MinimalName(r)} : w[5] # <<>>}
    BY <1>2, <1>3, <1>4, PlaceOf
<1>6. /\ w[1] = Selected(r).uboot
      /\ w[2] = IF r.ufs THEN Selected(r).bootMenu ELSE <<>>
      /\ w[3] = IF r.ufs THEN Selected(r).recovery ELSE <<>>
      /\ w[4] = Selected(r).build.home
      /\ w[5] = Selected(r).build.full[MinimalName(r)]
      /\ \A j \in DOMAIN Profiles : w[5 + j] = Incremental(r, Profiles[j])
    BY WantedIs
<1>7. w[4] # <<>> <=> ListsPack(r, "home", "home")
    <2>1. w[4] = PackFor(PackDir(r), PacksOf(r), "home", "home")
        BY <1>6, BuildIs, ReadIs, Zenon
    <2>2. PackFor(PackDir(r), PacksOf(r), "home", "home") # <<>> <=> ListsPack(r, "home", "home")
        BY PackForIs, Zenon
    <2> QED
        BY <2>1, <2>2
<1>8. w[5] # <<>> <=> ListsPack(r, "full", MinimalName(r))
    <2> DEFINE m == MinimalName(r)
    <2>1. w[5] = PackFor(PackDir(r), PacksOf(r), "full", m)
        BY <1>6, MinimalNameIs
    <2> HIDE DEF m
    <2>2. PackFor(PackDir(r), PacksOf(r), "full", m) # <<>> <=> ListsPack(r, "full", m)
        BY PackForIs, Zenon
    <2> QED
        BY <2>1, <2>2 DEF m
<1>9. Of("inc") = {p \in r.chosen \ Minimals : ListsPack(r, "inc", p)}
    <2>1. ASSUME NEW p, p \in Of("inc")
          PROVE  p \in r.chosen \ Minimals /\ ListsPack(r, "inc", p)
        <3>1. PICK i \in DOMAIN w : w[i] # <<>> /\ ItemAt(i) = "inc" /\ WhomAt(r, i) = p
            BY <2>1, ForIs DEF Of
        <3>2. i > 5
            BY <3>1, PlaceOf
        <3> DEFINE j == i - 5
        <3>3. j \in DOMAIN Profiles /\ 5 + j = i
            BY <1>1, <3>2
        <3>4. p = Profiles[j]
            BY <1>1, <3>1, <3>2 DEF WhomAt
        <3> HIDE DEF j
        <3>5. Incremental(r, p) # <<>>
            BY <1>6, <3>1, <3>3, <3>4
        <3> QED
            BY <3>5, IncrementalIs
    <2>2. ASSUME NEW p \in r.chosen \ Minimals, ListsPack(r, "inc", p)
          PROVE  p \in Of("inc")
        <3>1. p \in ToSet(Profiles)
            BY <2>2, NamedIs
        <3>2. PICK j \in DOMAIN Profiles : Profiles[j] = p
            BY <3>1 DEF ToSet
        <3> DEFINE i == 5 + j
        <3>3. i \in DOMAIN w /\ i > 5 /\ i - 5 = j
            BY <1>1
        <3>4. w[i] # <<>>
            BY <1>6, <2>2, <3>2, IncrementalIs
        <3>5. WhomAt(r, i) = p
            BY <3>2, <3>3 DEF WhomAt
        <3> HIDE DEF i
        <3>6. ItemAt(i) = "inc"
            BY <3>3, PlaceOf
        <3> QED
            BY <3>3, <3>4, <3>5, <3>6, ForIs DEF Of
    <2> QED
        BY <2>1, <2>2
<1>10. /\ r.mode = "bundle" /\ Lists(r, <<"falcon-bootmenu", BoardOf(r), BootMenuImage>>)
             => Selected(r).bootMenu # <<>>
       /\ r.mode = "bundle" /\ Lists(r, <<"falcon-recovery", BoardOf(r), RecoveryImage>>)
             => Selected(r).recovery # <<>>
       /\ Selected(r).uboot # <<>>
    BY ImagesAre, Zenon
<1>11. Of("u-boot") = {BoardOf(r)}
    BY <1>5, <1>6, <1>10
<1>12. /\ Of("menu") \subseteq (IF r.ufs THEN {BoardOf(r)} ELSE {})
       /\ r.ufs /\ r.mode = "bundle" /\ Lists(r, <<"falcon-bootmenu", BoardOf(r), BootMenuImage>>)
             => Of("menu") = {BoardOf(r)}
    BY <1>5, <1>6, <1>10
<1>13. /\ Of("recovery") \subseteq (IF r.ufs THEN {BoardOf(r)} ELSE {})
       /\ r.ufs /\ r.mode = "bundle" /\ Lists(r, <<"falcon-recovery", BoardOf(r), RecoveryImage>>)
             => Of("recovery") = {BoardOf(r)}
    BY <1>5, <1>6, <1>10
<1>14. Of("home") = {p \in {"home"} : ListsPack(r, "home", p)}
    BY <1>5, <1>7
<1>15. Of("full") = {p \in {MinimalName(r)} : ListsPack(r, "full", p)}
    BY <1>5, <1>8
<1> QED
    BY <1>9, <1>11, <1>12, <1>13, <1>14, <1>15 DEF Of

\* What the staged copies hold are the artifacts of the plan.
LEMMA CopiedIs ==
    ASSUME IInv, at = "staged", ~job.dry, \A i \in DOMAIN job.arts : job.arts[i].sha # "none"
    PROVE  {files[map[i][2]][1][1] : i \in DOMAIN map} = Digests(job.arts)
<1>1. Planned(job) /\ Len(job.arts) \in Nat /\ next = Len(job.arts) + 1 /\ Len(map) = next - 1
    BY JobIs DEF IInv, TypeOK, Progress, Staging
<1>2. DOMAIN job.arts = 1 .. Len(job.arts) /\ \A i \in DOMAIN job.arts : job.arts[i].sha \in Contents
    BY <1>1 DEF Planned, Listing
<1>3. DOMAIN map = DOMAIN job.arts
    <2>1. DOMAIN map = 1 .. Len(map)
        BY DEF IInv, TypeOK
    <2> QED
        BY <1>1, <1>2, <2>1
<1>4. ASSUME NEW i \in DOMAIN job.arts PROVE files[map[i][2]][1][1] = job.arts[i].sha
    <2> DEFINE a == job.arts[i]
    <2>1. map[i] = <<a.loc, Dest(a)>> /\ files[Dest(a)] = Body(a.sha)
        BY <1>1, <1>2 DEF IInv, Verified, Staging
    <2>2. a.sha \in Contents
        BY <1>2
    <2> HIDE DEF a
    <2>3. Body(a.sha)[1] = <<a.sha, 1>>
        <3> DEFINE c == a.sha
        <3>1. Length[c] \in Nat /\ Length[c] > 0
            BY <2>2, SelectionAssumption, FetchAssumption
        <3> HIDE DEF c
        <3>2. 1 \in 1 .. Length[c]
            BY <3>1
        <3> QED
            BY <3>2 DEF Body, c
    <2> QED
        BY <2>1, <2>3 DEF a
<1> QED
    BY <1>3, <1>4 DEF Digests

\* What the install finds staged is the selection, whole and for this board
\* (Selection, stage.rs), for every request, manifest, medium and server.
THEOREM SelectionIsInstalled == Spec => []InstallsTheSelection
<1>1. IInv => InstallsTheSelection
    <2> SUFFICES ASSUME IInv, at = "staged", ~job.dry,
                        \A i \in DOMAIN job.arts : job.arts[i].sha # "none"
                 PROVE  InstallsTheSelection
        BY DEF InstallsTheSelection
    <2>1. job \in Jobs
        BY DEF IInv, Progress
    <2>2. /\ job.request \in DOMAIN Requests /\ CanStart(Requests[job.request])
          /\ job.arts = Plan(Requests[job.request])
        <3>1. PICK n \in DOMAIN Requests : CanStart(Requests[n]) /\ job = JobOf(n)
            BY <2>1, SelectionAssumption
        <3> QED
            BY <3>1 DEF JobOf
    <2> DEFINE r == Requests[job.request]
               copied == {files[map[i][2]][1][1] : i \in DOMAIN map}
    <2>3. Startable(r)
        BY <2>2, SelectionAssumption DEF Startable
    <2>4. job.arts = Plan(r)
        BY <2>2
    <2>5. copied = Digests(Plan(r))
        BY <2>4, CopiedIs
    <2>6. \A i \in DOMAIN Plan(r) : Plan(r)[i].sha # "none"
        BY <2>4
    <2> HIDE DEF r, copied
    <2> DEFINE Of(item) == For(copied, item)
               Beside(item, path) ==
                  /\ Of(item) \subseteq (IF r.ufs THEN {BoardOf(r)} ELSE {})
                  /\ r.ufs /\ r.mode = "bundle" /\ Lists(r, path) => Of(item) = {BoardOf(r)}
    <2>7. /\ Of("u-boot") = {BoardOf(r)}
          /\ Beside("menu", <<"falcon-bootmenu", BoardOf(r), BootMenuImage>>)
          /\ Beside("recovery", <<"falcon-recovery", BoardOf(r), RecoveryImage>>)
          /\ Of("home") = {p \in {"home"} : ListsPack(r, "home", p)}
          /\ Of("full") = {p \in {MinimalName(r)} : ListsPack(r, "full", p)}
          /\ Of("inc") = {p \in r.chosen \ Minimals : ListsPack(r, "inc", p)}
        BY <2>3, <2>5, <2>6, PlanIsSelection, Zenon
    <2>8. \E minimal \in Minimals :
            /\ ListsPack(r, "full", minimal) \/ ListsPack(r, "inc", minimal)
            /\ Of("full") = {p \in {minimal} : ListsPack(r, "full", p)}
        BY <2>3, <2>7, MinimalNameIs, Zenon
    <2> QED
        BY <2>7, <2>8, Zenon DEF InstallsTheSelection, r, copied, For
<1> QED
    BY <1>1, IInvHolds, PTL
=============================================================================
