---------------------------- MODULE Sources_proofs ----------------------------
(***************************************************************************)
(* What Sources guarantees for any bundles, builds and listings and any    *)
(* number of threads.                                                      *)
(*                                                                         *)
(* TypeOK does not say that the items of a level of builds are bundles,    *)
(* which is what a thread looks up in it, nor that a thread is what it is  *)
(* called; the invariant proved here does.                                 *)
(***************************************************************************)
EXTENDS Sources, TLAPS

Threads ==
    /\ jobs \in [Workers -> [calls : Seq(Calls), reading : BOOLEAN]]
    /\ \A w \in Workers : jobs[w].reading => jobs[w].calls # <<>>

Lists ==
    /\ listing \in [Levels -> [items : SUBSET (Bundles \cup {Channel}), state : LoadStates]]
    /\ listing["builds"].items \subseteq Bundles /\ listing["local"].items \subseteq Bundles

Picks ==
    /\ mode \in {"Bundle", "Custom"}
    /\ chosen \in [bundle : Bundles \cup {None}, uboot : Images \cup {None},
                   snapshot : Rootfs \cup {None}]
    /\ {bundle, failed} \subseteq Bundles \cup {None} /\ ready \in BOOLEAN

Contents ==
    /\ profiles \subseteq Extras
    /\ offered \subseteq Builds /\ loaded \subseteq offered
    /\ inflight \subseteq Calls

(* A level shows `loading' only while some thread reads it. *)
Reading(w, l) == Doing(w, "list") /\ On(w) = l /\ jobs[w].reading

LoadingIsRead ==
    \A l \in Levels : listing[l].state = "Loading" => \E w \in Workers : Reading(w, l)

IInv == Threads /\ Lists /\ Picks /\ Contents /\ LoadingIsRead

LEMMA TypeParts == IInv => TypeOK
<1> SUFFICES ASSUME IInv PROVE TypeOK
    OBVIOUS
<1>1. /\ DOMAIN jobs = Workers
      /\ \A w \in Workers :
           /\ jobs[w].reading \in BOOLEAN
           /\ jobs[w].reading => jobs[w].calls # <<>>
           /\ \A i \in DOMAIN jobs[w].calls : jobs[w].calls[i] \in Calls
    BY DEF IInv, Threads
<1> QED
    BY <1>1 DEF IInv, Lists, Picks, Contents, TypeOK
-------------------------------------------------------------------------------
(* The calls a thread may have left. *)

LEMMA CallTypes ==
    /\ \A l \in Levels : Call("list", l) \in Calls
    /\ \A b \in Bundles : Call("bundle", b) \in Calls
    /\ \A b \in Builds : Call("load", b) \in Calls
    /\ \A op \in {"clear", "catalog", "contents", "need", "channel", "newest", "settle"} :
          Call(op, None) \in Calls
BY DEF Call, Calls

LEMMA RefreshCallsType == RefreshCalls \in Seq(Calls) /\ RefreshCalls # <<>>
BY CallTypes DEF RefreshCalls, Levels

(* What a call is made on. *)
LEMMA OnType ==
    ASSUME Threads, NEW w \in Workers
    PROVE  /\ Doing(w, "list") => On(w) \in Levels
           /\ Doing(w, "bundle") => On(w) \in Bundles
           /\ Doing(w, "load") => On(w) \in Builds
<1> SUFFICES ASSUME jobs[w].calls # <<>>
             PROVE  /\ Head(jobs[w].calls).op = "list" => On(w) \in Levels
                    /\ Head(jobs[w].calls).op = "bundle" => On(w) \in Bundles
                    /\ Head(jobs[w].calls).op = "load" => On(w) \in Builds
    BY DEF Doing
<1>1. Head(jobs[w].calls) \in Calls
    BY DEF Threads
<1>2. ASSUME NEW c \in Calls
      PROVE  /\ c.op = "list" => c.on \in Levels
             /\ c.op = "bundle" => c.on \in Bundles
             /\ c.op = "load" => c.on \in Builds
    BY DEF Calls
<1> QED
    BY <1>1, <1>2 DEF On

(* A thread goes on: it alone changes, and was not idle. *)
Moves(w) ==
    /\ jobs[w].calls # <<>>
    /\ \A v \in Workers \ {w} : jobs'[v] = jobs[v]

LEMMA ContinueType ==
    ASSUME Threads, NEW w \in Workers, jobs[w].calls # <<>>, NEW c \in Seq(Calls), Continue(w, c)
    PROVE  Threads' /\ Moves(w)
<1> DEFINE r == [calls |-> c \o Tail(jobs[w].calls), reading |-> FALSE]
<1>1. jobs' = [jobs EXCEPT ![w] = r]
    BY DEF Continue, Threads
<1>2. Tail(jobs[w].calls) \in Seq(Calls)
    BY DEF Threads
<1>3. r \in [calls : Seq(Calls), reading : BOOLEAN] /\ ~r.reading
    BY <1>2
<1> HIDE DEF r
<1> QED
    BY <1>1, <1>3 DEF Threads, Moves

LEMMA ReturnType ==
    ASSUME Threads, NEW w \in Workers, jobs[w].calls # <<>>, Return(w)
    PROVE  Threads' /\ Moves(w)
<1>1. <<>> \in Seq(Calls)
    OBVIOUS
<1> QED
    BY <1>1, ContinueType DEF Return

LEMMA ReadType ==
    ASSUME Threads, NEW w \in Workers, jobs[w].calls # <<>>, Read(w)
    PROVE  /\ Threads' /\ Moves(w) /\ ~jobs[w].reading
           /\ jobs'[w].calls = jobs[w].calls /\ jobs'[w].reading
<1> DEFINE r == [jobs[w] EXCEPT !.reading = TRUE]
<1>1. jobs' = [jobs EXCEPT ![w] = r] /\ ~jobs[w].reading
    BY DEF Read, Threads
<1>2. r \in [calls : Seq(Calls), reading : BOOLEAN] /\ r.reading /\ r.calls = jobs[w].calls
    BY DEF Threads
<1> HIDE DEF r
<1> QED
    BY <1>1, <1>2 DEF Threads, Moves

(* A call of the operator starts a thread where there was none. *)
Starts == \E w \in Workers : jobs[w] = Idle /\ \A v \in Workers \ {w} : jobs'[v] = jobs[v]

LEMMA SpawnType ==
    ASSUME Threads, NEW c \in Seq(Calls), Spawn(c)
    PROVE  Threads' /\ Starts
<1> DEFINE free == {w \in Workers : jobs[w] = Idle}
           w == CHOOSE v \in free : TRUE
           r == [jobs[w] EXCEPT !.calls = c]
<1>1. free # {} /\ jobs' = [jobs EXCEPT ![w].calls = c]
    BY DEF Spawn
<1>2. w \in Workers /\ jobs[w] = Idle
    BY <1>1
<1> HIDE DEF w
<1>3. jobs' = [jobs EXCEPT ![w] = r]
    BY <1>1 DEF Threads
<1>4. r \in [calls : Seq(Calls), reading : BOOLEAN] /\ ~r.reading
    <2>1. jobs[w] \in [calls : Seq(Calls), reading : BOOLEAN] /\ jobs[w].reading = FALSE
        BY <1>2 DEF Threads, Idle
    <2> QED
        BY <2>1
<1> HIDE DEF r
<1> QED
    BY <1>2, <1>3, <1>4 DEF Threads, Starts
-------------------------------------------------------------------------------
(* A step of a thread: the threads stay threads, and only this one moves. *)
LEMMA StepThreads ==
    ASSUME IInv, NEW w \in Workers, Step(w)
    PROVE  Threads' /\ Moves(w)
<1>a. Threads /\ jobs[w].calls # <<>>
    BY DEF IInv, Step, Doing, ClearInflight, BeginListing, ListingArrives, ListingFails,
       RefreshCatalog, LoadSelected, NeedsBundle, FirstChannel, Newest, Settle, LookUpBundle,
       BundleArrives, BundleFails, LookUpBuild, BuildArrives, BuildFails
<1>r. Return(w) => Threads' /\ Moves(w)
    BY <1>a, ReturnType
<1>o. Read(w) => Threads' /\ Moves(w)
    BY <1>a, ReadType
<1>c. \A c \in Seq(Calls) : Continue(w, c) => Threads' /\ Moves(w)
    BY <1>a, ContinueType
<1>1. CASE ClearInflight(w) \/ ListingArrives(w) \/ ListingFails(w) \/ RefreshCatalog(w)
             \/ Settle(w) \/ BundleArrives(w) \/ BundleFails(w) \/ BuildArrives(w) \/ BuildFails(w)
    BY <1>1, <1>r DEF ClearInflight, ListingArrives, ListingFails, RefreshCatalog, Settle,
       BundleArrives, BundleFails, BuildArrives, BuildFails
<1>2. CASE BeginListing(w) \/ LookUpBundle(w) \/ LookUpBuild(w)
    BY <1>2, <1>r, <1>o DEF BeginListing, LookUpBundle, LookUpBuild
<1>3. CASE LoadSelected(w)
    <2> DEFINE load(k) == IF chosen[k] = None THEN <<>> ELSE <<Call("load", chosen[k])>>
    <2>1. load("snapshot") \in Seq(Calls) /\ load("uboot") \in Seq(Calls)
        <3>1. chosen["snapshot"] \in Builds \cup {None} /\ chosen["uboot"] \in Builds \cup {None}
            BY DEF IInv, Picks, Builds
        <3>2. \A k : chosen[k] \in Builds \cup {None} => load(k) \in Seq(Calls)
            BY CallTypes
        <3> QED
            BY <3>1, <3>2
    <2>2. Continue(w, load("snapshot") \o load("uboot"))
        BY <1>3 DEF LoadSelected
    <2> HIDE DEF load
    <2>3. load("snapshot") \o load("uboot") \in Seq(Calls)
        BY <2>1
    <2> QED
        BY <1>c, <2>2, <2>3
<1>4. CASE NeedsBundle(w)
    <2>1. <<Call("channel", None)>> \in Seq(Calls) /\ <<>> \in Seq(Calls)
        BY CallTypes
    <2>2. Continue(w, <<Call("channel", None)>>) \/ Continue(w, <<>>)
        BY <1>4 DEF NeedsBundle
    <2> QED
        BY <1>c, <2>1, <2>2
<1>5. CASE FirstChannel(w)
    <2>1. <<Call("list", "builds"), Call("newest", None)>> \in Seq(Calls) /\ <<>> \in Seq(Calls)
        BY CallTypes DEF Levels
    <2>2. Continue(w, <<Call("list", "builds"), Call("newest", None)>>) \/ Continue(w, <<>>)
        BY <1>5 DEF FirstChannel
    <2> QED
        BY <1>c, <2>1, <2>2
<1>6. CASE Newest(w)
    <2>1. CASE Return(w)
        BY <1>r, <2>1
    <2>2. ASSUME NEW b \in listing["builds"].items, Continue(w, <<Call("bundle", b)>>)
          PROVE  Threads' /\ Moves(w)
        <3>1. <<Call("bundle", b)>> \in Seq(Calls)
            BY CallTypes DEF IInv, Lists
        <3> QED
            BY <1>c, <2>2, <3>1
    <2> QED
        BY <1>6, <2>1, <2>2 DEF Newest
<1> QED
    BY <1>1, <1>2, <1>3, <1>4, <1>5, <1>6 DEF Step

(* A call of the operator starts a thread or leaves the threads alone. *)
LEMMA OperatorThreads ==
    ASSUME IInv, Operator
    PROVE  Threads' /\ (Starts \/ UNCHANGED jobs)
<1>a. Threads
    BY DEF IInv
<1>u. UNCHANGED jobs => Threads'
    BY <1>a DEF Threads
<1>s. ASSUME NEW c \in Calls, Spawn(<<c>>) PROVE Threads' /\ Starts
    <2>1. <<c>> \in Seq(Calls)
        OBVIOUS
    <2> QED
        BY <1>a, <1>s, <2>1, SpawnType
<1>1. ASSUME NEW b \in Bundles, SelectBundle(b) PROVE Threads' /\ Starts
    BY <1>1, <1>s, CallTypes DEF SelectBundle
<1>2. ASSUME NEW b \in Images, SelectUboot(b) PROVE Threads' /\ Starts
    BY <1>2, <1>s, CallTypes DEF SelectUboot, Builds
<1>3. ASSUME NEW b \in Rootfs, SelectSnapshotBuild(b) PROVE Threads' /\ (Starts \/ UNCHANGED jobs)
    BY <1>3, <1>u, <1>s, CallTypes DEF SelectSnapshotBuild, Builds
<1>4. ASSUME NEW p \in Extras, ToggleProfile(p) PROVE Threads' /\ UNCHANGED jobs
    BY <1>4, <1>u DEF ToggleProfile
<1>5. ASSUME NEW on \in BOOLEAN, SelectAllProfiles(on) PROVE Threads' /\ UNCHANGED jobs
    BY <1>5, <1>u DEF SelectAllProfiles
<1>6. ASSUME NEW l \in OpenedLevels, OnOpen(l) PROVE Threads' /\ Starts
    BY <1>6, <1>s, CallTypes, SourcesAssumption DEF OnOpen, EnsureLoaded
<1>7. ASSUME NEW b \in OpenedBuilds, OnFocus(b) PROVE Threads' /\ Starts
    BY <1>7, <1>s, CallTypes, SourcesAssumption DEF OnFocus, EnsureLoaded
<1>8. CASE Refresh
    BY <1>8, <1>a, SpawnType, RefreshCallsType DEF Refresh
<1> QED
    BY <1>1, <1>2, <1>3, <1>4, <1>5, <1>6, <1>7, <1>8 DEF Operator
-------------------------------------------------------------------------------
(* The profiles on offer are those of a bundle or a build. *)
LEMMA AllProfilesType ==
    ASSUME NEW m, NEW s \in Rootfs \cup {None}, NEW b \in Bundles \cup {None},
           NEW known \in SUBSET Builds
    PROVE  AllProfiles(m, s, b, known) \subseteq Extras
<1>1. \A x \in Bundles \cup Rootfs : ProfilesOf[x] \subseteq Extras
    BY SourcesAssumption
<1>2. s \in known => s \in Rootfs
    BY SourcesAssumption
<1> QED
    BY <1>1, <1>2 DEF AllProfiles

LEMMA PicksInductive ==
    ASSUME IInv, [Next]_vars PROVE Picks' /\ Contents'
<1> USE DEF Picks, Contents, selection
<1>a. Threads /\ Lists /\ Picks /\ Contents
    BY DEF IInv
<1>p. \A m : \A b \in Bundles \cup {None} :
          /\ AllProfiles(m, chosen.snapshot, b, loaded) \subseteq Extras
          /\ \A s \in Rootfs : AllProfiles(m, s, b, loaded) \subseteq Extras
    BY <1>a, AllProfilesType DEF Builds
<1>1. ASSUME NEW w \in Workers, Step(w) PROVE Picks' /\ Contents'
    <2>1. CASE RefreshCatalog(w)
        <3>1. PICK found \in Catalogs :
                 /\ offered' = found
                 /\ \E u \in AutoSelected("uboot", found \cap Images),
                       s \in AutoSelected("snapshot", found \cap Rootfs) :
                        chosen' = [chosen EXCEPT !.uboot = u, !.snapshot = s]
            BY <2>1 DEF RefreshCatalog
        <3>2. offered' \subseteq Builds
            BY <3>1, SourcesAssumption
        <3>3. AutoSelected("uboot", found \cap Images) \subseteq Images \cup {None}
            BY <1>a DEF AutoSelected
        <3>4. AutoSelected("snapshot", found \cap Rootfs) \subseteq Rootfs \cup {None}
            BY <1>a DEF AutoSelected
        <3>5. PICK u \in Images \cup {None}, s \in Rootfs \cup {None} :
                 chosen' = [chosen EXCEPT !.uboot = u, !.snapshot = s]
            BY <3>1, <3>3, <3>4
        <3>6. chosen' \in [bundle : Bundles \cup {None}, uboot : Images \cup {None},
                           snapshot : Rootfs \cup {None}]
            BY <1>a, <3>5
        <3> QED
            BY <1>a, <2>1, <3>2, <3>6 DEF RefreshCatalog
    <2>2. CASE BundleArrives(w)
        <3>1. On(w) \in Bundles
            BY <1>a, <2>2, OnType DEF BundleArrives
        <3> QED
            BY <1>a, <1>p, <2>2, <3>1 DEF BundleArrives
    <2>3. CASE BuildArrives(w)
        <3>1. loaded' \subseteq offered /\ offered' = offered
            BY <1>a, <2>3 DEF BuildArrives
        <3>2. AllProfiles(mode, chosen.snapshot, bundle, loaded') \subseteq Extras
            BY <1>a, <3>1, AllProfilesType
        <3>3. profiles' \subseteq Extras
            BY <1>a, <2>3, <3>2 DEF BuildArrives
        <3> QED
            BY <1>a, <2>3, <3>1, <3>3 DEF BuildArrives
    <2>4. CASE BundleFails(w)
        <3>1. On(w) \in Bundles
            BY <1>a, <2>4, OnType DEF BundleFails
        <3> QED
            BY <1>a, <2>4, <3>1 DEF BundleFails
    <2>5. CASE ~RefreshCatalog(w) /\ ~BundleArrives(w) /\ ~BuildArrives(w) /\ ~BundleFails(w)
        BY <1>1, <1>a, <2>5 DEF Step, ClearInflight, BeginListing, ListingArrives, ListingFails,
           LoadSelected, NeedsBundle, FirstChannel, Newest, Settle, LookUpBundle, LookUpBuild,
           BuildFails
    <2> QED
        BY <2>1, <2>2, <2>3, <2>4, <2>5
<1>2. CASE Operator
    <2>1. ASSUME NEW b \in Bundles, SelectBundle(b) PROVE Picks' /\ Contents'
        BY <1>a, <2>1 DEF SelectBundle
    <2>2. ASSUME NEW b \in Images, SelectUboot(b) PROVE Picks' /\ Contents'
        BY <1>a, <2>2 DEF SelectUboot
    <2>3. ASSUME NEW b \in Rootfs, SelectSnapshotBuild(b) PROVE Picks' /\ Contents'
        BY <1>a, <1>p, <2>3 DEF SelectSnapshotBuild
    <2>4. ASSUME NEW p \in Extras, ToggleProfile(p) PROVE Picks' /\ Contents'
        BY <1>a, <2>4 DEF ToggleProfile
    <2>5. ASSUME NEW on \in BOOLEAN, SelectAllProfiles(on) PROVE Picks' /\ Contents'
        BY <1>a, <1>p, <2>5 DEF SelectAllProfiles
    <2>6. ASSUME NEW l \in OpenedLevels, OnOpen(l) PROVE Picks' /\ Contents'
        BY <1>a, <2>6, CallTypes, SourcesAssumption DEF OnOpen, EnsureLoaded
    <2>7. ASSUME NEW b \in OpenedBuilds, OnFocus(b) PROVE Picks' /\ Contents'
        BY <1>a, <2>7, CallTypes, SourcesAssumption DEF OnFocus, EnsureLoaded
    <2>8. CASE Refresh
        BY <1>a, <2>8 DEF Refresh
    <2> QED
        BY <1>2, <2>1, <2>2, <2>3, <2>4, <2>5, <2>6, <2>7, <2>8 DEF Operator
<1>3. CASE UNCHANGED vars
    BY <1>a, <1>3 DEF vars
<1> QED
    BY <1>1, <1>2, <1>3 DEF Next

(* Only a thread that reads a level touches it, and leaves it as it should. *)
LEMMA OperatorListing == Operator => listing' = listing
BY DEF Operator, SelectBundle, SelectUboot, SelectSnapshotBuild, ToggleProfile,
   SelectAllProfiles, OnOpen, OnFocus, EnsureLoaded, Refresh

LEMMA StepListing ==
    ASSUME NEW w \in Workers, Step(w),
           ~BeginListing(w), ~ListingArrives(w), ~ListingFails(w)
    PROVE  listing' = listing /\ (~Doing(w, "list"))
BY DEF Step, Doing, ClearInflight, RefreshCatalog, LoadSelected, NeedsBundle, FirstChannel,
   Newest, Settle, LookUpBundle, BundleArrives, BundleFails, LookUpBuild, BuildArrives,
   BuildFails

LEMMA ListsInductive ==
    ASSUME IInv, [Next]_vars PROVE Lists'
<1>a. Threads /\ Lists
    BY DEF IInv
<1>u. UNCHANGED listing => Lists'
    BY <1>a DEF Lists
<1>1. ASSUME NEW w \in Workers, BeginListing(w) \/ ListingFails(w) PROVE Lists'
    <2>1. On(w) \in Levels
        BY <1>1, <1>a, OnType DEF BeginListing, ListingFails
    <2>2. PICK st \in LoadStates : listing' = [listing EXCEPT ![On(w)].state = st]
        BY <1>1 DEF BeginListing, ListingFails, LoadStates
    <2> QED
        BY <1>a, <2>1, <2>2 DEF Lists
<1>2. ASSUME NEW w \in Workers, ListingArrives(w) PROVE Lists'
    <2>1. On(w) \in Levels
        BY <1>2, <1>a, OnType DEF ListingArrives
    <2>2. PICK items \in Listings[On(w)] :
             listing' = [listing EXCEPT ![On(w)] = [items |-> items, state |-> "Loaded"]]
        BY <1>2 DEF ListingArrives
    <2>3. items \subseteq Bundles \cup {Channel}
            /\ (On(w) \in {"builds", "local"} => items \subseteq Bundles)
        BY <2>1, <2>2, SourcesAssumption DEF Levels
    <2> QED
        BY <1>a, <2>1, <2>2, <2>3 DEF Lists, LoadStates, Levels
<1>3. ASSUME NEW w \in Workers, Step(w) PROVE Lists'
    BY <1>1, <1>2, <1>3, <1>u, StepListing
<1>4. CASE Operator
    BY <1>4, <1>u, OperatorListing
<1>5. CASE UNCHANGED vars
    BY <1>5, <1>u DEF vars
<1> QED
    BY <1>3, <1>4, <1>5 DEF Next

(* Whoever finishes with a level it reads leaves it loaded or failed; nobody *)
(* else ends its reading.                                                    *)
LEMMA LoadingInductive ==
    ASSUME IInv, [Next]_vars PROVE LoadingIsRead'
<1> USE DEF Reading, Doing, On
<1>a. Threads /\ Lists /\ LoadingIsRead
    BY DEF IInv
<1> SUFFICES ASSUME NEW l \in Levels, listing'[l].state = "Loading"
             PROVE  \E v \in Workers : Reading(v, l)'
    BY DEF LoadingIsRead
<1>k. ASSUME NEW v \in Workers, Reading(v, l), jobs'[v] = jobs[v] PROVE Reading(v, l)'
    BY <1>k
<1>1. ASSUME NEW w \in Workers, Step(w) PROVE \E v \in Workers : Reading(v, l)'
    <2>a. Moves(w)
        BY <1>1, StepThreads
    <2>1. CASE BeginListing(w)
        <3>1. On(w) \in Levels /\ jobs[w].calls # <<>> /\ Read(w)
            BY <2>1, <1>a, OnType DEF BeginListing
        <3>2. jobs'[w].calls = jobs[w].calls /\ jobs'[w].reading /\ ~jobs[w].reading
            BY <1>a, <3>1, ReadType
        <3>3. CASE On(w) = l
            BY <2>1, <3>2, <3>3 DEF BeginListing
        <3>4. CASE On(w) # l
            <4>1. listing[l].state = "Loading"
                BY <1>a, <2>1, <3>4 DEF BeginListing, Lists
            <4>2. PICK v \in Workers : Reading(v, l)
                BY <1>a, <4>1 DEF LoadingIsRead
            <4> QED
                BY <1>k, <2>a, <3>4, <4>2 DEF Moves
        <3> QED
            BY <3>3, <3>4
    <2>2. CASE ListingArrives(w) \/ ListingFails(w)
        <3>1. On(w) \in Levels
            BY <2>2, <1>a, OnType DEF ListingArrives, ListingFails
        <3>2. On(w) # l
            <4>1. listing'[On(w)].state \in {"Loaded", "Failed"}
                <5>1. CASE ListingArrives(w)
                    BY <1>a, <3>1, <5>1 DEF ListingArrives, Lists
                <5>2. CASE ListingFails(w)
                    BY <1>a, <3>1, <5>2 DEF ListingFails, Lists
                <5> QED
                    BY <2>2, <5>1, <5>2
            <4> QED
                BY <4>1
        <3>3. listing[l].state = "Loading"
            BY <1>a, <2>2, <3>2 DEF ListingArrives, ListingFails, Lists
        <3>4. PICK v \in Workers : Reading(v, l)
            BY <1>a, <3>3 DEF LoadingIsRead
        <3> QED
            BY <1>k, <2>a, <3>2, <3>4 DEF Moves
    <2>3. CASE ~BeginListing(w) /\ ~ListingArrives(w) /\ ~ListingFails(w)
        <3>1. listing' = listing /\ ~Doing(w, "list")
            BY <1>1, <2>3, StepListing
        <3>2. PICK v \in Workers : Reading(v, l)
            BY <1>a, <3>1 DEF LoadingIsRead
        <3> QED
            BY <1>k, <2>a, <3>1, <3>2 DEF Moves
    <2> QED
        BY <2>1, <2>2, <2>3
<1>2. CASE Operator
    <2>1. listing' = listing
        BY <1>2, OperatorListing
    <2>2. PICK v \in Workers : Reading(v, l)
        BY <1>a, <2>1 DEF LoadingIsRead
    <2>3. jobs[v] # Idle
        BY <2>2 DEF Idle
    <2> QED
        BY <1>2, <1>k, <2>2, <2>3, OperatorThreads DEF Starts
<1>3. CASE UNCHANGED vars
    <2>1. listing' = listing /\ jobs' = jobs
        BY <1>3 DEF vars
    <2>2. PICK v \in Workers : Reading(v, l)
        BY <1>a, <2>1 DEF LoadingIsRead
    <2> QED
        BY <1>k, <2>1, <2>2
<1> QED
    BY <1>1, <1>2, <1>3 DEF Next

LEMMA Inductive == IInv /\ [Next]_vars => IInv'
<1> SUFFICES ASSUME IInv, [Next]_vars PROVE IInv'
    OBVIOUS
<1>1. Threads'
    <2>1. CASE UNCHANGED vars
        BY <2>1 DEF vars, IInv, Threads
    <2> QED
        BY <2>1, StepThreads, OperatorThreads DEF Next
<1> QED
    BY <1>1, PicksInductive, ListsInductive, LoadingInductive DEF IInv

LEMMA Initially == Init => IInv
<1> SUFFICES ASSUME Init PROVE IInv
    OBVIOUS
<1>1. Threads
    <2> DEFINE first == CHOOSE w \in Workers : TRUE
               r == [Idle EXCEPT !.calls = RefreshCalls]
    <2>1. jobs = [w \in Workers |-> IF w = first THEN r ELSE Idle]
        BY DEF Init
    <2>2. r \in [calls : Seq(Calls), reading : BOOLEAN] /\ ~r.reading
        BY RefreshCallsType DEF Idle
    <2>3. Idle \in [calls : Seq(Calls), reading : BOOLEAN] /\ ~Idle.reading
        BY DEF Idle
    <2> HIDE DEF r, first
    <2> QED
        BY <2>1, <2>2, <2>3 DEF Threads
<1>2. Picks /\ Contents
    BY DEF Init, Picks, Contents, Kinds
<1>3. Lists /\ LoadingIsRead
    BY DEF Init, Lists, LoadingIsRead, Levels, LoadStates
<1> QED
    BY <1>1, <1>2, <1>3 DEF IInv

(* The invariant: besides the types, a level is `loading' only while a       *)
(* thread that can end it is reading it (controller.rs:549-661).             *)
THEOREM Invariant == Spec => []IInv
BY Initially, Inductive, PTL DEF Spec

(* The selection, the listings and the threads are always of their type, and *)
(* only builds on offer are held to be read.                                 *)
THEOREM TypeCorrect == Spec => []TypeOK
BY Invariant, TypeParts, PTL

(* No background thread moves a pick, however late it answers and whatever   *)
(* the origins offer by then.                                                *)
THEOREM PicksStay == Spec => KeepsPicks
<1> DEFINE Kept == mode' = mode /\ \A k \in Kinds : chosen[k] # None => chosen'[k] = chosen[k]
<1>1. ASSUME IInv, NEW w \in Workers, Step(w) PROVE Kept
    <2>1. CASE RefreshCatalog(w)
        <3>1. PICK found \in Catalogs : \E u \in AutoSelected("uboot", found \cap Images),
                       s \in AutoSelected("snapshot", found \cap Rootfs) :
                        chosen' = [chosen EXCEPT !.uboot = u, !.snapshot = s]
            BY <2>1 DEF RefreshCatalog
        <3>2. PICK u \in AutoSelected("uboot", found \cap Images),
                   s \in AutoSelected("snapshot", found \cap Rootfs) :
                 chosen' = [chosen EXCEPT !.uboot = u, !.snapshot = s]
            BY <3>1
        <3>3. /\ chosen["uboot"] # None => u = chosen["uboot"]
              /\ chosen["snapshot"] # None => s = chosen["snapshot"]
            BY <3>2 DEF AutoSelected
        <3>4. /\ chosen'["uboot"] = u /\ chosen'["snapshot"] = s
              /\ chosen'["bundle"] = chosen["bundle"]
            BY <1>1, <3>2 DEF IInv, Picks
        <3> QED
            BY <2>1, <3>3, <3>4 DEF RefreshCatalog, Kinds
    <2>2. CASE ~RefreshCatalog(w)
        BY <1>1, <2>2 DEF Step, selection, ClearInflight, BeginListing, ListingArrives,
           ListingFails, LoadSelected, NeedsBundle, FirstChannel, Newest, Settle, LookUpBundle,
           BundleArrives, BundleFails, LookUpBuild, BuildArrives, BuildFails
    <2> QED
        BY <2>1, <2>2
<1>2. ASSUME IInv, Operator PROVE \A w \in Workers : jobs[w] # Idle => jobs'[w] = jobs[w]
    BY <1>2, OperatorThreads DEF Starts
<1>3. ASSUME IInv, [Next]_vars
      PROVE  [(\E w \in Workers : jobs[w] # Idle /\ jobs'[w] # jobs[w]) => Kept]_vars
    BY <1>1, <1>2, <1>3 DEF Next
<1> QED
    BY <1>3, Invariant, PTL DEF Spec, KeepsPicks
===============================================================================
