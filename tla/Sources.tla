-------------------------------- MODULE Sources --------------------------------
(***************************************************************************)
(* What may be installed and what is chosen: the listing of update         *)
(* bundles, the catalog of builds of the custom flow, the operator's picks *)
(* and the threads that read manifests in the background                   *)
(* (core/controller.rs from refresh_sources to load_snapshot_details and   *)
(* the select_* calls; core/menu.rs for who asks for a load).              *)
(*                                                                         *)
(* A thread is the sequence of calls it has left to make.  A call that     *)
(* reads something over the network looks at the state under the lock,     *)
(* reads without it, and files what it has read under the lock again; in   *)
(* between anything may happen, several threads read at once, and nothing  *)
(* tells a late answer from a current one.                                 *)
(*                                                                         *)
(* Boot menu and recovery builds are picked and read as U-Boot builds are  *)
(* and share their definitions.  The `dev' tree is a matter of more levels *)
(* of the same kind.  What only the details popup shows is left out, and   *)
(* so is supported_device_types, which nothing reads.                      *)
(***************************************************************************)
EXTENDS Naturals, Sequences

CONSTANTS
    Bundles,         \* bundles that may be listed
    Images, Rootfs,  \* builds the image server may offer, of each kind
    Channel,         \* the channel the bundles are published in
    Extras,          \* profiles other than Minimal
    ProfilesOf,      \* the extra profiles of each bundle and rootfs build
    Listings,        \* level -> what listing it may return
    Catalogs,        \* what the origins may offer when they are asked
    Unreliable,      \* levels, bundles and builds that may fail to be read
    OpenedLevels,    \* what of the menu is looked at: levels that are opened
    OpenedBuilds,    \* and builds whose row comes on screen
    None,
    Workers          \* the threads that may exist at once

Builds == Images \cup Rootfs
Levels == {"channels", "builds", "local"}
Kinds == {"bundle", "uboot", "snapshot"}
LoadStates == {"Idle", "Loading", "Loaded", "Failed"}

ASSUME SourcesAssumption ==
    /\ None \notin Bundles \cup Builds /\ Images \cap Rootfs = {}
    /\ ProfilesOf \in [Bundles \cup Rootfs -> SUBSET Extras]
    /\ Listings.channels \subseteq SUBSET {Channel}
    /\ Listings.builds \subseteq SUBSET Bundles /\ Listings.local \subseteq SUBSET Bundles
    /\ Catalogs \subseteq SUBSET Builds
    /\ Unreliable \subseteq (Levels \ {"local"}) \cup Bundles \cup Builds
    /\ OpenedLevels \subseteq Levels /\ OpenedBuilds \subseteq Builds

\* A call a thread has yet to make, and what it makes it on.
Call(op, on) == [op |-> op, on |-> on]
Calls ==
    [op : {"list"}, on : Levels] \cup [op : {"bundle"}, on : Bundles]
    \cup [op : {"load"}, on : Builds]
    \cup [op : {"clear", "catalog", "contents", "need", "channel", "newest", "settle"},
          on : {None}]

VARIABLES
    mode,      \* selection.mode
    chosen,    \* selection.bundle, .uboot, .snapshot_build
    profiles,  \* selection.profiles
    bundle,    \* the bundle whose manifest AppState.bundle holds
    failed,    \* the bundle that bundle_error is about, None without one
    listing,   \* level -> its items and the state of its load
    offered,   \* the builds of the catalog ...
    loaded,    \* ... and those whose manifest has been read
    inflight,  \* the lazy loads dispatched since the last Refresh
    ready,     \* the phase has left Discovering
    jobs       \* worker -> the calls it has left, and whether it is reading

selection == <<mode, chosen>>
vars == <<selection, profiles, bundle, failed, listing, offered, loaded, inflight, ready, jobs>>
-------------------------------------------------------------------------------
Listed == listing["builds"].items \cup listing["local"].items

\* select_all_profiles, of the build that the values given make the selected one.
AllProfiles(m, snapshot, b, known) ==
    IF m = "Bundle" THEN IF b = None THEN {} ELSE ProfilesOf[b]
    ELSE IF snapshot \in known THEN ProfilesOf[snapshot] ELSE {}

Idle == [calls |-> <<>>, reading |-> FALSE]
Doing(w, op) == jobs[w].calls # <<>> /\ Head(jobs[w].calls).op = op
On(w) == Head(jobs[w].calls).on

\* The worker goes on to the calls given, then to what it had left after this one.
Continue(w, calls) ==
    jobs' = [jobs EXCEPT ![w] = [calls |-> calls \o Tail(@.calls), reading |-> FALSE]]
Return(w) == Continue(w, <<>>)
Read(w) == ~jobs[w].reading /\ jobs' = [jobs EXCEPT ![w].reading = TRUE]

\* Mutant: the manifests are read before the catalog is replaced.
RefreshCallsEarly ==
    <<Call("clear", None), Call("list", "channels"), Call("list", "local"),
      Call("contents", None), Call("catalog", None), Call("need", None),
      Call("settle", None)>>

RefreshCalls ==
    <<Call("clear", None), Call("list", "channels"), Call("list", "local"),
      Call("catalog", None), Call("contents", None), Call("need", None),
      Call("settle", None)>>

\* Which of the free workers it is makes no difference.
Spawn(calls) ==
    LET free == {w \in Workers : jobs[w] = Idle}
    IN /\ free # {}
       /\ jobs' = [jobs EXCEPT ![CHOOSE w \in free : TRUE].calls = calls]

\* main spawns the first refresh; it is at work before anything is listed.
Init ==
    /\ mode \in {"Bundle", "Custom"}
    /\ chosen = [k \in Kinds |-> None]
    /\ profiles = {} /\ bundle = None /\ failed = None
    /\ listing = [l \in Levels |-> [items |-> {}, state |-> "Idle"]]
    /\ offered = {} /\ loaded = {} /\ inflight = {} /\ ready = FALSE
    /\ LET first == CHOOSE w \in Workers : TRUE
       IN jobs = [w \in Workers |->
                     IF w = first THEN [Idle EXCEPT !.calls = RefreshCalls] ELSE Idle]
-------------------------------------------------------------------------------
(* The threads. *)

ClearInflight(w) ==
    /\ Doing(w, "clear")
    /\ inflight' = {}
    /\ Return(w)
    /\ UNCHANGED <<selection, profiles, bundle, failed, listing, offered, loaded, ready>>

\* load_channels, load_builds, load_local: what is there stays while it is read
\* again, and when it cannot be.  A scan of local media does not fail.
BeginListing(w) ==
    /\ Doing(w, "list") /\ Read(w)
    /\ listing' = [listing EXCEPT ![On(w)].state = "Loading"]
    /\ UNCHANGED <<selection, profiles, bundle, failed, offered, loaded, inflight, ready>>

ListingArrives(w) ==
    /\ Doing(w, "list") /\ jobs[w].reading
    /\ \E items \in Listings[On(w)] :
           listing' = [listing EXCEPT ![On(w)] = [items |-> items, state |-> "Loaded"]]
    /\ Return(w)
    /\ UNCHANGED <<selection, profiles, bundle, failed, offered, loaded, inflight, ready>>

\* Mutant: the failure is only logged.
ListingFailsSilently(w) ==
    /\ Doing(w, "list") /\ jobs[w].reading /\ On(w) \in Unreliable
    /\ Return(w)
    /\ UNCHANGED <<selection, profiles, bundle, failed, listing, offered, loaded, inflight, ready>>

ListingFails(w) ==
    /\ Doing(w, "list") /\ jobs[w].reading /\ On(w) \in Unreliable
    /\ listing' = [listing EXCEPT ![On(w)].state = "Failed"]
    /\ Return(w)
    /\ UNCHANGED <<selection, profiles, bundle, failed, offered, loaded, inflight, ready>>

\* A pick that is missing falls to the first build of its kind, if there is one.
AutoSelected(kind, builds) ==
    IF chosen[kind] # None \/ builds = {} THEN {chosen[kind]} ELSE builds

\* refresh_catalog files what the origins offer: new records, none of them read.
RefreshCatalog(w) ==
    /\ Doing(w, "catalog")
    /\ \E found \in Catalogs :
           /\ offered' = found
           /\ \E u \in AutoSelected("uboot", found \cap Images),
                 s \in AutoSelected("snapshot", found \cap Rootfs) :
                  chosen' = [chosen EXCEPT !.uboot = u, !.snapshot = s]
    /\ loaded' = {}
    /\ Return(w)
    /\ UNCHANGED <<mode, profiles, bundle, failed, listing, inflight, ready>>

\* ... and then reads the manifests of what is selected by then.
LoadSelected(w) ==
    /\ Doing(w, "contents")
    /\ LET load(kind) ==
               IF chosen[kind] = None THEN <<>> ELSE <<Call("load", chosen[kind])>>
       IN Continue(w, load("snapshot") \o load("uboot"))
    /\ UNCHANGED <<selection, profiles, bundle, failed, listing, offered, loaded, inflight, ready>>

\* refresh_sources without a bundle selected: the newest build of the first
\* channel, each of them looked up in a snapshot of its own.
NeedsBundle(w) ==
    /\ Doing(w, "need")
    /\ Continue(w, IF mode = "Bundle" /\ chosen.bundle = None
                   THEN <<Call("channel", None)>> ELSE <<>>)
    /\ UNCHANGED <<selection, profiles, bundle, failed, listing, offered, loaded, inflight, ready>>

FirstChannel(w) ==
    /\ Doing(w, "channel")
    /\ Continue(w, IF listing["channels"].items # {}
                   THEN <<Call("list", "builds"), Call("newest", None)>> ELSE <<>>)
    /\ UNCHANGED <<selection, profiles, bundle, failed, listing, offered, loaded, inflight, ready>>

\* Mutant: whether there is a newest build is not asked.
NewestUnchecked(w) ==
    /\ Doing(w, "newest")
    /\ \E b \in listing["builds"].items \cup {None} : Continue(w, <<Call("bundle", b)>>)
    /\ UNCHANGED <<selection, profiles, bundle, failed, listing, offered, loaded, inflight, ready>>

Newest(w) ==
    /\ Doing(w, "newest")
    /\ IF listing["builds"].items = {} THEN Return(w)
       ELSE \E b \in listing["builds"].items : Continue(w, <<Call("bundle", b)>>)
    /\ UNCHANGED <<selection, profiles, bundle, failed, listing, offered, loaded, inflight, ready>>

Settle(w) ==
    /\ Doing(w, "settle")
    /\ ready' = TRUE
    /\ Return(w)
    /\ UNCHANGED <<selection, profiles, bundle, failed, listing, offered, loaded, inflight>>

\* load_bundle: without a word if the bundle is no longer listed.
LookUpBundle(w) ==
    /\ Doing(w, "bundle") /\ ~jobs[w].reading
    /\ IF On(w) \in Listed THEN Read(w) ELSE Return(w)
    /\ UNCHANGED <<selection, profiles, bundle, failed, listing, offered, loaded, inflight, ready>>

\* Mutant: what has been read becomes the selection.
BundleArrivesSelected(w) ==
    /\ Doing(w, "bundle") /\ jobs[w].reading
    /\ bundle' = On(w) /\ failed' = None
    /\ chosen' = [chosen EXCEPT !.bundle = On(w)]
    /\ profiles' = AllProfiles(mode, chosen.snapshot, On(w), loaded)
    /\ Return(w)
    /\ UNCHANGED <<mode, listing, offered, loaded, inflight, ready>>

BundleArrives(w) ==
    /\ Doing(w, "bundle") /\ jobs[w].reading
    /\ bundle' = On(w) /\ failed' = None
    /\ profiles' = AllProfiles(mode, chosen.snapshot, On(w), loaded)
    /\ Return(w)
    /\ UNCHANGED <<selection, listing, offered, loaded, inflight, ready>>

\* Mutant: the failure is only logged.
BundleFailsSilently(w) ==
    /\ Doing(w, "bundle") /\ jobs[w].reading /\ On(w) \in Unreliable
    /\ Return(w)
    /\ UNCHANGED <<selection, profiles, bundle, failed, listing, offered, loaded, inflight, ready>>

BundleFails(w) ==
    /\ Doing(w, "bundle") /\ jobs[w].reading /\ On(w) \in Unreliable
    /\ bundle' = None /\ failed' = On(w)
    /\ Return(w)
    /\ UNCHANGED <<selection, profiles, listing, offered, loaded, inflight, ready>>

\* load_profiles, load_uboot_contents and their likes: nothing to do for a build
\* that is unknown or already read.
LookUpBuild(w) ==
    /\ Doing(w, "load") /\ ~jobs[w].reading
    /\ IF On(w) \in offered \ loaded THEN Read(w) ELSE Return(w)
    /\ UNCHANGED <<selection, profiles, bundle, failed, listing, offered, loaded, inflight, ready>>

BuildArrives(w) ==
    /\ Doing(w, "load") /\ jobs[w].reading
    /\ loaded' = loaded \cup ({On(w)} \cap offered)
    /\ profiles' = IF mode = "Custom" /\ chosen.snapshot = On(w)
                   THEN AllProfiles(mode, On(w), bundle, loaded') ELSE profiles
    /\ Return(w)
    /\ UNCHANGED <<selection, bundle, failed, listing, offered, inflight, ready>>

BuildFails(w) ==
    /\ Doing(w, "load") /\ jobs[w].reading /\ On(w) \in Unreliable
    /\ Return(w)
    /\ UNCHANGED <<selection, profiles, bundle, failed, listing, offered, loaded, inflight, ready>>

Step(w) ==
    \/ ClearInflight(w) \/ BeginListing(w) \/ ListingArrives(w) \/ ListingFails(w)
    \/ RefreshCatalog(w) \/ LoadSelected(w) \/ NeedsBundle(w) \/ FirstChannel(w) \/ Newest(w)
    \/ Settle(w) \/ LookUpBundle(w) \/ BundleArrives(w) \/ BundleFails(w)
    \/ LookUpBuild(w) \/ BuildArrives(w) \/ BuildFails(w)
-------------------------------------------------------------------------------
(* The operator. *)

SelectBundle(b) ==
    /\ b \in Listed
    /\ mode' = "Bundle" /\ chosen' = [chosen EXCEPT !.bundle = b]
    /\ profiles' = {} /\ bundle' = None /\ failed' = None
    /\ Spawn(<<Call("bundle", b)>>)
    /\ UNCHANGED <<listing, offered, loaded, inflight, ready>>

\* Also select_boot_menu and select_recovery.
SelectUboot(b) ==
    /\ b \in offered \cap Images
    /\ mode' = "Custom" /\ chosen' = [chosen EXCEPT !.uboot = b]
    /\ Spawn(<<Call("load", b)>>)
    /\ UNCHANGED <<profiles, bundle, failed, listing, offered, loaded, inflight, ready>>

SelectSnapshotBuild(b) ==
    /\ b \in offered \cap Rootfs
    /\ mode' = "Custom" /\ chosen' = [chosen EXCEPT !.snapshot = b]
    /\ profiles' = AllProfiles("Custom", b, bundle, loaded)
    /\ IF b \in loaded THEN UNCHANGED jobs ELSE Spawn(<<Call("load", b)>>)
    /\ UNCHANGED <<bundle, failed, listing, offered, loaded, inflight, ready>>

\* The profiles on offer are those of the selected build.
ToggleProfile(p) ==
    /\ p \in AllProfiles(mode, chosen.snapshot, bundle, loaded)
    /\ profiles' = IF p \in profiles THEN profiles \ {p} ELSE profiles \cup {p}
    /\ UNCHANGED <<selection, bundle, failed, listing, offered, loaded, inflight, ready, jobs>>

SelectAllProfiles(on) ==
    /\ AllProfiles(mode, chosen.snapshot, bundle, loaded) # {}
    /\ profiles' = IF on THEN AllProfiles(mode, chosen.snapshot, bundle, loaded) ELSE {}
    /\ UNCHANGED <<selection, bundle, failed, listing, offered, loaded, inflight, ready, jobs>>

Refresh ==
    /\ ready
    /\ Spawn(RefreshCalls)
    /\ UNCHANGED <<selection, profiles, bundle, failed, listing, offered, loaded, inflight, ready>>

\* Opening a level, or a row coming on screen, asks for its load.
EnsureLoaded(call) ==
    /\ call \notin inflight
    /\ inflight' = inflight \cup {call}
    /\ Spawn(<<call>>)
    /\ UNCHANGED <<selection, profiles, bundle, failed, listing, offered, loaded, ready>>

OnOpen(l) == (l = "builds" => listing["channels"].items # {}) /\ EnsureLoaded(Call("list", l))
OnFocus(b) == b \in offered /\ EnsureLoaded(Call("load", b))

Operator ==
    \/ \E b \in Bundles : SelectBundle(b)
    \/ \E b \in Images : SelectUboot(b)
    \/ \E b \in Rootfs : SelectSnapshotBuild(b)
    \/ \E p \in Extras : ToggleProfile(p)
    \/ \E on \in BOOLEAN : SelectAllProfiles(on)
    \/ \E l \in OpenedLevels : OnOpen(l)
    \/ \E b \in OpenedBuilds : OnFocus(b)
    \/ Refresh

Next == Operator \/ \E w \in Workers : Step(w)

Spec == Init /\ [][Next]_vars

\* A thread runs on: requests to the servers have timeouts.
FairSpec == Spec /\ \A w \in Workers : WF_vars(Step(w))
-------------------------------------------------------------------------------
\* The types of the state; in particular every call names what it is to act on.
TypeOK ==
    /\ mode \in {"Bundle", "Custom"}
    /\ chosen \in [bundle : Bundles \cup {None}, uboot : Images \cup {None},
                   snapshot : Rootfs \cup {None}]
    /\ profiles \subseteq Extras
    /\ {bundle, failed} \subseteq Bundles \cup {None} /\ ready \in BOOLEAN
    /\ listing \in [Levels -> [items : SUBSET (Bundles \cup {Channel}), state : LoadStates]]
    /\ offered \subseteq Builds /\ loaded \subseteq offered
    /\ inflight \subseteq Calls
    /\ DOMAIN jobs = Workers
    /\ \A w \in Workers :
           /\ jobs[w].reading \in BOOLEAN
           /\ jobs[w].reading => jobs[w].calls # <<>>
           /\ \A i \in DOMAIN jobs[w].calls : jobs[w].calls[i] \in Calls

\* Whatever a background thread finds, it fills gaps in the selection and never
\* moves a pick of a build or a bundle (what is picked of the profiles it may):
\* neither a Refresh that was under way when the operator chose, nor one that no
\* longer finds the choice (controller.rs:474-496).
KeepsPicks ==
    [][(\E w \in Workers : jobs[w] # Idle /\ jobs'[w] # jobs[w])
       => /\ mode' = mode
          /\ \A k \in Kinds : chosen[k] # None => chosen'[k] = chosen[k]]_vars

\* A level that shows `loading' comes to show something else, whichever of the
\* threads that read it at once is the last one (controller.rs:549-661).
ListingSettles == \A l \in Levels : listing[l].state = "Loading" ~> listing[l].state # "Loading"

\* A bundle that the operator has picked and whose row shows neither a manifest nor
\* an error comes to be read itself, or an error of its own to be recorded, unless
\* another source is picked first: no other read, of an earlier pick or of the
\* automatic choice, takes the place of its own (controller.rs:665-719).  It has to
\* stay listed; what is filed after it is BundleIsSelected's matter.
BundleResolves ==
    \A b \in Bundles :
        [](chosen.bundle = b => b \in Listed) =>
        ((mode = "Bundle" /\ chosen.bundle = b /\ bundle = None /\ failed = None) ~>
         (b \in {bundle, failed} \/ mode # "Bundle" \/ chosen.bundle # b))

\* The builds selected in the custom flow come to have their manifest read as
\* long as they are on offer and can be read, although every Refresh throws away
\* what has been read (controller.rs:466-505, 1099-1155): an install refuses to
\* start without it.
SelectedIsLoaded ==
    \A b \in Builds \ Unreliable :
        (mode = "Custom" /\ b \in {chosen.uboot, chosen.snapshot} /\ b \in offered) ~>
        (b \in loaded \/ b \notin offered \/ b \notin {chosen.uboot, chosen.snapshot})

\* What model.rs:774 says of AppState.bundle, "The selected bundle with its
\* manifest read; `None` until it resolves": it is the selected one.
BundleIsSelected ==
    mode = "Bundle" /\ chosen.bundle # None /\ bundle # None => bundle = chosen.bundle
===============================================================================
