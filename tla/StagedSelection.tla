---------------------------- MODULE StagedSelection ----------------------------
(***************************************************************************)
(* Module Stage at work on what module Selection makes of what the         *)
(* operator picked: every run stages the plan of one request.              *)
(***************************************************************************)
EXTENDS Stage, Selection

CONSTANTS
    Requests,   \* states of the selection an install may be started from, by a name
    Purpose     \* what every content is: an item, and the board or profile it is for

\* The run of a request; the size of the archive stands for the room it needs.
JobOf(name) ==
    LET r == Requests[name]
    IN [arts |-> Plan(r), archive |-> Archive(r), keep |-> r.keep, dry |-> r.dry,
        request |-> name, estimate |-> IF r.bundle = <<>> THEN 0 ELSE r.bundle[1].size]

\* What may be missing, and the manifests the plan of a request is made from.
Optional(r) == IF r.mode = "bundle" THEN {r.bundle} ELSE {r.menu, r.recovery}
Builds(r) == {r.uboot, r.rootfs} \cup ToSet(r.menu) \cup ToSet(r.recovery)
Manifests(r) ==
    IF r.mode = "bundle" THEN {b.files : b \in ToSet(r.bundle)}
    ELSE {b.files : b \in Builds(r)}

\* What a manifest gives: files with a name, and digests of something known.
Manifest(listed) ==
    /\ listed \in Seq([path : Seq(STRING), sha : Contents \cup {"none"}, size : Nat])
    /\ \A i \in DOMAIN listed : listed[i].path # <<>>

\* What a file is by its path: a pack by its name, an image by its directory as well.
Use(item, whom) == [item |-> item, for |-> whom]
UseOf(path) ==
    CASE BaseName(path) \in DOMAIN Packs ->
            Use(Packs[BaseName(path)].kind, Packs[BaseName(path)].profile)
      [] BaseName(path) = UbootImage -> Use("u-boot", path[Len(path) - 1])
      [] BaseName(path) = BootMenuImage -> Use("menu", path[Len(path) - 1])
      [] BaseName(path) = RecoveryImage -> Use("recovery", path[Len(path) - 1])

\* The published digests are of files that are what their paths say.
Truthful(listed) ==
    \A i \in DOMAIN listed :
        /\ BaseName(listed[i].path) \in DOMAIN Packs \/
              (BaseName(listed[i].path) \in Images /\ Len(listed[i].path) > 1)
        /\ listed[i].sha # "none"
        => Purpose[listed[i].sha] = UseOf(listed[i].path)

ASSUME SelectionAssumption ==
    /\ Jobs = {JobOf(n) : n \in {m \in DOMAIN Requests : CanStart(Requests[m])}}
    /\ \A n \in DOMAIN Requests :
          /\ \A o \in Optional(Requests[n]) : o = <<>> \/ DOMAIN o = {1}
          /\ \A listed \in Manifests(Requests[n]) : Manifest(listed) /\ Truthful(listed)
    /\ \A c \in Contents : Length[c] > 0

SourceFiles(r) ==
    ToSet(IF r.mode = "bundle" THEN r.bundle[1].files ELSE r.rootfs.files)
Lists(r, path) == \E f \in SourceFiles(r) : f.path = path
ListsPack(r, kind, profile) ==
    \E f \in SourceFiles(r) :
        /\ BaseName(f.path) \in DOMAIN Packs
        /\ Packs[BaseName(f.path)] = [kind |-> kind, profile |-> profile]
        /\ r.mode = "bundle" => f.path = <<"profile-packs", BaseName(f.path)>>

\* The directory the board is installed from.
BoardOf(r) ==
    IF IF r.mode = "bundle" THEN Lists(r, <<"u-boot", r.board, UbootImage>>)
       ELSE r.offered = {} \/ r.board \in r.offered
    THEN r.board ELSE Fallback(r.board)

\* What the install finds staged is the selection, whole and for this board
\* (bundle.rs:334, catalog.rs:343, stage.rs:10): one bootloader, the board's own if
\* there is one; a boot menu and a recovery image of no other board, none on a target
\* that takes none, and the bundle's not forgotten; the seed of /home; one profile that
\* is Minimal, by its full pack; and of the profiles that were chosen all that have an
\* incremental pack, and no other.  For manifests that publish every digest.
InstallsTheSelection ==
    at = "staged" /\ ~job.dry /\ (\A i \in DOMAIN job.arts : job.arts[i].sha # "none") =>
        LET r == Requests[job.request]
            copied == {files[map[i][2]][1][1] : i \in DOMAIN map}
            For(item) == {Purpose[c].for : c \in {d \in copied : Purpose[d].item = item}}
            Beside(item, path) ==
                /\ For(item) \subseteq (IF r.ufs THEN {BoardOf(r)} ELSE {})
                /\ r.ufs /\ r.mode = "bundle" /\ Lists(r, path) => For(item) = {BoardOf(r)}
        IN /\ For("u-boot") = {BoardOf(r)}
           /\ Beside("menu", <<"falcon-bootmenu", BoardOf(r), BootMenuImage>>)
           /\ Beside("recovery", <<"falcon-recovery", BoardOf(r), RecoveryImage>>)
           /\ For("home") = {p \in {"home"} : ListsPack(r, "home", p)}
           /\ \E minimal \in Minimals :
                /\ ListsPack(r, "full", minimal) \/ ListsPack(r, "inc", minimal)
                /\ For("full") = {p \in {minimal} : ListsPack(r, "full", p)}
           /\ For("inc") = {p \in r.chosen \ Minimals : ListsPack(r, "inc", p)}
===============================================================================
