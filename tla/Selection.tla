------------------------------- MODULE Selection -------------------------------
(***************************************************************************)
(* From what is picked to what an install reads: the files a bundle's      *)
(* manifest (core/bundle.rs) or a hand-picked build's (core/catalog.rs)    *)
(* lists for a board, the choice between the two (core/model.rs), and the  *)
(* plan of artifacts (core/stage.rs).                                      *)
(*                                                                         *)
(* A manifest's files are a sequence of records of path, sha and size; a   *)
(* path is a sequence of names, a location <<root, path>>, root being      *)
(* where a bundle or build lies.  What may be missing is a sequence of at  *)
(* most one element.  Details, labels and times are left out.              *)
(***************************************************************************)
EXTENDS Naturals, Sequences, SequencesExt

CONSTANTS
    Packs,      \* file names that are packs: kind ("full", "inc", "home") and profile
    Profiles,   \* names of profiles in their order: Minimal first, then alphabetical
    Minimals    \* those that are Minimal in any spelling

UbootImage == "u-boot-rockchip.bin"
BootMenuImage == "bootmenu-falcon.itb"
RecoveryImage == "recovery-falcon.itb"
Images == {UbootImage, BootMenuImage, RecoveryImage}

\* Every profile of a pack has its place in the order; no image has the name of a pack.
ASSUME PacksAssumption ==
    /\ Packs \in [DOMAIN Packs -> [kind : {"full", "inc", "home"}, profile : STRING]]
    /\ DOMAIN Packs \cap Images = {}
    /\ Profiles \in Seq(STRING) /\ IsInjective(Profiles)
    /\ \A name \in DOMAIN Packs :
          Packs[name].kind # "home" => Packs[name].profile \in ToSet(Profiles)

At(files, i) == IF i = 0 THEN <<>> ELSE <<files[i]>>
FirstOf(files, Test(_)) == At(files, SelectInSeq(files, Test))
LastOf(files, Test(_)) == At(files, SelectLastInSeq(files, Test))

\* A file of a manifest as it is read from a place.
Located(root, path, entry) == [loc |-> <<root, path>>, sha |-> entry.sha, size |-> entry.size]
BaseName(path) == Last(path)
NameOf(file) == BaseName(file.loc[2])

\* Where a board has no directory of its own.
Fallback(board) == IF board = "flipper-one" THEN board ELSE "generic"
-------------------------------------------------------------------------------
(* Packs, whether of a bundle or of a build, in one directory: of several the  *)
(* last listed.                                                                *)

IsPack(dir, file) ==
    file.loc[2] = Append(dir, NameOf(file)) /\ NameOf(file) \in DOMAIN Packs
PackFor(dir, packs, kind, profile) ==
    LastOf(packs, LAMBDA f :
        IsPack(dir, f) /\ Packs[NameOf(f)] = [kind |-> kind, profile |-> profile])

ReadPacks(dir, packs) ==
    LET named == {Packs[NameOf(f)].profile :
                     f \in {g \in ToSet(packs) : IsPack(dir, g) /\ Packs[NameOf(g)].kind # "home"}}
    IN [profiles |-> named,
        full |-> [p \in named |-> PackFor(dir, packs, "full", p)],
        inc  |-> [p \in named |-> PackFor(dir, packs, "inc", p)],
        home |-> PackFor(dir, packs, "home", "home")]

MinimalOf(build) == FirstOf(Profiles, LAMBDA p : p \in build.profiles \cap Minimals)
Extras(build, chosen) == (build.profiles \cap chosen) \ Minimals
-------------------------------------------------------------------------------
(* A bundle: every path is from its root.                                      *)

DeviceTypes(files) ==
    {f.path[2] : f \in {g \in ToSet(files) :
        Len(g.path) = 3 /\ g.path[1] = "u-boot" /\ g.path[3] = UbootImage}}

\* Mutant: the table that builds are listed by decides for a bundle as well.
BoardDirByTable(files, board) == Fallback(board)

\* The board's own directory if the bundle ships it.
BoardDir(files, board) == IF board \in DeviceTypes(files) THEN board ELSE Fallback(board)

Shipped(bundle, path) ==
    LET hit == FirstOf(bundle.files, LAMBDA f : f.path = path)
    IN [i \in DOMAIN hit |-> Located(bundle.root, path, hit[i])]

BundlePacks(bundle) ==
    [i \in DOMAIN bundle.files |->
        Located(bundle.root, bundle.files[i].path, bundle.files[i])]

Resolve(bundle, board) ==
    LET dir == BoardDir(bundle.files, board)
    IN [uboot    |-> Shipped(bundle, <<"u-boot", dir, UbootImage>>),
        bootMenu |-> Shipped(bundle, <<"falcon-bootmenu", dir, BootMenuImage>>),
        recovery |-> Shipped(bundle, <<"falcon-recovery", dir, RecoveryImage>>),
        build    |-> ReadPacks(<<"profile-packs">>, BundlePacks(bundle))]

\* load: otherwise there is an error, and no bundle to install.
Loads(bundle, board) ==
    /\ bundle.schema = 1
    /\ Resolve(bundle, board).uboot # <<>>
    /\ MinimalOf(Resolve(bundle, board).build) # <<>>
-------------------------------------------------------------------------------
(* Hand-picked builds: all listed with one directory for the board, and read   *)
(* by their own manifests.                                                     *)

\* Nothing offered is a list that could not be read.
ListingBoardDir(board, offered) ==
    IF offered = {} \/ board \in offered THEN board ELSE Fallback(board)

\* The location is the one that was listed; size and digest are those of an entry
\* whose path ends in it.
FindForBoard(build, dir, name) ==
    LET hit == FirstOf(build.files, LAMBDA f : IsSuffix(<<dir, name>>, f.path))
    IN IF build.loaded
       THEN [i \in DOMAIN hit |-> Located(build.root, <<dir, name>>, hit[i])]
       ELSE <<>>

\* A rootfs build has its packs side by side, however its manifest lists them.
BuildPacks(build) ==
    [i \in DOMAIN build.files |->
        Located(build.root, <<BaseName(build.files[i].path)>>, build.files[i])]

\* What is picked of each kind; for want of a picked boot menu the bootloader's own.
Custom(r) ==
    LET dir == ListingBoardDir(r.board, r.offered)
    IN [uboot    |-> FindForBoard(r.uboot, dir, UbootImage),
        bootMenu |-> FindForBoard(IF r.menu = <<>> THEN r.uboot ELSE r.menu[1], dir, BootMenuImage),
        recovery |-> IF r.recovery = <<>> THEN <<>>
                     ELSE FindForBoard(r.recovery[1], dir, RecoveryImage),
        build    |-> ReadPacks(<<>>, IF r.rootfs.loaded THEN BuildPacks(r.rootfs) ELSE <<>>)]
-------------------------------------------------------------------------------
Selected(r) == IF r.mode = "bundle" THEN Resolve(r.bundle[1], r.board) ELSE Custom(r)

\* What run asks of the selection before it does anything.
CanStart(r) ==
    /\ r.mode = "bundle" => r.bundle # <<>> /\ Loads(r.bundle[1], r.board)
    /\ Selected(r).uboot # <<>>
    /\ MinimalOf(Selected(r).build) # <<>>

Named(images) == [i \in DOMAIN images |->
    [loc |-> images[i].loc, sha |-> images[i].sha, size |-> images[i].size, rel |-> <<NameOf(images[i])>>]]

\* What the run may read, in the order of the install, each if there is one; the
\* images beside the filesystem only where there is a place for them.
Wanted(r) ==
    LET s == Selected(r)
        Beside(image) == IF r.ufs THEN image ELSE <<>>
        extras == Extras(s.build, r.chosen)
    IN <<s.uboot, Beside(s.bootMenu), Beside(s.recovery), s.build.home,
         s.build.full[MinimalOf(s.build)[1]]>>
       \o [i \in DOMAIN Profiles |->
              IF Profiles[i] \in extras THEN s.build.inc[Profiles[i]] ELSE <<>>]

Plan(r) == Named(FlattenSeq(Wanted(r)))

\* An archive is unpacked whatever the mode, if the bundle in the state has one.
Archive(r) == IF r.bundle = <<>> THEN <<>> ELSE r.bundle[1].archive
===============================================================================
