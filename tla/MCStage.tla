-------------------------------- MODULE MCStage --------------------------------
(* Instances of StagedSelection for TLC. *)
EXTENDS StagedSelection, TLC

\* Everything is one block long but for Minimal.
Item(what, whom) == [item |-> what, for |-> whom]
Purposes ==
    "uboot.rock" :> Item("u-boot", "rock") @@ "uboot.generic" :> Item("u-boot", "generic")
    @@ "menu.rock" :> Item("menu", "rock") @@ "menu.generic" :> Item("menu", "generic")
    @@ "recovery.generic" :> Item("recovery", "generic")
    @@ "minimal" :> Item("full", "Minimal") @@ "newer" :> Item("full", "Minimal")
    @@ "desktop" :> Item("inc", "Desktop") @@ "desktop whole" :> Item("full", "Desktop")
    @@ "server" :> Item("full", "Server") @@ "home" :> Item("home", "home")
Items == DOMAIN Purposes
Bodies == [c \in Items |-> IF c \in {"minimal", "newer"} THEN 2 ELSE 1]

MinimalPack == "Minimal_1_stock_pack.zst"
OtherMinimal == "Minimal_2_stock_pack.zst"
DesktopFull == "Desktop_1_stock_pack.zst"
DesktopPack == "Desktop_1_stock_inc_pack.zst"
ServerFull == "Server_1_stock_pack.zst"
HomePack == "home_1_pack.zst"
Pack(kind, profile) == [kind |-> kind, profile |-> profile]
PackNames ==
    MinimalPack :> Pack("full", "Minimal") @@ OtherMinimal :> Pack("full", "Minimal")
    @@ DesktopFull :> Pack("full", "Desktop") @@ DesktopPack :> Pack("inc", "Desktop")
    @@ ServerFull :> Pack("full", "Server") @@ HomePack :> Pack("home", "home")
ProfileOrder == <<"Minimal", "Desktop", "Server">>

Entry(path, content) == [path |-> path, sha |-> content, size |-> Bodies[content]]
Build(root, entries) == [root |-> root, files |-> entries, loaded |-> TRUE]

\* On the server, which says nothing of what it offers: the image listed under a leading directory.
ServerUboot == Build("server", <<Entry(<<"out", "generic", UbootImage>>, "uboot.generic"),
                                 Entry(<<"out", "rock", UbootImage>>, "uboot.rock")>>)
ServerRootfs == Build("server", <<Entry(<<"packs", MinimalPack>>, "minimal"),
                                  Entry(<<"packs", DesktopFull>>, "desktop whole")>>)
UbootUrl == <<"server", <<"rock", UbootImage>>>>
PackUrl == <<"server", <<MinimalPack>>>>
BothUrls == {UbootUrl, PackUrl}
Served == UbootUrl :> "uboot.rock" @@ PackUrl :> "minimal"
Changes == UbootUrl :> {} @@ PackUrl :> {"newer"}

Online ==
    [mode |-> "custom", board |-> "rock", ufs |-> FALSE, chosen |-> {}, bundle |-> <<>>,
     offered |-> {}, uboot |-> ServerUboot, menu |-> <<>>, recovery |-> <<>>,
     rootfs |-> ServerRootfs, keep |-> FALSE, dry |-> FALSE]
Loose == [Online EXCEPT !.rootfs.files[1].size = 0, !.rootfs.files[1].sha = "none"]
Unread == [Online EXCEPT !.rootfs.loaded = FALSE]
NotBuilt == [Online EXCEPT !.uboot.files = SubSeq(@, 1, 1)]

\* On a medium: builds of a board that the server does not offer, and packs that lie in
\* the scratch directory itself.
MediaUboot == Build("media", <<Entry(<<"rock", UbootImage>>, "uboot.rock"),
                               Entry(<<"generic", UbootImage>>, "uboot.generic"),
                               Entry(<<"generic", BootMenuImage>>, "menu.generic")>>)
CacheRootfs == Build("cache", <<Entry(<<OtherMinimal>>, "minimal"), Entry(<<HomePack>>, "home")>>)
MediaRecovery == Build("media", <<Entry(<<"generic", RecoveryImage>>, "recovery.generic")>>)
Local == [Online EXCEPT !.ufs = TRUE, !.offered = {"generic"}, !.uboot = MediaUboot,
                        !.recovery = <<MediaRecovery>>, !.rootfs = CacheRootfs]

\* Bundles: one with everything for two boards, and a small one in an archive.
BundleFiles == <<
    Entry(<<"u-boot", "generic", UbootImage>>, "uboot.generic"),
    Entry(<<"u-boot", "rock", UbootImage>>, "uboot.rock"),
    Entry(<<"falcon-bootmenu", "generic", BootMenuImage>>, "menu.generic"),
    Entry(<<"falcon-bootmenu", "rock", BootMenuImage>>, "menu.rock"),
    Entry(<<"falcon-recovery", "generic", RecoveryImage>>, "recovery.generic"),
    Entry(<<"profile-packs", MinimalPack>>, "minimal"),
    Entry(<<"profile-packs", DesktopPack>>, "desktop"),
    Entry(<<"profile-packs", ServerFull>>, "server")>>
MediaBundle ==
    [mode |-> "bundle", board |-> "rock", ufs |-> TRUE, chosen |-> {"Desktop", "Server"},
     bundle |-> <<[root |-> "media", schema |-> 1, files |-> BundleFiles, archive |-> <<>>, size |-> 0]>>,
     keep |-> FALSE, dry |-> FALSE]

SmallFiles == <<BundleFiles[1], BundleFiles[6]>>
ArchiveBundle ==
    [root |-> "tree", schema |-> 1, files |-> SmallFiles, size |-> 3,
     archive |-> [i \in DOMAIN SmallFiles |->
                     [path |-> <<"tree", SmallFiles[i].path>>, content |-> SmallFiles[i].sha]]]
Archived == [MediaBundle EXCEPT !.keep = TRUE, !.chosen = {}, !.bundle = <<ArchiveBundle>>]
NoSchema == [MediaBundle EXCEPT !.bundle[1].schema = 2]

\* What of it is on the medium and in the scratch directory when the operator starts.
There(path, content) == <<"media", path>> :> Body(content)
Own ==
    There(<<"u-boot", "generic", UbootImage>>, "uboot.generic")
    @@ There(<<"u-boot", "rock", UbootImage>>, "uboot.rock")
    @@ There(<<"falcon-bootmenu", "generic", BootMenuImage>>, "menu.generic")
    @@ There(<<"falcon-bootmenu", "rock", BootMenuImage>>, "menu.rock")
    @@ There(<<"falcon-recovery", "generic", RecoveryImage>>, "recovery.generic")
    @@ There(<<"profile-packs", MinimalPack>>, "minimal")
    @@ There(<<"profile-packs", DesktopPack>>, "desktop")
    @@ There(<<"generic", UbootImage>>, "uboot.generic")
    @@ There(<<"generic", BootMenuImage>>, "menu.generic")
    @@ There(<<"generic", RecoveryImage>>, "recovery.generic")
    @@ <<"cache", <<OtherMinimal>>>> :> Body("minimal") @@ <<"cache", <<HomePack>>>> :> Body("home")
    \* And a file with the name of an image, where the copies go.
    @@ <<"cache", <<UbootImage>>>> :> Body("uboot.generic")

Asked ==
    "online" :> Online @@ "loose" :> Loose @@ "unread" :> Unread @@ "not built" :> NotBuilt @@ "local" :> Local
    @@ "bundle" :> MediaBundle @@ "archive" :> Archived
    @@ "dry" :> [Archived EXCEPT !.keep = FALSE, !.dry = TRUE] @@ "no schema" :> NoSchema
Everything == {JobOf(n) : n \in {m \in DOMAIN Asked : CanStart(Asked[m])}}
===============================================================================
