----------------------------- MODULE Install_proofs -----------------------------
(***************************************************************************)
(* Proofs about Install, for every set of profiles, every device, every    *)
(* request, with and without faults and races.                             *)
(*                                                                         *)
(* The inductive invariant says, step by step, what a run that has come to *)
(* it has behind it.  Its parts are kept apart: the flow of the run, what  *)
(* was verified, what is mounted, what has been made, what was reported.   *)
(***************************************************************************)
EXTENDS Install, TLAPS

\* The steps at which something is behind the run: the guards, unpacking and so on,
\* from the last to the first.
AfterMetadata == {"record", "unmount"}
Profiling == {"receive", "snapshot", "kernel", "script"}
AfterReseed == {"next"} \cup Profiling \cup AfterMetadata
AfterHome == {"reseed"} \cup AfterReseed
AfterMkfs == {"mount", "skeleton", "stock", "home"} \cup AfterHome
AfterRecovery == {"mkfs"} \cup AfterMkfs
AfterMenu == {"recovery"} \cup AfterRecovery
AfterUboot == {"menu"} \cup AfterMenu
AfterTable == {"uboot"} \cup AfterUboot
AfterWipe == {"table"} \cup AfterTable
AfterStage == {"wipe"} \cup AfterWipe
AfterUnpack == {"stage"} \cup AfterStage
AfterFits == {"source", "unpack"} \cup AfterUnpack
AfterGuard == {"fits"} \cup AfterFits

\* The run has neither failed nor been killed, and is past one of the steps given.
OnTrack == outcome = "ok" \/ (at # "idle" /\ outcome = "none")
Past(steps) == outcome = "ok" \/ (at \in steps /\ outcome = "none")

\* Only the last unmount follows an error, and what is left to do is what the
\* step goes through: the plan, then the selected profiles.
Flow ==
    /\ at \notin {"idle", "unmount"} => outcome = "none"
    /\ outcome = "ok" => at = "idle"
    /\ at = "stage" => todo \subseteq (IF request.verify THEN Plan ELSE {})
    /\ at \in {"home", "reseed", "next"} \cup Profiling => todo \subseteq Profiles \cap Selected
    /\ at \in Profiling => current \in Selected \ request.lacks
    /\ at \in {"script", "record"} => ~request.dry

\* The guards' verdicts hold for the rest of the run, and for the device after it.
Guarded ==
    /\ at \in AfterGuard => BootRomCapable
    /\ at \in AfterFits /\ ~request.dry => Unfit = {}

\* Staging goes through the plan and keeps nothing that differs from a digest.
Verified ==
    /\ OnTrack /\ request.verify => wrong \cap request.digests = {}
    /\ request.verify => wrong \cap request.digests \cap staged = {}
    /\ at = "stage" /\ request.verify /\ ~request.dry => Plan \subseteq staged \cup todo
    /\ Past(AfterStage) /\ request.verify /\ ~request.dry => Plan \subseteq staged
    /\ wrong \subseteq warned

\* Where in a run which of its mounts may be there, unless an umount has failed.
Bare == {"media", "guard", "fits", "source", "unpack", "stage", "wipe", "table", "uboot",
         "menu", "recovery", "mkfs", "mount"}
Mounted ==
    ~request.dry /\ ~stuck =>
        /\ at \in Bare \/ (at = "idle" /\ outcome # "none") => mounts \cap Ours = {}
        /\ at \notin {"idle", "release", "script", "record"} =>
              mounts \cap Ours \subseteq {"target"}

\* A profile that is neither left to deploy nor being deployed.
Deployed(p) ==
    /\ at \in {"home", "reseed", "next"} \cup Profiling
    /\ p \notin todo
    /\ at \in Profiling => p # current

\* What is made of each part by the time the run is past its step.
Made ==
    ~request.dry =>
        /\ Past(AfterTable) => disk["table"] = "done"
        /\ Past(AfterUboot) => disk["uboot"] = "done"
        /\ Past(AfterMenu) /\ "menu" \in Writes => disk["menu"] = "done"
        /\ Past(AfterRecovery) /\ "recovery" \in Writes => disk["recovery"] = "done"
        /\ Past(AfterMkfs) => disk["filesystem"] = "done"
        /\ Past(AfterReseed) /\ "home" \in Selected => disk["home"] = "done"
        /\ \A p \in Profiles \cap Selected :
              /\ Deployed(p) => disk[p] = "done"
              /\ Past(AfterMetadata) => disk[p] = "done"

\* Which steps of the bar have been begun by the time the run is past them.
ProfileSteps(p) == {<<"write", p>>, <<"snapshot", p>>, <<"kernel", p>>}
Ticked ==
    /\ Past(AfterUnpack) /\ request.archive # "none" => <<"unpack", "">> \in begun
    /\ at = "stage" /\ request.verify =>
          \A a \in Plan : a \in todo \/ <<"stage", a>> \in begun
    /\ Past(AfterStage) /\ request.verify => \A a \in Plan : <<"stage", a>> \in begun
    /\ Past(AfterWipe) => <<"discard", "">> \in begun
    /\ Past(AfterTable) => <<"gpt", "">> \in begun
    /\ Past(AfterUboot) => <<"write", "uboot">> \in begun
    /\ Past(AfterMenu) /\ "menu" \in Writes => <<"write", "menu">> \in begun
    /\ Past(AfterRecovery) /\ "recovery" \in Writes => <<"write", "recovery">> \in begun
    /\ Past(AfterMkfs) => <<"mkfs", "">> \in begun
    /\ Past(AfterHome) /\ "home" \in Writes => <<"write", "home">> \in begun
    /\ Past(AfterMetadata) => <<"metadata", "">> \in begun
    /\ \A p \in Profiles \cap Selected :
          /\ Deployed(p) => ProfileSteps(p) \subseteq begun
          /\ at \in Profiling /\ p = current => <<"write", p>> \in begun
          /\ at \in {"kernel", "script"} /\ p = current => <<"snapshot", p>> \in begun
          /\ at = "script" /\ p = current => <<"kernel", p>> \in begun
          /\ Past(AfterMetadata) => ProfileSteps(p) \subseteq begun

-------------------------------------------------------------------------------
(* What follows from a request being one. *)

LEMMA NamesDiffer ==
    /\ Profiles \cap (Images \cup {"home", "table", "filesystem", "metadata"}) = {}
    /\ Profiles \subseteq Artifacts /\ Images \subseteq Artifacts /\ "home" \in Artifacts
    /\ "Minimal" \in Profiles
    /\ Artifacts \subseteq Parts /\ {"table", "filesystem", "metadata"} \subseteq Parts
BY InstallAssumption DEF Profiles, Images, Artifacts, Parts

LEMMA RequestType ==
    ASSUME TypeOK
    PROVE  /\ request.dry \in BOOLEAN /\ request.verify \in BOOLEAN
           /\ request.want \subseteq Artifacts \ {"uboot", "Minimal"}
           /\ request.lacks \subseteq Profiles
<1>1. request \in AnyRequest
  <2>1. NoRequest \in AnyRequest
    BY DEF NoRequest, AnyRequest
  <2> QED
    BY <2>1, InstallAssumption DEF TypeOK
<1> QED
  BY <1>1 DEF AnyRequest

LEMMA SelectedType ==
    ASSUME TypeOK
    PROVE  /\ Selected \subseteq Artifacts /\ "uboot" \in Selected
           /\ Plan \subseteq Selected
           /\ Writes \subseteq Selected /\ Writes \subseteq Images \cup {"home"}
           /\ Writes \subseteq Plan
           /\ "uboot" \in Writes
           /\ "menu" \in Selected => "menu" \in Writes
           /\ "home" \in Selected => "home" \in Writes
<1>1. Selected \subseteq Artifacts /\ "uboot" \in Selected
  BY RequestType DEF Selected, Artifacts, Images, Profiles
<1>2. Writes \subseteq Selected /\ Writes \subseteq Images \cup {"home"}
  BY DEF Writes, Images
<1>3. Writes \subseteq Plan
  BY <1>2, NamesDiffer, RequestType DEF Plan
<1> QED
  BY <1>1, <1>2, <1>3 DEF Plan, Writes

\* The steps the bar is to have, one kind at a time, and no others.
LEMMA InBudget ==
    /\ <<"discard", "">> \in Budget /\ <<"gpt", "">> \in Budget
    /\ <<"mkfs", "">> \in Budget /\ <<"metadata", "">> \in Budget
    /\ request.archive # "none" => <<"unpack", "">> \in Budget
    /\ request.verify => \A a \in Plan : <<"stage", a>> \in Budget
    /\ \A a \in Writes : <<"write", a>> \in Budget
    /\ \A p \in Profiles \cap Selected : ProfileSteps(p) \subseteq Budget
<1>1. \A p \in Profiles \cap Selected : ProfileSteps(p) \subseteq Budget
  <2>1. {"write", "snapshot", "kernel"} \X (Profiles \cap Selected) \subseteq Budget
    BY DEF Budget
  <2> QED
    BY <2>1 DEF ProfileSteps
<1>2. \A a \in Writes : <<"write", a>> \in Budget
  <2>1. {"write"} \X Writes \subseteq Budget
    BY DEF Budget
  <2> QED
    BY <2>1
<1>3. request.verify => \A a \in Plan : <<"stage", a>> \in Budget
  <2>1. request.verify => {"stage"} \X Plan \subseteq Budget
    BY DEF Budget
  <2> QED
    BY <2>1
<1> QED
  BY <1>1, <1>2, <1>3 DEF Budget

LEMMA Covers ==
    ASSUME NEW S, NEW T, NEW B, \A s \in S, t \in T : <<s, t>> \in B
    PROVE  S \X T \subseteq B
OBVIOUS

LEMMA OnlyInBudget ==
    ASSUME {<<"discard", "">>, <<"gpt", "">>, <<"mkfs", "">>, <<"metadata", "">>} \subseteq begun,
           request.archive # "none" => <<"unpack", "">> \in begun,
           request.verify => \A a \in Plan : <<"stage", a>> \in begun,
           \A a \in Writes : <<"write", a>> \in begun,
           \A p \in Profiles \cap Selected : ProfileSteps(p) \subseteq begun
    PROVE  Budget \subseteq begun
<1>1. {"write"} \X Writes \subseteq begun
  <2>1. \A s \in {"write"}, a \in Writes : <<s, a>> \in begun
    OBVIOUS
  <2> QED
    BY <2>1, Covers, Zenon
<1>2. {"write", "snapshot", "kernel"} \X (Profiles \cap Selected) \subseteq begun
  <2> DEFINE kinds == {"write", "snapshot", "kernel"}
             chosen == Profiles \cap Selected
  <2>1. \A s \in kinds, p \in chosen : <<s, p>> \in begun
    BY DEF ProfileSteps
  <2> HIDE DEF kinds, chosen
  <2>2. kinds \X chosen \subseteq begun
    BY <2>1, Covers, Zenon
  <2> QED
    BY <2>2 DEF kinds, chosen
<1>3. request.verify => {"stage"} \X Plan \subseteq begun
  <2>1. request.verify => \A s \in {"stage"}, a \in Plan : <<s, a>> \in begun
    OBVIOUS
  <2> QED
    BY <2>1, Covers, Zenon
<1> QED
  BY <1>1, <1>2, <1>3 DEF Budget

LEMMA GivenKeeps ==
    ASSUME UNCHANGED given
    PROVE  /\ device' = device /\ request' = request
           /\ Selected' = Selected /\ Plan' = Plan /\ Writes' = Writes
           /\ Budget' = Budget /\ Unfit' = Unfit
           /\ IsUfs' = IsUfs /\ BootRomCapable' = BootRomCapable
BY DEF given, Selected, Plan, Writes, Budget, Unfit, IsUfs, BootRomCapable
-------------------------------------------------------------------------------
(* What the operations the steps share do. *)

LEMMA FailDoes ==
    ASSUME Fail
    PROVE  at' \in {"idle", "unmount"} /\ outcome' = "error"
BY DEF Fail

LEMMA ReportDoes ==
    ASSUME TypeOK, NEW a \in Artifacts, NEW bad \in BOOLEAN, Report(a, bad)
    PROVE  /\ wrong' \subseteq Artifacts /\ warned' \subseteq Artifacts
           /\ wrong' = wrong \/ (bad /\ wrong' = wrong \cup {a})
           /\ wrong \subseteq warned => wrong' \subseteq warned'
BY DEF Report, TypeOK

\* A write fails or goes on; a staged copy is what it was found to be, and when
\* verifying a mismatch is a failure.
LEMMA WriteDoes ==
    ASSUME TypeOK, NEW a \in Artifacts, NEW next, Write(a, next)
    PROVE  /\ disk' \in [Parts -> {"old", "none", "part", "received", "done"}]
           /\ staged' = staged /\ wrong' \subseteq Artifacts /\ warned' \subseteq Artifacts
           /\ Go(next) \/ Fail
           /\ request.dry => Go(next) /\ UNCHANGED <<disk, copied>>
           /\ wrong \subseteq warned => wrong' \subseteq warned'
           /\ wrong' \cap staged \subseteq wrong
           /\ ~Fail /\ request.verify => wrong' \cap request.digests \subseteq wrong
           /\ ~Fail /\ ~request.dry =>
                disk' = [disk EXCEPT ![a] = IF a \in Images THEN "done" ELSE "received"]
           /\ \A p \in Parts \ {a} : disk'[p] = disk[p]
<1>1. CASE request.dry /\ Go(next) /\ UNCHANGED <<disk, copied>>
  BY <1>1 DEF copied, TypeOK
<1>2. CASE ~request.dry /\ (Faults \/ ~Readable(a)) /\ Fail /\ UNCHANGED copied
           /\ disk' \in {disk, [disk EXCEPT ![a] = "part"]}
  BY <1>2 DEF copied, TypeOK
<1>3. ASSUME ~request.dry, UNCHANGED staged,
             disk' = [disk EXCEPT ![a] = IF a \in Images THEN "done" ELSE "received"],
             NEW bad \in Deliveries(a), Report(a, bad),
             IF request.verify /\ Mismatch(a, bad) THEN Fail ELSE Go(next)
      PROVE  /\ wrong \subseteq warned => wrong' \subseteq warned'
             /\ wrong' \subseteq Artifacts /\ warned' \subseteq Artifacts
             /\ wrong' \cap staged \subseteq wrong
             /\ ~Fail /\ request.verify => wrong' \cap request.digests \subseteq wrong
  <2>1. bad \in BOOLEAN /\ (a \in staged => bad = (a \in wrong))
    BY <1>3 DEF Deliveries
  <2>2. /\ wrong' = wrong \/ (bad /\ wrong' = wrong \cup {a})
        /\ wrong \subseteq warned => wrong' \subseteq warned'
        /\ wrong' \subseteq Artifacts /\ warned' \subseteq Artifacts
    BY <2>1, <1>3, ReportDoes
  <2>3. wrong' \cap staged \subseteq wrong
    BY <2>1, <2>2
  <2>4. ASSUME ~Fail, request.verify PROVE wrong' \cap request.digests \subseteq wrong
    BY <2>2, <2>4, <1>3 DEF Mismatch
  <2> QED
    BY <2>2, <2>3, <2>4
<1>4. CASE /\ ~request.dry /\ UNCHANGED staged
           /\ disk' = [disk EXCEPT ![a] = IF a \in Images THEN "done" ELSE "received"]
           /\ \E bad \in Deliveries(a) :
                 /\ Report(a, bad)
                 /\ IF request.verify /\ Mismatch(a, bad) THEN Fail ELSE Go(next)
  <2>1. Go(next) \/ Fail
    BY <1>4
  <2>2. disk' \in [Parts -> {"old", "none", "part", "received", "done"}]
    BY <1>4 DEF TypeOK
  <2>3. \A p \in Parts \ {a} : disk'[p] = disk[p]
    BY <1>4 DEF TypeOK
  <2> QED
    BY <1>3, <1>4, <2>1, <2>2, <2>3
<1> QED
  BY <1>1, <1>2, <1>4 DEF Write

LEMMA MakeDoes ==
    ASSUME TypeOK, NEW p \in Parts, NEW next, Make(p, next)
    PROVE  /\ disk' \in [Parts -> {"old", "none", "part", "received", "done"}]
           /\ Go(next) \/ Fail
           /\ request.dry => Go(next) /\ UNCHANGED disk
           /\ ~Fail /\ ~request.dry => disk'[p] = "done"
           /\ \A q \in Parts \ {p} : disk'[q] = disk[q]
BY DEF Make, TypeOK

\* Without an umount that fails, what was to go is gone; a dry run leaves it.
LEMMA UmountDoes ==
    ASSUME TypeOK, NEW ms, Umount(ms)
    PROVE  /\ mounts' \subseteq mounts /\ claim' \in BOOLEAN /\ stuck' \in BOOLEAN
           /\ request.dry => UNCHANGED system
           /\ stuck => stuck'
           /\ ~request.dry /\ ~stuck' => mounts' = mounts \ ms
<1>1. CASE request.dry
  BY <1>1 DEF Umount, system, TypeOK
<1>2. CASE ~request.dry
  <2>1. PICK kept : /\ mounts' = mounts \ (ms \ kept) /\ kept \subseteq ms \cap mounts
                    /\ claim' \in {claim, TRUE} /\ stuck' = (stuck \/ kept # {})
    BY <1>2 DEF Umount
  <2> QED
    BY <1>2, <2>1 DEF TypeOK
<1> QED
  BY <1>1, <1>2
-------------------------------------------------------------------------------
(* The types of the state, together with the flow of the run. *)

LEMMA FlowInit == Init => TypeOK /\ Flow
<1> SUFFICES ASSUME Init PROVE TypeOK /\ Flow
  OBVIOUS
<1>1. TypeOK
  BY NamesDiffer DEF Init, TypeOK, Untouched, Steps, Mountpoints, Ours
<1>2. Flow
  BY DEF Init, Flow, Profiling
<1> QED
  BY <1>1, <1>2

LEMMA FlowInductive ==
    ASSUME TypeOK, Flow, [Next]_vars
    PROVE  TypeOK' /\ Flow'
<1> USE DEF TypeOK, Flow, Go, Begin, Steps, Deploying, Profiling
<1>0. /\ Selected \subseteq Artifacts /\ Plan \subseteq Artifacts
      /\ Profiles \subseteq Artifacts /\ request.dry \in BOOLEAN /\ request.verify \in BOOLEAN
  BY SelectedType, NamesDiffer, RequestType
<1>1. CASE Start
  <2>1. Untouched \in [Parts -> {"old", "none", "part", "received", "done"}]
    BY DEF Untouched
  <2>2. {} \subseteq Budget' /\ "Minimal" \in Profiles
    BY NamesDiffer
  <2> QED
    BY <1>1, <2>1, <2>2 DEF Start
<1>2. CASE ReleaseOwnMounts
  BY <1>2, <1>0, UmountDoes, GivenKeeps DEF ReleaseOwnMounts, copied, given
<1>3. CASE UnmountMedia
  BY <1>3, <1>0, GivenKeeps DEF UnmountMedia, copied, given
<1>4. CASE GuardTarget \/ GuardFits \/ GuardSource
  BY <1>4, <1>0, GivenKeeps, FailDoes DEF GuardTarget, GuardFits, GuardSource, copied, given, system
<1>5. CASE UnpackBundle
  <2>1. begun' \subseteq Budget
    BY <1>5, InBudget DEF UnpackBundle
  <2> QED
    BY <1>5, <1>0, <2>1, GivenKeeps, FailDoes DEF UnpackBundle, copied, given, system
<1>6. ASSUME NEW a \in Artifacts, Stage(a) PROVE TypeOK' /\ Flow'
  <2>1. begun' \subseteq Budget
    BY <1>6, InBudget DEF Stage
  <2>2. /\ staged' \subseteq Artifacts /\ wrong' \subseteq Artifacts /\ warned' \subseteq Artifacts
        /\ (at' = "stage" /\ UNCHANGED outcome) \/ Fail
    <3>1. \A bad \in Deliveries(a) : bad \in BOOLEAN
      BY DEF Deliveries
    <3> QED
      BY <1>6, <3>1, ReportDoes DEF Stage, copied
  <2> QED
    BY <1>6, <1>0, <2>1, <2>2, GivenKeeps, FailDoes DEF Stage, given, system
<1>7. CASE StageDone
  BY <1>7, <1>0, GivenKeeps DEF StageDone, copied, given, system
<1>8. CASE Wipe
  <2>1. begun' \subseteq Budget
    BY <1>8, InBudget DEF Wipe
  <2>2. Wiped \in [Parts -> {"old", "none", "part", "received", "done"}]
    BY DEF Wiped
  <2> QED
    BY <1>8, <1>0, <2>1, <2>2, GivenKeeps, FailDoes DEF Wipe, copied, given, system
<1>9. CASE WriteGpt \/ MakeFilesystem
  <2>1. begun' \subseteq Budget
    BY <1>9, InBudget DEF WriteGpt, MakeFilesystem
  <2>2. /\ disk' \in [Parts -> {"old", "none", "part", "received", "done"}]
        /\ (at' \in {"uboot", "mount"} /\ UNCHANGED outcome) \/ Fail
    BY <1>9, MakeDoes, NamesDiffer DEF WriteGpt, MakeFilesystem
  <2> QED
    BY <1>9, <1>0, <2>1, <2>2, GivenKeeps, FailDoes
    DEF WriteGpt, MakeFilesystem, copied, given, system
<1>10. CASE InstallUboot \/ InstallBootMenu \/ InstallRecovery
  <2>1. begun' \subseteq Budget
    <3>1. /\ <<"write", "uboot">> \in Budget
          /\ "menu" \in Writes => <<"write", "menu">> \in Budget
          /\ "recovery" \in Writes => <<"write", "recovery">> \in Budget
      BY InBudget, SelectedType
    <3> QED
      BY <1>10, <3>1 DEF InstallUboot, InstallBootMenu, InstallRecovery, InstallImage
  <2>2. /\ disk' \in [Parts -> {"old", "none", "part", "received", "done"}]
        /\ staged' \subseteq Artifacts /\ wrong' \subseteq Artifacts /\ warned' \subseteq Artifacts
        /\ (at' \in {"menu", "recovery", "mkfs"} /\ UNCHANGED outcome) \/ Fail
    BY <1>10, WriteDoes, NamesDiffer
    DEF InstallUboot, InstallBootMenu, InstallRecovery, InstallImage, copied, Images
  <2> QED
    BY <1>10, <1>0, <2>1, <2>2, GivenKeeps, FailDoes
    DEF InstallUboot, InstallBootMenu, InstallRecovery, InstallImage, given, system
<1>11. CASE Mount
  BY <1>11, <1>0, GivenKeeps, FailDoes DEF Mount, Exec, copied, given, Mountpoints, Ours
<1>12. CASE CreateSkeleton
  BY <1>12, <1>0, GivenKeeps, FailDoes, UmountDoes DEF CreateSkeleton, Exec, copied, given, system
<1>13. CASE StockDirectory
  BY <1>13, <1>0, GivenKeeps, FailDoes DEF StockDirectory, Exec, copied, given, system
<1>14. CASE ReceiveHome
  <2>1. begun' \subseteq Budget
    <3>1. "home" \in Selected => <<"write", "home">> \in Budget
      BY InBudget, SelectedType
    <3> QED
      BY <1>14, <3>1 DEF ReceiveHome
  <2>2. /\ disk' \in [Parts -> {"old", "none", "part", "received", "done"}]
        /\ staged' \subseteq Artifacts /\ wrong' \subseteq Artifacts /\ warned' \subseteq Artifacts
        /\ (at' \in {"reseed", "next"} /\ UNCHANGED outcome) \/ Fail
    BY <1>14, WriteDoes, NamesDiffer DEF ReceiveHome, copied
  <2> QED
    BY <1>14, <1>0, <2>1, <2>2, GivenKeeps, FailDoes DEF ReceiveHome, given, system
<1>15. CASE Reseed
  <2>1. /\ disk' \in [Parts -> {"old", "none", "part", "received", "done"}]
        /\ (at' = "next" /\ UNCHANGED outcome) \/ Fail
    BY <1>15, MakeDoes, NamesDiffer DEF Reseed
  <2> QED
    BY <1>15, <1>0, <2>1, GivenKeeps, FailDoes DEF Reseed, copied, given, system
<1>16. ASSUME NEW p \in Profiles, NextProfile(p) PROVE TypeOK' /\ Flow'
  <2>1. <<"write", p>> \in Budget
    BY <1>16, InBudget DEF NextProfile, ProfileSteps
  <2> QED
    BY <1>16, <1>0, <2>1, GivenKeeps, FailDoes DEF NextProfile, copied, given, system
<1>17. CASE ReceivePack
  <2>1. /\ disk' \in [Parts -> {"old", "none", "part", "received", "done"}]
        /\ staged' \subseteq Artifacts /\ wrong' \subseteq Artifacts /\ warned' \subseteq Artifacts
        /\ (at' = "snapshot" /\ UNCHANGED outcome) \/ Fail
    BY <1>17, WriteDoes, NamesDiffer DEF ReceivePack
  <2> QED
    BY <1>17, <1>0, <2>1, GivenKeeps, FailDoes DEF ReceivePack, given, system
<1>18. CASE Snapshot \/ InstallKernel
  <2>1. <<"snapshot", current>> \in Budget /\ <<"kernel", current>> \in Budget
    BY <1>18, InBudget DEF Snapshot, InstallKernel, ProfileSteps
  <2>2. mounts' \subseteq Mountpoints /\ claim' \in BOOLEAN /\ stuck' \in BOOLEAN
    BY <1>18 DEF Snapshot, InstallKernel, MountProfile, system, Mountpoints, Ours
  <2>3. \/ at' \in {"kernel", "next"} /\ UNCHANGED outcome
        \/ at' = "script" /\ UNCHANGED outcome /\ ~request.dry
        \/ Fail
    BY <1>18 DEF Snapshot, InstallKernel, Exec, MountProfile
  <2> QED
    BY <1>18, <1>0, <2>1, <2>2, <2>3, GivenKeeps, FailDoes
    DEF Snapshot, InstallKernel, copied, given
<1>19. CASE KernelScript
  <2>1. /\ disk' \in [Parts -> {"old", "none", "part", "received", "done"}]
        /\ (at' = "next" /\ UNCHANGED outcome) \/ Fail
    BY <1>19 DEF KernelScript
  <2>2. mounts' \subseteq Mountpoints /\ claim' \in BOOLEAN /\ stuck' \in BOOLEAN
    BY <1>19, UmountDoes DEF KernelScript
  <2> QED
    BY <1>19, <1>0, <2>1, <2>2, GivenKeeps, FailDoes DEF KernelScript, copied, given
<1>20. CASE WriteMetadata
  <2>1. mounts' \subseteq Mountpoints /\ claim' \in BOOLEAN /\ stuck' \in BOOLEAN
    BY <1>20 DEF WriteMetadata, MountProfile, system, Mountpoints, Ours
  <2>2. UNCHANGED outcome /\ (at' = "unmount" \/ (at' = "record" /\ ~request.dry))
    BY <1>20 DEF WriteMetadata, MountProfile
  <2> QED
    BY <1>20, <1>0, <2>1, <2>2, InBudget, GivenKeeps DEF WriteMetadata, copied, given
<1>21. CASE RecordMetadata
  <2>1. mounts' \subseteq Mountpoints /\ claim' \in BOOLEAN /\ stuck' \in BOOLEAN
    BY <1>21, UmountDoes DEF RecordMetadata
  <2>2. disk' \in [Parts -> {"old", "none", "part", "received", "done"}]
    BY <1>21 DEF RecordMetadata
  <2> QED
    BY <1>21, <1>0, <2>1, <2>2, GivenKeeps DEF RecordMetadata, copied, given
<1>22. CASE Unmount
  BY <1>22, <1>0, UmountDoes, GivenKeeps DEF Unmount, copied, given
<1>23. CASE Automount \/ ForeignUse \/ ClaimEnds
  <2>1. mounts' \subseteq Mountpoints /\ claim' \in BOOLEAN /\ stuck' \in BOOLEAN
    BY <1>23 DEF Automount, ForeignUse, ClaimEnds, Mountpoints
  <2>2. UNCHANGED <<given, at, outcome, todo, current, copied, begun, disk>>
    BY <1>23 DEF Automount, ForeignUse, ClaimEnds
  <2> QED
    BY <1>0, <2>1, <2>2, GivenKeeps DEF copied, given
<1>24. CASE Killed
  BY <1>24, <1>0, GivenKeeps DEF Killed, copied, given
<1>25. CASE UNCHANGED vars
  BY <1>25, <1>0, GivenKeeps DEF vars, copied, given, system
<1> QED
  BY <1>1, <1>2, <1>3, <1>4, <1>5, <1>6, <1>7, <1>8, <1>9, <1>10, <1>11, <1>12, <1>13, <1>14,
     <1>15, <1>16, <1>17, <1>18, <1>19, <1>20, <1>21, <1>22, <1>23, <1>24, <1>25
  DEF Next, Run, Environment

\* What a step may touch: the request stays for a run; a dry run touches nothing;
\* the partition table goes and comes in two steps; no copy goes away.
LEMMA Footprint ==
    ASSUME TypeOK, Flow, [Next]_vars, ~Start
    PROVE  /\ UNCHANGED given
           /\ request.dry => UNCHANGED <<disk, staged>>
           /\ disk'["table"] = disk["table"] \/ (at \in {"wipe", "table"} /\ ~request.dry)
           /\ staged \subseteq staged'
<1> USE NamesDiffer
<1>1. CASE ReleaseOwnMounts \/ UnmountMedia \/ GuardTarget \/ GuardFits \/ GuardSource
           \/ UnpackBundle \/ StageDone \/ Mount \/ CreateSkeleton \/ StockDirectory
           \/ Snapshot \/ InstallKernel \/ WriteMetadata \/ Unmount \/ Environment
           \/ (\E p \in Profiles : NextProfile(p)) \/ UNCHANGED vars
  <2>1. UNCHANGED <<given, disk, staged>>
    BY <1>1 DEF ReleaseOwnMounts, UnmountMedia, GuardTarget, GuardFits, GuardSource,
       UnpackBundle, StageDone, Mount, CreateSkeleton, StockDirectory, Snapshot,
       InstallKernel, WriteMetadata, Unmount, Environment, Automount, ForeignUse, ClaimEnds,
       Killed, NextProfile, vars, copied
  <2> QED
    BY <2>1
<1>2. ASSUME NEW a \in Artifacts, Stage(a)
      PROVE  /\ UNCHANGED <<given, disk>> /\ staged \subseteq staged'
             /\ request.dry => UNCHANGED staged
  BY <1>2 DEF Stage, copied
<1>3. CASE Wipe \/ WriteGpt
  <2>1. "table" \in Parts
    OBVIOUS
  <2> QED
    BY <1>3, <2>1, MakeDoes, RequestType DEF Wipe, WriteGpt, copied
<1>4. CASE MakeFilesystem \/ Reseed
  <2>1. \/ Make("filesystem", "mount")
        \/ Make("home", "next")
    BY <1>4 DEF MakeFilesystem, Reseed
  <2>2. UNCHANGED <<given, staged>>
    BY <1>4 DEF MakeFilesystem, Reseed, copied
  <2> QED
    BY <2>1, <2>2, MakeDoes
<1>5. CASE InstallUboot \/ InstallBootMenu \/ InstallRecovery \/ ReceiveHome \/ ReceivePack
  <2>1. \/ \E a \in Artifacts, next \in Steps : Write(a, next)
        \/ UNCHANGED <<disk, copied>>
    BY <1>5 DEF InstallUboot, InstallBootMenu, InstallRecovery, InstallImage, ReceiveHome,
       ReceivePack, Images, TypeOK, Steps, Deploying
  <2>2. UNCHANGED given
    BY <1>5 DEF InstallUboot, InstallBootMenu, InstallRecovery, InstallImage, ReceiveHome,
       ReceivePack
  <2>3. "table" \notin Artifacts
    BY InstallAssumption DEF Artifacts, Images, Profiles
  <2> QED
    BY <2>1, <2>2, <2>3, WriteDoes DEF copied
<1>6. CASE KernelScript \/ RecordMetadata
  <2>1. ~request.dry /\ UNCHANGED <<given, staged>>
    BY <1>6 DEF KernelScript, RecordMetadata, Flow, copied
  <2>2. disk'["table"] = disk["table"]
    BY <1>6 DEF KernelScript, RecordMetadata, TypeOK
  <2> QED
    BY <2>1, <2>2
<1> QED
  BY <1>1, <1>2, <1>3, <1>4, <1>5, <1>6 DEF Next, Run

\* Steps behind a guard are reached through it.
LEMMA GuardedInductive ==
    ASSUME TypeOK, Flow, Guarded, [Next]_vars
    PROVE  Guarded'
<1> USE FailDoes DEF Guarded, Flow, Go, AfterGuard, AfterFits, AfterUnpack, AfterStage,
        AfterWipe, AfterTable, AfterUboot, AfterMenu, AfterRecovery, AfterMkfs, AfterHome,
        AfterReseed, AfterMetadata, Profiling
<1>1. CASE Start
  BY <1>1 DEF Start
<1> SUFFICES ASSUME ~Start PROVE Guarded'
  BY <1>1
<1>0. request' = request /\ BootRomCapable' = BootRomCapable /\ Unfit' = Unfit
  BY Footprint, GivenKeeps
<1> USE <1>0
<1>2. CASE GuardTarget
  BY <1>2 DEF GuardTarget, Fail, Deploying
<1>3. CASE GuardFits
  BY <1>3 DEF GuardFits, Fail, Deploying
<1>4. CASE ReleaseOwnMounts \/ UnmountMedia \/ Automount \/ ForeignUse \/ ClaimEnds \/ Killed
           \/ UNCHANGED vars
  BY <1>4 DEF ReleaseOwnMounts, UnmountMedia, Automount, ForeignUse, ClaimEnds, Killed, vars
<1>5. CASE GuardSource \/ UnpackBundle \/ (\E a \in Artifacts : Stage(a)) \/ StageDone \/ Wipe
  BY <1>5 DEF GuardSource, UnpackBundle, Stage, StageDone, Wipe
<1>6. CASE WriteGpt \/ InstallUboot \/ InstallBootMenu \/ InstallRecovery \/ MakeFilesystem
           \/ Mount \/ CreateSkeleton
  <2>1. at \in AfterFits
    BY <1>6 DEF WriteGpt, InstallUboot, InstallBootMenu, InstallRecovery, InstallImage,
       MakeFilesystem, Mount, CreateSkeleton
  <2> QED
    BY <2>1
<1>7. CASE StockDirectory \/ ReceiveHome \/ Reseed \/ (\E p \in Profiles : NextProfile(p))
           \/ ReceivePack \/ Snapshot \/ InstallKernel \/ KernelScript \/ WriteMetadata
           \/ RecordMetadata \/ Unmount
  <2>1. at \in AfterFits
    BY <1>7 DEF StockDirectory, ReceiveHome, Reseed, NextProfile, ReceivePack, Snapshot,
       InstallKernel, KernelScript, WriteMetadata, RecordMetadata, Unmount
  <2> QED
    BY <2>1
<1> QED
  BY <1>2, <1>3, <1>4, <1>5, <1>6, <1>7 DEF Next, Run, Environment

\* What is verified: only staging adds to the copies, and a write reads one as it
\* was verified.
LEMMA VerifiedInductive ==
    ASSUME TypeOK, Flow, Verified, [Next]_vars
    PROVE  Verified'
<1> USE FailDoes DEF Verified, Flow, Go, OnTrack, Past, AfterStage, AfterWipe, AfterTable,
        AfterUboot, AfterMenu, AfterRecovery, AfterMkfs, AfterHome, AfterReseed, AfterMetadata,
        Profiling
<1>1. CASE Start
  BY <1>1 DEF Start
<1> SUFFICES ASSUME ~Start PROVE Verified'
  BY <1>1
<1>0. request' = request /\ Plan' = Plan
  BY Footprint, GivenKeeps
<1> USE <1>0
<1>2. CASE ReleaseOwnMounts \/ UnmountMedia \/ GuardTarget \/ GuardFits \/ GuardSource
  BY <1>2 DEF ReleaseOwnMounts, UnmountMedia, GuardTarget, GuardFits, GuardSource, copied
<1>3. CASE UnpackBundle
  BY <1>3 DEF UnpackBundle, copied
<1>4. ASSUME NEW a \in Artifacts, Stage(a) PROVE Verified'
  <2>1. request.verify /\ a \in Plan
    BY <1>4 DEF Stage
  <2>2. CASE request.dry \/ UNCHANGED copied
    BY <1>4, <2>1, <2>2 DEF Stage, copied, Fail, Deploying
  <2>3. ASSUME ~request.dry, NEW bad \in Deliveries(a), Report(a, bad),
               IF Mismatch(a, bad) THEN Fail /\ UNCHANGED staged
                                   ELSE Go("stage") /\ staged' = staged \cup {a}
        PROVE  Verified'
    <3>1. /\ wrong' = wrong \/ (bad /\ wrong' = wrong \cup {a})
          /\ wrong \subseteq warned => wrong' \subseteq warned'
      <4>1. bad \in BOOLEAN
        BY <2>3 DEF Deliveries
      <4> QED
        BY <4>1, <2>3, ReportDoes
    <3>2. at = "stage" /\ outcome = "none" /\ todo' = todo \ {a}
      BY <1>4 DEF Stage
    <3>3. CASE Mismatch(a, bad)
      <4>1. at' = "idle" /\ outcome' = "error" /\ staged' = staged
        BY <2>3, <3>2, <3>3 DEF Fail, Deploying
      <4>2. wrong \cap request.digests = {}
        BY <2>1, <3>2
      <4>3. a \notin staged
        BY <2>3, <3>1, <3>3, <4>2 DEF Deliveries, Mismatch
      <4> QED
        BY <4>1, <4>2, <4>3, <3>1
    <3>4. CASE ~Mismatch(a, bad)
      BY <2>1, <2>3, <3>1, <3>2, <3>4 DEF Mismatch
    <3> QED
      BY <3>3, <3>4
  <2> QED
    BY <1>4, <2>2, <2>3 DEF Stage
<1>5. CASE StageDone
  BY <1>5 DEF StageDone, copied
<1>6. CASE Wipe \/ WriteGpt \/ MakeFilesystem \/ Reseed
  <2>1. UNCHANGED copied /\ ((at' \in AfterStage /\ outcome' = outcome) \/ outcome' = "error")
    BY <1>6, MakeDoes, NamesDiffer DEF Wipe, WriteGpt, MakeFilesystem, Reseed
  <2> QED
    BY <1>6, <2>1 DEF Wipe, WriteGpt, MakeFilesystem, Reseed, copied
<1>7. CASE InstallUboot \/ InstallBootMenu \/ InstallRecovery \/ ReceiveHome \/ ReceivePack
  <2>1. at \in AfterStage \ {"unmount"} /\ at \notin {"idle", "stage"} /\ at' # "stage"
    BY <1>7, WriteDoes, NamesDiffer DEF InstallUboot, InstallBootMenu, InstallRecovery,
       InstallImage, ReceiveHome, ReceivePack, TypeOK, Images
  <2>2. \/ \E a \in Artifacts, next \in AfterStage : Write(a, next)
        \/ UNCHANGED copied /\ outcome' = outcome /\ at' \in AfterStage
    BY <1>7, NamesDiffer DEF InstallUboot, InstallBootMenu, InstallRecovery,
       InstallImage, ReceiveHome, ReceivePack, TypeOK, Images
  <2>3. CASE UNCHANGED copied /\ outcome' = outcome /\ at' \in AfterStage
    BY <2>1, <2>3 DEF copied
  <2>4. ASSUME NEW a \in Artifacts, NEW next \in AfterStage, Write(a, next)
        PROVE  Verified'
    <3>1. /\ staged' = staged
          /\ wrong \subseteq warned => wrong' \subseteq warned'
          /\ wrong' \cap staged \subseteq wrong
          /\ ~Fail /\ request.verify => wrong' \cap request.digests \subseteq wrong
          /\ Go(next) \/ Fail
      BY <2>4, WriteDoes
    <3>2. CASE Fail
      BY <2>1, <3>1, <3>2
    <3>3. CASE ~Fail
      BY <2>1, <3>1, <3>3
    <3> QED
      BY <3>2, <3>3
  <2> QED
    BY <2>2, <2>3, <2>4
<1>8. CASE Mount \/ CreateSkeleton \/ StockDirectory \/ Snapshot \/ InstallKernel
           \/ (\E p \in Profiles : NextProfile(p)) \/ KernelScript
  <2>1. UNCHANGED copied /\ at \in AfterStage
    BY <1>8 DEF Mount, CreateSkeleton, StockDirectory, Snapshot, InstallKernel, NextProfile,
       KernelScript
  <2>2. \/ at' \in AfterStage /\ outcome' = outcome
        \/ outcome' = "error" /\ at' # "stage"
    BY <1>8 DEF Mount, CreateSkeleton, StockDirectory, Snapshot, InstallKernel, NextProfile,
       KernelScript, Exec, MountProfile
  <2> QED
    BY <2>1, <2>2 DEF copied
<1>9. CASE WriteMetadata \/ RecordMetadata \/ Unmount
  <2>1. staged' = staged /\ wrong' = wrong /\ warned' = warned /\ at \in AfterStage /\ at # "idle"
    BY <1>9 DEF WriteMetadata, RecordMetadata, Unmount, copied
  <2>2. /\ at' \in {"idle", "unmount", "record"}
        /\ outcome' = "error" \/ outcome' = outcome \/ outcome = "none"
    BY <1>9 DEF WriteMetadata, RecordMetadata, Unmount, MountProfile, TypeOK
  <2> QED
    BY <2>1, <2>2
<1>10. CASE Automount \/ ForeignUse \/ ClaimEnds \/ Killed \/ UNCHANGED vars
  <2>1. /\ staged' = staged /\ wrong' = wrong /\ warned' = warned /\ todo' = todo
        /\ (at' = at /\ outcome' = outcome) \/ (at' = "idle" /\ outcome' = "none")
    BY <1>10 DEF Automount, ForeignUse, ClaimEnds, Killed, vars, copied
  <2> QED
    BY <2>1
<1> QED
  BY <1>2, <1>3, <1>4, <1>5, <1>6, <1>7, <1>8, <1>9, <1>10 DEF Next, Run, Environment

\* What is mounted: a mount is made where it is undone, or the run knows that an
\* umount has failed.
LEMMA MountedInductive ==
    ASSUME TypeOK, Flow, Mounted, [Next]_vars
    PROVE  Mounted'
<1> USE FailDoes DEF Mounted, Flow, Go, Bare, Ours
<1>1. CASE Start
  BY <1>1 DEF Start
<1> SUFFICES ASSUME ~Start, ~request'.dry, ~stuck' PROVE Mounted'
  BY <1>1
<1>0. request' = request /\ ~request.dry
  BY Footprint DEF given
<1> USE <1>0
<1>2. CASE ReleaseOwnMounts
  BY <1>2, UmountDoes DEF ReleaseOwnMounts
<1>3. CASE UnmountMedia
  BY <1>3 DEF UnmountMedia
<1>4. CASE GuardTarget \/ GuardFits \/ GuardSource \/ UnpackBundle \/ StageDone
           \/ (\E a \in Artifacts : Stage(a)) \/ Wipe
  BY <1>4 DEF GuardTarget, GuardFits, GuardSource, UnpackBundle, StageDone, Stage, Wipe, system,
     Fail, Deploying
<1>5. CASE WriteGpt \/ InstallUboot \/ InstallBootMenu \/ InstallRecovery \/ MakeFilesystem
  <2>1. UNCHANGED system /\ at \in {"table", "uboot", "menu", "recovery", "mkfs"}
    BY <1>5 DEF WriteGpt, InstallUboot, InstallBootMenu, InstallRecovery, InstallImage,
       MakeFilesystem
  <2>2. at' \in {"uboot", "menu", "recovery", "mkfs", "mount"} \/ Fail
    BY <1>5, WriteDoes, MakeDoes, NamesDiffer DEF WriteGpt, InstallUboot, InstallBootMenu,
       InstallRecovery, InstallImage, MakeFilesystem, Images
  <2> QED
    BY <2>1, <2>2 DEF system, Fail, Deploying
<1>6. CASE Mount
  BY <1>6 DEF Mount, Exec, Fail, Deploying
<1>7. CASE CreateSkeleton
  BY <1>7, UmountDoes DEF CreateSkeleton, Exec, Fail, Deploying, system
<1>8. CASE StockDirectory \/ ReceiveHome \/ Reseed \/ ReceivePack \/ Snapshot
           \/ (\E p \in Profiles : NextProfile(p))
  <2>1. UNCHANGED system /\ at \in {"stock", "home", "reseed", "receive", "snapshot", "next"}
    BY <1>8 DEF StockDirectory, ReceiveHome, Reseed, ReceivePack, Snapshot, NextProfile
  <2>2. at' \in {"home", "reseed", "next", "snapshot", "kernel", "receive"} \/ Fail
    BY <1>8, WriteDoes, MakeDoes, NamesDiffer DEF StockDirectory, ReceiveHome, Reseed,
       ReceivePack, Snapshot, NextProfile, Exec, TypeOK
  <2> QED
    BY <2>1, <2>2 DEF system, Fail, Deploying
<1>9. CASE InstallKernel \/ WriteMetadata
  BY <1>9 DEF InstallKernel, WriteMetadata, MountProfile, system, Fail, Deploying
<1>10. CASE KernelScript \/ RecordMetadata
  <2>1. mounts' \cap Ours \subseteq {"target"}
    <3>1. Umount({"profile", "api"})
      BY <1>10 DEF KernelScript, RecordMetadata
    <3>2. mounts' = mounts \ {"profile", "api"}
      BY <3>1, UmountDoes
    <3> QED
      BY <3>2
  <2>2. at' \in {"next", "unmount"}
    BY <1>10 DEF KernelScript, RecordMetadata, Fail, Deploying
  <2> QED
    BY <2>1, <2>2
<1>11. CASE Unmount
  BY <1>11, UmountDoes DEF Unmount
<1>12. CASE Environment \/ UNCHANGED vars
  <2>1. /\ UNCHANGED stuck /\ mounts' \cap Ours \subseteq mounts \cap Ours
        /\ UNCHANGED <<at, outcome>> \/ (at' = "idle" /\ outcome' = "none")
    BY <1>12 DEF Environment, Automount, ForeignUse, ClaimEnds, Killed, vars, system
  <2> QED
    BY <2>1
<1> QED
  BY <1>2, <1>3, <1>4, <1>5, <1>6, <1>7, <1>8, <1>9, <1>10, <1>11, <1>12 DEF Next, Run

\* What is made: a part is done when the run goes on from its step, and nothing
\* later in the run touches it.
LEMMA MadeInductive ==
    ASSUME TypeOK, Flow, Made, [Next]_vars
    PROVE  Made'
<1> USE DEF Made, Deployed, Go, Past, AfterTable, AfterUboot, AfterMenu, AfterRecovery, AfterMkfs,
        AfterHome, AfterReseed, AfterMetadata, Profiling
<1>1. CASE Start \/ Killed
  BY <1>1 DEF Start, Killed
<1>2. CASE Fail
  BY <1>2, FailDoes
<1> SUFFICES ASSUME ~Start, ~Killed, ~Fail, ~request'.dry PROVE Made'
  BY <1>1, <1>2
<1>0. /\ request' = request /\ Selected' = Selected /\ Writes' = Writes /\ ~request.dry
      /\ Profiles \cap (Images \cup {"home", "table", "filesystem", "metadata"}) = {}
      /\ Images \subseteq Parts /\ Profiles \subseteq Parts
      /\ {"table", "filesystem", "metadata", "home"} \subseteq Parts
      /\ "home" \in Selected => "home" \in Writes
      /\ "uboot" \in Images /\ "menu" \in Images /\ "recovery" \in Images
      /\ disk \in [Parts -> {"old", "none", "part", "received", "done"}]
  BY Footprint, GivenKeeps, NamesDiffer, SelectedType DEF Images, TypeOK
<1> USE <1>0
<1>3. CASE ReleaseOwnMounts \/ UnmountMedia \/ GuardTarget \/ GuardFits \/ GuardSource
           \/ UnpackBundle \/ (\E a \in Artifacts : Stage(a)) \/ StageDone \/ Wipe
  <2>1. at' \in {"media", "guard", "fits", "source", "unpack", "stage", "wipe", "table"}
        /\ outcome' = "none"
    BY <1>3 DEF ReleaseOwnMounts, UnmountMedia, GuardTarget, GuardFits, GuardSource,
       UnpackBundle, Stage, StageDone, Wipe, Flow
  <2> QED
    BY <2>1
<1>4. CASE WriteGpt
  <2>1. disk'["table"] = "done" /\ at' = "uboot" /\ outcome' = "none"
    BY <1>4, MakeDoes DEF WriteGpt, Flow
  <2> QED
    BY <2>1
<1>5. CASE InstallUboot
  BY <1>5, WriteDoes, NamesDiffer DEF InstallUboot
<1>6. CASE InstallBootMenu
  BY <1>6, WriteDoes, NamesDiffer DEF InstallBootMenu, InstallImage
<1>7. CASE InstallRecovery
  BY <1>7, WriteDoes, NamesDiffer DEF InstallRecovery, InstallImage
<1>8. CASE MakeFilesystem
  <2>1. /\ disk'["filesystem"] = "done" /\ at' = "mount" /\ outcome' = "none" /\ outcome = "none"
        /\ at = "mkfs" /\ \A p \in Parts \ {"filesystem"} : disk'[p] = disk[p]
    BY <1>8, MakeDoes DEF MakeFilesystem, Flow
  <2> QED
    BY <2>1
<1>9. CASE Mount \/ CreateSkeleton
  BY <1>9 DEF Mount, CreateSkeleton, Exec
<1>10. CASE StockDirectory
  BY <1>10 DEF StockDirectory, Exec
<1>11. CASE ReceiveHome
  <2>1. /\ at' \in {"reseed", "next"} /\ outcome' = "none" /\ outcome = "none" /\ at = "home"
        /\ \A p \in Parts \ {"home"} : disk'[p] = disk[p]
        /\ at' = "next" => "home" \notin Selected
        /\ UNCHANGED <<todo, current>>
    BY <1>11, WriteDoes, NamesDiffer DEF ReceiveHome, Flow
  <2> QED
    BY <2>1, NamesDiffer
<1>12. CASE Reseed
  BY <1>12, MakeDoes DEF Reseed
<1>13. ASSUME NEW p \in Profiles, NextProfile(p) PROVE Made'
  BY <1>13 DEF NextProfile
<1>14. CASE ReceivePack
  <2>1. /\ at' = "snapshot" /\ outcome' = "none" /\ outcome = "none" /\ at = "receive"
        /\ \A p \in Parts \ {current} : disk'[p] = disk[p]
        /\ UNCHANGED <<todo, current>> /\ current \in Profiles
    BY <1>14, WriteDoes, NamesDiffer DEF ReceivePack, TypeOK, Flow
  <2> QED
    BY <2>1, NamesDiffer
<1>15. CASE Snapshot \/ InstallKernel
  BY <1>15 DEF Snapshot, InstallKernel, Exec, MountProfile
<1>16. CASE KernelScript
  BY <1>16 DEF KernelScript, TypeOK
<1>17. CASE WriteMetadata
  BY <1>17 DEF WriteMetadata, MountProfile
<1>18. CASE RecordMetadata
  BY <1>18 DEF RecordMetadata
<1>19. CASE Unmount
  BY <1>19 DEF Unmount, TypeOK
<1>20. CASE Automount \/ ForeignUse \/ ClaimEnds \/ UNCHANGED vars
  BY <1>20 DEF Automount, ForeignUse, ClaimEnds, vars
<1> QED
  BY <1>3, <1>4, <1>5, <1>6, <1>7, <1>8, <1>9, <1>10, <1>11, <1>12, <1>13, <1>14, <1>15, <1>16,
     <1>17, <1>18, <1>19, <1>20 DEF Next, Run, Environment

\* What is reported: a step is begun on the way past it, and none is taken back.
LEMMA TickedInductive ==
    ASSUME TypeOK, Flow, Ticked, [Next]_vars
    PROVE  Ticked'
<1> USE DEF Ticked, Deployed, Go, Past, AfterUnpack, AfterStage, AfterWipe, AfterTable, AfterUboot,
        AfterMenu, AfterRecovery, AfterMkfs, AfterHome, AfterReseed, AfterMetadata, Profiling,
        Flow, Begin
<1>1. CASE Start \/ Killed
  BY <1>1 DEF Start, Killed
<1>2. CASE Fail
  BY <1>2, FailDoes
<1> SUFFICES ASSUME ~Start, ~Killed, ~Fail PROVE Ticked'
  BY <1>1, <1>2
<1>0. /\ request' = request /\ Selected' = Selected /\ Writes' = Writes /\ Plan' = Plan
      /\ "home" \in Selected <=> "home" \in Writes
  BY Footprint, GivenKeeps, SelectedType
<1> USE <1>0
<1>3. CASE ReleaseOwnMounts \/ UnmountMedia \/ GuardTarget \/ GuardFits \/ GuardSource
  <2>1. at' \in {"media", "guard", "fits", "source", "unpack"} /\ outcome' = "none"
    BY <1>3 DEF ReleaseOwnMounts, UnmountMedia, GuardTarget, GuardFits, GuardSource
  <2> QED
    BY <2>1
<1>4. CASE UnpackBundle
  BY <1>4 DEF UnpackBundle
<1>5. ASSUME NEW a \in Artifacts, Stage(a) PROVE Ticked'
  <2>1. /\ at = "stage" /\ at' = "stage" /\ outcome' = "none"
        /\ begun' = begun \cup {<<"stage", a>>} /\ todo' = todo \ {a}
    BY <1>5 DEF Stage
  <2> QED
    BY <2>1
<1>6. CASE StageDone
  BY <1>6 DEF StageDone
<1>7. CASE Wipe
  BY <1>7 DEF Wipe
<1>8. CASE WriteGpt
  <2>1. at = "table" /\ at' = "uboot" /\ outcome' = "none" /\ begun' = begun \cup {<<"gpt", "">>}
    BY <1>8, MakeDoes, NamesDiffer DEF WriteGpt
  <2> QED
    BY <2>1
<1>9. CASE InstallUboot
  <2>1. /\ at = "uboot" /\ at' = "menu" /\ outcome' = "none"
        /\ begun' = begun \cup {<<"write", "uboot">>}
    BY <1>9, WriteDoes, NamesDiffer DEF InstallUboot, Images
  <2> QED
    BY <2>1
<1>10. CASE InstallBootMenu
  <2>1. at = "menu" /\ at' = "recovery" /\ outcome' = "none"
    BY <1>10, WriteDoes, NamesDiffer DEF InstallBootMenu, InstallImage, Images
  <2>2. begun \subseteq begun' /\ ("menu" \in Writes => <<"write", "menu">> \in begun')
    BY <1>10 DEF InstallBootMenu, InstallImage
  <2> QED
    BY <2>1, <2>2
<1>11. CASE InstallRecovery
  <2>1. at = "recovery" /\ at' = "mkfs" /\ outcome' = "none"
    BY <1>11, WriteDoes, NamesDiffer DEF InstallRecovery, InstallImage, Images
  <2>2. begun \subseteq begun' /\ ("recovery" \in Writes => <<"write", "recovery">> \in begun')
    BY <1>11 DEF InstallRecovery, InstallImage
  <2> QED
    BY <2>1, <2>2
<1>12. CASE MakeFilesystem
  <2>1. at = "mkfs" /\ at' = "mount" /\ outcome' = "none" /\ begun' = begun \cup {<<"mkfs", "">>}
    BY <1>12, MakeDoes, NamesDiffer DEF MakeFilesystem
  <2> QED
    BY <2>1
<1>13. CASE Mount \/ CreateSkeleton
  BY <1>13 DEF Mount, CreateSkeleton, Exec
<1>14. CASE StockDirectory
  BY <1>14 DEF StockDirectory, Exec
<1>15. CASE ReceiveHome
  <2>1. at = "home" /\ at' \in {"reseed", "next"} /\ outcome' = "none"
    BY <1>15, WriteDoes, NamesDiffer DEF ReceiveHome
  <2>2. /\ begun \subseteq begun' /\ ("home" \in Writes => <<"write", "home">> \in begun')
        /\ UNCHANGED <<todo, current>>
    BY <1>15 DEF ReceiveHome
  <2> QED
    BY <2>1, <2>2
<1>16. CASE Reseed
  <2>1. at = "reseed" /\ at' = "next" /\ outcome' = "none" /\ UNCHANGED <<begun, todo, current>>
    BY <1>16, MakeDoes, NamesDiffer DEF Reseed
  <2> QED
    BY <2>1
<1>17. ASSUME NEW p \in Profiles, NextProfile(p) PROVE Ticked'
  <2>1. /\ at = "next" /\ at' = "receive" /\ outcome' = "none"
        /\ begun' = begun \cup {<<"write", p>>} /\ todo' = todo \ {p} /\ current' = p
    BY <1>17 DEF NextProfile
  <2> QED
    BY <2>1
<1>18. CASE ReceivePack
  <2>1. /\ at = "receive" /\ at' = "snapshot" /\ outcome' = "none"
        /\ UNCHANGED <<begun, todo, current>>
    BY <1>18, WriteDoes, NamesDiffer DEF ReceivePack, TypeOK
  <2> QED
    BY <2>1
<1>19. CASE Snapshot
  <2>1. /\ at = "snapshot" /\ at' = "kernel" /\ outcome' = "none"
        /\ begun' = begun \cup {<<"snapshot", current>>} /\ UNCHANGED <<todo, current>>
    BY <1>19 DEF Snapshot, Exec
  <2> QED
    BY <2>1
<1>20. CASE InstallKernel
  <2>1. /\ at = "kernel" /\ at' \in {"next", "script"} /\ outcome' = "none"
        /\ begun' = begun \cup {<<"kernel", current>>} /\ UNCHANGED <<todo, current>>
    BY <1>20 DEF InstallKernel, MountProfile
  <2> QED
    BY <2>1 DEF ProfileSteps
<1>21. CASE KernelScript
  <2>1. /\ at = "script" /\ at' = "next" /\ outcome' = "none" /\ UNCHANGED <<begun, todo, current>>
    BY <1>21 DEF KernelScript
  <2> QED
    BY <2>1 DEF ProfileSteps
<1>22. CASE WriteMetadata
  <2>1. /\ at = "next" /\ at' \in {"record", "unmount"} /\ outcome' = "none" /\ todo = {}
        /\ begun' = begun \cup {<<"metadata", "">>}
    BY <1>22 DEF WriteMetadata, MountProfile
  <2> QED
    BY <2>1
<1>23. CASE RecordMetadata
  BY <1>23 DEF RecordMetadata
<1>24. CASE Unmount
  <2>1. /\ at = "unmount" /\ at' = "idle" /\ UNCHANGED begun
        /\ outcome' = "error" \/ (outcome' = "ok" /\ outcome = "none")
    BY <1>24 DEF Unmount, TypeOK
  <2> QED
    BY <2>1
<1>25. CASE Automount \/ ForeignUse \/ ClaimEnds \/ UNCHANGED vars
  <2>1. UNCHANGED <<at, outcome, todo, current, begun>>
    BY <1>25 DEF Automount, ForeignUse, ClaimEnds, vars
  <2> QED
    BY <2>1, ZenonT(40)
<1> QED
  BY <1>3, <1>4, <1>5, <1>6, <1>7, <1>8, <1>9, <1>10, <1>11, <1>12, <1>13, <1>14, <1>15, <1>16,
     <1>17, <1>18, <1>19, <1>20, <1>21, <1>22, <1>23, <1>24, <1>25 DEF Next, Run, Environment

-------------------------------------------------------------------------------
(* The theorems. *)

IInv ==
    /\ TypeOK /\ Flow /\ Guarded /\ Verified /\ Mounted /\ Made /\ Ticked
    /\ DryRunTouchesNothing /\ VerifiedBeforeErased /\ ErasedOnlyIfInstallable

\* What is erased was behind every guard and behind staging when it was.
LEMMA ErasureInductive ==
    ASSUME IInv, [Next]_vars
    PROVE  DryRunTouchesNothing' /\ VerifiedBeforeErased' /\ ErasedOnlyIfInstallable'
<1> USE DEF DryRunTouchesNothing, VerifiedBeforeErased, ErasedOnlyIfInstallable, Erased
<1>1. CASE Start
  <2>1. disk' = Untouched /\ staged' = {}
    BY <1>1 DEF Start
  <2>2. Untouched["table"] = "old" /\ Untouched' = Untouched
    BY NamesDiffer DEF Untouched
  <2> QED
    BY <2>1, <2>2
<1>2. CASE ~Start
  <2>1. /\ request.dry => disk' = disk /\ staged' = staged
        /\ disk'["table"] = disk["table"] \/ (at \in {"wipe", "table"} /\ ~request.dry)
        /\ staged \subseteq staged' /\ UNCHANGED given
    BY <1>2, Footprint DEF IInv
  <2>2. /\ request' = request /\ Plan' = Plan /\ Unfit' = Unfit
        /\ BootRomCapable' = BootRomCapable /\ Untouched' = Untouched
    BY <2>1, GivenKeeps DEF Untouched
  <2>3. at \in {"wipe", "table"} /\ ~request.dry =>
           /\ BootRomCapable /\ Unfit = {}
           /\ request.verify => Plan \subseteq staged
    BY DEF IInv, Flow, Guarded, Verified, Past, AfterGuard, AfterFits, AfterUnpack, AfterStage,
           AfterWipe
  <2>4. request'.verify => wrong' \cap request'.digests \cap staged' = {}
    BY VerifiedInductive DEF IInv, Verified
  <2> QED
    BY <2>1, <2>2, <2>3, <2>4 DEF IInv
<1> QED
  BY <1>1, <1>2

\* The strengthened invariant: what a run at each of its steps has behind it.
THEOREM InstallInvariant == Spec => []IInv
<1>1. Init => IInv
  <2> SUFFICES ASSUME Init PROVE IInv
    OBVIOUS
  <2>1. TypeOK /\ Flow
    BY FlowInit
  <2>2. Guarded /\ Verified /\ Mounted /\ Made /\ Ticked
    BY DEF Init, Guarded, Verified, Mounted, Made, Ticked, Deployed, OnTrack, Past, NoRequest, Bare,
       AfterGuard, AfterFits, AfterUnpack, AfterStage, AfterWipe, AfterTable, AfterUboot, AfterMenu,
       AfterRecovery, AfterMkfs, AfterHome, AfterReseed, AfterMetadata, Profiling
  <2>3. Untouched["table"] = "old"
    BY NamesDiffer DEF Untouched
  <2> QED
    BY <2>1, <2>2, <2>3 DEF Init, IInv, DryRunTouchesNothing, VerifiedBeforeErased,
       ErasedOnlyIfInstallable, Erased
<1>2. IInv /\ [Next]_vars => IInv'
  BY FlowInductive, GuardedInductive, VerifiedInductive, MountedInductive, MadeInductive,
     TickedInductive, ErasureInductive DEF IInv
<1> QED
  BY <1>1, <1>2, PTL DEF Spec

\* The state of the pipeline has its type; the bar only begins steps of its budget.
THEOREM TypeCorrect == Spec => []TypeOK
<1>1. IInv => TypeOK
  BY DEF IInv
<1> QED
  BY <1>1, InstallInvariant, PTL

\* When verifying first, nothing is erased before everything planned is copied and
\* agrees with the digests published (stage.rs, and the order in install.rs: run).
THEOREM VerifiedFirst == Spec => []VerifiedBeforeErased
<1>1. IInv => VerifiedBeforeErased
  BY DEF IInv
<1> QED
  BY <1>1, InstallInvariant, PTL

\* What does not fit or cannot boot is refused before anything is erased (the
\* guards of install.rs: run).
THEOREM GuardsComeFirst == Spec => []ErasedOnlyIfInstallable
<1>1. IInv => ErasedOnlyIfInstallable
  BY DEF IInv
<1> QED
  BY <1>1, InstallInvariant, PTL

\* A dry run leaves the device and the scratch directory alone.
THEOREM DryRunIsDry == Spec => []DryRunTouchesNothing
<1>1. IInv => DryRunTouchesNothing
  BY DEF IInv
<1> QED
  BY <1>1, InstallInvariant, PTL

\* A run that reports success has made every part that was asked for, and has said
\* of which it does not know that it is what was published.
THEOREM SuccessIsTrue == Spec => []DoneMeansInstalled
<1>1. IInv => DoneMeansInstalled
  <2> SUFFICES ASSUME IInv, outcome = "ok", ~request.dry
               PROVE  /\ \A a \in Writes \cup (Profiles \cap Selected)
                                  \cup {"table", "filesystem"} : disk[a] = "done"
                      /\ wrong \subseteq warned
                      /\ request.verify => wrong \cap request.digests = {}
    BY DEF DoneMeansInstalled
  <2>1. wrong \subseteq warned /\ (request.verify => wrong \cap request.digests = {})
    BY DEF IInv, Verified, OnTrack
  <2>2. \A p \in Profiles \cap Selected : disk[p] = "done"
    BY DEF IInv, Made, Past
  <2>3. disk["table"] = "done" /\ disk["filesystem"] = "done"
    BY DEF IInv, Made, Past
  <2>4. ASSUME NEW a \in Writes PROVE disk[a] = "done"
    <3>1. a \in {"uboot", "menu", "recovery", "home"} /\ a \in Selected
      BY SelectedType DEF IInv, Images
    <3> QED
      BY <2>4, <3>1 DEF IInv, Made, Past
  <2> QED
    BY <2>1, <2>2, <2>3, <2>4
<1> QED
  BY <1>1, InstallInvariant, PTL

\* However a run ends by itself, it leaves none of its own mounts behind; a run in
\* which an umount, of whatever mount, has failed both ways is exempted.
THEOREM NothingStaysMounted == Spec => []LeavesNothingMounted
<1>1. IInv => LeavesNothingMounted
  BY DEF IInv, Mounted, LeavesNothingMounted
<1> QED
  BY <1>1, InstallInvariant, PTL

\* What earlier runs left mounted is gone when a run asks whether the target is in
\* use (release_own_mounts before device_in_use), unless an umount has failed both
\* ways.
THEOREM RetryIsFree == Spec => []RetryNotRefused
<1>1. IInv => RetryNotRefused
  BY DEF IInv, Mounted, RetryNotRefused, Bare
<1> QED
  BY <1>1, InstallInvariant, PTL

\* A run that succeeds has begun every step its bar was added up from, and no other
\* (total_weight against the calls of begin).
THEOREM BarIsTrue == Spec => []BarAddsUp
<1>1. IInv => BarAddsUp
  <2> SUFFICES ASSUME IInv, outcome = "ok" PROVE begun = Budget
    BY DEF BarAddsUp
  <2>1. begun \subseteq Budget
    BY DEF IInv, TypeOK
  <2>2. \A p \in Profiles \cap Selected : ProfileSteps(p) \subseteq begun
    BY DEF IInv, Ticked, Past
  <2>3. /\ {<<"discard", "">>, <<"gpt", "">>, <<"mkfs", "">>, <<"metadata", "">>} \subseteq begun
        /\ request.archive # "none" => <<"unpack", "">> \in begun
        /\ request.verify => \A a \in Plan : <<"stage", a>> \in begun
    BY DEF IInv, Ticked, Past
  <2>4. ASSUME NEW a \in Writes PROVE <<"write", a>> \in begun
    <3>1. a \in {"uboot", "menu", "recovery", "home"}
      BY SelectedType DEF IInv, Images
    <3> QED
      BY <2>4, <3>1 DEF IInv, Ticked, Past
  <2>5. Budget \subseteq begun
    BY <2>2, <2>3, <2>4, OnlyInBudget
  <2> QED
    BY <2>1, <2>5
<1> QED
  BY <1>1, InstallInvariant, PTL
-------------------------------------------------------------------------------
(* Every run ends: the half of it that needs no fairness. *)

\* The steps in the order a run comes to them; a profile begins with "receive" and
\* comes back to "next", which takes it from the list.
Place(step) ==
    CASE step = "release" -> 1    [] step = "media" -> 2     [] step = "guard" -> 3
      [] step = "fits" -> 4       [] step = "source" -> 5    [] step = "unpack" -> 6
      [] step = "stage" -> 7      [] step = "wipe" -> 8      [] step = "table" -> 9
      [] step = "uboot" -> 10     [] step = "menu" -> 11     [] step = "recovery" -> 12
      [] step = "mkfs" -> 13      [] step = "mount" -> 14    [] step = "skeleton" -> 15
      [] step = "stock" -> 16     [] step = "home" -> 17     [] step = "reseed" -> 18
      [] step = "receive" -> 19   [] step = "snapshot" -> 20 [] step = "kernel" -> 21
      [] step = "script" -> 22    [] step = "next" -> 23     [] step = "record" -> 24
      [] step = "unmount" -> 25   [] OTHER -> 26

\* A run lists what it is to stage when it has unpacked, and what it is to deploy
\* when there is a directory for it; between these points a list only gets shorter.
Era(step) == IF Place(step) < 7 THEN 1 ELSE IF Place(step) < 17 THEN 2 ELSE 3

\* The run has come to a later era; or less of its list is left; or as much, and the
\* step is a later one.
Further ==
    \/ Era(at) < Era(at')
    \/ Era(at) = Era(at') /\ todo' \subseteq todo /\ todo' # todo
    \/ Era(at) = Era(at') /\ todo' = todo /\ Place(at) < Place(at')

\* Each step of a run ends it or takes it further, and nobody else moves it, except
\* that the process may be killed.
GoesOn ==
    at # "idle" => \/ at' = "idle"
                   \/ Further
                   \/ ~Run /\ UNCHANGED <<at, todo>>

LEMMA FailGoes ==
    ASSUME Fail
    PROVE  \/ at' = "idle"
           \/ at \in Deploying /\ at' = "unmount"
BY DEF Fail

LEMMA WriteGoes ==
    ASSUME NEW a, NEW next, Write(a, next)
    PROVE  at' = next \/ Fail
BY DEF Write, Go

LEMMA MakeGoes ==
    ASSUME NEW p, NEW next, Make(p, next)
    PROVE  at' = next \/ Fail
BY DEF Make, Go

\* To stay in an era with the list as it is and come to a later step, or to the last
\* unmount from the steps before it, is to go further.
LEMMA Onwards ==
    ASSUME UNCHANGED todo, Place(at) < Place(at')
    PROVE  Further
<1>1. Place(at) \in Nat /\ Place(at') \in Nat
  BY DEF Place
<1>2. Era(at) < Era(at') \/ Era(at) = Era(at')
  BY <1>1 DEF Era
<1> QED
  BY <1>2 DEF Further

LEMMA FailEnds ==
    ASSUME Fail, UNCHANGED todo
    PROVE  at' = "idle" \/ Further
<1>1. CASE at \in Deploying /\ at' = "unmount"
  <2>1. Place(at') = 25
    BY <1>1 DEF Place
  <2>2. \/ at = "stock" \/ at = "home" \/ at = "reseed" \/ at = "next" \/ at = "receive"
        \/ at = "snapshot" \/ at = "kernel" \/ at = "script" \/ at = "record"
    BY <1>1 DEF Deploying
  <2>3. Place(at) < 25
    BY <2>2 DEF Place
  <2> QED
    BY <2>1, <2>3, Onwards
<1> QED
  BY <1>1, FailGoes

LEMMA RunAdvances ==
    ASSUME Run
    PROVE  at' = "idle" \/ Further
<1>1. CASE ReleaseOwnMounts \/ UnmountMedia \/ GuardTarget \/ GuardFits \/ GuardSource
           \/ StageDone \/ Wipe \/ WriteGpt \/ InstallUboot \/ InstallBootMenu
           \/ InstallRecovery \/ MakeFilesystem \/ Mount \/ CreateSkeleton \/ ReceiveHome
           \/ Reseed \/ ReceivePack \/ Snapshot \/ InstallKernel \/ KernelScript
           \/ WriteMetadata \/ RecordMetadata \/ Unmount
  <2>1. UNCHANGED todo
    BY <1>1 DEF ReleaseOwnMounts, UnmountMedia, GuardTarget, GuardFits, GuardSource,
       StageDone, Wipe, WriteGpt, InstallUboot, InstallBootMenu, InstallRecovery,
       InstallImage, MakeFilesystem, Mount, CreateSkeleton, ReceiveHome, Reseed,
       ReceivePack, Snapshot, InstallKernel, KernelScript, WriteMetadata, RecordMetadata,
       Unmount
  <2>2. CASE ReleaseOwnMounts \/ UnmountMedia \/ GuardTarget \/ GuardFits \/ GuardSource
             \/ StageDone \/ Wipe
    <3>1. \/ Fail
          \/ at = "release" /\ at' = "media"
          \/ at = "media" /\ at' = "guard"
          \/ at = "guard" /\ at' = "fits"
          \/ at = "fits" /\ at' = "source"
          \/ at = "source" /\ at' = "unpack"
          \/ at = "stage" /\ at' = "wipe"
          \/ at = "wipe" /\ at' = "table"
      BY <2>2 DEF ReleaseOwnMounts, UnmountMedia, GuardTarget, GuardFits, GuardSource,
         StageDone, Wipe, Go
    <3>2. Fail \/ Place(at) < Place(at')
      BY <3>1 DEF Place
    <3> QED
      BY <2>1, <3>2, FailEnds, Onwards
  <2>3. CASE WriteGpt \/ MakeFilesystem \/ Reseed
    <3>1. \/ Fail
          \/ at = "table" /\ at' = "uboot"
          \/ at = "mkfs" /\ at' = "mount"
          \/ at = "reseed" /\ at' = "next"
      BY <2>3, MakeGoes DEF WriteGpt, MakeFilesystem, Reseed
    <3>2. Fail \/ Place(at) < Place(at')
      BY <3>1 DEF Place
    <3> QED
      BY <2>1, <3>2, FailEnds, Onwards
  <2>4. CASE InstallUboot \/ InstallBootMenu \/ InstallRecovery \/ ReceiveHome \/ ReceivePack
    <3>1. \/ Fail
          \/ at = "uboot" /\ at' = "menu"
          \/ at = "menu" /\ at' = "recovery"
          \/ at = "recovery" /\ at' = "mkfs"
          \/ at = "home" /\ at' \in {"reseed", "next"}
          \/ at = "receive" /\ at' = "snapshot"
      BY <2>4, WriteGoes DEF InstallUboot, InstallBootMenu, InstallRecovery, InstallImage,
         ReceiveHome, ReceivePack, Go
    <3>2. Fail \/ Place(at) < Place(at')
      BY <3>1 DEF Place
    <3> QED
      BY <2>1, <3>2, FailEnds, Onwards
  <2>5. CASE Mount \/ CreateSkeleton \/ Snapshot \/ InstallKernel \/ KernelScript
             \/ WriteMetadata \/ RecordMetadata
    <3>1. \/ Fail
          \/ at = "mount" /\ at' = "skeleton"
          \/ at = "skeleton" /\ at' = "stock"
          \/ at = "snapshot" /\ at' = "kernel"
          \/ at = "kernel" /\ at' \in {"script", "next"}
          \/ at = "script" /\ at' = "next"
          \/ at = "next" /\ at' \in {"record", "unmount"}
          \/ at = "record" /\ at' = "unmount"
      BY <2>5 DEF Mount, CreateSkeleton, Snapshot, InstallKernel, KernelScript,
         WriteMetadata, RecordMetadata, MountProfile, Exec, Go
    <3>2. Fail \/ Place(at) < Place(at')
      BY <3>1 DEF Place
    <3> QED
      BY <2>1, <3>2, FailEnds, Onwards
  <2>6. CASE Unmount
    BY <2>6 DEF Unmount
  <2> QED
    BY <1>1, <2>2, <2>3, <2>4, <2>5, <2>6
<1>2. CASE UnpackBundle \/ StockDirectory
  <2>1. \/ at' = "idle"
        \/ at = "unpack" /\ at' = "stage"
        \/ at = "stock" /\ at' \in {"home", "unmount"}
    <3>1. CASE UnpackBundle
      BY <3>1, FailGoes DEF UnpackBundle, Go, Deploying
    <3>2. CASE StockDirectory
      BY <3>2, FailGoes DEF StockDirectory, Exec, Go
    <3> QED
      BY <1>2, <3>1, <3>2
  <2>2. at' = "idle" \/ Era(at) < Era(at')
    BY <2>1 DEF Era, Place
  <2> QED
    BY <2>2 DEF Further
<1>3. ASSUME NEW a \in Artifacts, Stage(a)
      PROVE  at' = "idle" \/ Further
  <2>1. todo' \subseteq todo /\ todo' # todo
    BY <1>3 DEF Stage
  <2>2. at' = "stage" \/ Fail
    BY <1>3 DEF Stage, Go
  <2>3. at = "stage"
    BY <1>3 DEF Stage
  <2> QED
    BY <2>1, <2>2, <2>3, FailGoes DEF Further, Deploying
<1>4. ASSUME NEW p \in Profiles, NextProfile(p)
      PROVE  at' = "idle" \/ Further
  <2>1. todo' \subseteq todo /\ todo' # todo
    BY <1>4 DEF NextProfile
  <2>2. at = "next" /\ (at' = "receive" \/ Fail)
    BY <1>4 DEF NextProfile, Go
  <2>3. at' = "idle" \/ Era(at) = Era(at')
    BY <2>2, FailGoes DEF Era, Place
  <2> QED
    BY <2>1, <2>3 DEF Further
<1> QED
  BY <1>1, <1>2, <1>3, <1>4 DEF Run

\* The pipeline has no way back and no loop without an end: whatever fails, and
\* whatever happens around it, each step of a run is a step down in a well-founded
\* order (install.rs: run, for which RunEnds still needs a thread that is scheduled).
THEOREM RunGoesOn == Spec => [][GoesOn]_vars
<1>1. [Next]_vars => [GoesOn]_vars
  <2> SUFFICES ASSUME Next, at # "idle" PROVE GoesOn
    BY DEF GoesOn
  <2>1. CASE Run
    BY <2>1, RunAdvances DEF GoesOn
  <2>2. CASE ~Run /\ Environment
    BY <2>2 DEF Environment, Automount, ForeignUse, ClaimEnds, Killed, GoesOn
  <2>3. ~Start
    BY DEF Start
  <2> QED
    BY <2>1, <2>2, <2>3 DEF Next
<1> QED
  BY <1>1, PTL DEF Spec
===============================================================================
