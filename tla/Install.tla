-------------------------------- MODULE Install --------------------------------
(***************************************************************************)
(* One target device and the installation pipeline (core/install.rs: run   *)
(* and the functions it calls, with core/stage.rs and the mounts of        *)
(* core/removable.rs), from the operator's request to its result, and the  *)
(* runs that follow one that failed or was killed.                         *)
(*                                                                         *)
(* Modelled is what a run leaves behind in every case: on the device, in   *)
(* the mount table, and in what the operator is told.  Each command a run  *)
(* starts may fail.  A digest is published or not, and the bytes an        *)
(* artifact's source delivers are right or wrong.  The side of the boot LU *)
(* is module BootLu's; here the bootloader is one more artifact.           *)
(***************************************************************************)
EXTENDS Naturals

CONSTANTS
    Extras,      \* profiles other than Minimal
    Targets,     \* the devices considered
    Requests,    \* what the operator may ask for
    Faults,      \* whether commands, reads and writes may fail
    Races        \* whether a Refresh may still be mounting media during a run

Profiles == Extras \cup {"Minimal"}
Images == {"uboot", "menu", "recovery"}
Artifacts == Images \cup {"home"} \cup Profiles
Parts == Artifacts \cup {"table", "filesystem", "metadata"}

\* A device: its kind, whether it carries a filesystem without a partition
\* table, and whether it has a recovery logical unit.
AnyTarget == [kind : {"ufs", "emmc", "sd", "usb"}, bare : BOOLEAN, lu : BOOLEAN]

\* A request: what is selected, which packs the manifest lacks, which artifacts
\* have a digest, which are files on the target itself, what does not fit, and
\* where the archive of the bundle is, if there is one.
AnyRequest ==
    [dry : BOOLEAN, verify : BOOLEAN, want : SUBSET (Artifacts \ {"uboot", "Minimal"}),
     lacks : SUBSET Profiles, digests : SUBSET Artifacts, onTarget : SUBSET Artifacts,
     unfit : SUBSET Images, archive : {"none", "away", "target"}]

ASSUME InstallAssumption ==
    /\ Extras \cap (Images \cup {"home", "Minimal", "table", "filesystem", "metadata"}) = {}
    /\ Targets \subseteq AnyTarget
    /\ \A r \in Requests : r \in AnyRequest
    /\ Faults \in BOOLEAN /\ Races \in BOOLEAN

VARIABLES
    device,     \* the target
    request,    \* AppState and Config as the run's snapshot has them
    at,         \* the step the run is at, "idle" when there is none
    outcome,    \* of the run, once it is decided
    todo,       \* artifacts left to stage, later profiles left to deploy
    current,    \* the profile being deployed
    staged,     \* artifacts with a verified copy in the scratch directory
    wrong,      \* artifacts whose bytes were not what was published
    warned,     \* artifacts the log has warned about
    begun,      \* the steps the progress bar has begun
    disk,       \* what this run has made of each part of the device
    mounts,     \* what of the device is mounted, and where
    claim,      \* a lazily detached mount still holds the device
    stuck       \* an umount has failed in this run

given == <<device, request>>
system == <<mounts, claim, stuck>>
copied == <<staged, wrong, warned>>
vars == <<given, at, outcome, todo, current, copied, begun, disk, system>>
-------------------------------------------------------------------------------
NoRequest == [dry |-> TRUE, verify |-> TRUE, want |-> {}, lacks |-> {}, digests |-> {},
              onTarget |-> {}, unfit |-> {}, archive |-> "none"]

IsUfs == device.kind = "ufs"
Removable == device.kind \in {"sd", "usb"}
BootRomCapable == device.kind # "usb"

\* What the run is to install, and the part of it that has somewhere to come from
\* (stage::plan).  Only a UFS target takes the Falcon images.
Selected ==
    {"uboot", "Minimal"} \cup
        (IF IsUfs THEN request.want ELSE request.want \ {"menu", "recovery"})
Plan == Selected \ request.lacks

\* The steps the progress bar is to have: the terms of total_weight.
Writes == ({"uboot", "menu", "home"} \cap Selected) \cup
          (IF device.lu THEN {"recovery"} \cap Selected ELSE {})
Budget ==
    {<<"discard", "">>, <<"gpt", "">>, <<"mkfs", "">>, <<"metadata", "">>}
    \cup (IF request.archive # "none" THEN {<<"unpack", "">>} ELSE {})
    \cup (IF request.verify THEN {"stage"} \X Plan ELSE {})
    \cup ({"write"} \X Writes)
    \cup ({"write", "snapshot", "kernel"} \X (Profiles \cap Selected))

Ours == {"target", "profile", "api"}     \* TARGET_MNT, PROFILE_MNT, mounts below it
Mountpoints == Ours \cup {"media", "foreign"}

\* What survives blkdiscard of the main logical unit: what is on another one.
Elsewhere == IF IsUfs THEN {"uboot", "recovery"} ELSE {"recovery"}
Untouched == [p \in Parts |-> "old"]
Wiped == [p \in Parts |-> IF p \in Elsewhere THEN "old" ELSE "none"]

Erased == disk["table"] # "old"

\* A file on the target can be read while our media mount is there.
Readable(a) ==
    a \in staged \/ a \notin request.onTarget \/ ("media" \in mounts /\ ~Erased)

\* The steps of the inner block that run ends with an unmount, whatever happens.
Deploying == {"stock", "home", "reseed", "next", "receive", "snapshot", "kernel",
              "script", "record"}

Go(next) == at' = next /\ UNCHANGED outcome
Fail == at' = (IF at \in Deploying THEN "unmount" ELSE "idle") /\ outcome' = "error"
Begin(step, a) == begun' = begun \cup {<<step, a>>}

\* exec of a command that changes nothing modelled: it may fail, unless it is only
\* logged.
Exec(next) == Go(next) \/ (Faults /\ ~request.dry /\ Fail)

\* umount_recursive: plain, else lazily, else an error.  A dry run only logs it.
Umount(ms) ==
    IF request.dry
      THEN UNCHANGED system
      ELSE \E kept \in IF Faults THEN SUBSET (ms \cap mounts) ELSE {{}} :
               /\ mounts' = mounts \ (ms \ kept)
               /\ claim' \in IF ms \cap mounts = kept THEN {claim} ELSE {claim, TRUE}
               /\ stuck' = (stuck \/ kept # {})
Unmounted(ms) == request.dry \/ mounts' \cap ms = {}

\* The bytes of an artifact: a staged copy is what was verified, a source may
\* deliver anything.
Deliveries(a) == IF a \in staged THEN {a \in wrong} ELSE IF Faults THEN BOOLEAN ELSE {FALSE}

\* apply_verdict: whether the digest is accepted, and what is reported of it.
Mismatch(a, bad) == bad /\ a \in request.digests
Report(a, bad) ==
    /\ wrong' = IF bad THEN wrong \cup {a} ELSE wrong
    /\ warned' = IF a \notin request.digests \/ bad THEN warned \cup {a} ELSE warned

\* write_source_to_offset and receive_pack.  The policy is Fail when verifying.
Write(a, next) ==
    \/ /\ request.dry
       /\ Go(next)
       /\ UNCHANGED <<disk, copied>>
    \/ /\ ~request.dry /\ Readable(a)
       /\ disk' = [disk EXCEPT ![a] = IF a \in Images THEN "done" ELSE "received"]
       /\ \E bad \in Deliveries(a) :
             /\ Report(a, bad)
             /\ IF request.verify /\ Mismatch(a, bad) THEN Fail ELSE Go(next)
       /\ UNCHANGED staged
    \/ /\ ~request.dry /\ (Faults \/ ~Readable(a))
       /\ disk' \in {disk, [disk EXCEPT ![a] = "part"]}
       /\ Fail
       /\ UNCHANGED copied
-------------------------------------------------------------------------------
Init ==
    /\ device \in Targets
    /\ request = NoRequest
    /\ at = "idle" /\ outcome = "none"
    /\ todo = {} /\ current = "Minimal"
    /\ staged = {} /\ wrong = {} /\ warned = {} /\ begun = {}
    /\ disk = Untouched
    /\ mounts \in {{}, {"foreign"}} \cup (IF Removable THEN {{"media"}} ELSE {})
    /\ claim = FALSE /\ stuck = FALSE

\* run() begins with a snapshot that holds everything it needs; whatever earlier
\* runs left on the device is old to it.
Start ==
    /\ at = "idle"
    /\ request' \in {r \in Requests :
                        r.onTarget # {} \/ r.archive = "target" => Removable}
    /\ at' = "release" /\ outcome' = "none" /\ todo' = {} /\ current' = "Minimal"
    /\ staged' = {} /\ wrong' = {} /\ warned' = {} /\ begun' = {}
    /\ disk' = Untouched
    /\ stuck' = FALSE
    /\ UNCHANGED <<device, mounts, claim>>

\* Mutant: the profile's mountpoint is forgotten.
ReleaseTargetOnly ==
    /\ at = "release"
    /\ Umount({"target"})
    /\ Go("media")
    /\ UNCHANGED <<given, todo, current, copied, begun, disk>>

\* release_own_mounts: an error is only logged.
ReleaseOwnMounts ==
    /\ at = "release"
    /\ Umount(Ours)
    /\ Go("media")
    /\ UNCHANGED <<given, todo, current, copied, begun, disk>>

\* unmount_ours of the target, dry run or not.  whole_disk takes the node of a card
\* without partitions (mmcblk0) for a partition of "mmcblk": it is passed over.
UnmountMedia ==
    /\ at = "media"
    /\ LET left == mounts \ {"media"}
           passed == device.kind = "sd" /\ device.bare
       IN  \/ mounts' = (IF passed THEN mounts ELSE left) /\ UNCHANGED stuck
           \/ Faults /\ "media" \in mounts /\ ~passed /\ stuck' = TRUE /\ UNCHANGED mounts
    /\ Go("guard")
    /\ UNCHANGED <<given, todo, current, copied, begun, disk, claim>>

\* guard_target: device_in_use reads the mount table, where a lazily detached
\* mount no longer is.
GuardTarget ==
    /\ at = "guard"
    /\ IF BootRomCapable /\ (request.dry \/ mounts = {}) THEN Go("fits") ELSE Fail
    /\ UNCHANGED <<given, todo, current, copied, begun, disk, system>>

\* guard_ufs_boot_lu, guard_boot_menu_fits and guard_recovery_fits.
Unfit == request.unfit \cap ((IF IsUfs THEN {"uboot"} ELSE {}) \cup (Writes \ {"uboot"}))
\* Mutant: only the bootloader is measured.
GuardUbootFits ==
    /\ at = "fits"
    /\ IF request.dry \/ Unfit \cap {"uboot"} = {} THEN Go("source") ELSE Fail
    /\ UNCHANGED <<given, todo, current, copied, begun, disk, system>>

GuardFits ==
    /\ at = "fits"
    /\ IF request.dry \/ Unfit = {} THEN Go("source") ELSE Fail
    /\ UNCHANGED <<given, todo, current, copied, begun, disk, system>>

\* guard_not_on_target: artifacts below a mountpoint the target has now.
GuardSource ==
    /\ at = "source"
    /\ IF Plan \cap request.onTarget # {} /\ "media" \in mounts THEN Fail ELSE Go("unpack")
    /\ UNCHANGED <<given, todo, current, copied, begun, disk, system>>

UnpackBundle ==
    /\ at = "unpack"
    /\ IF request.archive = "none" THEN Go("stage") /\ UNCHANGED begun
       ELSE /\ Begin("unpack", "")
            /\ \/ (request.archive = "target" => request.dry \/ "media" \in mounts) /\ Go("stage")
               \/ ~request.dry /\ (Faults \/ request.archive = "target") /\ Fail
    /\ todo' = IF request.verify THEN Plan ELSE {}
    /\ UNCHANGED <<given, current, copied, disk, system>>

\* Mutant: a mismatch is reported and the copy kept.
StageAnyway(a) ==
    /\ at = "stage" /\ a \in todo
    /\ Begin("stage", a)
    /\ todo' = todo \ {a}
    /\ IF request.dry THEN Go("stage") /\ UNCHANGED copied
       ELSE \/ /\ Readable(a)
               /\ \E bad \in Deliveries(a) : Report(a, bad)
               /\ Go("stage") /\ staged' = staged \cup {a}
            \/ (Faults \/ ~Readable(a)) /\ Fail /\ UNCHANGED copied
    /\ UNCHANGED <<given, current, disk, system>>

\* Mutant: a dry run does not tick.
StageSilently(a) ==
    /\ at = "stage" /\ a \in todo
    /\ todo' = todo \ {a}
    /\ IF request.dry THEN Go("stage") /\ UNCHANGED <<copied, begun>>
       ELSE /\ Begin("stage", a)
            /\ \/ /\ Readable(a)
                  /\ \E bad \in Deliveries(a) :
                        /\ Report(a, bad)
                        /\ IF Mismatch(a, bad) THEN Fail /\ UNCHANGED staged
                                               ELSE Go("stage") /\ staged' = staged \cup {a}
               \/ (Faults \/ ~Readable(a)) /\ Fail /\ UNCHANGED copied
    /\ UNCHANGED <<given, current, disk, system>>

\* stage::run of one artifact: fetched, and refused on a mismatch.
Stage(a) ==
    /\ at = "stage" /\ a \in todo
    /\ Begin("stage", a)
    /\ todo' = todo \ {a}
    /\ IF request.dry THEN Go("stage") /\ UNCHANGED copied
       ELSE \/ /\ Readable(a)
               /\ \E bad \in Deliveries(a) :
                     /\ Report(a, bad)
                     /\ IF Mismatch(a, bad) THEN Fail /\ UNCHANGED staged
                                            ELSE Go("stage") /\ staged' = staged \cup {a}
            \/ (Faults \/ ~Readable(a)) /\ Fail /\ UNCHANGED copied
    /\ UNCHANGED <<given, current, disk, system>>

StageDone ==
    /\ at = "stage" /\ todo = {}
    /\ Go("wipe")
    /\ UNCHANGED <<given, todo, current, copied, begun, disk, system>>

\* Mutant: blkdiscard is started without asking whether the run is dry.
WipeAnyway ==
    /\ at = "wipe"
    /\ Begin("discard", "")
    /\ \/ mounts = {} /\ ~claim /\ Go("table") /\ disk' = Wiped
       \/ (Faults \/ mounts # {} \/ claim) /\ Fail /\ UNCHANGED disk
    /\ UNCHANGED <<given, todo, current, copied, system>>

\* Mutant: the wait for exclusive access has no deadline.
WipePatient ==
    /\ at = "wipe"
    /\ Begin("discard", "")
    /\ \/ request.dry /\ Go("table") /\ UNCHANGED disk
       \/ ~request.dry /\ mounts = {} /\ ~claim /\ Go("table") /\ disk' = Wiped
       \/ ~request.dry /\ Faults /\ mounts = {} /\ ~claim /\ Fail /\ disk' \in {disk, Wiped}
    /\ UNCHANGED <<given, todo, current, copied, system>>

\* wait_for_exclusive_access gives a detached mount time to go, and then leaves
\* it to blkdiscard, which is refused a device that is claimed.
Wipe ==
    /\ at = "wipe"
    /\ Begin("discard", "")
    /\ \/ request.dry /\ Go("table") /\ UNCHANGED disk
       \/ ~request.dry /\ mounts = {} /\ ~claim /\ Go("table") /\ disk' = Wiped
       \/ ~request.dry /\ Faults /\ mounts = {} /\ ~claim /\ Fail /\ disk' \in {disk, Wiped}
       \/ ~request.dry /\ (mounts # {} \/ claim) /\ Fail /\ UNCHANGED disk
    /\ UNCHANGED <<given, todo, current, copied, system>>

\* A command that makes one part of the device.
Make(p, next) ==
    \/ request.dry /\ Go(next) /\ UNCHANGED disk
    \/ ~request.dry /\ Go(next) /\ disk' = [disk EXCEPT ![p] = "done"]
    \/ ~request.dry /\ Faults /\ Fail /\ disk' \in {disk, [disk EXCEPT ![p] = "part"]}

WriteGpt ==
    /\ at = "table"
    /\ Begin("gpt", "")
    /\ Make("table", "uboot")
    /\ UNCHANGED <<given, todo, current, copied, system>>

InstallUboot ==
    /\ at = "uboot"
    /\ Begin("write", "uboot")
    /\ Write("uboot", "menu")
    /\ UNCHANGED <<given, todo, current, system>>

\* Mutant: the bar's step is begun before the logical unit is looked for.
InstallImageEager(image, next) ==
    /\ at = image
    /\ IF image \in Selected THEN Begin("write", image) /\ Write(image, next)
                             ELSE Go(next) /\ UNCHANGED <<begun, disk, copied>>
    /\ UNCHANGED <<given, todo, current, system>>

\* install_boot_menu, install_recovery: a step only if there is an image for it
\* and somewhere to put it.
InstallImage(image, next) ==
    /\ at = image
    /\ IF image \in Writes THEN Begin("write", image) /\ Write(image, next)
                           ELSE Go(next) /\ UNCHANGED <<begun, disk, copied>>
    /\ UNCHANGED <<given, todo, current, system>>
InstallBootMenu == InstallImage("menu", "recovery")
InstallRecovery == InstallImage("recovery", "mkfs")

MakeFilesystem ==
    /\ at = "mkfs"
    /\ Begin("mkfs", "")
    /\ Make("filesystem", "mount")
    /\ UNCHANGED <<given, todo, current, copied, system>>

Mount ==
    /\ at = "mount"
    /\ Exec("skeleton")
    /\ mounts' = IF request.dry \/ at' = "idle" THEN mounts ELSE mounts \cup {"target"}
    /\ UNCHANGED <<given, todo, current, copied, begun, disk, claim, stuck>>

\* Mutant: the error is returned with the target mounted.
CreateSkeletonOnly ==
    /\ at = "skeleton"
    /\ Exec("stock")
    /\ UNCHANGED <<given, todo, current, copied, begun, disk, system>>

\* A failure of create_skeleton unmounts what make_filesystem has mounted; what
\* that unmount returns is only logged.
CreateSkeleton ==
    /\ at = "skeleton"
    /\ Exec("stock")
    /\ IF at' = "stock" THEN UNCHANGED system ELSE Umount({"target"})
    /\ UNCHANGED <<given, todo, current, copied, begun, disk>>

\* The inner block of run: the directory of the stock snapshots, the /home seed,
StockDirectory ==
    /\ at = "stock"
    /\ Exec("home")
    /\ todo' = Profiles \cap Selected
    /\ UNCHANGED <<given, current, copied, begun, disk, system>>

ReceiveHome ==
    /\ at = "home"
    /\ IF "home" \in Selected THEN Begin("write", "home") /\ Write("home", "reseed")
                              ELSE Go("next") /\ UNCHANGED <<begun, disk, copied>>
    /\ UNCHANGED <<given, todo, current, system>>

Reseed ==
    /\ at = "reseed"
    /\ Make("home", "next")
    /\ UNCHANGED <<given, todo, current, copied, begun, system>>

\* ... Minimal and then each extra profile, if the manifest has a pack for it,
NextProfile(p) ==
    /\ at = "next" /\ p \in todo
    /\ "Minimal" \in todo => p = "Minimal"
    /\ todo' = todo \ {p}
    /\ current' = p
    /\ IF p \in request.lacks THEN Fail /\ UNCHANGED begun
                               ELSE Go("receive") /\ Begin("write", p)
    /\ UNCHANGED <<given, copied, disk, system>>

ReceivePack ==
    /\ at = "receive"
    /\ Write(current, "snapshot")
    /\ UNCHANGED <<given, todo, current, begun, system>>

Snapshot ==
    /\ at = "snapshot"
    /\ Begin("snapshot", current)
    /\ Exec("kernel")
    /\ UNCHANGED <<given, todo, current, copied, disk, system>>

\* The mounts of a profile's root and of what is mounted below it.
MountProfile(next) ==
    \E more \in {{}, {"api"}} :
        mounts' = mounts \cup {"profile"} \cup more /\ Go(next) /\ UNCHANGED <<claim, stuck>>

InstallKernel ==
    /\ at = "kernel"
    /\ Begin("kernel", current)
    /\ \/ request.dry /\ Go("next") /\ UNCHANGED system
       \/ ~request.dry /\ MountProfile("script")
       \/ ~request.dry /\ Faults /\ Fail /\ UNCHANGED system
    /\ UNCHANGED <<given, todo, current, copied, disk>>

\* Always unmounted; an error of either is the step's.
KernelScript ==
    /\ at = "script"
    /\ Umount({"profile", "api"})
    /\ \E ran \in (IF Faults THEN BOOLEAN ELSE {TRUE}) :
          IF ran /\ Unmounted({"profile", "api"})
            THEN Go("next") /\ disk' = [disk EXCEPT ![current] = "done"]
            ELSE Fail /\ UNCHANGED disk
    /\ UNCHANGED <<given, todo, current, copied, begun>>

\* ... and the metadata partition, of which every error is a warning.
WriteMetadata ==
    /\ at = "next" /\ todo = {}
    /\ Begin("metadata", "")
    /\ \/ (request.dry \/ Faults) /\ Go("unmount") /\ UNCHANGED system
       \/ ~request.dry /\ MountProfile("record")
    /\ UNCHANGED <<given, todo, current, copied, disk>>

RecordMetadata ==
    /\ at = "record"
    /\ Umount({"profile", "api"})
    /\ disk' \in {[disk EXCEPT !["metadata"] = "done"]} \cup
                 (IF Faults THEN {disk, [disk EXCEPT !["metadata"] = "part"]} ELSE {})
    /\ Go("unmount")
    /\ UNCHANGED <<given, todo, current, copied, begun>>

\* Mutant: the error of the block is lost.
UnmountForgiving ==
    /\ at = "unmount"
    /\ Umount({"target"})
    /\ outcome' = IF Unmounted({"target"}) THEN "ok" ELSE "error"
    /\ at' = "idle"
    /\ UNCHANGED <<given, todo, current, copied, begun, disk>>

\* The target is always unmounted; the error of the block comes first.
Unmount ==
    /\ at = "unmount"
    /\ Umount({"target"})
    /\ outcome' = IF outcome # "error" /\ Unmounted({"target"}) THEN "ok" ELSE "error"
    /\ at' = "idle"
    /\ UNCHANGED <<given, todo, current, copied, begun, disk>>
-------------------------------------------------------------------------------
(* What happens around a run. *)

\* automount_ro of a Refresh: any filesystem of removable media that is not
\* mounted yet.
Automount ==
    /\ Removable
    /\ at = "idle" \/ Races
    /\ disk["filesystem"] \in {"old", "done"}
    /\ mounts \cap (Ours \cup {"media"}) = {}
    /\ mounts' = mounts \cup {"media"}
    /\ UNCHANGED <<given, at, outcome, todo, current, copied, begun, disk, claim, stuck>>

\* Somebody else begins or ceases to use the device.
ForeignUse ==
    /\ mounts' = IF "foreign" \in mounts THEN mounts \ {"foreign"} ELSE mounts \cup {"foreign"}
    /\ UNCHANGED <<given, at, outcome, todo, current, copied, begun, disk, claim, stuck>>

\* The last reference to a lazily detached mount goes away.
ClaimEnds ==
    /\ claim
    /\ claim' = FALSE
    /\ UNCHANGED <<given, at, outcome, todo, current, copied, begun, disk, mounts, stuck>>

\* The process is killed (or quit by the operator), or power is lost.
Killed ==
    /\ at # "idle"
    /\ at' = "idle" /\ outcome' = "none"
    /\ \/ UNCHANGED <<mounts, claim>>
       \/ mounts' = {} /\ claim' = FALSE
    /\ UNCHANGED <<given, todo, current, copied, begun, disk, stuck>>
-------------------------------------------------------------------------------
Run ==
    \/ ReleaseOwnMounts \/ UnmountMedia \/ GuardTarget \/ GuardFits \/ GuardSource
    \/ UnpackBundle \/ (\E a \in Artifacts : Stage(a)) \/ StageDone
    \/ Wipe \/ WriteGpt \/ InstallUboot \/ InstallBootMenu \/ InstallRecovery
    \/ MakeFilesystem \/ Mount \/ CreateSkeleton
    \/ StockDirectory \/ ReceiveHome \/ Reseed
    \/ (\E p \in Profiles : NextProfile(p)) \/ ReceivePack \/ Snapshot
    \/ InstallKernel \/ KernelScript \/ WriteMetadata \/ RecordMetadata \/ Unmount

Environment == Automount \/ ForeignUse \/ ClaimEnds \/ Killed

Next == Start \/ Run \/ Environment

Spec == Init /\ [][Next]_vars

\* A run's thread goes on: commands return, and reads time out.
FairSpec == Spec /\ WF_vars(Run)
-------------------------------------------------------------------------------
Steps == {"idle", "release", "media", "guard", "fits", "source", "unpack", "stage", "wipe",
          "table", "uboot", "menu", "recovery", "mkfs", "mount", "skeleton", "unmount"}
         \cup Deploying

TypeOK ==
    /\ device \in Targets
    /\ request \in Requests \cup {NoRequest}
    /\ at \in Steps
    /\ outcome \in {"none", "ok", "error"}
    /\ todo \subseteq Artifacts
    /\ current \in Profiles
    /\ staged \subseteq Artifacts /\ wrong \subseteq Artifacts /\ warned \subseteq Artifacts
    /\ begun \subseteq Budget
    /\ disk \in [Parts -> {"old", "none", "part", "received", "done"}]
    /\ mounts \subseteq Mountpoints
    /\ claim \in BOOLEAN /\ stuck \in BOOLEAN

(* With "verify first", when the device begins to be erased every artifact   *)
(* that is going to be written has been copied off its source and none       *)
(* differs from a published digest (stage.rs: "a truncated download or a     *)
(* corrupted pack cannot leave the operator with a wiped device and half an  *)
(* installation").                                                           *)
VerifiedBeforeErased ==
    Erased /\ request.verify =>
        Plan \subseteq staged /\ wrong \cap request.digests \cap staged = {}

(* A device is erased only when it can boot what is installed, and every     *)
(* image that goes to a place of its own has room there: both are known      *)
(* before the first destructive command, and guarded against (install.rs:371,*)
(* 845).                                                                     *)
ErasedOnlyIfInstallable ==
    Erased => BootRomCapable /\ Unfit = {}

(* A run that reports success has installed every part that was asked for,   *)
(* and has warned of each that is not, or may not be, what was published.    *)
DoneMeansInstalled ==
    outcome = "ok" /\ ~request.dry =>
        /\ \A a \in Writes \cup (Profiles \cap Selected) \cup {"table", "filesystem"} :
              disk[a] = "done"
        /\ wrong \subseteq warned
        /\ request.verify => wrong \cap request.digests = {}

(* However a run ends by itself, none of its mounts stays, unless an umount  *)
(* failed even as a lazy one ("a stranded mount keeps the target claimed and *)
(* breaks the next attempt").                                                *)
LeavesNothingMounted ==
    at = "idle" /\ outcome # "none" /\ ~request.dry /\ ~stuck => mounts \cap Ours = {}

(* A retry is not refused because of what an earlier run, failed or killed,  *)
(* has left mounted (comment of release_own_mounts), unless its own attempt  *)
(* to unmount that failed even lazily, which is only logged.                 *)
RetryNotRefused ==
    at = "guard" /\ ~request.dry /\ ~stuck => mounts \cap Ours = {}

(* A dry run changes nothing on the device and writes no scratch file.       *)
DryRunTouchesNothing ==
    request.dry => disk = Untouched /\ staged = {}

(* The progress bar reaches its end exactly when everything is done: the     *)
(* steps a run begins are those its total was added up from.                 *)
BarAddsUp ==
    outcome = "ok" => begun = Budget

(* Every run comes to an end, and the installer with it.                     *)
RunEnds == at # "idle" ~> at = "idle"
-------------------------------------------------------------------------------
(* What a comment promises and the code breaks.                              *)

(* install.rs:381 "Dropping them here also fails fast if the artifacts we    *)
(* are about to read live on the disk we are about to wipe".                 *)
NeverErasesItsSource ==
    Erased => Plan \cap request.onTarget = {}
===============================================================================
