-------------------------------- MODULE BootLu --------------------------------
(***************************************************************************)
(* The fail-safe bootloader update of a UFS target (core/install.rs:       *)
(* ufs_boot_lu_plan, guard_ufs_boot_lu, install_uboot, activate_boot_lu).  *)
(*                                                                         *)
(* A device has up to two boot logical units, A and B; the attribute       *)
(* bBootLunEn says which one the boot ROM reads.  A run writes the image   *)
(* to the side that is not read and moves the attribute only after the     *)
(* digest of what it wrote was accepted.  Every run may die between any    *)
(* two steps (power cut, process killed, failure of another step of the    *)
(* pipeline) and be followed by another one: what survives is `boot' and   *)
(* `active'.                                                               *)
(***************************************************************************)
EXTENDS Integers

CONSTANTS
    Versions,      \* complete U-Boot images
    ImageSize,     \* ImageSize[v]: bytes of image v
    LuSize,        \* LuSize[s]: capacity of boot LU s
    LoaderStart    \* LOADER_START: offset the image is written at

Sides == {"A", "B"}
NotAnImage == {"torn", "wrong", "blank", "absent"}

ASSUME VersionsAssumption == Versions # {} /\ Versions \cap NotAnImage = {}
ASSUME DeadAssumption == "dead" \notin Versions
ASSUME SizesAssumption ==
    /\ ImageSize \in [Versions -> Nat \ {0}]
    /\ LuSize \in [Sides -> Nat]
    /\ LoaderStart \in Nat

VARIABLES
    boot,     \* boot[s]: what boot LU s holds; "absent" when there is no such LU
    active,   \* bBootLunEn: the side the boot ROM reads, "none" when disabled
    step,     \* how far the current run's update has come
    plan,     \* the BootLuPlan of the run
    run,      \* the run's inputs: image, policy on a mismatch, what is published
    risked    \* the risks the current run's log has announced

vars == <<boot, active, step, plan, run, risked>>
-------------------------------------------------------------------------------
Risks == {"in-place", "unverified"}
NoPlan == [id |-> "none", active |-> "none"]

Runs == [want   : Versions,
         policy : {"fail", "warn"},    \* OnMismatch
         digest : BOOLEAN,             \* the manifest publishes a sha256
         sized  : BOOLEAN]             \* image and LU size are both known

Steps == {"idle", "planned", "guarded", "writing", "trusted", "readback",
          "switched", "finished"}

Present(s) == s \in Sides /\ boot[s] # "absent"

\* spare_boot_lu: the side to write, given the side the boot ROM reads.
Spare(s) == IF s = "A" THEN "B" ELSE "A"

\* Mutant: an attribute that cannot be read is passed on as it is.
BootLuPlanUnread(readable) ==
    LET cur == IF readable THEN active ELSE "A"
    IN  IF readable /\ Present(Spare(cur))
          THEN [id |-> Spare(cur), active |-> cur]
          ELSE IF Present(cur)
                 THEN [id |-> cur, active |-> IF readable THEN cur ELSE "unread"] ELSE NoPlan

\* Mutant: nobody looks whether the spare side exists.
BootLuPlanUnchecked(readable) ==
    LET cur == IF readable THEN active ELSE "A"
    IN  IF readable THEN [id |-> Spare(cur), active |-> cur]
          ELSE IF Present(cur) THEN [id |-> cur, active |-> cur] ELSE NoPlan

\* ufs_boot_lu_plan: the spare side if it exists, else the active one; side A
\* in place when the attribute cannot be read.
BootLuPlan(readable) ==
    LET cur == IF readable THEN active ELSE "A"
    IN  IF readable /\ Present(Spare(cur))
          THEN [id |-> Spare(cur), active |-> cur]
          ELSE IF Present(cur) THEN [id |-> cur, active |-> cur] ELSE NoPlan

InPlace == plan.id = plan.active
Fits == LoaderStart + ImageSize[run.want] <= LuSize[plan.id]

\* What the boot ROM would load.
Live == IF active \in Sides /\ boot[active] \in Versions
          THEN boot[active] ELSE "dead"
-------------------------------------------------------------------------------
\* A device as a run may find it: from the factory, or after earlier installs.
Init ==
    /\ boot \in [Sides -> Versions \cup {"blank", "absent"}]
    /\ active = "none" \/ Present(active)
    /\ step = "idle"
    /\ plan = NoPlan
    /\ run \in Runs
    /\ risked = {}

\* run() decides once which side it will write; replacing an image in place is
\* announced at this point.  The image to install is the operator's choice.
Plan ==
    /\ step = "idle"
    /\ run' \in Runs
    /\ \E readable \in BOOLEAN : plan' = BootLuPlan(readable)
    /\ risked' = IF plan' # NoPlan /\ plan'.id = plan'.active
                   THEN {"in-place"} ELSE {}
    /\ step' = "planned"
    /\ UNCHANGED <<boot, active>>

\* guard_ufs_boot_lu: no boot LU, or one known to be too small, is refused.
GuardRefuses ==
    /\ step = "planned"
    /\ plan # NoPlan => run.sized /\ ~Fits
    /\ step' = "idle"
    /\ plan' = NoPlan
    /\ UNCHANGED <<boot, active, run, risked>>

GuardPasses ==
    /\ step = "planned"
    /\ plan # NoPlan
    /\ run.sized => Fits
    /\ step' = "guarded"
    /\ UNCHANGED <<boot, active, plan, run, risked>>

\* Mutant: the attribute is moved first.
BeginWriteSwitchFirst ==
    /\ step = "guarded"
    /\ boot' = [boot EXCEPT ![plan.id] = "torn"]
    /\ active' = plan.id
    /\ step' = "writing"
    /\ UNCHANGED <<plan, run, risked>>

\* install_uboot starts copying: from here the side holds part of an image.
BeginWrite ==
    /\ step = "guarded"
    /\ boot' = [boot EXCEPT ![plan.id] = "torn"]
    /\ step' = "writing"
    /\ UNCHANGED <<active, plan, run, risked>>

\* write_source_to_offset returns true: the digest matched, or none is published
\* and the log says that the bytes are unverified.
WriteTrusted ==
    /\ step = "writing"
    /\ Fits
    /\ \E image \in IF run.digest THEN {run.want} ELSE {run.want, "wrong"} :
          boot' = [boot EXCEPT ![plan.id] = image]
    /\ risked' = IF run.digest THEN risked ELSE risked \cup {"unverified"}
    /\ step' = IF InPlace THEN "finished" ELSE "trusted"
    /\ UNCHANGED <<active, plan, run>>

\* Mutant: what the write returns is not looked at.
WriteMismatchTrusted ==
    /\ step = "writing"
    /\ run.digest
    /\ boot' = [boot EXCEPT ![plan.id] = "wrong"]
    /\ step' = IF run.policy = "fail" THEN "idle" ELSE IF InPlace THEN "finished" ELSE "trusted"
    /\ plan' = IF run.policy = "fail" THEN NoPlan ELSE plan
    /\ UNCHANGED <<active, run, risked>>

\* The digest does not match: an error when verifying, a warning when streaming,
\* and in neither case a reason to switch.
WriteMismatch ==
    /\ step = "writing"
    /\ run.digest
    /\ boot' = [boot EXCEPT ![plan.id] = "wrong"]
    /\ step' = IF run.policy = "fail" THEN "idle" ELSE "finished"
    /\ plan' = IF run.policy = "fail" THEN NoPlan ELSE plan
    /\ UNCHANGED <<active, run, risked>>

\* activate_boot_lu: the attribute write may fail, with or without effect, and
\* may also be acknowledged without effect.
WriteAttr ==
    /\ step = "trusted"
    /\ active' \in {active, plan.id}
    /\ \/ step' = "readback" /\ UNCHANGED plan
       \/ step' = "idle" /\ plan' = NoPlan
    /\ UNCHANGED <<boot, run, risked>>

\* Mutant: the acknowledgement is enough.
ReadBackSkipped ==
    /\ step = "readback"
    /\ step' = "switched"
    /\ UNCHANGED <<boot, active, plan, run, risked>>

\* ... which is why it is read back before the run says it has switched.
ReadBack ==
    /\ step = "readback"
    /\ active = plan.id
    /\ step' = "switched"
    /\ UNCHANGED <<boot, active, plan, run, risked>>

\* The update returned Ok and the rest of the pipeline ended.
Finish ==
    /\ step \in {"switched", "finished"}
    /\ step' = "idle"
    /\ plan' = NoPlan
    /\ UNCHANGED <<boot, active, run, risked>>

\* Any error in between (a write that fails half way, a read-back that differs,
\* another step of the pipeline), or the loss of the process or of power.
Abort ==
    /\ step # "idle"
    /\ step' = "idle"
    /\ plan' = NoPlan
    /\ UNCHANGED <<boot, active, run, risked>>

Next ==
    \/ Plan \/ GuardRefuses \/ GuardPasses
    \/ BeginWrite \/ WriteTrusted \/ WriteMismatch
    \/ WriteAttr \/ ReadBack \/ Finish \/ Abort

Spec == Init /\ [][Next]_vars
-------------------------------------------------------------------------------
TypeOK ==
    /\ boot \in [Sides -> Versions \cup NotAnImage]
    /\ active \in Sides \cup {"none"}
    /\ step \in Steps
    /\ plan \in [id : Sides, active : Sides \cup {"none"}] \cup {NoPlan}
    /\ run \in Runs
    /\ risked \in SUBSET Risks

(* What a run knows of the two sides from the plan on, and what makes the    *)
(* switch safe: a plan names a side that exists; unless it is in place, that *)
(* side is not the one the boot ROM reads until the attribute has moved; and *)
(* the attribute moves only onto the requested image.  Inductive with TypeOK.*)
PlanSound ==
    /\ plan # NoPlan => boot[plan.id] # "absent"
    /\ plan # NoPlan /\ InPlace => "in-place" \in risked
    /\ step \in Steps \ {"idle", "planned"} => plan # NoPlan
    /\ step \in {"planned", "guarded", "writing", "trusted"} /\ plan # NoPlan /\ ~InPlace
          => active = plan.active
    /\ step = "switched" => active = plan.id
    /\ step \in {"trusted", "readback", "switched"} =>
          /\ ~InPlace
          /\ boot[plan.id] = run.want \/ "unverified" \in risked

(* No step of any sequence of runs, crashes included, takes a loadable image *)
(* away from the boot ROM, unless a run announced that it was replacing the  *)
(* image in place or could not verify what it wrote (install.rs, comment of  *)
(* install_uboot: an interrupted or corrupted update leaves the board        *)
(* booting the bootloader it booted before).                                 *)
NeverLosesBootloader ==
    [][Live # "dead" /\ risked' = {} => Live' # "dead"]_vars

(* When the update reports that it switched, the board will boot exactly the *)
(* version the run was asked to install.                                     *)
SwitchedIsLive ==
    step = "switched" /\ "unverified" \notin risked => Live = run.want

Promise == INSTANCE BootPromise
             WITH live <- Live, want <- run.want, Dead <- "dead"

(* The boot logical units, the plan and the attribute together behave like   *)
(* one image replaced atomically.                                            *)
KeepsPromise == Promise!Spec
===============================================================================
