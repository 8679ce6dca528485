---------------------------- MODULE BootLu_proofs ----------------------------
(***************************************************************************)
(* What BootLu guarantees for every set of images, every capacity of the   *)
(* boot logical units and any number of runs and crashes.                  *)
(***************************************************************************)
EXTENDS BootLu, TLAPS

USE DEF Sides, NotAnImage, Risks, NoPlan, InPlace

(* Type correctness. *)
LEMMA TypeInductive == TypeOK /\ [Next]_vars => TypeOK'
<1> SUFFICES ASSUME TypeOK, [Next]_vars PROVE TypeOK'
    OBVIOUS
<1> USE DEF TypeOK, Steps, Runs
<1>1. CASE Plan
    BY <1>1 DEF Plan, BootLuPlan, Present, Spare
<1>2. CASE GuardRefuses
    BY <1>2 DEF GuardRefuses
<1>3. CASE GuardPasses
    BY <1>3 DEF GuardPasses
<1>4. CASE BeginWrite
    BY <1>4 DEF BeginWrite
<1>5. CASE WriteTrusted
    BY <1>5 DEF WriteTrusted
<1>6. CASE WriteMismatch
    BY <1>6 DEF WriteMismatch
<1>7. CASE WriteAttr
    BY <1>7 DEF WriteAttr
<1>8. CASE ReadBack
    BY <1>8 DEF ReadBack
<1>9. CASE Finish
    BY <1>9 DEF Finish
<1>10. CASE Abort
    BY <1>10 DEF Abort
<1>11. CASE UNCHANGED vars
    BY <1>11 DEF vars
<1> QED
    BY <1>1, <1>2, <1>3, <1>4, <1>5, <1>6, <1>7, <1>8, <1>9, <1>10, <1>11 DEF Next

(* The state of the update is always of its type. *)
THEOREM TypeCorrect == Spec => []TypeOK
<1>1. Init => TypeOK
    BY DEF Init, TypeOK, Runs, Steps, Present
<1> QED
    BY <1>1, TypeInductive, PTL DEF Spec

-------------------------------------------------------------------------------
(* PlanSound is what run() knows once it has planned; see BootLu.            *)
LEMMA PlanSoundInductive == TypeOK /\ PlanSound /\ [Next]_vars => PlanSound'
<1> SUFFICES ASSUME TypeOK, PlanSound, [Next]_vars PROVE PlanSound'
    OBVIOUS
<1> USE DEF TypeOK, Steps, Runs, PlanSound
<1>1. CASE Plan
    BY <1>1 DEF Plan, BootLuPlan, Present, Spare
<1>2. CASE GuardRefuses
    BY <1>2 DEF GuardRefuses
<1>3. CASE GuardPasses
    BY <1>3 DEF GuardPasses
<1>4. CASE BeginWrite
    BY <1>4 DEF BeginWrite
<1>5. CASE WriteTrusted
    BY <1>5, VersionsAssumption DEF WriteTrusted
<1>6. CASE WriteMismatch
    BY <1>6 DEF WriteMismatch
<1>7. CASE WriteAttr
    BY <1>7 DEF WriteAttr
<1>8. CASE ReadBack
    BY <1>8 DEF ReadBack
<1>9. CASE Finish
    BY <1>9 DEF Finish
<1>10. CASE Abort
    BY <1>10 DEF Abort
<1>11. CASE UNCHANGED vars
    BY <1>11 DEF vars
<1> QED
    BY <1>1, <1>2, <1>3, <1>4, <1>5, <1>6, <1>7, <1>8, <1>9, <1>10, <1>11 DEF Next

(* What the run believes of the two sides is true of them until it ends. *)
THEOREM PlanStaysSound == Spec => [](TypeOK /\ PlanSound)
<1>1. Init => TypeOK /\ PlanSound
    BY DEF Init, TypeOK, PlanSound, Runs, Steps, Present
<1> QED
    BY <1>1, TypeInductive, PlanSoundInductive, PTL DEF Spec

(* An update that says it has switched leaves the requested image live. *)
THEOREM SwitchIsTrue == Spec => []SwitchedIsLive
<1>1. TypeOK /\ PlanSound => SwitchedIsLive
    BY DEF TypeOK, PlanSound, SwitchedIsLive, Live, Runs
<1> QED
    BY <1>1, PlanStaysSound, PTL

-------------------------------------------------------------------------------
(* How each step moves the image the boot ROM would load. *)
LEMMA LiveMoves ==
    ASSUME TypeOK, PlanSound, [Next]_vars
    PROVE  \/ Live' = Live
           \/ Live' = run.want /\ run' = run /\ risked' = risked
           \/ Live' \in Versions \cup {"dead"} /\ run' = run
              /\ risked \subseteq risked' /\ risked' # {} /\ risked' \subseteq Risks
<1> USE DEF TypeOK, Steps, Runs, PlanSound, Live
<1>1. CASE Plan
    BY <1>1 DEF Plan
<1>2. CASE GuardRefuses
    BY <1>2 DEF GuardRefuses
<1>3. CASE GuardPasses
    BY <1>3 DEF GuardPasses
<1>4. CASE BeginWrite
    BY <1>4, VersionsAssumption DEF BeginWrite
<1>5. CASE WriteTrusted
    BY <1>5, VersionsAssumption DEF WriteTrusted
<1>6. CASE WriteMismatch
    BY <1>6, VersionsAssumption DEF WriteMismatch
<1>7. CASE WriteAttr
    BY <1>7, VersionsAssumption DEF WriteAttr
<1>8. CASE ReadBack
    BY <1>8 DEF ReadBack
<1>9. CASE Finish
    BY <1>9 DEF Finish
<1>10. CASE Abort
    BY <1>10 DEF Abort
<1>11. CASE UNCHANGED vars
    BY <1>11 DEF vars
<1> QED
    BY <1>1, <1>2, <1>3, <1>4, <1>5, <1>6, <1>7, <1>8, <1>9, <1>10, <1>11 DEF Next

(* A crash at any point of any run leaves a bootable board bootable, unless  *)
(* that run had announced a risk.                                            *)
THEOREM BootloaderNeverLost == Spec => NeverLosesBootloader
<1>1. TypeOK /\ PlanSound /\ [Next]_vars
        => [Live # "dead" /\ risked' = {} => Live' # "dead"]_vars
    <2> SUFFICES ASSUME TypeOK, PlanSound, [Next]_vars,
                        Live # "dead", risked' = {}
                 PROVE  Live' # "dead"
        OBVIOUS
    <2>1. run.want \in Versions /\ "dead" \notin Versions
        BY DeadAssumption DEF TypeOK, Runs
    <2> QED
        BY <2>1, LiveMoves
<1> QED
    BY <1>1, PlanStaysSound, PTL DEF Spec, NeverLosesBootloader
-------------------------------------------------------------------------------
(* The image the boot ROM would load is an image or "dead". *)
LEMMA LiveType == TypeOK => Live \in Versions \cup {"dead"}
BY DEF TypeOK, Live

(* Every step of a run is a step of the promise, or invisible to it. *)
LEMMA StepKeepsPromise ==
    ASSUME TypeOK, PlanSound, [Next]_vars
    PROVE  [Promise!Next]_(Promise!pvars)
<1>1. CASE Plan
    <2>1. Live' = Live
        BY <1>1 DEF Plan, Live
    <2>2. run'.want \in Versions /\ risked' \in SUBSET Risks
        BY <1>1 DEF Plan, Runs
    <2> QED
        BY <2>1, <2>2 DEF Promise!Next, Promise!Request
<1>2. CASE ~Plan
    <2>1. run' = run
        BY <1>2 DEF Next, GuardRefuses, GuardPasses, BeginWrite, WriteTrusted,
                    WriteMismatch, WriteAttr, ReadBack, Finish, Abort, vars
    <2>2. CASE Live' = Live /\ risked' = risked
        BY <2>1, <2>2 DEF Promise!pvars
    <2>3. CASE Live' = Live /\ risked' # risked
        <3>1. WriteTrusted /\ risked' = risked \cup {"unverified"}
            BY <1>2, <2>3 DEF Next, GuardRefuses, GuardPasses, BeginWrite, WriteTrusted,
                    WriteMismatch, WriteAttr, ReadBack, Finish, Abort, vars
        <3>2. risked' \in (SUBSET Risks) \ {{}} /\ risked \subseteq risked'
            BY <3>1 DEF TypeOK
        <3> QED
            BY <2>1, <2>3, <3>2, LiveType DEF Promise!Next, Promise!Gamble
    <2>4. CASE Live' = run.want /\ risked' = risked
        BY <2>1, <2>4 DEF Promise!Next, Promise!Commit
    <2>5. CASE Live' \in Versions \cup {"dead"} /\ risked \subseteq risked'
                 /\ risked' # {} /\ risked' \subseteq Risks
        BY <2>1, <2>5 DEF Promise!Next, Promise!Gamble
    <2> QED
        BY <2>2, <2>3, <2>4, <2>5, LiveMoves
<1> QED
    BY <1>1, <1>2

(* Both sides, the plan and the attribute, over any number of interrupted    *)
(* runs, implement one image that is replaced atomically.                    *)
THEOREM PromiseKept == Spec => KeepsPromise
<1>1. Init => Promise!Init
    BY LiveType DEF Init, Promise!Init, Runs, Live
<1>2. TypeOK /\ PlanSound /\ [Next]_vars => [Promise!Next]_(Promise!pvars)
    BY StepKeepsPromise
<1> QED
    BY <1>1, <1>2, PlanStaysSound, PTL DEF Spec, KeepsPromise, Promise!Spec
===============================================================================
