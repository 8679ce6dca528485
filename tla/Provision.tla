------------------------------- MODULE Provision -------------------------------
(***************************************************************************)
(* Bringing one UFS device to the provisioning scheme                      *)
(* (core/provision.rs: probe, compare, apply; core/ufs.rs:                 *)
(* apply_configuration), from the question put to the operator to the      *)
(* verdict, and the attempts that follow one that failed, was killed or    *)
(* lost its power.                                                         *)
(*                                                                         *)
(* The device is external.  What it is written takes effect when it next   *)
(* initialises, and only once Configuration Descriptor 0 has arrived; the  *)
(* other descriptors, of LU 8 and up, are then marked "more to come".      *)
(* Initialising on a new configuration loses what the device holds.        *)
(* Whether a descriptor reads back as written or as in force is a          *)
(* parameter: the code takes it for the one in force (provision.rs:1321).  *)
(*                                                                         *)
(* A Configuration Descriptor is how far it is from the scheme: the same,  *)
(* "close" in what compare does not hold critical, "other", or "blank".    *)
(***************************************************************************)
EXTENDS Naturals

CONSTANTS
    Indexes,      \* of the descriptors of LU 8 and up: a part of 1..3
    ReadsPending, \* a descriptor reads back as written before it is in force
    MaxFaults     \* bound on failed steps and reads, kills, power cuts, others' use

ASSUME ProvisionAssumption ==
    /\ Indexes \subseteq 1..3 /\ ReadsPending \in BOOLEAN /\ MaxFaults \in Nat

Shapes == {"scheme", "close", "other", "blank"}
BootLus == {"A", "B"}
Layouts == [main : Shapes, above : SUBSET Indexes]

VARIABLES
    dry, locked,  \* cfg.dry_run; bConfigDescrLock
    written,      \* the configuration as last written ...
    inForce,      \* ... and as the device is divided
    arrived,      \* descriptor 0 has arrived since the device initialised
    initing,      \* fDeviceInit
    attr,         \* bBootLunEn
    data,         \* what the device held at first: "none", "kept" or "lost"
    view,         \* the layout the kernel knows, NoLus while it knows none
    used,         \* somebody has the main logical unit mounted
    at,           \* the step the attempt is at, "idle" when there is none
    disk,         \* Target.disk: the main logical unit had a node
    read,         \* what the last probe reported, and ...
    missed,       \* ... the descriptors with logical units that it skipped
    told,         \* what the prompt says happens to the data
    consent,      \* the prompts agreed to so far, "unseen" for one that missed some
    todo,         \* descriptors of LU 8 and up still to clear
    outcome,      \* of the last attempt, until the next question
    faults

given == <<dry, locked>>
device == <<written, inForce, arrived, initing, attr, data>>
kernel == <<view, used>>
attempt == <<disk, read, missed, told, consent, todo>>
vars == <<given, device, kernel, at, attempt, outcome, faults>>
-------------------------------------------------------------------------------
NoLus == [main |-> "blank", above |-> {}]
HasNode == view # NoLus

\* What there is to read, and what probe makes of it: a descriptor of LU 8 and up that
\* cannot be read or parsed is skipped, as if it held no logical unit.
Reported ==
    LET layout == IF ReadsPending THEN written ELSE inForce
    IN [main |-> layout.main, above |-> layout.above, attr |-> attr]
Seen(skipped) == [Reported EXCEPT !.above = @ \ skipped]
Probes == [main : Shapes, above : SUBSET Indexes, attr : BootLus \cup {"none"}]
NoProbe == [main |-> "blank", above |-> {}, attr |-> "none"]

NeedsDescriptorWrite(r) == r.main \notin {"scheme", "close"} \/ r.above # {}
IsProvisioned(r) == ~NeedsDescriptorWrite(r) /\ r.attr \in BootLus

\* What prompt_lines says of the data; blank is a device whose descriptor 0 is.
Announced(r) ==
    IF r.main = "blank" THEN "creates"
    ELSE IF NeedsDescriptorWrite(r) THEN "erases" ELSE "keeps"

Move(step) == at' = step /\ UNCHANGED outcome
Finish(result) == at' = "idle" /\ outcome' = result
Goto(step) == Move(step) /\ UNCHANGED faults
End(result) == Finish(result) /\ UNCHANGED faults
Fault == faults < MaxFaults /\ faults' = faults + 1
Fails == Fault /\ Finish("failed")

\* The device is probed and these descriptors are skipped, which takes a fault.
Probed(skipped) ==
    /\ skipped \subseteq Reported.above
    /\ IF skipped = {} THEN UNCHANGED faults ELSE Fault
    /\ read' = Seen(skipped) /\ missed' = skipped

\* A device as it comes, divided by its maker or not at all.
Init ==
    /\ dry \in BOOLEAN /\ locked \in BOOLEAN
    /\ inForce \in Layouts /\ written = inForce /\ arrived = FALSE /\ initing = FALSE
    /\ attr \in BootLus \cup {"none"}
    /\ data = IF inForce = NoLus THEN "none" ELSE "kept"
    /\ view = inForce /\ used = FALSE
    /\ at = "idle" /\ disk = FALSE /\ read = NoProbe /\ missed = {}
    /\ told = "none" /\ consent = {}
    /\ todo = {} /\ outcome = "none" /\ faults = 0
-------------------------------------------------------------------------------
(* The question. *)

\* Mutant: a device without a disk is not asked about.
AskByDisk ==
    /\ at = "idle"
    /\ \E skipped \in SUBSET Indexes : Probed(skipped)
    /\ disk' = HasNode /\ todo' = {} /\ outcome' = "none"
    /\ IF IsProvisioned(read') \/ ~HasNode THEN told' = "none" /\ at' = "idle"
       ELSE told' = Announced(read') /\ at' = "asked"
    /\ UNCHANGED <<given, device, kernel, consent>>

\* request_reprovision: there is no question about a device that matches.
Ask ==
    /\ at = "idle"
    /\ \E skipped \in SUBSET Indexes : Probed(skipped)
    /\ disk' = HasNode /\ todo' = {} /\ outcome' = "none"
    /\ IF IsProvisioned(read') THEN told' = "none" /\ at' = "idle"
       ELSE told' = Announced(read') /\ at' = "asked"
    /\ UNCHANGED <<given, device, kernel, consent>>

Dismiss ==
    /\ at = "asked"
    /\ told' = "none" /\ Goto("idle")
    /\ UNCHANGED <<given, device, kernel, disk, read, missed, consent, todo>>

Confirm ==
    /\ at = "asked"
    /\ consent' = consent \cup {told} \cup {"unseen" : index \in missed}
    /\ Goto("probe")
    /\ UNCHANGED <<given, device, kernel, disk, read, missed, told, todo>>
-------------------------------------------------------------------------------
(* apply. *)

\* It probes again, and has nothing to do, or is refused on a locked device.
Probe ==
    /\ at = "probe"
    /\ \E skipped \in SUBSET Indexes : Probed(skipped)
    /\ IF IsProvisioned(read') THEN Finish("unneeded")
       ELSE IF locked /\ NeedsDescriptorWrite(read') THEN Finish("refused")
       ELSE Move("guard")
    /\ UNCHANGED <<given, device, kernel, disk, told, consent, todo>>

\* Mutant: whatever differs is put right by writing everything.
GuardRewrites ==
    /\ at = "guard"
    /\ IF disk /\ used THEN End("refused") /\ UNCHANGED todo
       ELSE IF dry THEN End("dry") /\ UNCHANGED todo
       ELSE todo' = read.above /\ Goto("write")
    /\ UNCHANGED <<given, device, kernel, disk, read, missed, told, consent>>

\* Mutant: the dry run stops at the descriptors.
GuardDryWrites ==
    /\ at = "guard"
    /\ IF disk /\ used THEN End("refused") /\ UNCHANGED todo
       ELSE IF dry /\ NeedsDescriptorWrite(read) THEN End("dry") /\ UNCHANGED todo
       ELSE /\ todo' = read.above
            /\ Goto(IF NeedsDescriptorWrite(read) THEN "write" ELSE "attr")
    /\ UNCHANGED <<given, device, kernel, disk, read, missed, told, consent>>

\* Mutant: every descriptor of LU 8 and up is cleared, in use or not.
GuardClearsAll ==
    /\ at = "guard"
    /\ IF disk /\ used THEN End("refused") /\ UNCHANGED todo
       ELSE IF dry THEN End("dry") /\ UNCHANGED todo
       ELSE /\ todo' = Indexes
            /\ Goto(IF NeedsDescriptorWrite(read) THEN "write" ELSE "attr")
    /\ UNCHANGED <<given, device, kernel, disk, read, missed, told, consent>>

\* device_in_use asks about the node the target was resolved with, if it had one.
Guard ==
    /\ at = "guard"
    /\ IF disk /\ used THEN End("refused") /\ UNCHANGED todo
       ELSE IF dry THEN End("dry") /\ UNCHANGED todo
       ELSE /\ todo' = read.above
            /\ Goto(IF NeedsDescriptorWrite(read) THEN "write" ELSE "attr")
    /\ UNCHANGED <<given, device, kernel, disk, read, missed, told, consent>>

\* A write the device turns down, or takes although its answer is an error.
ClearAbove ==
    /\ at = "write" /\ todo # {}
    /\ LET index == CHOOSE i \in todo : \A j \in todo : i <= j
           cleared == [written EXCEPT !.above = @ \ {index}]
       IN \/ todo' = todo \ {index} /\ written' = cleared /\ Goto("write")
          \/ UNCHANGED todo /\ written' \in {written, cleared} /\ Fails
    /\ UNCHANGED <<given, inForce, arrived, initing, attr, data, kernel,
                   disk, read, missed, told, consent>>

WriteDescriptor ==
    /\ at = "write" /\ todo = {}
    /\ \/ written' = [written EXCEPT !.main = "scheme"] /\ arrived' = TRUE /\ Goto("attr")
       \/ /\ \/ UNCHANGED <<written, arrived>>
             \/ written' = [written EXCEPT !.main = "scheme"] /\ arrived' = TRUE
          /\ Fails
    /\ UNCHANGED <<given, inForce, initing, attr, data, kernel, attempt>>

\* The device may acknowledge the attribute without taking it.
WriteAttr ==
    /\ at = "attr"
    /\ \/ attr' = "A" /\ Goto("init")
       \/ UNCHANGED attr /\ Fault /\ at' = "init" /\ UNCHANGED outcome
       \/ attr' \in {attr, "A"} /\ Fails
    /\ UNCHANGED <<given, written, inForce, arrived, initing, data, kernel, attempt>>
-------------------------------------------------------------------------------
(* apply_configuration. *)

SetDeviceInit ==
    /\ at = "init"
    /\ \/ initing' = TRUE /\ Goto("poll")
       \/ initing' \in {initing, TRUE} /\ Fails
    /\ UNCHANGED <<given, written, inForce, arrived, attr, data, kernel, attempt>>

\* The device digests the configuration and clears the flag.
Reconfigure ==
    /\ inForce' = IF arrived THEN written ELSE inForce
    /\ data' = IF arrived /\ data = "kept" THEN "lost" ELSE data
    /\ arrived' = FALSE /\ initing' = FALSE

Initialise ==
    /\ initing
    /\ Reconfigure
    /\ UNCHANGED <<given, written, attr, kernel, at, attempt, outcome, faults>>

\* Mutant: the flag is set, and not waited for.
PollNot ==
    /\ at = "poll"
    /\ Goto("drop")
    /\ UNCHANGED <<given, device, kernel, attempt>>

\* Until the flag is clear, for a bounded time; reading it may fail.
Poll ==
    /\ at = "poll"
    /\ \/ ~initing /\ Goto("drop")
       \/ Fails
    /\ UNCHANGED <<given, device, kernel, attempt>>

\* rescan_logical_units: every data logical unit is dropped, used or not, ...
DropLus ==
    /\ at = "drop"
    /\ view' = NoLus /\ Goto("scan")
    /\ UNCHANGED <<given, device, used, attempt>>

\* ... and what there is now is found, unless the scan cannot be started.
Scan ==
    /\ at = "scan"
    /\ \/ view' = inForce /\ Goto("wait")
       \/ UNCHANGED view /\ Fails
    /\ UNCHANGED <<given, device, used, attempt>>

\* The node that was known before comes back, or has been renamed; without one
\* before, any node will do.
WaitForNode ==
    /\ at = "wait"
    /\ \/ HasNode /\ Goto("verify")
       \/ ~HasNode /\ End("failed")
       \/ disk /\ Fails
    /\ UNCHANGED <<given, device, kernel, attempt>>

Verify ==
    /\ at = "verify"
    /\ \E skipped \in SUBSET Indexes : Probed(skipped)
    /\ Finish(IF IsProvisioned(read') THEN "complete" ELSE "failed")
    /\ UNCHANGED <<given, device, kernel, disk, told, consent, todo>>
-------------------------------------------------------------------------------
(* The rest of the world. *)

\* Any other read of a probe fails it; the process is killed at any step.
ProbeFails ==
    /\ at \in {"probe", "verify"} /\ Fails
    /\ UNCHANGED <<given, device, kernel, attempt>>

Killed ==
    /\ at # "idle" /\ Fault
    /\ at' = "idle" /\ outcome' = "none"
    /\ UNCHANGED <<given, device, kernel, attempt>>

\* Power comes back: an initialisation as any other.  Of descriptors that were
\* marked "more to come" the device remembers all or nothing.
PowerCycle ==
    /\ Fault
    /\ Reconfigure
    /\ written' \in {written, inForce'}
    /\ view' = inForce' /\ used' = FALSE
    /\ at' = "idle" /\ outcome' = "none"
    /\ UNCHANGED <<given, attr, attempt>>

\* Something mounts the main logical unit, or lets go of it.
Use ==
    /\ HasNode /\ ~used /\ Fault
    /\ used' = TRUE
    /\ UNCHANGED <<given, device, view, at, attempt, outcome>>

Release ==
    /\ used /\ used' = FALSE
    /\ UNCHANGED <<given, device, view, at, attempt, outcome, faults>>
-------------------------------------------------------------------------------
Attempt ==
    \/ Probe \/ ProbeFails \/ Guard \/ ClearAbove \/ WriteDescriptor \/ WriteAttr
    \/ SetDeviceInit \/ Poll \/ DropLus \/ Scan \/ WaitForNode \/ Verify

Next ==
    \/ Ask \/ Dismiss \/ Confirm \/ Attempt
    \/ Initialise \/ Killed \/ PowerCycle \/ Use \/ Release

Spec == Init /\ [][Next]_vars

\* A step that can be taken is; the device ends its initialisation; nobody keeps
\* the device for ever; and the operator tries again, agreeing now and then.
FairSpec ==
    /\ Spec
    /\ WF_vars(Attempt) /\ WF_vars(Initialise) /\ WF_vars(Release)
    /\ WF_vars(Ask) /\ SF_vars(Confirm)
-------------------------------------------------------------------------------
Steps == {"idle", "asked", "probe", "guard", "write", "attr", "init", "poll", "drop",
          "scan", "wait", "verify"}

\* The types of the state.  A descriptor of LU 8 and up is only ever cleared of what
\* the last probe found there.
TypeOK ==
    /\ dry \in BOOLEAN /\ locked \in BOOLEAN
    /\ written \in Layouts /\ inForce \in Layouts
    /\ arrived \in BOOLEAN /\ initing \in BOOLEAN
    /\ attr \in BootLus \cup {"none"} /\ data \in {"none", "kept", "lost"}
    /\ view \in Layouts /\ used \in BOOLEAN
    /\ at \in Steps /\ disk \in BOOLEAN /\ read \in Probes /\ missed \subseteq Indexes
    /\ told \in {"none", "creates", "erases", "keeps"}
    /\ consent \subseteq {"creates", "erases", "keeps", "unseen"}
    /\ todo \subseteq read.above
    /\ outcome \in {"none", "unneeded", "refused", "dry", "failed", "complete"}
    /\ faults \in 0..MaxFaults

\* When provisioning is reported complete the device is divided as the scheme says,
\* boots from one of its boot LUs, and the kernel has the new logical units, so
\* that an install may follow without a reboot (provision.rs:1339-1362); but for
\* logical units above 7 in a descriptor that the last probe skipped (1203-1209):
\* they are still there, and it is reported complete all the same.
CompleteMeansProvisioned ==
    outcome = "complete" =>
        /\ IsProvisioned([main |-> inForce.main, above |-> inForce.above \ missed,
                          attr |-> attr])
        /\ view = inForce

\* The data on a device is lost only to an operator who has agreed to a prompt
\* that could tell: whatever has failed before, one that announced a switch of the
\* boot LU, with `No data is erased' (provision.rs:784), erases none, unless the
\* probe it was made from skipped a descriptor with logical units; nor does one that
\* creates logical units, unless there were some above 7 all along and descriptor 0
\* had none (is_blank, provision.rs:674).
ErasedOnlyAsAnnounced ==
    data = "lost" => consent \cap {"erases", "creates", "unseen"} # {}

\* A dry run goes through the question, the probe and the guard and changes
\* nothing on the device, nor its logical units (provision.rs:1280-1297).
DryRunTouchesNothing == [][dry => UNCHANGED <<written, inForce, initing, attr, view>>]_vars

\* However an attempt ends, half-written descriptors and dropped logical units
\* included, the device is not beyond repair: attempts that are repeated bring it
\* to the scheme (provision.rs:1240-1363).
CanBeFinished ==
    ~dry /\ ~locked
    ~> IsProvisioned([main |-> inForce.main, above |-> inForce.above, attr |-> attr])
===============================================================================
