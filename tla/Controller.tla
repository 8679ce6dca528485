------------------------------ MODULE Controller ------------------------------
(***************************************************************************)
(* The shared core (core/controller.rs, with the rules of core/model.rs    *)
(* and the shutdown of main.rs): one AppState behind a mutex, two          *)
(* frontends that call into it, and the worker threads those calls spawn.  *)
(*                                                                         *)
(* A thread is a job in a slot.  One step of a job is the code between two *)
(* accesses to the shared state, so that everything another thread may do  *)
(* in between can happen: a check made before a spawn and the phase set    *)
(* after it are two steps.  An operator's call is one step, up to the      *)
(* spawn with which it ends.                                               *)
(***************************************************************************)
EXTENDS Naturals

CONSTANTS
    Ufs,         \* UFS devices
    Others,      \* storage devices that are not UFS
    Preferred,   \* boot-capable and not removable: may be selected at startup
    None,        \* Option::None
    Frontends,   \* the frontends an operator uses, among "tui" and "gui"
    Configs,     \* the command lines considered
    Faults,      \* whether a device may fail to answer
    MaxJobs      \* bound: threads alive at a time

Devices == Ufs \cup Others
AnyConfig == [dry : BOOLEAN, check : BOOLEAN, reprovision : BOOLEAN]
Slots == 1 .. MaxJobs

ASSUME DevicesAssumption ==
    /\ Ufs \cap Others = {}
    /\ Preferred \subseteq Devices
    /\ None \notin Devices
    /\ Frontends \subseteq {"tui", "gui"}
    /\ Configs \subseteq AnyConfig
    /\ Faults \in BOOLEAN
    /\ MaxJobs \in Nat \ {0}

VARIABLES
    config,     \* Config: dry_run, ufs_check, ufs_reprovision
    phase,      \* AppState.phase
    devices,    \* AppState.devices
    target,     \* AppState.selection.target_device
    complete,   \* whether a u-boot and a build with Minimal are selected
    ufs,        \* AppState.ufs: which target it describes, and the verdict
    prompt,     \* AppState.prompt: the target it would reprovision
    jobs,       \* the threads
    seen,       \* what each frontend has on screen
    life,       \* running, closing (frontends told to exit), exited, rebooted
    layout,     \* the devices themselves: "blank", "foreign" or "scheme"
    picked,     \* history: devices the operator has chosen to work on
    raced       \* history: two destructive jobs existed at the same time

state == <<phase, devices, target, complete, ufs, prompt>>
vars == <<config, state, jobs, seen, life, layout, picked, raced>>
-------------------------------------------------------------------------------
Phases == {"Discovering", "Ready", "Provisioning", "Installing", "Done", "Failed"}
Busy == phase \in {"Discovering", "Provisioning", "Installing"}      \* is_busy

CanInstall == ~Busy /\ target # None /\ complete                     \* can_install
CanReboot == phase = "Done" /\ ~config.dry                           \* can_reboot

HasLus(d) == layout[d] # "blank"

\* provision::Target: a device, and the block node it had when it was resolved.
Target(d) == [dev |-> d, disk |-> HasLus(d)]

\* A job: what it does, where it is, the target and the offer it was given, what
\* it has read of the device, what the operator was shown, what is left to do.
Idle == [kind |-> "idle", at |-> "", dev |-> None, disk |-> FALSE,
         offer |-> FALSE, ok |-> FALSE, shown |-> None, todo |-> {}]
Job(kind, at) == [Idle EXCEPT !.kind = kind, !.at = at]
JobOn(kind, at, t) == [Job(kind, at) EXCEPT !.dev = t.dev, !.disk = t.disk]

Destructive(j) == j.kind \in {"reprovision", "install"}
Announced(j) == Destructive(j) /\ j.at # "announce"
Room == \E s \in Slots : jobs[s] = Idle
FreeSlot == CHOOSE s \in Slots : jobs[s] = Idle

\* thread::spawn, on top of a step that leaves the jobs as js.
SpawnOn(js, job) ==
    /\ Room
    /\ jobs' = [js EXCEPT ![FreeSlot] = job]
    /\ raced' = (raced \/ (Destructive(job) /\ \E s \in Slots : Destructive(js[s])))
Spawn(job) == SpawnOn(jobs, job)

Put(s, job) == jobs' = [jobs EXCEPT ![s] = job] /\ UNCHANGED raced
Goto(s, at) == Put(s, [jobs[s] EXCEPT !.at = at])
End(s) == Put(s, Idle)
-------------------------------------------------------------------------------
Init ==
    /\ config \in Configs
    /\ phase = "Discovering"
    /\ devices = {} /\ target = None /\ complete = FALSE
    /\ ufs = None /\ prompt = None
    /\ jobs = [s \in Slots |-> IF s = 1 THEN Job("discover", "announce") ELSE Idle]
    /\ seen = [f \in Frontends |-> [prompt |-> None, reboot |-> FALSE, busy |-> TRUE]]
    /\ life = "running"
    /\ layout \in {l \in [Devices -> {"blank", "foreign", "scheme"}] :
                      \A d \in Others : l[d] = "foreign"}
    /\ picked = {} /\ raced = FALSE

\* What storage::enumerate finds: a blank UFS device has no block node.
Visible == {d \in Devices : HasLus(d)}

\* The selection rule of discover: an eligible device, if there is one.
Eligible(ds) == IF ds \cap Preferred = {} THEN {None} ELSE ds \cap Preferred

At(s, kinds, at) == jobs[s].kind \in kinds /\ jobs[s].at = at
-------------------------------------------------------------------------------
(* discover and refresh_sources, on one thread at startup; refresh_sources   *)
(* alone on the thread of a Refresh.                                         *)

Discover(s) ==
    /\ At(s, {"discover"}, "announce")
    /\ phase' = "Discovering"
    /\ Goto(s, "enumerate")
    /\ UNCHANGED <<config, devices, target, complete, ufs, prompt, seen, life, layout, picked>>

Enumerate(s) ==
    /\ At(s, {"discover"}, "enumerate")
    /\ devices' = Visible
    /\ target' \in IF target = None THEN Eligible(Visible) ELSE {target}
    /\ Goto(s, "report")
    /\ UNCHANGED <<config, phase, complete, ufs, prompt, seen, life, layout, picked>>

\* Mutant: the device selected at startup is offered for reprovisioning.
ReportOffer(s) ==
    /\ At(s, {"discover"}, "report")
    /\ LET endpoints == IF config.check THEN Ufs ELSE {}
           next == [jobs[s] EXCEPT !.at = "blanks", !.todo = endpoints]
       IN  \/ /\ config.check /\ target \in Ufs \cap devices
              /\ SpawnOn([jobs EXCEPT ![s] = next],
                         [JobOn("probe", "read", Target(target)) EXCEPT !.offer = TRUE])
           \/ /\ config.check /\ target \in Ufs \cap devices => Faults
              /\ Put(s, next)
    /\ UNCHANGED <<config, state, seen, life, layout, picked>>

\* check_ufs_provisioning of the selected target, ReportOnly; resolving its BSG
\* node may fail.
Report(s) ==
    /\ At(s, {"discover"}, "report")
    /\ LET endpoints == IF config.check THEN Ufs ELSE {}
           next == [jobs[s] EXCEPT !.at = "blanks", !.todo = endpoints]
       IN  \/ /\ config.check /\ target \in Ufs \cap devices
              /\ SpawnOn([jobs EXCEPT ![s] = next], JobOn("probe", "read", Target(target)))
           \/ /\ config.check /\ target \in Ufs \cap devices => Faults
              /\ Put(s, next)
    /\ UNCHANGED <<config, state, seen, life, layout, picked>>

\* discover_blank_ufs: a probe, with the offer, for each device without LUs.
DiscoverBlank(s) ==
    /\ At(s, {"discover"}, "blanks")
    /\ \/ \E d \in jobs[s].todo :
             LET next == [jobs[s] EXCEPT !.todo = @ \ {d}]
             IN  IF HasLus(d)
                   THEN Put(s, next)
                   ELSE SpawnOn([jobs EXCEPT ![s] = next],
                                [JobOn("probe", "read", Target(d)) EXCEPT !.offer = TRUE])
       \/ jobs[s].todo = {} /\ Goto(s, "sources")
    /\ UNCHANGED <<config, state, seen, life, layout, picked>>

\* The catalogs are listed and a first build may be selected.
RefreshSources(s) ==
    /\ At(s, {"discover", "refresh"}, "sources")
    /\ complete' \in BOOLEAN
    /\ Goto(s, "settle")
    /\ UNCHANGED <<config, phase, devices, target, ufs, prompt, seen, life, layout, picked>>

\* Mutant: the phase is set whatever it is by now.
SettleSourcesAlways(s) ==
    /\ At(s, {"discover", "refresh"}, "settle")
    /\ phase' = "Ready"
    /\ End(s)
    /\ UNCHANGED <<config, devices, target, complete, ufs, prompt, seen, life, layout, picked>>

SettleSources(s) ==
    /\ At(s, {"discover", "refresh"}, "settle")
    /\ phase' = IF phase = "Discovering" THEN "Ready" ELSE phase
    /\ End(s)
    /\ UNCHANGED <<config, devices, target, complete, ufs, prompt, seen, life, layout, picked>>
-------------------------------------------------------------------------------
(* probe_ufs, on a thread of its own or at the end of a reprovisioning, and  *)
(* request_reprovision.                                                      *)

Probing == {"probe", "reprovision"}

\* Where a job goes when its probe is over.
Left(j) == IF j.kind = "reprovision" THEN [j EXCEPT !.at = "settle"] ELSE Idle
Leave(s) == Put(s, Left(jobs[s]))

\* The device is asked; a device that cannot be read is only logged.
ProbeRead(s) ==
    /\ At(s, Probing \cup {"request"}, "read")
    /\ \/ Put(s, [jobs[s] EXCEPT !.at = "publish", !.ok = (layout[jobs[s].dev] = "scheme")])
       \/ Faults /\ Leave(s)
    /\ UNCHANGED <<config, state, seen, life, layout, picked>>

\* Mutant: the verdict is filed under whatever is selected by now.
ProbePublishCurrent(s) ==
    LET j == jobs[s] IN
    /\ At(s, Probing, "publish")
    /\ ufs' = [dev |-> target, disk |-> j.disk, ok |-> j.ok]
    /\ prompt' = IF ~j.ok /\ j.offer THEN [dev |-> j.dev, disk |-> j.disk] ELSE prompt
    /\ IF ~j.ok /\ config.reprovision THEN Goto(s, "dismiss") ELSE Leave(s)
    /\ UNCHANGED <<config, phase, devices, target, complete, seen, life, layout, picked>>

\* The verdict is published, unless it is about a disk no longer selected.
ProbePublish(s) ==
    LET j == jobs[s] IN
    /\ At(s, Probing, "publish")
    /\ IF j.disk /\ target # j.dev
         THEN UNCHANGED <<ufs, prompt>>
         ELSE /\ ufs' = [dev |-> j.dev, disk |-> j.disk, ok |-> j.ok]
              /\ prompt' = IF ~j.ok /\ j.offer THEN [dev |-> j.dev, disk |-> j.disk]
                                              ELSE prompt
    /\ IF ~j.ok /\ config.reprovision THEN Goto(s, "dismiss") ELSE Leave(s)
    /\ UNCHANGED <<config, phase, devices, target, complete, seen, life, layout, picked>>

\* --reprovision-ufs: the question is not asked ...
ProbeDismiss(s) ==
    /\ At(s, Probing, "dismiss")
    /\ prompt' = None
    /\ Goto(s, "start")
    /\ UNCHANGED <<config, phase, devices, target, complete, ufs, seen, life, layout, picked>>

\* ... and start_reprovision is called, which refuses while the phase is busy.
ProbeStart(s) ==
    /\ At(s, Probing, "start")
    /\ IF Busy THEN Leave(s)
               ELSE SpawnOn([jobs EXCEPT ![s] = Left(jobs[s])],
                            [JobOn("reprovision", "announce", jobs[s])
                               EXCEPT !.shown = "flag"])
    /\ UNCHANGED <<config, state, seen, life, layout, picked>>

RequestPublish(s) ==
    LET j == jobs[s] IN
    /\ At(s, {"request"}, "publish")
    /\ ufs' = [dev |-> j.dev, disk |-> j.disk, ok |-> j.ok]
    /\ prompt' = IF j.ok THEN prompt ELSE [dev |-> j.dev, disk |-> j.disk]
    /\ End(s)
    /\ UNCHANGED <<config, phase, devices, target, complete, seen, life, layout, picked>>
-------------------------------------------------------------------------------
(* start_reprovision: provision::apply, rediscover_storage, a last probe.    *)

Reprovision(s) ==
    /\ At(s, {"reprovision"}, "announce")
    /\ phase' = "Provisioning"
    /\ Goto(s, "apply")
    /\ UNCHANGED <<config, devices, target, complete, ufs, prompt, seen, life, layout, picked>>

\* Mutant: the dry run is forgotten.
ApplyAnyway(s) ==
    /\ At(s, {"reprovision"}, "apply")
    /\ Goto(s, IF layout[jobs[s].dev] = "scheme" THEN "enumerate" ELSE "rewriting")
    /\ UNCHANGED <<config, state, seen, life, layout, picked>>

\* Nothing to do, a dry run, or the write goes ahead.
Apply(s) ==
    /\ At(s, {"reprovision"}, "apply")
    /\ Goto(s, IF layout[jobs[s].dev] = "scheme" \/ config.dry THEN "enumerate" ELSE "rewriting")
    /\ UNCHANGED <<config, state, seen, life, layout, picked>>

Rewrite(s) ==
    /\ At(s, {"reprovision"}, "rewriting")
    /\ layout' = [layout EXCEPT ![jobs[s].dev] = "scheme"]
    /\ Goto(s, "enumerate")
    /\ UNCHANGED <<config, state, seen, life, picked>>

\* Mutant: the error path leaves the phase.
ReprovisionFailsSilently(s) ==
    /\ Faults
    /\ jobs[s].kind = "reprovision" /\ jobs[s].at \in {"apply", "rewriting"}
    /\ layout' \in IF jobs[s].at = "apply" THEN {layout}
                    ELSE {layout, [layout EXCEPT ![jobs[s].dev] = "scheme"]}
    /\ End(s)
    /\ UNCHANGED <<config, phase, devices, target, complete, ufs, prompt, seen, life, picked>>

\* A device that is locked, in use or unreadable, or a step of the rewrite that
\* fails, before or after the device took the new configuration.
ReprovisionFails(s) ==
    /\ Faults
    /\ jobs[s].kind = "reprovision" /\ jobs[s].at \in {"apply", "rewriting"}
    /\ layout' \in IF jobs[s].at = "apply" THEN {layout}
                    ELSE {layout, [layout EXCEPT ![jobs[s].dev] = "scheme"]}
    /\ phase' = "Failed"
    /\ End(s)
    /\ UNCHANGED <<config, devices, target, complete, ufs, prompt, seen, life, picked>>

\* rediscover_storage lists the storage and decides whether the selection is
\* still there ...
Rediscover(s) ==
    /\ At(s, {"reprovision"}, "enumerate")
    /\ Put(s, [jobs[s] EXCEPT !.at = "adopt", !.todo = Visible, !.ok = (target \in Visible)])
    /\ UNCHANGED <<config, state, seen, life, layout, picked>>

\* ... and then replaces it or not.
Adopt(s) ==
    /\ At(s, {"reprovision"}, "adopt")
    /\ devices' = jobs[s].todo
    /\ target' \in IF jobs[s].ok THEN {target} ELSE Eligible(jobs[s].todo)
    /\ Put(s, [jobs[s] EXCEPT !.at = "read", !.disk = HasLus(jobs[s].dev), !.todo = {}])
    /\ UNCHANGED <<config, phase, complete, ufs, prompt, seen, life, layout, picked>>

Reprovisioned(s) ==
    /\ At(s, {"reprovision"}, "settle")
    /\ phase' = "Ready"
    /\ End(s)
    /\ UNCHANGED <<config, devices, target, complete, ufs, prompt, seen, life, layout, picked>>
-------------------------------------------------------------------------------
(* start_install: the phase is set, then install::run takes its own snapshot *)
(* (see module Install) and ends somehow.                                    *)

Install(s) ==
    /\ At(s, {"install"}, "announce")
    /\ phase' = "Installing"
    /\ Goto(s, "snapshot")
    /\ UNCHANGED <<config, devices, target, complete, ufs, prompt, seen, life, layout, picked>>

InstallRun(s) ==
    /\ At(s, {"install"}, "snapshot")
    /\ Put(s, [jobs[s] EXCEPT !.at = "running", !.dev = target,
                              !.ok = (target \in devices /\ complete)])
    /\ UNCHANGED <<config, state, seen, life, layout, picked>>

InstallEnds(s) ==
    /\ At(s, {"install"}, "running")
    /\ phase' \in IF jobs[s].ok THEN {"Done", "Failed"} ELSE {"Failed"}
    /\ End(s)
    /\ UNCHANGED <<config, devices, target, complete, ufs, prompt, seen, life, layout, picked>>
-------------------------------------------------------------------------------
(* The frontends. *)

\* A frontend draws the latest snapshot.  The TUI raises its dialog when a prompt
\* appears and drops it when there is none (sync_prompt); the GUI redraws it.
Render(f) ==
    /\ life = "running"
    /\ seen' = [seen EXCEPT ![f] =
          [prompt |-> IF f = "tui" /\ @.prompt # None /\ prompt # None THEN @.prompt ELSE prompt,
           reboot |-> CanReboot, busy |-> Busy]]
    /\ UNCHANGED <<config, state, jobs, life, layout, picked, raced>>

\* The rows of the menu are out of reach behind a modal prompt.
AtMenu(f) == life = "running" /\ seen[f].prompt = None

SelectDevice(f, d) ==
    /\ AtMenu(f)
    /\ d \in devices
    /\ target' = d
    /\ ufs' = None
    /\ picked' = picked \cup {d}
    /\ \/ /\ config.check /\ d \in Ufs
          /\ Spawn([JobOn("probe", "read", Target(d)) EXCEPT !.offer = TRUE])
       \/ UNCHANGED <<jobs, raced>>
    /\ UNCHANGED <<config, phase, devices, complete, prompt, seen, life, layout>>

\* Any other pick changes what is to be installed, by the time it has loaded.
SelectSources(f) ==
    /\ AtMenu(f)
    /\ complete' \in BOOLEAN
    /\ UNCHANGED <<config, phase, devices, target, ufs, prompt, jobs, seen, life, layout, picked, raced>>

\* The row "Reprovision UFS..." of the device menu, for the status it describes.
RequestReprovision(f) ==
    /\ AtMenu(f)
    /\ ufs # None
    /\ ufs.disk => ufs.dev = target
    /\ picked' = picked \cup {ufs.dev}
    /\ Spawn(JobOn("request", "read", ufs))
    /\ UNCHANGED <<config, state, seen, life, layout>>

\* confirm_prompt takes the prompt there is now; start_reprovision refuses while
\* the phase is busy.
ConfirmPrompt(f) ==
    /\ life = "running"
    /\ seen[f].prompt # None
    /\ prompt # None
    /\ prompt' = None
    /\ IF Busy THEN UNCHANGED <<jobs, raced>>
               ELSE Spawn([JobOn("reprovision", "announce", prompt)
                             EXCEPT !.shown = seen[f].prompt.dev])
    /\ UNCHANGED <<config, phase, devices, target, complete, ufs, seen, life, layout, picked>>

DismissPrompt(f) ==
    /\ life = "running"
    /\ seen[f].prompt # None
    /\ prompt' = None
    /\ UNCHANGED <<config, phase, devices, target, complete, ufs, jobs, seen, life, layout, picked, raced>>

\* Alt+I, the install row and the RUN key; the GUI's key reboots when it can.
StartInstall(f) ==
    /\ life = "running"
    /\ f = "gui" => ~seen[f].reboot
    /\ CanInstall
    /\ Spawn(Job("install", "announce"))
    /\ UNCHANGED <<config, state, seen, life, layout, picked>>

\* Mutant: a Refresh is taken whatever the phase is.
RefreshBusy(f) ==
    /\ life = "running"
    /\ Spawn(Job("refresh", "sources"))
    /\ UNCHANGED <<config, state, seen, life, layout, picked>>

\* The TUI asks for the phase; the GUI goes by the one it last drew.
Refresh(f) ==
    /\ life = "running"
    /\ IF f = "tui" THEN ~Busy ELSE ~seen[f].busy
    /\ Spawn(Job("refresh", "sources"))
    /\ UNCHANGED <<config, state, seen, life, layout, picked>>

\* The TUI asks the core whether it can reboot, the GUI goes by its last frame;
\* request_reboot itself asks nothing.
RequestReboot(f) ==
    /\ life = "running"
    /\ IF f = "tui" THEN CanReboot ELSE seen[f].reboot
    /\ life' = "closing"
    /\ UNCHANGED <<config, state, jobs, seen, layout, picked, raced>>

\* The frontends have returned: main reboots, unless power::reboot sees a dry run.
\* Nobody waits for the threads.
Shutdown ==
    /\ life = "closing"
    /\ life' = IF config.dry THEN "exited" ELSE "rebooted"
    /\ jobs' = [s \in Slots |-> Idle]
    /\ UNCHANGED <<config, state, seen, layout, picked, raced>>

\* The TUI can be quit; with the GUI beside it the process stays, without it ends.
Quit(f) ==
    /\ life = "running"
    /\ f = "tui" /\ "gui" \notin Frontends
    /\ life' = "exited"
    /\ jobs' = [s \in Slots |-> Idle]
    /\ UNCHANGED <<config, state, seen, layout, picked, raced>>
-------------------------------------------------------------------------------
Step(s) ==
    \/ Discover(s) \/ Enumerate(s) \/ Report(s) \/ DiscoverBlank(s)
    \/ RefreshSources(s) \/ SettleSources(s)
    \/ ProbeRead(s) \/ ProbePublish(s) \/ ProbeDismiss(s) \/ ProbeStart(s)
    \/ RequestPublish(s)
    \/ Reprovision(s) \/ Apply(s) \/ Rewrite(s) \/ ReprovisionFails(s)
    \/ Rediscover(s) \/ Adopt(s) \/ Reprovisioned(s)
    \/ Install(s) \/ InstallRun(s) \/ InstallEnds(s)

Operator(f) ==
    \/ \E d \in Devices : SelectDevice(f, d)
    \/ SelectSources(f) \/ RequestReprovision(f)
    \/ ConfirmPrompt(f) \/ DismissPrompt(f)
    \/ StartInstall(f) \/ Refresh(f) \/ RequestReboot(f) \/ Quit(f)

Next ==
    \/ \E s \in Slots : Step(s)
    \/ \E f \in Frontends : Render(f) \/ Operator(f)
    \/ Shutdown

Spec == Init /\ [][Next]_vars

\* A thread that can go on does: probes, the network and the install all return.
\* Strong fairness, because the bound on jobs may hold a spawn up now and then.
FairSpec == Spec /\ \A s \in Slots : SF_vars(Step(s))
-------------------------------------------------------------------------------
Targets == [dev : Devices, disk : BOOLEAN]

Kinds == {"idle", "discover", "refresh", "probe", "request", "reprovision", "install"}

Places == {"", "announce", "enumerate", "report", "blanks", "sources", "settle", "read",
           "publish", "dismiss", "start", "apply", "rewriting", "adopt", "snapshot", "running"}

JobRecords ==
    [kind : Kinds, at : Places, dev : Devices \cup {None}, disk : BOOLEAN, offer : BOOLEAN,
     ok : BOOLEAN, shown : Devices \cup {None, "flag"}, todo : SUBSET Devices]

\* A job that probes or rewrites is about a device.
Jobs == {j \in JobRecords : j.kind \in {"probe", "request", "reprovision"} => j.dev \in Devices}

TypeOK ==
    /\ config \in Configs
    /\ phase \in Phases
    /\ devices \subseteq Devices
    /\ target \in Devices \cup {None}
    /\ complete \in BOOLEAN
    /\ ufs \in [dev : Devices, disk : BOOLEAN, ok : BOOLEAN] \cup {None}
    /\ prompt \in Targets \cup {None}
    /\ jobs \in [Slots -> Jobs]
    /\ seen \in [Frontends -> [prompt : Targets \cup {None}, reboot : BOOLEAN, busy : BOOLEAN]]
    /\ life \in {"running", "closing", "exited", "rebooted"}
    /\ layout \in [Devices -> {"blank", "foreign", "scheme"}]
    /\ picked \subseteq Devices
    /\ raced \in BOOLEAN

(* As long as no two destructive jobs have coexisted, the phase every guard  *)
(* relies on (can_install, can_reboot, start_reprovision, Refresh) says      *)
(* which one is at work: no refresh, probe or discovery running beside it    *)
(* makes the installer look idle or finished, nor busy when nothing runs.    *)
PhaseTellsTheTruth ==
    ~raced /\ life \in {"running", "closing"} =>
        /\ phase = "Installing" <=>
              \E s \in Slots : jobs[s].kind = "install" /\ Announced(jobs[s])
        /\ phase = "Provisioning" <=>
              \E s \in Slots : jobs[s].kind = "reprovision" /\ Announced(jobs[s])

(* Why that holds: a destructive job is alone until the race happens, and    *)
(* until discovery has announced itself nothing else runs and nothing can be *)
(* asked of the installer.  Inductive with PhaseTellsTheTruth.               *)
Opening ==
    /\ phase = "Discovering" /\ devices = {} /\ ufs = None
    /\ \A f \in Frontends : seen[f].busy /\ seen[f].prompt = None
    /\ prompt = None

PhaseSound ==
    /\ ~raced => \A s, r \in Slots : Destructive(jobs[s]) /\ Destructive(jobs[r]) => s = r
    /\ \A s \in Slots : At(s, {"discover"}, "announce") =>
          Opening /\ \A r \in Slots \ {s} : jobs[r] = Idle

(* A device that holds logical units is only offered for reprovisioning once *)
(* the operator has chosen it (controller.rs, Offer: a target the installer  *)
(* picked at startup gets reported).                                         *)
OfferedOnlyIfChosen ==
    prompt # None /\ prompt.disk => prompt.dev \in picked

(* No interleaving of confirmations, flags and probes makes a dry run touch  *)
(* a device.                                                                 *)
DryRunTouchesNothing ==
    [][config.dry => layout' = layout]_vars

(* Whatever the threads do to each other's phase, the installer does not     *)
(* stay busy for ever.                                                       *)
StaysUsable ==
    (Busy /\ life = "running") ~> (~Busy \/ life # "running")
-------------------------------------------------------------------------------
(* What the comments and the documentation promise and the code breaks.      *)

(* controller.rs:1008 "Two simultaneous confirmations must not start two     *)
(* destructive operations"; and its log, "cannot reprovision while another   *)
(* operation is running".                                                    *)
OneDestructiveOperation ==
    \A s, r \in Slots :
        jobs[s].kind = "reprovision" /\ Announced(jobs[s]) /\ Announced(jobs[r]) => s = r

(* model.rs:740 "Carries the target it described, so confirming cannot act   *)
(* on a different device than the operator was shown".                       *)
ConfirmedWasShown ==
    \A s \in Slots : jobs[s].kind = "reprovision" => jobs[s].shown \in {jobs[s].dev, "flag"}

(* README.md: "`--reprovision-ufs` reprovisions a mismatched target without  *)
(* asking (for unattended and factory runs)".                                *)
UnattendedReprovisions ==
    \A d \in Ufs :
        (target = d /\ config.check /\ config.reprovision /\ ~config.dry)
            ~> layout[d] = "scheme"
===============================================================================
