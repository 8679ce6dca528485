# A verification development of flipperos-installer

The installer rewrites the storage a board boots from. It does so from worker
threads, steered by two frontends at once, over networks and removable media
that fail, on boards whose power is cut. This directory holds TLA+ models of
that program, the TLC configurations that check them on small instances, and
proofs, checked by TLAPS, of what holds for every value of their constants.

Every definition is translated from the Rust source; `PROJECT.json` gives, for
each, the file and the lines. Paths below are relative to the repository.

## 1. The system

| Component | State it keeps | Operations | What is hard | What makes it correct |
|---|---|---|---|---|
| Shared core, `src/core/controller.rs`, `src/core/model.rs` | one `AppState` behind a mutex: phase, devices, selection, UFS status, prompt, catalogs, log; a set of loads in flight; subscribers and exit hooks | discover, refresh, probe, request and confirm a reprovisioning, select, install, request a reboot; lazy loads | every call runs on the caller's thread and most spawn another; checks and the updates that follow are separate critical sections; two operators | the phase says what is at work; destructive work only where it was agreed to; the installer never stays busy |
| Installation pipeline, `src/core/install.rs` | what it has made of the device; mounts; staged files; the bar | guards, staging, wipe, GPT, boot images, filesystem, packs, kernels, metadata, unmounting | every command may fail, the process may be killed anywhere, retries meet what the last run left | nothing erased that cannot be installed; success means installed; no mounts left |
| Bootloader update, `src/core/install.rs` 1165-1470 | boot logical units A and B, `bBootLunEn` | choose a side, write, verify, switch, read back | power cuts between any two steps, attribute writes that are acknowledged and not done | the board boots what it booted before, or the new image |
| Staging, `src/core/stage.rs`, `archive.rs` | scratch directory | plan, unpack, fetch and verify each artifact, clean up | truncated or corrupted downloads, room, artifacts on the target, leftovers of earlier runs | verified before erased; what was verified is what is read; only copies are removed |
| Selection, `src/core/bundle.rs`, `catalog.rs`, `model.rs` | - (read off manifests) | board directory, images and packs of a bundle or of hand-picked builds, plan | the same directory derived in three places, optional files, files listed under other names | the board's own bootloader, menu and recovery image, and the profiles that were chosen |
| Removable media, `src/core/removable.rs` | our read-only mounts | `automount_ro`, `unmount_ours` | run from a Refresh while an installation runs | never in the way of an installation, never its source |
| UFS provisioning, `src/core/provision.rs`, `src/core/ufs.rs` | configuration descriptor, logical units | compare, plan, apply | arithmetic of capacities; partial failure between descriptors, attribute and re-initialisation | the device reads back as the scheme |
| Fetching, `src/core/fetch.rs` | position and resumes of a download | read, resume, digest | dropped connections | the bytes in order, once each |
| Sources, `src/core/controller.rs` 339-759 and 1088-1155 with `bundle.rs`, `catalog.rs`, `archive.rs` | listings with the state of their load, the catalog and what of it has been read, the resolved bundle, picks and profiles | Refresh, lazy loads, resolve, pick, toggle | several threads read the same thing, answers come late and in any order, a Refresh replaces what others still work on | background work never moves a pick, every listing settles, what is selected comes to be read, and what is resolved is what is selected |
| Frontends, `src/tui`, `src/gui`, `src/core/menu.rs` | what is on screen | draw, navigate, call the core | act on what they drew a while ago | an operator gets what was shown |
| `main.rs`, `power.rs` | - | start frontends, wait, reboot | threads are not joined | no reboot under a running install, none in a dry run |

The frontends call the core's methods; the core answers by broadcasting a
snapshot of its state to each of them. Worker threads change the state through
`update`, which locks, mutates, unlocks and broadcasts. The pipeline runs on
such a thread, reads the state once, at its beginning, and from then on talks to
devices, to the mount table and to the log.

## 2. The modules

### `BootPromise` and `BootLu`: the bootloader of a UFS target

`BootLu` has the two boot logical units (`boot`), the attribute (`active`) and
one run after another (`Plan`, `GuardRefuses`/`GuardPasses`, `BeginWrite`,
`WriteTrusted`/`WriteMismatch`, `WriteAttr`, `ReadBack`, `Finish`). `Abort` may
follow every step: it is an error of the same or another step, a killed process
or a power cut, and the next `Plan` finds `boot` and `active` as they were left.
A logical unit holds a version, a torn image, wrong bytes, nothing, or does not
exist; sizes are numbers, and sizes the code cannot learn (`run.sized`) let the
guard pass. `risked` is what the log of this run has said: that it replaces the
image in place, or that no digest is published. That is what excuses a loss, and
nothing else does.

`BootPromise` is what a user wants to know: one image, replaced by the requested
one in one step, lost only in a run that announced the risk. `KeepsPromise` says
that `BootLu` implements it, mapping the image to what the boot ROM would load.

### `Controller`: the core, its threads and its operators

A thread is a job in one of `MaxJobs` slots. One action is the code between two
accesses to the shared state, so `start_install` is three steps (the check and
the spawn, `Install`, `InstallRun`), a probe is up to four, and everything
another thread may do in between is a behaviour. `Render` is a frontend taking a
snapshot; what an operator may do depends on what that frontend has on screen
(`seen`): a modal prompt hides the menu, the GUI's RUN key is "reboot" or
"install" by its last frame, the TUI asks the core at the press. The TUI keeps
the dialog that is up while a prompt is replaced by another (`sync_prompt`).

A provisioning target is a device together with the block node it had when it
was resolved (`disk`): a blank UFS device has none, which is why its status is
published whatever is selected. `layout` is the truth about the devices.
`complete` stands for the sources (a U-Boot and a build with Minimal): the
catalogs and the menu picks may make it either. The installation itself is one
step that ends in `Done` or `Failed`; module `Install` is about what it does.
`picked` and `raced` are history.

### `Install`: one device, one run after another

`run()` and everything it calls, one action per function (per half where the
function mounts in one half and unmounts in the other), for requests that vary
in what is selected, what the manifest lacks, which digests are published, what
does not fit, and what lies on the target itself. `Fail` is the `?` of the code:
inside the inner block (`Deploying`) it leads to `Unmount`, anywhere else out of
`run`. `Umount` is `umount_recursive` with its lazy second attempt, which takes
the mount off the table and may leave the device claimed (`claim`) for a while.
`Killed` ends the process anywhere, with the mounts left or, after a power cut,
gone. Around the run, a Refresh of the core may mount removable media
(`Automount`), and somebody else may mount the device (`ForeignUse`).

The state of the device is one value per part: `old` (not touched by this run),
`none` (discarded), `part`, `received`, `done`. `begun` is the set of steps the
progress bar has begun and `Budget` what its total was added up from. The boot
LU side is left to `BootLu`; here the bootloader is one more artifact.

### `Sources`: what may be installed, and what is chosen

A thread is the sequence of calls it has left to make (`jobs[w].calls`), so
`refresh_sources` is `RefreshCalls` and a pick spawns one call. A call that
reads something is two steps with anything in between: it looks at the state
and begins to read (`BeginListing`, `LookUpBundle`, `LookUpBuild`), and what it
has read, or that it cannot be read, is filed later (`...Arrives`, `...Fails`),
with no check that it is still wanted, as in the code. `inflight` is the set
`ensure_loaded` uses against asking twice, which a Refresh clears first;
`loaded` are the builds of the catalog whose manifest is there, which a Refresh
empties with the records it replaces. `failed` is the bundle the error on show is
about. The operator's picks, toggles, Refresh and the loads that opening a level or seeing a row asks for are actions of their
own. A build is a model value that is an image (U-Boot, boot menu and recovery
builds, which share the code's `load` of an image) or a rootfs.

### `Provision`: one UFS device and the scheme

`Ask` is the probe of `request_reprovision` with what the prompt will say about
the data (`told`), `Confirm` adds to what the operator has agreed to
(`consent`), and from there `apply` goes step by step: probe again, the lock,
use of the device and the dry run (`Guard`), clearing of the descriptors of LU 8
and up one at a time, descriptor 0, `bBootLunEn`, `fDeviceInit` and its poll,
the rescan (drop, scan, wait for the node) and the verifying probe. Every step
may fail, also after the device has taken the write; the process may be killed
and the power cut between any two; the next `Ask` meets what there is.

The device is external: `written` is what it was last told, `inForce` how it is
divided, and the first becomes the second when it initialises after descriptor 0
`arrived`. `view` is the layout the kernel knows, and `disk` whether the main
logical unit had a node when the target was resolved, which decides whether
anybody asks if it is in use. A device comes in any layout, also one with logical
units above the seventh and a blank descriptor 0. A configuration is only as precise as `compare`
distinguishes: the scheme, "close" (differences that are not critical), other,
blank.

A probe fails when it cannot read descriptor 0, the geometry or the attribute, and
that is `ProbeFails`. A descriptor of LU 8 and up that it cannot read or parse it
skips, and reports the device without the logical units in it
(`provision.rs:1203`): `Probed(skipped)` is such a probe, which takes a fault, and
`missed` is what the last one skipped. All three probes may, that of the question
(then `consent` holds "unseen"), that of `apply`, and the one that verifies.

### `ProvisionPlan` and `Provisioning`: the scheme in numbers

`ProvisionPlan` is the arithmetic: `Valid` is `Scheme::validate`, `Plan` and
`Fits` are `plan` with `plan_writebooster` (the descriptor it makes, and when it
returns an error instead), `Compare` is `compare` as the set of differences it
lists, each with its severity, and `Prompt` what `prompt_lines` says of them.
Sectors, allocation units and segments are integers with the code's rounding;
the u32 limit on the units of a logical unit is `MaxUnits`.

`Provisioning` puts it under `Provision`: a device with a geometry, a scheme
file, the plan they lead to and a descriptor for each of Provision's shapes,
given by its fields: "close" is a descriptor that divides the device as the plan
does, "other" one that divides it otherwise and is not blank. So the classes
`Provision` goes by are tied to what `Compare` says of real descriptors in every
state of an attempt (`ComparedByClass`). Most combinations of device and scheme only start on a
provisioned device; one of them (`Followed`) goes through whole attempts.

### `Selection`, `Fetch`, `Stage`, `StagedSelection`: from a pick to a verified copy

`Selection` has no state: from a manifest (a sequence of paths with digest and
size) it computes what `resolve`, `load_profiles` and the readers of image
builds compute, then `Selected`, the guards at the beginning of `run`
(`CanStart`) and `plan`. Names of packs are parsed by a function that is a
constant (`Packs`). Packs are read per directory, of several the last listed;
`Wanted` is what has a place in a plan, `Plan` what is there of it.

`Fetch` is one stream: a body that is delivered block by block, breaks off, is
resumed with a range and ends. A block is a content and a position, so that
repetition, gaps and a mixture of two contents show. The server may drop the
connection at any block, frame its answer or not, refuse a range and hold
another file by then.

`Stage` runs that reader over the artifacts of a job: the archive is unpacked,
space is asked for, each artifact opened, copied and checked, the copies handed
to the install and removed when it ends (`Dispose`, which is `Drop` for
`Staged`). What lies at the place of a copy is overwritten by it and removed with
it, whoever put it there: `Writes` is these places, and every other file a run
leaves alone. Others take and free room, a run may fail at every step or be killed
and leave its copies, and the next one meets them. `Install` of this module is
everything module `Install` does after `StageDone`.

`StagedSelection` joins them: every job is the plan of a request (`JobOf`), made
from manifests that are well-formed and whose digests are of files that are what
their paths say (`Manifest`, `Truthful`). `Stage` asks of a plan that no two
artifacts have one name or location and none is read from where another is put
(`Listing`); that every plan of `Selection` is one is proved (`PlanIsListing`).

### How they compose

`Controller` decides when an installation runs and on what; `Install` is what
its `InstallRun`/`InstallEnds` abstract, `BootLu` what `Install`'s
`InstallUboot` abstracts; `Provision` is what happens inside the controller's
reprovisioning job (its `layout` is whether `Provision` would find the scheme),
`Sources` is behind the controller's `complete`, and `StagedSelection` is what
happens inside `Install`'s `UnpackBundle` and `Stage`. They share no state: the
controller's action sees the outcome only, and the pipeline's action sees the
bootloader as written or not. `Install.Automount` is the one thing the core does
to a run from outside.

## 3. What is checked

| Run | Instance | Properties |
|---|---|---|
| `BootLu` | two images, one too big for side B once the loader's start is added; every initial content of both sides and every attribute | `TypeOK`, `PlanSound`, `SwitchedIsLive`, `NeverLosesBootloader`, `KeepsPromise` |
| `Controller` | a UFS device and a card, the TUI, all eight command lines, two threads, faults | `TypeOK`, `PhaseTellsTheTruth`, `PhaseSound`, `OfferedOnlyIfChosen`, `DryRunTouchesNothing` |
| `ControllerLive` | a UFS device, one frontend, faults | `StaysUsable` |
| `Install` | UFS with and without a recovery LU, a card, a stick, which no board boots from, and a card that is one filesystem without a partition table; smallest and largest selection; dry or not, verifying or streaming; one peculiarity at a time | `TypeOK`, `VerifiedBeforeErased`, `ErasedOnlyIfInstallable`, `DoneMeansInstalled`, `LeavesNothingMounted`, `RetryNotRefused`, `DryRunTouchesNothing`, `BarAddsUp`, `RunEnds` |
| `Sources` | two bundles in one channel, one image, one rootfs build, an extra profile, two threads; the server up or down, part of it unreadable, offering the same bundles throughout | `TypeOK`, `KeepsPicks`, `ListingSettles`, `BundleResolves`, `SelectedIsLoaded` |
| `Provision` | some fifty geometries with and without a WriteBooster, 17 scheme files, valid or not; for the built-in scheme every layout of a device with descriptors above the first, locked or not, dry or not, with faults, skipped descriptors among them | `TypeOK`, `CompleteMeansProvisioned`, `ErasedOnlyAsAnnounced`, `DryRunTouchesNothing`, `CanBeFinished`, `PlanFits`, `SizesKept`, `ReadsBack`, `ComparedByClass` |
| `Stage` | nine selections of which three cannot start: builds on the server with and without digests, builds on a medium for a board the server does not offer with packs that lie in the scratch directory, a bundle for two boards, a bundle in an archive, dry; a file of the operator's that has the name of an image and lies where copies go; two resumes, one kill, two blocks taken by others | `DeliversInOrder`, `InstallsTheSelection`, `InstallsWhatWasVerified`, `RemovesOnlyItsOwn`, `KeepsHeadroom`, `StagingEnds` |

Five runs show where a comment, the README or a log line of the repository says
something that the code does not do (`"findings"` in `PROJECT.json` quotes each):

| Run | Property | What happens |
|---|---|---|
| `ControllerTwoOps` | `OneDestructiveOperation` | The phase is tested before the spawn and set after it, so two confirmations can both pass |
| `ControllerShown` | `ConfirmedWasShown` | A prompt that replaces another is confirmed through the older one's dialog |
| `ControllerUnattended` | `UnattendedReprovisions` | `--reprovision-ufs` meets a busy phase at startup and is refused for good |
| `InstallSource` | `NeverErasesItsSource` | The medium is the target, and our mount of it, which is there when the run starts (`OwnMediaSpec`), is taken down first: the guard against erasing the source, which looks at the mounts, sees nothing |
| `SourcesStale` | `BundleIsSelected` | A bundle read for an earlier pick, or for the automatic one, is filed as the selected one |

What each property says stands above it in its module, with the code it is
about. Each was also seen to fail when the code it depends on is broken in a
plausible way: the operators marked *Mutant* precede the definitions they
replace.

### Bounds, and why they are enough

* Two images and two sides: a run only ever distinguishes "the requested
  version", "another complete image" and "not an image". Runs follow one another
  without limit.
* `MaxJobs` bounds threads *alive at a time*, not how many there are; two
  suffice for every pairwise race, three let a race happen beside a third job.
  A step that would spawn waits for a slot, which the code does not; that only
  removes behaviours.
* The device sets: one UFS device and one other cover every rule, as the core
  treats devices one by one; `ControllerShown` needs two UFS devices.
* `Peculiar` requests differ from an ordinary one in one respect, because each
  respect is consulted by one guard or one step; the ordinary ones take all
  combinations of dry/real, verify/stream and smallest/largest selection.
* `Sources`: the races are between two threads and two answers to one question,
  so two workers, two bundles and one build of each kind have them all; an
  operation that would spawn waits for a free worker, and which one it gets makes
  no difference. The bucket keeps the bundles it has. `load_bundle` returns
  without a word when the selected bundle is not listed, and a Refresh asks for a
  bundle only when none is selected: so one that leaves the list before it is looked
  up, and comes back later, is not read until it is asked for again. `BundleResolves` says so in its
  premise, that the bundle stays listed while it is selected. `Unreliable` contains a listing, a bundle and
  an image, so that each kind of read both fails and succeeds.
* `Provision`: `Indexes = {1, 2}` lets an attempt stop between two descriptors;
  `MaxFaults = 3` lets three attempts in a row be spoilt. `ReadsPending = FALSE`
  is what the code takes for granted when it re-reads a rejected descriptor as
  "the configuration descriptor still in effect" (`provision.rs:1321`). With
  `TRUE`, `CanBeFinished` and `CompleteMeansProvisioned` do not hold: after a
  failure between the write and `fDeviceInit` the next probe reads the scheme
  back and has nothing to do. What a given device does is not in the repository,
  so this is a hazard and not a finding.
* One extra profile: the loop over profiles treats each alike, in the order of
  Minimal first.
* `ProvisionPlan`: devices of some 64 MiB and schemes of a few MiB, because TLC's
  integers have 32 bits; every scheme file differs from the built-in one in one
  respect, and raw capacity, segment size, factor, ceiling, supported memory types
  and WriteBooster limits take the values on both sides of each comparison in
  `plan`. `MaxUnits` is lowered with them. What does not depend on the size is
  proved for every device.
* `Stage`: Minimal is two blocks and everything else one, so a body can break off
  before, between and after blocks; two resumes (four in the code) show the
  budget used up and not; two artifacts that both may change on the server would
  add nothing to one; one kill lets every leftover meet every later run, and the
  run that keeps its copies lets every later run meet them too. `Room` is such
  that the largest run fits and does not when others have taken theirs. The
  request with an archive has a board the bundle ships nothing for; the one
  with everything has a profile without an incremental pack and a pack that is
  listed elsewhere.
* Nothing is bounded in `Install` and `BootLu` otherwise: they are finite.
* `CHECK_DEADLOCK FALSE` is set for `Controller` only, where the installer may
  be quit or have rebooted.

### Fairness

`ControllerLive` and `ControllerUnattended` assume strong fairness of each
thread (`SF_vars(Step(s))`): a thread is scheduled again and again by the
operating system; probes are ioctls that return, downloads have a read timeout,
and `install::run` ends (that is `RunEnds`). It is strong only because the bound
on slots can disable a spawning step for a while. Operators owe the installer
nothing. `Sources` assumes weak fairness of each worker, whose requests have
timeouts. `Provision` assumes weak fairness of the attempt's own steps (its polls
have deadlines), of the device's initialisation and of whoever holds the device
letting go, and an operator who asks again and does not decline for ever (strong
fairness of `Confirm`); faults are not fair, and there is a bound on them.
`Install` and `Stage` assume weak fairness of the run's own thread, whose reads
have timeouts; neither the kernel dropping a detached mount nor the server, the
operator or anybody else is fair.

## 4. What is proved

The seven proof modules hold for every value of the constants that satisfies the
named assumptions of the modules:

* `BootLu`: versions are not values that stand for broken images, sizes are
  natural numbers;
* `Controller`: the device sets are disjoint, `None` is not a device, there is
  at least one slot for a thread;
* `Install`: the names of the extra profiles are not those of an image or of
  another part of the device; targets and requests are of their types;
* `Sources`: `None` is neither a bundle nor a build, no build is both image and
  rootfs, listings and catalogs hold what is of their kind;
* `Provision`: descriptors are numbered from 1 to 3;
* `ProvisionPlan` and `Provisioning`: the least target is a whole number of
  sectors; geometries are what `parse` lets through, factors and ceilings are
  given for every memory type; sizes in scheme files are numbers, and of the
  WriteBooster "max", a number or something else; the built-in scheme is valid.
  Descriptors a device may hold have block sizes below 2^32 bytes and no units in
  a logical unit that is off; a "close" one divides the device as the plan does in
  every logical unit that is on, an "other" one does not and is not blank. Nothing
  is said of what `Compare` makes of them: that is what is proved;
* `Selection` and `StagedSelection`: a profile has one place in the order of
  profiles, every pack of a profile has one there, and no image has the name of a
  pack; manifests are sequences of files with names and sizes, a published digest
  is of a file that is what its path says, and no content is empty. A job is the
  plan of a request that may start;
* `Stage`: artifacts of a plan differ in location and in file name, and none is
  read from where another is copied to (proved of every plan by `PlanIsListing`);
  sizes, the estimate and the room are numbers; the operator has finitely many
  files, wherever they lie.

| Theorem | Module | Statement | Argument |
|---|---|---|---|
| `TypeCorrect` | `BootLu_proofs` | `Spec => []TypeOK` | inductive as it stands |
| `PlanStaysSound` | `BootLu_proofs` | `Spec => [](TypeOK /\ PlanSound)` | `PlanSound` is the invariant the others need: a plan names a side that exists; unless it announced "in place", that side is not the active one until the attribute has moved; the switch follows accepted bytes only |
| `SwitchIsTrue` | `BootLu_proofs` | `Spec => []SwitchedIsLive` | from `PlanSound` at a state |
| `BootloaderNeverLost` | `BootLu_proofs` | `Spec => NeverLosesBootloader` | from `PlanSound`, action by action: a write cannot hit the active side unannounced, a switch cannot move to anything but an image |
| `PromiseKept` | `BootLu_proofs` | `Spec => KeepsPromise` | each action maps to `Request`, `Commit`, `Gamble` or a stutter of `BootPromise` |
| `TypeCorrect` | `Controller_proofs` | `Spec => []TypeOK` | action by action, with lemmas on what `Spawn`, `Put`, `Goto` and `End` do to the slots |
| `PhaseIsTrue` | `Controller_proofs` | `Spec => [](PhaseSound /\ PhaseTellsTheTruth)` | `PhaseTellsTheTruth` alone is not inductive: it needs that destructive jobs are alone until the history says otherwise, and that while discovery has not announced itself nothing else can run, because every frontend still shows "busy" and no device, status or prompt exists (`Opening`) |
| `PhaseIsSound` | `Controller_proofs` | `Spec => []PhaseSound` | part of the above |
| `OfferIsChosen` | `Controller_proofs` | `Spec => []OfferedOnlyIfChosen` | `Careful` says of every thread under way what it may still do: only a probe carries an offer, one about a device that held logical units only if that device was picked, a request is about a pick |
| `DryRunIsDry` | `Controller_proofs` | `Spec => DryRunTouchesNothing` | `Careful` again: in a dry run no thread is ever at the rewriting |
| `InstallInvariant` | `Install_proofs` | `Spec => []IInv` | what a run has behind it at each of its steps: `Flow` (errors lead to the last unmount only, what is left to do is what the step goes through), `Guarded` (the guards' verdicts still hold), `Verified` (what staging has gone through and kept), `Mounted` (which of its mounts may be there), `Made` (what each part of the device is by now), `Ticked` (which steps the bar has begun) |
| `TypeCorrect` | `Install_proofs` | `Spec => []TypeOK` | part of `IInv` |
| `VerifiedFirst` | `Install_proofs` | `Spec => []VerifiedBeforeErased` | from `Verified`: past staging the whole plan is staged, and nothing staged differs from a digest |
| `GuardsComeFirst` | `Install_proofs` | `Spec => []ErasedOnlyIfInstallable` | from `Guarded`: `Unfit` and the boot ROM are asked about once, long before the wipe, and nothing in between may change the answer. Nothing is said of the use of the device, which is asked about as long before and may change |
| `DryRunIsDry` | `Install_proofs` | `Spec => []DryRunTouchesNothing` | inductive with `Flow`: a dry run never gets to the two steps that do not look at the flag themselves |
| `SuccessIsTrue` | `Install_proofs` | `Spec => []DoneMeansInstalled` | from `Made`: profiles that are neither left nor under way are deployed, and a run that ends well has none left |
| `NothingStaysMounted` | `Install_proofs` | `Spec => []LeavesNothingMounted` | from `Mounted`, which follows the target and the nested mounts through every function that mounts in one half and unmounts in the other. A run in which an umount failed both ways (`stuck`), be it of the target, of a nested mount or of a medium, is left out altogether |
| `RetryIsFree` | `Install_proofs` | `Spec => []RetryNotRefused` | from `Mounted` at the guard; again but for runs after an umount that failed both ways |
| `BarIsTrue` | `Install_proofs` | `Spec => []BarAddsUp` | from `Ticked`: `Budget` is decided at the beginning, the steps are begun by what the run meets on its way, and at the end they are the same set |
| `RunGoesOn` | `Install_proofs` | `Spec => [][GoesOn]_vars` | the half of `RunEnds` that needs no fairness: steps have a `Place`, a run makes a list twice (what to stage, what to deploy), and between these points a step is a later one or the list gets shorter |
| `Invariant` | `Sources_proofs` | `Spec => []IInv` | types, sharper than `TypeOK` where a step needs it (levels of builds list bundles only, a thread that reads has a call), and `LoadingIsRead`: a level of the listing shows "loading" only while a thread reads it (not so the states of a bundle or a build, which are not part of it) |
| `TypeCorrect` | `Sources_proofs` | `Spec => []TypeOK` | from `Invariant` |
| `PicksStay` | `Sources_proofs` | `Spec => KeepsPicks` | action by action, from `Invariant`: whatever a thread files, and however late, it is not the picks |
| `TypeCorrect` | `Provisioning_proofs` | `Spec => []TypeOK` | together with `Orderly`: a question says something of the data, and only the writing of descriptors has any left to clear |
| `ErasureWasAnnounced` | `Provisioning_proofs` | `Spec => []ErasedOnlyAsAnnounced` | the consent must be there long before the loss, so `Agreed` follows it backwards: a configuration that has arrived, the writing of one, a guard or a probe that will lead there, a question that says it. Between the question and the probe only an arrived configuration can add to what is there, and then the consent is old; a probe that skips can hide some of it, and then it is "unseen". On a device whose descriptor 0 is blank the prompt creates logical units, also when there are some above the seventh to lose |
| `DryRunIsDry` | `Provisioning_proofs` | `Spec => DryRunTouchesNothing` | from `Untouched`: nothing pends on the device, so that its own initialisation changes nothing either |
| `CompleteIsTrue` | `Provisioning_proofs` | `~ReadsPending` gives `Spec => []CompleteMeansProvisioned` | from `InForceThen`: what was written is in force before the kernel looks, and after "complete" no attempt gets past its probe. Of a descriptor that the last probe skipped (`missed`) it says nothing |
| `OnlyFaultsSpoil` | `Provisioning_proofs` | `Spec => [][FailsOnlyByFault]_vars` | `Converging`: writing only clears and completes, what is left to clear is all that stands between the device and the scheme, and what was sent is in force when the attempt looks. So waiting for the node cannot time out of itself, and the last probe can miss nothing but a boot LU, or find in addition what the probe of `apply` had skipped |
| `AttemptGoesOn` | `Provisioning_proofs` | `Spec => [][GoesOn]_vars` | every step of an attempt leads to a later one or leaves fewer descriptors to clear; of these there are at most three |
| `PlanReadsBack` | `Provisioning_proofs` | `ProvisioningSpec => []ReadsBack` | `Chosen` is kept: the scheme is valid, the device takes it, the plan is made of both. `compare` then finds each block of the descriptor as planned, because the numbers of a valid scheme differ, its block sizes have codes, and its active boot LU exists |
| `SizesAreKept` | `Provisioning_proofs` | `ProvisioningSpec => []SizesKept` | rounding up undoes a division that rounds down, in both steps of `alloc_units_for`; and the one logical unit without a size gets all that the others leave, which is the least target or `plan` has refused |
| `PlanIsTaken` | `Provisioning_proofs` | `ProvisioningSpec => []PlanFits` | the sum over all logical units is that over those with a size plus the rest, and the rest is what they and the buffer leave; the units of a memory type are a part of them, checked against its ceiling |
| `IsAProvision` | `Provisioning_proofs` | `ProvisioningSpec => FairSpec` | step by step, and the fairness with it: geometry, scheme, plan and descriptors are chosen once and never looked at by a step of an attempt. So all theorems about `Provision` hold for every geometry and scheme |
| `ComparedAsClassed` | `Provisioning_proofs` | `ProvisioningSpec => []ComparedByClass` | `compare` is taken apart block by block: a difference is critical exactly when a field that divides the device differs, whatever the other fields are. With that `Chosen` says which differences each shape shows |
| `TypeCorrect` | `Stage_proofs` | `Spec => []TypeOK` | part of the one invariant `IInv` below |
| `InOrderAlways` | `Stage_proofs` | `Spec => []DeliversInOrder` | `InSequence`: what is to come starts where what was delivered stops, and every file is in order |
| `VerifiedIsInstalled` | `Stage_proofs` | `Spec => []InstallsWhatWasVerified` | `Copying`: the copy is what was read so far, so that the digest at the end speaks of the disk; `Verified`: artifacts before this one stay as they were checked, under names no later one writes to |
| `OwnIsKept` | `Stage_proofs` | `Spec => RemovesOnlyItsOwn` | `WrittenOnly` and `Removed`: `created` holds every copy and nothing outside `Writes(job)`, whatever earlier runs left |
| `HeadroomIsKept` | `Stage_proofs` | `Spec => []KeepsHeadroom` | `RoomKept`: from the answer of `ensure_space` on, what is free covers the margin and everything still to be written, of the artifact under way only what is still to come. Each block moves from one side of that account to the other; a left-over that a copy replaces only gives room back |
| `StagingGoesOn` | `Stage_proofs` | `Spec => [][GoesOn]_vars` | the same half of `StagingEnds`: an artifact after the other, in each one resume after the other, and between two resumes each read leaves less to come or is the last. All of these are bounded by `TypeOK` |
| `PlanIsListing` | `StagedSelection_proofs` | `Listing(Plan(r))` for every request that may start | a plan flattens places (bootloader, two images, /home, Minimal, one for every other profile) with at most one file each, and the names in different places differ (`NamesDiffer`) |
| `SelectionIsInstalled` | `StagedSelection_proofs` | `Spec => []InstallsTheSelection` | what lands in a place is right for it, and there whenever it is listed (`WantedFits`); and by `VerifiedIsInstalled` the copy that stands in for it is what its digest says |

Three of the invariants are about sums over sets (units of a plan, sizes of an
artifact list, blocks of all files). `SumLemmas` proves what they need of
`SumFunctionOnSet`: the empty sum, adding one element, changing one value, that a
sum is a natural number and a part is at most the whole. The operator of the
community modules folds with a recursive function, which the prover knows only as
some function that satisfies its equation. So the lemmas first prove that one
does, and that any two agree, each from a least counterexample among the finite
subsets of the domain: a counterexample is a member of a set, so no induction
over a predicate is needed. All else follows from the equation.
Flattening a sequence of sequences, of which plans are made, is such a function
too, and is treated in the same way at the beginning of `StagedSelection_proofs`.

The strengthened invariants were checked with TLC on the instances of the runs:
that of `Install` on 641 388 states, `Careful` of `Controller` on 3 903 047, that of
`Sources` on 291 654, `WrittenOnly` and `RoomKept` of `Stage` on 318 975, those about
`Provision` on 327 357, and on 293 436 with `ReadsPending = TRUE`. So were the four properties that no run lists,
`GoesOn` of three modules and `FailsOnlyByFault`, on the instances of the runs.

Every invariant and every action property of the passing runs is stated by a
theorem. Model-checked only is liveness (`RunEnds`, `ListingSettles`,
`BundleResolves`, `SelectedIsLoaded`, `CanBeFinished`, `StaysUsable`,
`StagingEnds`), because reasoning about fairness, and about what is enabled, is
beyond the prover. For `RunEnds` and `StagingEnds` what is proved instead is that
each step of a run is a step down in a well-founded order, and that nobody else
takes one (`RunGoesOn`, `StagingGoesOn`); for `CanBeFinished`, that an attempt
goes through its steps once and fails only of itself (`AttemptGoesOn`,
`OnlyFaultsSpoil`). What the runs add is that a
step is always possible, and that attempts repeated come to an end. `Stage`
has its type invariant proved and not in the run.

## 5. What is not modelled

* Parsing and formatting: JSON and XML, file names of packs, byte offsets of
  descriptors, device tree, command lines, screens. What they decide is an input
  or a constant function.
* The listings of the bucket and of media (`bundle.rs` 58-245 and 569-702,
  `catalog.rs` 141-230): pages, labels and sorting by time. That they load, fail
  and answer late is in `Sources`.
* Pure I/O and configuration: BSG ioctls, sysfs, DRM, evdev, Slint and Cursive,
  the Btrfs layout, the metadata record, the reboot call.
* The levels of the menu and its rows' texts (`menu.rs`): what a row may call is
  an operator action where it changes the state.
* The delivery of snapshots to subscribers (see the plan).

Some things met on the way that no property is about, because the code promises
nothing: the branch of `stage.rs` for an artifact that is already where its copy
would go is not reached by an unpacked archive, whose files lie one directory
deeper, nor by a kept copy, whose manifest still names the server, so an archive
takes room twice; an archive of the bundle in the state is unpacked in a run from
hand-picked builds too; a scheme that flags boot LUs and selects none is never
found provisioned (`provision.rs:885`).

Other things met on the way are in the properties, as what they except:

* a probe skips a descriptor of LU 8 and up that it cannot read. The question may
  then say "No data is erased" of a device that is about to be divided anew, and a
  device with logical units left above the seventh may be reported complete
  (`ErasedOnlyAsAnnounced`, `CompleteMeansProvisioned`, `FailsOnlyByFault`);
* `is_blank` looks at descriptor 0 only, so a device with logical units above the
  seventh alone is announced as one with nothing to lose (`ErasedOnlyAsAnnounced`);
* a file of the operator's where a copy goes is truncated by `File::create`
  (`stage.rs:433`) and removed with the copy (`RemovesOnlyItsOwn`);
* whether the device is in use is asked once, before the downloads; of somebody who
  takes it later only the refusal of `blkdiscard` is left
  (`ErasedOnlyIfInstallable` says nothing of use; see the hazards).

The list of hazards in `PROJECT.json` names what is hard to test in the code,
the ones of the planned modules included, each at its line.

## 6. Plan

In order of what an error would cost.

1. `BootLu`, `Controller`, `Install`, `Sources`, `Provision`, `ProvisionPlan` with
   `Provisioning`, `Fetch` with `Stage`, `Selection` with `StagedSelection` (done):
   checked and proved.
2. `Broadcast`: subscribe, update and notify, with two updates overtaking each
   other on the way to a frontend.
