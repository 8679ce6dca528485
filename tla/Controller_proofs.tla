-------------------------- MODULE Controller_proofs --------------------------
(***************************************************************************)
(* What Controller guarantees for any number of devices, frontends and     *)
(* threads.                                                                *)
(***************************************************************************)
EXTENDS Controller, TLAPS

(* thread::spawn takes a slot without a thread. *)
LEMMA FreeSlotType == Room => FreeSlot \in Slots /\ jobs[FreeSlot] = Idle
BY DEF Room, FreeSlot

(* The edits a step makes to a job keep it one. *)
LEMMA IdleType == Idle \in Jobs
<1>1. Idle \in JobRecords
    BY DEF Idle, JobRecords, Kinds, Places
<1>2. Idle.kind = "idle"
    BY DEF Idle
<1> QED
    BY <1>1, <1>2 DEF Jobs

LEMMA JobType ==
    ASSUME NEW k \in Kinds \ {"probe", "request", "reprovision"}, NEW a \in Places
    PROVE  Job(k, a) \in Jobs
<1>1. Job(k, a) \in JobRecords
    BY DEF Job, Idle, JobRecords
<1>2. Job(k, a).kind = k
    BY DEF Job, Idle
<1> QED
    BY <1>1, <1>2 DEF Jobs

LEMMA JobOnType ==
    ASSUME NEW k \in Kinds, NEW a \in Places, NEW t, t.dev \in Devices, t.disk \in BOOLEAN
    PROVE  /\ JobOn(k, a, t) \in Jobs
           /\ [JobOn(k, a, t) EXCEPT !.offer = TRUE] \in Jobs
           /\ \A x \in Devices \cup {"flag"} : [JobOn(k, a, t) EXCEPT !.shown = x] \in Jobs
<1>1. JobOn(k, a, t) \in JobRecords /\ JobOn(k, a, t).dev \in Devices
    BY DEF Job, JobOn, Idle, JobRecords
<1>2. [JobOn(k, a, t) EXCEPT !.offer = TRUE] \in JobRecords
    BY <1>1 DEF JobRecords
<1>3. ASSUME NEW x \in Devices \cup {"flag"}
      PROVE  [JobOn(k, a, t) EXCEPT !.shown = x] \in Jobs
    <2>1. [JobOn(k, a, t) EXCEPT !.shown = x] \in JobRecords
        BY <1>1 DEF JobRecords
    <2> QED
        BY <1>1, <2>1 DEF Jobs, JobRecords
<1> QED
    BY <1>1, <1>2, <1>3 DEF Jobs, JobRecords

LEMMA EditType ==
    ASSUME NEW j \in Jobs, NEW a \in Places, NEW b \in BOOLEAN, NEW d \in SUBSET Devices
    PROVE  /\ [j EXCEPT !.at = a] \in Jobs
           /\ [j EXCEPT !.at = a, !.ok = b] \in Jobs
           /\ [j EXCEPT !.at = a, !.todo = d] \in Jobs
           /\ [j EXCEPT !.todo = d] \in Jobs
           /\ [j EXCEPT !.at = a, !.todo = d, !.ok = b] \in Jobs
           /\ [j EXCEPT !.at = a, !.disk = b, !.todo = {}] \in Jobs
           /\ Left(j) \in Jobs
<1>1. j \in JobRecords
    BY DEF Jobs
<1>2. [j EXCEPT !.at = a] \in Jobs
    BY <1>1 DEF Jobs, JobRecords
<1>3. [j EXCEPT !.at = a, !.ok = b] \in Jobs
    BY <1>1 DEF Jobs, JobRecords
<1>4. [j EXCEPT !.at = a, !.todo = d] \in Jobs
    BY <1>1 DEF Jobs, JobRecords
<1>5. [j EXCEPT !.todo = d] \in Jobs
    BY <1>1 DEF Jobs, JobRecords
<1>6. [j EXCEPT !.at = a, !.todo = d, !.ok = b] \in Jobs
    BY <1>1 DEF Jobs, JobRecords
<1>7. [j EXCEPT !.at = a, !.disk = b, !.todo = {}] \in Jobs
    BY <1>1 DEF Jobs, JobRecords
<1>8. Left(j) \in Jobs
    <2>1. [j EXCEPT !.at = "settle"] \in Jobs
        BY <1>1 DEF Jobs, JobRecords, Places
    <2>2. CASE j.kind = "reprovision"
        BY <2>1, <2>2 DEF Left
    <2>3. CASE j.kind # "reprovision"
        BY <2>3, IdleType DEF Left
    <2> QED
        BY <2>2, <2>3
<1> QED
    BY <1>2, <1>3, <1>4, <1>5, <1>6, <1>7, <1>8

LEMMA InstallType ==
    ASSUME NEW j \in Jobs, j.kind = "install", NEW a \in Places, NEW b \in BOOLEAN,
           NEW d \in Devices \cup {None}
    PROVE  [j EXCEPT !.at = a, !.dev = d, !.ok = b] \in Jobs
<1>1. j \in JobRecords
    BY DEF Jobs
<1> QED
    BY <1>1 DEF Jobs, JobRecords

LEMMA PutType ==
    ASSUME jobs \in [Slots -> Jobs], raced \in BOOLEAN, NEW s \in Slots, NEW j \in Jobs, Put(s, j)
    PROVE  jobs' \in [Slots -> Jobs] /\ raced' \in BOOLEAN
BY DEF Put

LEMMA SpawnType ==
    ASSUME NEW js \in [Slots -> Jobs], raced \in BOOLEAN, NEW j \in Jobs, SpawnOn(js, j)
    PROVE  jobs' \in [Slots -> Jobs] /\ raced' \in BOOLEAN
BY FreeSlotType DEF SpawnOn

(* The type of everything but the jobs. *)
SharedType ==
    /\ config \in Configs
    /\ phase \in Phases
    /\ devices \subseteq Devices
    /\ target \in Devices \cup {None}
    /\ complete \in BOOLEAN
    /\ ufs \in [dev : Devices, disk : BOOLEAN, ok : BOOLEAN] \cup {None}
    /\ prompt \in Targets \cup {None}
    /\ seen \in [Frontends -> [prompt : Targets \cup {None}, reboot : BOOLEAN, busy : BOOLEAN]]
    /\ life \in {"running", "closing", "exited", "rebooted"}
    /\ layout \in [Devices -> {"blank", "foreign", "scheme"}]
    /\ picked \subseteq Devices

JobsType == jobs \in [Slots -> Jobs] /\ raced \in BOOLEAN

LEMMA StepSharedType ==
    ASSUME TypeOK, NEW s \in Slots, Step(s) PROVE SharedType'
<1> USE DEF TypeOK, SharedType, state
<1>a. /\ jobs[s] \in JobRecords
      /\ jobs[s].kind \in {"probe", "request", "reprovision"} => jobs[s].dev \in Devices
    BY DEF Jobs
<1>b. jobs[s].dev \in Devices \cup {None} /\ jobs[s].disk \in BOOLEAN
        /\ jobs[s].ok \in BOOLEAN /\ jobs[s].todo \in SUBSET Devices
    BY <1>a DEF JobRecords
<1>1. CASE Discover(s)
    BY <1>1 DEF Discover, Phases
<1>2. CASE Enumerate(s)
    BY <1>2 DEF Enumerate, Visible, Eligible
<1>3. CASE Report(s)
    BY <1>3 DEF Report
<1>4. CASE DiscoverBlank(s)
    BY <1>4 DEF DiscoverBlank
<1>5. CASE RefreshSources(s)
    BY <1>5 DEF RefreshSources
<1>6. CASE SettleSources(s)
    BY <1>6 DEF SettleSources, Phases
<1>7. CASE ProbeRead(s)
    BY <1>7 DEF ProbeRead
<1>8. CASE ProbePublish(s)
    BY <1>8, <1>a, <1>b DEF ProbePublish, At, Probing, Targets
<1>9. CASE ProbeDismiss(s)
    BY <1>9 DEF ProbeDismiss
<1>10. CASE ProbeStart(s)
    BY <1>10 DEF ProbeStart
<1>11. CASE RequestPublish(s)
    BY <1>11, <1>a, <1>b DEF RequestPublish, At, Targets
<1>12. CASE Reprovision(s)
    BY <1>12 DEF Reprovision, Phases
<1>13. CASE Apply(s)
    BY <1>13 DEF Apply
<1>14. CASE Rewrite(s)
    BY <1>14 DEF Rewrite
<1>15. CASE ReprovisionFails(s)
    BY <1>15 DEF ReprovisionFails, Phases
<1>16. CASE Rediscover(s)
    BY <1>16 DEF Rediscover
<1>17. CASE Adopt(s)
    BY <1>17, <1>b DEF Adopt, Eligible
<1>18. CASE Reprovisioned(s)
    BY <1>18 DEF Reprovisioned, Phases
<1>19. CASE Install(s)
    BY <1>19 DEF Install, Phases
<1>20. CASE InstallRun(s)
    BY <1>20 DEF InstallRun
<1>21. CASE InstallEnds(s)
    BY <1>21 DEF InstallEnds, Phases
<1> QED
    BY <1>1, <1>2, <1>3, <1>4, <1>5, <1>6, <1>7, <1>8, <1>9, <1>10, <1>11, <1>12, <1>13,
       <1>14, <1>15, <1>16, <1>17, <1>18, <1>19, <1>20, <1>21 DEF Step

LEMMA StepJobsType ==
    ASSUME TypeOK, NEW s \in Slots, Step(s) PROVE JobsType'
<1> USE DEF JobsType, Goto, End, Leave
<1>a. jobs \in [Slots -> Jobs] /\ raced \in BOOLEAN /\ jobs[s] \in Jobs
    BY DEF TypeOK
<1>b. /\ jobs[s].kind \in {"probe", "request", "reprovision"} => jobs[s].dev \in Devices
      /\ jobs[s].disk \in BOOLEAN /\ jobs[s].todo \in SUBSET Devices
    BY <1>a DEF Jobs, JobRecords
<1>c. \A a \in Places : Goto(s, a) => JobsType'
    BY <1>a, EditType, PutType
<1>d. End(s) => JobsType'
    BY <1>a, IdleType, PutType
<1>e. Leave(s) => JobsType'
    BY <1>a, EditType, PutType DEF Places
<1>f. \A d \in Devices : Target(d).dev \in Devices /\ Target(d).disk \in BOOLEAN
    BY DEF Target, HasLus
<1>1. CASE Discover(s)
    BY <1>1, <1>c DEF Discover, Places
<1>2. CASE Enumerate(s)
    BY <1>2, <1>c DEF Enumerate, Places
<1>3. CASE Report(s)
    <2> DEFINE next(d) == [jobs[s] EXCEPT !.at = "blanks", !.todo = d]
    <2>1. \A d \in SUBSET Devices : next(d) \in Jobs
        BY <1>a, EditType DEF Places
    <2>2. PICK d \in SUBSET Devices :
             \/ /\ target \in Ufs
                /\ SpawnOn([jobs EXCEPT ![s] = next(d)], JobOn("probe", "read", Target(target)))
             \/ Put(s, next(d))
        BY <1>3 DEF Report, Devices
    <2>3. JobOn("probe", "read", Target(target)) \in Jobs \/ target \notin Ufs
        BY <1>f, JobOnType DEF Devices, Kinds, Places
    <2> HIDE DEF next
    <2> QED
        BY <1>a, <2>1, <2>2, <2>3, PutType, SpawnType
<1>4. CASE DiscoverBlank(s)
    <2> DEFINE next(d) == [jobs[s] EXCEPT !.todo = @ \ {d}]
    <2>1. CASE Goto(s, "sources")
        BY <2>1, <1>c DEF Places
    <2>2. CASE \E d \in jobs[s].todo :
                  \/ Put(s, next(d))
                  \/ SpawnOn([jobs EXCEPT ![s] = next(d)],
                             [JobOn("probe", "read", Target(d)) EXCEPT !.offer = TRUE])
        <3>1. PICK d \in jobs[s].todo :
                  \/ Put(s, next(d))
                  \/ SpawnOn([jobs EXCEPT ![s] = next(d)],
                             [JobOn("probe", "read", Target(d)) EXCEPT !.offer = TRUE])
            BY <2>2
        <3>2. next(d) \in Jobs
            BY <1>a, <1>b, EditType DEF Places
        <3>3. [JobOn("probe", "read", Target(d)) EXCEPT !.offer = TRUE] \in Jobs
            BY <1>b, <1>f, JobOnType DEF Kinds, Places
        <3> HIDE DEF next
        <3> QED
            BY <1>a, <3>1, <3>2, <3>3, PutType, SpawnType
    <2> QED
        BY <1>4, <2>1, <2>2 DEF DiscoverBlank
<1>5. CASE RefreshSources(s)
    BY <1>5, <1>c DEF RefreshSources, Places
<1>6. CASE SettleSources(s)
    BY <1>6, <1>d DEF SettleSources
<1>7. CASE ProbeRead(s)
    <2>1. CASE Leave(s)
        BY <2>1, <1>e
    <2>2. CASE Put(s, [jobs[s] EXCEPT !.at = "publish", !.ok = (layout[jobs[s].dev] = "scheme")])
        BY <2>2, <1>a, EditType, PutType DEF Places
    <2> QED
        BY <1>7, <2>1, <2>2 DEF ProbeRead
<1>8. CASE ProbePublish(s)
    BY <1>8, <1>c, <1>e DEF ProbePublish, Places
<1>9. CASE ProbeDismiss(s)
    BY <1>9, <1>c DEF ProbeDismiss, Places
<1>10. CASE ProbeStart(s)
    <2>1. CASE Leave(s)
        BY <2>1, <1>e
    <2>2. CASE SpawnOn([jobs EXCEPT ![s] = Left(jobs[s])],
                       [JobOn("reprovision", "announce", jobs[s]) EXCEPT !.shown = "flag"])
        <3>1. Left(jobs[s]) \in Jobs
            BY <1>a, EditType DEF Places
        <3>2. jobs[s].dev \in Devices
            BY <1>10, <1>b DEF ProbeStart, At, Probing
        <3>3. [JobOn("reprovision", "announce", jobs[s]) EXCEPT !.shown = "flag"] \in Jobs
            BY <1>b, <3>2, JobOnType DEF Kinds, Places
        <3> QED
            BY <2>2, <1>a, <3>1, <3>3, SpawnType
    <2> QED
        BY <1>10, <2>1, <2>2 DEF ProbeStart
<1>11. CASE RequestPublish(s)
    BY <1>11, <1>d DEF RequestPublish
<1>12. CASE Reprovision(s)
    BY <1>12, <1>c DEF Reprovision, Places
<1>13. CASE Apply(s)
    BY <1>13, <1>c DEF Apply, Places
<1>14. CASE Rewrite(s)
    BY <1>14, <1>c DEF Rewrite, Places
<1>15. CASE ReprovisionFails(s)
    BY <1>15, <1>d DEF ReprovisionFails
<1>16. CASE Rediscover(s)
    <2>1. Visible \in SUBSET Devices /\ (target \in Visible) \in BOOLEAN
        BY DEF Visible
    <2>2. [jobs[s] EXCEPT !.at = "adopt", !.todo = Visible, !.ok = (target \in Visible)] \in Jobs
        BY <1>a, <2>1, EditType DEF Places
    <2> QED
        BY <1>16, <1>a, <2>2, PutType DEF Rediscover
<1>17. CASE Adopt(s)
    BY <1>17, <1>a, EditType, PutType DEF Adopt, HasLus, Places
<1>18. CASE Reprovisioned(s)
    BY <1>18, <1>d DEF Reprovisioned
<1>19. CASE Install(s)
    BY <1>19, <1>c DEF Install, Places
<1>20. CASE InstallRun(s)
    <2>1. [jobs[s] EXCEPT !.at = "running", !.dev = target, !.ok = (target \in devices /\ complete)]
             \in Jobs
        BY <1>20, <1>a, InstallType DEF InstallRun, At, Places, TypeOK
    <2> QED
        BY <1>20, <1>a, <2>1, PutType DEF InstallRun
<1>21. CASE InstallEnds(s)
    BY <1>21, <1>d DEF InstallEnds
<1> QED
    BY <1>1, <1>2, <1>3, <1>4, <1>5, <1>6, <1>7, <1>8, <1>9, <1>10, <1>11, <1>12, <1>13,
       <1>14, <1>15, <1>16, <1>17, <1>18, <1>19, <1>20, <1>21 DEF Step

LEMMA OperatorType ==
    ASSUME TypeOK, NEW f \in Frontends, Render(f) \/ Operator(f)
    PROVE  SharedType' /\ JobsType'
<1> USE DEF TypeOK, SharedType, JobsType, state
<1>a. \A d \in Devices : Target(d).dev \in Devices /\ Target(d).disk \in BOOLEAN
    BY DEF Target, HasLus
<1>b. \A j \in Jobs : Spawn(j) => JobsType'
    BY SpawnType DEF Spawn
<1>1. CASE Render(f)
    BY <1>1 DEF Render, CanReboot, Busy
<1>2. ASSUME NEW d \in Devices, SelectDevice(f, d) PROVE SharedType' /\ JobsType'
    <2>1. [JobOn("probe", "read", Target(d)) EXCEPT !.offer = TRUE] \in Jobs
        BY <1>a, JobOnType DEF Kinds, Places
    <2>2. SharedType'
        BY <1>2 DEF SelectDevice
    <2> QED
        BY <1>2, <1>b, <2>1, <2>2 DEF SelectDevice
<1>3. CASE SelectSources(f)
    BY <1>3 DEF SelectSources
<1>4. CASE RequestReprovision(f)
    <2>1. ufs.dev \in Devices /\ ufs.disk \in BOOLEAN
        BY <1>4 DEF RequestReprovision
    <2>2. JobOn("request", "read", ufs) \in Jobs
        BY <2>1, JobOnType DEF Kinds, Places
    <2>3. SharedType'
        BY <1>4, <2>1 DEF RequestReprovision
    <2> QED
        BY <1>4, <1>b, <2>2, <2>3 DEF RequestReprovision
<1>5. CASE ConfirmPrompt(f)
    <2>1. prompt.dev \in Devices /\ prompt.disk \in BOOLEAN /\ seen[f].prompt.dev \in Devices
        BY <1>5 DEF ConfirmPrompt, Targets
    <2>2. [JobOn("reprovision", "announce", prompt) EXCEPT !.shown = seen[f].prompt.dev] \in Jobs
        BY <2>1, JobOnType DEF Kinds, Places
    <2>3. SharedType'
        BY <1>5 DEF ConfirmPrompt
    <2> QED
        BY <1>5, <1>b, <2>2, <2>3 DEF ConfirmPrompt
<1>6. CASE DismissPrompt(f)
    BY <1>6 DEF DismissPrompt
<1>7. CASE StartInstall(f)
    <2>1. Job("install", "announce") \in Jobs
        BY JobType DEF Kinds, Places
    <2> QED
        BY <1>7, <1>b, <2>1 DEF StartInstall
<1>8. CASE Refresh(f)
    <2>1. Job("refresh", "sources") \in Jobs
        BY JobType DEF Kinds, Places
    <2> QED
        BY <1>8, <1>b, <2>1 DEF Refresh
<1>9. CASE RequestReboot(f)
    BY <1>9 DEF RequestReboot
<1>10. CASE Quit(f)
    BY <1>10, IdleType DEF Quit
<1> QED
    BY <1>1, <1>2, <1>3, <1>4, <1>5, <1>6, <1>7, <1>8, <1>9, <1>10 DEF Operator

LEMMA TypeInductive == TypeOK /\ [Next]_vars => TypeOK'
<1> SUFFICES ASSUME TypeOK, [Next]_vars PROVE TypeOK'
    OBVIOUS
<1>a. SharedType' /\ JobsType' => TypeOK'
    BY DEF TypeOK, SharedType, JobsType
<1>1. CASE \E s \in Slots : Step(s)
    BY <1>1, <1>a, StepSharedType, StepJobsType
<1>2. CASE \E f \in Frontends : Render(f) \/ Operator(f)
    BY <1>2, <1>a, OperatorType
<1>3. CASE Shutdown
    BY <1>3, IdleType DEF Shutdown, TypeOK, state
<1>4. CASE UNCHANGED vars
    BY <1>4 DEF vars, state, TypeOK
<1> QED
    BY <1>1, <1>2, <1>3, <1>4 DEF Next

(* The shared state and the threads are always of their type. *)
THEOREM TypeCorrect == Spec => []TypeOK
<1>1. Init => TypeOK
    <2> SUFFICES ASSUME Init PROVE TypeOK
        OBVIOUS
    <2>1. Job("discover", "announce") \in Jobs
        BY JobType DEF Kinds, Places
    <2>2. jobs \in [Slots -> Jobs]
        BY <2>1, IdleType DEF Init
    <2> QED
        BY <2>2 DEF Init, TypeOK, Phases
<1> QED
    BY <1>1, TypeInductive, PTL DEF Spec
-------------------------------------------------------------------------------
(* What a job is to the phase: nothing, armed (started, not yet announced),  *)
(* or the kind of operation it is at.                                        *)
Role(j) == IF Destructive(j) THEN IF Announced(j) THEN j.kind ELSE "armed" ELSE "none"

Fresh(j) == j.kind = "discover" /\ j.at = "announce"

SameRole(i, j) == Role(i) = Role(j) /\ ~Fresh(i)

(* The kind and the place of an edited job. *)
LEMMA EditFields ==
    ASSUME NEW j \in Jobs, NEW a, NEW b, NEW d, NEW e
    PROVE  /\ [j EXCEPT !.at = a].kind = j.kind /\ [j EXCEPT !.at = a].at = a
           /\ [j EXCEPT !.at = a, !.ok = b].kind = j.kind /\ [j EXCEPT !.at = a, !.ok = b].at = a
           /\ [j EXCEPT !.at = a, !.todo = d].kind = j.kind
           /\ [j EXCEPT !.at = a, !.todo = d].at = a
           /\ [j EXCEPT !.todo = d].kind = j.kind /\ [j EXCEPT !.todo = d].at = j.at
           /\ [j EXCEPT !.at = a, !.todo = d, !.ok = b].kind = j.kind
           /\ [j EXCEPT !.at = a, !.todo = d, !.ok = b].at = a
           /\ [j EXCEPT !.at = a, !.disk = b, !.todo = d].kind = j.kind
           /\ [j EXCEPT !.at = a, !.disk = b, !.todo = d].at = a
           /\ [j EXCEPT !.at = a, !.dev = e, !.ok = b].kind = j.kind
           /\ [j EXCEPT !.at = a, !.dev = e, !.ok = b].at = a
BY DEF Jobs, JobRecords

LEMMA NewFields ==
    ASSUME NEW k, NEW a, NEW t, NEW x
    PROVE  /\ Idle.kind = "idle"
           /\ Job(k, a).kind = k /\ Job(k, a).at = a
           /\ JobOn(k, a, t).kind = k /\ JobOn(k, a, t).at = a
           /\ [JobOn(k, a, t) EXCEPT !.offer = x].kind = k
           /\ [JobOn(k, a, t) EXCEPT !.offer = x].at = a
           /\ [JobOn(k, a, t) EXCEPT !.shown = x].kind = k
           /\ [JobOn(k, a, t) EXCEPT !.shown = x].at = a
BY DEF Idle, Job, JobOn

(* Every step of a thread does one of five things to the roles and the phase. *)
Quiet == /\ phase' = phase /\ raced' = raced
         /\ \A r \in Slots :
                Role(jobs'[r]) = Role(jobs[r]) /\ (Fresh(jobs'[r]) => Fresh(jobs[r]))
Arms == /\ phase' = phase /\ ~Busy
        /\ raced' = (raced \/ \E r \in Slots : Role(jobs[r]) # "none")
        /\ \E t \in Slots :
              /\ Role(jobs[t]) = "none" /\ Role(jobs'[t]) = "armed" /\ ~Fresh(jobs'[t])
              /\ \A r \in Slots \ {t} :
                    Role(jobs'[r]) = Role(jobs[r]) /\ (Fresh(jobs'[r]) => Fresh(jobs[r]))
Others_(s) == \A r \in Slots \ {s} : jobs'[r] = jobs[r]
Announces(s) == /\ raced' = raced /\ Others_(s)
                /\ Role(jobs[s]) = "armed" /\ ~Fresh(jobs'[s])
                /\ \/ Role(jobs'[s]) = "install" /\ phase' = "Installing"
                   \/ Role(jobs'[s]) = "reprovision" /\ phase' = "Provisioning"
Finishes(s) == /\ raced' = raced /\ Others_(s)
               /\ Role(jobs[s]) \in {"install", "reprovision"} /\ Role(jobs'[s]) = "none"
               /\ phase' \in {"Ready", "Done", "Failed"} /\ ~Fresh(jobs'[s])
Discovers(s) == /\ raced' = raced
                /\ \/ Fresh(jobs[s]) /\ phase' = "Discovering"
                   \/ ~Fresh(jobs[s]) /\ phase = "Discovering" /\ phase' = "Ready"
                   \/ ~Fresh(jobs[s]) /\ phase' = phase
                /\ Others_(s) /\ ~Fresh(jobs'[s])
                /\ Role(jobs[s]) = "none" /\ Role(jobs'[s]) = "none"

LEMMA PutQuiet ==
    ASSUME TypeOK, NEW s \in Slots, NEW j, Put(s, j), phase' = phase,
           Role(j) = Role(jobs[s]), ~Fresh(j)
    PROVE  Quiet
BY DEF Quiet, Put, TypeOK

LEMMA PutOthers ==
    ASSUME TypeOK, NEW s \in Slots, NEW j, Put(s, j)
    PROVE  raced' = raced /\ Others_(s) /\ jobs'[s] = j
BY DEF Others_, Put, TypeOK

LEMMA SpawnRoles ==
    ASSUME TypeOK, NEW js \in [Slots -> Jobs], NEW j, SpawnOn(js, j), ~Fresh(j), phase' = phase,
           \A r \in Slots : Role(js[r]) = Role(jobs[r]) /\ (Fresh(js[r]) => Fresh(jobs[r]))
    PROVE  /\ Role(j) = "none" => Quiet
           /\ Role(j) = "armed" /\ ~Busy => Arms
<1>1. FreeSlot \in Slots /\ Role(jobs[FreeSlot]) = "none"
    BY FreeSlotType, NewFields DEF SpawnOn, Role, Destructive
<1>2. jobs' = [js EXCEPT ![FreeSlot] = j]
    BY DEF SpawnOn
<1>3. \A i : Destructive(i) <=> Role(i) # "none"
    BY DEF Role, Destructive, Announced
<1>4. raced' = (raced \/ (Destructive(j) /\ \E r \in Slots : Destructive(js[r])))
    BY DEF SpawnOn
<1>5. ASSUME Role(j) = "none" PROVE Quiet
    <2>1. raced' = raced
        BY <1>3, <1>4, <1>5 DEF TypeOK
    <2>2. \A r \in Slots : Role(jobs'[r]) = Role(jobs[r]) /\ (Fresh(jobs'[r]) => Fresh(jobs[r]))
        BY <1>1, <1>2, <1>5
    <2> QED
        BY <2>1, <2>2 DEF Quiet
<1>6. ASSUME Role(j) = "armed", ~Busy PROVE Arms
    <2>1. raced' = (raced \/ \E r \in Slots : Role(jobs[r]) # "none")
        BY <1>3, <1>4, <1>6
    <2>2. /\ Role(jobs'[FreeSlot]) = "armed" /\ ~Fresh(jobs'[FreeSlot])
          /\ \A r \in Slots \ {FreeSlot} :
                Role(jobs'[r]) = Role(jobs[r]) /\ (Fresh(jobs'[r]) => Fresh(jobs[r]))
        BY <1>1, <1>2, <1>6
    <2> QED
        BY <1>1, <1>6, <2>1, <2>2 DEF Arms
<1> QED
    BY <1>5, <1>6

LEMMA StepRoles ==
    ASSUME TypeOK, NEW s \in Slots, Step(s)
    PROVE  Quiet \/ Arms \/ Announces(s) \/ Finishes(s) \/ Discovers(s)
<1> DEFINE J == jobs[s]
<1>a. J \in Jobs /\ jobs \in [Slots -> Jobs]
    BY DEF TypeOK
<1>b. \A a : Goto(s, a) => raced' = raced /\ Others_(s) /\ jobs'[s].kind = J.kind /\ jobs'[s].at = a
    <2> SUFFICES ASSUME NEW a, Goto(s, a)
                 PROVE  raced' = raced /\ Others_(s) /\ jobs'[s].kind = J.kind /\ jobs'[s].at = a
        OBVIOUS
    <2> DEFINE j == [J EXCEPT !.at = a]
    <2>1. j.kind = J.kind /\ j.at = a
        BY <1>a, EditFields
    <2>2. Put(s, j)
        BY DEF Goto
    <2> HIDE DEF j
    <2> QED
        BY <2>1, <2>2, PutOthers
<1>c. End(s) => raced' = raced /\ Others_(s) /\ Role(jobs'[s]) = "none" /\ ~Fresh(jobs'[s])
    BY PutOthers, NewFields DEF End, Role, Destructive, Fresh
<1>d. ASSUME NEW a, Goto(s, a), phase' = phase, a # "announce", J.at # "announce" PROVE Quiet
    <2>1. [J EXCEPT !.at = a].kind = J.kind /\ [J EXCEPT !.at = a].at = a
        BY <1>a, EditFields
    <2> QED
        BY <1>d, <2>1, PutQuiet DEF Goto, Role, Destructive, Announced, Fresh
<1>f. ASSUME NEW j, j.kind = J.kind, j.at # "announce", J.at # "announce"
      PROVE  Role(j) = Role(J) /\ ~Fresh(j)
    BY <1>f DEF Role, Destructive, Announced, Fresh
<1>g. ASSUME NEW j, Put(s, j), phase' = phase, j.kind = J.kind, j.at # "announce", J.at # "announce"
      PROVE  Quiet
    BY <1>f, <1>g, PutQuiet
<1>e. ASSUME Leave(s), phase' = phase, J.at # "announce", J.kind # "install" PROVE Quiet
    <2>1. CASE J.kind = "reprovision"
        <3>1. Goto(s, "settle")
            BY <1>e, <2>1 DEF Leave, Left, Goto
        <3> QED
            BY <1>d, <1>e, <3>1
    <2>2. CASE J.kind # "reprovision"
        BY <1>e, <2>2, NewFields, PutQuiet DEF Leave, Left, Role, Destructive, Fresh
    <2> QED
        BY <2>1, <2>2
<1>1. CASE Discover(s)
    BY <1>1, <1>b DEF Discover, At, Discovers, Fresh, Role, Destructive
<1>2. CASE Enumerate(s)
    BY <1>2, <1>d DEF Enumerate, At
<1>3. CASE Report(s)
    <2> DEFINE next(d) == [J EXCEPT !.at = "blanks", !.todo = d]
    <2>1. \A d \in SUBSET Devices : next(d) \in Jobs /\ Role(next(d)) = Role(J) /\ ~Fresh(next(d))
        <3>1. ASSUME NEW d \in SUBSET Devices
              PROVE  next(d) \in Jobs /\ Role(next(d)) = Role(J) /\ ~Fresh(next(d))
            <4>1. next(d) \in Jobs
                BY <1>a, EditType DEF Places
            <4>2. next(d).kind = J.kind /\ next(d).at = "blanks"
                BY <1>a, EditFields
            <4>3. J.at = "report"
                BY <1>3 DEF Report, At
            <4> HIDE DEF next
            <4> QED
                BY <1>f, <4>1, <4>2, <4>3
        <3> QED
            BY <3>1
    <2>2. PICK d \in SUBSET Devices :
             \/ SpawnOn([jobs EXCEPT ![s] = next(d)], JobOn("probe", "read", Target(target)))
             \/ Put(s, next(d))
        BY <1>3 DEF Report, Devices
    <2>3. Role(JobOn("probe", "read", Target(target))) = "none"
            /\ ~Fresh(JobOn("probe", "read", Target(target)))
        BY NewFields DEF Role, Destructive, Fresh
    <2>4. phase' = phase
        BY <1>3 DEF Report, state
    <2> HIDE DEF next
    <2>5. CASE Put(s, next(d))
        BY <2>1, <2>4, <2>5, PutQuiet
    <2>6. CASE SpawnOn([jobs EXCEPT ![s] = next(d)], JobOn("probe", "read", Target(target)))
        <3>1. [jobs EXCEPT ![s] = next(d)] \in [Slots -> Jobs]
            BY <1>a, <2>1
        <3>2. \A r \in Slots : Role([jobs EXCEPT ![s] = next(d)][r]) = Role(jobs[r])
                /\ (Fresh([jobs EXCEPT ![s] = next(d)][r]) => Fresh(jobs[r]))
            BY <1>a, <2>1
        <3> QED
            BY <2>3, <2>4, <2>6, <3>1, <3>2, SpawnRoles
    <2> QED
        BY <2>2, <2>5, <2>6
<1>4. CASE DiscoverBlank(s)
    <2> DEFINE next(d) == [J EXCEPT !.todo = @ \ {d}]
    <2> DEFINE new(d) == [JobOn("probe", "read", Target(d)) EXCEPT !.offer = TRUE]
    <2>1. CASE Goto(s, "sources")
        BY <1>4, <2>1, <1>d DEF DiscoverBlank, At, state
    <2>2. CASE \E d \in J.todo : Put(s, next(d)) \/ SpawnOn([jobs EXCEPT ![s] = next(d)], new(d))
        <3>1. PICK d \in J.todo : Put(s, next(d)) \/ SpawnOn([jobs EXCEPT ![s] = next(d)], new(d))
            BY <2>2
        <3>2. next(d) \in Jobs /\ Role(next(d)) = Role(J) /\ ~Fresh(next(d))
            <4>1. J.todo \ {d} \in SUBSET Devices
                <5>1. J \in JobRecords
                    BY <1>a DEF Jobs
                <5>2. \A j \in JobRecords : j.todo \in SUBSET Devices
                    BY DEF JobRecords
                <5> QED
                    BY <5>1, <5>2
            <4>2. next(d) \in Jobs
                <5>1. "blanks" \in Places /\ TRUE \in BOOLEAN
                    BY DEF Places
                <5>2. \A e \in SUBSET Devices : [J EXCEPT !.todo = e] \in Jobs
                    BY <1>a, <5>1, EditType
                <5> QED
                    BY <4>1, <5>2
            <4>3. next(d).kind = J.kind /\ next(d).at = J.at
                BY <1>a, EditFields
            <4>4. J.at = "blanks"
                BY <1>4 DEF DiscoverBlank, At
            <4> HIDE DEF next
            <4> QED
                BY <1>f, <4>2, <4>3, <4>4
        <3>3. Role(new(d)) = "none" /\ ~Fresh(new(d))
            BY NewFields DEF Role, Destructive, Fresh
        <3>4. phase' = phase
            BY <1>4 DEF DiscoverBlank, state
        <3> HIDE DEF next, new
        <3>5. CASE Put(s, next(d))
            BY <3>2, <3>4, <3>5, PutQuiet
        <3>6. CASE SpawnOn([jobs EXCEPT ![s] = next(d)], new(d))
            <4>1. [jobs EXCEPT ![s] = next(d)] \in [Slots -> Jobs]
                BY <1>a, <3>2
            <4>2. \A r \in Slots : Role([jobs EXCEPT ![s] = next(d)][r]) = Role(jobs[r])
                    /\ (Fresh([jobs EXCEPT ![s] = next(d)][r]) => Fresh(jobs[r]))
                BY <1>a, <3>2
            <4> QED
                BY <3>3, <3>4, <3>6, <4>1, <4>2, SpawnRoles
        <3> QED
            BY <3>1, <3>5, <3>6
    <2> QED
        BY <1>4, <2>1, <2>2 DEF DiscoverBlank
<1>5. CASE RefreshSources(s)
    BY <1>5, <1>d DEF RefreshSources, At
<1>6. CASE SettleSources(s)
    BY <1>6, <1>c DEF SettleSources, At, Discovers, Fresh, Role, Destructive
<1>7. CASE ProbeRead(s)
    <2>1. phase' = phase /\ J.at = "read" /\ J.kind # "install"
        BY <1>7 DEF ProbeRead, At, Probing, state
    <2>2. CASE Leave(s)
        BY <1>e, <2>1, <2>2
    <2>3. CASE Put(s, [J EXCEPT !.at = "publish", !.ok = (layout[J.dev] = "scheme")])
        <3> DEFINE j == [J EXCEPT !.at = "publish", !.ok = (layout[J.dev] = "scheme")]
        <3>1. j.kind = J.kind /\ j.at = "publish"
            BY <1>a, EditFields
        <3>2. Put(s, j)
            BY <2>3
        <3> HIDE DEF j
        <3> QED
            BY <1>g, <2>1, <3>1, <3>2
    <2> QED
        BY <1>7, <2>2, <2>3 DEF ProbeRead
<1>8. CASE ProbePublish(s)
    BY <1>8, <1>d, <1>e DEF ProbePublish, At, Probing
<1>9. CASE ProbeDismiss(s)
    BY <1>9, <1>d DEF ProbeDismiss, At
<1>10. CASE ProbeStart(s)
    <2> DEFINE js == [jobs EXCEPT ![s] = Left(J)]
    <2> DEFINE new == [JobOn("reprovision", "announce", J) EXCEPT !.shown = "flag"]
    <2>1. phase' = phase /\ J.at = "start" /\ J.kind \in {"probe", "reprovision"}
        BY <1>10 DEF ProbeStart, At, Probing, state
    <2>2. CASE Busy
        BY <1>10, <1>e, <2>1, <2>2 DEF ProbeStart
    <2>3. CASE ~Busy
        <3>1. SpawnOn(js, new)
            BY <1>10, <2>3 DEF ProbeStart
        <3>2. Left(J) \in Jobs /\ Role(Left(J)) = Role(J) /\ ~Fresh(Left(J))
            <4>1. CASE J.kind = "reprovision"
                <5> DEFINE j == [J EXCEPT !.at = "settle"]
                <5>1. Left(J) = j
                    BY <4>1 DEF Left
                <5>2. j \in Jobs
                    BY <1>a, EditType DEF Places
                <5>3. j.kind = J.kind /\ j.at = "settle"
                    BY <1>a, EditFields
                <5> HIDE DEF j
                <5> QED
                    BY <1>f, <2>1, <5>1, <5>2, <5>3
            <4>2. CASE J.kind # "reprovision"
                BY <2>1, <4>2, IdleType, NewFields DEF Left, Role, Destructive, Fresh
            <4> QED
                BY <4>1, <4>2
        <3>3. Role(new) = "armed" /\ ~Fresh(new)
            BY NewFields DEF Role, Destructive, Announced, Fresh
        <3>4. js \in [Slots -> Jobs]
            BY <1>a, <3>2
        <3>5. \A r \in Slots : Role(js[r]) = Role(jobs[r]) /\ (Fresh(js[r]) => Fresh(jobs[r]))
            BY <1>a, <3>2
        <3> HIDE DEF js, new
        <3> QED
            BY <2>1, <2>3, <3>1, <3>3, <3>4, <3>5, SpawnRoles
    <2> QED
        BY <2>2, <2>3
<1>11. CASE RequestPublish(s)
    <2>1. Role(Idle) = "none" /\ ~Fresh(Idle)
        BY NewFields DEF Role, Destructive, Fresh
    <2> QED
        BY <1>11, <2>1, PutQuiet DEF RequestPublish, At, End, Role, Destructive
<1>12. CASE Reprovision(s)
    BY <1>12, <1>b DEF Reprovision, At, Announces, Fresh, Role, Destructive, Announced
<1>13. CASE Apply(s)
    <2>1. PICK a \in {"enumerate", "rewriting"} : Goto(s, a)
        BY <1>13 DEF Apply
    <2> QED
        BY <1>13, <1>d, <2>1 DEF Apply, At, state
<1>14. CASE Rewrite(s)
    BY <1>14, <1>d DEF Rewrite, At, state
<1>15. CASE ReprovisionFails(s)
    BY <1>15, <1>c DEF ReprovisionFails, Finishes, Fresh, Role, Destructive, Announced
<1>16. CASE Rediscover(s)
    <2> DEFINE j == [J EXCEPT !.at = "adopt", !.todo = Visible, !.ok = (target \in Visible)]
    <2>1. j.kind = J.kind /\ j.at = "adopt"
        BY <1>a, EditFields
    <2>2. Put(s, j) /\ phase' = phase /\ J.at = "enumerate"
        BY <1>16 DEF Rediscover, At, state
    <2> HIDE DEF j
    <2> QED
        BY <1>g, <2>1, <2>2
<1>17. CASE Adopt(s)
    <2> DEFINE j == [J EXCEPT !.at = "read", !.disk = HasLus(J.dev), !.todo = {}]
    <2>1. j.kind = J.kind /\ j.at = "read"
        BY <1>a, EditFields
    <2>2. Put(s, j) /\ phase' = phase /\ J.at = "adopt"
        BY <1>17 DEF Adopt, At
    <2> HIDE DEF j
    <2> QED
        BY <1>g, <2>1, <2>2
<1>18. CASE Reprovisioned(s)
    BY <1>18, <1>c DEF Reprovisioned, At, Finishes, Fresh, Role, Destructive, Announced
<1>19. CASE Install(s)
    BY <1>19, <1>b DEF Install, At, Announces, Fresh, Role, Destructive, Announced
<1>20. CASE InstallRun(s)
    <2> DEFINE j == [J EXCEPT !.at = "running", !.dev = target,
                              !.ok = (target \in devices /\ complete)]
    <2>1. j.kind = J.kind /\ j.at = "running"
        BY <1>a, EditFields
    <2>2. Put(s, j) /\ phase' = phase /\ J.at = "snapshot"
        BY <1>20 DEF InstallRun, At, state
    <2> HIDE DEF j
    <2> QED
        BY <1>g, <2>1, <2>2
<1>21. CASE InstallEnds(s)
    <2>1. phase' \in {"Done", "Failed"}
        BY <1>21 DEF InstallEnds
    <2> QED
        BY <1>21, <1>c, <2>1 DEF InstallEnds, At, Finishes, Fresh, Role, Destructive, Announced
<1> QED
    BY <1>1, <1>2, <1>3, <1>4, <1>5, <1>6, <1>7, <1>8, <1>9, <1>10, <1>11, <1>12, <1>13,
       <1>14, <1>15, <1>16, <1>17, <1>18, <1>19, <1>20, <1>21 DEF Step

(* An operator's call arms an operation, only when the phase is not busy, or *)
(* leaves the operations as they are; quitting ends them.                    *)
LEMMA OperatorRoles ==
    ASSUME TypeOK, NEW f \in Frontends, Render(f) \/ Operator(f)
    PROVE  \/ Quiet /\ life = "running"
           \/ Arms /\ life = "running"
           \/ life' = "exited" /\ raced' = raced /\ jobs' = [r \in Slots |-> Idle]
<1>a. ASSUME UNCHANGED <<phase, jobs, raced>> PROVE Quiet
    BY <1>a DEF Quiet
<1>b. ASSUME NEW j, Spawn(j), ~Fresh(j), phase' = phase
      PROVE  (Role(j) = "none" => Quiet) /\ (Role(j) = "armed" /\ ~Busy => Arms)
    <2>1. jobs \in [Slots -> Jobs] /\ SpawnOn(jobs, j)
        BY <1>b DEF TypeOK, Spawn
    <2> QED
        BY <1>b, <2>1, SpawnRoles
<1>1. CASE Render(f) \/ SelectSources(f) \/ DismissPrompt(f) \/ RequestReboot(f)
    BY <1>1, <1>a DEF Render, SelectSources, DismissPrompt, RequestReboot, AtMenu, state
<1>2. ASSUME NEW d \in Devices, SelectDevice(f, d) PROVE Quiet /\ life = "running"
    <2> DEFINE j == [JobOn("probe", "read", Target(d)) EXCEPT !.offer = TRUE]
    <2>1. Role(j) = "none" /\ ~Fresh(j)
        BY NewFields DEF Role, Destructive, Fresh
    <2>2. Spawn(j) \/ UNCHANGED <<jobs, raced>>
        BY <1>2 DEF SelectDevice
    <2> HIDE DEF j
    <2> QED
        BY <1>2, <1>a, <1>b, <2>1, <2>2 DEF SelectDevice, AtMenu
<1>3. CASE RequestReprovision(f)
    <2> DEFINE j == JobOn("request", "read", ufs)
    <2>1. Role(j) = "none" /\ ~Fresh(j)
        BY NewFields DEF Role, Destructive, Fresh
    <2>2. Spawn(j) /\ phase' = phase
        BY <1>3 DEF RequestReprovision, state
    <2> HIDE DEF j
    <2> QED
        BY <1>3, <1>b, <2>1, <2>2 DEF RequestReprovision, AtMenu
<1>4. CASE ConfirmPrompt(f)
    <2> DEFINE j == [JobOn("reprovision", "announce", prompt) EXCEPT !.shown = seen[f].prompt.dev]
    <2>1. Role(j) = "armed" /\ ~Fresh(j)
        BY NewFields DEF Role, Destructive, Announced, Fresh
    <2>2. IF Busy THEN UNCHANGED <<jobs, raced>> ELSE Spawn(j)
        BY <1>4 DEF ConfirmPrompt
    <2> HIDE DEF j
    <2> QED
        BY <1>4, <1>a, <1>b, <2>1, <2>2 DEF ConfirmPrompt
<1>5. CASE StartInstall(f)
    <2> DEFINE j == Job("install", "announce")
    <2>1. Role(j) = "armed" /\ ~Fresh(j)
        BY NewFields DEF Role, Destructive, Announced, Fresh
    <2>2. Spawn(j) /\ phase' = phase /\ ~Busy
        BY <1>5 DEF StartInstall, CanInstall, state
    <2> HIDE DEF j
    <2> QED
        BY <1>5, <1>b, <2>1, <2>2 DEF StartInstall
<1>6. CASE Refresh(f)
    <2> DEFINE j == Job("refresh", "sources")
    <2>1. Role(j) = "none" /\ ~Fresh(j)
        BY NewFields DEF Role, Destructive, Fresh
    <2>2. Spawn(j) /\ phase' = phase
        BY <1>6 DEF Refresh, state
    <2> HIDE DEF j
    <2> QED
        BY <1>6, <1>b, <2>1, <2>2 DEF Refresh
<1>7. CASE Quit(f)
    BY <1>7 DEF Quit
<1> QED
    BY <1>1, <1>2, <1>3, <1>4, <1>5, <1>6, <1>7 DEF Operator

(* A slot without a thread does nothing; a discovery that has not announced  *)
(* itself can only do that.                                                  *)
LEMMA IdleStuck ==
    ASSUME NEW s \in Slots, jobs[s] = Idle PROVE ~Step(s)
BY NewFields DEF Step, At, Probing, Discover, Enumerate, Report, DiscoverBlank, RefreshSources,
   SettleSources, ProbeRead, ProbePublish, ProbeDismiss, ProbeStart, RequestPublish, Reprovision,
   Apply, Rewrite, ReprovisionFails, Rediscover, Adopt, Reprovisioned, Install, InstallRun,
   InstallEnds

LEMMA FreshStep ==
    ASSUME NEW s \in Slots, Fresh(jobs[s]), Step(s) PROVE Discover(s)
BY DEF Fresh, Step, At, Probing, Enumerate, Report, DiscoverBlank, RefreshSources,
   SettleSources, ProbeRead, ProbePublish, ProbeDismiss, ProbeStart, RequestPublish, Reprovision,
   Apply, Rewrite, ReprovisionFails, Rediscover, Adopt, Reprovisioned, Install, InstallRun,
   InstallEnds

(* The invariant in terms of roles. *)
Solo == ~raced => \A s, r \in Slots : Role(jobs[s]) # "none" /\ Role(jobs[r]) # "none" => s = r

First == \A s \in Slots : Fresh(jobs[s]) => Opening /\ \A r \in Slots \ {s} : jobs[r] = Idle

Truth ==
    ~raced /\ life \in {"running", "closing"} =>
        /\ phase = "Installing" <=> \E s \in Slots : Role(jobs[s]) = "install"
        /\ phase = "Provisioning" <=> \E s \in Slots : Role(jobs[s]) = "reprovision"

LEMMA InRoles == (PhaseSound <=> Solo /\ First) /\ (PhaseTellsTheTruth <=> Truth)
<1>1. \A j : /\ Destructive(j) <=> Role(j) # "none"
             /\ j.kind = "install" /\ Announced(j) <=> Role(j) = "install"
             /\ j.kind = "reprovision" /\ Announced(j) <=> Role(j) = "reprovision"
    BY DEF Role, Destructive, Announced
<1>2. \A s : At(s, {"discover"}, "announce") <=> Fresh(jobs[s])
    BY DEF At, Fresh
<1> HIDE DEF Role
<1>3. PhaseSound <=> Solo /\ First
    BY <1>1, <1>2 DEF PhaseSound, Solo, First
<1>4. PhaseTellsTheTruth <=> Truth
    BY <1>1 DEF PhaseTellsTheTruth, Truth
<1> QED
    BY <1>3, <1>4

(* What any step does to the roles and the phase. *)
Ends == raced' = raced /\ jobs' = [r \in Slots |-> Idle] /\ life' \notin {"running", "closing"}
Alive == life' \in {"running", "closing"} => life \in {"running", "closing"}

LEMMA NextRoles ==
    ASSUME TypeOK, [Next]_vars
    PROVE  \/ Ends
           \/ Alive /\ (Quiet \/ Arms)
           \/ Alive /\ \E s \in Slots : Announces(s) \/ Finishes(s) \/ Discovers(s)
<1>1. ASSUME NEW s \in Slots, Step(s)
      PROVE  Alive /\ (Quiet \/ Arms \/ Announces(s) \/ Finishes(s) \/ Discovers(s))
    <2>1. life' = life
        BY <1>1 DEF Step, Discover, Enumerate, Report, DiscoverBlank, RefreshSources,
           SettleSources, ProbeRead, ProbePublish, ProbeDismiss, ProbeStart, RequestPublish,
           Reprovision, Apply, Rewrite, ReprovisionFails, Rediscover, Adopt, Reprovisioned,
           Install, InstallRun, InstallEnds
    <2> QED
        BY <1>1, <2>1, StepRoles DEF Alive
<1>2. ASSUME NEW f \in Frontends, Render(f) \/ Operator(f)
      PROVE  Ends \/ (Alive /\ (Quiet \/ Arms))
    BY <1>2, OperatorRoles DEF Alive, Ends
<1>3. CASE Shutdown
    BY <1>3 DEF Shutdown, Ends
<1>4. CASE UNCHANGED vars
    BY <1>4 DEF vars, state, Quiet, Alive
<1> QED
    BY <1>1, <1>2, <1>3, <1>4 DEF Next

LEMMA IdleRole == Role(Idle) = "none" /\ ~Fresh(Idle)
BY NewFields DEF Role, Destructive, Fresh

(* A discovery that has not announced itself has been there from the start. *)
LEMMA FreshOld ==
    ASSUME TypeOK, [Next]_vars, NEW r \in Slots, Fresh(jobs'[r])
    PROVE  Fresh(jobs[r])
<1>1. CASE Ends
    BY <1>1, IdleRole DEF Ends
<1>2. CASE Quiet
    BY <1>2 DEF Quiet
<1>3. CASE Arms
    BY <1>3 DEF Arms
<1>4. ASSUME NEW s \in Slots, Announces(s) \/ Finishes(s) \/ Discovers(s)
      PROVE  Fresh(jobs[r])
    BY <1>4 DEF Announces, Finishes, Discovers, Others_
<1> QED
    BY <1>1, <1>2, <1>3, <1>4, NextRoles

(* Until then, nothing happens that it would have to fear. *)
LEMMA FirstInductive ==
    ASSUME TypeOK, First, [Next]_vars
    PROVE  First'
<1> SUFFICES ASSUME NEW r \in Slots, Fresh(jobs'[r])
             PROVE  Opening' /\ \A t \in Slots \ {r} : jobs'[t] = Idle
    BY DEF First
<1>1. Fresh(jobs[r]) /\ Opening /\ \A t \in Slots \ {r} : jobs[t] = Idle
    BY FreshOld DEF First
<1>2. ASSUME NEW s \in Slots, Step(s) PROVE FALSE
    <2>1. s = r
        BY <1>1, <1>2, IdleStuck
    <2>2. Goto(r, "enumerate")
        BY <1>1, <1>2, <2>1, FreshStep DEF Discover
    <2>3. jobs'[r] = [jobs[r] EXCEPT !.at = "enumerate"] /\ jobs[r] \in Jobs
        BY <2>2, PutOthers DEF Goto, TypeOK
    <2> QED
        BY <1>2, <2>3, EditFields DEF Fresh
<1>3. ASSUME NEW f \in Frontends, Render(f) \/ Operator(f)
      PROVE  Opening' /\ \A t \in Slots \ {r} : jobs'[t] = Idle
    <2>a. seen[f].busy /\ seen[f].prompt = None /\ Busy /\ phase = "Discovering"
        BY <1>1 DEF Opening, Busy
    <2>1. CASE Render(f)
        <3>1. seen' = [seen EXCEPT ![f] =
                 [prompt |-> IF f = "tui" /\ @.prompt # None /\ prompt # None
                               THEN @.prompt ELSE prompt,
                  reboot |-> CanReboot, busy |-> Busy]]
            BY <2>1 DEF Render
        <3>2. \A g \in Frontends : seen'[g].busy /\ seen'[g].prompt = None
            BY <1>1, <2>a, <3>1 DEF Opening, TypeOK
        <3> QED
            BY <1>1, <2>1, <3>2 DEF Render, Opening, state
    <2>2. ASSUME NEW d \in Devices, SelectDevice(f, d) PROVE FALSE
        BY <1>1, <2>2 DEF SelectDevice, Opening
    <2>3. CASE SelectSources(f) \/ RequestReboot(f)
        BY <1>1, <2>3 DEF SelectSources, RequestReboot, Opening, state
    <2>4. ~RequestReprovision(f)
        BY <1>1 DEF RequestReprovision, Opening
    <2>5. ~ConfirmPrompt(f) /\ ~DismissPrompt(f)
        BY <2>a DEF ConfirmPrompt, DismissPrompt
    <2>6. ~StartInstall(f) /\ ~Refresh(f)
        BY <2>a DEF StartInstall, Refresh, CanInstall
    <2>7. ~Quit(f)
        BY <1>1, IdleRole DEF Quit
    <2> QED
        BY <1>3, <2>1, <2>2, <2>3, <2>4, <2>5, <2>6, <2>7 DEF Operator
<1>4. ~Shutdown
    BY IdleRole DEF Shutdown
<1>5. CASE UNCHANGED vars
    BY <1>1, <1>5 DEF vars, state, Opening
<1> QED
    BY <1>2, <1>3, <1>4, <1>5 DEF Next

(* A destructive job stays alone until a race is recorded. *)
LEMMA SoloInductive ==
    ASSUME TypeOK, Solo, First, [Next]_vars
    PROVE  Solo'
<1> SUFFICES ASSUME ~raced', NEW s \in Slots, NEW r \in Slots,
                    Role(jobs'[s]) # "none", Role(jobs'[r]) # "none"
             PROVE  s = r
    BY DEF Solo
<1>1. CASE Ends
    BY <1>1, IdleRole DEF Ends
<1>2. CASE Quiet
    BY <1>2 DEF Quiet, Solo
<1>3. CASE Arms
    BY <1>3 DEF Arms, TypeOK
<1>4. ASSUME NEW t \in Slots, Announces(t) \/ Finishes(t) \/ Discovers(t)
      PROVE  s = r
    <2>1. \A q \in Slots : Role(jobs'[q]) # "none" => Role(jobs[q]) # "none"
        BY <1>4 DEF Announces, Finishes, Discovers, Others_
    <2>2. ~raced
        BY <1>4 DEF Announces, Finishes, Discovers
    <2> QED
        BY <2>1, <2>2 DEF Solo
<1> QED
    BY <1>1, <1>2, <1>3, <1>4, NextRoles

(* The phase follows the one destructive job. *)
LEMMA TruthInductive ==
    ASSUME TypeOK, Solo, First, Truth, [Next]_vars
    PROVE  Truth'
<1> SUFFICES ASSUME ~raced', life' \in {"running", "closing"}
             PROVE  /\ phase' = "Installing" <=> \E s \in Slots : Role(jobs'[s]) = "install"
                    /\ phase' = "Provisioning" <=> \E s \in Slots : Role(jobs'[s]) = "reprovision"
    BY DEF Truth
<1>1. ~Ends
    BY DEF Ends
<1>a. ASSUME Alive, ~raced
      PROVE  /\ phase = "Installing" <=> \E s \in Slots : Role(jobs[s]) = "install"
             /\ phase = "Provisioning" <=> \E s \in Slots : Role(jobs[s]) = "reprovision"
    BY <1>a DEF Alive, Truth
<1>2. CASE Alive /\ Quiet
    BY <1>2, <1>a DEF Quiet
<1>3. CASE Alive /\ Arms
    <2>1. ~raced /\ phase' = phase /\ phase \notin {"Installing", "Provisioning"}
        BY <1>3 DEF Arms, Busy, TypeOK
    <2>2. \A s \in Slots : Role(jobs[s]) \notin {"install", "reprovision"}
        BY <1>3, <1>a, <2>1
    <2>3. \A s \in Slots : Role(jobs'[s]) \notin {"install", "reprovision"}
        BY <1>3, <2>2 DEF Arms
    <2> QED
        BY <2>1, <2>3
<1>4. ASSUME Alive, NEW s \in Slots, Announces(s)
      PROVE  /\ phase' = "Installing" <=> \E t \in Slots : Role(jobs'[t]) = "install"
             /\ phase' = "Provisioning" <=> \E t \in Slots : Role(jobs'[t]) = "reprovision"
    <2>1. ~raced /\ Role(jobs[s]) = "armed"
        BY <1>4 DEF Announces
    <2>2. \A t \in Slots \ {s} : Role(jobs'[t]) = "none"
        BY <1>4, <2>1 DEF Announces, Others_, Solo
    <2> QED
        BY <1>4, <2>2 DEF Announces
<1>5. ASSUME Alive, NEW s \in Slots, Finishes(s)
      PROVE  /\ phase' = "Installing" <=> \E t \in Slots : Role(jobs'[t]) = "install"
             /\ phase' = "Provisioning" <=> \E t \in Slots : Role(jobs'[t]) = "reprovision"
    <2>1. ~raced /\ Role(jobs[s]) # "none"
        BY <1>5 DEF Finishes
    <2>2. \A t \in Slots : Role(jobs'[t]) = "none"
        BY <1>5, <2>1 DEF Finishes, Others_, Solo
    <2> QED
        BY <1>5, <2>2 DEF Finishes
<1>6. ASSUME Alive, NEW s \in Slots, Discovers(s)
      PROVE  /\ phase' = "Installing" <=> \E t \in Slots : Role(jobs'[t]) = "install"
             /\ phase' = "Provisioning" <=> \E t \in Slots : Role(jobs'[t]) = "reprovision"
    <2>1. \A t \in Slots : Role(jobs'[t]) = Role(jobs[t])
        BY <1>6 DEF Discovers, Others_
    <2>2. ~raced
        BY <1>6 DEF Discovers
    <2>3. phase' = phase \/ (phase = "Discovering" /\ phase' = "Ready")
        BY <1>6 DEF Discovers, First, Opening
    <2> QED
        BY <1>6, <1>a, <2>1, <2>2, <2>3
<1> QED
    BY <1>1, <1>2, <1>3, <1>4, <1>5, <1>6, NextRoles

(* PhaseSound and PhaseTellsTheTruth are inductive together. *)
LEMMA PhaseInductive ==
    TypeOK /\ PhaseSound /\ PhaseTellsTheTruth /\ [Next]_vars
        => PhaseSound' /\ PhaseTellsTheTruth'
<1>1. ASSUME TypeOK, Solo, First, Truth, [Next]_vars PROVE Solo' /\ First' /\ Truth'
    BY <1>1, SoloInductive, FirstInductive, TruthInductive
<1>2. (PhaseSound' <=> Solo' /\ First') /\ (PhaseTellsTheTruth' <=> Truth')
    BY InRoles, PTL
<1> QED
    BY <1>1, <1>2, InRoles

LEMMA PhaseInit == Init => PhaseSound /\ PhaseTellsTheTruth
<1> SUFFICES ASSUME Init PROVE Solo /\ First /\ Truth
    BY InRoles
<1>1. \A s \in Slots : Role(jobs[s]) = "none" /\ (Fresh(jobs[s]) => s = 1)
    BY IdleRole, NewFields DEF Init, Role, Destructive, Fresh
<1>2. \A s \in Slots \ {1} : jobs[s] = Idle
    BY DEF Init
<1>3. Opening
    BY DEF Init, Opening
<1> QED
    BY <1>1, <1>2, <1>3 DEF Solo, First, Truth, Init

(* The phase tells which destructive operation is at work, for any set of    *)
(* devices, frontends and threads, as long as none has raced another: what   *)
(* can_install, can_reboot and start_reprovision rely on.                    *)
THEOREM PhaseIsTrue == Spec => [](PhaseSound /\ PhaseTellsTheTruth)
BY PhaseInit, PhaseInductive, TypeCorrect, PTL DEF Spec
-------------------------------------------------------------------------------
(* What a job may do with its device, by what the operator has picked and by *)
(* the command line: only a probe carries an offer, one about a disk only if *)
(* it was picked; a request is about a pick; a dry run rewrites nothing.     *)
Careful(j, chosen, dry) ==
    /\ j.offer => j.kind = "probe"
    /\ (j.offer /\ j.disk) \/ j.kind = "request" => j.dev \in chosen
    /\ j.kind = "reprovision" /\ j.at = "rewriting" => ~dry

AllCareful == \A s \in Slots : Careful(jobs[s], picked, config.dry)

(* The edits of a step leave a job as careful as it was, unless they send it *)
(* to rewrite.                                                               *)
LEMMA EditCareful ==
    ASSUME NEW j \in Jobs, NEW p, NEW d, Careful(j, p, d), NEW a, a # "rewriting",
           NEW b, NEW c, NEW e
    PROVE  /\ Careful(Idle, p, d)
           /\ Careful([j EXCEPT !.at = a], p, d)
           /\ Careful([j EXCEPT !.at = a, !.ok = b], p, d)
           /\ Careful([j EXCEPT !.at = a, !.todo = c], p, d)
           /\ Careful([j EXCEPT !.todo = c], p, d)
           /\ Careful([j EXCEPT !.at = a, !.todo = c, !.ok = b], p, d)
           /\ j.kind = "reprovision" => Careful([j EXCEPT !.at = a, !.disk = b, !.todo = c], p, d)
           /\ j.kind = "install" => Careful([j EXCEPT !.at = a, !.dev = e, !.ok = b], p, d)
           /\ Careful(Left(j), p, d)
<1>0. j \in JobRecords
    BY DEF Jobs
<1>a. Careful(Idle, p, d)
    BY DEF Careful, Idle
<1>1. Careful([j EXCEPT !.at = a], p, d)
    BY <1>0 DEF Careful, JobRecords
<1>2. Careful([j EXCEPT !.at = a, !.ok = b], p, d)
    BY <1>0 DEF Careful, JobRecords
<1>3. Careful([j EXCEPT !.at = a, !.todo = c], p, d)
    BY <1>0 DEF Careful, JobRecords
<1>4. Careful([j EXCEPT !.todo = c], p, d)
    BY <1>0 DEF Careful, JobRecords
<1>5. Careful([j EXCEPT !.at = a, !.todo = c, !.ok = b], p, d)
    BY <1>0 DEF Careful, JobRecords
<1>6. ASSUME j.kind = "reprovision"
      PROVE  Careful([j EXCEPT !.at = a, !.disk = b, !.todo = c], p, d)
    BY <1>0, <1>6 DEF Careful, JobRecords
<1>7. ASSUME j.kind = "install"
      PROVE  Careful([j EXCEPT !.at = a, !.dev = e, !.ok = b], p, d)
    BY <1>0, <1>7 DEF Careful, JobRecords
<1>8. Careful(Left(j), p, d)
    <2>1. Careful([j EXCEPT !.at = "settle"], p, d)
        BY <1>0 DEF Careful, JobRecords
    <2> QED
        BY <1>a, <2>1 DEF Left
<1> QED
    BY <1>a, <1>1, <1>2, <1>3, <1>4, <1>5, <1>6, <1>7, <1>8

(* New jobs: without an offer, or with one that may be made. *)
LEMMA NewCareful ==
    ASSUME NEW k, NEW a, a # "rewriting", NEW t, NEW x, NEW p, NEW d
    PROVE  /\ k # "request" => /\ Careful(Job(k, a), p, d)
                               /\ Careful(JobOn(k, a, t), p, d)
                               /\ Careful([JobOn(k, a, t) EXCEPT !.shown = x], p, d)
           /\ t.dev \in p => Careful(JobOn(k, a, t), p, d)
           /\ ~t.disk \/ t.dev \in p => Careful([JobOn("probe", a, t) EXCEPT !.offer = TRUE], p, d)
BY DEF Careful, Job, JobOn, Idle

(* A step that replaces one job by a careful one, or spawns one beside       *)
(* careful ones, leaves all careful.                                         *)
LEMMA PutCareful ==
    ASSUME TypeOK, AllCareful, NEW s \in Slots, NEW j, Put(s, j), Careful(j, picked, config.dry),
           UNCHANGED <<config, picked>>
    PROVE  AllCareful'
<1>1. \A r \in Slots : Careful(jobs'[r], picked, config.dry)
    BY PutOthers DEF AllCareful, Others_
<1> QED
    BY <1>1 DEF AllCareful

LEMMA SpawnCareful ==
    ASSUME NEW js \in [Slots -> Jobs], NEW j, SpawnOn(js, j), config' = config,
           Careful(j, picked', config.dry),
           \A r \in Slots : Careful(js[r], picked', config.dry)
    PROVE  AllCareful'
<1>1. FreeSlot \in Slots /\ jobs' = [js EXCEPT ![FreeSlot] = j]
    BY FreeSlotType DEF SpawnOn
<1>2. \A r \in Slots : Careful(jobs'[r], picked', config.dry)
    BY <1>1
<1> QED
    BY <1>2 DEF AllCareful

(* Every step of a thread leaves every job careful. *)
LEMMA StepCareful ==
    ASSUME TypeOK, AllCareful, NEW s \in Slots, Step(s)
    PROVE  AllCareful' /\ UNCHANGED <<config, picked>>
<1> DEFINE J == jobs[s]
           C(j) == Careful(j, picked, config.dry)
<1>a. J \in Jobs /\ jobs \in [Slots -> Jobs] /\ (\A r \in Slots : C(jobs[r])) /\ C(J)
    BY DEF TypeOK, AllCareful
<1>z. UNCHANGED <<config, picked>>
    BY DEF Step, Discover, Enumerate, Report, DiscoverBlank, RefreshSources, SettleSources,
       ProbeRead, ProbePublish, ProbeDismiss, ProbeStart, RequestPublish, Reprovision, Apply,
       Rewrite, ReprovisionFails, Rediscover, Adopt, Reprovisioned, Install, InstallRun, InstallEnds
<1> SUFFICES AllCareful'
    BY <1>z
<1>r. "read" # "rewriting"
    OBVIOUS
<1>p. \A j : Put(s, j) /\ C(j) => AllCareful'
    BY <1>z, PutCareful
<1>s. ASSUME NEW i \in Jobs, NEW j, SpawnOn([jobs EXCEPT ![s] = i], j), C(i), C(j)
      PROVE  AllCareful'
    <2>1. [jobs EXCEPT ![s] = i] \in [Slots -> Jobs]
              /\ \A r \in Slots : C([jobs EXCEPT ![s] = i][r])
        BY <1>a, <1>s
    <2>2. picked' = picked /\ config' = config
        BY <1>z
    <2> HIDE DEF C
    <2> QED
        BY <1>s, <2>1, <2>2, SpawnCareful DEF C
<1>g. ASSUME NEW a, Goto(s, a), a # "rewriting" PROVE AllCareful'
    BY <1>a, <1>g, <1>p, EditCareful DEF Goto
<1>e. End(s) => AllCareful'
    <2>1. C(Idle)
        BY DEF Careful, Idle
    <2> HIDE DEF C
    <2> QED
        BY <1>p, <2>1 DEF End
<1>l. Leave(s) => AllCareful'
    BY <1>a, <1>p, <1>r, EditCareful DEF Leave
<1>1. CASE Discover(s) \/ Enumerate(s) \/ RefreshSources(s) \/ ProbeDismiss(s) \/ Reprovision(s)
             \/ Rewrite(s) \/ Install(s)
    BY <1>1, <1>g DEF Discover, Enumerate, RefreshSources, ProbeDismiss, Reprovision, Rewrite,
       Install
<1>2. CASE SettleSources(s) \/ RequestPublish(s) \/ ReprovisionFails(s) \/ Reprovisioned(s)
             \/ InstallEnds(s)
    BY <1>2, <1>e DEF SettleSources, RequestPublish, ReprovisionFails, Reprovisioned, InstallEnds
<1>3. CASE Report(s)
    <2> DEFINE next(d) == [J EXCEPT !.at = "blanks", !.todo = d]
    <2>1. \A d \in SUBSET Devices : next(d) \in Jobs
        BY <1>a, EditType DEF Places
    <2>2. PICK d \in SUBSET Devices :
             \/ SpawnOn([jobs EXCEPT ![s] = next(d)], JobOn("probe", "read", Target(target)))
             \/ Put(s, next(d))
        BY <1>3 DEF Report, Devices
    <2>3. C(next(d))
        BY <1>a, EditCareful
    <2>4. C(JobOn("probe", "read", Target(target)))
        BY NewCareful
    <2> HIDE DEF next, C
    <2> QED
        BY <1>p, <1>s, <2>1, <2>2, <2>3, <2>4
<1>4. CASE DiscoverBlank(s)
    <2> DEFINE next(d) == [J EXCEPT !.todo = @ \ {d}]
               new(d) == [JobOn("probe", "read", Target(d)) EXCEPT !.offer = TRUE]
    <2>1. CASE Goto(s, "sources")
        BY <2>1, <1>g
    <2>2. CASE \E d \in J.todo :
                  Put(s, next(d)) \/ (~HasLus(d) /\ SpawnOn([jobs EXCEPT ![s] = next(d)], new(d)))
        <3>1. PICK d \in J.todo :
                  Put(s, next(d)) \/ (~HasLus(d) /\ SpawnOn([jobs EXCEPT ![s] = next(d)], new(d)))
            BY <2>2
        <3>2. next(d) \in Jobs
            <4>1. J.todo \ {d} \in SUBSET Devices
                BY <1>a DEF Jobs, JobRecords
            <4>2. "blanks" \in Places /\ TRUE \in BOOLEAN
                BY DEF Places
            <4>3. \A e \in SUBSET Devices : [J EXCEPT !.todo = e] \in Jobs
                BY <1>a, <4>2, EditType
            <4> QED
                BY <4>1, <4>3
        <3>3. C(next(d))
            <4>1. \A e : C([J EXCEPT !.todo = e])
                BY <1>a, <1>r, EditCareful
            <4> QED
                BY <4>1
        <3>4. HasLus(d) \/ C(new(d))
            BY NewCareful DEF Target
        <3> HIDE DEF next, new, C
        <3> QED
            BY <1>p, <1>s, <3>1, <3>2, <3>3, <3>4
    <2> QED
        BY <1>4, <2>1, <2>2 DEF DiscoverBlank
<1>5. CASE ProbeRead(s)
    <2> DEFINE j == [J EXCEPT !.at = "publish", !.ok = (layout[J.dev] = "scheme")]
    <2>1. C(j)
        BY <1>a, EditCareful
    <2>2. Put(s, j) \/ Leave(s)
        BY <1>5 DEF ProbeRead
    <2> HIDE DEF j, C
    <2> QED
        BY <1>p, <1>l, <2>1, <2>2
<1>6. CASE ProbePublish(s)
    BY <1>6, <1>g, <1>l DEF ProbePublish
<1>7. CASE ProbeStart(s)
    <2> DEFINE new == [JobOn("reprovision", "announce", J) EXCEPT !.shown = "flag"]
    <2>1. Leave(s) \/ SpawnOn([jobs EXCEPT ![s] = Left(J)], new)
        BY <1>7 DEF ProbeStart
    <2>2. Left(J) \in Jobs
        BY <1>a, EditType DEF Places
    <2>3. C(Left(J))
        BY <1>a, <1>r, EditCareful
    <2>4. C(new)
        BY NewCareful
    <2> HIDE DEF new, C
    <2> QED
        BY <1>l, <1>s, <2>1, <2>2, <2>3, <2>4
<1>8. CASE Apply(s)
    <2>1. CASE layout[J.dev] = "scheme" \/ config.dry
        BY <1>8, <1>g, <2>1 DEF Apply
    <2>2. CASE ~config.dry
        <3>1. PICK a : Goto(s, a)
            BY <1>8 DEF Apply
        <3>2. C([J EXCEPT !.at = a])
            BY <1>8, <1>a, <2>2 DEF Careful, Apply, At, Jobs, JobRecords
        <3> QED
            BY <1>p, <3>1, <3>2 DEF Goto
    <2> QED
        BY <2>1, <2>2
<1>9. CASE Rediscover(s)
    <2> DEFINE j == [J EXCEPT !.at = "adopt", !.todo = Visible, !.ok = (target \in Visible)]
    <2>1. C(j)
        BY <1>a, EditCareful
    <2>2. Put(s, j)
        BY <1>9 DEF Rediscover
    <2> HIDE DEF j, C
    <2> QED
        BY <1>p, <2>1, <2>2
<1>10. CASE Adopt(s)
    <2> DEFINE j == [J EXCEPT !.at = "read", !.disk = HasLus(J.dev), !.todo = {}]
    <2>1. C(j)
        BY <1>10, <1>a, EditCareful DEF Adopt, At
    <2>2. Put(s, j)
        BY <1>10 DEF Adopt
    <2> HIDE DEF j, C
    <2> QED
        BY <1>p, <2>1, <2>2
<1>11. CASE InstallRun(s)
    <2> DEFINE j == [J EXCEPT !.at = "running", !.dev = target,
                              !.ok = (target \in devices /\ complete)]
    <2>1. C(j)
        BY <1>11, <1>a, EditCareful DEF InstallRun, At
    <2>2. Put(s, j)
        BY <1>11 DEF InstallRun
    <2> HIDE DEF j, C
    <2> QED
        BY <1>p, <2>1, <2>2
<1> QED
    BY <1>z, <1>1, <1>2, <1>3, <1>4, <1>5, <1>6, <1>7, <1>8, <1>9, <1>10, <1>11 DEF Step

(* An operator's call starts only careful jobs, and records what it picks. *)
LEMMA OperatorCareful ==
    ASSUME TypeOK, AllCareful, NEW f \in Frontends, Render(f) \/ Operator(f)
    PROVE  AllCareful' /\ config' = config /\ picked \subseteq picked'
<1> DEFINE C(j) == Careful(j, picked', config.dry)
<1>1. config' = config /\ picked \subseteq picked'
    BY DEF Render, Operator, SelectDevice, SelectSources, RequestReprovision, ConfirmPrompt,
       DismissPrompt, StartInstall, Refresh, RequestReboot, Quit
<1> SUFFICES AllCareful'
    BY <1>1
<1>2. \A r \in Slots : C(jobs[r])
    BY <1>1 DEF AllCareful, Careful
<1>3. UNCHANGED jobs => AllCareful'
    BY <1>1, <1>2 DEF AllCareful
<1>4. ASSUME NEW j, Spawn(j), C(j) PROVE AllCareful'
    BY <1>1, <1>2, <1>4, SpawnCareful DEF Spawn, TypeOK
<1>5. CASE Render(f) \/ SelectSources(f) \/ DismissPrompt(f) \/ RequestReboot(f)
    BY <1>3, <1>5 DEF Render, SelectSources, DismissPrompt, RequestReboot
<1>6. ASSUME NEW d \in Devices, SelectDevice(f, d) PROVE AllCareful'
    <2> DEFINE j == [JobOn("probe", "read", Target(d)) EXCEPT !.offer = TRUE]
    <2>1. C(j)
        BY <1>6, NewCareful DEF SelectDevice, Target
    <2>2. Spawn(j) \/ UNCHANGED jobs
        BY <1>6 DEF SelectDevice
    <2> HIDE DEF j, C
    <2> QED
        BY <1>3, <1>4, <2>1, <2>2
<1>7. CASE RequestReprovision(f)
    <2>1. C(JobOn("request", "read", ufs))
        BY <1>7, NewCareful DEF RequestReprovision
    <2> QED
        BY <1>4, <1>7, <2>1 DEF RequestReprovision
<1>8. CASE ConfirmPrompt(f)
    <2> DEFINE j == [JobOn("reprovision", "announce", prompt) EXCEPT !.shown = seen[f].prompt.dev]
    <2>1. C(j)
        BY NewCareful
    <2>2. Spawn(j) \/ UNCHANGED jobs
        BY <1>8 DEF ConfirmPrompt
    <2> HIDE DEF j, C
    <2> QED
        BY <1>3, <1>4, <2>1, <2>2
<1>9. CASE StartInstall(f)
    BY <1>4, <1>9, NewCareful DEF StartInstall
<1>10. CASE Refresh(f)
    BY <1>4, <1>10, NewCareful DEF Refresh
<1>11. CASE Quit(f)
    BY <1>11 DEF Quit, AllCareful, Careful, Idle
<1> QED
    BY <1>1, <1>5, <1>6, <1>7, <1>8, <1>9, <1>10, <1>11 DEF Operator

(* The prompt is raised by a careful job only; what the operator has picked  *)
(* stays picked.                                                             *)
LEMMA CarefulInductive ==
    TypeOK /\ AllCareful /\ OfferedOnlyIfChosen /\ [Next]_vars
        => AllCareful' /\ OfferedOnlyIfChosen'
<1> SUFFICES ASSUME TypeOK, AllCareful, OfferedOnlyIfChosen, [Next]_vars
             PROVE  AllCareful' /\ OfferedOnlyIfChosen'
    OBVIOUS
<1>a. prompt' \in {prompt, None} /\ picked \subseteq picked' => OfferedOnlyIfChosen'
    BY DEF OfferedOnlyIfChosen
<1>1. ASSUME NEW s \in Slots, Step(s) PROVE AllCareful' /\ OfferedOnlyIfChosen'
    <2>1. AllCareful' /\ UNCHANGED <<config, picked>>
        BY <1>1, StepCareful
    <2>b. Careful(jobs[s], picked, config.dry)
        BY DEF AllCareful
    <2>2. CASE ProbePublish(s)
        <3>1. \/ prompt' = prompt
              \/ prompt' = [dev |-> jobs[s].dev, disk |-> jobs[s].disk] /\ jobs[s].offer
            BY <2>2 DEF ProbePublish
        <3> QED
            BY <1>a, <2>1, <2>b, <3>1 DEF OfferedOnlyIfChosen, Careful
    <2>3. CASE RequestPublish(s)
        <3>1. \/ prompt' = prompt
              \/ prompt' = [dev |-> jobs[s].dev, disk |-> jobs[s].disk]
            BY <2>3 DEF RequestPublish
        <3>2. jobs[s].dev \in picked
            BY <2>3, <2>b DEF RequestPublish, At, Careful
        <3> QED
            BY <1>a, <2>1, <3>1, <3>2 DEF OfferedOnlyIfChosen
    <2>4. CASE ~ProbePublish(s) /\ ~RequestPublish(s)
        <3>1. prompt' \in {prompt, None}
            BY <1>1, <2>4 DEF Step, state, Discover, Enumerate, Report, DiscoverBlank,
               RefreshSources, SettleSources, ProbeRead, ProbeDismiss, ProbeStart, Reprovision,
               Apply, Rewrite, ReprovisionFails, Rediscover, Adopt, Reprovisioned, Install,
               InstallRun, InstallEnds
        <3> QED
            BY <1>a, <2>1, <3>1
    <2> QED
        BY <2>1, <2>2, <2>3, <2>4
<1>2. ASSUME NEW f \in Frontends, Render(f) \/ Operator(f)
      PROVE  AllCareful' /\ OfferedOnlyIfChosen'
    <2>1. AllCareful' /\ picked \subseteq picked'
        BY <1>2, OperatorCareful
    <2>2. prompt' \in {prompt, None}
        BY <1>2 DEF Render, Operator, state, SelectDevice, SelectSources, RequestReprovision,
           ConfirmPrompt, DismissPrompt, StartInstall, Refresh, RequestReboot, Quit
    <2> QED
        BY <1>a, <2>1, <2>2
<1>3. CASE Shutdown
    BY <1>3, <1>a DEF Shutdown, state, AllCareful, Careful, Idle
<1>4. CASE UNCHANGED vars
    BY <1>4 DEF vars, state, AllCareful, OfferedOnlyIfChosen
<1> QED
    BY <1>1, <1>2, <1>3, <1>4 DEF Next

LEMMA CarefulAlways == Spec => [](AllCareful /\ OfferedOnlyIfChosen)
<1>1. Init => AllCareful /\ OfferedOnlyIfChosen
    <2> SUFFICES ASSUME Init PROVE AllCareful /\ OfferedOnlyIfChosen
        OBVIOUS
    <2>1. Careful(Idle, picked, config.dry)
        BY DEF Careful, Idle
    <2>2. Careful(Job("discover", "announce"), picked, config.dry)
        BY NewCareful
    <2>3. jobs = [s \in Slots |-> IF s = 1 THEN Job("discover", "announce") ELSE Idle]
        BY DEF Init
    <2>4. prompt = None
        BY DEF Init
    <2> QED
        BY <2>1, <2>2, <2>3, <2>4 DEF AllCareful, OfferedOnlyIfChosen
<1> QED
    BY <1>1, CarefulInductive, TypeCorrect, PTL DEF Spec

(* A device that holds logical units is offered for reprovisioning only      *)
(* after the operator chose it, whatever probes and requests are under way.  *)
THEOREM OfferIsChosen == Spec => []OfferedOnlyIfChosen
BY CarefulAlways, PTL

(* With --dry-run no device is rewritten, whichever thread got how far.      *)
THEOREM DryRunIsDry == Spec => DryRunTouchesNothing
<1>1. ASSUME TypeOK, AllCareful, [Next]_vars PROVE [config.dry => layout' = layout]_vars
    <2>1. ASSUME NEW s \in Slots, Step(s), config.dry PROVE layout' = layout
        <3>1. jobs[s].kind = "reprovision" => jobs[s].at # "rewriting"
            BY <1>1, <2>1 DEF AllCareful, Careful
        <3> QED
            BY <2>1, <3>1 DEF Step, Discover, Enumerate, Report, DiscoverBlank, RefreshSources,
               SettleSources, ProbeRead, ProbePublish, ProbeDismiss, ProbeStart, RequestPublish,
               Reprovision, Apply, Rewrite, ReprovisionFails, Rediscover, Adopt, Reprovisioned,
               Install, InstallRun, InstallEnds, At
    <2>2. ASSUME NEW f \in Frontends, Render(f) \/ Operator(f) PROVE layout' = layout
        BY <2>2 DEF Render, Operator, SelectDevice, SelectSources, RequestReprovision,
           ConfirmPrompt, DismissPrompt, StartInstall, Refresh, RequestReboot, Quit
    <2>3. CASE Shutdown
        BY <2>3 DEF Shutdown
    <2>4. CASE UNCHANGED vars
        BY <2>4
    <2> QED
        BY <1>1, <2>1, <2>2, <2>3, <2>4 DEF Next
<1> QED
    BY <1>1, TypeCorrect, CarefulAlways, PTL DEF Spec, DryRunTouchesNothing

(* A destructive job is alone until a race is recorded, and nothing runs     *)
(* beside a discovery that has not announced itself.                         *)
THEOREM PhaseIsSound == Spec => []PhaseSound
BY PhaseIsTrue, PTL
===============================================================================
