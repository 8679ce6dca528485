--------------------------------- MODULE Stage ---------------------------------
(***************************************************************************)
(* Verify-first staging (core/stage.rs) with the reader of module Fetch:   *)
(* a bundle archive unpacked, every artifact copied into the scratch       *)
(* directory and checked against its digest, the copies handed to the      *)
(* install, and what is cleaned up when that ends; over attempts that      *)
(* fail, are killed or run out of room, and are repeated.                  *)
(*                                                                         *)
(* A path is <<directory, name>>: "cache" is cfg.cache_dir, "tree" the     *)
(* directory in it that an archive is unpacked into, both on the scratch   *)
(* filesystem; "media" is elsewhere; a file has one path.  Directories,    *)
(* the bar and the log are left out.  The rest of the install is one step  *)
(* that reads the copies.                                                  *)
(***************************************************************************)
EXTENDS Fetch, Integers, FiniteSetsExt

CONSTANTS
    Jobs,       \* installs the operator may ask for, see Artifact and Unpack
    OwnFiles,   \* the operator's files: a function from paths to blocks
    Room,       \* blocks on the scratch filesystem
    Margin,     \* FREE_SPACE_MARGIN
    MaxOthers,  \* bound on the blocks other users of it take
    MaxKills    \* bound on kills

InOrder(blocks) == \A i \in DOMAIN blocks : blocks[i][2] = i

\* What a plan lists: artifacts that differ in location and file name, none read from
\* where another is copied to; no digest of anything unknown.
Listing(arts) ==
    /\ DOMAIN arts = 1 .. Len(arts) /\ Len(arts) \in Nat
    /\ \A i \in DOMAIN arts :
          /\ arts[i].sha \in Contents \cup {"none"} /\ arts[i].size \in Nat
          /\ \A k \in DOMAIN arts \ {i} :
                /\ arts[k].rel # arts[i].rel /\ arts[k].loc # arts[i].loc
                /\ arts[k].loc # <<"cache", arts[i].rel>>

Planned(j) ==
    /\ Listing(j.arts) /\ j.estimate \in Nat
    /\ DOMAIN j.archive = 1 .. Len(j.archive) /\ Len(j.archive) \in Nat
    /\ \A i \in DOMAIN j.archive : j.archive[i].content \in Contents

ASSUME StageAssumption ==
    /\ {Room, Margin, MaxOthers, MaxKills} \subseteq Nat
    /\ IsFiniteSet(DOMAIN OwnFiles)
    /\ \A p \in DOMAIN OwnFiles : OwnFiles[p] \in Seq(Blocks) /\ InOrder(OwnFiles[p])
    /\ \A j \in Jobs : Planned(j)

VARIABLES
    job,      \* the request: arts, archive, keep, dry
    at,       \* the step of the run, "idle" when there is none
    next,     \* the artifact, or member of the archive, that is next
    files,    \* every file there is, with its blocks
    created,  \* Staged.created
    map,      \* Staged.map: pairs of location and copy
    others,   \* blocks others take
    outcome, kills

run == <<job, at, next, created, map, outcome>>
vars == <<fetchVars, run, files, others, kills>>

ScratchFiles == {p \in DOMAIN files : p[1] \in {"cache", "tree"}}
Taken == SumFunction([p \in ScratchFiles |-> Len(files[p])])
Free == Room - others - Taken
Sizes(arts) == SumFunction([i \in DOMAIN arts |-> arts[i].size])

Put(path, blocks) == [p \in DOMAIN files \cup {path} |-> IF p = path THEN blocks ELSE files[p]]
Without(paths) == [p \in DOMAIN files \ paths |-> files[p]]

Artifact == job.arts[next]
Dest(a) == <<"cache", a.rel>>
\* Mutant: what is there already is copied onto itself.
InPlaceNever(a) == FALSE

InPlace(a) == ~Remote(a.loc) /\ a.loc = Dest(a)

\* Mutant: nobody looks at what is free.
EnoughAlways(needed) == TRUE

\* ensure_space: asked beforehand, not set aside.
Enough(needed) == Free >= needed + Margin

NoJob == [arts |-> <<>>, archive |-> <<>>, estimate |-> 0, keep |-> FALSE, dry |-> FALSE]

Init ==
    /\ FetchInit
    /\ job = NoJob /\ at = "idle" /\ next = 1
    /\ files = OwnFiles /\ created = {} /\ map = <<>>
    /\ others = 0 /\ outcome = "none" /\ kills = 0
-------------------------------------------------------------------------------
Start ==
    /\ at = "idle"
    /\ job' \in Jobs
    /\ next' = 1 /\ created' = {} /\ map' = <<>> /\ outcome' = "none"
    /\ at' = IF job'.archive = <<>> THEN "space" ELSE "unpack"
    /\ UNCHANGED <<fetchVars, files, others, kills>>

\* Whatever ends a run, Staged is dropped: the copies go, unless they are to be kept.
Dispose(result) ==
    /\ at' = "idle" /\ outcome' = result
    /\ files' = IF job.keep \/ job.dry THEN files ELSE Without(created)
    /\ Close /\ map' = <<>>
    /\ UNCHANGED <<served, job, next, created, others, kills>>

\* unpack_bundle, a member at a time; a member may fail half way.
UnpackSpace ==
    /\ at = "unpack"
    /\ IF job.dry THEN at' = "space" /\ UNCHANGED <<stream, job, next, created, map, outcome, files>>
       ELSE IF Enough(job.estimate)
       THEN at' = "unpacking" /\ UNCHANGED <<stream, job, next, created, map, outcome, files>>
       ELSE Dispose("failed")
    /\ UNCHANGED <<served, others, kills>>

Unpack ==
    /\ at = "unpacking" /\ next <= Len(job.archive)
    /\ LET member == job.archive[next]
           whole == Body(member.content)
           room == Free + (IF member.path \in DOMAIN files THEN Len(files[member.path]) ELSE 0)
       IN \/ /\ Len(whole) <= room
             /\ files' = Put(member.path, whole) /\ next' = next + 1
             /\ UNCHANGED <<stream, at, outcome>>
          \/ \E n \in 0 .. Len(whole) - 1 :
                /\ n <= room
                /\ files' = Put(member.path, SubSeq(whole, 1, n))
                /\ at' = "idle" /\ outcome' = "failed"
                /\ UNCHANGED <<stream, next>>
    /\ UNCHANGED <<served, job, created, map, others, kills>>

Unpacked ==
    /\ at = "unpacking" /\ next > Len(job.archive)
    /\ at' = "space" /\ next' = 1
    /\ UNCHANGED <<fetchVars, job, created, map, outcome, files, others, kills>>

\* run: nothing is copied in a dry run; otherwise there is room for everything.
CheckSpace ==
    /\ at = "space"
    /\ \/ /\ job.dry \/ Enough(Sizes(job.arts))
          /\ at' = IF job.dry THEN "staged" ELSE "stage"
          /\ UNCHANGED <<fetchVars, job, next, created, map, outcome, files, others, kills>>
       \/ ~job.dry /\ ~Enough(Sizes(job.arts)) /\ Dispose("failed")

OpenArtifact ==
    /\ at = "stage" /\ next <= Len(job.arts)
    /\ \/ /\ Remote(Artifact.loc) \/ Artifact.loc \in DOMAIN files
          /\ Open(Artifact.loc, IF Remote(Artifact.loc) THEN <<>> ELSE files[Artifact.loc])
          /\ at' = "copy"
          /\ IF InPlace(Artifact) THEN UNCHANGED <<files, created>>
             ELSE files' = Put(Dest(Artifact), <<>>) /\ created' = created \cup {Dest(Artifact)}
          /\ UNCHANGED <<served, job, next, map, outcome, others, kills>>
       \/ Dispose("failed")

\* copy or drain: what was read is written, if it still fits.
Copy ==
    /\ at = "copy" /\ reader \in {"open", "broken"}
    /\ \/ /\ Read
          /\ IF got' = got \/ InPlace(Artifact) THEN UNCHANGED files
             ELSE Free > 0 /\ files' = Put(Dest(Artifact), got')
          /\ UNCHANGED <<served, run, others, kills>>
       \/ ~InPlace(Artifact) /\ Free <= 0 /\ Dispose("failed")

CopyFails ==
    /\ at = "copy" /\ reader \in {"failed", "ended"}
    /\ Dispose("failed")

\* Mutant: a wrong digest is a warning.
CheckLenient ==
    /\ at = "copy" /\ reader = "ended"
    /\ map' = Append(map, <<Artifact.loc, Dest(Artifact)>>)
    /\ next' = next + 1 /\ at' = "stage" /\ Close
    /\ UNCHANGED <<served, job, created, outcome, files, others, kills>>

\* The end of the artifact, synced: its digest must not be wrong.
Check ==
    /\ at = "copy" /\ reader = "ended" /\ Verify(Artifact.sha) # "mismatch"
    /\ map' = Append(map, <<Artifact.loc, Dest(Artifact)>>)
    /\ next' = next + 1 /\ at' = "stage" /\ Close
    /\ UNCHANGED <<served, job, created, outcome, files, others, kills>>

Staged ==
    /\ at = "stage" /\ next > Len(job.arts)
    /\ at' = "staged"
    /\ UNCHANGED <<fetchVars, job, next, created, map, outcome, files, others, kills>>

\* The install reads the copies, and ends one way or the other.
Install == at = "staged" /\ \E result \in {"done", "failed"} : Dispose(result)
-------------------------------------------------------------------------------
Kill ==
    /\ at # "idle" /\ kills < MaxKills
    /\ at' = "idle" /\ outcome' = "killed" /\ kills' = kills + 1 /\ Close /\ map' = <<>>
    /\ UNCHANGED <<served, job, next, created, files, others>>

OthersUse ==
    /\ others' \in 0 .. MaxOthers /\ others' # others /\ others' - others <= Free
    /\ UNCHANGED <<fetchVars, run, files, kills>>

ServerChanges == Republish /\ UNCHANGED <<run, files, others, kills>>

Step ==
    \/ UnpackSpace \/ Unpack \/ Unpacked \/ CheckSpace \/ OpenArtifact
    \/ Copy \/ CopyFails \/ Check \/ Staged \/ Install

Next == Start \/ Step \/ Kill \/ OthersUse \/ ServerChanges

Spec == Init /\ [][Next]_vars
FairSpec == Spec /\ WF_vars(Step)
-------------------------------------------------------------------------------
Steps == {"idle", "unpack", "unpacking", "space", "stage", "copy", "staged"}

\* The types of the state; a stream is open only while an artifact is copied.
TypeOK ==
    /\ served \in [Urls -> Contents] /\ rest \in Seq(Blocks) /\ got \in Seq(Blocks)
    /\ framed \in BOOLEAN /\ resumes \in 0 .. MaxResumes
    /\ reader \in {"closed", "open", "broken", "ended", "failed"}
    /\ job \in Jobs \cup {NoJob} /\ at \in Steps /\ (at = "copy") = (reader # "closed")
    /\ next \in (1 .. 1 + Len(job.arts)) \cup (1 .. 1 + Len(job.archive))
    /\ \A p \in DOMAIN files : files[p] \in Seq(Blocks)
    /\ created \subseteq {<<"cache", job.arts[i].rel>> : i \in DOMAIN job.arts}
    /\ map \in Seq({<<job.arts[i].loc, <<"cache", job.arts[i].rel>>>> : i \in DOMAIN job.arts})
    /\ others \in 0 .. MaxOthers
    /\ outcome \in {"none", "done", "failed", "killed"} /\ kills \in 0 .. MaxKills

\* localise_build and its like: the copy that stands in for a location.
StagedPath(loc) == map[Min({i \in DOMAIN map : map[i][1] = loc})][2]

\* What the install reads is, block for block, what the manifest published a digest
\* of, whatever broke off, was resumed, was replaced on the server meanwhile or was
\* left there by an earlier run (stage.rs:3-7); as long as no two artifacts of a run
\* have the same file name.
InstallsWhatWasVerified ==
    at = "staged" /\ ~job.dry =>
        \A i \in DOMAIN job.arts :
            job.arts[i].sha # "none" =>
                files[StagedPath(job.arts[i].loc)] = Body(job.arts[i].sha)

\* Where a run writes: to its copies, unless the artifact itself lies there, and to
\* what it unpacks.
Writes(j) ==
    {<<"cache", j.arts[i].rel>> :
        i \in {k \in DOMAIN j.arts :
                  Remote(j.arts[k].loc) \/ j.arts[k].loc # <<"cache", j.arts[k].rel>>}}
    \cup {j.archive[i].path : i \in DOMAIN j.archive}

\* Ending a run removes the files it created, all of them unless they are to be
\* kept, and no step of a run changes or removes any other file: not an artifact that
\* lies in the scratch directory itself, nor another file of the operator's or what
\* another run has kept (stage.rs:137, 414).  A file of the operator's that lies where
\* a copy or a member of an archive goes is not spared: File::create empties it
\* (stage.rs:433), and it goes with the copies.
RemovesOnlyItsOwn ==
    [][/\ \A p \in DOMAIN files \ Writes(job) : p \in DOMAIN files' /\ files'[p] = files[p]
       /\ at' = "idle" /\ outcome' \in {"done", "failed"} /\ ~job.keep /\ ~job.dry =>
            /\ created' \cap DOMAIN files' = {}
            /\ outcome' = "done" =>
                 \A i \in DOMAIN job.arts :
                    InPlace(job.arts[i]) \/ Dest(job.arts[i]) \notin DOMAIN files']_vars

Honest ==
    /\ \A i \in DOMAIN job.arts :
         LET a == job.arts[i]
         IN IF Remote(a.loc)
            THEN \A c \in {Published[a.loc]} \cup Republished[a.loc] : Length[c] <= a.size
            ELSE a.loc \in DOMAIN files => Len(files[a.loc]) <= a.size
    /\ job.estimate >= SumFunction([i \in DOMAIN job.archive |-> Length[job.archive[i].content]])

\* Where what is published about sizes is true and nobody else takes room, staging
\* never eats into the headroom it leaves for the rest of the system, the unpacked
\* archive and the copies of its files taken together (stage.rs:291).
KeepsHeadroom ==
    Honest /\ others = 0 /\ at \in {"unpacking", "stage", "copy", "staged"} /\ ~job.dry
        => Free >= Margin

\* A run comes to its end, however often a connection drops (fetch.rs:147).
StagingEnds == at # "idle" ~> at = "idle"
===============================================================================
