------------------------------ MODULE Stage_proofs -----------------------------
(***************************************************************************)
(* What staging promises, for every list of artifacts, every content and   *)
(* length and every number of resumes, kills and repeated runs.            *)
(*                                                                         *)
(* None of the properties is inductive.  That the digest of what was read  *)
(* speaks of what is on the disk needs the copy to be what was read so far *)
(* (and, for a file that is there already, what was read to be its         *)
(* beginning and what is to come the rest of it): Copying.  That it still  *)
(* does when the install reads it needs every artifact before this one to  *)
(* be as it was checked, under a name no later one writes to: Verified.    *)
(* That no block is repeated needs what is to come to start where what     *)
(* was delivered stops: InSequence.  That exactly the copies are removed   *)
(* needs created to hold all of them and nothing the run has not written:  *)
(* Removed, WrittenOnly.  That the margin is left needs the room to cover  *)
(* all that is still to be written: RoomKept.                              *)
(***************************************************************************)
EXTENDS Stage, SumLemmas, SequenceTheorems, TLAPS

\* What is to come starts where what was delivered stops.
InSequence ==
    /\ InOrder(got)
    /\ \A i \in DOMAIN rest : rest[i][2] = Len(got) + i
    /\ \A p \in DOMAIN files : InOrder(files[p])

Staging == at \in {"stage", "copy"} \/ (at = "staged" /\ ~job.dry)

\* Where the run is.
Progress ==
    /\ at \in {"unpack", "unpacking", "space"} => map = <<>> /\ created = {}
    /\ at \in {"unpack", "space"} => next = 1
    /\ at \in {"stage", "copy"} => ~job.dry
    /\ at = "copy" => next <= Len(job.arts)
    /\ at = "staged" /\ ~job.dry => next = Len(job.arts) + 1
    /\ Staging => Len(map) = next - 1 /\ next <= Len(job.arts) + 1
    /\ at # "idle" => outcome = "none" /\ job \in Jobs

\* Every artifact before the next one is in the map, as it was checked.
Verified ==
    Staging =>
        \A i \in 1 .. next - 1 :
            LET a == job.arts[i]
            IN /\ map[i] = <<a.loc, Dest(a)>>
               /\ InPlace(a) \/ Dest(a) \in created
               /\ a.sha # "none" => Dest(a) \in DOMAIN files /\ files[Dest(a)] = Body(a.sha)

\* What was read of a file and what is to come make it up.
Along(file, begin, end) ==
    /\ Len(file) = Len(begin) + Len(end)
    /\ \A i \in 1 .. Len(begin) : file[i] = begin[i]
    /\ \A i \in 1 .. Len(end) : file[Len(begin) + i] = end[i]

\* The artifact that is being copied is on the disk as far as it was read.
Copying ==
    at = "copy" =>
        /\ location = Artifact.loc /\ Dest(Artifact) \in DOMAIN files
        /\ IF InPlace(Artifact) THEN Along(files[Dest(Artifact)], got, rest)
           ELSE files[Dest(Artifact)] = got /\ Dest(Artifact) \in created
        /\ reader = "ended" => rest = <<>>
        /\ reader = "broken" => Remote(location)

\* What a run has created is where it writes.
WrittenOnly == created \subseteq Writes(job)

\* What a run that has ended leaves behind.
Removed ==
    outcome \in {"done", "failed"} /\ ~job.keep /\ ~job.dry =>
        /\ created \cap DOMAIN files = {}
        /\ outcome = "done" =>
             \A i \in DOMAIN job.arts :
                InPlace(job.arts[i]) \/ Dest(job.arts[i]) \notin DOMAIN files

IInv == TypeOK /\ InSequence /\ Progress /\ Verified /\ Copying /\ WrittenOnly /\ Removed
-------------------------------------------------------------------------------
(* Lemmas about blocks and files. *)

\* The body of a content.
LEMMA BodyIs ==
    ASSUME NEW c \in Contents
    PROVE  Body(c) \in Seq(Blocks) /\ Len(Body(c)) = Length[c] /\ InOrder(Body(c))
<1>1. Length[c] \in Nat
    BY FetchAssumption
<1>2. \A i \in 1 .. Length[c] : <<c, i>> \in Blocks
    BY DEF Blocks
<1>3. Body(c) \in [1 .. Length[c] -> Blocks]
    BY <1>2 DEF Body
<1>4. Body(c) \in Seq(Blocks) /\ Len(Body(c)) = Length[c]
    BY <1>1, <1>3
<1> QED
    BY <1>4 DEF Body, InOrder

\* A body from some block on.
LEMMA TailOfBody ==
    ASSUME NEW s \in Seq(Blocks), InOrder(s), NEW n \in Nat, n <= Len(s)
    PROVE  /\ SubSeq(s, n + 1, Len(s)) \in Seq(Blocks)
           /\ \A i \in DOMAIN SubSeq(s, n + 1, Len(s)) : SubSeq(s, n + 1, Len(s))[i][2] = n + i
<1> DEFINE u == SubSeq(s, n + 1, Len(s))
<1>1. /\ u \in Seq(Blocks) /\ Len(u) = Len(s) - n
      /\ \A i \in 1 .. Len(s) - n : u[i] = s[n + i]
    BY SubSeqProperties
<1>2. \A i \in 1 .. Len(s) - n : s[n + i][2] = n + i
    BY DEF InOrder
<1> HIDE DEF u
<1>3. \A i \in DOMAIN u : u[i][2] = n + i
    BY <1>1, <1>2
<1> QED
    BY <1>1, <1>3 DEF u

\* The beginning of a body.
LEMMA HeadOfBody ==
    ASSUME NEW s \in Seq(Blocks), InOrder(s), NEW n \in Nat, n <= Len(s)
    PROVE  SubSeq(s, 1, n) \in Seq(Blocks) /\ InOrder(SubSeq(s, 1, n))
<1> DEFINE u == SubSeq(s, 1, n)
<1>1. u \in Seq(Blocks) /\ Len(u) = n /\ \A i \in 1 .. n : u[i] = s[i]
    BY SubSeqProperties
<1>2. \A i \in 1 .. n : s[i][2] = i
    BY DEF InOrder
<1> HIDE DEF u
<1>3. \A i \in DOMAIN u : u[i][2] = i
    BY <1>1, <1>2
<1> QED
    BY <1>1, <1>3 DEF u, InOrder

\* A file more, or other content of one.
LEMMA PutIs ==
    ASSUME NEW path, NEW blocks
    PROVE  /\ DOMAIN Put(path, blocks) = DOMAIN files \cup {path}
           /\ Put(path, blocks)[path] = blocks
           /\ \A p \in DOMAIN files \ {path} : Put(path, blocks)[p] = files[p]
    BY DEF Put

LEMMA RemoveIs ==
    ASSUME NEW paths
    PROVE  /\ DOMAIN Without(paths) = DOMAIN files \ paths
           /\ \A p \in DOMAIN files \ paths : Without(paths)[p] = files[p]
    BY DEF Without
-------------------------------------------------------------------------------
(* Reading. *)

\* The part of TypeOK that is about the stream.
StreamOK ==
    /\ served \in [Urls -> Contents] /\ rest \in Seq(Blocks) /\ got \in Seq(Blocks)
    /\ framed \in BOOLEAN /\ resumes \in 0 .. MaxResumes
    /\ reader \in {"closed", "open", "broken", "ended", "failed"}

Sequenced == InOrder(got) /\ \A i \in DOMAIN rest : rest[i][2] = Len(got) + i

\* A block that is delivered keeps the sequence.
LEMMA DeliverKeeps ==
    ASSUME StreamOK, Sequenced, Deliver
    PROVE  /\ rest' \in Seq(Blocks) /\ got' \in Seq(Blocks) /\ Sequenced'
           /\ Len(got') = Len(got) + 1 /\ Len(rest') = Len(rest) - 1
           /\ \A i \in 1 .. Len(got) : got'[i] = got[i]
           /\ got'[Len(got) + 1] = rest[1]
           /\ \A i \in 1 .. Len(rest) - 1 : rest'[i] = rest[i + 1]
<1>1. rest \in Seq(Blocks) /\ got \in Seq(Blocks) /\ rest # <<>>
    BY DEF StreamOK, Deliver
<1>2. rest' = Tail(rest) /\ got' = Append(got, Head(rest))
    BY DEF Deliver
<1>3. /\ Head(rest) = rest[1] /\ Head(rest) \in Blocks
      /\ Tail(rest) \in Seq(Blocks) /\ Len(Tail(rest)) = Len(rest) - 1
      /\ \A i \in 1 .. Len(rest) - 1 : Tail(rest)[i] = rest[i + 1]
    BY <1>1
<1>4. /\ Append(got, Head(rest)) \in Seq(Blocks)
      /\ Len(Append(got, Head(rest))) = Len(got) + 1
      /\ \A i \in 1 .. Len(got) : Append(got, Head(rest))[i] = got[i]
      /\ Append(got, Head(rest))[Len(got) + 1] = rest[1]
    BY <1>1, <1>3
<1>5. /\ rest' \in Seq(Blocks) /\ got' \in Seq(Blocks)
      /\ Len(got') = Len(got) + 1 /\ Len(rest') = Len(rest) - 1
      /\ \A i \in 1 .. Len(got) : got'[i] = got[i]
      /\ got'[Len(got) + 1] = rest[1]
      /\ \A i \in 1 .. Len(rest) - 1 : rest'[i] = rest[i + 1]
    BY <1>2, <1>3, <1>4
<1>6. rest[1][2] = Len(got) + 1
    BY <1>1 DEF Sequenced
<1>7. InOrder(got')
    <2>1. \A i \in 1 .. Len(got) : got[i][2] = i
        BY <1>1 DEF Sequenced, InOrder
    <2>2. DOMAIN got' = 1 .. Len(got) + 1
        BY <1>5
    <2> QED
        BY <1>1, <1>5, <1>6, <2>1, <2>2 DEF InOrder
<1>8. \A i \in DOMAIN rest' : rest'[i][2] = Len(got') + i
    <2>1. \A i \in 1 .. Len(rest) : rest[i][2] = Len(got) + i
        BY <1>1 DEF Sequenced
    <2>2. DOMAIN rest' = 1 .. Len(rest) - 1
        BY <1>5
    <2> QED
        BY <1>1, <1>5, <2>1, <2>2
<1> QED
    BY <1>5, <1>7, <1>8 DEF Sequenced

\* So does a body that is resumed from where it broke off.
LEMMA RangedKeeps ==
    ASSUME StreamOK, Sequenced, Ranged, UNCHANGED got, location \in Urls
    PROVE  rest' \in Seq(Blocks) /\ Sequenced'
<1> DEFINE body == Body(served[location])
<1>1. served[location] \in Contents
    BY DEF StreamOK
<1>2. body \in Seq(Blocks) /\ InOrder(body)
    BY <1>1, BodyIs
<1> HIDE DEF body
<1>3. Len(got) \in Nat /\ Len(got) < Len(body) /\ rest' = SubSeq(body, Len(got) + 1, Len(body))
    BY DEF StreamOK, Ranged, body
<1>4. /\ rest' \in Seq(Blocks)
      /\ \A i \in DOMAIN rest' : rest'[i][2] = Len(got) + i
    <2>1. Len(got) <= Len(body)
        BY <1>2, <1>3
    <2> QED
        BY <1>2, <1>3, <2>1, TailOfBody
<1> QED
    BY <1>4 DEF Sequenced

\* What a call of read leaves; of a file, what is to come unless it is delivered.
LEMMA ReadKeeps ==
    ASSUME StreamOK, Sequenced, Read, UNCHANGED served,
           reader = "ended" => rest = <<>>, reader = "broken" => Remote(location)
    PROVE  /\ StreamOK' /\ Sequenced' /\ reader # "closed" /\ reader' # "closed"
           /\ location' = location
           /\ reader' = "ended" => rest' = <<>>
           /\ reader' = "broken" => Remote(location)
           /\ Deliver \/ got' = got
           /\ Remote(location) \/ Deliver \/ (got' = got /\ rest' = rest)
<1>1. CASE Deliver
    BY <1>1, DeliverKeeps DEF StreamOK, Deliver
<1>2. CASE End
    BY <1>2 DEF StreamOK, Sequenced, End
<1>3. CASE Drop
    <2>1. CASE framed
        BY <1>3, <2>1 DEF StreamOK, Sequenced, Drop
    <2>2. CASE ~framed
        <3>1. rest' = <<>> /\ UNCHANGED <<location, framed, got, resumes, reader>>
            BY <1>3, <2>2 DEF Drop
        <3>2. Sequenced'
            BY <3>1 DEF Sequenced, InOrder
        <3> QED
            BY <1>3, <3>1, <3>2 DEF StreamOK, Drop
    <2> QED
        BY <2>1, <2>2
<1>4. CASE Resume
    <2>1. location \in Urls /\ UNCHANGED <<location, got>> /\ reader = "broken"
        BY <1>4 DEF Resume, Remote
    <2>2. resumes' \in 0 .. MaxResumes
        BY <1>4, FetchAssumption DEF Resume, StreamOK
    <2>3. rest' \in Seq(Blocks) /\ Sequenced'
        <3>1. CASE Ranged
            BY <2>1, <3>1, RangedKeeps
        <3>2. CASE rest' = rest
            BY <2>1, <3>2 DEF StreamOK, Sequenced
        <3> QED
            BY <1>4, <3>1, <3>2 DEF Resume
    <2>4. framed' \in BOOLEAN /\ reader' \in {"open", "failed"}
        BY <1>4 DEF Resume, StreamOK
    <2> QED
        BY <2>1, <2>2, <2>3, <2>4 DEF StreamOK, Remote
<1>5. CASE FileFails
    BY <1>5 DEF StreamOK, Sequenced, FileFails
<1> QED
    BY <1>1, <1>2, <1>3, <1>4, <1>5 DEF Read

\* A stream that is opened starts at its beginning.
LEMMA OpenKeeps ==
    ASSUME served \in [Urls -> Contents], UNCHANGED served, NEW loc,
           NEW body, Remote(loc) \/ (body \in Seq(Blocks) /\ InOrder(body)), Open(loc, body)
    PROVE  /\ StreamOK' /\ Sequenced' /\ location' = loc /\ reader' = "open" /\ got' = <<>>
           /\ ~Remote(loc) => rest' = body
<1>1. /\ location' = loc /\ got' = <<>> /\ resumes' = 0 /\ reader' = "open"
      /\ framed' \in BOOLEAN
    BY DEF Open
<1>2. rest' \in Seq(Blocks) /\ InOrder(rest')
    <2>1. CASE Remote(loc)
        BY <2>1, BodyIs DEF Open, Remote
    <2>2. CASE ~Remote(loc)
        BY <2>2 DEF Open
    <2> QED
        BY <2>1, <2>2
<1>3. Sequenced'
    <2>1. InOrder(<<>>) /\ Len(<<>>) = 0
        BY DEF InOrder
    <2>2. \A i \in DOMAIN rest' : rest'[i][2] = i /\ i \in Nat
        BY <1>2 DEF InOrder
    <2> QED
        BY <1>1, <2>1, <2>2 DEF Sequenced
<1>4. StreamOK'
    BY <1>1, <1>2, FetchAssumption DEF StreamOK
<1>5. ~Remote(loc) => rest' = body
    BY DEF Open
<1> QED
    BY <1>1, <1>3, <1>4, <1>5

\* A reader that is dropped holds nothing.
LEMMA CloseKeeps ==
    ASSUME served' \in [Urls -> Contents], Close
    PROVE  StreamOK' /\ Sequenced' /\ reader' = "closed"
<1>1. /\ got' = <<>> /\ rest' = <<>> /\ framed' = TRUE /\ resumes' = 0 /\ reader' = "closed"
    BY DEF Close
<1> QED
    BY <1>1, FetchAssumption DEF StreamOK, Sequenced, InOrder
-------------------------------------------------------------------------------
(* The invariant, step by step. *)

\* What is known of a request.
LEMMA JobIs ==
    ASSUME job \in Jobs \cup {NoJob}
    PROVE  /\ Planned(job)
           /\ Len(job.arts) \in Nat /\ Len(job.archive) \in Nat
<1>1. Planned(NoJob)
    BY DEF Planned, Listing, NoJob
<1>2. Planned(job)
    BY <1>1, StageAssumption
<1>3. Len(job.arts) \in Nat /\ Len(job.archive) \in Nat
    BY <1>2 DEF Planned, Listing
<1> QED
    BY <1>2, <1>3

LEMMA InitHolds == Init => IInv
<1> SUFFICES ASSUME Init PROVE IInv
    OBVIOUS
<1>1. /\ served = Published /\ rest = <<>> /\ framed = TRUE /\ got = <<>> /\ resumes = 0
      /\ reader = "closed" /\ job = NoJob /\ at = "idle" /\ next = 1 /\ files = OwnFiles
      /\ created = {} /\ map = <<>> /\ others = 0 /\ outcome = "none" /\ kills = 0
    BY DEF Init, FetchInit
<1>2. Len(job.arts) = 0 /\ Len(map) = 0
    BY <1>1 DEF NoJob
<1>3. next \in 1 .. 1 + Len(job.arts)
    BY <1>1, <1>2
<1>4. TypeOK
    BY <1>1, <1>2, <1>3, FetchAssumption, StageAssumption DEF TypeOK, Steps
<1>5. InSequence
    BY <1>1, StageAssumption DEF InSequence, InOrder
<1>6. Progress /\ Verified /\ Copying /\ WrittenOnly /\ Removed
    BY <1>1 DEF Progress, Verified, Copying, WrittenOnly, Removed, Staging
<1> QED
    BY <1>4, <1>5, <1>6 DEF IInv

\* Others on the filesystem and the server change nothing of it.
LEMMA OthersStep == IInv /\ (OthersUse \/ ServerChanges) => IInv'
<1> SUFFICES ASSUME IInv, OthersUse \/ ServerChanges PROVE IInv'
    OBVIOUS
<1>1. UNCHANGED <<location, rest, framed, got, resumes, reader, job, at, next, created, map,
                  outcome, files, kills>>
    BY DEF OthersUse, ServerChanges, Republish, fetchVars, stream, run
<1>2. served' \in [Urls -> Contents] /\ others' \in 0 .. MaxOthers
    <2>1. served \in [Urls -> Contents] /\ others \in 0 .. MaxOthers
        BY DEF IInv, TypeOK
    <2>2. CASE OthersUse
        BY <2>1, <2>2 DEF OthersUse, fetchVars
    <2>3. CASE ServerChanges
        <3>1. PICK u \in Urls : \E c \in Republished[u] : served' = [served EXCEPT ![u] = c]
            BY <2>3 DEF ServerChanges, Republish
        <3>2. Republished[u] \subseteq Contents
            BY FetchAssumption
        <3> QED
            BY <2>1, <2>3, <3>1, <3>2 DEF ServerChanges
    <2> QED
        BY <2>2, <2>3
<1>3. TypeOK'
    BY <1>1, <1>2 DEF IInv, TypeOK
<1>4. (InSequence /\ Progress /\ Verified /\ Copying /\ WrittenOnly /\ Removed)'
    BY <1>1 DEF IInv, InSequence, Progress, Verified, Copying, WrittenOnly, Removed, Staging,
                Along, Artifact, Dest, InPlace
<1> QED
    BY <1>3, <1>4 DEF IInv

LEMMA StartStep == IInv /\ Start => IInv'
<1> SUFFICES ASSUME IInv, Start PROVE IInv'
    OBVIOUS
<1>1. /\ at = "idle" /\ job' \in Jobs /\ next' = 1 /\ created' = {} /\ map' = <<>>
      /\ outcome' = "none" /\ at' \in {"space", "unpack"}
      /\ UNCHANGED <<served, location, rest, framed, got, resumes, reader, files, others, kills>>
    BY DEF Start, fetchVars, stream
<1>2. Len(job'.arts) \in Nat
    BY <1>1, StageAssumption DEF Planned, Listing
<1>3. TypeOK'
    BY <1>1, <1>2 DEF IInv, TypeOK, Steps
<1>4. (InSequence /\ WrittenOnly)'
    BY <1>1 DEF IInv, InSequence, WrittenOnly
<1>5. (Progress /\ Verified /\ Copying /\ Removed)'
    BY <1>1 DEF Progress, Verified, Copying, Removed, Staging
<1> QED
    BY <1>3, <1>4, <1>5 DEF IInv

\* A kill leaves the files as they are.
LEMMA KillStep == IInv /\ Kill => IInv'
<1> SUFFICES ASSUME IInv, Kill PROVE IInv'
    OBVIOUS
<1>1. /\ at' = "idle" /\ outcome' = "killed" /\ kills' = kills + 1 /\ kills < MaxKills
      /\ map' = <<>> /\ Close
      /\ UNCHANGED <<served, job, next, created, files, others>>
    BY DEF Kill
<1>2. StreamOK' /\ Sequenced' /\ reader' = "closed"
    BY <1>1, CloseKeeps DEF IInv, TypeOK
<1>3. TypeOK'
    <2>1. kills' \in 0 .. MaxKills
        BY <1>1, StageAssumption DEF IInv, TypeOK
    <2> QED
        BY <1>1, <1>2, <2>1 DEF IInv, TypeOK, StreamOK, Steps
<1>4. (InSequence /\ WrittenOnly)'
    BY <1>1, <1>2 DEF IInv, InSequence, WrittenOnly, Sequenced
<1>5. (Progress /\ Verified /\ Copying /\ Removed)'
    BY <1>1 DEF Progress, Verified, Copying, Removed, Staging
<1> QED
    BY <1>3, <1>4, <1>5 DEF IInv

\* The end of a run takes the copies away and nothing else.
LEMMA DisposeStep ==
    ASSUME IInv, at # "idle", NEW result \in {"done", "failed"}, result = "done" => at = "staged",
           Dispose(result)
    PROVE  IInv'
<1>1. /\ at' = "idle" /\ outcome' = result /\ map' = <<>> /\ Close
      /\ UNCHANGED <<served, job, next, created, others, kills>>
    BY DEF Dispose
<1>2. StreamOK' /\ Sequenced' /\ reader' = "closed"
    BY <1>1, CloseKeeps DEF IInv, TypeOK
<1>3. /\ DOMAIN files' \subseteq DOMAIN files
      /\ \A p \in DOMAIN files' : files'[p] = files[p]
      /\ DOMAIN files \ created \subseteq DOMAIN files'
      /\ ~job.keep /\ ~job.dry => created \cap DOMAIN files' = {}
    BY RemoveIs DEF Dispose
<1>4. TypeOK'
    BY <1>1, <1>2, <1>3, JobIs DEF IInv, TypeOK, StreamOK, Steps
<1>5. InSequence'
    BY <1>2, <1>3 DEF IInv, InSequence, Sequenced
<1>6. (Progress /\ Verified /\ Copying)'
    BY <1>1 DEF Progress, Verified, Copying, Staging
<1>7. WrittenOnly'
    BY <1>1, <1>3 DEF IInv, WrittenOnly
<1>8. Removed'
    <2> SUFFICES ASSUME ~job.keep, ~job.dry, result = "done", NEW i \in DOMAIN job.arts
                 PROVE  InPlace(job.arts[i]) \/ Dest(job.arts[i]) \notin DOMAIN files'
        BY <1>1, <1>3 DEF Removed, InPlace, Dest
    <2>1. at = "staged"
        OBVIOUS
    <2>2. i \in 1 .. next - 1
        BY <2>1, JobIs DEF IInv, Progress, TypeOK, Planned, Listing
    <2>3. InPlace(job.arts[i]) \/ Dest(job.arts[i]) \in created
        BY <2>1, <2>2 DEF IInv, Verified, Staging
    <2> QED
        BY <1>3, <2>3
<1> QED
    BY <1>4, <1>5, <1>6, <1>7, <1>8 DEF IInv

\* A step that only moves the run on, while nothing is staged yet.
LEMMA MoveOn ==
    ASSUME IInv, at \in {"unpack", "unpacking", "space"}, next' = 1 \/ next' = next,
           at' \in {"unpacking", "space", "stage", "staged"},
           at' \in {"space", "stage"} => next' = 1, at' = "stage" => ~job.dry,
           at' = "staged" => job.dry,
           UNCHANGED <<served, stream, job, created, map, outcome, files, others, kills>>
    PROVE  IInv'
<1>1. UNCHANGED <<location, rest, framed, got, resumes, reader>> /\ at # "idle" /\ at # "copy"
    BY DEF stream
<1>2. map = <<>> /\ created = {} /\ outcome = "none" /\ job \in Jobs
    BY <1>1 DEF IInv, Progress
<1>3. TypeOK'
    BY <1>1, JobIs DEF IInv, TypeOK, Steps
<1>4. (InSequence /\ WrittenOnly)'
    BY <1>1 DEF IInv, InSequence, WrittenOnly
<1>5. Progress'
    <2>1. Len(map') = 0
        BY <1>2
    <2> QED
        BY <1>1, <1>2, <2>1 DEF IInv, Progress, Staging
<1>6. Verified'
    <2>1. Staging' => next' = 1
        BY DEF Staging
    <2> QED
        BY <2>1 DEF Verified
<1>7. (Copying /\ Removed)'
    BY <1>2 DEF Copying, Removed
<1> QED
    BY <1>3, <1>4, <1>5, <1>6, <1>7 DEF IInv

LEMMA UnpackSpaceStep == IInv /\ UnpackSpace => IInv'
<1> SUFFICES ASSUME IInv, UnpackSpace PROVE IInv'
    OBVIOUS
<1>1. at = "unpack" /\ next = 1 /\ UNCHANGED <<served, others, kills>>
    BY DEF UnpackSpace, IInv, Progress
<1>2. CASE /\ at' \in {"space", "unpacking"}
           /\ UNCHANGED <<stream, job, next, created, map, outcome, files>>
    BY <1>1, <1>2, MoveOn
<1>3. CASE Dispose("failed")
    BY <1>1, <1>3, DisposeStep
<1> QED
    BY <1>2, <1>3 DEF UnpackSpace

LEMMA UnpackedStep == IInv /\ Unpacked => IInv'
    BY MoveOn DEF Unpacked, fetchVars

LEMMA CheckSpaceStep == IInv /\ CheckSpace => IInv'
<1> SUFFICES ASSUME IInv, CheckSpace PROVE IInv'
    OBVIOUS
<1>1. at = "space" /\ next = 1
    BY DEF CheckSpace, IInv, Progress
<1>2. CASE ~job.dry /\ ~Enough(Sizes(job.arts)) /\ Dispose("failed")
    BY <1>1, <1>2, DisposeStep
<1>3. CASE /\ at' = IF job.dry THEN "staged" ELSE "stage"
           /\ UNCHANGED <<fetchVars, job, next, created, map, outcome, files, others, kills>>
    BY <1>1, <1>3, MoveOn DEF fetchVars
<1> QED
    BY <1>2, <1>3 DEF CheckSpace

LEMMA UnpackStep == IInv /\ Unpack => IInv'
<1> SUFFICES ASSUME IInv, Unpack PROVE IInv'
    OBVIOUS
<1> DEFINE member == job.archive[next]
           whole == Body(member.content)
<1>1. /\ at = "unpacking" /\ next <= Len(job.archive)
      /\ UNCHANGED <<served, stream, job, created, map, others, kills>>
    BY CloseKeeps DEF Unpack, stream
<1>2. UNCHANGED <<location, rest, framed, got, resumes, reader>> /\ reader = "closed"
    BY <1>1 DEF stream, IInv, TypeOK
<1>3. map = <<>> /\ created = {} /\ outcome = "none" /\ job \in Jobs
    BY <1>1 DEF IInv, Progress
<1>4. next \in Nat \ {0} /\ next \in DOMAIN job.archive
    BY <1>1, JobIs DEF IInv, TypeOK, Planned, Listing
<1>5. member.content \in Contents
    BY <1>4, JobIs DEF IInv, TypeOK, Planned, Listing
<1>6. whole \in Seq(Blocks) /\ InOrder(whole) /\ Len(whole) \in Nat
    BY <1>5, BodyIs
<1>7. \/ files' = Put(member.path, whole) /\ next' = next + 1 /\ UNCHANGED <<at, outcome>>
      \/ \E n \in 0 .. Len(whole) - 1 :
            /\ files' = Put(member.path, SubSeq(whole, 1, n))
            /\ at' = "idle" /\ outcome' = "failed" /\ next' = next
    BY DEF Unpack
<1> HIDE DEF member, whole
<1>8. PICK blocks \in Seq(Blocks) : files' = Put(member.path, blocks) /\ InOrder(blocks)
    <2>1. CASE files' = Put(member.path, whole)
        BY <1>6, <2>1
    <2>2. CASE \E n \in 0 .. Len(whole) - 1 : files' = Put(member.path, SubSeq(whole, 1, n))
        <3>1. PICK n \in 0 .. Len(whole) - 1 : files' = Put(member.path, SubSeq(whole, 1, n))
            BY <2>2
        <3>2. n \in Nat /\ n <= Len(whole)
            BY <1>6
        <3> QED
            BY <1>6, <3>1, <3>2, HeadOfBody
    <2> QED
        BY <1>7, <2>1, <2>2
<1>9. /\ DOMAIN files' = DOMAIN files \cup {member.path} /\ files'[member.path] = blocks
      /\ \A p \in DOMAIN files \ {member.path} : files'[p] = files[p]
    BY <1>8 DEF Put
<1>10. \A p \in DOMAIN files' : files'[p] \in Seq(Blocks) /\ InOrder(files'[p])
    BY <1>8, <1>9 DEF IInv, TypeOK, InSequence
<1>11. /\ at' \in {"unpacking", "idle"} /\ outcome' \in {"none", "failed"}
       /\ next' \in {next, next + 1}
    BY <1>1, <1>3, <1>7
<1>12. TypeOK'
    <2>1. next' \in 1 .. 1 + Len(job.archive)
        BY <1>1, <1>4, <1>11, JobIs DEF IInv, TypeOK
    <2> QED
        BY <1>1, <1>2, <1>10, <1>11, <2>1, SMTT(30) DEF IInv, TypeOK, Steps
<1>13. InSequence'
    BY <1>2, <1>10 DEF IInv, InSequence
<1>14. Progress'
    BY <1>1, <1>3, <1>7, <1>11 DEF Progress, Staging
<1>15. (Verified /\ Copying)'
    BY <1>11 DEF Verified, Copying, Staging
<1>16. WrittenOnly'
    BY <1>1 DEF IInv, WrittenOnly
<1>17. Removed'
    BY <1>1, <1>3, <1>11 DEF Removed
<1> QED
    BY <1>12, <1>13, <1>14, <1>15, <1>16, <1>17 DEF IInv

LEMMA StagedStep == IInv /\ Staged => IInv'
<1> SUFFICES ASSUME IInv, Staged PROVE IInv'
    OBVIOUS
<1>1. /\ at = "stage" /\ next > Len(job.arts) /\ at' = "staged"
      /\ UNCHANGED <<served, location, rest, framed, got, resumes, reader, job, next, created,
                     map, outcome, files, others, kills>>
    BY DEF Staged, fetchVars, stream
<1>2. next = Len(job.arts) + 1
    BY <1>1, JobIs DEF IInv, TypeOK, Progress, Staging
<1>3. TypeOK'
    BY <1>1 DEF IInv, TypeOK, Steps
<1>4. (InSequence /\ WrittenOnly)'
    BY <1>1 DEF IInv, InSequence, WrittenOnly
<1>5. Progress'
    BY <1>1, <1>2 DEF IInv, Progress, Staging
<1>6. Verified'
    BY <1>1 DEF IInv, Verified, Staging, InPlace, Dest
<1>7. (Copying /\ Removed)'
    BY <1>1 DEF IInv, Progress, Copying, Removed
<1> QED
    BY <1>3, <1>4, <1>5, <1>6, <1>7 DEF IInv

LEMMA InstallStep == IInv /\ Install => IInv'
    BY DisposeStep DEF Install

LEMMA CopyFailsStep == IInv /\ CopyFails => IInv'
    BY DisposeStep DEF CopyFails

\* The copy of an artifact starts empty, or is what is there already.
LEMMA OpenStep == IInv /\ OpenArtifact => IInv'
<1> SUFFICES ASSUME IInv, OpenArtifact PROVE IInv'
    OBVIOUS
<1> DEFINE a == job.arts[next]
           dest == <<"cache", a.rel>>
           body == IF Remote(a.loc) THEN <<>> ELSE files[a.loc]
<1>1. at = "stage" /\ next <= Len(job.arts)
    BY DEF OpenArtifact
<1>2. CASE Dispose("failed")
    BY <1>1, <1>2, DisposeStep
<1>3. CASE ~Dispose("failed")
    <2>1. /\ Remote(a.loc) \/ a.loc \in DOMAIN files
          /\ Open(a.loc, body)
          /\ at' = "copy"
          /\ UNCHANGED <<served, job, next, map, outcome, others, kills>>
        BY <1>3 DEF OpenArtifact, Artifact
    <2>2. IF InPlace(a) THEN UNCHANGED <<files, created>>
          ELSE files' = Put(dest, <<>>) /\ created' = created \cup {dest}
        BY <1>3 DEF OpenArtifact, Artifact, Dest
    <2>3. /\ next \in 1 .. Len(job.arts) /\ next \in DOMAIN job.arts /\ Planned(job)
          /\ Len(job.arts) \in Nat
        <3>1. Planned(job) /\ Len(job.arts) \in Nat /\ next \in Nat /\ next >= 1
            BY JobIs DEF IInv, TypeOK
        <3>2. next \in 1 .. Len(job.arts)
            BY <1>1, <3>1
        <3> QED
            BY <3>1, <3>2 DEF Planned, Listing
    <2>4. StreamOK' /\ Sequenced' /\ location' = a.loc /\ reader' = "open" /\ got' = <<>>
          /\ (~Remote(a.loc) => rest' = files[a.loc])
        <3>1. Remote(a.loc) \/ (body \in Seq(Blocks) /\ InOrder(body))
            BY <2>1 DEF IInv, TypeOK, InSequence
        <3>2. served \in [Urls -> Contents]
            BY DEF IInv, TypeOK
        <3>3. ~Remote(a.loc) => body = files[a.loc]
            OBVIOUS
        <3> HIDE DEF a, body
        <3> QED
            BY <2>1, <3>1, <3>2, <3>3, OpenKeeps
    <2>5. InPlace(a) = (~Remote(a.loc) /\ a.loc = dest)
        BY DEF InPlace, Dest
    <2>6. /\ DOMAIN files' = IF InPlace(a) THEN DOMAIN files ELSE DOMAIN files \cup {dest}
          /\ ~InPlace(a) => files'[dest] = <<>>
          /\ \A p \in DOMAIN files : InPlace(a) \/ p # dest => files'[p] = files[p]
        <3> HIDE DEF dest
        <3> QED
            BY <2>2 DEF Put
    <2>7. \A p \in DOMAIN files' : files'[p] \in Seq(Blocks) /\ InOrder(files'[p])
        <3>1. <<>> \in Seq(Blocks) /\ InOrder(<<>>)
            BY DEF InOrder
        <3>2. \A p \in DOMAIN files : files[p] \in Seq(Blocks) /\ InOrder(files[p])
            BY DEF IInv, TypeOK, InSequence
        <3> HIDE DEF a, dest
        <3> QED
            BY <2>2, <2>6, <3>1, <3>2
    <2>8. TypeOK'
        <3>1. created' \subseteq {<<"cache", job.arts[i].rel>> : i \in DOMAIN job.arts}
            BY <2>2, <2>3 DEF IInv, TypeOK
        <3>2. (at' = "copy") = (reader' # "closed")
            BY <2>1, <2>4
        <3> QED
            BY <2>1, <2>4, <2>7, <3>1, <3>2 DEF IInv, TypeOK, StreamOK, Steps
    <2>9. InSequence'
        BY <2>4, <2>7 DEF InSequence, Sequenced
    <2>10. Progress'
        BY <1>1, <2>1 DEF IInv, Progress, Staging
    <2>11. Verified'
        <3>1. UNCHANGED <<job, next, map>> /\ created \subseteq created'
            BY <2>1, <2>2
        <3> SUFFICES ASSUME NEW i \in 1 .. next - 1
                     PROVE  LET b == job.arts[i]
                            IN /\ map[i] = <<b.loc, Dest(b)>>
                               /\ InPlace(b) \/ Dest(b) \in created'
                               /\ b.sha # "none" =>
                                     Dest(b) \in DOMAIN files' /\ files'[Dest(b)] = Body(b.sha)
            BY <3>1 DEF Verified, InPlace, Dest
        <3> DEFINE b == job.arts[i]
        <3>2. /\ map[i] = <<b.loc, Dest(b)>>
              /\ InPlace(b) \/ Dest(b) \in created
              /\ b.sha # "none" => Dest(b) \in DOMAIN files /\ files[Dest(b)] = Body(b.sha)
            BY <1>1 DEF IInv, Verified, Staging
        <3>3. Dest(b) # dest
            <4>1. i \in DOMAIN job.arts \ {next}
                BY <2>3 DEF Planned, Listing
            <4>2. b.rel # a.rel
                BY <2>3, <4>1 DEF Planned, Listing
            <4> QED
                BY <4>2 DEF Dest
        <3> HIDE DEF a, b, dest
        <3> QED
            BY <2>6, <3>1, <3>2, <3>3 DEF b
    <2>12. Copying'
        <3>1. Artifact' = a /\ Dest(Artifact)' = dest
            BY <2>1 DEF Artifact, Dest
        <3>2. InPlace(Artifact)' = InPlace(a)
            BY <3>1 DEF InPlace, Dest
        <3>3. CASE InPlace(a)
            <4>1. ~Remote(a.loc) /\ a.loc = dest /\ dest \in DOMAIN files /\ files' = files
                BY <2>1, <2>2, <2>5, <3>3
            <4>2. Along(files'[dest], got', rest')
                <5>1. got' = <<>> /\ rest' = files[dest] /\ rest' \in Seq(Blocks) /\ files' = files
                    BY <2>4, <4>1 DEF StreamOK
                <5> HIDE DEF dest, a
                <5> QED
                    BY <5>1 DEF Along
            <4> QED
                <5>1. /\ location' = a.loc /\ dest \in DOMAIN files' /\ reader' = "open"
                    BY <2>4, <4>1
                <5> HIDE DEF a, dest
                <5> QED
                    BY <3>1, <3>2, <3>3, <4>2, <5>1 DEF Copying
        <3>4. CASE ~InPlace(a)
            <4>1. dest \in DOMAIN files' /\ files'[dest] = got' /\ dest \in created'
                BY <2>2, <2>4, <2>6, <3>4
            <4> QED
                BY <2>4, <3>1, <3>2, <3>4, <4>1 DEF Copying
        <3> QED
            BY <3>3, <3>4
    <2>13. WrittenOnly'
        <3>1. ~InPlace(a) => dest \in Writes(job)
            BY <2>3, <2>5 DEF Writes
        <3> HIDE DEF a, dest
        <3> QED
            BY <2>1, <2>2, <3>1 DEF IInv, WrittenOnly
    <2>14. Removed'
        <3>1. outcome' = "none"
            BY <1>1, <2>1 DEF IInv, Progress
        <3> QED
            BY <3>1 DEF Removed
    <2> QED
        BY <2>8, <2>9, <2>10, <2>11, <2>12, <2>13, <2>14 DEF IInv
<1> QED
    BY <1>2, <1>3

\* What is read of a file stays its beginning, what is to come the rest of it.
LEMMA AlongKeeps ==
    ASSUME StreamOK, Sequenced, NEW file, Along(file, got, rest),
           Deliver \/ (got' = got /\ rest' = rest)
    PROVE  Along(file, got', rest')
<1>1. CASE Deliver
    <2>1. /\ Len(got') = Len(got) + 1 /\ Len(rest') = Len(rest) - 1
          /\ \A i \in 1 .. Len(got) : got'[i] = got[i]
          /\ got'[Len(got) + 1] = rest[1]
          /\ \A i \in 1 .. Len(rest) - 1 : rest'[i] = rest[i + 1]
        BY <1>1, DeliverKeeps
    <2>2. Len(got) \in Nat /\ Len(rest) \in Nat /\ Len(rest) >= 1
        BY <1>1 DEF StreamOK, Deliver
    <2>3. Len(file) = Len(got') + Len(rest')
        BY <2>1, <2>2 DEF Along
    <2>4. ASSUME NEW i \in 1 .. Len(got') PROVE file[i] = got'[i]
        <3>1. CASE i \in 1 .. Len(got)
            BY <2>1, <3>1 DEF Along
        <3>2. CASE i = Len(got) + 1
            BY <2>1, <2>2, <3>2 DEF Along
        <3> QED
            BY <2>1, <2>2, <3>1, <3>2
    <2>5. ASSUME NEW i \in 1 .. Len(rest') PROVE file[Len(got') + i] = rest'[i]
        <3>1. i + 1 \in 1 .. Len(rest) /\ Len(got') + i = Len(got) + (i + 1)
            BY <2>1, <2>2
        <3>2. file[Len(got) + (i + 1)] = rest[i + 1]
            BY <3>1 DEF Along
        <3> QED
            BY <2>1, <2>2, <3>1, <3>2
    <2> QED
        BY <2>3, <2>4, <2>5 DEF Along
<1>2. CASE got' = got /\ rest' = rest
    BY <1>2
<1> QED
    BY <1>1, <1>2

\* The copy grows with what is read.
LEMMA CopyStep == IInv /\ Copy => IInv'
<1> SUFFICES ASSUME IInv, Copy PROVE IInv'
    OBVIOUS
<1> DEFINE a == job.arts[next]
           dest == <<"cache", a.rel>>
<1>1. at = "copy" /\ reader \in {"open", "broken"}
    BY DEF Copy
<1>2. CASE Dispose("failed")
    BY <1>1, <1>2, DisposeStep
<1>3. CASE ~Dispose("failed")
    <2>1. Read /\ UNCHANGED <<served, job, at, next, created, map, outcome, others, kills>>
        BY <1>3 DEF Copy, run
    <2>2. IF got' = got \/ InPlace(a) THEN UNCHANGED files ELSE files' = Put(dest, got')
        BY <1>3 DEF Copy, Artifact, Dest
    <2>3. /\ location = a.loc /\ dest \in DOMAIN files
          /\ IF InPlace(a) THEN Along(files[dest], got, rest)
             ELSE files[dest] = got /\ dest \in created
          /\ reader = "ended" => rest = <<>>
          /\ reader = "broken" => Remote(location)
        <3>1. Artifact = a /\ Dest(a) = dest
            BY DEF Artifact, Dest
        <3> HIDE DEF a, dest
        <3> QED
            BY <1>1, <3>1 DEF IInv, Copying
    <2>4. StreamOK /\ Sequenced
        BY DEF IInv, TypeOK, InSequence, StreamOK, Sequenced
    <2>5. /\ StreamOK' /\ Sequenced' /\ reader' # "closed"
          /\ location' = location
          /\ reader' = "ended" => rest' = <<>>
          /\ reader' = "broken" => Remote(location)
          /\ Deliver \/ got' = got
          /\ Remote(location) \/ Deliver \/ (got' = got /\ rest' = rest)
        BY <2>1, <2>3, <2>4, ReadKeeps
    <2>6. InPlace(a) => ~Remote(a.loc) /\ a.loc = dest
        BY DEF InPlace, Dest
    <2>7. /\ next \in 1 .. Len(job.arts) /\ next \in DOMAIN job.arts /\ Planned(job)
          /\ Len(job.arts) \in Nat
        BY <1>1, JobIs, SMTT(30) DEF IInv, TypeOK, Planned, Listing, Progress
    <2>8. /\ DOMAIN files' = DOMAIN files
          /\ \A p \in DOMAIN files : InPlace(a) \/ p # dest => files'[p] = files[p]
          /\ ~InPlace(a) => files'[dest] = got'
        <3> HIDE DEF a, dest
        <3> QED
            BY <2>2, <2>3 DEF Put
    <2>9. \A p \in DOMAIN files' : files'[p] \in Seq(Blocks) /\ InOrder(files'[p])
        <3>1. \A p \in DOMAIN files : files[p] \in Seq(Blocks) /\ InOrder(files[p])
            BY DEF IInv, TypeOK, InSequence
        <3>2. got' \in Seq(Blocks) /\ InOrder(got')
            BY <2>5 DEF StreamOK, Sequenced
        <3> HIDE DEF a, dest
        <3> QED
            BY <2>2, <2>3, <2>8, <3>1, <3>2
    <2>10. TypeOK'
        <3>1. (at' = "copy") = (reader' # "closed")
            BY <1>1, <2>1, <2>5
        <3> QED
            BY <2>1, <2>5, <2>9, <3>1 DEF IInv, TypeOK, StreamOK
    <2>11. InSequence'
        BY <2>5, <2>9 DEF InSequence, Sequenced
    <2>12. Progress'
        BY <2>1 DEF IInv, Progress, Staging
    <2>13. Verified'
        <3> SUFFICES ASSUME NEW i \in 1 .. next - 1
                     PROVE  LET b == job.arts[i]
                            IN /\ map[i] = <<b.loc, Dest(b)>>
                               /\ InPlace(b) \/ Dest(b) \in created
                               /\ b.sha # "none" =>
                                     Dest(b) \in DOMAIN files' /\ files'[Dest(b)] = Body(b.sha)
            BY <2>1 DEF Verified, InPlace, Dest
        <3> DEFINE b == job.arts[i]
        <3>1. /\ map[i] = <<b.loc, Dest(b)>>
              /\ InPlace(b) \/ Dest(b) \in created
              /\ b.sha # "none" => Dest(b) \in DOMAIN files /\ files[Dest(b)] = Body(b.sha)
            BY <1>1 DEF IInv, Verified, Staging
        <3>2. Dest(b) # dest
            <4>1. i \in DOMAIN job.arts \ {next}
                BY <2>7 DEF Planned, Listing
            <4>2. b.rel # a.rel
                BY <2>7, <4>1 DEF Planned, Listing
            <4> QED
                BY <4>2 DEF Dest
        <3> HIDE DEF a, b, dest
        <3> QED
            BY <2>8, <3>1, <3>2 DEF b
    <2>14. Copying'
        <3>1. Artifact' = a /\ Dest(Artifact)' = dest
            BY <2>1 DEF Artifact, Dest
        <3>2. InPlace(Artifact)' = InPlace(a)
            BY <3>1 DEF InPlace, Dest
        <3>3. CASE InPlace(a)
            <4>1. ~Remote(location) /\ files'[dest] = files[dest] /\ dest \in DOMAIN files'
                BY <2>3, <2>6, <2>8, <3>3
            <4>2. Along(files'[dest], got', rest')
                <5> HIDE DEF a, dest
                <5> QED
                    BY <2>3, <2>4, <2>5, <3>3, <4>1, AlongKeeps
            <4> HIDE DEF a, dest
            <4> QED
                BY <2>3, <2>5, <3>1, <3>2, <3>3, <4>1, <4>2 DEF Copying, Remote
        <3>4. CASE ~InPlace(a)
            <4>1. dest \in DOMAIN files' /\ files'[dest] = got' /\ dest \in created'
                BY <2>1, <2>3, <2>8, <3>4
            <4> HIDE DEF a, dest
            <4> QED
                BY <2>3, <2>5, <3>1, <3>2, <3>4, <4>1 DEF Copying, Remote
        <3> QED
            BY <3>3, <3>4
    <2>15. WrittenOnly'
        BY <2>1 DEF IInv, WrittenOnly
    <2>16. Removed'
        <3>1. outcome' = "none"
            BY <1>1, <2>1 DEF IInv, Progress
        <3> QED
            BY <3>1 DEF Removed
    <2> QED
        BY <2>10, <2>11, <2>12, <2>13, <2>14, <2>15, <2>16 DEF IInv
<1> QED
    BY <1>2, <1>3

\* The digest of what was read is that of what is on the disk.
LEMMA CheckStep == IInv /\ Check => IInv'
<1> SUFFICES ASSUME IInv, Check PROVE IInv'
    OBVIOUS
<1> DEFINE a == job.arts[next]
           dest == <<"cache", a.rel>>
<1>1. /\ at = "copy" /\ reader = "ended" /\ Verify(a.sha) # "mismatch"
      /\ map' = Append(map, <<a.loc, dest>>)
      /\ next' = next + 1 /\ at' = "stage" /\ Close
      /\ UNCHANGED <<served, job, created, outcome, files, others, kills>>
    BY DEF Check, Artifact, Dest
<1>2. StreamOK' /\ Sequenced' /\ reader' = "closed"
    BY <1>1, CloseKeeps DEF IInv, TypeOK
<1>3. /\ next \in 1 .. Len(job.arts) /\ next \in DOMAIN job.arts /\ Planned(job)
      /\ Len(job.arts) \in Nat
    <2>1. at = "copy"
        BY <1>1
    <2> QED
        BY <2>1, JobIs, SMTT(30) DEF IInv, TypeOK, Planned, Listing, Progress
<1>4. Len(map) = next - 1
    BY <1>1 DEF IInv, Progress, Staging
<1>5. /\ \A i \in 1 .. next - 1 : map'[i] = map[i]
      /\ map'[next] = <<a.loc, dest>> /\ Len(map') = next
      /\ map' \in Seq({<<job.arts[i].loc, <<"cache", job.arts[i].rel>>>> : i \in DOMAIN job.arts})
    <2> DEFINE Pairs == {<<job.arts[i].loc, <<"cache", job.arts[i].rel>>>> : i \in DOMAIN job.arts}
    <2>1. map \in Seq(Pairs)
        BY DEF IInv, TypeOK
    <2>2. <<a.loc, dest>> \in Pairs
        BY <1>3
    <2>3. map' = Append(map, <<a.loc, dest>>)
        BY <1>1
    <2> HIDE DEF a, dest, Pairs
    <2> QED
        BY <1>3, <1>4, <2>1, <2>2, <2>3 DEF Pairs
<1>6. files[dest] = got /\ dest \in DOMAIN files /\ (InPlace(a) \/ dest \in created)
    <2>1. /\ dest \in DOMAIN files
          /\ IF InPlace(a) THEN Along(files[dest], got, rest)
             ELSE files[dest] = got /\ dest \in created
          /\ rest = <<>>
        <3>1. Artifact = a /\ Dest(a) = dest
            BY DEF Artifact, Dest
        <3> HIDE DEF a, dest
        <3> QED
            BY <1>1, <3>1 DEF IInv, Copying
    <2>2. got \in Seq(Blocks) /\ files[dest] \in Seq(Blocks)
        BY <2>1 DEF IInv, TypeOK
    <2>3. Along(files[dest], got, <<>>) => files[dest] = got
        <3> HIDE DEF dest
        <3> SUFFICES ASSUME Along(files[dest], got, <<>>) PROVE files[dest] = got
            OBVIOUS
        <3>1. Len(files[dest]) = Len(got)
            BY <2>2 DEF Along
        <3> QED
            BY <2>2, <3>1, SeqEqual DEF Along
    <2> HIDE DEF a, dest
    <2> QED
        BY <2>1, <2>3
<1>7. a.sha # "none" => got = Body(a.sha)
    BY <1>1 DEF Verify
<1>8. TypeOK'
    <2>1. next' \in 1 .. 1 + Len(job.arts)
        BY <1>1, <1>3
    <2> QED
        BY <1>1, <1>2, <1>5, <2>1 DEF IInv, TypeOK, StreamOK, Steps
<1>9. (InSequence /\ WrittenOnly)'
    BY <1>1, <1>2 DEF IInv, InSequence, WrittenOnly, Sequenced
<1>10. Progress'
    BY <1>1, <1>3, <1>5 DEF IInv, Progress, Staging
<1>11. Verified'
    <2> SUFFICES ASSUME NEW i \in 1 .. next
                 PROVE  LET b == job.arts[i]
                        IN /\ map'[i] = <<b.loc, Dest(b)>>
                           /\ InPlace(b) \/ Dest(b) \in created
                           /\ b.sha # "none" =>
                                 Dest(b) \in DOMAIN files /\ files[Dest(b)] = Body(b.sha)
        <3>1. next' - 1 = next
            BY <1>1, <1>3
        <3> QED
            BY <1>1, <3>1 DEF Verified, InPlace, Dest
    <2>1. CASE i = next
        <3>1. Dest(a) = dest /\ job.arts[i] = a
            BY <2>1 DEF Dest
        <3> HIDE DEF a, dest
        <3> QED
            BY <1>5, <1>6, <1>7, <2>1, <3>1
    <2>2. CASE i \in 1 .. next - 1
        BY <1>1, <1>5, <2>2 DEF IInv, Verified, Staging
    <2> QED
        BY <1>3, <2>1, <2>2
<1>12. (Copying /\ Removed)'
    <2>1. outcome' = "none"
        BY <1>1 DEF IInv, Progress
    <2> QED
        BY <1>1, <2>1 DEF Copying, Removed
<1> QED
    BY <1>8, <1>9, <1>10, <1>11, <1>12 DEF IInv
-------------------------------------------------------------------------------
\* The invariant holds in every reachable state.
THEOREM IInvHolds == Spec => []IInv
<1>1. IInv /\ [Next]_vars => IInv'
    <2> SUFFICES ASSUME IInv, [Next]_vars PROVE IInv'
        OBVIOUS
    <2>1. CASE Start
        BY <2>1, StartStep
    <2>2. CASE Step
        BY <2>2, UnpackSpaceStep, UnpackStep, UnpackedStep, CheckSpaceStep, OpenStep, CopyStep,
           CopyFailsStep, CheckStep, StagedStep, InstallStep DEF Step
    <2>3. CASE Kill
        BY <2>3, KillStep
    <2>4. CASE OthersUse \/ ServerChanges
        BY <2>4, OthersStep
    <2>5. CASE UNCHANGED vars
        <3>1. UNCHANGED <<served, location, rest, framed, got, resumes, reader, job, at, next,
                          created, map, outcome, files, others, kills>>
            BY <2>5 DEF vars, fetchVars, stream, run
        <3>2. (TypeOK /\ InSequence /\ Progress /\ WrittenOnly /\ Removed)'
            BY <3>1 DEF IInv, TypeOK, InSequence, Progress, WrittenOnly, Removed, Staging
        <3>3. (Verified /\ Copying)'
            BY <3>1 DEF IInv, Verified, Copying, Staging, Artifact, Dest, InPlace
        <3> QED
            BY <3>2, <3>3 DEF IInv
    <2> QED
        BY <2>1, <2>2, <2>3, <2>4, <2>5 DEF Next
<1> QED
    BY <1>1, InitHolds, PTL DEF Spec

\* The types of the state (Stage), for every request, server and filesystem.
THEOREM TypeCorrect == Spec => []TypeOK
    BY IInvHolds, PTL DEF IInv

\* A resumed download neither repeats a block nor leaves one out (ResumingReader), for
\* every length and number of resumes.
THEOREM InOrderAlways == Spec => []DeliversInOrder
<1>1. IInv => DeliversInOrder
    BY DEF IInv, InSequence, InOrder, DeliversInOrder
<1> QED
    BY <1>1, IInvHolds, PTL

\* The copy that stands in for the location of an artifact is the copy of that artifact.
LEMMA StagedPathIs ==
    ASSUME IInv, at = "staged", ~job.dry, NEW i \in DOMAIN job.arts
    PROVE  /\ StagedPath(job.arts[i].loc) = Dest(job.arts[i])
           /\ i \in 1 .. next - 1
<1>1. /\ Planned(job) /\ Len(job.arts) \in Nat /\ next = Len(job.arts) + 1
      /\ DOMAIN job.arts = 1 .. Len(job.arts) /\ Len(map) = next - 1
    BY JobIs DEF IInv, TypeOK, Progress, Planned, Listing, Staging
<1>2. DOMAIN map = 1 .. Len(job.arts)
    <2>1. DOMAIN map = 1 .. Len(map)
        BY DEF IInv, TypeOK
    <2> QED
        BY <1>1, <2>1
<1>3. \A k \in DOMAIN job.arts : map[k] = <<job.arts[k].loc, Dest(job.arts[k])>>
    BY <1>1 DEF IInv, Verified, Staging
<1>4. \A k \in DOMAIN job.arts : job.arts[k].loc = job.arts[i].loc => k = i
    BY <1>1 DEF Planned, Listing
<1>5. {k \in DOMAIN map : map[k][1] = job.arts[i].loc} = {i}
    BY <1>1, <1>2, <1>3, <1>4
<1>6. Min({i}) = i
    BY <1>1 DEF Min
<1>7. StagedPath(job.arts[i].loc) = map[i][2]
    BY <1>5, <1>6, Zenon DEF StagedPath
<1>8. map[i][2] = Dest(job.arts[i])
    BY <1>3
<1> QED
    BY <1>1, <1>7, <1>8

\* What the install reads is what was verified (stage.rs), whatever broke off, was
\* resumed, replaced or left over: for every list of artifacts that have different
\* locations and file names.
THEOREM VerifiedIsInstalled == Spec => []InstallsWhatWasVerified
<1>1. IInv => InstallsWhatWasVerified
    <2> SUFFICES ASSUME IInv, at = "staged", ~job.dry, NEW i \in DOMAIN job.arts,
                        job.arts[i].sha # "none"
                 PROVE  files[StagedPath(job.arts[i].loc)] = Body(job.arts[i].sha)
        BY DEF InstallsWhatWasVerified
    <2>1. i \in 1 .. next - 1 /\ StagedPath(job.arts[i].loc) = Dest(job.arts[i])
        BY StagedPathIs
    <2>2. files[Dest(job.arts[i])] = Body(job.arts[i].sha)
        BY <2>1 DEF IInv, Verified, Staging
    <2> QED
        BY <2>1, <2>2
<1> QED
    BY <1>1, IInvHolds, PTL

\* A file is changed or removed only where the run writes.
LEMMA OthersStay ==
    ASSUME IInv, [Next]_vars, NEW p \in DOMAIN files \ Writes(job)
    PROVE  p \in DOMAIN files' /\ files'[p] = files[p]
<1>1. ASSUME NEW path \in Writes(job), NEW blocks, files' = Put(path, blocks)
      PROVE  p \in DOMAIN files' /\ files'[p] = files[p]
    BY <1>1 DEF Put
<1>2. ASSUME NEW result, Dispose(result)
      PROVE  p \in DOMAIN files' /\ files'[p] = files[p]
    BY <1>2 DEF Dispose, Without, IInv, WrittenOnly
<1>3. ASSUME at \in {"stage", "copy"}, next <= Len(job.arts), ~InPlace(Artifact)
      PROVE  Dest(Artifact) \in Writes(job)
    <2>1. Planned(job) /\ Len(job.arts) \in Nat /\ next \in Nat /\ next >= 1
        BY JobIs DEF IInv, TypeOK
    <2>2. next \in DOMAIN job.arts
        BY <1>3, <2>1 DEF Planned, Listing
    <2> QED
        BY <1>3, <2>2 DEF Writes, InPlace, Dest, Artifact
<1>4. CASE Unpack
    <2>1. next \in DOMAIN job.archive
        BY <1>4, JobIs DEF Unpack, IInv, TypeOK, Planned, Listing
    <2>2. job.archive[next].path \in Writes(job)
        BY <2>1 DEF Writes
    <2> QED
        BY <1>1, <1>4, <2>2 DEF Unpack
<1>5. CASE OpenArtifact
    <2>1. CASE InPlace(Artifact) /\ files' = files
        BY <2>1
    <2>2. CASE ~InPlace(Artifact) /\ files' = Put(Dest(Artifact), <<>>)
        BY <1>1, <1>3, <1>5, <2>2 DEF OpenArtifact
    <2> QED
        BY <1>2, <1>5, <2>1, <2>2 DEF OpenArtifact
<1>6. CASE Copy
    <2>1. CASE files' = files
        BY <2>1
    <2>2. CASE ~InPlace(Artifact) /\ files' = Put(Dest(Artifact), got')
        <3>1. next <= Len(job.arts)
            BY <1>6, JobIs DEF Copy, IInv, Progress, TypeOK
        <3> QED
            BY <1>1, <1>3, <1>6, <2>2, <3>1 DEF Copy
    <2> QED
        BY <1>2, <1>6, <2>1, <2>2 DEF Copy
<1>7. CASE UnpackSpace \/ CheckSpace \/ CopyFails \/ Install
    BY <1>2, <1>7 DEF UnpackSpace, CheckSpace, CopyFails, Install
<1>8. CASE Start \/ Unpacked \/ Check \/ Staged \/ Kill \/ OthersUse \/ ServerChanges \/ UNCHANGED vars
    BY <1>8 DEF Start, Unpacked, Check, Staged, Kill, OthersUse, ServerChanges, vars
<1> QED
    BY <1>4, <1>5, <1>6, <1>7, <1>8 DEF Next, Step

\* A run that ends removes what it created, and nothing else is touched by it (Staged,
\* stage.rs): for every list of artifacts, archive and file there was before.
THEOREM OwnIsKept == Spec => RemovesOnlyItsOwn
<1> DEFINE Ended ==
        at' = "idle" /\ outcome' \in {"done", "failed"} /\ ~job.keep /\ ~job.dry =>
            /\ created' \cap DOMAIN files' = {}
            /\ outcome' = "done" =>
                 \A i \in DOMAIN job.arts :
                    InPlace(job.arts[i]) \/ Dest(job.arts[i]) \notin DOMAIN files'
<1>1. IInv /\ IInv' /\ [Next]_vars => Ended
    <2> SUFFICES ASSUME IInv', [Next]_vars, at' = "idle" PROVE Ended
        OBVIOUS
    <2>1. ~Start
        BY DEF Start
    <2>2. job' = job
        BY <2>1, CloseKeeps DEF Next, Step, UnpackSpace, Unpack, Unpacked, CheckSpace, OpenArtifact, Copy,
           CopyFails, Check, Staged, Install, Dispose, Kill, OthersUse, ServerChanges, vars, run
    <2> QED
        BY <2>2 DEF IInv, Removed, InPlace, Dest
<1>2. IInv /\ IInv' /\ [Next]_vars =>
        (\A p \in DOMAIN files \ Writes(job) : p \in DOMAIN files' /\ files'[p] = files[p]) /\ Ended
    BY <1>1, OthersStay
<1> QED
    BY <1>2, IInvHolds, PTL DEF Spec, RemovesOnlyItsOwn
-------------------------------------------------------------------------------
(* Room. *)

\* What is still to be copied, and to be unpacked, by what is published of sizes.
SizesFrom(n) == SumFunctionOnSet([i \in DOMAIN job.arts |-> job.arts[i].size], n .. Len(job.arts))
MemberSizes == [i \in DOMAIN job.archive |-> Length[job.archive[i].content]]
MembersFrom(n) == SumFunctionOnSet(MemberSizes, n .. Len(job.archive))

\* The room that is left for others is never less than what is still to be written
\* and the margin, of an artifact under way what is still to come.
RoomKept ==
    ~job.dry =>
        /\ at = "unpacking" /\ job.estimate >= MembersFrom(1) =>
              Room - Taken >= Margin + MembersFrom(next)
        /\ at = "stage" /\ Honest => Room - Taken >= Margin + SizesFrom(next)
        /\ at = "copy" /\ Honest =>
              IF InPlace(Artifact) THEN Room - Taken >= Margin + SizesFrom(next + 1)
              ELSE /\ Len(got) + Len(rest) <= Artifact.size
                   /\ Room - Taken >= Margin + SizesFrom(next + 1) + (Artifact.size - Len(got))
        /\ at = "staged" /\ Honest => Room - Taken >= Margin

\* The server holds what it may hold, and there are finitely many files.
ServedIsKnown == \A u \in Urls : served[u] \in {Published[u]} \cup Republished[u]
FilesFinite == IsFiniteSet(DOMAIN files)

\* A file more, or other content of one, changes what is taken by their lengths.
LEMMA PutTakes ==
    ASSUME FilesFinite, \A p \in DOMAIN files : files[p] \in Seq(Blocks),
           NEW path, NEW blocks \in Seq(Blocks), files' = Put(path, blocks)
    PROVE  /\ FilesFinite' /\ Taken \in Nat /\ Taken' \in Nat
           /\ Taken' <= Taken + Len(blocks)
           /\ path \in ScratchFiles => Taken' = Taken + Len(blocks) - Len(files[path])
<1> DEFINE S == ScratchFiles
           T == ScratchFiles'
           R == S \ {path}
           f == [p \in S |-> Len(files[p])]
           g == [p \in T |-> Len(files'[p])]
<1>1. /\ DOMAIN files' = DOMAIN files \cup {path} /\ files'[path] = blocks
      /\ \A p \in DOMAIN files \ {path} : files'[p] = files[p]
    BY DEF Put
<1>2. FilesFinite' /\ IsFiniteSet(S) /\ IsFiniteSet(T) /\ IsFiniteSet(R)
    <2>1. S \subseteq DOMAIN files /\ T \subseteq DOMAIN files' /\ R \subseteq S
        BY DEF ScratchFiles
    <2>2. IsFiniteSet(DOMAIN files) /\ IsFiniteSet(DOMAIN files')
        BY <1>1, FS_AddElement DEF FilesFinite
    <2> QED
        BY <2>1, <2>2, FS_Subset DEF FilesFinite
<1>3. Taken = SumFunctionOnSet(f, S) /\ Taken' = SumFunctionOnSet(g, T)
    BY DEF Taken, SumFunction
<1>4. /\ \A p \in S : f[p] = Len(files[p]) /\ f[p] \in Nat
      /\ Len(blocks) \in Nat
    BY DEF ScratchFiles
<1>5. /\ \A p \in R : p \in T /\ g[p] = f[p] /\ f[p] \in Nat
      /\ path \in T => g[path] = Len(blocks)
      /\ T \ {path} = R /\ (path \in S => path \in T)
    BY <1>1, <1>4 DEF ScratchFiles
<1>6. \A p \in T : g[p] \in Nat
    BY <1>4, <1>5
<1> HIDE DEF S, T, R, f, g
<1>7. /\ \A p \in S : f[p] \in Int
      /\ \A p \in T : g[p] \in Int
      /\ \A p \in R : f[p] \in Int /\ f[p] = g[p]
    BY <1>4, <1>5, <1>6
<1>8. SumFunctionOnSet(f, R) \in Nat /\ SumFunctionOnSet(g, R) = SumFunctionOnSet(f, R)
    BY <1>2, <1>5, <1>7, SumNat, SumSame
<1>9. Taken \in Nat /\ Taken' \in Nat
    BY <1>2, <1>3, <1>4, <1>6, SumNat
<1>10. /\ Taken >= SumFunctionOnSet(f, R)
       /\ path \in S => Taken = Len(files[path]) + SumFunctionOnSet(f, R)
    <2>1. CASE path \in S
        <3>1. SumFunctionOnSet(f, S) = f[path] + SumFunctionOnSet(f, S \ {path})
            BY <1>2, <1>7, <2>1, SumRemove
        <3> QED
            BY <1>3, <1>4, <1>8, <2>1, <3>1 DEF R
    <2>2. CASE path \notin S
        <3>1. R = S
            BY <2>2 DEF R
        <3> QED
            BY <1>3, <1>8, <2>2, <3>1
    <2> QED
        BY <2>1, <2>2
<1>11. /\ Taken' <= Len(blocks) + SumFunctionOnSet(f, R)
       /\ path \in T => Taken' = Len(blocks) + SumFunctionOnSet(f, R)
    <2>1. CASE path \in T
        <3>1. SumFunctionOnSet(g, T) = g[path] + SumFunctionOnSet(g, T \ {path})
            BY <1>2, <1>7, <2>1, SumRemove
        <3>2. SumFunctionOnSet(g, T) = Len(blocks) + SumFunctionOnSet(f, R)
            BY <1>5, <1>8, <2>1, <3>1
        <3> QED
            BY <1>3, <1>4, <1>8, <3>2
    <2>2. CASE path \notin T
        <3>1. R = T
            BY <1>5, <2>2
        <3>2. Taken' = SumFunctionOnSet(f, R)
            BY <1>3, <1>8, <3>1
        <3> QED
            BY <1>4, <1>8, <2>2, <3>2
    <2> QED
        BY <2>1, <2>2
<1>12. Taken' <= Taken + Len(blocks)
    BY <1>4, <1>8, <1>9, <1>10, <1>11
<1>13. ASSUME path \in ScratchFiles PROVE Taken' = Taken + Len(blocks) - Len(files[path])
    <2>1. path \in S /\ path \in T /\ Len(files[path]) \in Nat /\ Len(blocks) \in Nat
        BY <1>4, <1>5, <1>13 DEF S
    <2>2. /\ Taken = Len(files[path]) + SumFunctionOnSet(f, R)
          /\ Taken' = Len(blocks) + SumFunctionOnSet(f, R)
        BY <1>10, <1>11, <2>1
    <2> QED
        BY <1>8, <2>1, <2>2
<1> QED
    BY <1>2, <1>9, <1>12, <1>13

\* What is left to be copied or unpacked, one less at a time.
LEMMA LeftIs ==
    ASSUME Planned(job), NEW n \in Nat \ {0}
    PROVE  /\ SizesFrom(n) \in Nat /\ MembersFrom(n) \in Nat
           /\ n <= Len(job.arts) => SizesFrom(n) = job.arts[n].size + SizesFrom(n + 1)
           /\ n > Len(job.arts) => SizesFrom(n) = 0
           /\ n <= Len(job.archive) =>
                MembersFrom(n) = Length[job.archive[n].content] + MembersFrom(n + 1)
<1> DEFINE f == [i \in DOMAIN job.arts |-> job.arts[i].size]
<1>1. /\ Len(job.arts) \in Nat /\ DOMAIN job.arts = 1 .. Len(job.arts)
      /\ Len(job.archive) \in Nat /\ DOMAIN job.archive = 1 .. Len(job.archive)
    BY DEF Planned, Listing
<1>2. /\ \A i \in 1 .. Len(job.arts) : f[i] = job.arts[i].size /\ f[i] \in Nat
      /\ \A i \in 1 .. Len(job.archive) :
            MemberSizes[i] = Length[job.archive[i].content] /\ MemberSizes[i] \in Nat
    BY <1>1, FetchAssumption DEF Planned, Listing, MemberSizes
<1> HIDE DEF f
<1>3. /\ SizesFrom(n) \in Nat
      /\ n <= Len(job.arts) => SizesFrom(n) = f[n] + SizesFrom(n + 1)
      /\ n > Len(job.arts) => SizesFrom(n) = 0
    BY <1>1, <1>2, SumFrom DEF SizesFrom, f
<1>4. /\ MembersFrom(n) \in Nat
      /\ n <= Len(job.archive) => MembersFrom(n) = MemberSizes[n] + MembersFrom(n + 1)
    BY <1>1, <1>2, SumFrom DEF MembersFrom
<1> QED
    BY <1>1, <1>2, <1>3, <1>4

\* What was asked for beforehand is all that is left at the beginning.
LEMMA AllIsLeft ==
    ASSUME Planned(job)
    PROVE  Sizes(job.arts) = SizesFrom(1) /\ SumFunction(MemberSizes) = MembersFrom(1)
<1>1. DOMAIN job.arts = 1 .. Len(job.arts) /\ DOMAIN MemberSizes = 1 .. Len(job.archive)
    BY DEF Planned, Listing, MemberSizes
<1>2. SumFunction(MemberSizes) = MembersFrom(1)
    BY <1>1 DEF SumFunction, MembersFrom
<1> DEFINE f == [i \in DOMAIN job.arts |-> job.arts[i].size]
<1>3. DOMAIN f = 1 .. Len(job.arts)
    BY <1>1
<1>4. SumFunction(f) = SumFunctionOnSet(f, 1 .. Len(job.arts))
    BY <1>3 DEF SumFunction
<1> QED
    BY <1>2, <1>4 DEF Sizes, SizesFrom

\* Copying does not change what is copied from.
LEMMA HonestBefore ==
    ASSUME Planned(job), UNCHANGED job, Honest', NEW a, NEW i \in DOMAIN job.arts, a = job.arts[i],
           UNCHANGED files \/ (~InPlace(a) /\ \E blocks : files' = Put(Dest(a), blocks))
    PROVE  Honest
<1>1. ASSUME NEW k \in DOMAIN job.arts, ~Remote(job.arts[k].loc),
             job.arts[k].loc \in DOMAIN files
      PROVE  job.arts[k].loc \in DOMAIN files' /\ files'[job.arts[k].loc] = files[job.arts[k].loc]
    <2>1. CASE UNCHANGED files
        BY <1>1, <2>1
    <2>2. CASE ~InPlace(a) /\ \E blocks : files' = Put(Dest(a), blocks)
        <3>1. job.arts[k].loc # Dest(a)
            <4>1. CASE k = i
                BY <1>1, <2>2, <4>1 DEF InPlace
            <4>2. CASE k # i
                BY <1>1, <4>2 DEF Planned, Listing, Dest
            <4> QED
                BY <4>1, <4>2
        <3> QED
            BY <1>1, <2>2, <3>1 DEF Put
    <2> QED
        BY <2>1, <2>2
<1>2. \A k \in DOMAIN job.arts :
         LET b == job.arts[k]
         IN IF Remote(b.loc)
            THEN \A c \in {Published[b.loc]} \cup Republished[b.loc] : Length[c] <= b.size
            ELSE b.loc \in DOMAIN files => Len(files[b.loc]) <= b.size
    BY <1>1 DEF Honest
<1> QED
    BY <1>2 DEF Honest
-------------------------------------------------------------------------------
(* That the room is kept, step by step. *)

RoomInv == FilesFinite /\ ServedIsKnown /\ RoomKept

\* What a resumed or opened body is by its length.
LEMMA ServedFits ==
    ASSUME ServedIsKnown, Honest, NEW i \in DOMAIN job.arts, Remote(job.arts[i].loc)
    PROVE  Length[served[job.arts[i].loc]] <= job.arts[i].size
<1>1. served[job.arts[i].loc] \in {Published[job.arts[i].loc]} \cup Republished[job.arts[i].loc]
    BY DEF ServedIsKnown, Remote
<1> QED
    BY <1>1 DEF Honest

\* Nothing is asked for yet.
LEMMA RoomInit == Init => RoomInv
    BY StageAssumption DEF Init, FetchInit, RoomInv, FilesFinite, ServedIsKnown, RoomKept, NoJob

\* Where nothing is promised of the room.
LEMMA RoomFree ==
    ASSUME RoomInv, UNCHANGED served, at' \in {"idle", "unpack", "space"} \/ job'.dry,
           DOMAIN files' \subseteq DOMAIN files
    PROVE  RoomInv'
<1>1. FilesFinite'
    BY FS_Subset DEF RoomInv, FilesFinite
<1> QED
    BY <1>1 DEF RoomInv, ServedIsKnown, RoomKept

LEMMA RoomDispose ==
    ASSUME RoomInv, NEW result, Dispose(result)
    PROVE  RoomInv'
<1>1. DOMAIN files' \subseteq DOMAIN files
    BY RemoveIs DEF Dispose
<1> QED
    BY <1>1, RoomFree DEF Dispose

\* Where only the server or others on the filesystem do something, or the run moves on.
LEMMA RoomOthers == RoomInv /\ (OthersUse \/ ServerChanges \/ UNCHANGED vars) => RoomInv'
<1> SUFFICES ASSUME RoomInv, OthersUse \/ ServerChanges \/ UNCHANGED vars PROVE RoomInv'
    OBVIOUS
<1>1. UNCHANGED <<rest, got, job, at, next, files>>
    BY DEF OthersUse, ServerChanges, Republish, fetchVars, stream, run, vars
<1>2. ServedIsKnown'
    <2>1. CASE UNCHANGED served
        BY <2>1 DEF RoomInv, ServedIsKnown
    <2>2. CASE ~UNCHANGED served
        <3>1. PICK u \in Urls : \E c \in Republished[u] : served' = [served EXCEPT ![u] = c]
            BY <2>2 DEF OthersUse, ServerChanges, Republish, fetchVars, vars
        <3>2. \A w \in Urls : served'[w] = served[w] \/ served'[w] \in Republished[w]
            BY <3>1
        <3> QED
            BY <3>2 DEF RoomInv, ServedIsKnown
    <2> QED
        BY <2>1, <2>2
<1>3. RoomKept' /\ FilesFinite'
    BY <1>1 DEF RoomInv, FilesFinite, RoomKept, Honest, Taken, ScratchFiles, MembersFrom,
                MemberSizes, SizesFrom, Artifact, InPlace, Dest
<1> QED
    BY <1>2, <1>3 DEF RoomInv

\* How much is taken.
LEMMA TakenIs == IInv /\ RoomInv => Taken \in Nat
<1> SUFFICES ASSUME IInv, RoomInv PROVE Taken \in Nat
    OBVIOUS
<1> DEFINE f == [p \in ScratchFiles |-> Len(files[p])]
<1>1. IsFiniteSet(ScratchFiles)
    BY FS_Subset DEF RoomInv, FilesFinite, ScratchFiles
<1>2. \A p \in ScratchFiles : f[p] \in Nat
    BY DEF IInv, TypeOK, ScratchFiles
<1> HIDE DEF f
<1>3. SumFunctionOnSet(f, ScratchFiles) \in Nat
    BY <1>1, <1>2, SumNat
<1>4. Taken = SumFunctionOnSet(f, ScratchFiles)
    BY DEF Taken, SumFunction, f
<1> QED
    BY <1>3, <1>4

\* What enough room is.
LEMMA EnoughIs ==
    ASSUME IInv, RoomInv, NEW needed \in Nat, Enough(needed)
    PROVE  Room - Taken >= Margin + needed
<1>1. /\ Taken \in Nat /\ others \in Nat /\ Room \in Nat /\ Margin \in Nat
      /\ Room - others - Taken >= needed + Margin
    BY TakenIs, StageAssumption DEF IInv, TypeOK, Enough, Free
<1> QED
    BY <1>1

\* There is room for all members before the first is unpacked.
LEMMA RoomUnpackSpace == IInv /\ RoomInv /\ UnpackSpace => RoomInv'
<1> SUFFICES ASSUME IInv, RoomInv, UnpackSpace PROVE RoomInv'
    OBVIOUS
<1>1. CASE Dispose("failed")
    BY <1>1, RoomDispose
<1>2. CASE ~Dispose("failed")
    <2>1. /\ UNCHANGED <<served, job, next, files>> /\ next = 1 /\ Planned(job)
          /\ at' \in {"space", "unpacking"}
          /\ at' = "unpacking" => Enough(job.estimate)
        BY <1>2, JobIs DEF UnpackSpace, IInv, TypeOK, Progress
    <2>2. CASE at' = "space"
        BY <2>1, <2>2, RoomFree
    <2>3. CASE at' = "unpacking"
        <3>1. job.estimate \in Nat /\ MembersFrom(1) \in Nat /\ Taken \in Nat
              /\ Margin \in Nat /\ Room \in Nat
            BY <2>1, LeftIs, TakenIs, StageAssumption DEF Planned, Listing
        <3>2. Room - Taken >= Margin + job.estimate
            BY <2>1, <2>3, <3>1, EnoughIs
        <3>3. job.estimate >= MembersFrom(1) => Room - Taken >= Margin + MembersFrom(1)
            BY <3>1, <3>2
        <3>4. Taken' = Taken /\ MembersFrom(1)' = MembersFrom(1) /\ next' = 1
            BY <2>1 DEF Taken, ScratchFiles, MembersFrom, MemberSizes
        <3>5. MembersFrom(next)' = MembersFrom(1)
            BY <3>4, <2>1 DEF MembersFrom, MemberSizes
        <3>6. RoomKept'
            BY <2>1, <2>3, <3>3, <3>4, <3>5 DEF RoomKept
        <3> QED
            BY <2>1, <3>6 DEF RoomInv, FilesFinite, ServedIsKnown
    <2> QED
        BY <2>1, <2>2, <2>3
<1> QED
    BY <1>1, <1>2

\* A member more on the disk is one less to come.
LEMMA RoomUnpack == IInv /\ RoomInv /\ Unpack => RoomInv'
<1> SUFFICES ASSUME IInv, RoomInv, Unpack PROVE RoomInv'
    OBVIOUS
<1> DEFINE member == job.archive[next]
           whole == Body(member.content)
<1>1. /\ at = "unpacking" /\ next <= Len(job.archive) /\ UNCHANGED <<served, job>>
      /\ \/ files' = Put(member.path, whole) /\ next' = next + 1 /\ UNCHANGED at
         \/ at' = "idle" /\ \E n \in 0 .. Len(whole) - 1 :
                               files' = Put(member.path, SubSeq(whole, 1, n))
    BY DEF Unpack
<1>2. /\ Planned(job) /\ next \in Nat \ {0} /\ next + 1 \in Nat \ {0} /\ member.content \in Contents
      /\ Len(job.archive) \in Nat
    <2>1. /\ job \in Jobs \cup {NoJob}
          /\ next \in (1 .. 1 + Len(job.arts)) \cup (1 .. 1 + Len(job.archive))
        BY DEF IInv, TypeOK
    <2>2. Planned(job) /\ Len(job.arts) \in Nat /\ Len(job.archive) \in Nat
        BY <2>1, JobIs
    <2>3. next \in Nat \ {0} /\ next + 1 \in Nat \ {0}
        BY <2>1, <2>2
    <2>4. /\ DOMAIN job.archive = 1 .. Len(job.archive)
          /\ \A i \in DOMAIN job.archive : job.archive[i].content \in Contents
        BY <2>2 DEF Planned
    <2>5. next \in DOMAIN job.archive
        BY <1>1, <2>2, <2>3, <2>4
    <2> QED
        BY <2>2, <2>3, <2>4, <2>5
<1>3. whole \in Seq(Blocks) /\ Len(whole) = Length[member.content] /\ Len(whole) \in Nat
      /\ InOrder(whole)
    BY <1>2, BodyIs
<1>4. FilesFinite /\ \A p \in DOMAIN files : files[p] \in Seq(Blocks)
    BY DEF IInv, TypeOK, RoomInv
<1>5. ServedIsKnown'
    BY <1>1 DEF RoomInv, ServedIsKnown
<1>6. CASE files' = Put(member.path, whole) /\ next' = next + 1 /\ UNCHANGED at
    <2> HIDE DEF member, whole
    <2>1. FilesFinite' /\ Taken \in Nat /\ Taken' \in Nat /\ Taken' <= Taken + Len(whole)
        BY <1>3, <1>4, <1>6, PutTakes
    <2>2. /\ MembersFrom(next) = Len(whole) + MembersFrom(next + 1)
          /\ MembersFrom(next + 1) \in Nat
        BY <1>1, <1>2, <1>3, LeftIs DEF member
    <2>3. /\ MembersFrom(1)' = MembersFrom(1)
          /\ MembersFrom(next)' = MembersFrom(next + 1)
        BY <1>1, <1>6 DEF MembersFrom, MemberSizes
    <2>4. ASSUME ~job.dry, job.estimate >= MembersFrom(1)
          PROVE  Room - Taken' >= Margin + MembersFrom(next + 1)
        <3>1. Room - Taken >= Margin + MembersFrom(next)
            BY <1>1, <2>4 DEF RoomInv, RoomKept
        <3>2. Room \in Nat /\ Margin \in Nat
            BY StageAssumption
        <3> QED
            BY <1>3, <2>1, <2>2, <3>1, <3>2
    <2>5. RoomKept'
        BY <1>1, <1>6, <2>3, <2>4 DEF RoomKept
    <2> QED
        BY <1>5, <2>1, <2>5 DEF RoomInv
<1>7. CASE at' = "idle" /\ \E n \in 0 .. Len(whole) - 1 :
                              files' = Put(member.path, SubSeq(whole, 1, n))
    <2>1. PICK n \in 0 .. Len(whole) - 1 : files' = Put(member.path, SubSeq(whole, 1, n))
        BY <1>7
    <2>2. SubSeq(whole, 1, n) \in Seq(Blocks)
        <3>1. n \in Nat /\ n <= Len(whole)
            BY <1>3
        <3> HIDE DEF whole
        <3> QED
            BY <1>3, <3>1, HeadOfBody
    <2> HIDE DEF member, whole
    <2>3. FilesFinite'
        BY <1>4, <2>1, <2>2, PutTakes
    <2>4. RoomKept'
        BY <1>7 DEF RoomKept
    <2> QED
        BY <1>5, <2>3, <2>4 DEF RoomInv
<1> QED
    BY <1>1, <1>6, <1>7

\* The archive is done with, and nothing has been promised for the artifacts.
LEMMA RoomUnpacked == IInv /\ RoomInv /\ Unpacked => RoomInv'
    BY RoomFree DEF Unpacked, fetchVars

\* There is room for all artifacts before the first is copied.
LEMMA RoomCheckSpace == IInv /\ RoomInv /\ CheckSpace => RoomInv'
<1> SUFFICES ASSUME IInv, RoomInv, CheckSpace PROVE RoomInv'
    OBVIOUS
<1>1. CASE Dispose("failed")
    BY <1>1, RoomDispose
<1>2. CASE ~Dispose("failed")
    <2>1. /\ UNCHANGED <<served, job, next, files>> /\ next = 1 /\ Planned(job)
          /\ job.dry \/ (Enough(Sizes(job.arts)) /\ at' = "stage")
        BY <1>2, JobIs DEF CheckSpace, IInv, TypeOK, Progress, fetchVars
    <2>2. CASE job.dry
        BY <2>1, <2>2, RoomFree
    <2>3. CASE ~job.dry
        <3>1. SizesFrom(1) \in Nat /\ Sizes(job.arts) = SizesFrom(1)
            BY <2>1, LeftIs, AllIsLeft
        <3>2. Room - Taken >= Margin + SizesFrom(1)
            BY <2>1, <2>3, <3>1, EnoughIs
        <3>3. Taken' = Taken /\ SizesFrom(next)' = SizesFrom(1)
            BY <2>1 DEF Taken, ScratchFiles, SizesFrom
        <3>4. RoomKept'
            BY <2>1, <2>3, <3>2, <3>3 DEF RoomKept
        <3> QED
            BY <2>1, <3>4 DEF RoomInv, FilesFinite, ServedIsKnown
    <2> QED
        BY <2>2, <2>3
<1> QED
    BY <1>1, <1>2

\* Nothing is written yet when an artifact is opened, and what is to come has room.
LEMMA RoomOpen == IInv /\ RoomInv /\ OpenArtifact => RoomInv'
<1> SUFFICES ASSUME IInv, RoomInv, OpenArtifact PROVE RoomInv'
    OBVIOUS
<1> DEFINE a == job.arts[next]
           body == IF Remote(a.loc) THEN <<>> ELSE files[a.loc]
<1>1. CASE Dispose("failed")
    BY <1>1, RoomDispose
<1>2. CASE ~Dispose("failed")
    <2>1. /\ Remote(a.loc) \/ a.loc \in DOMAIN files
          /\ Open(a.loc, body)
          /\ at = "stage" /\ at' = "copy" /\ UNCHANGED <<served, job, next>>
          /\ IF InPlace(a) THEN UNCHANGED files ELSE files' = Put(Dest(a), <<>>)
        BY <1>2 DEF OpenArtifact, Artifact
    <2>2. /\ Planned(job) /\ next \in Nat \ {0} /\ next + 1 \in Nat \ {0} /\ next <= Len(job.arts)
          /\ next \in DOMAIN job.arts /\ a.size \in Nat
        <3>1. Planned(job) /\ next \in 1 .. Len(job.arts) /\ Len(job.arts) \in Nat
            BY JobIs DEF OpenArtifact, IInv, TypeOK
        <3>2. next \in DOMAIN job.arts
            BY <3>1 DEF Planned, Listing
        <3>3. \A i \in DOMAIN job.arts : job.arts[i].size \in Nat
            BY <3>1 DEF Planned, Listing
        <3>4. a.size \in Nat
            BY <3>2, <3>3
        <3> HIDE DEF a
        <3> QED
            BY <3>1, <3>2, <3>4
    <2>3. FilesFinite /\ \A p \in DOMAIN files : files[p] \in Seq(Blocks)
        BY DEF IInv, TypeOK, RoomInv
    <2>4. FilesFinite' /\ Taken \in Nat /\ Taken' \in Nat /\ Taken' <= Taken
        <3>1. CASE InPlace(a)
            <4>1. files' = files
                BY <2>1, <3>1
            <4>2. Taken' = Taken
                BY <4>1 DEF Taken, ScratchFiles
            <4> QED
                BY <2>3, <4>1, <4>2, TakenIs DEF FilesFinite
        <3>2. CASE ~InPlace(a)
            <4>1. files' = Put(Dest(a), <<>>) /\ <<>> \in Seq(Blocks) /\ Len(<<>>) = 0
                BY <2>1, <3>2
            <4>2. /\ FilesFinite' /\ Taken \in Nat /\ Taken' \in Nat
                  /\ Taken' <= Taken + Len(<<>>)
                <5> HIDE DEF a
                <5> QED
                    BY <2>3, <4>1, PutTakes
            <4> QED
                BY <4>1, <4>2
        <3> QED
            BY <3>1, <3>2
    <2>5. SizesFrom(next) = a.size + SizesFrom(next + 1) /\ SizesFrom(next + 1) \in Nat
        BY <2>2, LeftIs
    <2>6. /\ SizesFrom(next + 1)' = SizesFrom(next + 1)
          /\ Artifact' = a /\ InPlace(Artifact)' = InPlace(a)
        BY <2>1 DEF SizesFrom, Artifact, InPlace, Dest
    <2>7. got' = <<>> /\ Len(got') = 0
        BY <2>1 DEF Open
    <2>8. ASSUME Honest' PROVE Honest
        BY <2>1, <2>2, <2>8, HonestBefore
    <2>9. ASSUME Honest PROVE Len(rest') <= a.size /\ Len(rest') \in Nat
        <3>1. CASE Remote(a.loc)
            <4>1. rest' = Body(served[a.loc]) /\ served[a.loc] \in Contents
                BY <2>1, <3>1 DEF Open, Remote, IInv, TypeOK
            <4>2. Len(rest') = Length[served[a.loc]] /\ Len(rest') \in Nat
                BY <4>1, BodyIs
            <4>3. Length[served[a.loc]] <= a.size
                BY <2>2, <2>9, <3>1, ServedFits DEF RoomInv
            <4> QED
                BY <4>2, <4>3
        <3>2. CASE ~Remote(a.loc)
            <4>1. rest' = files[a.loc] /\ a.loc \in DOMAIN files
                BY <2>1, <3>2 DEF Open
            <4> QED
                BY <2>2, <2>3, <2>9, <3>2, <4>1 DEF Honest
        <3> QED
            BY <3>1, <3>2
    <2>10. ASSUME ~job.dry, Honest
           PROVE  Room - Taken' >= Margin + SizesFrom(next + 1) + (a.size - 0)
        <3>1. Room - Taken >= Margin + SizesFrom(next) /\ Room \in Nat /\ Margin \in Nat
            BY <2>1, <2>10, StageAssumption DEF RoomInv, RoomKept
        <3> HIDE DEF a
        <3> QED
            BY <2>2, <2>4, <2>5, <3>1
    <2>11. RoomKept'
        <3> SUFFICES ASSUME ~job.dry, Honest'
                     PROVE  IF InPlace(a) THEN Room - Taken' >= Margin + SizesFrom(next + 1)
                            ELSE /\ Len(got') + Len(rest') <= a.size
                                 /\ Room - Taken' >=
                                       Margin + SizesFrom(next + 1) + (a.size - Len(got'))
            BY <2>1, <2>6 DEF RoomKept
        <3>1. Honest
            BY <2>8
        <3>2. /\ Len(rest') <= a.size /\ Len(rest') \in Nat
              /\ Room - Taken' >= Margin + SizesFrom(next + 1) + (a.size - 0)
              /\ Room \in Nat /\ Margin \in Nat
            BY <2>9, <2>10, <3>1, StageAssumption
        <3> HIDE DEF a
        <3> QED
            BY <2>2, <2>4, <2>5, <2>7, <3>2
    <2>12. ServedIsKnown'
        BY <2>1 DEF RoomInv, ServedIsKnown
    <2> QED
        BY <2>4, <2>11, <2>12 DEF RoomInv
<1> QED
    BY <1>1, <1>2

\* What was delivered and what is to come, of a body that has room.
LEMMA ReadFits ==
    ASSUME StreamOK, Sequenced, Read, UNCHANGED served, NEW size \in Nat,
           reader = "broken" => Remote(location),
           location \in Urls => Length[served[location]] <= size,
           Len(got) + Len(rest) <= size
    PROVE  Len(got') + Len(rest') <= size
<1>1. /\ got \in Seq(Blocks) /\ rest \in Seq(Blocks) /\ Len(got) \in Nat /\ Len(rest) \in Nat
    BY DEF StreamOK
<1>2. CASE Deliver
    <2>1. Len(got') = Len(got) + 1 /\ Len(rest') = Len(rest) - 1
        BY <1>2, DeliverKeeps
    <2> QED
        BY <1>1, <2>1
<1>3. CASE End \/ FileFails
    BY <1>3 DEF End, FileFails
<1>4. CASE Drop
    <2>1. got' = got /\ (rest' = rest \/ (rest' = <<>> /\ Len(rest') = 0))
        BY <1>4 DEF Drop
    <2> QED
        BY <1>1, <2>1
<1>5. CASE Resume
    <2>1. got' = got
        BY <1>5 DEF Resume
    <2>2. CASE rest' = rest
        BY <2>1, <2>2
    <2>3. CASE Ranged
        <3> DEFINE body == Body(served[location])
        <3>1. Len(got) < Len(body) /\ rest' = SubSeq(body, Len(got) + 1, Len(body))
            BY <2>3 DEF Ranged
        <3>2. location \in Urls
            BY <1>5 DEF Resume, Remote
        <3>3. served[location] \in Contents
            BY <3>2 DEF StreamOK
        <3>4. body \in Seq(Blocks) /\ Len(body) = Length[served[location]] /\ Len(body) \in Nat
            BY <3>3, BodyIs
        <3>5. Len(rest') = Len(body) - Len(got)
            <4> HIDE DEF body
            <4> QED
                BY <1>1, <3>1, <3>4
        <3> HIDE DEF body
        <3> QED
            BY <1>1, <2>1, <3>1, <3>2, <3>4, <3>5
    <2> QED
        BY <1>5, <2>2, <2>3 DEF Resume
<1> QED
    BY <1>2, <1>3, <1>4, <1>5 DEF Read

\* A block more on the disk is one less to come.
LEMMA RoomCopy == IInv /\ RoomInv /\ Copy => RoomInv'
<1> SUFFICES ASSUME IInv, RoomInv, Copy PROVE RoomInv'
    OBVIOUS
<1> DEFINE a == job.arts[next]
<1>1. CASE Dispose("failed")
    BY <1>1, RoomDispose
<1>2. CASE ~Dispose("failed")
    <2>1. /\ Read /\ at = "copy" /\ UNCHANGED <<served, job, at, next>>
          /\ IF got' = got \/ InPlace(a) THEN UNCHANGED files ELSE files' = Put(Dest(a), got')
        BY <1>2 DEF Copy, Artifact, run
    <2>2. /\ Planned(job) /\ next \in DOMAIN job.arts /\ next + 1 \in Nat \ {0}
        <3>1. Planned(job) /\ next \in 1 .. Len(job.arts) /\ Len(job.arts) \in Nat
            BY <2>1, JobIs DEF IInv, TypeOK, Progress
        <3> QED
            BY <3>1 DEF Planned, Listing
    <2>3. a.size \in Nat
        <3>1. \A i \in DOMAIN job.arts : job.arts[i].size \in Nat
            BY <2>2 DEF Planned, Listing
        <3> QED
            BY <2>2, <3>1
    <2>4. FilesFinite /\ \A p \in DOMAIN files : files[p] \in Seq(Blocks)
        BY DEF IInv, TypeOK, RoomInv
    <2>5. StreamOK /\ Sequenced
        BY DEF IInv, TypeOK, InSequence, StreamOK, Sequenced
    <2>6. /\ location = a.loc /\ Dest(a) \in DOMAIN files
          /\ ~InPlace(a) => files[Dest(a)] = got
          /\ reader = "ended" => rest = <<>>
          /\ reader = "broken" => Remote(location)
        BY <2>1 DEF IInv, Copying, Artifact
    <2>7. StreamOK' /\ (Deliver \/ got' = got)
        BY <2>1, <2>5, <2>6, ReadKeeps
    <2>8. got \in Seq(Blocks) /\ got' \in Seq(Blocks) /\ Len(got) \in Nat /\ Len(got') \in Nat
        BY <2>5, <2>7 DEF StreamOK
    <2>9. /\ FilesFinite' /\ Taken \in Nat /\ Taken' \in Nat
          /\ InPlace(a) => Taken' = Taken
          /\ ~InPlace(a) => Taken' = Taken + Len(got') - Len(got)
        <3>1. CASE UNCHANGED files
            <4>1. Taken' = Taken /\ FilesFinite'
                BY <2>4, <3>1 DEF Taken, ScratchFiles, FilesFinite
            <4>2. ~InPlace(a) => got' = got
                <5>1. CASE got' # got /\ ~InPlace(a)
                    <6>1. files' = Put(Dest(a), got')
                        BY <2>1, <5>1
                    <6>2. files'[Dest(a)] = got'
                        BY <6>1 DEF Put
                    <6> QED
                        BY <2>6, <3>1, <5>1, <6>2
                <5> QED
                    BY <5>1
            <4> HIDE DEF a
            <4> QED
                BY <2>8, <4>1, <4>2, TakenIs
        <3>2. CASE ~InPlace(a) /\ files' = Put(Dest(a), got')
            <4>1. Dest(a) \in ScratchFiles
                BY <2>6 DEF ScratchFiles, Dest
            <4>2. /\ FilesFinite' /\ Taken \in Nat /\ Taken' \in Nat
                  /\ Taken' = Taken + Len(got') - Len(files[Dest(a)])
                <5> HIDE DEF a
                <5> QED
                    BY <2>4, <2>8, <3>2, <4>1, PutTakes
            <4> QED
                BY <2>6, <3>2, <4>2
        <3> QED
            BY <2>1, <3>1, <3>2
    <2>10. /\ SizesFrom(next + 1)' = SizesFrom(next + 1) /\ SizesFrom(next + 1) \in Nat
           /\ Artifact' = a /\ Artifact = a /\ InPlace(Artifact)' = InPlace(a)
        BY <2>1, <2>2, LeftIs DEF SizesFrom, Artifact, InPlace, Dest
    <2>11. ASSUME Honest' PROVE Honest
        BY <2>1, <2>2, <2>11, HonestBefore
    <2>12. RoomKept'
        <3> SUFFICES ASSUME ~job.dry, Honest'
                     PROVE  IF InPlace(a) THEN Room - Taken' >= Margin + SizesFrom(next + 1)
                            ELSE /\ Len(got') + Len(rest') <= a.size
                                 /\ Room - Taken' >=
                                       Margin + SizesFrom(next + 1) + (a.size - Len(got'))
            BY <2>1, <2>10 DEF RoomKept
        <3>1. Honest
            BY <2>11
        <3>2. IF InPlace(a) THEN Room - Taken >= Margin + SizesFrom(next + 1)
              ELSE /\ Len(got) + Len(rest) <= a.size
                   /\ Room - Taken >= Margin + SizesFrom(next + 1) + (a.size - Len(got))
            BY <2>1, <2>10, <3>1 DEF RoomInv, RoomKept
        <3>3. CASE InPlace(a)
            BY <2>9, <3>2, <3>3
        <3>4. CASE ~InPlace(a)
            <4>1. location \in Urls => Length[served[location]] <= a.size
                BY <2>2, <2>6, <3>1, ServedFits DEF RoomInv, Remote
            <4>2. Len(got') + Len(rest') <= a.size
                <5>1. Len(got) + Len(rest) <= a.size
                    BY <3>2, <3>4
                <5> HIDE DEF a
                <5> QED
                    BY <2>1, <2>3, <2>5, <2>6, <4>1, <5>1, ReadFits
            <4>3. Room - Taken' >= Margin + SizesFrom(next + 1) + (a.size - Len(got'))
                <5>1. /\ Room - Taken >= Margin + SizesFrom(next + 1) + (a.size - Len(got))
                      /\ Taken' = Taken + Len(got') - Len(got)
                      /\ Room \in Nat /\ Margin \in Nat
                    BY <2>9, <3>2, <3>4, StageAssumption
                <5>2. Taken \in Nat /\ SizesFrom(next + 1) \in Nat
                    BY <2>9, <2>10
                <5> HIDE DEF a
                <5> QED
                    BY <2>3, <2>8, <5>1, <5>2
            <4> QED
                BY <3>4, <4>2, <4>3
        <3> QED
            BY <3>3, <3>4
    <2>13. ServedIsKnown'
        BY <2>1 DEF RoomInv, ServedIsKnown
    <2> QED
        BY <2>9, <2>12, <2>13 DEF RoomInv
<1> QED
    BY <1>1, <1>2

\* What an artifact did not need is left over.
LEMMA RoomCheck == IInv /\ RoomInv /\ Check => RoomInv'
<1> SUFFICES ASSUME IInv, RoomInv, Check PROVE RoomInv'
    OBVIOUS
<1> DEFINE a == job.arts[next]
<1>1. at = "copy" /\ at' = "stage" /\ next' = next + 1 /\ UNCHANGED <<served, job, files>>
    BY DEF Check
<1>2. /\ FilesFinite' /\ ServedIsKnown' /\ Taken' = Taken /\ Honest' = Honest
      /\ SizesFrom(next)' = SizesFrom(next + 1)
    BY <1>1 DEF RoomInv, FilesFinite, ServedIsKnown, Taken, ScratchFiles, Honest, SizesFrom
<1>3. next + 1 \in Nat \ {0} /\ next \in DOMAIN job.arts /\ Planned(job)
    <2>1. Planned(job) /\ next \in 1 .. Len(job.arts) /\ Len(job.arts) \in Nat
        BY <1>1, JobIs DEF IInv, TypeOK, Progress
    <2> QED
        BY <2>1 DEF Planned, Listing
<1>4. a.size \in Nat /\ SizesFrom(next + 1) \in Nat
    <2>1. \A i \in DOMAIN job.arts : job.arts[i].size \in Nat
        BY <1>3 DEF Planned, Listing
    <2> QED
        BY <1>3, <2>1, LeftIs
<1>5. ASSUME ~job.dry, Honest PROVE Room - Taken >= Margin + SizesFrom(next + 1)
    <2>1. IF InPlace(a) THEN Room - Taken >= Margin + SizesFrom(next + 1)
          ELSE /\ Len(got) + Len(rest) <= a.size
               /\ Room - Taken >= Margin + SizesFrom(next + 1) + (a.size - Len(got))
        BY <1>1, <1>5 DEF RoomInv, RoomKept, Artifact
    <2>2. Len(got) \in Nat /\ Len(rest) \in Nat /\ Taken \in Nat /\ Room \in Nat /\ Margin \in Nat
        BY TakenIs, StageAssumption DEF IInv, TypeOK
    <2> HIDE DEF a
    <2> QED
        BY <1>4, <2>1, <2>2
<1>6. RoomKept'
    BY <1>1, <1>2, <1>5 DEF RoomKept
<1> QED
    BY <1>2, <1>6 DEF RoomInv

\* Nothing is left after the last artifact.
LEMMA RoomStaged == IInv /\ RoomInv /\ Staged => RoomInv'
<1> SUFFICES ASSUME IInv, RoomInv, Staged PROVE RoomInv'
    OBVIOUS
<1>1. /\ at = "stage" /\ at' = "staged" /\ next > Len(job.arts)
      /\ UNCHANGED <<served, job, files>>
    BY DEF Staged, fetchVars
<1>2. FilesFinite' /\ ServedIsKnown' /\ Taken' = Taken /\ Honest' = Honest
    BY <1>1 DEF RoomInv, FilesFinite, ServedIsKnown, Taken, ScratchFiles, Honest
<1>3. SizesFrom(next) = 0
    <2>1. Planned(job) /\ next \in Nat \ {0}
        BY <1>1, JobIs DEF IInv, TypeOK
    <2> QED
        BY <1>1, <2>1, LeftIs
<1>4. RoomKept'
    BY <1>1, <1>2, <1>3, StageAssumption DEF RoomInv, RoomKept
<1> QED
    BY <1>2, <1>4 DEF RoomInv

\* What is left of the room is enough for what is still to be written, in every
\* reachable state.
THEOREM RoomIsKept == Spec => [](IInv /\ RoomInv)
<1>1. IInv /\ RoomInv /\ [Next]_vars => RoomInv'
    <2> SUFFICES ASSUME IInv, RoomInv, [Next]_vars PROVE RoomInv'
        OBVIOUS
    <2>1. CASE Start
        BY <2>1, RoomFree DEF Start, fetchVars
    <2>2. CASE CopyFails \/ Install
        BY <2>2, RoomDispose DEF CopyFails, Install
    <2>3. CASE Kill
        BY <2>3, RoomFree DEF Kill
    <2> QED
        BY <2>1, <2>2, <2>3, RoomOthers, RoomUnpackSpace, RoomUnpack, RoomUnpacked, RoomCheckSpace,
           RoomOpen, RoomCopy, RoomCheck, RoomStaged DEF Next, Step
<1> QED
    BY <1>1, RoomInit, IInvHolds, PTL DEF Spec

\* Where what is published of sizes is true and nobody else takes room, staging leaves
\* the margin it is to leave (ensure_space, stage.rs), for every list of artifacts and
\* members, and whatever breaks off or was left by earlier runs.
THEOREM HeadroomIsKept == Spec => []KeepsHeadroom
<1>1. IInv /\ RoomInv => KeepsHeadroom
    <2> SUFFICES ASSUME IInv, RoomInv, Honest, others = 0, ~job.dry,
                        at \in {"unpacking", "stage", "copy", "staged"}
                 PROVE  Room - Taken >= Margin
        BY StageAssumption, TakenIs DEF KeepsHeadroom, Free
    <2>1. /\ Planned(job) /\ next \in Nat \ {0} /\ next + 1 \in Nat \ {0}
          /\ Taken \in Nat /\ Room \in Nat /\ Margin \in Nat
        BY JobIs, TakenIs, StageAssumption DEF IInv, TypeOK
    <2>2. SizesFrom(next) \in Nat /\ SizesFrom(next + 1) \in Nat /\ MembersFrom(next) \in Nat
        BY <2>1, LeftIs
    <2>3. CASE at = "unpacking"
        <3>1. job.estimate >= MembersFrom(1)
            <4>1. job.estimate >= SumFunction(MemberSizes)
                BY DEF Honest, MemberSizes
            <4> QED
                BY <2>1, <4>1, AllIsLeft
        <3> QED
            BY <2>1, <2>2, <2>3, <3>1 DEF RoomInv, RoomKept
    <2>4. CASE at = "stage"
        BY <2>1, <2>2, <2>4 DEF RoomInv, RoomKept
    <2>5. CASE at = "copy"
        <3>1. IF InPlace(Artifact) THEN Room - Taken >= Margin + SizesFrom(next + 1)
              ELSE /\ Len(got) + Len(rest) <= Artifact.size
                   /\ Room - Taken >= Margin + SizesFrom(next + 1) + (Artifact.size - Len(got))
            BY <2>5 DEF RoomInv, RoomKept
        <3>2. Len(got) \in Nat /\ Len(rest) \in Nat
            BY DEF IInv, TypeOK
        <3>3. Artifact.size \in Nat
            <4>1. next \in DOMAIN job.arts
                BY <2>1, <2>5, JobIs DEF IInv, TypeOK, Progress, Planned, Listing
            <4>2. \A i \in DOMAIN job.arts : job.arts[i].size \in Nat
                BY <2>1 DEF Planned, Listing
            <4> QED
                BY <4>1, <4>2 DEF Artifact
        <3> QED
            BY <2>1, <2>2, <3>1, <3>2, <3>3
    <2>6. CASE at = "staged"
        BY <2>6 DEF RoomInv, RoomKept
    <2> QED
        BY <2>3, <2>4, <2>5, <2>6
<1> QED
    BY <1>1, RoomIsKept, PTL
-------------------------------------------------------------------------------
(* Every run ends: the half of it that needs no fairness. *)

\* The parts of a run in their order; the copying of an artifact belongs to staging.
Place(step) ==
    IF step = "unpack" THEN 1
    ELSE IF step = "unpacking" THEN 2
    ELSE IF step = "space" THEN 3
    ELSE IF step \in {"stage", "copy"} THEN 4 ELSE 5

\* How far a stream has come that is not resumed any more.
Standing(r) == IF r = "open" THEN 0 ELSE IF r = "broken" THEN 1 ELSE 2

\* A stream is further when it has been resumed once more; or is nearer to its end; or
\* has less left to come.
ReadsOn ==
    \/ resumes < resumes'
    \/ resumes = resumes' /\ Standing(reader) < Standing(reader')
    \/ resumes = resumes' /\ reader = reader' /\ Len(rest') < Len(rest)

\* A run is further when it has come to a later part; or to a later artifact or member;
\* or has opened its artifact; or has read on in it.
Further ==
    \/ Place(at) < Place(at')
    \/ Place(at) = Place(at') /\ next < next'
    \/ next = next' /\ at = "stage" /\ at' = "copy"
    \/ next = next' /\ at = "copy" /\ at' = "copy" /\ ReadsOn

\* Each step of a run ends it or takes it further, and nobody else moves it, except
\* that the process may be killed.
GoesOn ==
    at # "idle" => \/ at' = "idle"
                   \/ Further
                   \/ ~Step /\ UNCHANGED <<at, next, resumes, reader, rest>>

LEMMA ReadGoesOn ==
    ASSUME rest \in Seq(Blocks), resumes \in Nat, Read
    PROVE  ReadsOn
<1>1. rest # <<>> => Len(Tail(rest)) < Len(rest) /\ Len(<<>>) < Len(rest)
    <2> SUFFICES ASSUME rest # <<>> PROVE Len(Tail(rest)) < Len(rest) /\ Len(<<>>) < Len(rest)
        OBVIOUS
    <2>1. Len(Tail(rest)) = Len(rest) - 1 /\ Len(rest) \in Nat \ {0}
        OBVIOUS
    <2>2. Len(<<>>) = 0
        OBVIOUS
    <2> QED
        BY <2>1, <2>2
<1>2. CASE Deliver
    <2>1. UNCHANGED <<resumes, reader>> /\ rest' = Tail(rest) /\ rest # <<>>
        BY <1>2 DEF Deliver
    <2> QED
        BY <1>1, <2>1 DEF ReadsOn
<1>3. CASE End
    BY <1>3 DEF End, ReadsOn, Standing
<1>4. CASE Drop
    <2>1. /\ rest # <<>> /\ UNCHANGED resumes
          /\ \/ reader = "open" /\ reader' = "broken"
             \/ rest' = <<>> /\ UNCHANGED reader
        BY <1>4 DEF Drop
    <2> QED
        BY <1>1, <2>1 DEF ReadsOn, Standing
<1>5. CASE Resume
    <2>1. /\ reader = "broken"
          /\ \/ resumes < MaxResumes /\ resumes' = resumes + 1
             \/ reader' = "failed" /\ resumes' \in {resumes, resumes + 1}
        BY <1>5 DEF Resume
    <2> QED
        BY <2>1 DEF ReadsOn, Standing
<1>6. CASE FileFails
    BY <1>6 DEF FileFails, ReadsOn, Standing
<1> QED
    BY <1>2, <1>3, <1>4, <1>5, <1>6 DEF Read

LEMMA StepAdvances ==
    ASSUME TypeOK, next \in Nat, Step
    PROVE  at' = "idle" \/ Further
<1>1. CASE UnpackSpace \/ Unpacked \/ CheckSpace \/ Staged
    <2>1. \/ at' = "idle"
          \/ at = "unpack" /\ at' \in {"unpacking", "space"}
          \/ at = "unpacking" /\ at' = "space"
          \/ at = "space" /\ at' \in {"stage", "staged"}
          \/ at = "stage" /\ at' = "staged"
        BY <1>1 DEF UnpackSpace, Unpacked, CheckSpace, Staged, Dispose
    <2> QED
        BY <2>1 DEF Further, Place
<1>2. CASE Unpack
    <2>1. at' = "idle" \/ (at' = at /\ next' = next + 1)
        BY <1>2 DEF Unpack
    <2> QED
        BY <2>1 DEF Further
<1>3. CASE OpenArtifact
    <2>1. at = "stage" /\ (at' = "idle" \/ (at' = "copy" /\ next' = next))
        BY <1>3 DEF OpenArtifact, Dispose
    <2> QED
        BY <2>1 DEF Further
<1>4. CASE Copy
    <2>1. at = "copy" /\ (at' = "idle" \/ (Read /\ at' = at /\ next' = next))
        BY <1>4 DEF Copy, Dispose, run
    <2>2. Read => ReadsOn
        BY ReadGoesOn DEF TypeOK
    <2> QED
        BY <2>1, <2>2 DEF Further
<1>5. CASE CopyFails \/ Install
    BY <1>5 DEF CopyFails, Install, Dispose
<1>6. CASE Check
    <2>1. at = "copy" /\ at' = "stage" /\ next' = next + 1
        BY <1>6 DEF Check
    <2> QED
        BY <2>1 DEF Further, Place
<1> QED
    BY <1>1, <1>2, <1>3, <1>4, <1>5, <1>6 DEF Step

\* However often connections drop, and whatever the server, the operator and the rest of
\* the system do, each step of a run is a step down in a well-founded order: resumes,
\* artifacts, members and what is still to come are bounded (TypeOK).  For StagingEnds
\* all that is missing is a thread that is scheduled (stage.rs: run, fetch.rs:147).
THEOREM StagingGoesOn == Spec => [][GoesOn]_vars
<1>1. IInv /\ [Next]_vars => [GoesOn]_vars
    <2> SUFFICES ASSUME IInv, Next, at # "idle" PROVE GoesOn
        BY DEF GoesOn
    <2>1. TypeOK /\ next \in Nat
        BY JobIs DEF IInv, TypeOK, Planned, Listing
    <2>2. CASE Step
        BY <2>1, <2>2, StepAdvances DEF GoesOn
    <2>3. CASE Kill
        BY <2>3 DEF Kill, GoesOn
    <2>4. CASE ~Step /\ (OthersUse \/ ServerChanges)
        BY <2>4 DEF OthersUse, ServerChanges, Republish, fetchVars, stream, run, GoesOn
    <2>5. ~Start
        BY DEF Start
    <2> QED
        BY <2>2, <2>3, <2>4, <2>5 DEF Next
<1> QED
    BY <1>1, IInvHolds, PTL DEF Spec
===============================================================================
