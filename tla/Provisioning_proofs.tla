-------------------------- MODULE Provisioning_proofs --------------------------
(***************************************************************************)
(* Proofs about the attempts of Provision, for every set of descriptors,   *)
(* any number of faults and, where nothing else is said, whatever a        *)
(* descriptor reads back as; and about the plans of Provisioning, whose    *)
(* every behaviour is one of Provision.                                    *)
(*                                                                         *)
(* A plan put onto a device reads back as that plan, fits it, and has room *)
(* for the sizes of the scheme, whatever the geometry and the scheme.  The *)
(* invariant is that what was chosen at the start is a valid scheme, a     *)
(* device that takes it, the plan made of both and descriptors near that   *)
(* plan and far from it.  Valid gives what the rest needs: numbers of      *)
(* logical units that differ, so that the block of each is its own; a      *)
(* logical block size whose code survives 1u32 << code; a boot LU that     *)
(* some logical unit of the scheme is flagged as; and one logical unit     *)
(* without a size.  The sizes rest on division that rounds up undoing one  *)
(* that rounds down.  That the plan fits rests on the rest being what the  *)
(* others and the buffer leave, so that everything adds up to the device,  *)
(* and on the sum over logical units being the one over the members of the *)
(* scheme that plan has compared with each ceiling.                        *)
(***************************************************************************)
EXTENDS Provisioning, SumLemmas, TLAPS
-------------------------------------------------------------------------------
(* The attempts. *)

LEMMA LayoutType ==
    ASSUME NEW l \in Layouts
    PROVE  /\ l.main \in Shapes /\ l.above \subseteq Indexes
           /\ [l EXCEPT !.main = "scheme"] \in Layouts
           /\ \A i : [l EXCEPT !.above = @ \ {i}] \in Layouts
BY DEF Layouts, Shapes

LEMMA ReportedType ==
    ASSUME written \in Layouts, inForce \in Layouts, attr \in BootLus \cup {"none"}
    PROVE  Reported \in Probes
BY DEF Reported, Layouts, Probes

\* A probe reports what there is but for what it skips, and keeps that apart.
LEMMA ProbedGives ==
    ASSUME NEW skipped, Probed(skipped), Reported \in Probes
    PROVE  /\ read' \in Probes /\ missed' \subseteq Indexes
           /\ read'.main = Reported.main /\ read'.attr = Reported.attr
           /\ read'.above = Reported.above \ missed'
           /\ faults' # faults + 1 => missed' = {}
BY DEF Probed, Seen, Probes, Fault

LEMMA AnnouncedType ==
    ASSUME NEW r
    PROVE  Announced(r) \in {"creates", "erases", "keeps"}
BY DEF Announced

\* A question says something of the data, and a step other than the writing of
\* descriptors has none left to clear.
Orderly ==
    /\ at = "asked" => told # "none"
    /\ at \notin {"idle", "write"} => todo = {}

\* No step leaves the bounds, wherever it goes.
LEMMA Bounded ==
    ASSUME TypeOK, [Next]_vars
    PROVE  at' \in Steps /\ faults' \in 0..MaxFaults
<1> USE DEF Next, Attempt, vars, Goto, End, Move, Finish, Fails, Probed, Ask, Dismiss,
            Confirm, Probe, ProbeFails, Guard, ClearAbove, WriteDescriptor, WriteAttr, SetDeviceInit, Poll, DropLus,
            Scan, WaitForNode, Verify, Initialise, Killed, PowerCycle, Use, Release
<1>1. Fault \/ UNCHANGED faults
  OBVIOUS
<1>2. faults' \in 0..MaxFaults
  BY <1>1, ProvisionAssumption DEF TypeOK, Fault
<1>3. at' \in Steps
  BY DEF TypeOK, Steps
<1> QED
  BY <1>2, <1>3

LEMMA StaysOrderly ==
    ASSUME TypeOK, Orderly, [Next]_vars
    PROVE  Orderly'
<1> USE DEF Orderly, Goto, End, Move, Finish, Fails, attempt
<1>1. CASE Ask
  <2>1. Announced(read') # "none"
    BY AnnouncedType
  <2> QED
    BY <1>1, <2>1 DEF Ask
<1>2. CASE Guard
  <2>1. ~NeedsDescriptorWrite(read) => read.above = {}
    BY DEF NeedsDescriptorWrite
  <2> QED
    BY <1>2, <2>1 DEF Guard
<1>3. CASE ClearAbove
  BY <1>3 DEF ClearAbove
<1>4. CASE WriteDescriptor
  BY <1>4 DEF WriteDescriptor
<1>5. CASE Dismiss \/ Confirm \/ Initialise \/ Killed \/ PowerCycle \/ Use \/ Release
           \/ UNCHANGED vars
  BY <1>5 DEF Dismiss, Confirm, Initialise, Killed, PowerCycle, Use, Release, vars
<1>6. CASE Probe \/ ProbeFails \/ Verify
  BY <1>6 DEF Probe, ProbeFails, Verify
<1>7. CASE WriteAttr \/ SetDeviceInit \/ Poll \/ DropLus \/ Scan \/ WaitForNode
  BY <1>7 DEF WriteAttr, SetDeviceInit, Poll, DropLus, Scan, WaitForNode
<1> QED
  BY <1>1, <1>2, <1>3, <1>4, <1>5, <1>6, <1>7 DEF Next, Attempt

\* The state, and every answer and verdict in it, has its type, and what is left
\* to clear is part of what the last probe found there.
THEOREM TypeCorrect == Spec => []TypeOK
<1>1. Init => TypeOK /\ Orderly
  <2> SUFFICES ASSUME Init PROVE TypeOK /\ Orderly
    OBVIOUS
  <2>1. read \in Probes /\ missed \subseteq Indexes /\ todo \subseteq read.above
    BY DEF Init, Probes, NoProbe, Shapes, BootLus
  <2>2. faults \in 0..MaxFaults
    BY ProvisionAssumption DEF Init
  <2>3. view \in Layouts
    BY DEF Init
  <2>4. at \in Steps
    BY DEF Init, Steps
  <2> QED
    BY <2>1, <2>2, <2>3, <2>4 DEF Init, TypeOK, Orderly
<1>2. TypeOK /\ Orderly /\ [Next]_vars => TypeOK' /\ Orderly'
  <2> SUFFICES ASSUME TypeOK, Orderly, [Next]_vars PROVE TypeOK'
    BY StaysOrderly
  <2>a. ASSUME \E skipped \in SUBSET Indexes : Probed(skipped)
        PROVE  /\ read' \in Probes /\ missed' \subseteq Indexes
               /\ Announced(read') \in {"creates", "erases", "keeps"}
    BY <2>a, ProbedGives, ReportedType, AnnouncedType DEF TypeOK
  <2>b. at' \in Steps /\ faults' \in 0..MaxFaults
    BY Bounded
  <2> USE <2>b DEF TypeOK, given, device, kernel, attempt, Goto, End, Move, Finish, Fails
  <2>1. CASE Ask
    <3>1. /\ read' \in Probes /\ missed' \subseteq Indexes
          /\ Announced(read') \in {"creates", "erases", "keeps"}
      BY <2>1, <2>a DEF Ask
    <3>2. disk' \in BOOLEAN /\ todo' \subseteq read'.above
      BY <2>1 DEF Ask, HasNode
    <3>3. told' \in {"none", "creates", "erases", "keeps"}
      BY <2>1, <3>1 DEF Ask
    <3>4. outcome' = "none" /\ UNCHANGED <<given, device, kernel, consent>>
      BY <2>1 DEF Ask
    <3> QED
      BY <3>1, <3>2, <3>3, <3>4
  <2>2. CASE Dismiss BY <2>2 DEF Dismiss
  <2>3. CASE Confirm
    <3>1. consent' \subseteq {"creates", "erases", "keeps", "unseen"}
      BY <2>3 DEF Confirm, Orderly
    <3> QED
      BY <2>3, <3>1 DEF Confirm
  <2>4. CASE Probe
    <3>1. read' \in Probes /\ missed' \subseteq Indexes
      BY <2>4, <2>a DEF Probe
    <3>2. todo' = {} /\ outcome' \in {outcome, "unneeded", "refused"}
      BY <2>4 DEF Probe, Orderly
    <3>3. UNCHANGED <<given, device, kernel, disk, told, consent>>
      BY <2>4 DEF Probe
    <3> QED
      BY <3>1, <3>2, <3>3
  <2>5. CASE ProbeFails BY <2>5 DEF ProbeFails
  <2>6. CASE Guard BY <2>6 DEF Guard
  <2>7. CASE ClearAbove
    <3> DEFINE index == CHOOSE i \in todo : \A j \in todo : i <= j
    <3>1. /\ written' \in {written, [written EXCEPT !.above = @ \ {index}]}
          /\ todo' \in {todo, todo \ {index}}
      BY <2>7 DEF ClearAbove
    <3> HIDE DEF index
    <3>2. written' \in Layouts
      BY <3>1, LayoutType
    <3>3. todo' \subseteq read'.above
      BY <2>7, <3>1 DEF ClearAbove
    <3> QED
      BY <2>7, <3>2, <3>3 DEF ClearAbove
  <2>8. CASE WriteDescriptor
    <3>1. written' \in Layouts
      BY <2>8, LayoutType DEF WriteDescriptor
    <3>2. arrived' \in BOOLEAN
      BY <2>8 DEF WriteDescriptor
    <3> QED
      BY <2>8, <3>1, <3>2 DEF WriteDescriptor
  <2>9. CASE WriteAttr BY <2>9 DEF WriteAttr, BootLus
  <2>10. CASE SetDeviceInit
    <3>1. initing' \in BOOLEAN
      BY <2>10 DEF SetDeviceInit
    <3>2. outcome' \in {outcome, "failed"}
      BY <2>10 DEF SetDeviceInit
    <3>3. UNCHANGED <<given, written, inForce, arrived, attr, data, kernel, attempt>>
      BY <2>10 DEF SetDeviceInit
    <3> QED
      BY <3>1, <3>2, <3>3
  <2>11. CASE Poll BY <2>11 DEF Poll
  <2>12. CASE DropLus
    <3>1. view' \in Layouts
      BY <2>12 DEF DropLus, NoLus, Layouts, Shapes
    <3> QED
      BY <2>12, <3>1 DEF DropLus
  <2>13. CASE Scan
    <3>1. view' \in Layouts
      BY <2>13 DEF Scan
    <3> QED
      BY <2>13, <3>1 DEF Scan
  <2>14. CASE WaitForNode BY <2>14 DEF WaitForNode
  <2>15. CASE Verify
    <3>1. read' \in Probes /\ missed' \subseteq Indexes
      BY <2>15, <2>a DEF Verify
    <3>2. todo' = {} /\ outcome' \in {"complete", "failed"}
      BY <2>15 DEF Verify, Orderly
    <3>3. UNCHANGED <<given, device, kernel, disk, told, consent>>
      BY <2>15 DEF Verify
    <3> QED
      BY <3>1, <3>2, <3>3
  <2>16. CASE Initialise BY <2>16, ZenonT(40) DEF Initialise, Reconfigure
  <2>17. CASE Killed BY <2>17 DEF Killed
  <2>18. CASE PowerCycle BY <2>18, LayoutType DEF PowerCycle, Reconfigure
  <2>19. CASE Use BY <2>19 DEF Use
  <2>20. CASE Release
    <3>1. used' \in BOOLEAN
      BY <2>20 DEF Release
    <3>2. UNCHANGED <<given, device, view, at, attempt, outcome, faults>>
      BY <2>20 DEF Release
    <3> QED
      BY <3>1, <3>2
  <2>21. CASE UNCHANGED vars BY <2>21 DEF vars
  <2> QED BY <2>1, <2>2, <2>3, <2>4, <2>5, <2>6, <2>7, <2>8, <2>9, <2>10, <2>11, <2>12,
             <2>13, <2>14, <2>15, <2>16, <2>17, <2>18, <2>19, <2>20, <2>21
             DEF Next, Attempt
<1> QED BY <1>1, <1>2, PTL DEF Spec
-------------------------------------------------------------------------------
(* The data. *)

\* The operator has agreed to a prompt that could tell.
Aware == consent \cap {"erases", "creates", "unseen"} # {}

\* The consent is there before the first descriptor is written, and stays.  It is
\* there for the probe that apply goes by, as only a configuration that has arrived
\* can change between it and the question, and it skips descriptors, but finds none
\* that the probe of the question had not to find.
Agreed ==
    /\ data = "lost" => Aware
    /\ data = "kept" =>
        /\ arrived => Aware
        /\ at = "asked" /\ NeedsDescriptorWrite(Reported)
           => told \in {"erases", "creates"} \/ missed # {} \/ Aware
        /\ at = "probe" /\ NeedsDescriptorWrite(Reported) => Aware
        /\ at = "guard" /\ NeedsDescriptorWrite(read) => Aware
        /\ at = "write" => Aware

LEMMA AgreedStays ==
    ASSUME TypeOK, Agreed, [Next]_vars
    PROVE  Agreed'
<1> USE DEF Agreed, Aware, given, device, kernel, attempt, Goto, End, Move, Finish, Fails
<1>r. UNCHANGED <<written, inForce, attr>> => Reported' = Reported
  BY DEF Reported
<1>p. ASSUME \E skipped \in SUBSET Indexes : Probed(skipped)
      PROVE  /\ NeedsDescriptorWrite(read') => NeedsDescriptorWrite(Reported)
             /\ NeedsDescriptorWrite(Reported) => NeedsDescriptorWrite(read') \/ missed' # {}
  <2>1. /\ read'.main = Reported.main /\ read'.above = Reported.above \ missed'
    BY <1>p, ProbedGives, ReportedType DEF TypeOK
  <2> QED
    BY <2>1 DEF NeedsDescriptorWrite
<1>1. CASE Ask
  <2>1. /\ at' = "asked" => told' = Announced(read')
        /\ at' \in {"idle", "asked"} /\ UNCHANGED <<device, consent>>
    BY <1>1 DEF Ask
  <2>2. NeedsDescriptorWrite(read') => Announced(read') \in {"erases", "creates"}
    BY DEF Announced
  <2>3. NeedsDescriptorWrite(Reported) => NeedsDescriptorWrite(read') \/ missed' # {}
    BY <1>1, <1>p DEF Ask
  <2> QED
    BY <1>r, <2>1, <2>2, <2>3
<1>2. CASE Confirm
  <2>1. told \in {"erases", "creates"} \/ missed # {} \/ Aware => Aware'
    BY <1>2 DEF Confirm
  <2>2. /\ at = "asked" /\ at' = "probe" /\ UNCHANGED device
        /\ Aware => Aware'
    BY <1>2 DEF Confirm
  <2> QED
    BY <1>r, <2>1, <2>2
<1>3. CASE Probe
  <2>1. NeedsDescriptorWrite(read') => NeedsDescriptorWrite(Reported)
    BY <1>3, <1>p DEF Probe
  <2>2. at = "probe" /\ at' \in {"idle", "guard"} /\ UNCHANGED <<device, consent>>
    BY <1>3 DEF Probe
  <2> QED
    BY <2>1, <2>2
<1>4. CASE Guard
  BY <1>4 DEF Guard
<1>5. CASE ClearAbove
  <2>1. at = "write" /\ at' \in {"write", "idle"} /\ UNCHANGED <<arrived, data, consent>>
    BY <1>5 DEF ClearAbove
  <2> QED
    BY <2>1
<1>6. CASE WriteDescriptor
  <2>1. at = "write" /\ at' \in {"attr", "idle"} /\ UNCHANGED <<data, consent>>
    BY <1>6 DEF WriteDescriptor
  <2> QED
    BY <2>1
<1>7. CASE Initialise
  <2>1. CASE arrived
    BY <1>7, <2>1 DEF Initialise, Reconfigure
  <2>2. CASE ~arrived
    <3>1. /\ UNCHANGED <<written, inForce, attr, data, at, read, missed, told, consent>>
          /\ ~arrived'
      BY <1>7, <2>2 DEF Initialise, Reconfigure
    <3> QED
      BY <1>r, <2>2, <3>1
  <2> QED
    BY <2>1, <2>2
<1>8. CASE PowerCycle
  BY <1>8 DEF PowerCycle, Reconfigure
<1>9. CASE Dismiss \/ Killed \/ Use \/ Release \/ UNCHANGED vars
  BY <1>r, <1>9 DEF Dismiss, Killed, Use, Release, vars
<1>10. CASE ProbeFails
  BY <1>10 DEF ProbeFails
<1>11. CASE SetDeviceInit \/ Poll
  <2>1. /\ at' \in {"poll", "drop", "idle"}
        /\ UNCHANGED <<written, inForce, arrived, data, consent>>
    BY <1>11 DEF SetDeviceInit, Poll
  <2> QED
    BY <2>1
<1>12. CASE WriteAttr
  <2>1. at' \in {"init", "idle"} /\ UNCHANGED <<written, inForce, arrived, data, consent>>
    BY <1>12 DEF WriteAttr
  <2> QED
    BY <2>1
<1>13. CASE DropLus \/ Scan \/ WaitForNode \/ Verify
  BY <1>13 DEF DropLus, Scan, WaitForNode, Verify
<1> QED
  BY <1>1, <1>2, <1>3, <1>4, <1>5, <1>6, <1>7, <1>8, <1>9, <1>10, <1>11, <1>12, <1>13
     DEF Next, Attempt

\* Whatever failed before, and whether or not a descriptor reads back before it is
\* in force, nobody loses data over a prompt that says none is erased, if the probe
\* it was made from read what there was (provision.rs:784, 1203); or over none at all.
THEOREM ErasureWasAnnounced == Spec => []ErasedOnlyAsAnnounced
<1>1. Init => Agreed
  BY DEF Init, Agreed
<1>2. TypeOK /\ Agreed /\ [Next]_vars => Agreed'
  BY AgreedStays
<1>3. Agreed => ErasedOnlyAsAnnounced
  BY DEF Agreed, Aware, ErasedOnlyAsAnnounced
<1> QED
  BY <1>1, <1>2, <1>3, TypeCorrect, PTL DEF Spec
-------------------------------------------------------------------------------
(* The dry run. *)

\* In a dry run the device stays as it came.
Untouched ==
    dry =>
    /\ at \in {"idle", "asked", "probe", "guard"}
    /\ ~arrived /\ ~initing
    /\ written = inForce /\ view = inForce

LEMMA UntouchedStays ==
    ASSUME TypeOK, Untouched, [Next]_vars
    PROVE  Untouched' /\ (dry => UNCHANGED <<written, inForce, initing, attr, view>>)
<1> USE DEF Untouched, given, device, kernel, attempt, Goto, End, Move, Finish, Fails
<1>1. CASE Ask \/ Dismiss \/ Confirm
  BY <1>1 DEF Ask, Dismiss, Confirm
<1>2. CASE Probe \/ ProbeFails \/ Guard
  BY <1>2 DEF Probe, ProbeFails, Guard
<1>3. CASE ClearAbove \/ WriteDescriptor \/ WriteAttr \/ SetDeviceInit \/ Poll
           \/ DropLus \/ Scan \/ WaitForNode \/ Verify
  <2>1. at \in {"write", "attr", "init", "poll", "drop", "scan", "wait", "verify"}
    BY <1>3 DEF ClearAbove, WriteDescriptor, WriteAttr, SetDeviceInit, Poll, DropLus, Scan,
                WaitForNode, Verify
  <2>2. dry' = dry
    BY <1>3 DEF ClearAbove, WriteDescriptor, WriteAttr, SetDeviceInit, Poll, DropLus, Scan,
                WaitForNode, Verify
  <2> QED
    BY <2>1, <2>2
<1>4. CASE Initialise
  BY <1>4 DEF Initialise
<1>5. CASE PowerCycle
  <2>1. /\ UNCHANGED <<dry, attr>> /\ at' = "idle" /\ arrived' = FALSE /\ initing' = FALSE
        /\ inForce' = IF arrived THEN written ELSE inForce
        /\ written' \in {written, inForce'} /\ view' = inForce'
    BY <1>5 DEF PowerCycle, Reconfigure
  <2>2. CASE dry
    <3>1. inForce' = inForce
      BY <2>1, <2>2
    <3>2. initing' = initing
      BY <2>1, <2>2 DEF TypeOK
    <3> QED
      BY <2>1, <2>2, <3>1, <3>2
  <2> QED
    BY <2>1, <2>2
<1>6. CASE Killed
  BY <1>6 DEF Killed
<1>7. CASE Use \/ Release
  BY <1>7 DEF Use, Release
<1>8. CASE UNCHANGED vars
  BY <1>8 DEF vars
<1> QED
  BY <1>1, <1>2, <1>3, <1>4, <1>5, <1>6, <1>7, <1>8 DEF Next, Attempt

\* A dry run leaves the device, and what the kernel knows of it, as they were
\* (apply, provision.rs:1280-1297).
THEOREM DryRunIsDry == Spec => DryRunTouchesNothing
<1>1. Init => Untouched
  BY DEF Init, Untouched
<1>2. TypeOK /\ Untouched /\ [Next]_vars
      => Untouched' /\ [dry => UNCHANGED <<written, inForce, initing, attr, view>>]_vars
  BY UntouchedStays
<1> QED
  BY <1>1, <1>2, TypeCorrect, PTL DEF Spec, DryRunTouchesNothing
-------------------------------------------------------------------------------
(* The verdict. *)

\* What has been written is in force before the kernel looks at it, and remains so
\* once provisioning was reported complete, but for what the last probe skipped.
InForceThen ==
    /\ at = "poll" => initing \/ ~arrived
    /\ at \in {"drop", "scan", "wait", "verify"} => ~arrived
    /\ at \in {"wait", "verify"} => view = inForce
    /\ outcome = "complete" =>
        /\ at = "idle" /\ ~arrived
        /\ IsProvisioned([main |-> inForce.main, above |-> inForce.above \ missed,
                          attr |-> attr])
        /\ view = inForce

LEMMA InForceStays ==
    ASSUME ~ReadsPending, InForceThen, [Next]_vars
    PROVE  InForceThen'
<1> USE DEF InForceThen, given, device, kernel, attempt, Goto, End, Move, Finish, Fails
<1>1. CASE Ask
  BY <1>1 DEF Ask
<1>2. CASE Dismiss \/ Confirm
  BY <1>2 DEF Dismiss, Confirm
<1>3. CASE Probe
  <2>1. /\ at = "probe" /\ at' \in {"idle", "guard"} /\ UNCHANGED <<device, view>>
        /\ outcome' \in {outcome, "unneeded", "refused"}
    BY <1>3 DEF Probe
  <2> QED
    BY <2>1
<1>11. CASE ProbeFails \/ Guard
  BY <1>11 DEF ProbeFails, Guard
<1>4. CASE ClearAbove \/ WriteDescriptor \/ WriteAttr \/ SetDeviceInit
  BY <1>4 DEF ClearAbove, WriteDescriptor, WriteAttr, SetDeviceInit
<1>5. CASE Poll
  BY <1>5 DEF Poll
<1>6. CASE DropLus \/ Scan \/ WaitForNode
  BY <1>6 DEF DropLus, Scan, WaitForNode
<1>7. CASE Verify
  <2>1. PICK skipped \in SUBSET Indexes : Probed(skipped)
    BY <1>7 DEF Verify
  <2>2. read' = [main |-> inForce.main, above |-> inForce.above \ missed', attr |-> attr]
    BY <2>1 DEF Probed, Seen, Reported
  <2>3. /\ at = "verify" /\ at' = "idle" /\ UNCHANGED <<device, view>>
        /\ outcome' = "complete" => IsProvisioned(read')
    BY <1>7 DEF Verify
  <2> QED
    BY <2>2, <2>3
<1>8. CASE Initialise
  BY <1>8 DEF Initialise, Reconfigure
<1>9. CASE PowerCycle
  BY <1>9 DEF PowerCycle
<1>10. CASE Killed \/ Use \/ Release \/ UNCHANGED vars
  BY <1>10 DEF Killed, Use, Release, vars
<1> QED
  BY <1>1, <1>2, <1>3, <1>4, <1>5, <1>6, <1>7, <1>8, <1>9, <1>10, <1>11
     DEF Next, Attempt

\* Where a descriptor reads back as the one in force, which apply takes for granted
\* (provision.rs:1321), "complete" is said of nothing but a device that is divided
\* by the scheme, boots, and has its logical units (provision.rs:1339), but for those
\* above 7 in a descriptor that the last probe skipped.
THEOREM CompleteIsTrue ==
    ASSUME ~ReadsPending PROVE Spec => []CompleteMeansProvisioned
<1>1. Init => InForceThen
  BY DEF Init, InForceThen
<1>2. InForceThen /\ [Next]_vars => InForceThen'
  BY InForceStays
<1>3. InForceThen => CompleteMeansProvisioned
  BY DEF InForceThen, CompleteMeansProvisioned
<1> QED
  BY <1>1, <1>2, <1>3, PTL DEF Spec
-------------------------------------------------------------------------------
(* What can make an attempt fail. *)

\* An attempt is reported failed only because a step of it has failed, or because the
\* device, which had no boot LU, took the attribute only in its answer, or because its
\* first probe has skipped a descriptor: otherwise the descriptors that were sent are
\* the scheme, the node is back, and the probe at the end finds nothing else
\* (provision.rs:1203, 1339-1363).
FailsOnlyByFault ==
    at \notin {"idle", "asked"} /\ at' = "idle" /\ outcome' = "failed"
        => faults' = faults + 1 \/ attr = "none" \/ missed # {}

\* The steps after the descriptors, or after a probe that has found them right.
Switching == {"attr", "init", "poll"}
Looking == {"drop", "scan", "wait", "verify"}
Good(layout) == ~NeedsDescriptorWrite(layout)

\* Divided by the scheme, but for what the attempt has not seen.
Nearly(layout) == layout.main \in {"scheme", "close"} /\ layout.above \subseteq missed

\* Writing only clears descriptors of LU 8 and up and makes descriptor 0 the scheme;
\* what is left to clear, and what was not seen, is all that stands between the device
\* and the scheme; and what was sent is in force when the attempt looks at it.
Converging ==
    /\ written.above \subseteq inForce.above
    /\ written.main = inForce.main \/ (arrived /\ written.main = "scheme")
    /\ at = "guard" =>
        /\ written.above \subseteq read.above \cup missed
        /\ Good(read) => Nearly(written) /\ (ReadsPending \/ Nearly(inForce))
    /\ at = "write" => written.above \subseteq todo \cup missed
    /\ at \in Switching \cup Looking =>
        Nearly(written) /\ (ReadsPending \/ arrived \/ Nearly(inForce))
    /\ at = "poll" => initing \/ ~arrived
    /\ at \in Looking => ~arrived
    /\ at \in {"wait", "verify"} => view = inForce

LEMMA ConvergingStays ==
    ASSUME TypeOK, Converging, [Next]_vars
    PROVE  Converging'
<1> USE DEF Converging, Switching, Looking, given, device, kernel, attempt, Goto, End, Move,
            Finish, Fails
<1>r. /\ Reported.main = IF ReadsPending THEN written.main ELSE inForce.main
      /\ Reported.above = IF ReadsPending THEN written.above ELSE inForce.above
  BY DEF Reported
<1>1. CASE Ask
  <2>1. at' \in {"idle", "asked"} /\ UNCHANGED device
    BY <1>1 DEF Ask
  <2> QED
    BY <2>1
<1>14. CASE Dismiss \/ Confirm \/ ProbeFails
  BY <1>14 DEF Dismiss, Confirm, ProbeFails
<1>2. CASE Probe
  <2>1. at' \in {"idle", "guard"} /\ UNCHANGED <<written, inForce, arrived, initing, view>>
    BY <1>2 DEF Probe
  <2>2. read'.main = Reported.main /\ read'.above = Reported.above \ missed'
    BY <1>2, ProbedGives, ReportedType DEF Probe, TypeOK
  <2>3. Good(read') => Nearly(written)' /\ (ReadsPending \/ Nearly(inForce)')
    BY <1>r, <2>1, <2>2 DEF Good, Nearly, NeedsDescriptorWrite
  <2>4. written.above \subseteq read'.above \cup missed'
    BY <1>r, <2>2
  <2> QED
    BY <2>1, <2>3, <2>4
<1>3. CASE Guard
  <2>1. /\ at = "guard" /\ at' \in {"idle", "write", "attr"} /\ UNCHANGED <<device, missed>>
        /\ at' = "write" => todo' = read.above
        /\ at' = "attr" => Good(read)
    BY <1>3 DEF Guard, Good
  <2> QED
    BY <2>1 DEF Nearly
<1>4. CASE ClearAbove
  <2> DEFINE index == CHOOSE i \in todo : \A j \in todo : i <= j
  <2>1. /\ \/ written' = [written EXCEPT !.above = @ \ {index}] /\ todo' = todo \ {index}
           \/ at' = "idle" /\ written' \in {written, [written EXCEPT !.above = @ \ {index}]}
        /\ at = "write" /\ at' \in {"write", "idle"}
        /\ UNCHANGED <<inForce, arrived, initing, view, missed>>
    BY <1>4 DEF ClearAbove
  <2> HIDE DEF index
  <2>2. written'.main = written.main /\ written'.above \subseteq written.above
    BY <2>1 DEF TypeOK, Layouts
  <2>3. at' = "write" => written'.above \subseteq todo' \cup missed'
    BY <2>1 DEF TypeOK, Layouts
  <2> QED
    BY <2>1, <2>2, <2>3
<1>5. CASE WriteDescriptor
  <2>1. /\ at = "write" /\ todo = {} /\ at' \in {"attr", "idle"}
        /\ \/ written' = [written EXCEPT !.main = "scheme"] /\ arrived'
           \/ at' = "idle" /\ UNCHANGED <<written, arrived>>
        /\ UNCHANGED <<inForce, initing, view, missed>>
    BY <1>5 DEF WriteDescriptor
  <2>2. written'.above = written.above
    BY <2>1 DEF TypeOK, Layouts
  <2>3. written' # written \/ at' = "attr" => written'.main = "scheme" /\ arrived'
    BY <2>1 DEF TypeOK, Layouts
  <2>4. at' = "attr" => Nearly(written)'
    BY <2>1, <2>2, <2>3 DEF Nearly
  <2> QED
    BY <2>1, <2>2, <2>3, <2>4
<1>6. CASE WriteAttr
  <2>1. /\ at = "attr" /\ at' \in {"init", "idle"}
        /\ UNCHANGED <<written, inForce, arrived, initing, view, missed>>
    BY <1>6 DEF WriteAttr
  <2> QED
    BY <2>1 DEF Nearly
<1>7. CASE SetDeviceInit
  <2>1. /\ at = "init" /\ at' \in {"poll", "idle"} /\ (at' = "poll" => initing')
        /\ UNCHANGED <<written, inForce, arrived, view, missed>>
    BY <1>7 DEF SetDeviceInit
  <2> QED
    BY <2>1 DEF Nearly
<1>8. CASE Poll
  <2>1. /\ at = "poll" /\ at' \in {"drop", "idle"} /\ (at' = "drop" => ~initing)
        /\ UNCHANGED <<written, inForce, arrived, initing, view, missed>>
    BY <1>8 DEF Poll
  <2> QED
    BY <2>1 DEF Nearly
<1>9. CASE DropLus \/ Scan
  <2>1. /\ at \in {"drop", "scan"} /\ at' \in {"scan", "wait", "idle"}
        /\ at' = "wait" => view' = inForce
        /\ UNCHANGED <<written, inForce, arrived, initing, missed>>
    BY <1>9 DEF DropLus, Scan
  <2> QED
    BY <2>1 DEF Nearly
<1>10. CASE WaitForNode \/ Verify
  <2>1. /\ at \in {"wait", "verify"} /\ at' \in {"idle", "verify"}
        /\ at' = "verify" => missed' = missed
        /\ UNCHANGED <<written, inForce, arrived, initing, view>>
    BY <1>10 DEF WaitForNode, Verify
  <2> QED
    BY <2>1 DEF Nearly
<1>11. CASE Initialise
  <2>1. UNCHANGED <<written, view, at, read, missed, todo>> /\ ~arrived' /\ ~initing'
    BY <1>11 DEF Initialise, Reconfigure
  <2>2. CASE arrived
    <3>1. inForce' = written /\ at \notin Looking
      BY <1>11, <2>2 DEF Initialise, Reconfigure
    <3> QED
      BY <2>1, <2>2, <3>1 DEF Nearly
  <2>3. CASE ~arrived
    <3>1. inForce' = inForce
      BY <1>11, <2>3 DEF Initialise, Reconfigure
    <3> QED
      BY <2>1, <2>3, <3>1 DEF Nearly
  <2> QED
    BY <2>2, <2>3
<1>12. CASE PowerCycle
  <2>1. inForce' = (IF arrived THEN written ELSE inForce) /\ written' \in {written, inForce'}
    BY <1>12 DEF PowerCycle, Reconfigure
  <2>2. at' = "idle"
    BY <1>12 DEF PowerCycle
  <2> QED
    BY <2>1, <2>2
<1>13. CASE Use \/ Release \/ UNCHANGED vars
  <2>1. UNCHANGED <<written, inForce, arrived, initing, view, at, read, missed, todo>>
    BY <1>13 DEF Use, Release, vars
  <2> QED
    BY <2>1 DEF Nearly
<1>15. CASE Killed
  BY <1>15 DEF Killed
<1> QED
  BY <1>1, <1>2, <1>3, <1>4, <1>5, <1>6, <1>7, <1>8, <1>9, <1>10, <1>11, <1>12, <1>13,
   <1>14, <1>15 DEF Next, Attempt

LEMMA FailureIsFault ==
    ASSUME TypeOK, Converging, Next
    PROVE  FailsOnlyByFault
<1> SUFFICES ASSUME at \notin {"idle", "asked"}, at' = "idle", outcome' = "failed",
                    faults' # faults + 1, attr # "none", missed = {}
             PROVE  FALSE
  BY DEF FailsOnlyByFault
<1> USE DEF Goto, End, Move, Finish, Fails, Fault
<1>m. ASSUME NEW l PROVE Nearly(l) => Good(l)
  BY DEF Nearly, Good, NeedsDescriptorWrite
<1>1. CASE Ask \/ Dismiss \/ Confirm
  BY <1>1 DEF Ask, Dismiss, Confirm
<1>2. CASE Initialise \/ Killed \/ PowerCycle \/ Use \/ Release
  BY <1>2 DEF Initialise, Killed, PowerCycle, Use, Release
<1>6. CASE Probe
  BY <1>6 DEF Probe
<1>3. CASE ProbeFails \/ Guard \/ ClearAbove \/ WriteDescriptor \/ WriteAttr
           \/ SetDeviceInit \/ Poll \/ DropLus \/ Scan
  BY <1>3 DEF ProbeFails, Guard, ClearAbove, WriteDescriptor, WriteAttr,
     SetDeviceInit, Poll, DropLus, Scan
<1>4. CASE WaitForNode
  <2>1. at = "wait" /\ ~HasNode
    BY <1>4 DEF WaitForNode
  <2>2. view = inForce /\ inForce.main = written.main /\ Nearly(written)
    BY <2>1 DEF Converging, Looking
  <2> QED
    BY <2>1, <2>2 DEF HasNode, NoLus, Nearly
<1>5. CASE Verify
  <2>1. at = "verify" /\ ~IsProvisioned(read')
    BY <1>5 DEF Verify
  <2>2. read'.main = Reported.main /\ read'.above = Reported.above /\ read'.attr = attr
    BY <1>5, ProbedGives, ReportedType DEF Verify, TypeOK, Reported
  <2>3. Good(written) /\ (ReadsPending \/ Good(inForce))
    BY <1>m, <2>1 DEF Converging, Looking
  <2>4. Good(read')
    BY <2>2, <2>3 DEF Good, NeedsDescriptorWrite, Reported
  <2> QED
    BY <2>1, <2>2, <2>4 DEF IsProvisioned, Good, TypeOK
<1> QED
  BY <1>1, <1>2, <1>3, <1>4, <1>5, <1>6 DEF Next, Attempt

\* Whatever earlier attempts have left behind, half-written descriptors and a device that
\* initialises late included, the next one fails only of itself, and of what its own probe
\* skipped (apply, provision.rs:1240).
THEOREM OnlyFaultsSpoil == Spec => [][FailsOnlyByFault]_vars
<1>1. Init => Converging
  BY DEF Init, Converging, Switching, Looking
<1>2. TypeOK /\ Converging /\ [Next]_vars => Converging' /\ [FailsOnlyByFault]_vars
  BY ConvergingStays, FailureIsFault
<1> QED
  BY <1>1, <1>2, TypeCorrect, PTL DEF Spec

\* The steps of an attempt in their order.
Place(step) ==
    CASE step = "probe" -> 1   [] step = "guard" -> 2
      [] step = "write" -> 3  [] step = "attr" -> 4   [] step = "init" -> 5
      [] step = "poll" -> 6   [] step = "drop" -> 7   [] step = "scan" -> 8
      [] step = "wait" -> 9   [] step = "verify" -> 10 [] OTHER -> 11

\* Each step of an attempt ends it, or is followed by a later one, or leaves fewer
\* descriptors to clear; nobody else moves it, except that the operator answers and that
\* the process may be killed or the power cut.
GoesOn ==
    at \notin {"idle", "asked"} =>
        \/ at' = "idle"
        \/ Place(at) < Place(at')
        \/ at' = at /\ todo' \subseteq todo /\ todo' # todo
        \/ ~Attempt /\ UNCHANGED <<at, todo>>

\* An attempt does not go round in circles, whatever fails: no step is tried again
\* within it (apply, provision.rs:1240-1363).
THEOREM AttemptGoesOn == Spec => [][GoesOn]_vars
<1>1. TypeOK /\ Next => GoesOn
  <2> SUFFICES ASSUME TypeOK, Next, at \notin {"idle", "asked"} PROVE GoesOn
    BY DEF GoesOn
  <2>1. CASE Attempt
    <3>1. CASE ClearAbove
      <4> DEFINE index == CHOOSE i \in todo : \A j \in todo : i <= j
      <4>1. \E i \in todo : \A j \in todo : i <= j
        <5>1. todo # {} /\ todo \subseteq 1..3
          BY <3>1, ProvisionAssumption DEF ClearAbove, TypeOK, Probes
        <5>2. CASE 1 \in todo
          BY <5>1, <5>2
        <5>3. CASE 1 \notin todo /\ 2 \in todo
          <6>1. \A j \in todo : 2 <= j
            BY <5>1, <5>3
          <6> QED
            BY ONLY <5>3, <6>1
        <5>4. CASE 1 \notin todo /\ 2 \notin todo
          <6>1. \A j \in todo : j = 3
            BY <5>1, <5>4
          <6>2. 3 \in todo
            BY <5>1, <6>1
          <6> QED
            BY <6>1, <6>2
        <5> QED
          BY <5>2, <5>3, <5>4
      <4>2. index \in todo
        BY <4>1
      <4>3. at' = "idle" \/ (at' = at /\ todo' = todo \ {index})
        BY <3>1 DEF ClearAbove, Fails, Goto, Move, Finish
      <4> HIDE DEF index
      <4> QED
        BY <4>2, <4>3 DEF GoesOn
    <3>2. CASE Probe \/ ProbeFails \/ Guard \/ WriteDescriptor \/ WriteAttr \/ SetDeviceInit
               \/ Poll \/ DropLus \/ Scan \/ WaitForNode \/ Verify
      <4>1. \/ at' = "idle"
            \/ at = "probe" /\ at' = "guard"
            \/ at = "guard" /\ at' \in {"write", "attr"}
            \/ at = "write" /\ at' = "attr"
            \/ at = "attr" /\ at' = "init"
            \/ at = "init" /\ at' = "poll"
            \/ at = "poll" /\ at' = "drop"
            \/ at = "drop" /\ at' = "scan"
            \/ at = "scan" /\ at' = "wait"
            \/ at = "wait" /\ at' = "verify"
        <5> USE DEF Goto, End, Move, Finish, Fails
        <5>1. CASE Probe
          BY <5>1 DEF Probe
        <5>2. CASE Verify
          BY <5>2 DEF Verify
        <5>3. CASE ProbeFails \/ Guard \/ WriteDescriptor \/ WriteAttr \/ SetDeviceInit
                   \/ Poll \/ DropLus \/ Scan \/ WaitForNode
          BY <5>3 DEF ProbeFails, Guard, WriteDescriptor, WriteAttr, SetDeviceInit, Poll,
             DropLus, Scan, WaitForNode
        <5> QED
          BY <3>2, <5>1, <5>2, <5>3
      <4>2. at' = "idle" \/ Place(at) < Place(at')
        BY <4>1 DEF Place
      <4> QED
        BY <4>2 DEF GoesOn
    <3> QED
      BY <2>1, <3>1, <3>2 DEF Attempt
  <2>2. CASE Ask \/ Dismiss \/ Confirm
    BY <2>2 DEF Ask, Dismiss, Confirm
  <2>3. CASE ~Attempt /\ (Initialise \/ Killed \/ PowerCycle \/ Use \/ Release)
    BY <2>3 DEF Initialise, Killed, PowerCycle, Use, Release, attempt, GoesOn
  <2> QED
    BY <2>1, <2>2, <2>3 DEF Next
<1> QED
  BY <1>1, TypeCorrect, PTL DEF Spec
-------------------------------------------------------------------------------
(* What was chosen. *)

\* The scheme in use was validated, the device takes it, the plan is made of both, and
\* there is a descriptor for every shape.
Chosen ==
    /\ unit \in Devices /\ scheme \in Files \cup {BuiltIn}
    /\ Valid(scheme) /\ Fits(scheme, unit) /\ plan = Plan(scheme, unit)
    /\ \E close \in Close(unit, plan), other \in Other(unit, plan) :
         descriptor = [scheme |-> plan.desc, close |-> close, other |-> other,
                       blank |-> EmptyDescriptor]

\* The member with a number, as Plan finds it.
MemberAt(s, n) == CHOOSE member \in {m \in Members(s) : m.id = n} : TRUE
-------------------------------------------------------------------------------
(* Lemmas about the plan. *)

\* The members of a valid scheme have different numbers.
LEMMA MembersDiffer ==
    ASSUME NEW s, Valid(s), NEW m \in Members(s), NEW k \in Members(s), m.id = k.id
    PROVE  m = k
<1>1. PICK i \in DOMAIN s.lus : m = s.lus[i]
    BY DEF Members
<1>2. PICK j \in DOMAIN s.lus : k = s.lus[j]
    BY DEF Members
<1>3. \A a \in DOMAIN s.lus : \A b \in DOMAIN s.lus \ {a} : s.lus[b].id # s.lus[a].id
    BY DEF Valid
<1> QED
    BY <1>1, <1>2, <1>3

\* What Valid says of a member.
LEMMA MemberValid ==
    ASSUME NEW s, Valid(s), NEW m \in Members(s)
    PROVE  m.id \in Luns /\ m.blk \in 12..31 /\ m.boot \in BootIds
<1>1. PICK i \in DOMAIN s.lus : m = s.lus[i]
    BY DEF Members
<1> QED
    BY <1>1 DEF Valid

LEMMA MemberMem ==
    ASSUME NEW s, Valid(s), NEW m \in Members(s)
    PROVE  m.mem \in MemoryTypes
<1>1. PICK i \in DOMAIN s.lus : m = s.lus[i]
    BY DEF Members
<1> QED
    BY <1>1 DEF Valid

\* The block of every logical unit: empty, or the one planned for a member, but for
\* its buffer.
LEMMA Blocks ==
    ASSUME NEW s, NEW dev, NEW n \in Luns
    PROVE  Plan(s, dev).desc.lu[n] =
              IF {m \in Members(s) : m.id = n} = {} THEN EmptyLu
              ELSE SetLu(dev, EmptyDescriptor, n, PlannedLu(s, dev, MemberAt(s, n))).lu[n]
<1>1. \E d : PlannedHeader(s, dev) = [bootEnable |-> d.bootEnable, misc |-> d.misc,
        wbPreserve |-> d.wbPreserve, wbType |-> d.wbType, wbShared |-> d.wbShared, lu |-> d.lu]
    BY ZenonT(40) DEF PlannedHeader, SetHeader, SetWriteBooster, EmptyDescriptor
<1> QED
    BY <1>1 DEF Plan, MemberAt

\* The block set for a logical unit.
LEMMA SetBlock ==
    ASSUME NEW dev, NEW n \in Luns, NEW lu
    PROVE  SetLu(dev, EmptyDescriptor, n, lu).lu[n]
              = IF dev.wideBlocks THEN lu ELSE [lu EXCEPT !.wb = 0]
    BY DEF SetLu, EmptyDescriptor

\* The block of a member is enabled and has what the scheme says of it; only the
\* buffer is left open.
LEMMA BlockShape ==
    ASSUME NEW s, NEW dev, Valid(s), NEW n \in Luns, NEW m \in Members(s), m.id = n
    PROVE  LET lu == Plan(s, dev).desc.lu[n]
           IN lu = [enable |-> TRUE, boot |-> m.boot, protect |-> FALSE, mem |-> m.mem,
                       units |-> UnitsOf(s, dev, m), reliable |-> m.reliable, blk |-> m.blk,
                       prov |-> m.prov, wb |-> lu.wb]
<1> DEFINE lu == Plan(s, dev).desc.lu[n]
<1>1. MemberAt(s, n) = m
    <2>1. MemberAt(s, n) \in Members(s) /\ MemberAt(s, n).id = n
        BY DEF MemberAt
    <2> QED
        BY <2>1, MembersDiffer
<1>2. lu = IF dev.wideBlocks THEN PlannedLu(s, dev, m) ELSE [PlannedLu(s, dev, m) EXCEPT !.wb = 0]
    BY <1>1, Blocks, SetBlock
<1> QED
    BY <1>2 DEF PlannedLu

\* In particular the boot flag is the member's.
LEMMA BlockBoot ==
    ASSUME NEW s, NEW dev, Valid(s), NEW n \in Luns, NEW m \in Members(s), m.id = n
    PROVE  Plan(s, dev).desc.lu[n].boot = m.boot
<1> DEFINE lu == Plan(s, dev).desc.lu[n]
<1>1. lu = [enable |-> TRUE, boot |-> m.boot, protect |-> FALSE, mem |-> m.mem,
            units |-> UnitsOf(s, dev, m), reliable |-> m.reliable, blk |-> m.blk,
            prov |-> m.prov, wb |-> lu.wb]
    BY BlockShape
<1> HIDE DEF lu
<1>2. lu.boot = m.boot
    BY <1>1
<1> QED
    BY <1>2 DEF lu
-------------------------------------------------------------------------------
(* Lemmas about compare. *)

\* A descriptor differs from itself in nothing, if its blocks are empty or have a
\* size code that 1u32 << code keeps.
LEMMA SameBlock ==
    ASSUME NEW n, NEW s, NEW dev, Valid(s), n \in Luns
    PROVE  LET lu == Plan(s, dev).desc.lu[n] IN LuDiffs(n, lu, lu) = {}
<1> DEFINE lu == Plan(s, dev).desc.lu[n]
<1>1. CASE {m \in Members(s) : m.id = n} = {}
    <2>1. lu = EmptyLu
        BY <1>1, Blocks
    <2> QED
        BY <2>1 DEF LuDiffs, EmptyLu
<1>2. CASE {m \in Members(s) : m.id = n} # {}
    <2>1. PICK m \in Members(s) : m.id = n
        BY <1>2
    <2>2. lu = [enable |-> TRUE, boot |-> m.boot, protect |-> FALSE, mem |-> m.mem,
                units |-> UnitsOf(s, dev, m), reliable |-> m.reliable, blk |-> m.blk,
                prov |-> m.prov, wb |-> lu.wb]
        BY <2>1, BlockShape
    <2>3. m.blk \in 12..31 /\ m.blk % 32 = m.blk
        BY MemberValid
    <2>4. [lu EXCEPT !.blk = @ % 32] = lu
        BY <2>2, <2>3
    <2>5. LuDiffs(n, lu, lu) = Differs(TRUE, n, {"mem", "boot", "units", "blk"}, lu, lu)
                               \cup Differs(FALSE, n, {"protect", "reliable", "prov", "wb"}, lu, lu)
        <3>1. lu.enable = TRUE
            BY <2>2
        <3> HIDE DEF lu
        <3> QED
            BY <3>1, <2>4 DEF LuDiffs
    <2> QED
        BY <2>5 DEF Differs
<1> QED
    BY <1>1, <1>2

\* The boot LU that a valid scheme selects is one that its plan flags.
LEMMA SelectedIsFlagged ==
    ASSUME NEW s, NEW dev, Valid(s), s.active # "none"
    PROVE  s.active \in Bootable(Plan(s, dev))
<1>1. PICK i \in DOMAIN s.lus : s.lus[i].boot = s.active
    BY DEF Valid
<1> DEFINE m == s.lus[i]
<1>2. m \in Members(s)
    BY DEF Members
<1>3. m.id \in Luns
    BY <1>2, MemberValid
<1>4. \A n \in Luns : m.id = n => Plan(s, dev).desc.lu[n].boot = m.boot
    <2> HIDE DEF m
    <2> QED
        BY <1>2, BlockBoot
<1> QED
    BY <1>1, <1>3, <1>4 DEF Bootable

\* bBootLunEn may be any of the flagged ones.
LEMMA FlaggedIsAccepted ==
    ASSUME NEW s, NEW dev, Valid(s),
           LET p == Plan(s, dev)
           IN p.attr # "none" \/ Bootable(p) = {},
           NEW boot \in Bootable(Plan(s, dev)) \cup {Plan(s, dev).attr}
    PROVE  AttrDiffs(Plan(s, dev), boot) = {}
<1> DEFINE p == Plan(s, dev)
<1>1. p.attr = s.active
    BY DEF Plan
<1>2. p.attr # "none" => p.attr \in Bootable(p)
    BY <1>1, SelectedIsFlagged
<1> HIDE DEF p
<1> QED
    BY <1>2 DEF p, AttrDiffs, Acceptable

\* Nothing differs, whichever of the flagged boot LUs is selected.
LEMMA PlanComparesAsItself ==
    ASSUME NEW s, NEW dev, Valid(s),
           LET p == Plan(s, dev)
           IN p.attr # "none" \/ Bootable(p) = {},
           NEW boot \in Bootable(Plan(s, dev)) \cup {Plan(s, dev).attr}
    PROVE  Compare(Plan(s, dev), Plan(s, dev).desc, boot, {}) = {}
<1> DEFINE p == Plan(s, dev)
<1>1. HeaderDiffs(p.desc, p.desc) = {}
    BY DEF HeaderDiffs, Differs
<1>2. AttrDiffs(p, boot) = {}
    BY FlaggedIsAccepted
<1>3. AboveDiffs({}) = {}
    BY DEF AboveDiffs
<1>4. \A n \in Luns : LuDiffs(n, p.desc.lu[n], p.desc.lu[n]) = {}
    BY SameBlock
<1> HIDE DEF p
<1>5. UNION {LuDiffs(n, p.desc.lu[n], p.desc.lu[n]) : n \in Luns} = {}
    BY <1>4
<1> QED
    BY <1>1, <1>2, <1>3, <1>5 DEF p, Compare
-------------------------------------------------------------------------------
(* Lemmas about sizes. *)

\* Division that rounds up.
LEMMA RoundsUp ==
    ASSUME NEW a \in Nat, NEW b \in Nat \ {0}
    PROVE  /\ DivCeil(a, b) \in Nat
           /\ DivCeil(a, b) * b >= a
           /\ (DivCeil(a, b) - 1) * b < a
<1> DEFINE q == (a + b - 1) \div b
           r == (a + b - 1) % b
<1>1. q \in Int /\ r \in 0 .. b - 1 /\ a + b - 1 = b * q + r
    OBVIOUS
<1>2. q >= 0
    <2> SUFFICES ASSUME q < 0 PROVE FALSE
        BY <1>1
    <2> QED
        BY <1>1
<1> HIDE DEF q, r
<1>3. b * q >= a /\ b * q - b < a
    BY <1>1
<1>4. b * q = q * b /\ (q - 1) * b = b * q - b
    BY <1>1
<1> QED
    BY <1>1, <1>2, <1>3, <1>4 DEF q, DivCeil

\* A product of a factor that is not zero grows with the other one.
LEMMA Grows ==
    ASSUME NEW f \in Nat \ {0}, NEW x \in Int, NEW y \in Int, x <= y
    PROVE  x * f <= y * f
<1> DEFINE d == y - x
<1>1. d \in Nat /\ y = x + d
    OBVIOUS
<1> HIDE DEF d
<1>2. d * f >= 0
    BY <1>1
<1>3. (x + d) * f = x * f + d * f
    BY <1>1
<1> QED
    BY <1>1, <1>2, <1>3

\* Division that rounds down, on both sides of a multiple.
LEMMA Divides ==
    ASSUME NEW a \in Int, NEW f \in Nat \ {0}, NEW w \in Int
    PROVE  a >= w * f <=> a \div f >= w
<1> DEFINE q == a \div f
           r == a % f
<1>1. q \in Int /\ r \in 0 .. f - 1 /\ a = q * f + r
    OBVIOUS
<1> HIDE DEF q, r
<1>2. ASSUME q >= w PROVE a >= w * f
    BY <1>1, <1>2, Grows
<1>3. ASSUME q < w PROVE a < w * f
    <2>1. (q + 1) * f <= w * f
        BY <1>1, <1>3, Grows
    <2>2. (q + 1) * f = q * f + f
        BY <1>1
    <2>3. w * f \in Int /\ q * f \in Int
        BY <1>1
    <2> QED
        BY <1>1, <2>1, <2>2, <2>3
<1>4. a >= w * f <=> q >= w
    BY <1>1, <1>2, <1>3
<1> QED
    BY <1>4 DEF q

\* What the device makes of a number of units, in the terms of plan.
LEMMA UsableAgainst ==
    ASSUME NEW dev, Parsed(dev), dev.factor \in [MemoryTypes \ {"normal"} -> Nat],
           NEW mem \in MemoryTypes, WholeFactor(dev, mem), CapAdjFac(dev, mem) # 0,
           NEW u \in Int, NEW w \in Nat
    PROVE  /\ UsableSectors(dev, mem, u) \in Int
           /\ UsableSectors(dev, mem, u) >= w
                <=> u * AllocUnitSectors(dev) >= w * CapAdjFac(dev, mem)
<1> DEFINE sec == AllocUnitSectors(dev)
<1>1. sec \in Nat \ {0} /\ u * sec \in Int
    BY DEF Parsed, AllocUnitSectors
<1>2. CASE mem = "normal"
    BY <1>1, <1>2 DEF UsableSectors, CapAdjFac
<1>3. CASE mem # "normal"
    <2> DEFINE published == dev.factor[mem]
               fac == CapAdjFac(dev, mem)
    <2>1. published \in Nat /\ published % 256 = 0 /\ fac = published \div 256
        BY <1>3 DEF WholeFactor, CapAdjFac
    <2>2. fac \in Nat \ {0} /\ published = 256 * fac /\ published \in Nat \ {0}
        BY <2>1
    <2>3. UsableSectors(dev, mem, u) = (u * sec * 256) \div published
        BY <1>3 DEF UsableSectors
    <2> HIDE DEF published, fac, sec
    <2> DEFINE a == u * sec * 256
    <2>4. a \in Int
        BY <1>1
    <2>5. a >= w * published <=> u * sec >= w * fac
        <3>1. w * published = 256 * (w * fac) /\ w * fac \in Int
            BY <2>2
        <3> QED
            BY <1>1, <3>1
    <2> HIDE DEF a
    <2>6. a >= w * published <=> a \div published >= w
        BY <2>2, <2>4, Divides
    <2>7. a \div published \in Int
        BY <2>2, <2>4
    <2> QED
        BY <2>3, <2>5, <2>6, <2>7 DEF a, fac, sec
<1> QED
    BY <1>2, <1>3

\* The units planned for a member with a size are the fewest that hold it.
LEMMA MemberHoldsJust ==
    ASSUME NEW s, NEW dev, Valid(s), Fits(s, dev), Parsed(dev),
           dev.factor \in [MemoryTypes \ {"normal"} -> Nat],
           NEW m \in Members(s), m.sized, m.mib \in Nat, WholeFactor(dev, m.mem)
    PROVE  HoldsJust(dev, Plan(s, dev).desc.lu[m.id], m.mib * (Mib \div 512))
<1> DEFINE lu == Plan(s, dev).desc.lu[m.id]
           u == UnitsOf(s, dev, m)
           sec == AllocUnitSectors(dev)
           fac == CapAdjFac(dev, m.mem)
           w == m.mib * (Mib \div 512)
<1>1. m.id \in Luns /\ m.mem \in MemoryTypes
    BY MemberValid, MemberMem
<1>2. lu.mem = m.mem /\ lu.units = u
    <2>1. lu = [enable |-> TRUE, boot |-> m.boot, protect |-> FALSE, mem |-> m.mem,
                units |-> u, reliable |-> m.reliable, blk |-> m.blk,
                prov |-> m.prov, wb |-> lu.wb]
        BY <1>1, BlockShape
    <2> HIDE DEF lu, u
    <2> QED
        BY <2>1
<1>3. sec \in Nat \ {0} /\ fac \in Nat \ {0}
    <2>1. fac # 0
        BY DEF Fits
    <2>2. m.mem # "normal" => dev.factor[m.mem] \in Nat
        BY <1>1
    <2> QED
        BY <2>1, <2>2 DEF Parsed, AllocUnitSectors, CapAdjFac
<1>4. w \in Nat /\ DivCeil(m.mib * Mib, 512) = w
    BY DEF Mib, DivCeil
<1>5. u = DivCeil(w * fac, sec)
    BY <1>4 DEF UnitsOf, FixedUnits, AllocUnitsFor
<1>6. w * fac \in Nat
    <2> HIDE DEF w, fac
    <2> QED
        BY <1>3, <1>4
<1>7. u \in Nat /\ u * sec >= w * fac /\ (u - 1) * sec < w * fac
    <2> HIDE DEF sec, fac, w, u
    <2> QED
        BY <1>3, <1>5, <1>6, RoundsUp
<1>8. \A x \in Int : /\ UsableSectors(dev, m.mem, x) \in Int
                     /\ UsableSectors(dev, m.mem, x) >= w <=> x * sec >= w * fac
    <2>1. CapAdjFac(dev, m.mem) # 0
        BY DEF Fits
    <2> HIDE DEF w
    <2> QED
        BY <1>1, <1>4, <2>1, UsableAgainst, Zenon
<1>9. UsableSectors(dev, m.mem, u) >= w /\ UsableSectors(dev, m.mem, u - 1) < w
    <2> HIDE DEF w, u, sec, fac
    <2>1. u \in Int /\ u - 1 \in Int
        BY <1>7
    <2>2. (u - 1) * sec \in Int
        BY <1>3, <2>1
    <2>3. ~((u - 1) * sec >= w * fac)
        BY <1>6, <1>7, <2>2
    <2>4. ~(UsableSectors(dev, m.mem, u - 1) >= w) /\ UsableSectors(dev, m.mem, u - 1) \in Int
        BY <1>8, <2>1, <2>3
    <2> QED
        BY <1>4, <1>7, <1>8, <2>1, <2>4
<1> QED
    <2> HIDE DEF lu, u
    <2>1. HoldsJust(dev, lu, w)
        BY <1>2, <1>9 DEF HoldsJust
    <2> QED
        BY <2>1 DEF lu
-------------------------------------------------------------------------------
(* What a plan adds up to. *)

\* A scheme that validate lets through, and a geometry, with the numbers of one.
Sound(s, dev) ==
    /\ Valid(s) /\ Parsed(dev) /\ dev.factor \in [MemoryTypes \ {"normal"} -> Nat]
    /\ dev.ceiling \in [MemoryTypes \ {"normal"} -> Nat]
    /\ dev.wbMax \in Nat /\ dev.wbFactor \in Nat
    /\ \A m \in Members(s) : m.sized => m.mib \in Nat
    /\ s.wbSize \in {"max", "mib", "other"} /\ (s.wbSize = "mib" => s.wbMib \in Nat)

\* The sums are over finite sets.
LEMMA MembersFinite ==
    ASSUME NEW s, Valid(s)
    PROVE  IsFiniteSet(Members(s)) /\ IsFiniteSet(DOMAIN s.lus) /\ IsFiniteSet(Luns)
<1>1. IsFiniteSet(Luns)
    <2>1. Luns = 0 .. 7 /\ 0 \in Int /\ 7 \in Int
        BY DEF Luns, LusPerConfigDesc
    <2>2. IsFiniteSet(0 .. 7)
        BY <2>1, FS_Interval, Zenon
    <2> QED
        BY <2>1, <2>2
<1>2. IsFiniteSet(Members(s))
    <2> DEFINE f == [m \in Members(s) |-> m.id]
    <2>1. f \in Injection(Members(s), Luns)
        BY MembersDiffer, MemberValid DEF Injection, IsInjective
    <2> QED
        BY <1>1, <2>1, FS_Injection
<1>3. IsFiniteSet(DOMAIN s.lus)
    <2> DEFINE f == [i \in DOMAIN s.lus |-> s.lus[i].id]
    <2>1. f \in Injection(DOMAIN s.lus, Luns)
        <3>1. \A i \in DOMAIN s.lus : s.lus[i].id \in Luns
            BY DEF Valid
        <3>2. \A i, j \in DOMAIN s.lus : s.lus[i].id = s.lus[j].id => i = j
            BY DEF Valid
        <3> QED
            BY <3>1, <3>2 DEF Injection, IsInjective
    <2> QED
        BY <1>1, <2>1, FS_Injection
<1> QED
    BY <1>1, <1>2, <1>3

\* One logical unit, and only one, has no size.
LEMMA OneRest ==
    ASSUME NEW s, Valid(s)
    PROVE  \E r \in Members(s) : ~r.sized /\ \A m \in Members(s) : ~m.sized => m = r
<1> DEFINE R == {i \in DOMAIN s.lus : ~s.lus[i].sized}
<1>1. IsFiniteSet(R)
    BY MembersFinite, FS_Subset
<1>2. Cardinality(R) = 1
    BY DEF Valid
<1>3. PICK i : R = {i}
    BY <1>1, <1>2, FS_Singleton
<1>4. i \in DOMAIN s.lus /\ ~s.lus[i].sized
    BY <1>3
<1>5. \A j \in DOMAIN s.lus : ~s.lus[j].sized => j = i
    BY <1>3
<1> QED
    BY <1>4, <1>5 DEF Members

\* The smaller and the larger of two numbers.
LEMMA MinOfTwo ==
    ASSUME NEW a \in Int, NEW b \in Int
    PROVE  Min({a, b}) \in {a, b} /\ Min({a, b}) <= a /\ Min({a, b}) <= b
<1>1. \E x \in {a, b} : \A y \in {a, b} : x <= y
    OBVIOUS
<1>2. Min({a, b}) \in {a, b} /\ \A y \in {a, b} : Min({a, b}) <= y
    BY <1>1 DEF Min
<1> QED
    BY <1>2

LEMMA MaxOfTwo ==
    ASSUME NEW a \in Int, NEW b \in Int
    PROVE  Max({a, b}) \in {a, b} /\ Max({a, b}) >= a /\ Max({a, b}) >= b
<1>1. \E x \in {a, b} : \A y \in {a, b} : x >= y
    OBVIOUS
<1>2. Max({a, b}) \in {a, b} /\ \A y \in {a, b} : Max({a, b}) >= y
    BY <1>1 DEF Max
<1> QED
    BY <1>2

\* Units and factors are numbers, and no unit is of size zero.
LEMMA GeometryTypes ==
    ASSUME NEW dev, Parsed(dev), dev.factor \in [MemoryTypes \ {"normal"} -> Nat],
           NEW mem \in MemoryTypes
    PROVE  /\ AllocUnitSectors(dev) \in Nat \ {0} /\ AllocUnitBytes(dev) \in Nat \ {0}
           /\ TotalAllocUnits(dev) \in Nat /\ CapAdjFac(dev, mem) \in Nat
<1>1. AllocUnitSectors(dev) \in Nat \ {0}
    BY DEF Parsed, AllocUnitSectors
<1>2. AllocUnitBytes(dev) \in Nat \ {0}
    BY <1>1 DEF AllocUnitBytes
<1>3. TotalAllocUnits(dev) \in Nat
    BY <1>1 DEF TotalAllocUnits, Parsed
<1>4. CapAdjFac(dev, mem) \in Nat
    <2>1. mem # "normal" => dev.factor[mem] \in Nat
        OBVIOUS
    <2> QED
        BY <2>1 DEF CapAdjFac
<1> QED
    BY <1>1, <1>2, <1>3, <1>4

\* The buffer: how large, and what it costs.
LEMMA BufferTypes ==
    ASSUME NEW s, NEW dev, Sound(s, dev), s.wbSize = "other" => ~dev.wb \/ dev.wbMax = 0
    PROVE  LET b == PlanWriteBooster(s, dev)
           IN  /\ b.units \in Nat /\ b.units <= dev.wbMax /\ b.cost \in Nat
               /\ b.units # 0 => dev.wb
               /\ b.place \in {"none", "shared", "lu"}
               /\ b.place = "none" => b.units = 0
               /\ b.place = "shared" => SupportsShared(dev)
               /\ b.place = "lu" => dev.wbBuffers # 1 /\ dev.wideBlocks
               /\ b.preserve \in BOOLEAN
               /\ ~b.preserve => b.cost >= b.units * dev.wbFactor
<1> DEFINE b == PlanWriteBooster(s, dev)
           units == RequestedUnits(s, dev)
           place == BufferPlace(s, dev)
           fac == Max({1, dev.wbFactor})
<1>1. CASE ~UsesWriteBooster(s, dev) \/ place = "none"
    <2>1. b = NoBuffer
        BY <1>1 DEF PlanWriteBooster
    <2> HIDE DEF b
    <2>2. b = [place |-> "none", units |-> 0, preserve |-> FALSE, cost |-> 0]
        BY <2>1 DEF NoBuffer
    <2>3. dev.wbMax \in Nat /\ dev.wbFactor \in Nat
        BY DEF Sound
    <2>4. b.units = 0 /\ b.cost = 0 /\ b.place = "none" /\ b.preserve = FALSE
        BY <2>2
    <2>5. b.units * dev.wbFactor = 0
        BY <2>3, <2>4
    <2>6. /\ b.units \in Nat /\ b.units <= dev.wbMax /\ b.cost \in Nat
          /\ b.place \in {"none", "shared", "lu"} /\ b.place # "shared" /\ b.place # "lu"
        BY <2>3, <2>4
    <2>7. b.cost >= b.units * dev.wbFactor
        BY <2>4, <2>5
    <2> QED
        BY <2>4, <2>6, <2>7 DEF b
<1>2. CASE UsesWriteBooster(s, dev) /\ place # "none"
    <2>1. b = [place |-> place, units |-> units, preserve |-> PreservesUserSpace(dev),
               cost |-> IF PreservesUserSpace(dev) THEN 0 ELSE units * fac]
        BY <1>2 DEF PlanWriteBooster
    <2>2. dev.wbMax \in Nat /\ dev.wbFactor \in Nat /\ dev.wb
        BY <1>2 DEF Sound, UsesWriteBooster
    <2>3. s.wbSize = "max" \/ (s.wbSize = "mib" /\ s.wbMib \in Nat)
        BY <1>2 DEF Sound, UsesWriteBooster
    <2>4. units \in Nat /\ units <= dev.wbMax
        <3>1. CASE s.wbSize = "max"
            BY <2>2, <3>1 DEF RequestedUnits
        <3>2. CASE s.wbSize = "mib" /\ s.wbMib \in Nat
            <4> DEFINE want == DivCeil(s.wbMib * Mib, AllocUnitBytes(dev))
            <4>1. AllocUnitBytes(dev) \in Nat \ {0}
                BY GeometryTypes DEF Sound, MemoryTypes
            <4>2. s.wbMib * Mib \in Nat
                BY <3>2 DEF Mib
            <4>3. want \in Nat
                BY <4>1, <4>2, RoundsUp
            <4>4. units = Min({want, dev.wbMax})
                BY <3>2 DEF RequestedUnits
            <4> HIDE DEF want, units
            <4>5. /\ Min({want, dev.wbMax}) \in {want, dev.wbMax}
                  /\ Min({want, dev.wbMax}) <= dev.wbMax
                <5> DEFINE most == dev.wbMax
                <5>1. want \in Int /\ most \in Int
                    BY <2>2, <4>3
                <5> HIDE DEF most
                <5>2. Min({want, most}) \in {want, most} /\ Min({want, most}) <= most
                    BY <5>1, MinOfTwo
                <5> QED
                    BY <5>2 DEF most
            <4> QED
                BY <2>2, <4>3, <4>4, <4>5
        <3> QED
            BY <2>3, <3>1, <3>2
    <2>5. fac \in Nat /\ fac >= dev.wbFactor
        <3> DEFINE f == dev.wbFactor
        <3>1. 1 \in Int /\ f \in Nat
            BY <2>2
        <3> HIDE DEF f
        <3>2. Max({1, f}) \in {1, f} /\ Max({1, f}) >= f
            BY <3>1, MaxOfTwo
        <3>3. Max({1, f}) \in Nat
            BY <3>1, <3>2
        <3> QED
            BY <3>2, <3>3 DEF f
    <2>6. units * fac \in Nat /\ units * dev.wbFactor <= units * fac
        <3> HIDE DEF units, fac
        <3>1. units * fac \in Nat
            BY <2>4, <2>5
        <3>2. CASE units = 0
            BY <2>2, <2>5, <3>2
        <3>3. CASE units # 0
            <4>1. dev.wbFactor * units <= fac * units
                BY <2>2, <2>4, <2>5, <3>3, Grows
            <4>2. dev.wbFactor * units = units * dev.wbFactor /\ fac * units = units * fac
                BY <2>2, <2>4, <2>5
            <4> QED
                BY <3>1, <4>1, <4>2
        <3> QED
            BY <3>1, <3>2, <3>3
    <2>7. /\ place \in {"shared", "lu"}
          /\ place = "shared" => SupportsShared(dev)
          /\ place = "lu" => dev.wbBuffers # 1 /\ dev.wideBlocks
        BY <1>2 DEF BufferPlace
    <2>8. PreservesUserSpace(dev) \in BOOLEAN
        BY DEF PreservesUserSpace
    <2> DEFINE keeps == PreservesUserSpace(dev)
    <2> HIDE DEF b, units, place, fac, keeps
    <2>9. /\ b.place = place /\ b.units = units /\ b.preserve = keeps
          /\ b.cost = IF keeps THEN 0 ELSE units * fac
        BY <2>1 DEF keeps
    <2>10. b.cost \in Nat /\ (~keeps => b.cost >= units * dev.wbFactor)
        BY <2>6, <2>9
    <2>11. /\ b.units \in Nat /\ b.units <= dev.wbMax
           /\ b.units # 0 => dev.wb
        BY <2>2, <2>4, <2>9
    <2>12. /\ b.place \in {"none", "shared", "lu"}
           /\ b.place = "none" => b.units = 0
           /\ b.place = "shared" => SupportsShared(dev)
           /\ b.place = "lu" => dev.wbBuffers # 1 /\ dev.wideBlocks
        BY <2>7, <2>9
    <2>13. b.preserve \in BOOLEAN /\ (~b.preserve => b.cost >= b.units * dev.wbFactor)
        BY <2>8, <2>9, <2>10 DEF keeps
    <2> QED
        BY <2>10, <2>11, <2>12, <2>13 DEF b
<1> QED
    BY <1>1, <1>2

\* What the header says of the buffer.
LEMMA HeaderOfPlan ==
    ASSUME NEW s, NEW dev
    PROVE  LET b == PlanWriteBooster(s, dev)
               d == Plan(s, dev).desc
           IN  /\ d.wbShared = IF b.place = "shared" THEN b.units ELSE 0
               /\ d.wbPreserve = IF b.place = "none" THEN FALSE ELSE b.preserve
<1> DEFINE b == PlanWriteBooster(s, dev)
           h == PlannedHeader(s, dev)
<1>1. h.wbShared = IF b.place = "shared" THEN b.units ELSE 0
    BY DEF PlannedHeader, SetHeader, SetWriteBooster, EmptyDescriptor
<1>2. h.wbPreserve = IF b.place = "none" THEN FALSE ELSE b.preserve
    BY DEF PlannedHeader, SetHeader, SetWriteBooster, EmptyDescriptor
<1>3. Plan(s, dev).desc.wbShared = h.wbShared /\ Plan(s, dev).desc.wbPreserve = h.wbPreserve
    <2>1. \E d : h = [bootEnable |-> d.bootEnable, misc |-> d.misc,
            wbPreserve |-> d.wbPreserve, wbType |-> d.wbType, wbShared |-> d.wbShared, lu |-> d.lu]
        BY ZenonT(40) DEF PlannedHeader, SetHeader, SetWriteBooster, EmptyDescriptor
    <2> HIDE DEF h
    <2>2. \A l : /\ [h EXCEPT !.lu = l].wbShared = h.wbShared
                 /\ [h EXCEPT !.lu = l].wbPreserve = h.wbPreserve
        BY <2>1
    <2> QED
        BY <2>2 DEF Plan, h
<1> QED
    BY <1>1, <1>2, <1>3

\* What the logical units with a size take.
LEMMA FixedTypes ==
    ASSUME NEW s, NEW dev, Sound(s, dev), NEW m \in Members(s)
    PROVE  FixedUnits(dev, m) \in Nat
<1> DEFINE fac == CapAdjFac(dev, m.mem)
           sec == AllocUnitSectors(dev)
           sectors == DivCeil(m.mib * Mib, 512)
<1>1. fac \in Nat /\ sec \in Nat \ {0}
    BY MemberMem, GeometryTypes DEF Sound
<1>2. CASE m.sized
    <2>1. m.mib * Mib \in Nat /\ 512 \in Nat \ {0}
        BY <1>2 DEF Sound, Mib
    <2>2. sectors \in Nat
        BY <2>1, RoundsUp
    <2>3. FixedUnits(dev, m) = DivCeil(sectors * fac, sec)
        BY <1>2 DEF FixedUnits, AllocUnitsFor
    <2> HIDE DEF fac, sec, sectors
    <2>4. sectors * fac \in Nat
        BY <1>1, <2>2
    <2> QED
        BY <1>1, <2>3, <2>4, RoundsUp
<1>3. CASE ~m.sized
    BY <1>3 DEF FixedUnits
<1> QED
    BY <1>2, <1>3

\* Every logical unit, and the buffer, get a number of allocation units, and all of
\* them together are the device's.
LEMMA AllIsGiven ==
    ASSUME NEW s, NEW dev, Sound(s, dev), Fits(s, dev)
    PROVE  /\ \A m \in Members(s) : UnitsOf(s, dev, m) \in Nat
           /\ SumFunctionOnSet([m \in Members(s) |-> UnitsOf(s, dev, m)], Members(s))
                = TotalAllocUnits(dev) - PlanWriteBooster(s, dev).cost
<1> DEFINE M == Members(s)
           F == [m \in M |-> FixedUnits(dev, m)]
           U == [m \in M |-> UnitsOf(s, dev, m)]
           cost == PlanWriteBooster(s, dev).cost
           total == TotalAllocUnits(dev)
           taken == Used(s, dev)
<1>1. IsFiniteSet(M)
    BY MembersFinite DEF Sound
<1>2. PICK r \in M : ~r.sized /\ \A m \in M : ~m.sized => m = r
    BY OneRest DEF Sound
<1>3. \A m \in M : F[m] \in Nat
    BY FixedTypes
<1>4. cost \in Nat /\ total \in Nat
    <2>1. s.wbSize = "other" => ~dev.wb \/ dev.wbMax = 0
        BY DEF Fits
    <2> QED
        BY <2>1, BufferTypes, GeometryTypes DEF Sound, MemoryTypes
<1>5. taken = cost + SumFunctionOnSet(F, M)
    BY DEF Used, SumFunction
<1>6. SumFunctionOnSet(F, M) \in Nat
    <2> HIDE DEF F, M
    <2> QED
        BY <1>1, <1>3, SumNat
<1>7. taken < total
    BY DEF Fits
<1>8. taken \in Nat
    <2> HIDE DEF taken, cost
    <2> QED
        BY <1>4, <1>5, <1>6
<1>9. \A m \in M : U[m] = IF m.sized THEN F[m] ELSE total - taken
    BY DEF UnitsOf
<1>10. \A m \in M : U[m] \in Nat
    <2> HIDE DEF U, F, M, taken, total
    <2> QED
        BY <1>3, <1>4, <1>7, <1>8, <1>9
<1>11. F[r] = 0
    BY <1>2 DEF FixedUnits
<1>12. U[r] = total - taken
    BY <1>2, <1>9
<1> DEFINE R == M \ {r}
<1>13. \A m \in R : U[m] \in Int /\ U[m] = F[m]
    BY <1>2, <1>9, <1>10
<1>14. \A m \in M : U[m] \in Nat
    BY <1>10
<1> HIDE DEF U, F, M, taken, total, cost
<1>15. SumFunctionOnSet(U, R) = SumFunctionOnSet(F, R)
    <2>1. IsFiniteSet(R)
        BY <1>1, FS_RemoveElement
    <2> QED
        BY <1>13, <2>1, SumSame
<1>16. SumFunctionOnSet(F, M) = 0 + SumFunctionOnSet(F, R)
    BY <1>1, <1>2, <1>3, <1>11, SumRemove
<1>17. SumFunctionOnSet(U, M) = total - taken + SumFunctionOnSet(U, R)
    BY <1>1, <1>2, <1>12, <1>14, SumRemove
<1>18. SumFunctionOnSet(F, R) \in Int
    <2>1. IsFiniteSet(R)
        BY <1>1, FS_RemoveElement
    <2> QED
        BY <1>3, <2>1, SumInt
<1>19. SumFunctionOnSet(U, M) = total - cost
    BY <1>4, <1>5, <1>8, <1>15, <1>16, <1>17, <1>18
<1> QED
    BY <1>14, <1>19 DEF U, M, total, cost

\* The allocation units of the logical units of some memory types, in a descriptor ...
LusOf(desc, mems) == {n \in Luns : desc.lu[n].enable /\ desc.lu[n].mem \in mems}
UnitsAt(desc, mems) == SumFunction([n \in LusOf(desc, mems) |-> desc.lu[n].units])

\* ... and of the scheme's members of those types.
MembersOf(s, mems) == {m \in Members(s) : m.mem \in mems}
UnitsFor(s, dev, mems) ==
    SumFunctionOnSet([m \in MembersOf(s, mems) |-> UnitsOf(s, dev, m)], MembersOf(s, mems))

\* The logical units of some memory types have what was planned for their members.
LEMMA UnitsOnDevice ==
    ASSUME NEW s, NEW dev, Sound(s, dev), Fits(s, dev), NEW mems
    PROVE  UnitsAt(Plan(s, dev).desc, mems) = UnitsFor(s, dev, mems)
<1> DEFINE desc == Plan(s, dev).desc
           lus == {n \in Luns : desc.lu[n].enable /\ desc.lu[n].mem \in mems}
           S == {m \in Members(s) : m.mem \in mems}
           b == [m \in S |-> m.id]
           f == [m \in S |-> UnitsOf(s, dev, m)]
           g == [n \in lus |-> desc.lu[n].units]
<1>1. ASSUME NEW m \in Members(s)
      PROVE  /\ m.id \in Luns /\ desc.lu[m.id].enable = TRUE /\ desc.lu[m.id].mem = m.mem
             /\ desc.lu[m.id].units = UnitsOf(s, dev, m)
    <2> DEFINE lu == desc.lu[m.id]
    <2>1. m.id \in Luns
        BY MemberValid DEF Sound
    <2>2. lu = [enable |-> TRUE, boot |-> m.boot, protect |-> FALSE, mem |-> m.mem,
                units |-> UnitsOf(s, dev, m), reliable |-> m.reliable, blk |-> m.blk,
                prov |-> m.prov, wb |-> lu.wb]
        BY <2>1, BlockShape DEF Sound
    <2> HIDE DEF lu
    <2>3. lu.enable = TRUE /\ lu.mem = m.mem /\ lu.units = UnitsOf(s, dev, m)
        BY <2>2
    <2> QED
        BY <2>1, <2>3 DEF lu
<1>2. ASSUME NEW n \in Luns, desc.lu[n].enable PROVE \E m \in Members(s) : m.id = n
    <2> SUFFICES ASSUME {m \in Members(s) : m.id = n} = {} PROVE FALSE
        OBVIOUS
    <2>1. desc.lu[n] = EmptyLu
        BY Blocks
    <2>2. EmptyLu.enable = FALSE
        BY DEF EmptyLu
    <2> HIDE DEF desc
    <2> QED
        BY <1>2, <2>1, <2>2
<1> HIDE DEF desc
<1>3. {b[m] : m \in S} = lus
    BY <1>1, <1>2
<1>4. \A x \in S : \A y \in S : b[x] = b[y] => x = y
    BY MembersDiffer DEF Sound
<1>5. ASSUME NEW x \in S PROVE f[x] \in Int /\ g[b[x]] = f[x]
    <2>1. b[x] = x.id /\ x.id \in lus /\ f[x] = UnitsOf(s, dev, x)
        BY <1>1
    <2>2. g[x.id] = desc.lu[x.id].units
        BY <2>1
    <2>3. UnitsOf(s, dev, x) \in Nat
        BY AllIsGiven
    <2>4. desc.lu[x.id].units = UnitsOf(s, dev, x)
        BY <1>1
    <2> HIDE DEF f, g, b, lus
    <2> QED
        BY <2>1, <2>2, <2>3, <2>4
<1>6. IsFiniteSet(S)
    BY MembersFinite, FS_Subset DEF Sound
<1>7. DOMAIN g = lus
    OBVIOUS
<1> HIDE DEF b, f, g, lus, S
<1>8. SumFunctionOnSet(g, {b[m] : m \in S}) = SumFunctionOnSet(f, S)
    BY <1>4, <1>5, <1>6, SumRenamed
<1>9. SumFunction(g) = SumFunctionOnSet(f, S)
    BY <1>3, <1>7, <1>8 DEF SumFunction
<1> QED
    BY <1>9 DEF f, g, lus, S, desc, UnitsAt, UnitsFor, LusOf, MembersOf

\* Where a dedicated buffer sits: on no logical unit, or on one that may have it, of
\* the size planned.
LEMMA BufferSits ==
    ASSUME NEW s, NEW dev, Sound(s, dev), Fits(s, dev)
    PROVE  LET desc == Plan(s, dev).desc
               own == {n \in Luns : desc.lu[n].wb # 0}
               b == PlanWriteBooster(s, dev)
           IN  \/ own = {}
               \/ /\ b.place = "lu"
                  /\ \E n \in Luns : /\ own = {n} /\ desc.lu[n].wb = b.units
                                     /\ desc.lu[n].mem = "normal" /\ desc.lu[n].boot = "none"
<1> DEFINE desc == Plan(s, dev).desc
           own == {n \in Luns : desc.lu[n].wb # 0}
           b == PlanWriteBooster(s, dev)
<1>1. PICK r \in Members(s) : ~r.sized /\ \A m \in Members(s) : ~m.sized => m = r
    BY OneRest DEF Sound
<1>2. ASSUME NEW n \in own
      PROVE  /\ n = r.id /\ b.place = "lu" /\ desc.lu[n].wb = b.units
             /\ desc.lu[n].mem = "normal" /\ desc.lu[n].boot = "none"
    <2> DEFINE lu == desc.lu[n]
    <2>1. CASE {m \in Members(s) : m.id = n} = {}
        <3>1. lu = EmptyLu
            BY <2>1, Blocks
        <3>2. EmptyLu.wb = 0
            BY DEF EmptyLu
        <3> HIDE DEF lu
        <3>3. lu.wb # 0
            BY DEF lu
        <3> QED
            BY <3>1, <3>2, <3>3
    <2>2. CASE {m \in Members(s) : m.id = n} # {}
        <3>1. PICK m \in Members(s) : m.id = n
            BY <2>2
        <3>2. MemberAt(s, n) = m
            <4>1. MemberAt(s, n) \in Members(s) /\ MemberAt(s, n).id = n
                BY <3>1 DEF MemberAt
            <4> QED
                BY <3>1, <4>1, MembersDiffer DEF Sound
        <3> DEFINE p == PlannedLu(s, dev, m)
        <3>3. lu = IF dev.wideBlocks THEN p ELSE [p EXCEPT !.wb = 0]
            BY <2>2, <3>2, Blocks, SetBlock
        <3>4. p.wb = BufferUnits(s, dev, m) /\ p.mem = m.mem /\ p.boot = m.boot
            BY DEF PlannedLu
        <3>5. [p EXCEPT !.wb = 0].wb = 0
            BY DEF PlannedLu
        <3>6. lu.wb # 0
            OBVIOUS
        <3> HIDE DEF lu, p, b
        <3>7. lu = p
            BY <3>3, <3>5, <3>6
        <3>8. BufferUnits(s, dev, m) # 0
            BY <3>4, <3>6, <3>7
        <3>9. /\ b.place = "lu" /\ ~m.sized /\ m.mem = "normal" /\ m.boot = "none"
              /\ BufferUnits(s, dev, m) = b.units
            BY <3>8 DEF BufferUnits, b
        <3>10. m = r
            BY <1>1, <3>9
        <3>11. lu.wb = b.units /\ lu.mem = "normal" /\ lu.boot = "none" /\ n = r.id
            BY <3>1, <3>4, <3>7, <3>9, <3>10
        <3> QED
            BY <3>9, <3>11 DEF lu
    <2> QED
        BY <2>1, <2>2
<1> HIDE DEF desc, b
<1>3. CASE own # {}
    <2>1. PICK n \in own : TRUE
        BY <1>3
    <2>2. own = {n} /\ n \in Luns
        BY <1>2, <2>1
    <2> QED
        BY <1>2, <2>1, <2>2 DEF desc, b
<1> QED
    BY <1>3 DEF desc, b

\* The whole buffer, shared or dedicated, is no larger than planned; there is none
\* without a place for it.
LEMMA BufferSum ==
    ASSUME NEW s, NEW dev, Sound(s, dev), Fits(s, dev)
    PROVE  LET desc == Plan(s, dev).desc
               own == {n \in Luns : desc.lu[n].wb # 0}
               buffer == desc.wbShared + SumFunction([n \in own |-> desc.lu[n].wb])
               b == PlanWriteBooster(s, dev)
           IN  buffer \in Nat /\ buffer <= b.units
<1> DEFINE desc == Plan(s, dev).desc
           own == {n \in Luns : desc.lu[n].wb # 0}
           b == PlanWriteBooster(s, dev)
           f == [n \in own |-> desc.lu[n].wb]
<1>1. desc.wbShared = IF b.place = "shared" THEN b.units ELSE 0
    BY HeaderOfPlan
<1>2. b.units \in Nat
    <2>1. s.wbSize = "other" => ~dev.wb \/ dev.wbMax = 0
        BY DEF Fits
    <2> QED
        BY <2>1, BufferTypes
<1>3. SumFunction(f) = SumFunctionOnSet(f, own)
    BY DEF SumFunction
<1>4. \/ own = {}
      \/ /\ b.place = "lu"
         /\ \E n \in Luns : own = {n} /\ desc.lu[n].wb = b.units
    BY BufferSits
<1> HIDE DEF desc, b
<1>5. CASE own = {}
    <2>1. SumFunctionOnSet(f, own) = 0
        <3> HIDE DEF f, own
        <3> QED
            BY <1>5, SumEmpty
    <2> HIDE DEF f
    <2> QED
        BY <1>1, <1>2, <1>3, <2>1 DEF f, desc, b
<1>6. CASE own # {}
    <2>1. PICK n \in Luns : own = {n} /\ desc.lu[n].wb = b.units /\ b.place = "lu"
        BY <1>4, <1>6
    <2>2. f[n] = b.units
        BY <2>1
    <2>3. \A x \in own : f[x] \in Int
        BY <1>2, <2>1, <2>2
    <2>4. IsFiniteSet(own) /\ own \ {n} = {}
        BY <2>1, FS_Singleton
    <2> HIDE DEF f, own
    <2>5. SumFunctionOnSet(f, own) = f[n] + SumFunctionOnSet(f, own \ {n})
        BY <2>1, <2>3, <2>4, SumRemove
    <2>6. SumFunctionOnSet(f, own) = b.units
        BY <1>2, <2>2, <2>4, <2>5, SumEmpty
    <2>7. desc.wbShared = 0
        BY <1>1, <2>1
    <2> QED
        BY <1>2, <1>3, <2>6, <2>7 DEF f, own, desc, b
<1> QED
    BY <1>5, <1>6

\* A plan that is not refused, on a device with the numbers of one.
LEMMA PlannedIsTaken ==
    ASSUME NEW s, NEW dev, Sound(s, dev), Fits(s, dev)
    PROVE  DeviceTakes(dev, Plan(s, dev).desc)
<1> DEFINE desc == Plan(s, dev).desc
           own == {n \in Luns : desc.lu[n].wb # 0}
           b == PlanWriteBooster(s, dev)
           buffer == desc.wbShared + SumFunction([n \in own |-> desc.lu[n].wb])
<1>0. s.wbSize = "other" => ~dev.wb \/ dev.wbMax = 0
    BY DEF Fits
<1>1. /\ b.units \in Nat /\ b.units <= dev.wbMax /\ b.cost \in Nat
      /\ b.units # 0 => dev.wb
      /\ b.place \in {"none", "shared", "lu"}
      /\ b.place = "none" => b.units = 0
      /\ b.place = "shared" => SupportsShared(dev)
      /\ b.place = "lu" => dev.wbBuffers # 1 /\ dev.wideBlocks
      /\ b.preserve \in BOOLEAN
      /\ ~b.preserve => b.cost >= b.units * dev.wbFactor
    BY <1>0, BufferTypes
<1>2. buffer \in Nat /\ buffer <= b.units
    BY BufferSum
<1>3. dev.wbMax \in Nat /\ dev.wbFactor \in Nat /\ TotalAllocUnits(dev) \in Nat
    BY GeometryTypes DEF Sound, MemoryTypes
<1>4. desc.wbShared = IF b.place = "shared" THEN b.units ELSE 0
    BY HeaderOfPlan
<1>5. desc.wbPreserve = IF b.place = "none" THEN FALSE ELSE b.preserve
    BY HeaderOfPlan
<1>6. UnitsAt(desc, MemoryTypes) = TotalAllocUnits(dev) - b.cost
    <2>1. MembersOf(s, MemoryTypes) = Members(s)
        BY MemberMem DEF MembersOf, Sound
    <2>2. UnitsAt(desc, MemoryTypes) = UnitsFor(s, dev, MemoryTypes)
        BY UnitsOnDevice
    <2>3. SumFunctionOnSet([m \in Members(s) |-> UnitsOf(s, dev, m)], Members(s))
             = TotalAllocUnits(dev) - b.cost
        BY AllIsGiven
    <2> HIDE DEF b, desc
    <2> QED
        BY <2>1, <2>2, <2>3 DEF UnitsFor
<1>7. UnitsAt(desc, MemoryTypes) + (IF desc.wbPreserve THEN 0 ELSE buffer * dev.wbFactor)
        <= TotalAllocUnits(dev)
    <2> HIDE DEF buffer, b, desc
    <2>1. CASE desc.wbPreserve
        BY <1>1, <1>3, <1>6, <2>1
    <2>2. CASE ~desc.wbPreserve
        <3> DEFINE f == dev.wbFactor
        <3>1. f \in Nat
            BY <1>3
        <3>2. buffer * f <= b.units * f
            <4> HIDE DEF f
            <4>1. CASE f = 0
                BY <1>1, <1>2, <4>1
            <4>2. CASE f # 0
                BY <1>1, <1>2, <3>1, <4>2, Grows
            <4> QED
                BY <4>1, <4>2
        <3>3. b.units * f <= b.cost
            <4>1. CASE b.place = "none"
                BY <1>1, <3>1, <4>1
            <4>2. CASE b.place # "none"
                BY <1>1, <1>5, <2>2, <4>2
            <4> QED
                BY <4>1, <4>2
        <3>4. buffer * f \in Nat /\ b.units * f \in Nat
            BY <1>1, <1>2, <3>1
        <3>5. buffer * f <= b.cost
            <4> DEFINE x == buffer * f
                       y == b.units * f
            <4>1. x \in Nat /\ y \in Nat /\ x <= y /\ y <= b.cost
                BY <3>2, <3>3, <3>4
            <4> HIDE DEF x, y
            <4>2. x <= b.cost
                BY <1>1, <4>1
            <4> QED
                BY <4>2 DEF x
        <3> QED
            BY <1>1, <1>3, <1>6, <2>2, <3>4, <3>5
    <2> QED
        BY <2>1, <2>2
<1>8. \A mem \in MemoryTypes \ {"normal"} : UnitsAt(desc, {mem}) <= dev.ceiling[mem]
    <2> SUFFICES ASSUME NEW mem \in MemoryTypes, mem # "normal"
                 PROVE  UnitsAt(desc, {mem}) <= dev.ceiling[mem]
        OBVIOUS
    <2> DEFINE S == MembersOf(s, {mem})
               u == UnitsFor(s, dev, {mem})
    <2>1. UnitsAt(desc, {mem}) = u
        BY UnitsOnDevice
    <2>2. {m \in Members(s) : m.mem = mem} = S
        BY DEF MembersOf
    <2>3. Wanted(s, dev, mem) = u
        BY <2>2 DEF Wanted, SumFunction, UnitsFor
    <2>4. CASE S = {}
        <3>1. u = 0
            BY <2>4, SumEmpty DEF UnitsFor
        <3>2. dev.ceiling[mem] \in Nat
            BY DEF Sound
        <3> HIDE DEF u
        <3> QED
            BY <2>1, <3>1, <3>2
    <2>5. CASE S # {}
        <3>1. PICK m \in Members(s) : m.mem = mem
            BY <2>5 DEF MembersOf
        <3>2. Wanted(s, dev, m.mem) <= MaxAllocUnits(dev, m.mem)
            BY DEF Fits
        <3>3. MaxAllocUnits(dev, mem) = dev.ceiling[mem]
            BY DEF MaxAllocUnits
        <3> HIDE DEF u
        <3> QED
            BY <2>1, <2>3, <3>1, <3>2, <3>3
    <2> QED
        BY <2>4, <2>5
<1>9. \A n \in Luns : desc.lu[n].enable => desc.lu[n].mem \in dev.supports
    <2> SUFFICES ASSUME NEW n \in Luns, desc.lu[n].enable PROVE desc.lu[n].mem \in dev.supports
        OBVIOUS
    <2> DEFINE lu == desc.lu[n]
    <2>1. CASE {m \in Members(s) : m.id = n} = {}
        <3>1. lu = EmptyLu /\ lu.enable
            BY <2>1, Blocks
        <3>2. EmptyLu.enable = FALSE
            BY DEF EmptyLu
        <3> HIDE DEF lu
        <3> QED
            BY <3>1, <3>2
    <2>2. CASE {m \in Members(s) : m.id = n} # {}
        <3>1. PICK m \in Members(s) : m.id = n
            BY <2>2
        <3>2. lu = [enable |-> TRUE, boot |-> m.boot, protect |-> FALSE, mem |-> m.mem,
                    units |-> UnitsOf(s, dev, m), reliable |-> m.reliable, blk |-> m.blk,
                    prov |-> m.prov, wb |-> lu.wb]
            BY <3>1, BlockShape DEF Sound
        <3> HIDE DEF lu
        <3>3. lu.mem = m.mem
            BY <3>2
        <3>4. m.mem \in dev.supports
            BY DEF Fits
        <3> QED
            BY <3>3, <3>4 DEF lu
    <2> QED
        BY <2>1, <2>2
<1>10. buffer <= dev.wbMax /\ (buffer # 0 => dev.wb)
    <2> HIDE DEF buffer, b
    <2> QED
        BY <1>1, <1>2, <1>3
<1>11. /\ own = {} \/ (b.place = "lu" /\ \E n \in Luns : own = {n} /\ desc.lu[n].wb = b.units
                            /\ desc.lu[n].mem = "normal" /\ desc.lu[n].boot = "none")
    BY BufferSits
<1>12. desc.wbShared # 0 => SupportsShared(dev) /\ own = {}
    <2> HIDE DEF own, desc, b
    <2> QED
        BY <1>1, <1>4, <1>11
<1>13. own # {} => dev.wbBuffers # 1 /\ Cardinality(own) = 1
    <2> HIDE DEF own, desc, b
    <2> QED
        BY <1>1, <1>11, FS_Singleton
<1>14. \A n \in own : desc.lu[n].mem = "normal" /\ desc.lu[n].boot = "none"
    <2> HIDE DEF desc, b
    <2> QED
        BY <1>11
<1> HIDE DEF desc, own, buffer, b
<1> QED
    BY <1>7, <1>8, <1>9, <1>10, <1>12, <1>13, <1>14
       DEF DeviceTakes, UnitsAt, LusOf, buffer, own, desc

\* The member without a size is left with enough, as plan refuses otherwise.
LEMMA RestIsEnough ==
    ASSUME NEW s, NEW dev, Sound(s, dev), Fits(s, dev),
           NEW m \in Members(s), ~m.sized, WholeFactor(dev, m.mem)
    PROVE  LET lu == Plan(s, dev).desc.lu[m.id]
           IN  UsableSectors(dev, lu.mem, lu.units) * 512 >= MinTarget
<1> DEFINE lu == Plan(s, dev).desc.lu[m.id]
           u == UnitsOf(s, dev, m)
           sec == AllocUnitSectors(dev)
           fac == CapAdjFac(dev, m.mem)
           w == MinTarget \div 512
<1>1. m.id \in Luns /\ m.mem \in MemoryTypes
    BY MemberValid, MemberMem DEF Sound
<1>2. lu.mem = m.mem /\ lu.units = u
    <2>1. lu = [enable |-> TRUE, boot |-> m.boot, protect |-> FALSE, mem |-> m.mem,
                units |-> u, reliable |-> m.reliable, blk |-> m.blk,
                prov |-> m.prov, wb |-> lu.wb]
        BY <1>1, BlockShape DEF Sound
    <2> HIDE DEF lu, u
    <2> QED
        BY <2>1
<1>3. sec \in Nat \ {0} /\ fac \in Nat \ {0}
    <2>1. m.mem # "normal" => dev.factor[m.mem] \in Nat \ {0} /\ dev.factor[m.mem] % 256 = 0
        BY <1>1 DEF Sound, WholeFactor
    <2>2. m.mem # "normal" => dev.factor[m.mem] \div 256 \in Nat \ {0}
        <3> DEFINE p == dev.factor[m.mem]
        <3>1. ASSUME NEW q \in Nat \ {0}, q % 256 = 0 PROVE q \div 256 \in Nat \ {0}
            BY <3>1
        <3> QED
            BY <2>1, <3>1
    <2>3. sec \in Nat \ {0}
        BY <1>1, GeometryTypes DEF Sound
    <2> QED
        BY <2>2, <2>3 DEF CapAdjFac
<1>4. w \in Nat /\ MinTarget = w * 512
    BY PlanAssumption
<1>5. u \in Nat
    BY AllIsGiven
<1>6. (u * (sec * 512)) \div fac >= MinTarget
    <2>1. SizeBytes(dev, PlannedLu(s, dev, m)) >= MinTarget
        BY DEF Fits
    <2>2. PlannedLu(s, dev, m).units = u /\ PlannedLu(s, dev, m).mem = m.mem
        BY DEF PlannedLu
    <2>3. SizeBytes(dev, PlannedLu(s, dev, m)) = (u * (sec * 512)) \div Max({1, fac})
        <3> HIDE DEF u
        <3> QED
            BY <2>2 DEF SizeBytes, AllocUnitBytes
    <2>4. Max({1, fac}) = fac
        <3> HIDE DEF fac
        <3>1. 1 \in Int /\ fac \in Int /\ fac >= 1
            BY <1>3
        <3>2. Max({1, fac}) \in {1, fac} /\ Max({1, fac}) >= fac
            BY <3>1, MaxOfTwo
        <3> QED
            BY <3>1, <3>2
    <2> HIDE DEF u, sec, fac
    <2> QED
        BY <2>1, <2>3, <2>4
<1> HIDE DEF u, sec, fac, w
<1>7. u * (sec * 512) >= MinTarget * fac
    <2>1. u * (sec * 512) \in Int /\ MinTarget \in Int
        BY <1>3, <1>4, <1>5
    <2> QED
        BY <1>3, <1>6, <2>1, Divides
<1>8. u * sec >= w * fac
    <2>1. u * sec \in Int /\ w * fac \in Int
        BY <1>3, <1>4, <1>5
    <2>2. u * (sec * 512) = (u * sec) * 512 /\ MinTarget * fac = (w * fac) * 512
        BY <1>3, <1>4, <1>5
    <2> DEFINE a == u * sec
               c == w * fac
    <2>3. a \in Int /\ c \in Int /\ a * 512 >= c * 512
        BY <1>7, <2>1, <2>2
    <2> HIDE DEF a, c
    <2>4. a >= c
        BY <2>3
    <2> QED
        BY <2>4 DEF a, c
<1>9. UsableSectors(dev, m.mem, u) \in Int /\ UsableSectors(dev, m.mem, u) >= w
    <2>1. u \in Int /\ fac # 0
        BY <1>3, <1>5
    <2> QED
        BY <1>1, <1>4, <1>8, <2>1, UsableAgainst DEF Sound, sec, fac
<1>10. UsableSectors(dev, m.mem, u) * 512 >= MinTarget
    <2> DEFINE x == UsableSectors(dev, m.mem, u)
    <2>1. x \in Int /\ x >= w
        BY <1>9
    <2> HIDE DEF x
    <2>2. x * 512 >= w * 512
        BY <1>4, <2>1
    <2> QED
        BY <1>4, <2>2 DEF x
<1> HIDE DEF lu
<1> QED
    BY <1>2, <1>10 DEF lu
-------------------------------------------------------------------------------
(* What compare says of a descriptor that is near the plan's, or not. *)

\* Differences are of one kind, and there are some if a field differs.
LEMMA DiffersIs ==
    ASSUME NEW critical, NEW lun, NEW fields, NEW want, NEW have
    PROVE  /\ \A d \in Differs(critical, lun, fields, want, have) :
                d.critical = critical /\ d.write = TRUE
           /\ Differs(critical, lun, fields, want, have) # {}
                <=> \E g \in fields : want[g] # have[g]
<1> DEFINE D == Differs(critical, lun, fields, want, have)
           rec(f) == [what |-> f, lun |-> lun, critical |-> critical, write |-> TRUE]
           G == {g \in fields : want[g] # have[g]}
<1>1. D = {rec(f) : f \in G}
    BY DEF Differs
<1>2. \A f : rec(f).critical = critical /\ rec(f).write = TRUE
    OBVIOUS
<1> HIDE DEF D, rec
<1>3. \A d \in D : d.critical = critical /\ d.write = TRUE
    BY <1>1, <1>2
<1>4. D # {} <=> \E g \in fields : want[g] # have[g]
    BY <1>1
<1> QED
    BY <1>3, <1>4 DEF D

\* Differences that all take a descriptor write, some of them critical unless the
\* two are alike.
Tell(diffs, alike) ==
    /\ \A d \in diffs : d.write = TRUE
    /\ (\E d \in diffs : d.critical) <=> ~alike

\* Of the header only the boot flag is critical.
LEMMA HeaderTells ==
    ASSUME NEW want, NEW have
    PROVE  Tell(HeaderDiffs(want, have), want.bootEnable = have.bootEnable)
<1> DEFINE C == Differs(TRUE, NoLun, {"bootEnable"}, want, have)
           minor == {"wbType", "wbShared", "wbPreserve", "misc"}
           R == Differs(FALSE, NoLun, minor, want, have)
<1>1. /\ \A d \in C : d.critical = TRUE /\ d.write = TRUE
      /\ C # {} <=> \E g \in {"bootEnable"} : want[g] # have[g]
    BY DiffersIs, ZenonT(40)
<1>2. \A d \in R : d.critical = FALSE /\ d.write = TRUE
    <2> HIDE DEF minor
    <2> QED
        BY DiffersIs, Zenon
<1>3. HeaderDiffs(want, have) = C \cup R
    BY DEF HeaderDiffs
<1> HIDE DEF C, R
<1> QED
    BY <1>1, <1>2, <1>3 DEF Tell

\* Of a logical unit only what divides the device is critical.
LEMMA LuTells ==
    ASSUME NEW n, NEW want, NEW have, HeldLu(want), HeldLu(have)
    PROVE  Tell(LuDiffs(n, want, have), SameLu(want, have))
<1> DEFINE code == [have EXCEPT !.blk = @ % 32]
           E == Differs(TRUE, n, {"enable"}, want, have)
           kind == {"mem", "boot", "units", "blk"}
           minor == {"protect", "reliable", "prov", "wb"}
           C == Differs(TRUE, n, kind, want, code)
           R == Differs(FALSE, n, minor, want, have)
<1>1. /\ \A d \in E : d.critical = TRUE /\ d.write = TRUE
      /\ E # {} <=> \E g \in {"enable"} : want[g] # have[g]
    BY DiffersIs, ZenonT(40)
<1>2. /\ \A d \in C : d.critical = TRUE /\ d.write = TRUE
      /\ C # {} <=> \E g \in kind : want[g] # code[g]
    <2> HIDE DEF kind, code
    <2>1. \A d \in C : d.critical = TRUE /\ d.write = TRUE
        BY DiffersIs, Zenon
    <2>2. C # {} <=> \E g \in kind : want[g] # code[g]
        <3> DEFINE rec(f) == [what |-> f, lun |-> n, critical |-> TRUE, write |-> TRUE]
        <3>1. C = {rec(f) : f \in {g \in kind : want[g] # code[g]}}
            BY DEF Differs
        <3> HIDE DEF rec, C
        <3> QED
            BY <3>1
    <2> QED
        BY <2>1, <2>2
<1>3. \A d \in R : d.critical = FALSE /\ d.write = TRUE
    <2> HIDE DEF minor
    <2> QED
        BY DiffersIs, Zenon
<1>4. \A g \in kind : code[g] = have[g]
    <2>1. kind \subseteq DOMAIN have
        BY DEF EmptyLu, HeldLu
    <2>2. have.blk % 32 = have.blk
        BY DEF HeldLu
    <2> QED
        BY <2>1, <2>2
<1>5. LuDiffs(n, want, have) = IF want.enable # have.enable THEN E
                               ELSE IF ~want.enable THEN {} ELSE C \cup R
    BY DEF LuDiffs
<1>6. C # {} <=> \/ want.mem # have.mem \/ want.boot # have.boot
                 \/ want.units # have.units \/ want.blk # have.blk
    <2> HIDE DEF C, code
    <2> QED
        BY <1>2, <1>4
<1> HIDE DEF E, C, R, code
<1> QED
    BY <1>1, <1>2, <1>3, <1>5, <1>6 DEF SameLu, HeldLu, Tell

\* Compare asks for the descriptors to be written where they divide the device in
\* another way, and for bBootLunEn alone where only that is not acceptable.
LEMMA CompareTells ==
    ASSUME NEW p, NEW c, NEW boot, NEW rest, Held(p.desc), Held(c)
    PROVE  /\ NeedsWrite(Compare(p, c, boot, rest))
                <=> rest # {} \/ ~DividedAlike(p.desc, c)
           /\ (\E d \in Critical(Compare(p, c, boot, rest)) : ~d.write)
                <=> boot \notin Acceptable(p)
<1> DEFINE H == HeaderDiffs(p.desc, c)
           T == AttrDiffs(p, boot)
           B == AboveDiffs(rest)
           L(n) == LuDiffs(n, p.desc.lu[n], c.lu[n])
           all == Compare(p, c, boot, rest)
<1>1. /\ \A d \in H : d.write = TRUE
      /\ (\E d \in H : d.critical) <=> p.desc.bootEnable # c.bootEnable
    BY HeaderTells DEF Tell
<1>2. /\ \A d \in T : d.critical = TRUE /\ d.write = FALSE
      /\ T # {} <=> boot \notin Acceptable(p)
    <2> DEFINE e == [what |-> "attr", lun |-> NoLun, critical |-> TRUE, write |-> FALSE]
    <2>1. e.critical = TRUE /\ e.write = FALSE
        OBVIOUS
    <2>2. T = IF boot \in Acceptable(p) THEN {} ELSE {e}
        BY DEF AttrDiffs
    <2> HIDE DEF e, T
    <2> QED
        BY <2>1, <2>2
<1>3. /\ \A d \in B : d.critical = TRUE /\ d.write = TRUE
      /\ B # {} <=> rest # {}
    <2> DEFINE e == [what |-> "above", lun |-> NoLun, critical |-> TRUE, write |-> TRUE]
    <2>1. e.critical = TRUE /\ e.write = TRUE
        OBVIOUS
    <2>2. B = IF rest = {} THEN {} ELSE {e}
        BY DEF AboveDiffs
    <2> HIDE DEF e, B
    <2> QED
        BY <2>1, <2>2
<1>4. ASSUME NEW n \in Luns
      PROVE  Tell(L(n), SameLu(p.desc.lu[n], c.lu[n]))
    <2>1. HeldLu(p.desc.lu[n]) /\ HeldLu(c.lu[n])
        BY DEF Held
    <2> QED
        BY <2>1, LuTells, Zenon
<1>5. all = H \cup T \cup B \cup UNION {L(n) : n \in Luns}
    BY DEF Compare
<1>6. DividedAlike(p.desc, c)
        <=> ~(\E d \in H : d.critical) /\ \A n \in Luns : ~(\E d \in L(n) : d.critical)
    <2> HIDE DEF H, L
    <2> QED
        BY <1>1, <1>4 DEF DividedAlike, Tell
<1>7. NeedsWrite(all) <=> \E d \in all : d.critical /\ d.write
    BY DEF NeedsWrite, Critical
<1>8. (\E d \in Critical(all) : ~d.write) <=> \E d \in all : d.critical /\ ~d.write
    BY DEF Critical
<1> HIDE DEF H, T, B, L, all
<1>9. (\E d \in all : d.critical /\ d.write) <=> rest # {} \/ ~DividedAlike(p.desc, c)
    <2>1. (\E d \in all : d.critical /\ d.write)
            <=> \/ \E d \in H : d.critical
                \/ B # {}
                \/ \E n \in Luns : \E d \in L(n) : d.critical
        <3>1. ASSUME NEW d \in all, d.critical, d.write
              PROVE  (\E e \in H : e.critical) \/ B # {}
                     \/ \E n \in Luns : \E e \in L(n) : e.critical
            BY <1>2, <1>5, <3>1
        <3>2. ASSUME NEW d \in H, d.critical PROVE d \in all /\ d.critical /\ d.write
            BY <1>1, <1>5, <3>2
        <3>3. ASSUME NEW d \in B PROVE d \in all /\ d.critical /\ d.write
            BY <1>3, <1>5
        <3>4. ASSUME NEW n \in Luns, NEW d \in L(n), d.critical
              PROVE  d \in all /\ d.critical /\ d.write
            BY <1>4, <1>5, <3>4 DEF Tell
        <3> QED
            BY <3>1, <3>2, <3>3, <3>4
    <2> QED
        BY <1>3, <1>6, <2>1
<1>10. (\E d \in all : d.critical /\ ~d.write) <=> boot \notin Acceptable(p)
    <2>1. ASSUME NEW d \in all, d.critical, ~d.write PROVE T # {}
        BY <1>1, <1>3, <1>4, <1>5, <2>1 DEF Tell
    <2>2. ASSUME NEW d \in T PROVE d \in all /\ d.critical /\ ~d.write
        BY <1>2, <1>5
    <2> QED
        BY <1>2, <2>1, <2>2
<1> QED
    BY <1>7, <1>8, <1>9, <1>10 DEF all

\* A plan is a descriptor a device can hold, with a logical unit that is on: the one
\* without a size.
LEMMA PlanIsHeld ==
    ASSUME NEW s, NEW dev, Valid(s)
    PROVE  /\ Held(Plan(s, dev).desc)
           /\ \E n \in Luns : Plan(s, dev).desc.lu[n].enable
<1> DEFINE desc == Plan(s, dev).desc
<1>1. ASSUME NEW m \in Members(s)
      PROVE  m.id \in Luns /\ desc.lu[m.id].enable = TRUE /\ HeldLu(desc.lu[m.id])
    <2> DEFINE lu == desc.lu[m.id]
    <2>1. m.id \in Luns /\ m.blk \in 12..31
        BY MemberValid
    <2>2. lu = [enable |-> TRUE, boot |-> m.boot, protect |-> FALSE, mem |-> m.mem,
                units |-> UnitsOf(s, dev, m), reliable |-> m.reliable, blk |-> m.blk,
                prov |-> m.prov, wb |-> lu.wb]
        BY <2>1, BlockShape
    <2> HIDE DEF lu
    <2>3. lu.enable = TRUE /\ lu.blk = m.blk
        BY <2>2
    <2>4. DOMAIN lu = DOMAIN EmptyLu
        BY <2>2 DEF EmptyLu
    <2>5. lu.blk \in 0..31
        BY <2>1, <2>3
    <2>6. HeldLu(lu)
        BY <2>3, <2>4, <2>5 DEF HeldLu
    <2> QED
        BY <2>1, <2>3, <2>6 DEF lu
<1>2. ASSUME NEW n \in Luns, {m \in Members(s) : m.id = n} = {} PROVE HeldLu(desc.lu[n])
    <2>1. desc.lu[n] = EmptyLu
        BY <1>2, Blocks
    <2>2. HeldLu(EmptyLu)
        BY DEF HeldLu, EmptyLu
    <2> QED
        BY <2>1, <2>2
<1>3. Held(desc)
    <2> SUFFICES ASSUME NEW n \in Luns PROVE HeldLu(desc.lu[n])
        BY DEF Held
    <2>1. CASE {m \in Members(s) : m.id = n} = {}
        BY <1>2, <2>1
    <2>2. ASSUME NEW m \in Members(s), m.id = n PROVE HeldLu(desc.lu[n])
        BY <1>1, <2>2
    <2> QED
        BY <2>1, <2>2
<1>4. \E n \in Luns : desc.lu[n].enable
    <2>1. PICK r \in Members(s) : ~r.sized
        BY OneRest
    <2> QED
        BY <1>1
<1> QED
    BY <1>3, <1>4

\* Whatever its shape, what is chosen for it is a descriptor a device can hold, and
\* divides the device as far from the plan as the shape says.
LEMMA ShapesTell ==
    ASSUME Chosen, NEW shape \in Shapes
    PROVE  LET c == descriptor[shape]
           IN  /\ Held(plan.desc) /\ Held(c)
               /\ DividedAlike(plan.desc, c) <=> shape \in {"scheme", "close"}
               /\ IsBlank(c) <=> shape = "blank"
<1> DEFINE desc == plan.desc
<1>1. /\ Valid(scheme) /\ Fits(scheme, unit) /\ plan = Plan(scheme, unit)
      /\ unit \in Devices /\ scheme \in Files \cup {BuiltIn}
    BY DEF Chosen
<1>2. PICK close \in Close(unit, plan), other \in Other(unit, plan) :
        descriptor = [scheme |-> desc, close |-> close, other |-> other,
                      blank |-> EmptyDescriptor]
    BY DEF Chosen
<1>3. Held(desc) /\ \E n \in Luns : desc.lu[n].enable
    BY <1>1, PlanIsHeld
<1>4. /\ Held(close) /\ DividedAlike(desc, close)
      /\ Held(other) /\ ~DividedAlike(desc, other) /\ ~IsBlank(other)
    BY <1>1, DescriptorAssumption
<1>5. DividedAlike(desc, desc)
    BY DEF DividedAlike, SameLu
<1>6. \A d : DividedAlike(desc, d) => ~IsBlank(d)
    BY <1>3 DEF DividedAlike, SameLu, IsBlank
<1>7. Held(EmptyDescriptor) /\ IsBlank(EmptyDescriptor)
    <2>1. \A n \in Luns : EmptyDescriptor.lu[n] = EmptyLu
        BY DEF EmptyDescriptor
    <2>2. HeldLu(EmptyLu) /\ ~EmptyLu.enable
        BY DEF HeldLu, EmptyLu
    <2> QED
        BY <2>1, <2>2 DEF Held, IsBlank
<1> HIDE DEF desc
<1>8. CASE shape = "scheme"
    <2>1. descriptor[shape] = desc
        BY <1>2, <1>8
    <2> QED
        BY <1>3, <1>5, <1>6, <1>8, <2>1 DEF desc
<1>9. CASE shape = "close"
    <2>1. descriptor[shape] = close
        BY <1>2, <1>9
    <2> QED
        BY <1>3, <1>4, <1>6, <1>9, <2>1 DEF desc
<1>10. CASE shape = "other"
    <2>1. descriptor[shape] = other
        BY <1>2, <1>10
    <2> QED
        BY <1>3, <1>4, <1>10, <2>1 DEF desc
<1>11. CASE shape = "blank"
    <2>1. descriptor[shape] = EmptyDescriptor
        BY <1>2, <1>11
    <2> QED
        BY <1>3, <1>6, <1>7, <1>11, <2>1 DEF desc
<1> QED
    BY <1>8, <1>9, <1>10, <1>11 DEF Shapes
-------------------------------------------------------------------------------
\* What was chosen stays chosen: a valid scheme, a device that takes it, their plan,
\* and the descriptors.
LEMMA AlwaysChosen == ProvisioningSpec => []Chosen
<1>1. ProvisioningInit => Chosen
    <2> SUFFICES ASSUME ProvisioningInit PROVE Chosen
        OBVIOUS
    <2>1. PICK file \in Files : scheme = Resolve(file, BuiltIn)
        BY DEF ProvisioningInit
    <2>2. Valid(scheme) /\ scheme \in Files \cup {BuiltIn}
        BY <2>1, ProvisioningAssumption DEF Resolve
    <2>3. unit \in Devices /\ Fits(scheme, unit) /\ plan = Plan(scheme, unit)
        BY DEF ProvisioningInit
    <2>4. \E close \in Close(unit, plan), other \in Other(unit, plan) :
            descriptor = [scheme |-> plan.desc, close |-> close, other |-> other,
                          blank |-> EmptyDescriptor]
        BY DEF ProvisioningInit
    <2> QED
        BY <2>2, <2>3, <2>4 DEF Chosen
<1>2. Chosen /\ [ProvisioningNext]_<<vars, chosen>> => Chosen'
    BY DEF Chosen, ProvisioningNext, chosen
<1> QED
    BY <1>1, <1>2, PTL DEF ProvisioningSpec

\* A device that took the plan compares as the scheme with nothing even to report,
\* whichever boot LU an update of the bootloader has moved it to (compare), for every
\* geometry and every scheme that Scheme::validate lets through.
THEOREM PlanReadsBack == ProvisioningSpec => []ReadsBack
<1>1. Chosen => ReadsBack
    BY PlanComparesAsItself DEF Chosen, ReadsBack
<1> QED
    BY <1>1, AlwaysChosen, PTL

\* The files and geometries of the instance are of these types.
LEMMA ChosenIsSound ==
    ASSUME Chosen
    PROVE  Sound(scheme, unit) /\ Fits(scheme, unit) /\ plan = Plan(scheme, unit)
<1>1. /\ Valid(scheme) /\ Fits(scheme, unit) /\ plan = Plan(scheme, unit)
      /\ unit \in Devices /\ scheme \in Files \cup {BuiltIn}
    BY DEF Chosen
<1>2. /\ Parsed(unit) /\ unit.wbMax \in Nat /\ unit.wbFactor \in Nat
      /\ {unit.factor, unit.ceiling} \subseteq [MemoryTypes \ {"normal"} -> Nat]
    BY <1>1, ProvisioningAssumption
<1>3. /\ \A member \in Members(scheme) : member.sized => member.mib \in Nat
      /\ scheme.wbSize \in {"max", "mib", "other"}
      /\ scheme.wbSize = "mib" => scheme.wbMib \in Nat
    BY <1>1, ProvisioningAssumption
<1> QED
    BY <1>1, <1>2, <1>3 DEF Sound

\* For every geometry, scheme and size, the allocation units of a logical unit with a
\* size hold that size, and one unit less would not (alloc_units_for), and what is left
\* for the one without a size is enough for an install (provision.rs:432), if the device
\* publishes whole factors.
THEOREM SizesAreKept == ProvisioningSpec => []SizesKept
<1>1. Chosen => SizedKept
    <2> SUFFICES ASSUME Chosen, NEW member \in Members(scheme),
                        member.sized, WholeFactor(unit, member.mem)
                 PROVE  HoldsJust(unit, plan.desc.lu[member.id], member.mib * (Mib \div 512))
        BY DEF SizedKept
    <2> QED
        BY ChosenIsSound, MemberHoldsJust, ZenonT(40) DEF Sound
<1>2. Chosen => RestSuffices
    <2> SUFFICES ASSUME Chosen, NEW member \in Members(scheme),
                        ~member.sized, WholeFactor(unit, member.mem)
                 PROVE  LET lu == plan.desc.lu[member.id]
                        IN  UsableSectors(unit, lu.mem, lu.units) * 512 >= MinTarget
        BY DEF RestSuffices
    <2> QED
        BY ChosenIsSound, RestIsEnough
<1>3. Chosen => SizesKept
    BY <1>1, <1>2 DEF SizesKept
<1> QED
    BY <1>3, AlwaysChosen, PTL

\* A plan that is not refused never hands out more allocation units than the device has,
\* nor more than it allows for a memory type, counted over all logical units and with
\* the WriteBooster buffer, whose place and size the device supports (plan): for every
\* geometry and every scheme.
THEOREM PlanIsTaken == ProvisioningSpec => []PlanFits
<1>1. Chosen => PlanFits
    BY ChosenIsSound, PlannedIsTaken DEF PlanFits
<1> QED
    BY <1>1, AlwaysChosen, PTL

\* The behaviours of a device, a scheme and their descriptors are those of Provision:
\* what Provision's theorems say holds of every plan.
THEOREM IsAProvision == ProvisioningSpec => FairSpec
<1>1. ProvisioningInit => Init
    BY DEF ProvisioningInit
<1>2. [ProvisioningNext]_<<vars, chosen>> => [Next]_vars
    BY DEF ProvisioningNext
<1> QED
    BY <1>1, <1>2, PTL DEF ProvisioningSpec, FairSpec, Spec

\* What compare and prompt_lines say of any state an attempt can leave the device in is
\* what the attempt goes by, for every geometry, scheme and descriptors: a device is
\* written only if it is divided in another way, nothing is said to be erased for a
\* switch of the boot LU, and every logical unit that changes its size is listed.
THEOREM ComparedAsClassed == ProvisioningSpec => []ComparedByClass
<1>1. ASSUME TypeOK, Chosen, Bootable(plan) = {"A", "B"}, NEW skipped
      PROVE  ByClass(Seen(skipped))
    <2> DEFINE r == Seen(skipped)
               current == descriptor[r.main]
               diffs == Compare(plan, current, r.attr, r.above)
               prompt == Prompt(plan, current, diffs)
    <2>1. r.main \in Shapes /\ r.attr \in {"A", "B", "none"}
        <3>1. r \in Probes
            BY <1>1, ReportedType DEF TypeOK, Seen, Probes
        <3> QED
            BY <3>1 DEF Probes, BootLus
    <2>2. /\ Held(plan.desc) /\ Held(current)
          /\ DividedAlike(plan.desc, current) <=> r.main \in {"scheme", "close"}
          /\ IsBlank(current) <=> r.main = "blank"
        BY <1>1, <2>1, ShapesTell
    <2>3. r.attr \in Acceptable(plan) <=> r.attr # "none"
        BY <1>1, <2>1 DEF Acceptable
    <2> HIDE DEF r, current
    <2>4. /\ NeedsWrite(diffs) <=> r.above # {} \/ ~DividedAlike(plan.desc, current)
          /\ (\E d \in Critical(diffs) : ~d.write) <=> r.attr \notin Acceptable(plan)
        BY <2>2, CompareTells
    <2> HIDE DEF diffs
    <2>5. NeedsWrite(diffs) = NeedsDescriptorWrite(r)
        <3>1. NeedsWrite(diffs) <=> NeedsDescriptorWrite(r)
            BY <2>2, <2>4 DEF NeedsDescriptorWrite
        <3> QED
            BY <3>1 DEF NeedsWrite, NeedsDescriptorWrite
    <2>6. (Critical(diffs) = {}) = IsProvisioned(r)
        <3>1. Critical(diffs) = {}
                <=> ~NeedsWrite(diffs) /\ ~\E d \in Critical(diffs) : ~d.write
            BY DEF NeedsWrite
        <3> QED
            BY <2>1, <2>3, <2>4, <2>5, <3>1 DEF IsProvisioned, BootLus
    <2>7. prompt.told = Announced(r)
        BY <2>2, <2>5 DEF Prompt, Announced
    <2>8. prompt.switches = (r.attr = "none")
        BY <2>3, <2>4 DEF Prompt
    <2>9. ASSUME NEW n \in Luns, plan.desc.lu[n].units # current.lu[n].units
          PROVE  n \in prompt.changes
        <3>1. HeldLu(plan.desc.lu[n]) /\ HeldLu(current.lu[n])
            BY <2>2 DEF Held
        <3>2. plan.desc.lu[n].enable \/ current.lu[n].enable
            BY <2>9, <3>1 DEF HeldLu
        <3> QED
            BY <2>9, <3>2 DEF Prompt
    <2>10. {n \in Luns : plan.desc.lu[n].units # current.lu[n].units} \subseteq prompt.changes
        BY <2>9
    <2> HIDE DEF prompt
    <2> QED
        BY <2>5, <2>6, <2>7, <2>8, <2>10, Zenon DEF ByClass, prompt, diffs, current, r
<1>2. TypeOK /\ Chosen => ComparedByClass
    BY <1>1 DEF ComparedByClass
<1> QED
    BY <1>2, AlwaysChosen, IsAProvision, TypeCorrect, PTL DEF FairSpec
===============================================================================
