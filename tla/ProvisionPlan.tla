----------------------------- MODULE ProvisionPlan -----------------------------
(***************************************************************************)
(* The arithmetic of provisioning (core/provision.rs: Scheme::validate,    *)
(* plan, plan_writebooster, compare, prompt_lines; core/ufs.rs: the        *)
(* geometry of a device and its Configuration Descriptor): which           *)
(* descriptor puts a scheme onto a device, when the device cannot take it, *)
(* and what a descriptor that is there is said to differ in.               *)
(*                                                                         *)
(* A descriptor is the fields it encodes, a code the name it stands for.   *)
(* The header fields that compare only reports are one field, misc.  A     *)
(* logical block size is its base-2 logarithm, 0 for what is no power of   *)
(* two.  The summary, the report and the context capabilities, always      *)
(* zero, are left out.                                                     *)
(***************************************************************************)
EXTENDS Integers, Sequences, FiniteSetsExt

CONSTANTS
    MinTarget,  \* storage::MIN_TARGET_SIZE_BYTES
    MaxUnits    \* of one logical unit: 2^32 - 1

\* The least target is a whole number of sectors.
ASSUME PlanAssumption == MinTarget \in Nat /\ MinTarget % 512 = 0 /\ MaxUnits \in Nat

LusPerConfigDesc == 8
Luns == 0 .. LusPerConfigDesc - 1
Mib == 1024 * 1024
MemoryTypes == {"normal", "system", "volatile", "enhanced1", "enhanced2", "enhanced3",
                "enhanced4"}
BootIds == {"none", "A", "B"}
Provisionings == {"thick", "thin", "thinzero"}
DivCeil(a, b) == (a + b - 1) \div b
-------------------------------------------------------------------------------
(* The scheme: settings of the device, and the logical units in file order. *)

Valid(scheme) ==
    LET lus == scheme.lus
    IN /\ lus # <<>>
       /\ \A i \in DOMAIN lus :
            /\ lus[i].id \in Luns
            /\ \A j \in DOMAIN lus \ {i} : lus[j].id # lus[i].id
            /\ lus[i].mem \in MemoryTypes
            /\ lus[i].prov \in Provisionings
            /\ lus[i].boot \in BootIds
            /\ lus[i].blk \in 12..31
       /\ Cardinality({i \in DOMAIN lus : ~lus[i].sized}) = 1
       /\ scheme.active \in BootIds
       /\ scheme.active # "none" => \E i \in DOMAIN lus : lus[i].boot = scheme.active

\* The file's scheme, or the built-in one when there is none that can be used.
Resolve(file, builtIn) == IF Valid(file) THEN file ELSE builtIn

Members(scheme) == {scheme.lus[i] : i \in DOMAIN scheme.lus}
-------------------------------------------------------------------------------
(* The device. *)

\* What parse lets through: no unit of size zero.
Parsed(dev) == dev.raw \in Nat /\ dev.segment \in Nat \ {0} /\ dev.unitSegments \in Nat \ {0}

AllocUnitSectors(dev) == dev.segment * dev.unitSegments
AllocUnitBytes(dev) == AllocUnitSectors(dev) * 512
TotalAllocUnits(dev) == dev.raw \div AllocUnitSectors(dev)

\* Published times 256; none for normal memory; zero is an error.
CapAdjFac(dev, mem) == IF mem = "normal" THEN 1 ELSE dev.factor[mem] \div 256

\* Published for every memory type but normal.
MaxAllocUnits(dev, mem) == IF mem = "normal" THEN TotalAllocUnits(dev) ELSE dev.ceiling[mem]

PreservesUserSpace(dev) == dev.wbUserSpace \in {1, 2}
SupportsShared(dev) == dev.wbBuffers \in {1, 2}

SizeBytes(dev, lu) ==
    (lu.units * AllocUnitBytes(dev)) \div Max({1, CapAdjFac(dev, lu.mem)})
-------------------------------------------------------------------------------
(* A Configuration Descriptor. *)

EmptyLu == [enable |-> FALSE, boot |-> "none", protect |-> FALSE, mem |-> "normal",
            units |-> 0, reliable |-> FALSE, blk |-> 0, prov |-> "thick", wb |-> 0]

EmptyDescriptor ==
    [bootEnable |-> FALSE, misc |-> "zero", wbPreserve |-> FALSE, wbType |-> "lu",
     wbShared |-> 0, lu |-> [n \in Luns |-> EmptyLu]]

\* Only the longer blocks of UFS 3 have room for a buffer of the logical unit's own.
SetLu(dev, desc, n, lu) ==
    [desc EXCEPT !.lu[n] = IF dev.wideBlocks THEN lu ELSE [lu EXCEPT !.wb = 0]]

SetHeader(desc, bootEnable) == [desc EXCEPT !.bootEnable = bootEnable, !.misc = "loader"]

SetWriteBooster(desc, place, units, preserve) ==
    [desc EXCEPT !.wbPreserve = preserve, !.wbType = place,
                 !.wbShared = IF place = "shared" THEN units ELSE @]
-------------------------------------------------------------------------------
(* WriteBooster: where the buffer goes, and what it takes from the capacity. *)

NoBuffer == [place |-> "none", units |-> 0, preserve |-> FALSE, cost |-> 0]

\* Allocation units asked for; a size that is neither a number nor "max" is an error.
RequestedUnits(scheme, dev) ==
    IF scheme.wbSize = "max" THEN dev.wbMax
    ELSE Min({DivCeil(scheme.wbMib * Mib, AllocUnitBytes(dev)), dev.wbMax})

UsesWriteBooster(scheme, dev) ==
    /\ dev.wb /\ dev.wbMax # 0
    /\ ~(scheme.wbSize = "mib" /\ scheme.wbMib = 0)

BufferPlace(scheme, dev) ==
    IF scheme.wbType # "lu" /\ SupportsShared(dev) THEN "shared"
    ELSE IF dev.wbBuffers # 1 /\ dev.wideBlocks THEN "lu"
    ELSE IF SupportsShared(dev) THEN "shared" ELSE "none"

PlanWriteBooster(scheme, dev) ==
    LET requested == RequestedUnits(scheme, dev)
        place == BufferPlace(scheme, dev)
    IN IF ~UsesWriteBooster(scheme, dev) \/ place = "none" THEN NoBuffer
       ELSE [place |-> place, units |-> requested, preserve |-> PreservesUserSpace(dev),
             cost |-> IF PreservesUserSpace(dev) THEN 0
                      ELSE requested * Max({1, dev.wbFactor})]
-------------------------------------------------------------------------------
(* The plan. *)

\* Mutant: an allocation unit that is not filled is not taken.
AllocUnitsForDown(bytes, factor, unitSectors) ==
    (DivCeil(bytes, 512) * factor) \div unitSectors

AllocUnitsFor(bytes, factor, unitSectors) ==
    DivCeil(DivCeil(bytes, 512) * factor, unitSectors)

FixedUnits(dev, member) ==
    IF member.sized
    THEN AllocUnitsFor(member.mib * Mib, CapAdjFac(dev, member.mem), AllocUnitSectors(dev))
    ELSE 0

\* What the buffer and the logical units with a size take.
Used(scheme, dev) ==
    PlanWriteBooster(scheme, dev).cost
    + SumFunction([member \in Members(scheme) |-> FixedUnits(dev, member)])

\* One logical unit takes what is left.
UnitsOf(scheme, dev, member) ==
    IF member.sized THEN FixedUnits(dev, member)
    ELSE TotalAllocUnits(dev) - Used(scheme, dev)

\* Of one memory type, over all logical units that share its ceiling.
Wanted(scheme, dev, mem) ==
    SumFunction([member \in {m \in Members(scheme) : m.mem = mem} |->
                    UnitsOf(scheme, dev, member)])

\* A dedicated buffer only sits on the main logical unit, of normal memory.
BufferUnits(scheme, dev, member) ==
    LET buffer == PlanWriteBooster(scheme, dev)
    IN IF buffer.place = "lu" /\ ~member.sized /\ member.mem = "normal" /\ member.boot = "none"
       THEN buffer.units ELSE 0

PlannedLu(scheme, dev, member) ==
    [enable |-> TRUE, boot |-> member.boot, protect |-> FALSE, mem |-> member.mem,
     units |-> UnitsOf(scheme, dev, member), reliable |-> member.reliable,
     blk |-> member.blk, prov |-> member.prov, wb |-> BufferUnits(scheme, dev, member)]

\* Mutant: the ceiling of a memory type is asked for one logical unit at a time.
FitsEach(scheme, dev) ==
    /\ scheme.wbSize = "other" => ~dev.wb \/ dev.wbMax = 0
    /\ Used(scheme, dev) < TotalAllocUnits(dev)
    /\ \A member \in Members(scheme) :
         /\ member.mem \in dev.supports
         /\ member.sized => CapAdjFac(dev, member.mem) # 0
         /\ UnitsOf(scheme, dev, member) <= MaxAllocUnits(dev, member.mem)
         /\ UnitsOf(scheme, dev, member) <= MaxUnits
         /\ ~member.sized => SizeBytes(dev, PlannedLu(scheme, dev, member)) >= MinTarget

\* Anything else is refused.
Fits(scheme, dev) ==
    /\ scheme.wbSize = "other" => ~dev.wb \/ dev.wbMax = 0
    /\ Used(scheme, dev) < TotalAllocUnits(dev)
    /\ \A member \in Members(scheme) :
         /\ member.mem \in dev.supports
         /\ member.sized => CapAdjFac(dev, member.mem) # 0
         /\ Wanted(scheme, dev, member.mem) <= MaxAllocUnits(dev, member.mem)
         /\ UnitsOf(scheme, dev, member) <= MaxUnits
         /\ ~member.sized => SizeBytes(dev, PlannedLu(scheme, dev, member)) >= MinTarget

PlannedHeader(scheme, dev) ==
    LET buffer == PlanWriteBooster(scheme, dev)
        header == SetHeader(EmptyDescriptor, scheme.bootEnable)
    IN IF buffer.place = "none" THEN header
       ELSE SetWriteBooster(header, buffer.place, buffer.units, buffer.preserve)

\* Built from zero: what the scheme does not claim is gone.
Plan(scheme, dev) ==
    LET At(n) == {member \in Members(scheme) : member.id = n}
        Block(n) == IF At(n) = {} THEN EmptyLu
                    ELSE LET lu == PlannedLu(scheme, dev, CHOOSE member \in At(n) : TRUE)
                         IN SetLu(dev, EmptyDescriptor, n, lu).lu[n]
    IN [desc |-> [PlannedHeader(scheme, dev) EXCEPT !.lu = [n \in Luns |-> Block(n)]],
        attr |-> scheme.active]
-------------------------------------------------------------------------------
(* What a device that is there differs in.  A difference is critical, or only  *)
(* reported; and takes a descriptor write, or bBootLunEn alone.                *)

NoLun == LusPerConfigDesc

Differs(critical, lun, fields, want, have) ==
    {[what |-> f, lun |-> lun, critical |-> critical, write |-> TRUE] :
        f \in {g \in fields : want[g] # have[g]}}

Bootable(plan) == {plan.desc.lu[n].boot : n \in Luns} \ {"none"}

\* Mutant: the device has to boot from the very LU the scheme starts with.
AcceptableOne(plan) == {plan.attr}

\* Either of the pair: every bootloader update moves it.
Acceptable(plan) == IF Bootable(plan) = {} THEN {plan.attr} ELSE Bootable(plan)

\* Mutant: a difference of bBootLunEn counts as one of the descriptor.
AttrDiffsWrite(plan, attr) ==
    IF attr \in Acceptable(plan) THEN {}
    ELSE {[what |-> "attr", lun |-> NoLun, critical |-> TRUE, write |-> TRUE]}

AttrDiffs(plan, attr) ==
    IF attr \in Acceptable(plan) THEN {}
    ELSE {[what |-> "attr", lun |-> NoLun, critical |-> TRUE, write |-> FALSE]}

AboveDiffs(above) ==
    IF above = {} THEN {}
    ELSE {[what |-> "above", lun |-> NoLun, critical |-> TRUE, write |-> TRUE]}

\* A block size is compared as 1u32 << code.
LuDiffs(n, want, have) ==
    IF want.enable # have.enable THEN Differs(TRUE, n, {"enable"}, want, have)
    ELSE IF ~want.enable THEN {}
    ELSE Differs(TRUE, n, {"mem", "boot", "units", "blk"},
                 want, [have EXCEPT !.blk = @ % 32])
         \cup Differs(FALSE, n, {"protect", "reliable", "prov", "wb"}, want, have)

HeaderDiffs(want, have) ==
    Differs(TRUE, NoLun, {"bootEnable"}, want, have)
    \cup Differs(FALSE, NoLun, {"wbType", "wbShared", "wbPreserve", "misc"}, want, have)

Compare(plan, current, attr, above) ==
    HeaderDiffs(plan.desc, current) \cup AttrDiffs(plan, attr) \cup AboveDiffs(above)
    \cup UNION {LuDiffs(n, plan.desc.lu[n], current.lu[n]) : n \in Luns}

Critical(diffs) == {d \in diffs : d.critical}
NeedsWrite(diffs) == \E d \in Critical(diffs) : d.write
IsBlank(current) == \A n \in Luns : ~current.lu[n].enable

\* What the operator is told: what happens to the data, which of LU 0 to 7 change,
\* and that the boot LU is switched.
Prompt(plan, current, diffs) ==
    [told |-> IF IsBlank(current) THEN "creates"
              ELSE IF NeedsWrite(diffs) THEN "erases" ELSE "keeps",
     changes |-> {n \in Luns : /\ plan.desc.lu[n].enable \/ current.lu[n].enable
                               /\ plan.desc.lu[n] # current.lu[n]},
     switches |-> \E d \in Critical(diffs) : ~d.write]
===============================================================================
