------------------------------ MODULE Provisioning ------------------------------
(***************************************************************************)
(* Provision with the descriptors of ProvisionPlan: a device with a        *)
(* geometry, a scheme file, the plan both lead to, and a descriptor for    *)
(* every shape of which Provision only says how far it is from the scheme. *)
(* A device that cannot take the scheme is never asked about (probe        *)
(* returns the error of plan), and left out.                               *)
(***************************************************************************)
EXTENDS Provision, ProvisionPlan

CONSTANTS
    Devices, Files, BuiltIn,    \* geometries, scheme files, the compiled-in scheme
    Followed(_, _),             \* whether attempts on a device are followed, or ...
    Close(_, _), Other(_, _)    \* descriptors near the scheme's, and other ones

ASSUME ProvisioningAssumption ==
    /\ \A dev \in Devices :
         /\ Parsed(dev) /\ dev.wbMax \in Nat /\ dev.wbFactor \in Nat
         /\ {dev.factor, dev.ceiling} \subseteq [MemoryTypes \ {"normal"} -> Nat]
    /\ \A file \in Files \cup {BuiltIn} :
         /\ \A member \in Members(file) : member.sized => member.mib \in Nat
         /\ file.wbSize \in {"max", "mib", "other"} /\ (file.wbSize = "mib" => file.wbMib \in Nat)
    /\ Valid(BuiltIn)

\* What a device holds: block sizes of less than 2^32 bytes, and no allocation units
\* in a logical unit that is off.
HeldLu(lu) ==
    /\ DOMAIN lu = DOMAIN EmptyLu /\ lu.enable \in BOOLEAN /\ lu.blk \in 0..31
    /\ ~lu.enable => lu.units = 0

Held(desc) == \A n \in Luns : HeldLu(desc.lu[n])

\* The same logical unit as far as the device is divided; and that for all of them.
SameLu(lu, other) ==
    /\ lu.enable = other.enable
    /\ lu.enable => /\ lu.mem = other.mem /\ lu.boot = other.boot
                    /\ lu.units = other.units /\ lu.blk = other.blk

DividedAlike(desc, other) ==
    /\ desc.bootEnable = other.bootEnable
    /\ \A n \in Luns : SameLu(desc.lu[n], other.lu[n])

\* Close to a plan is what divides a device as it does, other what divides it at all.
ASSUME DescriptorAssumption ==
    \A dev \in Devices : \A s \in Files \cup {BuiltIn} :
        Valid(s) /\ Fits(s, dev) =>
            LET p == Plan(s, dev)
            IN /\ \A d \in Close(dev, p) : Held(d) /\ DividedAlike(p.desc, d)
               /\ \A d \in Other(dev, p) :
                    Held(d) /\ ~DividedAlike(p.desc, d) /\ ~IsBlank(d)

VARIABLES
    unit, scheme,  \* the device's geometry; the scheme in use
    plan,          \* what plan() makes of the two
    descriptor     \* of every shape

chosen == <<unit, scheme, plan, descriptor>>

\* ... only one that is provisioned already is looked at.
ProvisioningInit ==
    /\ unit \in Devices
    /\ \E file \in Files : scheme = Resolve(file, BuiltIn)
    /\ Fits(scheme, unit) /\ plan = Plan(scheme, unit)
    /\ \E close \in Close(unit, plan), other \in Other(unit, plan) :
         descriptor = [scheme |-> plan.desc, close |-> close, other |-> other,
                       blank |-> EmptyDescriptor]
    /\ Init
    /\ \/ Followed(unit, scheme)
       \/ dry /\ inForce = [main |-> "scheme", above |-> {}] /\ attr = plan.attr

ProvisioningNext == Next /\ UNCHANGED chosen

ProvisioningSpec ==
    /\ ProvisioningInit /\ [][ProvisioningNext]_<<vars, chosen>>
    /\ WF_vars(Attempt) /\ WF_vars(Initialise) /\ WF_vars(Release)
    /\ WF_vars(Ask) /\ SF_vars(Confirm)
-------------------------------------------------------------------------------
\* What a device accepts (JESD220C): its capacity, the ceiling of each memory type
\* and the rules for a WriteBooster buffer, over all logical units together.
DeviceTakes(dev, desc) ==
    LET Lus(mems) == {n \in Luns : desc.lu[n].enable /\ desc.lu[n].mem \in mems}
        Units(mems) == SumFunction([n \in Lus(mems) |-> desc.lu[n].units])
        own == {n \in Luns : desc.lu[n].wb # 0}
        buffer == desc.wbShared + SumFunction([n \in own |-> desc.lu[n].wb])
    IN /\ Units(MemoryTypes) + (IF desc.wbPreserve THEN 0 ELSE buffer * dev.wbFactor)
            <= TotalAllocUnits(dev)
       /\ \A mem \in MemoryTypes \ {"normal"} : Units({mem}) <= dev.ceiling[mem]
       /\ \A n \in Luns : desc.lu[n].enable => desc.lu[n].mem \in dev.supports
       /\ buffer <= dev.wbMax /\ (buffer # 0 => dev.wb)
       /\ desc.wbShared # 0 => SupportsShared(dev) /\ own = {}
       /\ own # {} => dev.wbBuffers # 1 /\ Cardinality(own) = 1
       /\ \A n \in own : desc.lu[n].mem = "normal" /\ desc.lu[n].boot = "none"

\* A plan that is not refused is one the device can take: never more allocation
\* units than it has or allows for a memory type, counted over all logical units
\* and the WriteBooster buffer (provision.rs:309-476).
PlanFits == DeviceTakes(unit, plan.desc)

\* The usable size the device makes of a logical unit, by the factor it publishes.
UsableSectors(dev, mem, units) ==
    IF mem = "normal" THEN units * AllocUnitSectors(dev)
    ELSE (units * AllocUnitSectors(dev) * 256) \div dev.factor[mem]

\* There is a factor, and cap_adj_fac drops no fraction of it (ufs.rs:963).
WholeFactor(dev, mem) == mem # "normal" => dev.factor[mem] # 0 /\ dev.factor[mem] % 256 = 0

\* The logical unit holds this many sectors, and one allocation unit less would not.
HoldsJust(dev, lu, sectors) ==
    /\ UsableSectors(dev, lu.mem, lu.units) >= sectors
    /\ lu.units > 0 => UsableSectors(dev, lu.mem, lu.units - 1) < sectors

SizedKept ==
    \A member \in Members(scheme) :
        member.sized /\ WholeFactor(unit, member.mem) =>
            HoldsJust(unit, plan.desc.lu[member.id], member.mib * (Mib \div 512))

RestSuffices ==
    \A member \in Members(scheme) :
        LET lu == plan.desc.lu[member.id]
        IN ~member.sized /\ WholeFactor(unit, member.mem) =>
              UsableSectors(unit, lu.mem, lu.units) * 512 >= MinTarget

\* On the device every logical unit has the size the scheme gives it, rounded up by
\* less than one allocation unit, and the one without a size is large enough for an
\* install (provision.rs:301, 426); if the device publishes whole factors.
SizesKept == SizedKept /\ RestSuffices

\* A device that took the plan compares as the scheme with nothing even to report,
\* whichever boot LU an update of the bootloader has moved it to since, so that it
\* is not reprovisioned again; except by a scheme that flags boot LUs and selects
\* none, which compare never accepts (provision.rs:885).
ReadsBack ==
    plan.attr # "none" \/ Bootable(plan) = {} =>
        \A boot \in Bootable(plan) \cup {plan.attr} :
            Compare(plan, plan.desc, boot, {}) = {}

ByClass(r) ==
    LET current == descriptor[r.main]
        diffs == Compare(plan, current, r.attr, r.above)
        prompt == Prompt(plan, current, diffs)
    IN /\ NeedsWrite(diffs) = NeedsDescriptorWrite(r)
       /\ (Critical(diffs) = {}) = IsProvisioned(r)
       /\ prompt.told = Announced(r)
       /\ prompt.switches = (r.attr = "none")
       /\ {n \in Luns : plan.desc.lu[n].units # current.lu[n].units} \subseteq prompt.changes

\* compare and prompt_lines say of every state an attempt can leave a device in, and
\* of whatever part of it a probe reports, what the attempt goes by: whether it is
\* provisioned, whether data will be lost, which logical units change, and that
\* nothing is erased for a switch of the boot LU.
ComparedByClass ==
    Bootable(plan) = {"A", "B"} =>
        \A skipped \in SUBSET Reported.above : ByClass(Seen(skipped))
===============================================================================
