------------------------------ MODULE MCProvision ------------------------------
(* Instances of Provisioning for TLC: devices of some 64 MiB, and schemes that   *)
(* are the built-in one in small but for one thing each.                         *)
EXTENDS Provisioning

Lu(id, mem, mib, boot) ==
    [id |-> id, mem |-> mem, sized |-> mib > 0, mib |-> mib, boot |-> boot,
     reliable |-> TRUE, blk |-> 12, prov |-> "thin"]

Small ==
    [bootEnable |-> TRUE, active |-> "A", wbSize |-> "max", wbMib |-> 0, wbType |-> "shared",
     lus |-> <<Lu(0, "normal", 0, "none"), Lu(1, "enhanced1", 2, "A"),
               Lu(2, "enhanced1", 2, "B"), Lu(3, "enhanced1", 5, "none")>>]

SchemeFiles ==
    {Small,
     [Small EXCEPT !.active = "B"],
     [Small EXCEPT !.active = "none"],
     [Small EXCEPT !.bootEnable = FALSE, !.lus[2].boot = "none"],
     [Small EXCEPT !.wbSize = "mib", !.wbMib = 3, !.wbType = "lu"],
     [Small EXCEPT !.wbSize = "mib", !.wbMib = 0],
     [Small EXCEPT !.wbSize = "other"],
     [Small EXCEPT !.lus[1] = Lu(0, "enhanced1", 0, "none"), !.lus[2].mem = "normal"],
     [Small EXCEPT !.lus[1].boot = "A", !.wbType = "lu"],
     [Small EXCEPT !.lus[4].mib = 7],
     [Small EXCEPT !.lus[4].mib = 50, !.lus[4].mem = "normal", !.wbType = "lu"],
     [Small EXCEPT !.lus = <<Lu(7, "normal", 0, "none")>>, !.active = "none"],
     [Small EXCEPT !.lus[2].blk = 14, !.lus[3].prov = "thick"],
     [Small EXCEPT !.lus[3].boot = "none", !.active = "B"],
     [Small EXCEPT !.lus[3].id = 1],
     [Small EXCEPT !.lus[4].sized = FALSE],
     [Small EXCEPT !.lus[4].blk = 0]}

Per(mem, other) == [t \in MemoryTypes \ {"normal"} |-> IF t = "enhanced1" THEN mem ELSE other]

Buffers ==
    {[wb |-> FALSE, wbMax |-> 0, wbFactor |-> 0, wbUserSpace |-> 0, wbBuffers |-> 0, wideBlocks |-> FALSE],
     [wb |-> TRUE, wbMax |-> 8, wbFactor |-> 3, wbUserSpace |-> 2, wbBuffers |-> 2, wideBlocks |-> TRUE],
     [wb |-> TRUE, wbMax |-> 4, wbFactor |-> 3, wbUserSpace |-> 0, wbBuffers |-> 1, wideBlocks |-> TRUE],
     [wb |-> TRUE, wbMax |-> 4, wbFactor |-> 2, wbUserSpace |-> 0, wbBuffers |-> 0, wideBlocks |-> TRUE],
     [wb |-> TRUE, wbMax |-> 8, wbFactor |-> 3, wbUserSpace |-> 1, wbBuffers |-> 0, wideBlocks |-> FALSE]}

Device(raw, segment, factor, ceiling, supports, buffer) ==
    [raw |-> raw, segment |-> segment, unitSegments |-> 2, supports |-> supports,
     factor |-> Per(factor, 0), ceiling |-> Per(ceiling, 0),
     wb |-> buffer.wb, wbMax |-> buffer.wbMax, wbFactor |-> buffer.wbFactor,
     wbUserSpace |-> buffer.wbUserSpace, wbBuffers |-> buffer.wbBuffers,
     wideBlocks |-> buffer.wideBlocks]

SmallDevices ==
    {Device(raw, segment, 768, 29, {"normal", "enhanced1"}, buffer) :
        raw \in {131072, 100000}, segment \in {1024, 1536}, buffer \in Buffers}
    \cup {Device(131072, 1536, factor, ceiling, supports, buffer) :
            factor \in {0, 256, 640, 768}, ceiling \in {18, 64},
            supports \in {{"normal"}, {"normal", "enhanced1"}},
            buffer \in {b \in Buffers : b.wbMax = 8}}

OnBoards(d, s) ==
    /\ s = Small
    /\ d \in {Device(131072, 1024, 768, 29, {"normal", "enhanced1"}, b) :
                b \in {c \in Buffers : c.wideBlocks /\ c.wbMax = 8}}

CloseTo(d, p) ==
    {[p.desc EXCEPT !.lu[0].prov = "thick", !.misc = "factory", !.lu[1].protect = TRUE]}

OtherThan(d, p) ==
    {[EmptyDescriptor EXCEPT !.bootEnable = TRUE,
        !.lu[0] = [p.desc.lu[0] EXCEPT !.enable = TRUE, !.units = TotalAllocUnits(d)]],
     [p.desc EXCEPT !.lu[5] = [p.desc.lu[1] EXCEPT !.enable = TRUE, !.boot = "none"]],
     [p.desc EXCEPT !.bootEnable = FALSE, !.lu[3].units = Max({0, @ - 1})]}
===============================================================================
