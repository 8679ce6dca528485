------------------------------ MODULE MCBootLu ------------------------------
(* Instance of BootLu for TLC: two images, one of which is too big for side B. *)
EXTENDS BootLu

CONSTANTS v1, v2

MCVersions == {v1, v2}
MCImageSize == [v \in MCVersions |-> IF v = v1 THEN 2 ELSE 3]
MCLuSize == [s \in Sides |-> IF s = "A" THEN 4 ELSE 3]
=============================================================================
