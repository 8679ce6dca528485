------------------------------- MODULE MCSources -------------------------------
(* Instances of Sources for TLC. *)
EXTENDS Sources

CONSTANTS nightly, b1, b2, image, rootfs, desktop

\* One bundle offers a profile.
Offer == [x \in {b1, b2, rootfs} |-> IF x = b1 THEN {desktop} ELSE {}]

\* A bucket that keeps what it has, and no local media.
Bucket == [channels |-> {{nightly}}, builds |-> {{b1, b2}}, local |-> {{}}]

\* The image server answers, or is down.
UpOrDown == {{}, {image, rootfs}}

\* The bucket, a bundle and an image.
MayFail == {"builds"} \cup {b2, image}
===============================================================================
