------------------------------- MODULE MCInstall -------------------------------
(* Instances of Install for TLC. *)
EXTENDS Install, FiniteSets

CONSTANT desktop

Ufs == [kind |-> "ufs", bare |-> FALSE, lu |-> TRUE]
Card == [kind |-> "sd", bare |-> FALSE, lu |-> FALSE]

CardOnly == {Card}
\* A card that is one filesystem, without a partition table, and what no boot ROM reads.
EveryKind == {Ufs, [Ufs EXCEPT !.lu = FALSE], Card, [Card EXCEPT !.bare = TRUE],
              [Card EXCEPT !.kind = "usb"]}

\* The smallest selection and the largest.
Everything == {"menu", "recovery", "home", desktop}

Plain == [dry |-> FALSE, verify |-> TRUE, want |-> Everything, lacks |-> {},
          digests |-> Artifacts, onTarget |-> {}, unfit |-> {}, archive |-> "none"]

\* A real or dry, verifying or streaming run; where it erases something for a full
\* selection, one thing out of the ordinary at a time.
Ordinary == [dry : BOOLEAN, verify : BOOLEAN, want : {{}, Everything}, lacks : {{}},
             digests : {Artifacts}, onTarget : {{}}, unfit : {{}}, archive : {"none"}]
Peculiar(r) ==
    {[r EXCEPT !.lacks = {p}] : p \in Profiles}
    \cup {[r EXCEPT !.digests = {}], [r EXCEPT !.onTarget = Artifacts]}
    \cup {[r EXCEPT !.unfit = {i}] : i \in Images}
Unpacking(r) == {[r EXCEPT !.archive = w] : w \in {"away", "target"}}
Full == {r \in Ordinary : r.want # {}}
AllRequests ==
    Ordinary \cup UNION {Unpacking(r) : r \in Full}
    \cup UNION {Peculiar(r) : r \in {f \in Full : ~f.dry}}

\* A streaming run off the medium it goes to, which is mounted when it begins.
StreamingOwnMedia == {[Plain EXCEPT !.verify = FALSE, !.onTarget = Artifacts]}
OwnMediaNext == ("media" \in mounts /\ Start) \/ Run \/ Environment
OwnMediaSpec == Init /\ [][OwnMediaNext]_vars
===============================================================================
