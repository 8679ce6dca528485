----------------------------- MODULE BootPromise -----------------------------
(***************************************************************************)
(* What the bootloader update of a UFS target promises, without boot       *)
(* logical units, plans or flags: the image the boot ROM would load moves, *)
(* in one step, from the version it held to the version being installed,   *)
(* and it is lost only in a run that had announced the risk.  Implemented  *)
(* by BootLu.                                                              *)
(***************************************************************************)
CONSTANTS Versions,   \* complete bootloader images
          Dead,       \* what the boot ROM finds when there is no such image
          Risks       \* the ways of losing the image a run may announce

VARIABLES live,       \* the image the boot ROM would load now
          want,       \* the version the current run installs
          risked      \* the risks the current run has announced

pvars == <<live, want, risked>>

Init ==
    /\ live \in Versions \cup {Dead}
    /\ want \in Versions
    /\ risked = {}

\* An operator starts a run that installs some version; what the run knows to
\* be risky is announced before anything happens to the image.
Request ==
    /\ want' \in Versions
    /\ risked' \in SUBSET Risks
    /\ UNCHANGED live

\* The update takes effect: all at once, and only with the requested version.
Commit ==
    /\ live' = want
    /\ UNCHANGED <<want, risked>>

\* Anything may happen to the image once this run has announced a risk.
Gamble ==
    /\ risked \subseteq risked'
    /\ risked' \in (SUBSET Risks) \ {{}}
    /\ live' \in Versions \cup {Dead}
    /\ UNCHANGED want

Next == Request \/ Commit \/ Gamble

Spec == Init /\ [][Next]_pvars
==============================================================================
