----------------------------- MODULE MCController -----------------------------
(* Instances of Controller for TLC. *)
EXTENDS Controller

CONSTANTS u1, u2, card

Plain == [dry |-> FALSE, check |-> TRUE, reprovision |-> FALSE]
PlainOnly == {Plain}
UnattendedOnly == {[Plain EXCEPT !.reprovision = TRUE]}
===============================================================================
