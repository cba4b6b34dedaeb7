---------------------------- MODULE MCClientLoop ----------------------------
(* Clocks ahead and behind, which a .cfg cannot write down. *)
EXTENDS ClientLoop

AheadOrBehind == {-2, -1, 2}
OneBehind == {-1}
Anything == {-3, 9}
=============================================================================
