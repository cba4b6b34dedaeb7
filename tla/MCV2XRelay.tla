----------------------------- MODULE MCV2XRelay -----------------------------
(* Four clocks apart, which a .cfg cannot write down; TCP_Client2's computer *)
(* may have its clock set back.                                              *)
EXTENDS V2XRelay

Apart == {[pc |-> 2, rsu |-> 5, obu |-> 3, obpc |-> 4]}
Corrected == {<<"obpc", 3>>}
=============================================================================
