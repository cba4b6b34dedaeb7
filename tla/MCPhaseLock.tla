---------------------------- MODULE MCPhaseLock ----------------------------
(* Values a .cfg cannot write down: oscillators that are slow and fast, one *)
(* of them run at a frequency beyond MAX_CORRECT so far; answers that err   *)
(* by half the error bar, early and late, and one whose bar is negative.    *)
EXTENDS PhaseLock

SlowOrFast == {[drift |-> -3, freq |-> 0], [drift |-> 2, freq |-> 5]}
RightOrWrong == {<<-1, 2>>, <<1, 2>>, <<3, -2>>}
=============================================================================
