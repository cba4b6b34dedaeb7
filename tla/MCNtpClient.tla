---------------------------- MODULE MCNtpClient ----------------------------
(* Values a .cfg cannot write down: a clock that starts six ticks behind or *)
(* ahead of the server's, more than a cycle of these runs.                  *)
EXTENDS NtpClient

EitherWay == {-6, 6}
=============================================================================
