---------------------------- MODULE MCLidarSend ----------------------------
(* Symmetry for the safety runs of LidarSend: handler threads are alike in *)
(* every action and safety property.                                       *)
EXTENDS LidarSend, TLC

Interchangeable == Permutations(Handlers)
=============================================================================
