---------------------------- MODULE MCLidarRecv ----------------------------
(* Symmetry for the safety runs of LidarRecv: handler threads, coordinates *)
(* and words of a double are alike in every action and safety property.     *)
EXTENDS LidarRecv, TLC

Interchangeable == Permutations(Handlers) \cup Permutations(Halves)
                     \cup Permutations(Position)
=============================================================================
