-------------------------- MODULE MCDeviceSessions --------------------------
(* DeviceSessions with interchangeable requests, for its safety run. *)
EXTENDS DeviceSessions, TLC

Symmetry == Permutations(Reqs)

=============================================================================
