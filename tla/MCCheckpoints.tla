---------------------------- MODULE MCCheckpoints ----------------------------
(* CheckpointsMock for TLC: keys of three bits, values of one. *)
EXTENDS CheckpointsMock

BothMocks == {"History", "Trace"}
=============================================================================
