----------------------------- MODULE MCMessagePorts -----------------------------
(* Objects and channels are interchangeable.                               *)
EXTENDS MessagePorts, TLC

Symmetry == Permutations(Objects) \cup Permutations(Channels)
=============================================================================
