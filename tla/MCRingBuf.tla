----------------------------- MODULE MCRingBuf -----------------------------
(* Two small ring buffers of different sizes.                              *)
EXTENDS RingBuf

CONSTANTS small, large

MCBuffers == {small, large}
MCCapacity == [b \in MCBuffers |-> IF b = small THEN 1 ELSE 2]
=============================================================================
