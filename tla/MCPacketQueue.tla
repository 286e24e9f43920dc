--------------------------- MODULE MCPacketQueue ---------------------------
(* Instance of PacketQueue small enough that the counters wrap several times. *)
EXTENDS PacketQueue

CONSTANTS p1, p2, eth0
=============================================================================
