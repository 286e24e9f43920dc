----------------------------- MODULE PacketFifo -----------------------------
(***************************************************************************)
(* What utm::pkt_queue promises its callers (corefilters/pkt_queue.h): a   *)
(* bounded first-in first-out buffer of packets.  put_packet either stores *)
(* the packet behind all stored ones or, when MaxPackets are stored,       *)
(* leaves the queue alone; get_packet either takes the oldest packet or    *)
(* leaves the queue alone.  The ring buffer of PacketQueue implements it.  *)
(***************************************************************************)
EXTENDS Naturals, Sequences

CONSTANTS MaxPackets,   \* capacity handed to pkt_queue::init
          Entry         \* a packet together with its pkt_additional_data

VARIABLES stored,       \* the packets in the queue, oldest first
          taken         \* the entry the latest successful get_packet returned,
                        \* in a sequence that is empty before the first one

fifoVars == <<stored, taken>>

Init ==
    /\ stored = <<>>
    /\ taken = <<>>

Enqueue(e) ==
    /\ Len(stored) < MaxPackets
    /\ stored' = Append(stored, e)
    /\ UNCHANGED taken

Dequeue ==
    /\ stored # <<>>
    /\ stored' = Tail(stored)
    /\ taken' = <<Head(stored)>>

Next ==
    \/ \E e \in Entry : Enqueue(e)
    \/ Dequeue

Spec == Init /\ [][Next]_fifoVars
=============================================================================
