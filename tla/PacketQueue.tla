---------------------------- MODULE PacketQueue ----------------------------
(***************************************************************************)
(* utm::pkt_queue (corefilters/pkt_queue.cpp): the ring buffer in which    *)
(* the traffic shaper parks the packets of one filter and one direction.   *)
(*                                                                         *)
(* pktput_counter and pktget_counter are unsigned 64 bit and wrap around;  *)
(* the number of stored packets is their difference, narrowed to unsigned  *)
(* 32 bit.  The two moduli are constants, so that TLC meets both wraps.    *)
(*                                                                         *)
(* put_packet and get_packet run under the mutex "guard" and are single    *)
(* steps, with one exception: ticks_left is a public member which the      *)
(* shaper writes without the mutex (pkt_queue_filterset::set_queue_state), *)
(* so the decrement in get_packet is a load and a store with that write    *)
(* possibly in between.                                                    *)
(***************************************************************************)
EXTENDS Integers, Sequences

CONSTANTS
    Packet,        \* packet contents
    AddData,       \* values of pkt_additional_data (adapter, nic alias)
    NoData,        \* the NULL pointer passed as ppkt_data
    Garbage,       \* what uninitialised memory holds
    MaxPackets,    \* maxpackets given to init
    CounterMod,    \* 2^64, the range of the two counters
    QsizeMod,      \* 2^32, the range of qsize
    MaxTicks,      \* bound on the values the shaper gives ticks_left
    MaxSets        \* bound on the number of set_queue_state calls

ASSUME QueueAssumption ==
    /\ MaxPackets \in Nat \ {0}
    /\ QsizeMod \in Nat
    /\ CounterMod \in Nat
    /\ MaxPackets < QsizeMod
    /\ QsizeMod <= CounterMod
    /\ MaxTicks \in Nat
    /\ MaxSets \in Nat
    /\ NoData \notin AddData
    /\ Garbage \notin Packet

VARIABLES
    pktput_counter,
    pktget_counter,
    current_freeslot,
    data,          \* slot -> packet and additional data stored in it
    ticks_left,
    tick_load,     \* -1, or the ticks_left loaded by the get_packet that holds guard
    sets,          \* number of set_queue_state calls so far
    delivered      \* what the latest successful get_packet copied out

vars == <<pktput_counter, pktget_counter, current_freeslot, data, ticks_left,
          tick_load, sets, delivered>>

Slot == 0 .. MaxPackets - 1

\* What a get_packet caller may see: the packet and its additional data.
Entry == [pkt : Packet, add : AddData \cup {Garbage}]

----------------------------------------------------------------------------
\* pktput_counter - pktget_counter in unsigned 64 bit arithmetic.
CounterDiff ==
    IF pktput_counter >= pktget_counter
      THEN pktput_counter - pktget_counter
      ELSE pktput_counter - pktget_counter + CounterMod

\* static_cast<uint32_t>(pktput_counter - pktget_counter)
Qsize == CounterDiff % QsizeMod

\* pktput_counter++ and pktget_counter++ on unsigned 64 bit.
IncCounter(c) == IF c + 1 = CounterMod THEN 0 ELSE c + 1

\* current_freeslot++ with its wrap to the first slot.
NextSlot(s) == IF s + 1 >= MaxPackets THEN 0 ELSE s + 1

\* Mutant: no reduction into the ring when the window straddles its end.
MutLastPos == IF current_freeslot >= Qsize THEN current_freeslot - Qsize ELSE 0

\* The position of the oldest stored packet.
LastPos == (MaxPackets + current_freeslot - Qsize) % MaxPackets

\* guard is held across the two halves of the ticks_left decrement only.
GuardFree == tick_load = -1

Init ==
    /\ pktput_counter = 0
    /\ pktget_counter = 0
    /\ current_freeslot = 0
    /\ data = [s \in Slot |-> [pkt |-> Garbage, add |-> Garbage]]
    /\ ticks_left = 0
    /\ tick_load = -1
    /\ sets = 0
    /\ delivered = <<>>

----------------------------------------------------------------------------
\* Mutant: qsize > maxpackets where the code has >=.
MutPutStored(p, d) ==
    /\ GuardFree
    /\ Qsize <= MaxPackets
    /\ data' = [data EXCEPT ![current_freeslot] =
                   [pkt |-> p, add |-> IF d = NoData THEN @.add ELSE d]]
    /\ pktput_counter' = IncCounter(pktput_counter)
    /\ current_freeslot' = NextSlot(current_freeslot)
    /\ UNCHANGED <<pktget_counter, ticks_left, tick_load, sets, delivered>>

\* A stored packet.  Without additional data the slot keeps what it held.
PutStored(p, d) ==
    /\ GuardFree
    /\ Qsize < MaxPackets
    /\ data' = [data EXCEPT ![current_freeslot] =
                   [pkt |-> p, add |-> IF d = NoData THEN @.add ELSE d]]
    /\ pktput_counter' = IncCounter(pktput_counter)
    /\ current_freeslot' = NextSlot(current_freeslot)
    /\ UNCHANGED <<pktget_counter, ticks_left, tick_load, sets, delivered>>

\* PKTQUEUE_NOSPACE
PutNoSpace ==
    /\ GuardFree
    /\ Qsize >= MaxPackets
    /\ UNCHANGED vars

GetEmpty ==
    /\ GuardFree
    /\ Qsize = 0
    /\ UNCHANGED vars

\* if (ticks_left > 0) ticks_left--: the load, and the store one step later.
GetTickLoad ==
    /\ GuardFree
    /\ Qsize # 0
    /\ ticks_left > 0
    /\ tick_load' = ticks_left
    /\ UNCHANGED <<pktput_counter, pktget_counter, current_freeslot, data,
                   ticks_left, sets, delivered>>

\* Mutant: the refused poll does not count the tick.
MutGetTickStore ==
    /\ ~ GuardFree
    /\ ticks_left' = tick_load
    /\ tick_load' = -1
    /\ UNCHANGED <<pktput_counter, pktget_counter, current_freeslot, data,
                   sets, delivered>>

GetTickStore ==
    /\ ~ GuardFree
    /\ ticks_left' = tick_load - 1
    /\ tick_load' = -1
    /\ UNCHANGED <<pktput_counter, pktget_counter, current_freeslot, data,
                   sets, delivered>>

GetPacket ==
    /\ GuardFree
    /\ Qsize # 0
    /\ ticks_left <= 0
    /\ delivered' = <<data[LastPos]>>
    /\ pktget_counter' = IncCounter(pktget_counter)
    /\ UNCHANGED <<pktput_counter, current_freeslot, data, ticks_left,
                   tick_load, sets>>

\* The shaper's unlocked write (pkt_queue_filterset::set_queue_state).
SetTicksLeft(t) ==
    /\ sets < MaxSets
    /\ sets' = sets + 1
    /\ ticks_left' = t
    /\ UNCHANGED <<pktput_counter, pktget_counter, current_freeslot, data,
                   tick_load, delivered>>

Put == PutNoSpace \/ \E p \in Packet, d \in AddData \cup {NoData} : PutStored(p, d)

Get == GetEmpty \/ GetTickLoad \/ GetTickStore \/ GetPacket

Next ==
    \/ Put
    \/ Get
    \/ \E t \in 0 .. MaxTicks : SetTicksLeft(t)

Spec == Init /\ [][Next]_vars

\* The shaper thread polls get_packet for ever.
FairSpec == Spec /\ WF_vars(Get)
----------------------------------------------------------------------------
\* The stored packets, oldest first: what the ring stands for.
Contents ==
    [i \in 1 .. Qsize |-> data[(MaxPackets + current_freeslot - Qsize + i - 1) % MaxPackets]]

TypeOK ==
    /\ pktput_counter \in 0 .. CounterMod - 1
    /\ pktget_counter \in 0 .. CounterMod - 1
    /\ current_freeslot \in Slot
    /\ data \in [Slot -> [pkt : Packet \cup {Garbage}, add : AddData \cup {Garbage}]]
    /\ ticks_left \in 0 .. MaxTicks
    /\ tick_load \in {-1} \cup 1 .. MaxTicks
    /\ sets \in 0 .. MaxSets
    /\ delivered \in {<<>>} \cup {<<e>> : e \in Entry}

\* The counters never disagree by more than the ring holds, although both
\* wrap, and every slot of the occupied window holds a packet that put_packet
\* copied there: get_packet never hands out uninitialised packet memory.
RingConsistent ==
    /\ CounterDiff <= MaxPackets
    /\ \A i \in DOMAIN Contents : Contents[i] \in Entry

\* The ring buffer implements the bounded FIFO: whatever the interleaving of
\* put_packet, get_packet and the shaper, packets leave in the order in which
\* they were stored, none twice and none skipped, also across both wraps.
Fifo == INSTANCE PacketFifo WITH stored <- Contents, taken <- delivered
ImplementsFifo == Fifo!Spec

\* The shaper can delay a packet but not park it: a polled queue that holds
\* packets eventually delivers one, because each refused poll counts a tick
\* down and the number of times ticks_left is set is bounded.
EventuallyDelivers ==
    \A c \in 0 .. CounterMod - 1 :
        (pktget_counter = c /\ Qsize # 0) ~> pktget_counter # c
=============================================================================
