-------------------------- MODULE MCPacketQueueSet --------------------------
(* Instance of PacketQueueSet: one packet thread with orderly reloads, or two *)
(* packet threads with reloads at any time.                                   *)
EXTENDS PacketQueueSet

CONSTANTS t1, t2

\* Filters come, go and change places.
MCWorld ==
    {[sets |-> {<<1>>, <<2>>, <<1, 2>>, <<2, 1>>, <<>>},
      quiesced |-> TRUE, threads |-> 1, containers |-> 4],
     [sets |-> {<<1>>, <<2, 1>>}, quiesced |-> FALSE, threads |-> 2, containers |-> 2]}
Symmetry == Permutations(Putter)
=============================================================================
