------------------------- MODULE PacketQueueProofs -------------------------
(***************************************************************************)
(* Proofs about utm::pkt_queue for every capacity, every width of the      *)
(* counters and every set of packets.                                      *)
(***************************************************************************)
EXTENDS PacketQueue, TLAPS

----------------------------------------------------------------------------
(* Arithmetic of the ring. *)

\* A number below the modulus is its own remainder: narrowing loses nothing.
LEMMA ModSmall ==
    ASSUME NEW m \in Nat \ {0}, NEW x \in 0 .. m - 1
    PROVE  x % m = x
  BY SMT

\* One turn of the ring is subtracted by the remainder.
LEMMA ModOnce ==
    ASSUME NEW m \in Nat \ {0}, NEW x \in m .. 2 * m - 1
    PROVE  x % m = x - m
  BY SMT

\* Slot of the i-th oldest of n stored packets when f is the next free slot.
Pos(f, n, i) == (MaxPackets + f - n + i - 1) % MaxPackets

LEMMA PosValue ==
    ASSUME NEW f \in Slot, NEW n \in 0 .. MaxPackets, NEW i \in 1 .. n
    PROVE  /\ f - n + i - 1 >= 0 => Pos(f, n, i) = f - n + i - 1
           /\ f - n + i - 1 < 0 => Pos(f, n, i) = MaxPackets + f - n + i - 1
           /\ Pos(f, n, i) \in Slot
  <1> DEFINE x == MaxPackets + f - n + i - 1
  <1>1. x \in Int /\ MaxPackets \in Nat \ {0}
    BY QueueAssumption DEF Slot
  <1>2. CASE f - n + i - 1 >= 0
    <2>1. x \in MaxPackets .. 2 * MaxPackets - 1
      BY <1>2, QueueAssumption DEF Slot
    <2>2. x % MaxPackets = x - MaxPackets
      BY <2>1, <1>1, ModOnce
    <2> QED BY <1>2, <2>1, <2>2, QueueAssumption DEF Pos, Slot
  <1>3. CASE f - n + i - 1 < 0
    <2>1. x \in 0 .. MaxPackets - 1
      BY <1>3, QueueAssumption DEF Slot
    <2>2. x % MaxPackets = x
      BY <2>1, <1>1, ModSmall
    <2> QED BY <1>3, <2>1, <2>2, QueueAssumption DEF Pos, Slot
  <1> QED BY <1>2, <1>3, QueueAssumption DEF Slot

\* Storing one more packet moves no stored packet, takes the free slot for the
\* new one, and the free slot was not in use.
LEMMA PosPut ==
    ASSUME NEW f \in Slot, NEW n \in 0 .. MaxPackets - 1
    PROVE  /\ NextSlot(f) \in Slot
           /\ Pos(NextSlot(f), n + 1, n + 1) = f
           /\ \A i \in 1 .. n : /\ Pos(NextSlot(f), n + 1, i) = Pos(f, n, i)
                                /\ Pos(f, n, i) # f
  <1>1. NextSlot(f) \in Slot
    BY QueueAssumption DEF NextSlot, Slot
  <1>2. Pos(NextSlot(f), n + 1, n + 1) = f
    <2>1. n + 1 \in 0 .. MaxPackets /\ n + 1 \in 1 .. n + 1
      BY QueueAssumption
    <2>2. /\ NextSlot(f) - (n + 1) + (n + 1) - 1 >= 0
             => Pos(NextSlot(f), n + 1, n + 1) = NextSlot(f) - (n + 1) + (n + 1) - 1
          /\ NextSlot(f) - (n + 1) + (n + 1) - 1 < 0
             => Pos(NextSlot(f), n + 1, n + 1) = MaxPackets + NextSlot(f) - (n + 1) + (n + 1) - 1
      BY <2>1, <1>1, PosValue
    <2> QED BY <2>2, <1>1, QueueAssumption DEF NextSlot, Slot
  <1>3. ASSUME NEW i \in 1 .. n
        PROVE  /\ Pos(NextSlot(f), n + 1, i) = Pos(f, n, i)
               /\ Pos(f, n, i) # f
    <2>1. n + 1 \in 0 .. MaxPackets /\ i \in 1 .. n + 1 /\ n \in 0 .. MaxPackets
      BY QueueAssumption
    <2>2. /\ NextSlot(f) - (n + 1) + i - 1 >= 0
             => Pos(NextSlot(f), n + 1, i) = NextSlot(f) - (n + 1) + i - 1
          /\ NextSlot(f) - (n + 1) + i - 1 < 0
             => Pos(NextSlot(f), n + 1, i) = MaxPackets + NextSlot(f) - (n + 1) + i - 1
      BY <2>1, <1>1, PosValue
    <2>3. /\ f - n + i - 1 >= 0 => Pos(f, n, i) = f - n + i - 1
          /\ f - n + i - 1 < 0 => Pos(f, n, i) = MaxPackets + f - n + i - 1
      BY <2>1, PosValue
    <2> QED BY <2>2, <2>3, <1>1, QueueAssumption DEF NextSlot, Slot
  <1> QED BY <1>1, <1>2, <1>3

\* Taking the oldest packet moves no other: the second oldest becomes the oldest.
LEMMA PosGet ==
    ASSUME NEW f \in Slot, NEW n \in 1 .. MaxPackets, NEW i \in 1 .. n - 1
    PROVE  Pos(f, n - 1, i) = Pos(f, n, i + 1)
  <1>1. MaxPackets + f - (n - 1) + i - 1 = MaxPackets + f - n + (i + 1) - 1
    BY QueueAssumption DEF Slot
  <1> QED BY <1>1 DEF Pos
----------------------------------------------------------------------------
(* Arithmetic of the counters. *)

\* While the ring is not overfilled, narrowing the difference to 32 bit is exact.
LEMMA QsizeExact ==
    ASSUME TypeOK, CounterDiff <= MaxPackets
    PROVE  Qsize = CounterDiff /\ Qsize \in 0 .. MaxPackets
  <1>1. CounterDiff \in 0 .. QsizeMod - 1 /\ QsizeMod \in Nat \ {0}
    BY QueueAssumption DEF TypeOK, CounterDiff
  <1>2. CounterDiff % QsizeMod = CounterDiff
    BY <1>1, ModSmall
  <1> QED BY <1>1, <1>2, QueueAssumption DEF Qsize

\* Both counters wrap, and their unsigned difference still counts the packets.
LEMMA DiffPut ==
    ASSUME TypeOK, CounterDiff < MaxPackets,
           pktput_counter' = IncCounter(pktput_counter),
           pktget_counter' = pktget_counter
    PROVE  CounterDiff' = CounterDiff + 1 /\ pktput_counter' \in 0 .. CounterMod - 1
  BY QueueAssumption DEF TypeOK, CounterDiff, IncCounter

LEMMA DiffGet ==
    ASSUME TypeOK, CounterDiff # 0,
           pktget_counter' = IncCounter(pktget_counter),
           pktput_counter' = pktput_counter
    PROVE  CounterDiff' = CounterDiff - 1 /\ pktget_counter' \in 0 .. CounterMod - 1
  BY QueueAssumption DEF TypeOK, CounterDiff, IncCounter
----------------------------------------------------------------------------
(* What the two operations do to the queue the ring stands for. *)

\* A sequence is the function of its elements.
LEMMA SeqIsFunction ==
    ASSUME NEW S, NEW s \in Seq(S)
    PROVE  s = [i \in 1 .. Len(s) |-> s[i]]
  <1>1. \A T : \A n \in Nat : \A q \in [1 .. n -> T] : q = [i \in 1 .. n |-> q[i]]
    OBVIOUS
  <1>2. Len(s) \in Nat /\ s \in [1 .. Len(s) -> S]
    OBVIOUS
  <1> QED BY <1>1, <1>2

IInv == TypeOK /\ RingConsistent

LEMMA ContentsByPos ==
    Contents = [i \in 1 .. Qsize |-> data[Pos(current_freeslot, Qsize, i)]]
  BY DEF Contents, Pos

\* An occupied window of entries is a sequence of entries.
LEMMA ContentsSeq ==
    ASSUME IInv
    PROVE  Contents \in Seq(Entry) /\ Len(Contents) = Qsize
  <1>1. Qsize \in 0 .. MaxPackets
    BY QsizeExact DEF IInv, RingConsistent
  <1>2. DOMAIN Contents = 1 .. Qsize
    BY DEF Contents
  <1>3. \A i \in 1 .. Qsize : Contents[i] \in Entry
    BY <1>2 DEF IInv, RingConsistent
  <1>4. Contents = [i \in 1 .. Qsize |-> Contents[i]]
    BY DEF Contents
  <1>5. Contents \in [1 .. Qsize -> Entry]
    BY <1>3, <1>4
  <1> QED BY <1>1, <1>5

\* The entry a storing put_packet leaves in the free slot.
NewEntry(p, d) ==
    [pkt |-> p, add |-> IF d = NoData THEN data[current_freeslot].add ELSE d]

LEMMA PutAppends ==
    ASSUME IInv, NEW p \in Packet, NEW d \in AddData \cup {NoData}, PutStored(p, d)
    PROVE  /\ TypeOK'
           /\ CounterDiff' <= MaxPackets
           /\ NewEntry(p, d) \in Entry
           /\ Contents' = Append(Contents, NewEntry(p, d))
  <1> DEFINE n == Qsize
             f == current_freeslot
  <1>1. TypeOK /\ CounterDiff <= MaxPackets /\ f \in Slot
    BY DEF IInv, RingConsistent, TypeOK
  <1>2. n = CounterDiff /\ n \in 0 .. MaxPackets - 1
    BY <1>1, QsizeExact, QueueAssumption DEF PutStored
  <1>3. CounterDiff' = CounterDiff + 1 /\ pktput_counter' \in 0 .. CounterMod - 1
    BY <1>1, <1>2, DiffPut DEF PutStored
  <1>4. f' = NextSlot(f) /\ NextSlot(f) \in Slot
    BY <1>1, <1>2, PosPut DEF PutStored
  <1>5. NewEntry(p, d) \in Entry
    BY <1>1 DEF TypeOK, NewEntry, Entry
  <1>6. data' = [data EXCEPT ![f] = NewEntry(p, d)]
    BY DEF PutStored, NewEntry
  <1>7. TypeOK'
    <2>1. data' \in [Slot -> [pkt : Packet \cup {Garbage}, add : AddData \cup {Garbage}]]
      BY <1>1, <1>5, <1>6 DEF TypeOK, Entry
    <2> QED BY <1>1, <1>3, <1>4, <2>1 DEF PutStored, TypeOK
  <1>8. CounterDiff' <= MaxPackets
    BY <1>2, <1>3, QueueAssumption
  <1>9. Qsize' = n + 1
    <2>1. n + 1 \in 0 .. QsizeMod - 1 /\ QsizeMod \in Nat \ {0}
      BY <1>2, QueueAssumption
    <2>2. (n + 1) % QsizeMod = n + 1
      BY <2>1, ModSmall
    <2>3. Qsize' = CounterDiff' % QsizeMod
      BY DEF Qsize
    <2> QED BY <2>2, <2>3, <1>2, <1>3
  <1>10. Contents' = [i \in 1 .. n + 1 |-> data'[Pos(NextSlot(f), n + 1, i)]]
    BY <1>4, <1>9 DEF Contents, Pos
  <1>11. \A i \in 1 .. n : data'[Pos(NextSlot(f), n + 1, i)] = data[Pos(f, n, i)]
    <2> SUFFICES ASSUME NEW i \in 1 .. n
                 PROVE  data'[Pos(NextSlot(f), n + 1, i)] = data[Pos(f, n, i)]
      OBVIOUS
    <2>1. Pos(NextSlot(f), n + 1, i) = Pos(f, n, i) /\ Pos(f, n, i) # f
      BY <1>1, <1>2, PosPut
    <2>2. n \in 0 .. MaxPackets
      BY <1>2, QueueAssumption
    <2>3. Pos(f, n, i) \in Slot
      BY <1>1, <2>2, PosValue
    <2> QED BY <1>1, <1>6, <2>1, <2>3 DEF TypeOK
  <1>12. data'[Pos(NextSlot(f), n + 1, n + 1)] = NewEntry(p, d)
    <2>1. Pos(NextSlot(f), n + 1, n + 1) = f
      BY <1>1, <1>2, PosPut
    <2> QED BY <1>1, <1>6, <2>1 DEF TypeOK
  <1>13. Contents \in Seq(Entry) /\ Len(Contents) = n
    BY ContentsSeq
  <1>14. \A i \in 1 .. n : Contents[i] = data[Pos(f, n, i)]
    BY ContentsByPos
  <1>15. Contents' = Append(Contents, NewEntry(p, d))
    <2> DEFINE t == Append(Contents, NewEntry(p, d))
               g(i) == data'[Pos(NextSlot(f), n + 1, i)]
    <2>1. t \in Seq(Entry) /\ Len(t) = n + 1
      BY <1>5, <1>13
    <2>2. t[n + 1] = NewEntry(p, d) /\ \A i \in 1 .. n : t[i] = Contents[i]
      BY <1>2, <1>5, <1>13
    <2>3. \A i \in 1 .. n + 1 : i \in 1 .. n \/ i = n + 1
      BY <1>2
    <2>4. \A i \in 1 .. n + 1 : t[i] = g(i)
      BY <2>2, <2>3, <1>11, <1>12, <1>14
    <2>5. t = [i \in 1 .. n + 1 |-> t[i]]
      BY <2>1, SeqIsFunction
    <2> HIDE DEF t, g
    <2>6. t = [i \in 1 .. n + 1 |-> g(i)]
      BY <2>4, <2>5
    <2> QED BY <2>6, <1>10 DEF t, g
  <1> QED BY <1>5, <1>7, <1>8, <1>15

LEMMA GetRemovesOldest ==
    ASSUME IInv, GetPacket
    PROVE  /\ TypeOK'
           /\ CounterDiff' <= MaxPackets
           /\ Contents # <<>>
           /\ Contents' = Tail(Contents)
           /\ delivered' = <<Head(Contents)>>
  <1> DEFINE n == Qsize
             f == current_freeslot
  <1>1. TypeOK /\ CounterDiff <= MaxPackets /\ f \in Slot
    BY DEF IInv, RingConsistent, TypeOK
  <1>2. n = CounterDiff /\ n \in 1 .. MaxPackets
    BY <1>1, QsizeExact, QueueAssumption DEF GetPacket
  <1>3. CounterDiff' = CounterDiff - 1 /\ pktget_counter' \in 0 .. CounterMod - 1
    BY <1>1, <1>2, DiffGet DEF GetPacket
  <1>4. Contents \in Seq(Entry) /\ Len(Contents) = n
    BY ContentsSeq
  <1>5. \A i \in 1 .. n : Contents[i] = data[Pos(f, n, i)]
    BY ContentsByPos
  <1>6. delivered' = <<Head(Contents)>>
    <2>1. LastPos = Pos(f, n, 1)
      <3>1. MaxPackets + f - n = MaxPackets + f - n + 1 - 1
        BY <1>1, <1>2, QueueAssumption DEF Slot
      <3> QED BY <3>1 DEF LastPos, Pos
    <2>2. Head(Contents) = Contents[1]
      BY <1>2, <1>4
    <2> QED BY <1>2, <1>5, <2>1, <2>2 DEF GetPacket
  <1>7. Head(Contents) \in Entry /\ Contents # <<>>
    BY <1>2, <1>4
  <1>8. TypeOK'
    BY <1>1, <1>3, <1>6, <1>7 DEF TypeOK, GetPacket
  <1>9. CounterDiff' <= MaxPackets
    BY <1>2, <1>3, QueueAssumption
  <1>10. Qsize' = n - 1
    <2>1. n - 1 \in 0 .. QsizeMod - 1 /\ QsizeMod \in Nat \ {0}
      BY <1>2, QueueAssumption
    <2>2. (n - 1) % QsizeMod = n - 1
      BY <2>1, ModSmall
    <2>3. Qsize' = CounterDiff' % QsizeMod
      BY DEF Qsize
    <2> QED BY <2>2, <2>3, <1>2, <1>3
  <1>11. Contents' = [i \in 1 .. n - 1 |-> data[Pos(f, n - 1, i)]]
    BY <1>10 DEF Contents, Pos, GetPacket
  <1>12. \A i \in 1 .. n - 1 : data[Pos(f, n - 1, i)] = Contents[i + 1]
    <2> SUFFICES ASSUME NEW i \in 1 .. n - 1
                 PROVE  data[Pos(f, n - 1, i)] = Contents[i + 1]
      OBVIOUS
    <2>1. Pos(f, n - 1, i) = Pos(f, n, i + 1)
      BY <1>1, <1>2, PosGet
    <2>2. i + 1 \in 1 .. n
      BY <1>2
    <2> QED BY <1>5, <2>1, <2>2
  <1>13. Contents' = Tail(Contents)
    <2> DEFINE t == Tail(Contents)
               g(i) == data[Pos(f, n - 1, i)]
    <2>1. t \in Seq(Entry) /\ Len(t) = n - 1
      BY <1>4, <1>7
    <2>2. \A i \in 1 .. n - 1 : t[i] = Contents[i + 1]
      BY <1>2, <1>4, <1>7
    <2>3. \A i \in 1 .. n - 1 : t[i] = g(i)
      BY <2>2, <1>12
    <2>4. t = [i \in 1 .. n - 1 |-> t[i]]
      BY <2>1, SeqIsFunction
    <2> HIDE DEF t, g
    <2>5. t = [i \in 1 .. n - 1 |-> g(i)]
      BY <2>3, <2>4
    <2> QED BY <2>5, <1>11 DEF t, g
  <1> QED BY <1>6, <1>7, <1>8, <1>9, <1>13
----------------------------------------------------------------------------
(* The theorems. *)

\* A step that leaves the ring alone leaves its contents alone.
LEMMA RingUnchanged ==
    ASSUME IInv,
           UNCHANGED <<pktput_counter, pktget_counter, current_freeslot, data>>
    PROVE  CounterDiff' = CounterDiff /\ Contents' = Contents
  BY DEF CounterDiff, Contents, Qsize

\* IInv holds initially: the empty ring has no occupied slot.
LEMMA InitIInv == Init => IInv
  <1> SUFFICES ASSUME Init PROVE IInv
    OBVIOUS
  <1>1. TypeOK
    BY QueueAssumption DEF Init, TypeOK, Slot
  <1>2. CounterDiff = 0
    BY DEF Init, CounterDiff
  <1>3. Qsize = 0
    BY <1>1, <1>2, QsizeExact, QueueAssumption
  <1>4. DOMAIN Contents = {}
    BY <1>3 DEF Contents
  <1> QED BY <1>1, <1>2, <1>4, QueueAssumption DEF IInv, RingConsistent

\* Each step is one of the FIFO's or leaves the FIFO alone, and keeps IInv.
LEMMA StepRefines ==
    ASSUME IInv, [Next]_vars
    PROVE  IInv' /\ [Fifo!Next]_(Fifo!fifoVars)
  <1>1. Len(Contents) = Qsize /\ Contents \in Seq(Entry)
    BY ContentsSeq
  <1>2. ASSUME NEW p \in Packet, NEW d \in AddData \cup {NoData}, PutStored(p, d)
        PROVE  IInv' /\ [Fifo!Next]_(Fifo!fifoVars)
    <2>1. /\ TypeOK'
          /\ CounterDiff' <= MaxPackets
          /\ NewEntry(p, d) \in Entry
          /\ Contents' = Append(Contents, NewEntry(p, d))
      BY <1>2, PutAppends
    <2>2. Contents' \in Seq(Entry)
      BY <1>1, <2>1
    <2>3. \A i \in DOMAIN Contents' : Contents'[i] \in Entry
      BY <2>2
    <2>4. Fifo!Enqueue(NewEntry(p, d))
      BY <1>1, <1>2, <2>1 DEF Fifo!Enqueue, PutStored
    <2> QED BY <2>1, <2>3, <2>4 DEF IInv, RingConsistent, Fifo!Next
  <1>3. ASSUME GetPacket
        PROVE  IInv' /\ [Fifo!Next]_(Fifo!fifoVars)
    <2>1. /\ TypeOK'
          /\ CounterDiff' <= MaxPackets
          /\ Contents # <<>>
          /\ Contents' = Tail(Contents)
          /\ delivered' = <<Head(Contents)>>
      BY <1>3, GetRemovesOldest
    <2>2. Contents' \in Seq(Entry)
      BY <1>1, <2>1
    <2>3. \A i \in DOMAIN Contents' : Contents'[i] \in Entry
      BY <2>2
    <2> QED BY <2>1, <2>3 DEF IInv, RingConsistent, Fifo!Next, Fifo!Dequeue
  <1>4. ASSUME UNCHANGED <<pktput_counter, pktget_counter, current_freeslot, data,
                           delivered>>,
               TypeOK'
        PROVE  IInv' /\ [Fifo!Next]_(Fifo!fifoVars)
    <2>1. CounterDiff' = CounterDiff /\ Contents' = Contents
      BY <1>4, RingUnchanged
    <2> QED BY <1>4, <2>1 DEF IInv, RingConsistent, Fifo!fifoVars
  <1>5. CASE UNCHANGED vars
    BY <1>4, <1>5 DEF vars, IInv, TypeOK
  <1>6. CASE PutNoSpace \/ GetEmpty
    BY <1>5, <1>6 DEF PutNoSpace, GetEmpty
  <1>7. CASE GetTickLoad
    <2>1. TypeOK'
      BY <1>7, QueueAssumption DEF GetTickLoad, IInv, TypeOK
    <2> QED BY <1>4, <1>7, <2>1 DEF GetTickLoad
  <1>8. CASE GetTickStore
    <2>1. TypeOK'
      BY <1>8, QueueAssumption DEF GetTickStore, GuardFree, IInv, TypeOK
    <2> QED BY <1>4, <1>8, <2>1 DEF GetTickStore
  <1>9. ASSUME NEW t \in 0 .. MaxTicks, SetTicksLeft(t)
        PROVE  IInv' /\ [Fifo!Next]_(Fifo!fifoVars)
    <2>1. TypeOK'
      BY <1>9, QueueAssumption DEF SetTicksLeft, IInv, TypeOK
    <2> QED BY <1>4, <1>9, <2>1 DEF SetTicksLeft
  <1> QED BY <1>2, <1>3, <1>5, <1>6, <1>7, <1>8, <1>9 DEF Next, Put, Get

\* pkt_queue's members stay in their ranges, and ticks_left never runs below
\* zero although it is decremented while the shaper writes it.
THEOREM QueueTypeCorrect == Spec => []TypeOK
  <1>1. IInv => TypeOK
    BY DEF IInv
  <1>2. IInv /\ [Next]_vars => IInv'
    BY StepRefines
  <1> QED BY InitIInv, <1>1, <1>2, PTL DEF Spec

\* put_packet never overfills the ring and get_packet never hands out memory
\* no put_packet filled, for every capacity and every width of the counters.
THEOREM QueueRingConsistent == Spec => []RingConsistent
  <1>1. IInv => RingConsistent
    BY DEF IInv
  <1>2. IInv /\ [Next]_vars => IInv'
    BY StepRefines
  <1> QED BY InitIInv, <1>1, <1>2, PTL DEF Spec

\* pkt_queue is a bounded first-in first-out buffer.
THEOREM QueueImplementsFifo == Spec => ImplementsFifo
  <1>1. Init => Fifo!Init
    <2> SUFFICES ASSUME Init PROVE Fifo!Init
      OBVIOUS
    <2>1. CounterDiff = 0 /\ IInv
      BY InitIInv DEF Init, CounterDiff
    <2>2. Len(Contents) = 0 /\ Contents \in Seq(Entry)
      BY <2>1, ContentsSeq, QsizeExact DEF IInv, RingConsistent
    <2>3. Contents = <<>>
      BY <2>2
    <2> QED BY <2>3 DEF Init, Fifo!Init
  <1>2. IInv /\ [Next]_vars => IInv' /\ [Fifo!Next]_(Fifo!fifoVars)
    BY StepRefines
  <1> QED BY InitIInv, <1>1, <1>2, PTL DEF Spec, ImplementsFifo, Fifo!Spec
=============================================================================
