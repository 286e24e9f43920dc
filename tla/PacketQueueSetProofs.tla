------------------------ MODULE PacketQueueSetProofs ------------------------
(***************************************************************************)
(* The packet queues of a filter set, for any number of packet threads and *)
(* filters, queues of any length and any sequence of filter sets.          *)
(*                                                                         *)
(* First what a queue holds, as the sequence of packets oldest first, and  *)
(* what put_packet, get_packet and a copy made member by member do to it.  *)
(* Then the order of delivery, which holds whoever races with init, and    *)
(* what holds when init is called between the calls of one packet thread.  *)
(***************************************************************************)
EXTENDS PacketQueueSet, FiniteSetTheorems, TLAPS

----------------------------------------------------------------------------
(* The ring of one queue *)

\* A number below the modulus is its own remainder.
LEMMA ModSmall ==
    ASSUME NEW m \in Nat \ {0}, NEW x \in 0 .. m - 1
    PROVE  x % m = x
  BY SMT

\* One turn of the ring is subtracted by the remainder.
LEMMA ModOnce ==
    ASSUME NEW m \in Nat \ {0}, NEW x \in m .. 2 * m - 1
    PROVE  x % m = x - m
  BY SMT

\* Slot of the i-th oldest of n packets in a ring of m when f is the next free one.
Pos(m, f, n, i) == (m + f - n + i - 1) % m

\* The slot without the remainder.
LEMMA PosValue ==
    ASSUME NEW m \in Nat \ {0}, NEW f \in 0 .. m - 1, NEW n \in 0 .. m, NEW i \in 1 .. n
    PROVE  /\ f - n + i - 1 >= 0 => Pos(m, f, n, i) = f - n + i - 1
           /\ f - n + i - 1 < 0 => Pos(m, f, n, i) = m + f - n + i - 1
           /\ Pos(m, f, n, i) \in 0 .. m - 1
  <1> DEFINE x == m + f - n + i - 1
  <1>1. CASE f - n + i - 1 >= 0
    <2>1. x \in m .. 2 * m - 1
      BY <1>1
    <2>2. x % m = x - m
      BY <2>1, ModOnce
    <2> QED
      BY <1>1, <2>2 DEF Pos
  <1>2. CASE f - n + i - 1 < 0
    <2>1. x \in 0 .. m - 1
      BY <1>2
    <2>2. x % m = x
      BY <2>1, ModSmall
    <2> QED
      BY <1>2, <2>1, <2>2 DEF Pos
  <1> QED
    BY <1>1, <1>2

\* The slot after f.
After(m, f) == IF f + 1 = m THEN 0 ELSE f + 1

LEMMA AfterValue ==
    ASSUME NEW m \in Nat \ {0}, NEW f \in 0 .. m - 1
    PROVE  (f + 1) % m = After(m, f) /\ After(m, f) \in 0 .. m - 1
  <1>1. CASE f + 1 = m
    <2>1. m \in m .. 2 * m - 1
      OBVIOUS
    <2>2. m % m = m - m
      BY <2>1, ModOnce
    <2> QED
      BY <1>1, <2>2 DEF After
  <1>2. CASE f + 1 # m
    <2>1. f + 1 \in 0 .. m - 1
      BY <1>2
    <2>2. (f + 1) % m = f + 1
      BY <2>1, ModSmall
    <2> QED
      BY <1>2, <2>1, <2>2 DEF After
  <1> QED
    BY <1>1, <1>2

\* Storing one more packet moves no stored one and takes a slot not in use.
LEMMA PosPut ==
    ASSUME NEW m \in Nat \ {0}, NEW f \in 0 .. m - 1, NEW n \in 0 .. m - 1
    PROVE  /\ Pos(m, After(m, f), n + 1, n + 1) = f
           /\ \A i \in 1 .. n : /\ Pos(m, After(m, f), n + 1, i) = Pos(m, f, n, i)
                                /\ Pos(m, f, n, i) # f
  <1> DEFINE g == After(m, f)
  <1>1. g \in 0 .. m - 1 /\ n + 1 \in 0 .. m
    BY AfterValue
  <1>2. Pos(m, g, n + 1, n + 1) = f
    <2>1. n + 1 \in 1 .. n + 1
      OBVIOUS
    <2>2. /\ g - (n + 1) + (n + 1) - 1 >= 0
               => Pos(m, g, n + 1, n + 1) = g - (n + 1) + (n + 1) - 1
          /\ g - (n + 1) + (n + 1) - 1 < 0
               => Pos(m, g, n + 1, n + 1) = m + g - (n + 1) + (n + 1) - 1
      BY <1>1, <2>1, PosValue
    <2> QED
      BY <1>1, <2>2 DEF After
  <1>3. ASSUME NEW i \in 1 .. n
        PROVE  Pos(m, g, n + 1, i) = Pos(m, f, n, i) /\ Pos(m, f, n, i) # f
    <2>1. i \in 1 .. n + 1 /\ n \in 0 .. m
      OBVIOUS
    <2>2. /\ g - (n + 1) + i - 1 >= 0 => Pos(m, g, n + 1, i) = g - (n + 1) + i - 1
          /\ g - (n + 1) + i - 1 < 0 => Pos(m, g, n + 1, i) = m + g - (n + 1) + i - 1
      BY <1>1, <2>1, PosValue
    <2>3. /\ f - n + i - 1 >= 0 => Pos(m, f, n, i) = f - n + i - 1
          /\ f - n + i - 1 < 0 => Pos(m, f, n, i) = m + f - n + i - 1
      BY <2>1, PosValue
    <2> QED
      BY <1>1, <2>2, <2>3 DEF After
  <1> QED
    BY <1>2, <1>3

\* How far the free slot g of a ring of m is ahead of f.
Ahead(m, f, g) == IF g >= f THEN g - f ELSE g - f + m

\* The ring is not full, and its free slot g is no further ahead of f than e:
\* g is none of the n slots before f, and one more packet moves it by one.
LEMMA AheadPut ==
    ASSUME NEW m \in Nat \ {0}, NEW f \in 0 .. m - 1, NEW g \in 0 .. m - 1,
           NEW n \in Nat, NEW e \in Nat, n + e < m, Ahead(m, f, g) <= e
    PROVE  /\ Ahead(m, f, After(m, g)) <= e + 1
           /\ \A i \in 1 .. n : Pos(m, f, n, i) # g
  <1>1. Ahead(m, f, After(m, g)) <= e + 1
    BY DEF Ahead, After
  <1>2. ASSUME NEW i \in 1 .. n PROVE Pos(m, f, n, i) # g
    <2>1. n \in 0 .. m
      OBVIOUS
    <2>2. /\ f - n + i - 1 >= 0 => Pos(m, f, n, i) = f - n + i - 1
          /\ f - n + i - 1 < 0 => Pos(m, f, n, i) = m + f - n + i - 1
      BY <2>1, PosValue
    <2> QED
      BY <2>2 DEF Ahead
  <1> QED
    BY <1>1, <1>2

Data == UNION {[0 .. m - 1 -> Nat] : m \in Nat \ {0}}

QueueRecord ==
    [put : Nat, get : Nat, free : Nat, ticks : Int, max : Nat \ {0}, data : Data]

\* The members of a pkt_queue fit together.
Queue ==
    {q \in QueueRecord :
        /\ q.data \in [0 .. q.max - 1 -> Nat]
        /\ q.free < q.max /\ q.get <= q.put /\ q.put - q.get <= q.max}

\* put_packet done: the packet is in the free slot, the counter and the free
\* slot have moved on.
QueuePut(q, x) ==
    [q EXCEPT !.data[q.free] = x, !.put = @ + 1, !.free = (@ + 1) % q.max]

\* The i-th oldest packet of a queue.
At(q, i) == q.data[Pos(q.max, q.free, Qsize(q), i)]

\* Packets is the function of what At says.
LEMMA PacketsAt ==
    ASSUME NEW q
    PROVE  /\ DOMAIN Packets(q) = 1 .. Qsize(q)
           /\ \A i \in 1 .. Qsize(q) : Packets(q)[i] = At(q, i)
           /\ Range(Packets(q)) = {At(q, i) : i \in 1 .. Qsize(q)}
  BY DEF Packets, At, Pos, Range

\* The types of what a queue holds.
LEMMA QueueFacts ==
    ASSUME NEW q \in Queue
    PROVE  /\ q \in QueueRecord /\ q.put \in Nat /\ q.get \in Nat /\ q.max \in Nat \ {0}
           /\ q.ticks \in Int /\ q.free \in 0 .. q.max - 1 /\ q.data \in [0 .. q.max - 1 -> Nat]
           /\ Qsize(q) \in 0 .. q.max /\ Qsize(q) = q.put - q.get
           /\ \A i \in 1 .. Qsize(q) : /\ At(q, i) \in Nat
                                       /\ Pos(q.max, q.free, Qsize(q), i) \in 0 .. q.max - 1
  <1>1. /\ q \in QueueRecord /\ q.put \in Nat /\ q.get \in Nat /\ q.max \in Nat \ {0}
        /\ q.ticks \in Int /\ q.free \in 0 .. q.max - 1 /\ q.data \in [0 .. q.max - 1 -> Nat]
    BY DEF Queue, QueueRecord
  <1>2. Qsize(q) \in 0 .. q.max /\ Qsize(q) = q.put - q.get
    BY <1>1 DEF Queue, Qsize
  <1>3. \A i \in 1 .. Qsize(q) : Pos(q.max, q.free, Qsize(q), i) \in 0 .. q.max - 1
    BY <1>1, <1>2, PosValue
  <1>4. \A i \in 1 .. Qsize(q) : At(q, i) \in Nat
    BY <1>1, <1>3 DEF At
  <1> QED
    BY <1>1, <1>2, <1>3, <1>4

\* The queue operator= has put together when it has read pktput_counter as p
\* and current_freeslot as f.
Copy(q, p, f) == [q EXCEPT !.put = p, !.free = f]

\* A queue with data d and pktput_counter and current_freeslot moved on.
Filled(q, d, p, f) == [q EXCEPT !.data = d, !.put = p, !.free = f]

\* Replacing members of a queue leaves the others.
LEMMA RebuiltCopy ==
    ASSUME NEW q \in QueueRecord, NEW p \in Nat, NEW f \in Nat
    PROVE  LET r == Copy(q, p, f)
           IN  /\ r \in QueueRecord /\ r.put = p /\ r.free = f /\ r.get = q.get
               /\ r.ticks = q.ticks /\ r.max = q.max /\ r.data = q.data
  BY DEF QueueRecord, Copy

LEMMA RebuiltGet ==
    ASSUME NEW q \in QueueRecord, NEW g \in Nat
    PROVE  LET r == [q EXCEPT !.get = g]
           IN  /\ r \in QueueRecord /\ r.put = q.put /\ r.free = q.free /\ r.get = g
               /\ r.ticks = q.ticks /\ r.max = q.max /\ r.data = q.data
  BY DEF QueueRecord

LEMMA RebuiltTicks ==
    ASSUME NEW q \in QueueRecord, NEW t \in Int
    PROVE  LET r == [q EXCEPT !.ticks = t]
           IN  /\ r \in QueueRecord /\ r.put = q.put /\ r.free = q.free /\ r.get = q.get
               /\ r.ticks = t /\ r.max = q.max /\ r.data = q.data
  BY DEF QueueRecord

\* put_packet appends.
LEMMA PutAppends ==
    ASSUME NEW q \in Queue, NEW x \in Nat, Qsize(q) < q.max
    PROVE  LET r == QueuePut(q, x)
           IN  /\ r \in Queue /\ r.max = q.max /\ r.get = q.get /\ r.put = q.put + 1
               /\ r.free = After(q.max, q.free)
               /\ r.data = [q.data EXCEPT ![q.free] = x] /\ r.ticks = q.ticks
               /\ Qsize(r) = Qsize(q) + 1
               /\ \A i \in 1 .. Qsize(q) : At(r, i) = At(q, i)
               /\ At(r, Qsize(q) + 1) = x
  <1> DEFINE r == QueuePut(q, x)
             n == Qsize(q)
             g == After(q.max, q.free)
             d == [q.data EXCEPT ![q.free] = x]
  <1>1. /\ q \in QueueRecord /\ q.put \in Nat /\ q.get \in Nat /\ q.max \in Nat \ {0}
        /\ q.free \in 0 .. q.max - 1 /\ q.data \in [0 .. q.max - 1 -> Nat]
        /\ n \in 0 .. q.max /\ n = q.put - q.get
    BY QueueFacts
  <1>2. n \in 0 .. q.max - 1 /\ n \in Nat /\ q.put + 1 \in Nat /\ q.put + 1 - q.get = n + 1
    BY <1>1
  <1>3. g \in 0 .. q.max - 1
    BY <1>1, AfterValue
  <1>4. d \in [0 .. q.max - 1 -> Nat] /\ d \in Data
    <2>1. d \in [0 .. q.max - 1 -> Nat]
      BY <1>1
    <2> QED
      BY <1>1, <2>1 DEF Data
  <1>5. r = Filled(q, d, q.put + 1, g)
    <2>1. (q.free + 1) % q.max = g
      BY <1>1, AfterValue
    <2> QED
      BY <1>1, <2>1 DEF QueuePut, QueueRecord, Filled
  <1> HIDE DEF r, g, d
  <1>6. /\ r \in QueueRecord /\ r.put = q.put + 1 /\ r.free = g /\ r.get = q.get
        /\ r.ticks = q.ticks /\ r.max = q.max /\ r.data = d
    <2>1. g \in Nat
      BY <1>1, <1>3
    <2> QED
      <3>1. q \in QueueRecord /\ d \in Data /\ q.put + 1 \in Nat
        BY <1>1, <1>2, <1>4
      <3>2. PICK p \in Nat : p = q.put + 1
        BY <3>1
      <3>3. r = Filled(q, d, p, g)
        BY <1>5, <3>2
      <3>4. /\ r \in QueueRecord /\ r.put = p /\ r.free = g /\ r.get = q.get
            /\ r.ticks = q.ticks /\ r.max = q.max /\ r.data = d
        <4>1. q \in QueueRecord /\ d \in Data
          BY <3>1
        <4>2. LET u == Filled(q, d, p, g)
              IN  /\ u \in QueueRecord /\ u.put = p /\ u.free = g /\ u.get = q.get
                  /\ u.ticks = q.ticks /\ u.max = q.max /\ u.data = d
          BY <2>1, <4>1 DEF Filled, QueueRecord
        <4> QED
          BY <3>3, <4>2, Zenon
      <3> QED
        BY <3>2, <3>4
  <1>7. Qsize(r) = n + 1
    <2>1. r.put = q.put + 1 /\ r.get = q.get
      BY <1>6
    <2> QED
      BY <1>1, <2>1 DEF Qsize
  <1>8. r \in Queue
    <2>1. g < q.max /\ q.get <= q.put + 1 /\ q.put + 1 - q.get <= q.max
      <3>1. q.max \in Nat /\ q.put \in Nat /\ q.get \in Nat /\ n = q.put - q.get /\ n < q.max
        BY <1>1
      <3>2. g < q.max
        BY <1>3, <3>1
      <3> HIDE DEF n
      <3>3. q.get <= q.put + 1 /\ q.put + 1 - q.get <= q.max
        BY <3>1, <1>2
      <3> QED
        BY <3>2, <3>3
    <2>2. /\ r.data \in [0 .. r.max - 1 -> Nat] /\ r.free < r.max
          /\ r.get <= r.put /\ r.put - r.get <= r.max
      <3>1. r.data \in [0 .. r.max - 1 -> Nat] /\ r.free < r.max
        BY <1>4, <1>6, <2>1
      <3>2. r.get <= r.put /\ r.put - r.get <= r.max
        BY <1>1, <1>6, <2>1
      <3> QED
        BY <3>1, <3>2
    <2> QED
      BY <1>6, <2>2 DEF Queue
  <1>p. /\ Pos(q.max, After(q.max, q.free), n + 1, n + 1) = q.free
        /\ \A i \in 1 .. n : /\ Pos(q.max, After(q.max, q.free), n + 1, i) = Pos(q.max, q.free, n, i)
                             /\ Pos(q.max, q.free, n, i) # q.free
    <2>1. q.max \in Nat \ {0} /\ q.free \in 0 .. q.max - 1 /\ n \in 0 .. q.max - 1
      BY <1>1, <1>2
    <2> HIDE DEF n
    <2> QED
      BY <2>1, PosPut
  <1>9. \A i \in 1 .. n : At(r, i) = At(q, i)
    <2> SUFFICES ASSUME NEW i \in 1 .. n PROVE At(r, i) = At(q, i)
      OBVIOUS
    <2> DEFINE s == Pos(q.max, q.free, n, i)
    <2>1. Pos(q.max, g, n + 1, i) = s /\ s # q.free
      BY <1>p DEF g
    <2>2. s \in 0 .. q.max - 1
      BY <1>1, PosValue
    <2>3. d[s] = q.data[s]
      BY <1>1, <2>1, <2>2 DEF d
    <2> QED
      BY <1>6, <1>7, <2>1, <2>3 DEF At
  <1>10. At(r, n + 1) = x
    <2>1. Pos(q.max, g, n + 1, n + 1) = q.free
      BY <1>p DEF g
    <2>2. d[q.free] = x
      BY <1>1 DEF d
    <2> QED
      BY <1>6, <1>7, <2>1, <2>2 DEF At
  <1> QED
    BY <1>6, <1>7, <1>8, <1>9, <1>10 DEF r, g, d

\* get_packet takes the oldest packet.
LEMMA GetTakesOldest ==
    ASSUME NEW q \in Queue, Qsize(q) > 0
    PROVE  LET r == [q EXCEPT !.get = q.get + 1]
           IN  /\ r \in Queue /\ Qsize(r) = Qsize(q) - 1
               /\ \A i \in 1 .. Qsize(q) - 1 : At(r, i) = At(q, i + 1)
               /\ q.data[QueueLast(q)] = At(q, 1)
  <1> DEFINE r == [q EXCEPT !.get = q.get + 1]
             n == Qsize(q)
  <1>1. /\ q \in QueueRecord /\ q.put \in Nat /\ q.get \in Nat /\ q.max \in Nat \ {0}
        /\ q.free \in 0 .. q.max - 1 /\ q.data \in [0 .. q.max - 1 -> Nat]
        /\ n \in 0 .. q.max /\ n = q.put - q.get
    BY QueueFacts
  <1>2. /\ r \in QueueRecord /\ r.put = q.put /\ r.free = q.free /\ r.get = q.get + 1
        /\ r.ticks = q.ticks /\ r.max = q.max /\ r.data = q.data
    BY <1>1, RebuiltGet
  <1> HIDE DEF r
  <1>3. Qsize(r) = n - 1
    BY <1>1, <1>2 DEF Qsize
  <1>4. r \in Queue
    BY <1>1, <1>2, <1>3 DEF Queue, Qsize
  <1>5. ASSUME NEW i \in 1 .. n - 1 PROVE At(r, i) = At(q, i + 1)
    <2>1. q.max + q.free - (n - 1) + i - 1 = q.max + q.free - n + (i + 1) - 1
      BY <1>1
    <2> QED
      BY <1>2, <1>3, <2>1 DEF At, Pos
  <1>6. q.data[QueueLast(q)] = At(q, 1)
    <2>1. q.max + q.free - n = q.max + q.free - n + 1 - 1
      BY <1>1
    <2> QED
      BY <2>1 DEF At, Pos, QueueLast
  <1> QED
    BY <1>3, <1>4, <1>5, <1>6 DEF r

\* Two queues that agree on all but ticks_left hold the same packets.
LEMMA TicksKeep ==
    ASSUME NEW q \in Queue, NEW t \in Int
    PROVE  LET r == [q EXCEPT !.ticks = t]
           IN  /\ r \in Queue /\ Qsize(r) = Qsize(q)
               /\ r.put = q.put /\ r.free = q.free /\ r.get = q.get /\ r.max = q.max
               /\ r.data = q.data
               /\ \A i \in 1 .. Qsize(q) : At(r, i) = At(q, i)
  <1> DEFINE r == [q EXCEPT !.ticks = t]
  <1>1. q \in QueueRecord /\ q.put \in Nat /\ q.get \in Nat /\ q.free \in Nat
    BY QueueFacts
  <1>2. /\ r \in QueueRecord /\ r.put = q.put /\ r.free = q.free /\ r.get = q.get
        /\ r.max = q.max /\ r.data = q.data
    BY <1>1, RebuiltTicks
  <1> HIDE DEF r
  <1>3. Qsize(r) = Qsize(q)
    BY <1>2 DEF Qsize
  <1>4. r \in Queue
    BY <1>2 DEF Queue
  <1>5. \A i \in 1 .. Qsize(q) : At(r, i) = At(q, i)
    BY <1>2, <1>3 DEF At
  <1> QED
    BY <1>2, <1>3, <1>4, <1>5 DEF r

\* The members of a copy, and when it is a queue.
LEMMA CopyFacts ==
    ASSUME NEW q \in Queue, NEW p \in Nat, NEW f \in 0 .. q.max - 1, q.get <= p, p <= q.put
    PROVE  LET r == Copy(q, p, f)
           IN  /\ r \in Queue /\ Qsize(r) = p - q.get /\ Qsize(r) <= Qsize(q)
               /\ r.put = p /\ r.free = f /\ r.get = q.get /\ r.max = q.max /\ r.data = q.data
  <1> DEFINE r == Copy(q, p, f)
  <1>0. f \in Nat
    BY QueueFacts
  <1>1. /\ q \in QueueRecord /\ q.put \in Nat /\ q.get \in Nat /\ q.max \in Nat \ {0}
        /\ q.free \in 0 .. q.max - 1 /\ q.data \in [0 .. q.max - 1 -> Nat]
        /\ Qsize(q) \in 0 .. q.max /\ Qsize(q) = q.put - q.get
    BY QueueFacts
  <1>2. /\ r \in QueueRecord /\ r.put = p /\ r.free = f /\ r.get = q.get
        /\ r.ticks = q.ticks /\ r.max = q.max /\ r.data = q.data
    <2>1. q \in QueueRecord
      BY <1>1
    <2> QED
      BY <1>0, <2>1, RebuiltCopy, Zenon
  <1> HIDE DEF r
  <1>3. Qsize(r) = p - q.get /\ Qsize(r) <= Qsize(q)
    BY <1>1, <1>2 DEF Qsize
  <1>4. r \in Queue
    BY <1>1, <1>2, <1>3 DEF Queue, Qsize
  <1> QED
    BY <1>2, <1>3, <1>4 DEF r

\* current_freeslot is read after packets were stored behind the counter: the
\* copy holds as many packets as the counter says, and they are the newest.
LEMMA CopyIsNewest ==
    ASSUME NEW q \in Queue, NEW p \in Nat, q.get <= p, p <= q.put
    PROVE  \A i \in 1 .. p - q.get :
              i + (q.put - p) \in 1 .. Qsize(q) /\ At(Copy(q, p, q.free), i) = At(q, i + (q.put - p))
  <1> DEFINE r == Copy(q, p, q.free)
  <1>1. /\ q.put \in Nat /\ q.get \in Nat /\ q.max \in Nat \ {0}
        /\ q.free \in 0 .. q.max - 1 /\ Qsize(q) = q.put - q.get
    BY QueueFacts
  <1>2. /\ Qsize(r) = p - q.get /\ r.free = q.free /\ r.max = q.max /\ r.data = q.data
    BY <1>1, CopyFacts
  <1> HIDE DEF r
  <1>3. ASSUME NEW i \in 1 .. p - q.get
        PROVE  i + (q.put - p) \in 1 .. Qsize(q) /\ At(r, i) = At(q, i + (q.put - p))
    <2>1. i + (q.put - p) \in 1 .. Qsize(q)
      BY <1>1
    <2>2. q.max + q.free - (p - q.get) + i - 1
            = q.max + q.free - (q.put - q.get) + (i + (q.put - p)) - 1
      BY <1>1
    <2> QED
      BY <1>1, <1>2, <2>1, <2>2 DEF At, Pos
  <1> QED
    BY <1>3 DEF r

\* While the data is still to be copied, a packet stored in the old queue does
\* not overwrite one that the copy counts.
LEMMA PutBesideCopy ==
    ASSUME NEW q \in Queue, NEW p \in Nat, NEW f \in 0 .. q.max - 1, q.get <= p, p <= q.put,
           Qsize(q) < q.max, Ahead(q.max, f, q.free) <= q.put - p, NEW x \in Nat
    PROVE  LET n == QueuePut(q, x)
           IN  /\ p <= n.put /\ Ahead(n.max, f, n.free) <= n.put - p
               /\ \A i \in 1 .. p - q.get : At(Copy(n, p, f), i) = At(Copy(q, p, f), i)
  <1> DEFINE n == QueuePut(q, x)
             k == p - q.get
  <1>1. /\ q.put \in Nat /\ q.get \in Nat /\ q.max \in Nat \ {0} /\ q.data \in [0 .. q.max - 1 -> Nat]
        /\ q.free \in 0 .. q.max - 1 /\ Qsize(q) = q.put - q.get
    BY QueueFacts
  <1>2. /\ n \in Queue /\ n.max = q.max /\ n.get = q.get /\ n.put = q.put + 1
        /\ n.free = After(q.max, q.free)
        /\ n.data = [q.data EXCEPT ![q.free] = x]
    BY PutAppends
  <1> HIDE DEF n
  <1>k. k \in Nat /\ q.put - p \in Nat /\ k + (q.put - p) < q.max
    BY <1>1
  <1>a. /\ Ahead(q.max, f, After(q.max, q.free)) <= q.put - p + 1
        /\ \A i \in 1 .. k : Pos(q.max, f, k, i) # q.free
    BY <1>1, <1>k, AheadPut
  <1>3. p <= n.put /\ Ahead(n.max, f, n.free) <= n.put - p
    <2>1. q.put - p + 1 = q.put + 1 - p /\ p <= q.put + 1
      BY <1>1
    <2>2. Ahead(q.max, f, After(q.max, q.free)) <= q.put + 1 - p
      BY <1>a, <2>1
    <2>3. n.put = q.put + 1 /\ n.max = q.max /\ n.free = After(q.max, q.free)
      BY <1>2
    <2>4. q.put \in Nat
      BY <1>1
    <2>5. p <= n.put /\ n.put - p = q.put + 1 - p
      BY <2>1, <2>3, <2>4
    <2>6. Ahead(n.max, f, n.free) = Ahead(q.max, f, After(q.max, q.free))
      BY <2>3
    <2> QED
      BY <2>2, <2>5, <2>6
  <1>4. LET r == Copy(q, p, f)
        IN  Qsize(r) = k /\ r.free = f /\ r.max = q.max /\ r.data = q.data
    BY CopyFacts
  <1>5. LET r == Copy(n, p, f)
        IN  Qsize(r) = k /\ r.free = f /\ r.max = q.max /\ r.data = n.data
    BY <1>2, <1>3, CopyFacts
  <1>6. ASSUME NEW i \in 1 .. k PROVE At(Copy(n, p, f), i) = At(Copy(q, p, f), i)
    <2>1. k \in 0 .. q.max
      BY <1>1
    <2>2. Pos(q.max, f, k, i) \in 0 .. q.max - 1
      BY <1>1, <2>1, PosValue
    <2>3. Pos(q.max, f, k, i) # q.free
      BY <1>a
    <2>4. n.data[Pos(q.max, f, k, i)] = q.data[Pos(q.max, f, k, i)]
      BY <1>1, <1>2, <2>2, <2>3
    <2> QED
      BY <1>4, <1>5, <2>4 DEF At
  <1> QED
    BY <1>3, <1>6 DEF n

----------------------------------------------------------------------------
(* A queue between the stores of put_packet *)

\* The first slot follows the last.
Wrapped(m, f) == IF f >= m THEN 0 ELSE f

\* The counter and the free slot when put_packet has made all its stores.
FinalPut(q) == IF q.guard = "count" THEN q.put + 1 ELSE q.put
FinalFree(q) == Wrapped(q.max, IF q.guard \in {"count", "slot"} THEN q.free + 1 ELSE q.free)

\* The queue when put_packet has made all its stores.
Completed(q) ==
    [put |-> FinalPut(q), get |-> q.get, free |-> FinalFree(q), ticks |-> q.ticks,
     max |-> q.max, data |-> q.data]

Guards == {"free", "count", "slot", "wrap"}

MembersRecord ==
    [put : Nat, get : Nat, free : Nat, ticks : Int, max : Nat \ {0},
     guard : Guards, data : Data]

\* The members of a pkt_queue at any moment.
Members ==
    {q \in MembersRecord :
        /\ q.get <= q.put /\ q.free <= q.max
        /\ q.guard \in {"count", "slot"} => q.free < q.max
        /\ Completed(q) \in Queue}

\* The types of the members and what they are when put_packet is done.
LEMMA MembersFacts ==
    ASSUME NEW q \in Members
    PROVE  /\ q \in MembersRecord /\ q.put \in Nat /\ q.get \in Nat /\ q.max \in Nat \ {0}
           /\ q.ticks \in Int /\ q.free \in 0 .. q.max /\ q.data \in Data
           /\ q.guard \in Guards
           /\ q.get <= q.put /\ q.put <= Completed(q).put
           /\ q.guard \in {"count", "slot"} => q.free < q.max
           /\ Completed(q) \in Queue
           /\ Completed(q).put = FinalPut(q) /\ Completed(q).free = FinalFree(q)
           /\ Completed(q).get = q.get /\ Completed(q).ticks = q.ticks
           /\ Completed(q).max = q.max /\ Completed(q).data = q.data
  <1>1. /\ q \in MembersRecord /\ q.put \in Nat /\ q.get \in Nat /\ q.max \in Nat \ {0}
        /\ q.ticks \in Int /\ q.data \in Data /\ q.free \in Nat
        /\ q.guard \in Guards
    BY DEF Members, MembersRecord
  <1>2. /\ q.get <= q.put /\ q.free <= q.max /\ Completed(q) \in Queue
        /\ q.guard \in {"count", "slot"} => q.free < q.max
    BY DEF Members
  <1>3. /\ Completed(q).put = FinalPut(q) /\ Completed(q).free = FinalFree(q)
        /\ Completed(q).get = q.get /\ Completed(q).ticks = q.ticks
        /\ Completed(q).max = q.max /\ Completed(q).data = q.data
    BY DEF Completed
  <1>4. q.put <= FinalPut(q)
    BY <1>1 DEF FinalPut
  <1>5. q.free \in 0 .. q.max
    BY <1>1, <1>2
  <1> QED
    BY <1>1, <1>2, <1>3, <1>4, <1>5

\* Replacing members of a queue leaves the others.
Moved(q, p, f, u) == [q EXCEPT !.put = p, !.free = f, !.guard = u]
Overwritten(q, d, u) == [q EXCEPT !.data = d, !.guard = u]

LEMMA RebuiltStore ==
    ASSUME NEW q \in MembersRecord, NEW d \in Data, NEW u \in Guards,
           NEW r, r = Overwritten(q, d, u)
    PROVE  /\ r \in MembersRecord /\ r.put = q.put /\ r.free = q.free /\ r.guard = u
           /\ r.get = q.get /\ r.ticks = q.ticks /\ r.max = q.max /\ r.data = d
  BY DEF MembersRecord, Overwritten

LEMMA RebuiltMembersGet ==
    ASSUME NEW q \in MembersRecord, NEW g \in Nat,
           NEW r, r = [q EXCEPT !.get = g]
    PROVE  /\ r \in MembersRecord /\ r.put = q.put /\ r.free = q.free /\ r.guard = q.guard
           /\ r.get = g /\ r.ticks = q.ticks /\ r.max = q.max /\ r.data = q.data
  BY DEF MembersRecord

LEMMA RebuiltMembersTicks ==
    ASSUME NEW q \in MembersRecord, NEW k \in Int,
           NEW r, r = [q EXCEPT !.ticks = k]
    PROVE  /\ r \in MembersRecord /\ r.put = q.put /\ r.free = q.free /\ r.guard = q.guard
           /\ r.get = q.get /\ r.ticks = k /\ r.max = q.max /\ r.data = q.data
  BY DEF MembersRecord

\* Queues with the same members are the same.
LEMMA SameQueue ==
    ASSUME NEW q \in QueueRecord, NEW r \in QueueRecord, q.put = r.put, q.get = r.get,
           q.free = r.free, q.ticks = r.ticks, q.max = r.max, q.data = r.data
    PROVE  q = r
  BY DEF QueueRecord

\* r is complete as the queue c: they have the same members then.
LEMMA CompletedIs ==
    ASSUME NEW r \in MembersRecord, NEW c \in Queue, r.get <= r.put, r.free <= r.max,
           r.guard \in {"count", "slot"} => r.free < r.max,
           FinalPut(r) = c.put, r.get = c.get, FinalFree(r) = c.free, r.ticks = c.ticks,
           r.max = c.max, r.data = c.data
    PROVE  r \in Members /\ Completed(r) = c
  <1>1. c \in QueueRecord
    BY QueueFacts
  <1>2. /\ Completed(r).put = c.put /\ Completed(r).get = c.get /\ Completed(r).free = c.free
        /\ Completed(r).ticks = c.ticks /\ Completed(r).max = c.max /\ Completed(r).data = c.data
    BY DEF Completed
  <1>3. Completed(r) \in QueueRecord
    <2>1. /\ FinalPut(r) \in Nat /\ r.get \in Nat /\ FinalFree(r) \in Nat /\ r.ticks \in Int
          /\ r.max \in Nat \ {0} /\ r.data \in Data
      BY <1>1 DEF QueueRecord
    <2> QED
      BY <2>1 DEF Completed, QueueRecord
  <1>4. Completed(r) = c
    BY <1>1, <1>2, <1>3, SameQueue
  <1> QED
    BY <1>4 DEF Members

\* The packet is in its slot.
LEMMA StoreCompletes ==
    ASSUME NEW q \in Members, q.guard = "free", ~ NoSpace(q), NEW x \in Nat
    PROVE  LET r == StoreData(q, x)
           IN  /\ r \in Members /\ q.put <= r.put /\ Completed(r) = QueuePut(Completed(q), x)
               /\ Qsize(Completed(q)) < Completed(q).max
  <1> DEFINE r == StoreData(q, x)
             c == Completed(q)
             n == QueuePut(c, x)
             d == [q.data EXCEPT ![q.free] = x]
  <1>1. /\ q \in MembersRecord /\ q.put \in Nat /\ q.get \in Nat /\ q.max \in Nat \ {0}
        /\ q.free \in 0 .. q.max /\ q.get <= q.put /\ q.data \in Data
        /\ c \in Queue /\ c.put = FinalPut(q) /\ c.free = FinalFree(q) /\ c.get = q.get
        /\ c.ticks = q.ticks /\ c.max = q.max /\ c.data = q.data
    BY MembersFacts
  <1>2. q.put - q.get < q.max /\ q.free < q.max
    BY <1>1 DEF NoSpace, Qsize
  <1>3. c.put = q.put /\ c.free = q.free
    BY <1>1, <1>2 DEF FinalPut, FinalFree, Wrapped
  <1>4. Qsize(c) < c.max
    BY <1>1, <1>2, <1>3 DEF Qsize
  <1> HIDE DEF c
  <1>5. /\ n \in Queue /\ n.max = q.max /\ n.get = q.get /\ n.put = q.put + 1
        /\ n.free = After(q.max, q.free) /\ n.data = d /\ n.ticks = q.ticks
    BY <1>1, <1>3, <1>4, PutAppends
  <1> HIDE DEF n
  <1>6. d \in Data
    <2>1. n \in QueueRecord
      BY <1>5, QueueFacts
    <2> QED
      BY <1>5, <2>1 DEF QueueRecord
  <1>7. /\ r \in MembersRecord /\ r.put = q.put /\ r.free = q.free /\ r.guard = "count"
        /\ r.get = q.get /\ r.ticks = q.ticks /\ r.max = q.max /\ r.data = d
    <2>1. r = Overwritten(q, d, "count")
      BY <1>1 DEF StoreData, MembersRecord, Overwritten
    <2>2. "count" \in Guards
      BY DEF Guards
    <2> HIDE DEF d, r
    <2> QED
      BY <1>1, <1>6, <2>1, <2>2, RebuiltStore
  <1> HIDE DEF r, d
  <1>8. FinalPut(r) = q.put + 1 /\ FinalFree(r) = After(q.max, q.free)
    BY <1>1, <1>2, <1>7 DEF FinalPut, FinalFree, Wrapped, After
  <1>9. r \in Members /\ Completed(r) = n
    BY <1>1, <1>2, <1>5, <1>7, <1>8, CompletedIs
  <1>10. q.put <= r.put
    BY <1>1, <1>7
  <1> QED
    BY <1>4, <1>9, <1>10 DEF r, n, c

\* The other stores of put_packet complete the same queue.
Counted(q, p, u) == [q EXCEPT !.put = p, !.guard = u]
FreeSlot(q, f, u) == [q EXCEPT !.free = f, !.guard = u]
Stores(q, r) ==
    \/ q.guard = "count" /\ r = Counted(q, q.put + 1, "slot")
    \/ q.guard = "slot" /\ r = FreeSlot(q, q.free + 1, "wrap")
    \/ q.guard = "wrap" /\ r = FreeSlot(q, Wrapped(q.max, q.free), "free")

LEMMA StoresComplete ==
    ASSUME NEW q \in Members, NEW r, Stores(q, r)
    PROVE  r \in Members /\ q.put <= r.put /\ Completed(r) = Completed(q)
  <1> DEFINE c == Completed(q)
  <1>1. /\ q \in MembersRecord /\ q.put \in Nat /\ q.get \in Nat /\ q.max \in Nat \ {0}
        /\ q.free \in 0 .. q.max /\ q.get <= q.put
        /\ q.guard \in {"count", "slot"} => q.free < q.max
        /\ c \in Queue /\ c.put = FinalPut(q) /\ c.free = FinalFree(q) /\ c.get = q.get
        /\ c.ticks = q.ticks /\ c.max = q.max /\ c.data = q.data
    BY MembersFacts
  <1> HIDE DEF c
  <1>3. CASE q.guard = "count" /\ r = Counted(q, q.put + 1, "slot")
    <2>1. PICK p \in Nat, f \in Nat : p = q.put + 1 /\ f = q.free
      BY <1>1
    <2>2. PICK u \in Guards : u = "slot"
      BY DEF Guards
    <2>a. q \in MembersRecord /\ r = Counted(q, p, u) /\ q.free = f
      BY <1>1, <1>3, <2>1, <2>2
    <2>b. /\ r \in MembersRecord /\ r.put = p /\ r.free = f /\ r.guard = u
          /\ r.get = q.get /\ r.ticks = q.ticks /\ r.max = q.max /\ r.data = q.data
      BY <2>a DEF MembersRecord, Counted
    <2>3. /\ r \in MembersRecord /\ r.put = p /\ r.free = f /\ r.guard = "slot"
          /\ r.get = q.get /\ r.ticks = q.ticks /\ r.max = q.max /\ r.data = q.data
      BY <2>2, <2>b
    <2>4. FinalPut(r) = c.put /\ FinalFree(r) = c.free
      BY <1>1, <1>3, <2>1, <2>3 DEF FinalPut, FinalFree
    <2>5. r.get <= r.put /\ q.put <= r.put /\ r.free <= r.max /\ (r.guard \in {"count", "slot"} => r.free < r.max)
      BY <1>1, <1>3, <2>1, <2>3
    <2>6. r \in Members /\ Completed(r) = c
      BY <1>1, <2>3, <2>4, <2>5, CompletedIs
    <2> QED
      BY <2>5, <2>6 DEF c
  <1>4. CASE q.guard = "slot" /\ r = FreeSlot(q, q.free + 1, "wrap")
    <2>1. PICK p \in Nat, f \in Nat : p = q.put /\ f = q.free + 1
      BY <1>1
    <2>2. PICK u \in Guards : u = "wrap"
      BY DEF Guards
    <2>a. q \in MembersRecord /\ r = FreeSlot(q, f, u) /\ q.put = p
      BY <1>1, <1>4, <2>1, <2>2
    <2>b. /\ r \in MembersRecord /\ r.put = p /\ r.free = f /\ r.guard = u
          /\ r.get = q.get /\ r.ticks = q.ticks /\ r.max = q.max /\ r.data = q.data
      BY <2>a DEF MembersRecord, FreeSlot
    <2>3. /\ r \in MembersRecord /\ r.put = p /\ r.free = f /\ r.guard = "wrap"
          /\ r.get = q.get /\ r.ticks = q.ticks /\ r.max = q.max /\ r.data = q.data
      BY <2>2, <2>b
    <2>4. FinalPut(r) = c.put /\ FinalFree(r) = c.free
      BY <1>1, <1>4, <2>1, <2>3 DEF FinalPut, FinalFree
    <2>5. r.get <= r.put /\ q.put <= r.put /\ r.free <= r.max /\ (r.guard \in {"count", "slot"} => r.free < r.max)
      BY <1>1, <1>4, <2>1, <2>3
    <2>6. r \in Members /\ Completed(r) = c
      BY <1>1, <2>3, <2>4, <2>5, CompletedIs
    <2> QED
      BY <2>5, <2>6 DEF c
  <1>5. CASE q.guard = "wrap" /\ r = FreeSlot(q, Wrapped(q.max, q.free), "free")
    <2>1. PICK p \in Nat, f \in Nat : p = q.put /\ f = Wrapped(q.max, q.free)
      BY <1>1 DEF Wrapped
    <2>2. PICK u \in Guards : u = "free"
      BY DEF Guards
    <2>a. q \in MembersRecord /\ r = FreeSlot(q, f, u) /\ q.put = p
      BY <1>1, <1>5, <2>1, <2>2
    <2>b. /\ r \in MembersRecord /\ r.put = p /\ r.free = f /\ r.guard = u
          /\ r.get = q.get /\ r.ticks = q.ticks /\ r.max = q.max /\ r.data = q.data
      BY <2>a DEF MembersRecord, FreeSlot
    <2>3. /\ r \in MembersRecord /\ r.put = p /\ r.free = f /\ r.guard = "free"
          /\ r.get = q.get /\ r.ticks = q.ticks /\ r.max = q.max /\ r.data = q.data
      BY <2>2, <2>b
    <2>4. FinalPut(r) = c.put /\ FinalFree(r) = c.free
      BY <1>1, <1>5, <2>1, <2>3 DEF FinalPut, FinalFree, Wrapped
    <2>5. r.get <= r.put /\ q.put <= r.put /\ r.free <= r.max /\ (r.guard \in {"count", "slot"} => r.free < r.max)
      BY <1>1, <1>5, <2>1, <2>3 DEF Wrapped
    <2>6. r \in Members /\ Completed(r) = c
      BY <1>1, <2>3, <2>4, <2>5, CompletedIs
    <2> QED
      BY <2>5, <2>6 DEF c
  <1> QED
    BY <1>3, <1>4, <1>5 DEF Stores

\* ticks_left may change at any moment.
LEMMA TicksComplete ==
    ASSUME NEW q \in Members, NEW k \in Int, NEW r, r = [q EXCEPT !.ticks = k]
    PROVE  /\ r \in Members /\ r.put = q.put /\ r.free = q.free /\ r.guard = q.guard
           /\ Completed(r) = [Completed(q) EXCEPT !.ticks = k]
  <1> DEFINE c == Completed(q)
             t == [c EXCEPT !.ticks = k]
  <1>1. /\ q \in MembersRecord /\ q.get <= q.put /\ q.free \in 0 .. q.max /\ q.max \in Nat
        /\ q.guard \in {"count", "slot"} => q.free < q.max
        /\ c \in Queue /\ c.put = FinalPut(q) /\ c.free = FinalFree(q) /\ c.get = q.get
        /\ c.ticks = q.ticks /\ c.max = q.max /\ c.data = q.data
    BY MembersFacts
  <1> HIDE DEF c
  <1>2. /\ t \in Queue /\ t.put = c.put /\ t.free = c.free /\ t.get = c.get /\ t.max = c.max
        /\ t.data = c.data /\ t.ticks = k
    <2>1. c \in QueueRecord
      BY <1>1, QueueFacts
    <2>2. t.ticks = k
      BY <2>1, RebuiltTicks
    <2> QED
      BY <1>1, <2>2, TicksKeep
  <1> HIDE DEF t
  <1>3. /\ r \in MembersRecord /\ r.put = q.put /\ r.free = q.free /\ r.guard = q.guard
        /\ r.get = q.get /\ r.ticks = k /\ r.max = q.max /\ r.data = q.data
    BY <1>1, RebuiltMembersTicks
  <1>4. FinalPut(r) = t.put /\ FinalFree(r) = t.free
    BY <1>1, <1>2, <1>3 DEF FinalPut, FinalFree
  <1>5. r.get <= r.put /\ r.free <= r.max /\ (r.guard \in {"count", "slot"} => r.free < r.max)
    BY <1>1, <1>3
  <1>6. r \in Members /\ Completed(r) = t
    BY <1>1, <1>2, <1>3, <1>4, <1>5, CompletedIs
  <1> QED
    BY <1>3, <1>6 DEF t, c

\* get_packet, which holds the mutex, takes the oldest packet.
LEMMA GetCompletes ==
    ASSUME NEW q \in Members, q.guard = "free", Qsize(q) > 0, NEW r, r = [q EXCEPT !.get = q.get + 1]
    PROVE  /\ r \in Members /\ r.put = q.put /\ r.free = q.free /\ r.guard = q.guard
           /\ Qsize(Completed(q)) > 0
           /\ Completed(r) = [Completed(q) EXCEPT !.get = Completed(q).get + 1]
           /\ q.data[QueueLast(q)] = At(Completed(q), 1)
  <1> DEFINE c == Completed(q)
             t == [c EXCEPT !.get = c.get + 1]
  <1>1. /\ q \in MembersRecord /\ q.get <= q.put /\ q.free \in 0 .. q.max /\ q.max \in Nat \ {0}
        /\ q.get \in Nat /\ q.put \in Nat
        /\ c \in Queue /\ c.put = FinalPut(q) /\ c.free = FinalFree(q) /\ c.get = q.get
        /\ c.ticks = q.ticks /\ c.max = q.max /\ c.data = q.data
    BY MembersFacts
  <1>2. c.put = q.put /\ c.free = Wrapped(q.max, q.free)
    BY <1>1 DEF FinalPut, FinalFree
  <1> HIDE DEF c
  <1>3. Qsize(c) = Qsize(q) /\ Qsize(c) > 0
    BY <1>1, <1>2 DEF Qsize
  <1>4. /\ t \in Queue /\ c.data[QueueLast(c)] = At(c, 1)
    BY <1>1, <1>3, GetTakesOldest
  <1>5. t.put = c.put /\ t.free = c.free /\ t.get = c.get + 1 /\ t.max = c.max /\ t.data = c.data
        /\ t.ticks = c.ticks
    <2>1. c \in QueueRecord /\ c.get + 1 \in Nat
      BY <1>1, QueueFacts
    <2> QED
      BY <2>1, RebuiltGet
  <1> HIDE DEF t
  <1>6. /\ r \in MembersRecord /\ r.put = q.put /\ r.free = q.free /\ r.guard = q.guard
        /\ r.get = q.get + 1 /\ r.ticks = q.ticks /\ r.max = q.max /\ r.data = q.data
    <2>1. q.get + 1 \in Nat
      BY <1>1
    <2> QED
      BY <1>1, <2>1, RebuiltMembersGet
  <1>7. FinalPut(r) = t.put /\ FinalFree(r) = t.free
    BY <1>1, <1>2, <1>5, <1>6 DEF FinalPut, FinalFree
  <1>8. r.get <= r.put /\ r.free <= r.max /\ r.guard \notin {"count", "slot"}
    BY <1>1, <1>6 DEF Qsize
  <1>9. r \in Members /\ Completed(r) = t
    BY <1>1, <1>4, <1>5, <1>6, <1>7, <1>8, CompletedIs
  <1>10. QueueLast(q) = QueueLast(c)
    <2>1. Qsize(q) \in 1 .. q.max
      BY <1>1, <1>3, QueueFacts
    <2>2. CASE q.free < q.max
      <3>1. c.free = q.free
        BY <1>1, <1>2, <2>2 DEF Wrapped
      <3> QED
        BY <1>1, <1>3, <3>1 DEF QueueLast
    <2>3. CASE q.free = q.max
      <3>1. c.free = 0
        BY <1>1, <1>2, <2>3 DEF Wrapped
      <3>2. PICK m, n : m = q.max /\ n = Qsize(q)
        OBVIOUS
      <3>3. m + m - n \in m .. 2 * m - 1 /\ m + 0 - n \in 0 .. m - 1 /\ m \in Nat \ {0}
        BY <1>1, <2>1, <3>2
      <3>4. PICK y \in m .. 2 * m - 1, z \in 0 .. m - 1 : y = m + m - n /\ z = m + 0 - n
        BY <3>3
      <3>5. y % m = y - m /\ z % m = z
        BY <3>3, ModOnce, ModSmall
      <3>6. n \in Nat /\ m \in Nat
        BY <1>1, <2>1, <3>2
      <3>7. y - m = z
        BY <3>4, <3>6
      <3>8. (m + m - n) % m = (m + 0 - n) % m
        BY <3>4, <3>5, <3>7
      <3> QED
        BY <1>1, <1>3, <2>3, <3>1, <3>2, <3>8 DEF QueueLast
    <2> QED
      BY <1>1, <2>2, <2>3
  <1> QED
    BY <1>1, <1>3, <1>4, <1>6, <1>9, <1>10 DEF t, c

\* What operator= has put together is complete: no put_packet is on it.
LEMMA CopyCompletes ==
    ASSUME NEW q \in Members, NEW p \in Nat, NEW h \in 0 .. q.max, q.get <= p, p <= q.put,
           NEW r, r = Moved(q, p, h, "free")
    PROVE  /\ r \in Members /\ r.free = h /\ r.guard = "free"
           /\ Completed(r) = Copy(Completed(q), p, Wrapped(q.max, h))
  <1> DEFINE c == Completed(q)
             f == Wrapped(q.max, h)
             t == Copy(c, p, f)
  <1>1. /\ q \in MembersRecord /\ q.put \in Nat /\ q.put <= c.put /\ q.max \in Nat \ {0}
        /\ q.get \in Nat /\ c \in Queue /\ c.get = q.get
        /\ c.ticks = q.ticks /\ c.max = q.max /\ c.data = q.data
    BY MembersFacts
  <1>2. f \in 0 .. c.max - 1 /\ h \in Nat /\ h <= q.max
    BY <1>1 DEF Wrapped
  <1>3. c.get <= p /\ p <= c.put
    <2>1. c.put \in Nat
      BY <1>1, QueueFacts
    <2> QED
      BY <1>1, <2>1
  <1> HIDE DEF c, f
  <1>4. /\ t \in Queue /\ t.put = p /\ t.free = f /\ t.get = c.get /\ t.max = c.max /\ t.data = c.data
    BY <1>1, <1>2, <1>3, CopyFacts
  <1>5. t.ticks = c.ticks
    <2>1. c \in QueueRecord /\ f \in Nat
      BY <1>1, <1>2, QueueFacts
    <2> QED
      BY <2>1, RebuiltCopy
  <1> HIDE DEF t
  <1>6. /\ r \in MembersRecord /\ r.put = p /\ r.free = h /\ r.guard = "free"
        /\ r.get = q.get /\ r.ticks = q.ticks /\ r.max = q.max /\ r.data = q.data
    <2>1. PICK u \in Guards : u = "free"
      BY DEF Guards
    <2>2. q \in MembersRecord /\ p \in Nat /\ h \in Nat /\ r = Moved(q, p, h, u)
      BY <1>1, <1>2, <2>1
    <2>3. /\ r \in MembersRecord /\ r.put = p /\ r.free = h /\ r.guard = u
          /\ r.get = q.get /\ r.ticks = q.ticks /\ r.max = q.max /\ r.data = q.data
      BY <2>2 DEF MembersRecord, Moved
    <2> QED
      BY <2>1, <2>3
  <1>7. FinalPut(r) = t.put /\ FinalFree(r) = t.free
    BY <1>4, <1>6 DEF FinalPut, FinalFree, f
  <1>8. r.get <= r.put /\ r.free <= r.max /\ r.guard \notin {"count", "slot"}
    BY <1>2, <1>6
  <1>9. r \in Members /\ Completed(r) = t
    BY <1>1, <1>4, <1>5, <1>6, <1>7, <1>8, CompletedIs
  <1> QED
    BY <1>6, <1>9 DEF t, c, f

\* A queue that init makes is empty.
LEMMA NewQueueEmpty ==
    ASSUME NEW m \in Nat \ {0}
    PROVE  /\ NewQueue(m) \in Members /\ NewQueue(m).guard = "free" /\ NewQueue(m).free < NewQueue(m).max
           /\ Qsize(Completed(NewQueue(m))) = 0
  <1> DEFINE d == [s \in 0 .. m - 1 |-> 0]
             c == [put |-> 0, get |-> 0, free |-> 0, ticks |-> 0, max |-> m, data |-> d]
             q == NewQueue(m)
  <1>1. d \in [0 .. m - 1 -> Nat]
    OBVIOUS
  <1>2. d \in Data
    BY <1>1 DEF Data
  <1>3. q = [put |-> 0, get |-> 0, free |-> 0, ticks |-> 0, max |-> m, guard |-> "free", data |-> d]
    BY DEF NewQueue
  <1> HIDE DEF d, q
  <1>4. /\ q \in MembersRecord /\ q.put = 0 /\ q.get = 0 /\ q.free = 0 /\ q.ticks = 0 /\ q.max = m
        /\ q.guard = "free" /\ q.data = d
    <2>1. "free" \in Guards /\ 0 \in Nat /\ 0 \in Int
      BY DEF Guards
    <2>2. q \in MembersRecord
      BY <1>2, <1>3, <2>1 DEF MembersRecord
    <2> QED
      BY <1>3, <2>2
  <1>5. /\ c \in QueueRecord /\ c.put = 0 /\ c.get = 0 /\ c.free = 0 /\ c.ticks = 0 /\ c.max = m
        /\ c.data = d
    BY <1>2 DEF QueueRecord
  <1> HIDE DEF c
  <1>6. c \in Queue /\ Qsize(c) = 0
    BY <1>1, <1>5 DEF Queue, Qsize
  <1>7. FinalPut(q) = 0 /\ FinalFree(q) = 0
    BY <1>4 DEF FinalPut, FinalFree, Wrapped
  <1>8. q \in Members /\ Completed(q) = c
    BY <1>4, <1>5, <1>6, <1>7, CompletedIs
  <1> QED
    BY <1>4, <1>6, <1>8 DEF q

----------------------------------------------------------------------------
(* The invariant of the set *)

FId == FilterId \cup {DefaultId}
Entry == [filterid : FId, q : Members]
PutState ==
    {Idle} \cup [at : {"init", "size", "ref"}, f : Nat]
           \cup [at : {"write", "store"}, f : Nat, c : Nat]
ShaperState == {Idle} \cup [at : {"write"}, f : Nat, c : Nat, ticks : Nat]

SetType ==
    /\ mode \in World /\ pq \in Nat /\ container \in Seq(Entry) /\ filterids \in Seq(FilterId)
    /\ guard \in {"free", "init"}
    /\ build \in [ids : Seq(FilterId), done : Seq(Entry), half : Seq(Nat)]
    /\ put \in [Putter -> PutState] /\ shaper \in ShaperState
    /\ stored \in Nat /\ home \in Seq(FId) /\ Len(home) = stored
    /\ delivered \in [FId -> Seq(Nat)] /\ torn \subseteq FId /\ corrupt \in BOOLEAN

\* A reference to the queue at index f of container number c.
Refers(f, c) == c <= pq /\ (c = pq => f < Len(container))

\* A reference into the current container is to one of its queues.
References ==
    /\ \A t \in Putter : put[t].at \in {"write", "store"} => Refers(put[t].f, put[t].c)
    /\ shaper # Idle => Refers(shaper.f, shaper.c)

\* The filters of the container under construction are those init was given.
Building ==
    /\ \A i, j \in DOMAIN container : container[i].filterid = container[j].filterid => i = j
    /\ \A i, j \in DOMAIN build.ids : build.ids[i] = build.ids[j] => i = j
    /\ Len(build.done) <= Len(build.ids)
    /\ \A i \in DOMAIN build.done : build.done[i].filterid = build.ids[i]
    /\ Len(build.half) <= 2
    /\ build.half # <<>> =>
          guard = "init" /\ Len(build.done) < Len(build.ids) /\ Sources # {}
    /\ guard = "free" => build = NotBuilding

\* q is a queue of filter f: what it holds was stored for f, is in the order of
\* storing, and is newer than what was delivered.
InOrder(f, q) ==
    /\ \A i \in 1 .. Qsize(q) : At(q, i) \in 1 .. stored /\ home[At(q, i)] = f
    /\ \A i, j \in 1 .. Qsize(q) : i < j => At(q, i) < At(q, j)
    /\ \A i \in 1 .. Qsize(q), d \in DOMAIN delivered[f] : delivered[f][d] < At(q, i)

\* Unless f is a filter of which a packet was half stored when its queue was copied.
Holds(f, q) == f \in torn \/ InOrder(f, q)

Queues ==
    /\ \A i \in DOMAIN container : Holds(container[i].filterid, Completed(container[i].q))
    /\ \A i \in DOMAIN build.done : Holds(build.done[i].filterid, Completed(build.done[i].q))

\* w is the queue being copied when put_packet is done with it, p and h the counter
\* and the free slot that were read: the free slot of w may be ahead by the packets
\* stored since the counter was read.
HalfHolds(f, w, p, h) ==
    /\ f \in torn \/ Ahead(w.max, Wrapped(w.max, h), w.free) <= w.put - p
    /\ Holds(f, Copy(w, p, Wrapped(w.max, h)))

HalfCopied ==
    /\ Len(build.half) >= 1 =>
          /\ container[Source].q.get <= build.half[1]
          /\ build.half[1] <= container[Source].q.put
    /\ Len(build.half) = 2 =>
          /\ build.half[2] <= container[Source].q.max
          /\ HalfHolds(BuildId, Completed(container[Source].q), build.half[1], build.half[2])

SetInv ==
    /\ SetType /\ References /\ Building /\ Queues /\ HalfCopied
    /\ DeliveryOrder /\ StaysWithFilter

\* The queue to copy is the one of the filter, as ids are distinct.
LEMMA SourceIsFilter ==
    ASSUME Building, SetType, Sources # {}
    PROVE  /\ Source \in DOMAIN container /\ container[Source].filterid = BuildId
           /\ Source \in Sources
  <1>1. PICK s \in Sources : TRUE
    OBVIOUS
  <1>2. \A i \in Sources : i = s
    BY <1>1 DEF Sources, Building
  <1>3. s \in DOMAIN container /\ DOMAIN container \subseteq Int
    BY <1>1 DEF Sources, SetType
  <1>4. s <= s
    BY <1>3
  <1>5. \E i \in Sources : \A j \in Sources : i <= j
    BY <1>1, <1>2, <1>4
  <1>6. Source \in Sources
    BY <1>5 DEF Source
  <1> QED
    BY <1>6 DEF Sources

\* A container in which one queue is replaced.
LEMMA QueueReplaced ==
    ASSUME NEW c \in Seq(Entry), NEW i \in DOMAIN c, NEW r \in Members
    PROVE  LET n == [c EXCEPT ![i].q = r]
           IN  /\ n \in Seq(Entry) /\ Len(n) = Len(c) /\ DOMAIN n = DOMAIN c
               /\ \A j \in DOMAIN c : n[j].filterid = c[j].filterid
               /\ n[i].q = r
               /\ \A j \in DOMAIN c : j # i => n[j].q = c[j].q
  <1> DEFINE e == [c[i] EXCEPT !.q = r]
             n == [c EXCEPT ![i] = e]
  <1>1. c[i] \in Entry
    OBVIOUS
  <1>2. e \in Entry /\ e.filterid = c[i].filterid /\ e.q = r
    BY <1>1 DEF Entry
  <1> HIDE DEF e
  <1>3. n \in Seq(Entry) /\ Len(n) = Len(c) /\ DOMAIN n = DOMAIN c
    BY <1>2
  <1>4. n[i] = e /\ \A j \in DOMAIN c : j # i => n[j] = c[j]
    OBVIOUS
  <1> HIDE DEF n
  <1>5. /\ n \in Seq(Entry) /\ Len(n) = Len(c) /\ DOMAIN n = DOMAIN c
        /\ \A j \in DOMAIN c : n[j].filterid = c[j].filterid
        /\ n[i].q = r
        /\ \A j \in DOMAIN c : j # i => n[j].q = c[j].q
    BY <1>2, <1>3, <1>4
  <1>6. n = [c EXCEPT ![i].q = r]
    BY DEF n, e
  <1> QED
    BY <1>5, <1>6

\* What Holds says depends on the packets, the history of storing and what was
\* delivered of the filter.
LEMMA HoldsKept ==
    ASSUME NEW f, NEW q \in Queue, NEW r, Holds(f, q), SetType,
           Qsize(r) = Qsize(q), \A i \in 1 .. Qsize(q) : At(r, i) = At(q, i),
           delivered'[f] = delivered[f], torn \subseteq torn',
           \/ stored' = stored /\ home' = home
           \/ stored' = stored + 1 /\ \E g \in FId : home' = Append(home, g)
    PROVE  Holds(f, r)'
  <1> SUFFICES ASSUME InOrder(f, q) PROVE InOrder(f, r)'
    BY DEF Holds
  <1>1. Qsize(q) \in Nat /\ \A i \in 1 .. Qsize(q) : At(q, i) \in Nat
    BY QueueFacts
  <1>2. \A p \in 1 .. stored : p \in 1 .. stored' /\ home'[p] = home[p]
    <2>1. stored \in Nat /\ home \in Seq(FId) /\ Len(home) = stored
      BY DEF SetType
    <2>2. CASE stored' = stored + 1 /\ \E g \in FId : home' = Append(home, g)
      BY <2>1, <2>2
    <2> QED
      BY <2>2
  <1>3. \A i \in 1 .. Qsize(r) : At(r, i) \in 1 .. stored' /\ home'[At(r, i)] = f
    BY <1>2 DEF InOrder
  <1>4. /\ \A i, j \in 1 .. Qsize(r) : i < j => At(r, i) < At(r, j)
        /\ \A i \in 1 .. Qsize(r), d \in DOMAIN delivered'[f] : delivered'[f][d] < At(r, i)
    BY <1>1 DEF InOrder
  <1> QED
    BY <1>3, <1>4 DEF InOrder

\* A queue of which a part is copied, the newest packets, is still one of f.
LEMMA HoldsNewest ==
    ASSUME NEW f, NEW q \in Queue, NEW r \in Queue, NEW k \in Nat, Holds(f, q),
           \A i \in 1 .. Qsize(r) : i + k \in 1 .. Qsize(q) /\ At(r, i) = At(q, i + k)
    PROVE  Holds(f, r)
  <1> SUFFICES ASSUME InOrder(f, q) PROVE InOrder(f, r)
    BY DEF Holds
  <1>1. Qsize(q) \in Nat /\ Qsize(r) \in Nat
    BY QueueFacts
  <1>2. \A i, j \in 1 .. Qsize(r) : i < j => At(r, i) < At(r, j)
    <2> SUFFICES ASSUME NEW i \in 1 .. Qsize(r), NEW j \in 1 .. Qsize(r), i < j
                 PROVE  At(r, i) < At(r, j)
      OBVIOUS
    <2>1. i + k < j + k
      BY <1>1
    <2> QED
      BY <2>1 DEF InOrder
  <1> QED
    BY <1>2 DEF InOrder

\* A packet is stored for f: it is newer than all that was delivered.
LEMMA HoldsPut ==
    ASSUME NEW f \in FId, NEW q \in Queue, NEW r, Holds(f, q), SetType, StaysWithFilter,
           Qsize(q) < q.max, r = QueuePut(q, stored + 1),
           stored' = stored + 1, home' = Append(home, f), delivered' = delivered, torn' = torn
    PROVE  Holds(f, r)'
  <1> SUFFICES ASSUME f \notin torn, InOrder(f, q) PROVE InOrder(f, r)'
    BY DEF Holds
  <1> DEFINE n == Qsize(q)
  <1>1. n \in Nat /\ \A i \in 1 .. n : At(q, i) \in Nat
    BY QueueFacts
  <1>2. stored \in Nat /\ home \in Seq(FId) /\ Len(home) = stored
    BY DEF SetType
  <1>3. stored + 1 \in Nat
    BY <1>2
  <1>4. Qsize(r) = n + 1 /\ (\A i \in 1 .. n : At(r, i) = At(q, i)) /\ At(r, n + 1) = stored + 1
    BY <1>3, PutAppends
  <1>5. home'[stored + 1] = f /\ \A p \in 1 .. stored : home'[p] = home[p]
    BY <1>2
  <1>6. \A d \in DOMAIN delivered[f] : delivered[f][d] \in 1 .. stored
    BY DEF StaysWithFilter, SetType
  <1>7. \A i \in 1 .. n + 1 : i \in 1 .. n \/ i = n + 1
    BY <1>1
  <1>8. \A i \in 1 .. n : At(r, i) \in 1 .. stored /\ home[At(r, i)] = f
    BY <1>4 DEF InOrder
  <1>9. \A i \in 1 .. n + 1 : At(r, i) \in 1 .. stored' /\ home'[At(r, i)] = f
    BY <1>2, <1>4, <1>5, <1>7, <1>8
  <1>10. \A i, j \in 1 .. n + 1 : i < j => At(r, i) < At(r, j)
    <2> SUFFICES ASSUME NEW i \in 1 .. n + 1, NEW j \in 1 .. n + 1, i < j
                 PROVE  At(r, i) < At(r, j)
      OBVIOUS
    <2>1. i \in 1 .. n
      BY <1>1
    <2>2. CASE j \in 1 .. n
      BY <1>4, <2>1, <2>2 DEF InOrder
    <2>3. CASE j = n + 1
      BY <1>2, <1>4, <1>8, <2>1, <2>3
    <2> QED
      BY <1>7, <2>2, <2>3
  <1>11. ASSUME NEW i \in 1 .. n + 1, NEW d \in DOMAIN delivered[f]
         PROVE  delivered[f][d] < At(r, i)
    <2>1. CASE i \in 1 .. n
      BY <1>4, <2>1 DEF InOrder
    <2>2. CASE i = n + 1
      BY <1>2, <1>4, <1>6, <2>2
    <2> QED
      BY <1>7, <2>1, <2>2
  <1> QED
    BY <1>4, <1>9, <1>10, <1>11 DEF InOrder

\* The oldest packet of a queue of f is delivered.
LEMMA HoldsGet ==
    ASSUME NEW f \in FId, NEW q \in Queue, NEW r, Holds(f, q), SetType, Qsize(q) > 0,
           r = [q EXCEPT !.get = q.get + 1],
           delivered' = [delivered EXCEPT ![f] = Append(@, At(q, 1))],
           UNCHANGED <<stored, home, torn>>
    PROVE  Holds(f, r)'
  <1> SUFFICES ASSUME InOrder(f, q) PROVE InOrder(f, r)'
    BY DEF Holds
  <1> DEFINE n == Qsize(q)
  <1>1. n \in Nat /\ \A i \in 1 .. n : At(q, i) \in Nat
    BY QueueFacts
  <1>2. Qsize(r) = n - 1 /\ \A i \in 1 .. n - 1 : At(r, i) = At(q, i + 1)
    BY GetTakesOldest
  <1>3. \A i \in 1 .. n - 1 : i + 1 \in 1 .. n /\ 1 \in 1 .. n /\ 1 < i + 1
    BY <1>1
  <1>4. delivered'[f] = Append(delivered[f], At(q, 1)) /\ delivered[f] \in Seq(Nat)
    BY DEF SetType
  <1>5. \A d \in DOMAIN delivered'[f] :
           \/ d \in DOMAIN delivered[f] /\ delivered'[f][d] = delivered[f][d]
           \/ delivered'[f][d] = At(q, 1)
    BY <1>4
  <1>6. \A i \in 1 .. n - 1 : At(r, i) \in 1 .. stored' /\ home'[At(r, i)] = f
    BY <1>2, <1>3 DEF InOrder
  <1>7. \A i, j \in 1 .. n - 1 : i < j => At(r, i) < At(r, j)
    <2> SUFFICES ASSUME NEW i \in 1 .. n - 1, NEW j \in 1 .. n - 1, i < j
                 PROVE  At(r, i) < At(r, j)
      OBVIOUS
    <2>1. i + 1 < j + 1
      BY <1>1
    <2> QED
      BY <1>2, <1>3, <2>1 DEF InOrder
  <1>8. ASSUME NEW i \in 1 .. n - 1, NEW d \in DOMAIN delivered'[f]
        PROVE  delivered'[f][d] < At(r, i)
    <2>1. At(q, 1) < At(q, i + 1)
      BY <1>3 DEF InOrder
    <2> QED
      BY <1>2, <1>3, <1>5, <2>1 DEF InOrder
  <1> QED
    BY <1>2, <1>6, <1>7, <1>8 DEF InOrder

\* The service starts without queues.
LEMMA InitSetInv == Init => SetInv
  <1> SUFFICES ASSUME Init PROVE SetInv
    OBVIOUS
  <1>1. /\ build.ids = <<>> /\ build.done = <<>> /\ build.half = <<>>
        /\ build \in [ids : Seq(FilterId), done : Seq(Entry), half : Seq(Nat)]
    BY DEF Init, NotBuilding
  <1>2. delivered \in [FId -> Seq(Nat)] /\ \A f \in FId : delivered[f] = <<>>
    BY DEF Init, FId
  <1>3. put \in [Putter -> PutState] /\ \A t \in Putter : put[t].at = "idle"
    BY DEF Init, PutState, Idle
  <1>4. SetType
    <2>1. container \in Seq(Entry) /\ filterids \in Seq(FilterId) /\ home \in Seq(FId) /\ Len(home) = stored
      BY DEF Init
    <2>2. mode \in World /\ pq \in Nat /\ guard \in {"free", "init"} /\ stored \in Nat /\ corrupt \in BOOLEAN
          /\ torn \subseteq FId
      BY DEF Init
    <2>3. shaper \in ShaperState
      BY DEF Init, ShaperState
    <2> QED
      BY <1>1, <1>2, <1>3, <2>1, <2>2, <2>3 DEF SetType
  <1>5. References
    BY <1>3 DEF Init, References
  <1>6. Building
    BY <1>1 DEF Init, Building
  <1>7. Queues /\ HalfCopied
    BY <1>1 DEF Init, Queues, HalfCopied
  <1>8. DeliveryOrder /\ StaysWithFilter
    BY <1>2 DEF Init, DeliveryOrder, StaysWithFilter
  <1> QED
    BY <1>4, <1>5, <1>6, <1>7, <1>8 DEF SetInv

\* What init copies next does not change while filter ids stay.
LEMMA SourceKept ==
    ASSUME build'.ids = build.ids, build'.done = build.done, DOMAIN container' = DOMAIN container,
           \A i \in DOMAIN container : container'[i].filterid = container[i].filterid
    PROVE  BuildId' = BuildId /\ Sources' = Sources /\ Source' = Source
  <1>1. BuildId' = BuildId
    BY DEF BuildId
  <1>2. Sources' = Sources
    BY <1>1 DEF Sources
  <1>3. Source' = Source
    BY <1>2 DEF Source
  <1> QED
    BY <1>1, <1>2, <1>3

\* A step of a call that touches no queue.
LEMMA CallStep ==
    ASSUME SetInv, UNCHANGED <<mode, pq, container, filterids, guard, build, stored, home, delivered, torn>>,
           put' \in [Putter -> PutState], shaper' \in ShaperState, corrupt' \in BOOLEAN, References'
    PROVE  SetInv'
  <1>1. BuildId' = BuildId /\ Sources' = Sources /\ Source' = Source
    BY SourceKept
  <1>2. SetType' /\ Building'
    BY <1>1 DEF SetInv, SetType, Building
  <1>3. Queues'
    BY DEF SetInv, Queues, Holds, InOrder
  <1>4. HalfCopied'
    BY <1>1 DEF SetInv, HalfCopied, HalfHolds, Holds, InOrder
  <1>5. DeliveryOrder' /\ StaysWithFilter'
    BY DEF SetInv, DeliveryOrder, StaysWithFilter
  <1> QED
    BY <1>2, <1>3, <1>4, <1>5 DEF SetInv

\* Steps of put_packet before it reaches a queue, and of one that reaches a
\* container that is gone.
LEMMA PutCallStep ==
    ASSUME SetInv, NEW t \in Putter,
           \/ \E f \in Index : PutStart(t, f)
           \/ PutSize(t) \/ PutRef(t) \/ PutDangling(t)
    PROVE  SetInv'
  <1>1. UNCHANGED <<mode, pq, container, filterids, guard, build, shaper, stored, home, delivered, torn>>
    BY DEF PutStart, PutSize, PutRef, PutDangling, SetVars, History
  <1>2. /\ put \in [Putter -> PutState] /\ shaper \in ShaperState /\ corrupt \in BOOLEAN /\ pq \in Nat
        /\ container \in Seq(Entry)
    BY DEF SetInv, SetType
  <1>3. put[t] \in PutState
    BY <1>2
  <1>4. Index \subseteq Nat
    BY SetAssumption, FS_CardinalityType DEF Index
  <1>5. PICK s \in PutState :
          put' = [put EXCEPT ![t] = s] /\ (s.at \in {"write", "store"} => Refers(s.f, s.c))
    <2>1. ASSUME NEW f \in Index, PutStart(t, f)
          PROVE  \E s \in PutState :
                    put' = [put EXCEPT ![t] = s] /\ (s.at \in {"write", "store"} => Refers(s.f, s.c))
      <3> DEFINE s == [at |-> IF pq = 0 THEN "init" ELSE "size", f |-> f]
      <3>1. s \in PutState /\ s.at \notin {"write", "store"}
        BY <1>4 DEF PutState
      <3>2. put' = [put EXCEPT ![t] = s]
        BY <2>1 DEF PutStart
      <3> QED
        BY <3>1, <3>2
    <2>2. ASSUME PutSize(t)
          PROVE  \E s \in PutState :
                    put' = [put EXCEPT ![t] = s] /\ (s.at \in {"write", "store"} => Refers(s.f, s.c))
      <3> DEFINE s == IF Len(container) > put[t].f THEN [at |-> "ref", f |-> put[t].f] ELSE Idle
      <3>1. put[t].f \in Nat
        BY <1>3, <2>2 DEF PutSize, PutState, Idle
      <3>2. s \in PutState /\ s.at \notin {"write", "store"}
        BY <3>1 DEF PutState, Idle
      <3>3. put' = [put EXCEPT ![t] = s]
        BY <2>2 DEF PutSize
      <3> QED
        BY <3>2, <3>3
    <2>3. ASSUME PutRef(t)
          PROVE  \E s \in PutState :
                    put' = [put EXCEPT ![t] = s] /\ (s.at \in {"write", "store"} => Refers(s.f, s.c))
      <3> DEFINE w == [at |-> "write", f |-> put[t].f, c |-> pq]
                 s == IF Len(container) > put[t].f THEN w ELSE Idle
      <3>1. put[t].f \in Nat
        BY <1>3, <2>3 DEF PutRef, PutState, Idle
      <3>2. w \in PutState /\ w.f = put[t].f /\ w.c = pq
        BY <1>2, <3>1 DEF PutState
      <3>3. s \in PutState
        BY <3>2 DEF PutState
      <3>4. s.at \in {"write", "store"} => Refers(s.f, s.c)
        <4>1. CASE Len(container) > put[t].f
          BY <1>2, <3>1, <3>2, <4>1 DEF Refers
        <4>2. CASE ~ (Len(container) > put[t].f)
          BY <4>2 DEF Idle
        <4> QED
          BY <4>1, <4>2
      <3>5. put' = [put EXCEPT ![t] = s]
        BY <2>3 DEF PutRef
      <3> QED
        BY <3>3, <3>4, <3>5
    <2>4. ASSUME PutDangling(t)
          PROVE  \E s \in PutState :
                    put' = [put EXCEPT ![t] = s] /\ (s.at \in {"write", "store"} => Refers(s.f, s.c))
      <3>1. Idle \in PutState /\ Idle.at \notin {"write", "store"}
        BY DEF PutState, Idle
      <3>2. put' = [put EXCEPT ![t] = Idle]
        BY <2>4 DEF PutDangling
      <3> QED
        BY <3>1, <3>2
    <2> QED
      BY <2>1, <2>2, <2>3, <2>4
  <1>6. put' \in [Putter -> PutState] /\ put'[t] = s /\ \A u \in Putter : u # t => put'[u] = put[u]
    BY <1>2, <1>5
  <1>7. References'
    BY <1>1, <1>5, <1>6 DEF SetInv, References, Refers
  <1>8. corrupt' \in BOOLEAN
    BY <1>2 DEF PutStart, PutSize, PutRef, PutDangling, History
  <1> QED
    BY <1>1, <1>2, <1>6, <1>7, <1>8, CallStep

\* set_queue_state takes its reference.
LEMMA SetStateRefStep ==
    ASSUME SetInv, NEW f \in Index, NEW ticks \in 0 .. MaxTicks, SetStateRef(f, ticks)
    PROVE  SetInv'
  <1>1. UNCHANGED <<mode, pq, container, filterids, guard, build, put, stored, home, delivered, torn, corrupt>>
    BY DEF SetStateRef, SetVars, History
  <1>2. /\ put \in [Putter -> PutState] /\ corrupt \in BOOLEAN /\ pq \in Nat
        /\ container \in Seq(Entry)
    BY DEF SetInv, SetType
  <1>3. f \in Nat /\ ticks \in Nat
    BY SetAssumption, FS_CardinalityType DEF Index
  <1>4. shaper' = [at |-> "write", f |-> f, c |-> pq, ticks |-> ticks] /\ Len(container) > f
    BY DEF SetStateRef
  <1>5. shaper' \in ShaperState /\ shaper'.f = f /\ shaper'.c = pq
    BY <1>2, <1>3, <1>4 DEF ShaperState
  <1>6. References'
    BY <1>1, <1>2, <1>3, <1>4, <1>5 DEF SetInv, References, Refers
  <1> QED
    BY <1>1, <1>2, <1>5, <1>6, CallStep

\* The packet threads that go on at a queue go on at the same one.
PutsGoOn ==
    /\ put' \in [Putter -> PutState]
    /\ \A t \in Putter :
          put'[t].at \in {"write", "store"} =>
             put[t].at \in {"write", "store"} /\ put'[t].f = put[t].f /\ put'[t].c = put[t].c

\* A step that replaces one queue by another, apart from the packets in it.
LEMMA UpdateStep ==
    ASSUME SetInv, NEW i \in DOMAIN container, NEW r \in Members,
           container' = [container EXCEPT ![i].q = r],
           UNCHANGED <<mode, pq, filterids, guard, build>>,
           PutsGoOn,
           shaper' \in ShaperState, shaper' = shaper \/ shaper' = Idle,
           stored' \in Nat, home' \in Seq(FId), Len(home') = stored',
           delivered' \in [FId -> Seq(Nat)], torn' \subseteq FId, corrupt' \in BOOLEAN
    PROVE  /\ SetType' /\ References' /\ Building'
           /\ BuildId' = BuildId /\ Sources' = Sources /\ Source' = Source
           /\ DOMAIN container' = DOMAIN container
           /\ \A j \in DOMAIN container : container'[j].filterid = container[j].filterid
           /\ container'[i].q = r
           /\ \A j \in DOMAIN container : j # i => container'[j].q = container[j].q
  <1>1. container \in Seq(Entry)
    BY DEF SetInv, SetType
  <1>2. /\ container' \in Seq(Entry) /\ Len(container') = Len(container)
        /\ DOMAIN container' = DOMAIN container
        /\ \A j \in DOMAIN container : container'[j].filterid = container[j].filterid
        /\ container'[i].q = r
        /\ \A j \in DOMAIN container : j # i => container'[j].q = container[j].q
    BY <1>1, QueueReplaced
  <1>3. BuildId' = BuildId /\ Sources' = Sources /\ Source' = Source
    BY <1>2, SourceKept
  <1>4. SetType'
    BY <1>2 DEF SetInv, SetType, PutsGoOn
  <1>5. References'
    <2>1. \A f, c : Refers(f, c) => Refers(f, c)'
      BY <1>2 DEF Refers
    <2>2. ASSUME NEW t \in Putter, put'[t].at \in {"write", "store"}
          PROVE  /\ put'[t].f = put[t].f /\ put'[t].c = put[t].c
                 /\ Refers(put[t].f, put[t].c)
      BY <2>2 DEF SetInv, References, PutsGoOn
    <2>3. shaper' # Idle => shaper' = shaper /\ Refers(shaper.f, shaper.c)
      BY DEF SetInv, References
    <2> QED
      BY <1>2, <2>2, <2>3 DEF References, Refers
  <1>6. Building'
    BY <1>2, <1>3 DEF SetInv, Building
  <1> QED
    BY <1>2, <1>3, <1>4, <1>5, <1>6

\* A filter id and a queue of a container.
LEMMA EntryFacts ==
    ASSUME SetInv, NEW i \in DOMAIN container
    PROVE  /\ container[i].filterid \in FId /\ container[i].q \in Members
           /\ Completed(container[i].q) \in Queue
           /\ Holds(container[i].filterid, Completed(container[i].q))
  <1>1. container \in Seq(Entry)
    BY DEF SetInv, SetType
  <1>2. container[i] \in Entry
    BY <1>1
  <1>3. container[i].filterid \in FId /\ container[i].q \in Members
    BY <1>2 DEF Entry
  <1>4. Holds(container[i].filterid, Completed(container[i].q))
    BY DEF SetInv, Queues
  <1> QED
    BY <1>3, <1>4, MembersFacts

\* The same of the container under construction.
LEMMA DoneFacts ==
    ASSUME SetInv, NEW i \in DOMAIN build.done
    PROVE  /\ build.done[i].filterid \in FId /\ build.done[i].q \in Members
           /\ Completed(build.done[i].q) \in Queue
           /\ Holds(build.done[i].filterid, Completed(build.done[i].q))
  <1>1. build.done \in Seq(Entry)
    BY DEF SetInv, SetType
  <1>2. build.done[i] \in Entry
    BY <1>1
  <1>3. build.done[i].filterid \in FId /\ build.done[i].q \in Members
    BY <1>2 DEF Entry
  <1>4. Holds(build.done[i].filterid, Completed(build.done[i].q))
    BY DEF SetInv, Queues
  <1> QED
    BY <1>3, <1>4, MembersFacts

\* Nothing is under construction while the mutex is free.
LEMMA FreeFacts ==
    ASSUME SetInv, guard = "free"
    PROVE  build.half = <<>> /\ build.done = <<>> /\ build.ids = <<>>
  BY DEF SetInv, Building, NotBuilding

\* The queue being copied and what has been read of it.
LEMMA HalfFacts ==
    ASSUME SetInv, Len(build.half) >= 1
    PROVE  /\ Source \in DOMAIN container /\ container[Source].q \in Members
           /\ container[Source].filterid = BuildId /\ BuildId \in FilterId
           /\ guard = "init" /\ Len(build.done) < Len(build.ids)
           /\ build.half[1] \in Nat /\ container[Source].q.get <= build.half[1]
           /\ build.half[1] <= container[Source].q.put
           /\ Len(build.half) = 2 =>
                 /\ build.half[2] \in 0 .. container[Source].q.max
                 /\ HalfHolds(BuildId, Completed(container[Source].q), build.half[1], build.half[2])
  <1>1. build.half # <<>> /\ build.half \in Seq(Nat)
    BY DEF SetInv, SetType
  <1>2. guard = "init" /\ Len(build.done) < Len(build.ids) /\ Sources # {}
    BY <1>1 DEF SetInv, Building
  <1>3. Source \in DOMAIN container /\ container[Source].filterid = BuildId
    BY <1>2, SourceIsFilter DEF SetInv
  <1>4. container[Source].q \in Members
    BY <1>3, EntryFacts
  <1>5. container[Source].q.max \in Nat
    BY <1>4, MembersFacts
  <1>6. build.half[1] \in Nat /\ (Len(build.half) = 2 => build.half[2] \in Nat)
    BY <1>1
  <1>7. BuildId \in FilterId
    <2>1. build.ids \in Seq(FilterId) /\ build.done \in Seq(Entry)
      BY DEF SetInv, SetType
    <2>2. Len(build.done) + 1 \in DOMAIN build.ids
      BY <1>2, <2>1
    <2> QED
      BY <2>1, <2>2 DEF BuildId
  <1>8. Len(build.half) = 2 => build.half[2] \in 0 .. container[Source].q.max
    BY <1>5, <1>6 DEF SetInv, HalfCopied
  <1> QED
    BY <1>2, <1>3, <1>4, <1>6, <1>7, <1>8 DEF SetInv, HalfCopied

\* A queue and the same queue with other ticks give the same copy.
LEMMA CopyKept ==
    ASSUME NEW q \in Queue, NEW r \in Queue, NEW p \in Nat, NEW f \in 0 .. q.max - 1,
           q.get <= p, p <= q.put,
           r.put = q.put, r.get = q.get, r.max = q.max, r.data = q.data
    PROVE  /\ Copy(q, p, f) \in Queue
           /\ Qsize(Copy(r, p, f)) = Qsize(Copy(q, p, f))
           /\ \A i \in 1 .. Qsize(Copy(q, p, f)) : At(Copy(r, p, f), i) = At(Copy(q, p, f), i)
  <1>1. LET u == Copy(q, p, f)
        IN  /\ u \in Queue /\ Qsize(u) = p - q.get
            /\ u.free = f /\ u.max = q.max /\ u.data = q.data
    BY CopyFacts
  <1>2. LET u == Copy(r, p, f)
        IN  /\ u \in Queue /\ Qsize(u) = p - q.get
            /\ u.free = f /\ u.max = q.max /\ u.data = q.data
    BY CopyFacts
  <1> QED
    BY <1>1, <1>2 DEF At

\* The queues of the next state, each named with its filter.
LEMMA QueuesPrimed ==
    ASSUME \A j \in DOMAIN container' : \A f, q, w :
              f = container'[j].filterid /\ q = container'[j].q /\ w = Completed(q) => Holds(f, w)',
           \A j \in DOMAIN build'.done : \A f, q, w :
              f = build'.done[j].filterid /\ q = build'.done[j].q /\ w = Completed(q) => Holds(f, w)'
    PROVE  Queues'
  <1>1. ASSUME NEW j \in DOMAIN container'
        PROVE  Holds(container[j].filterid, Completed(container[j].q))'
    <2>1. PICK f, q, w : f = container'[j].filterid /\ q = container'[j].q /\ w = Completed(q)
      OBVIOUS
    <2>2. Holds(f, w)'
      BY <2>1
    <2>3. (Completed(container[j].q))' = w /\ (container[j].filterid)' = f
      BY <2>1 DEF Completed, FinalPut, FinalFree, Wrapped
    <2> QED
      BY <2>2, <2>3 DEF Holds, InOrder
  <1>2. ASSUME NEW j \in DOMAIN build'.done
        PROVE  Holds(build.done[j].filterid, Completed(build.done[j].q))'
    <2>1. PICK f, q, w : f = build'.done[j].filterid /\ q = build'.done[j].q /\ w = Completed(q)
      OBVIOUS
    <2>2. Holds(f, w)'
      BY <2>1
    <2>3. (Completed(build.done[j].q))' = w /\ (build.done[j].filterid)' = f
      BY <2>1 DEF Completed, FinalPut, FinalFree, Wrapped
    <2> QED
      BY <2>2, <2>3 DEF Holds, InOrder
  <1> QED
    BY <1>1, <1>2 DEF Queues

\* The half copied queue of the next state.
LEMMA HalfPrimed ==
    ASSUME NEW g, NEW r, NEW w, NEW p, NEW h, BuildId' = g, (container[Source].q)' = r,
           w = Completed(r), p = build'.half[1], h = build'.half[2],
           Len(build'.half) >= 1 => r.get <= p /\ p <= r.put,
           Len(build'.half) = 2 => h <= r.max /\ HalfHolds(g, w, p, h)'
    PROVE  HalfCopied'
  <1>1. Len(build'.half) >= 1 =>
           /\ (container[Source].q)'.get <= build'.half[1]
           /\ build'.half[1] <= (container[Source].q)'.put
    OBVIOUS
  <1>2. ASSUME Len(build'.half) = 2
        PROVE  (HalfHolds(BuildId, Completed(container[Source].q), build.half[1], build.half[2]))'
    <2>1. HalfHolds(g, w, p, h)'
      BY <1>2
    <2>2. (Completed(container[Source].q))' = w
      BY DEF Completed, FinalPut, FinalFree, Wrapped
    <2> QED
      BY <2>1, <2>2 DEF HalfHolds, Holds, InOrder
  <1> QED
    BY <1>1, <1>2 DEF HalfCopied

\* A step that delivers nothing, and may store one packet.
NothingTaken ==
    /\ delivered' = delivered /\ torn' = torn
    /\ \/ stored' = stored /\ home' = home
       \/ stored' = stored + 1 /\ \E g \in FId : home' = Append(home, g)

\* The queue being copied keeps all but its ticks_left.
LEMMA HalfSame ==
    ASSUME SetType, NothingTaken, NEW g, NEW w \in Queue, NEW v \in Queue, NEW p \in Nat,
           NEW h \in 0 .. w.max, w.get <= p, p <= w.put, HalfHolds(g, w, p, h),
           v.put = w.put, v.free = w.free, v.get = w.get, v.max = w.max, v.data = w.data
    PROVE  HalfHolds(g, v, p, h)'
  <1>1. PICK f : f = Wrapped(w.max, h)
    OBVIOUS
  <1>2. w.max \in Nat \ {0}
    BY QueueFacts
  <1>3. f \in 0 .. w.max - 1
    BY <1>1, <1>2 DEF Wrapped
  <1>4. PICK y, u : y = Copy(w, p, f) /\ u = Copy(v, p, f)
    OBVIOUS
  <1>5. y \in Queue /\ Qsize(u) = Qsize(y) /\ \A n \in 1 .. Qsize(y) : At(u, n) = At(y, n)
    BY <1>3, <1>4, CopyKept
  <1>6. Holds(g, y)
    BY <1>1, <1>4 DEF HalfHolds
  <1>7. Holds(g, u)'
    BY <1>5, <1>6, HoldsKept DEF NothingTaken
  <1>8. g \in torn \/ Ahead(v.max, f, v.free) <= v.put - p
    BY <1>1 DEF HalfHolds
  <1> QED
    BY <1>1, <1>4, <1>7, <1>8 DEF HalfHolds, NothingTaken

\* A packet is stored in the queue being copied.
LEMMA HalfPut ==
    ASSUME SetType, NothingTaken, NEW g, NEW w \in Queue, NEW x \in Nat, NEW v, v = QueuePut(w, x),
           Qsize(w) < w.max, NEW p \in Nat,
           NEW h \in 0 .. w.max, w.get <= p, p <= w.put, HalfHolds(g, w, p, h)
    PROVE  HalfHolds(g, v, p, h)'
  <1>0. CASE g \in torn
    BY <1>0 DEF HalfHolds, Holds, NothingTaken
  <1>z. CASE g \notin torn
    <2>1. PICK f : f = Wrapped(w.max, h)
      OBVIOUS
    <2>2. w.max \in Nat \ {0}
      BY QueueFacts
    <2>3. f \in 0 .. w.max - 1
      BY <2>1, <2>2 DEF Wrapped
    <2>4. Ahead(w.max, f, w.free) <= w.put - p /\ Holds(g, Copy(w, p, f))
      BY <1>z, <2>1 DEF HalfHolds
    <2>5. LET n == QueuePut(w, x)
          IN  /\ p <= n.put /\ Ahead(n.max, f, n.free) <= n.put - p
              /\ \A k \in 1 .. p - w.get : At(Copy(n, p, f), k) = At(Copy(w, p, f), k)
      BY <2>3, <2>4, PutBesideCopy
    <2>6. /\ p <= v.put /\ Ahead(v.max, f, v.free) <= v.put - p
          /\ \A k \in 1 .. p - w.get : At(Copy(v, p, f), k) = At(Copy(w, p, f), k)
      BY <2>5, Zenon
    <2>7. v \in Queue /\ v.max = w.max /\ v.get = w.get
      BY PutAppends
    <2>8. PICK y, u : y = Copy(w, p, f) /\ u = Copy(v, p, f)
      OBVIOUS
    <2>9. y \in Queue /\ Qsize(y) = p - w.get
      BY <2>3, <2>8, CopyFacts
    <2>10. Qsize(u) = p - w.get
      <3>1. f \in 0 .. v.max - 1 /\ v.get <= p /\ p <= v.put
        BY <2>3, <2>6, <2>7
      <3>2. Qsize(u) = p - v.get
        BY <2>7, <2>8, <3>1, CopyFacts
      <3> QED
        BY <2>7, <3>2
    <2>11. \A k \in 1 .. Qsize(y) : At(u, k) = At(y, k)
      BY <2>6, <2>8, <2>9
    <2>12. Holds(g, u)'
      BY <2>4, <2>8, <2>9, <2>10, <2>11, HoldsKept DEF NothingTaken
    <2> QED
      BY <2>1, <2>6, <2>7, <2>8, <2>12 DEF HalfHolds
  <1> QED
    BY <1>0, <1>z

\* v has the members of w, but for ticks_left.
SamePackets(w, v) ==
    v.put = w.put /\ v.free = w.free /\ v.get = w.get /\ v.max = w.max /\ v.data = w.data

\* A queue of the container changes, but no packet is delivered: either it takes a
\* packet of its filter or it holds the same packets.
LEMMA ChangeStep ==
    ASSUME SetInv, NEW i \in DOMAIN container, NEW f, NEW q, NEW r \in Members, NEW w, NEW v,
           f = container[i].filterid, q = container[i].q, w = Completed(q), v = Completed(r),
           container' = [container EXCEPT ![i].q = r], q.put <= r.put,
           UNCHANGED <<mode, pq, filterids, guard, build, delivered, torn, corrupt>>,
           PutsGoOn, shaper' \in ShaperState, shaper' = shaper \/ shaper' = Idle,
           \/ stored' = stored /\ home' = home /\ SamePackets(w, v)
           \/ /\ stored' = stored + 1 /\ home' = Append(home, f)
              /\ Qsize(w) < w.max /\ v = QueuePut(w, stored + 1)
    PROVE  SetInv'
  <1>1. f \in FId /\ q \in Members /\ w \in Queue /\ Holds(f, w) /\ v \in Queue
    BY EntryFacts, MembersFacts
  <1>2. /\ SetType /\ StaysWithFilter /\ DeliveryOrder /\ stored \in Nat /\ stored + 1 \in Nat
        /\ home \in Seq(FId) /\ Len(home) = stored /\ delivered \in [FId -> Seq(Nat)]
        /\ torn \subseteq FId /\ corrupt \in BOOLEAN
    BY DEF SetInv, SetType
  <1>3. NothingTaken
    BY <1>1 DEF NothingTaken
  <1>4. stored' \in Nat /\ home' \in Seq(FId) /\ Len(home') = stored'
    <2>1. CASE stored' = stored /\ home' = home
      BY <1>2, <2>1
    <2>2. CASE stored' = stored + 1 /\ home' = Append(home, f)
      BY <1>1, <1>2, <2>2
    <2> QED
      BY <2>1, <2>2
  <1>5. delivered' \in [FId -> Seq(Nat)] /\ torn' \subseteq FId /\ corrupt' \in BOOLEAN
    BY <1>2
  <1>6. /\ SetType' /\ References' /\ Building'
        /\ BuildId' = BuildId /\ Sources' = Sources /\ Source' = Source
        /\ DOMAIN container' = DOMAIN container
        /\ \A j \in DOMAIN container : container'[j].filterid = container[j].filterid
        /\ container'[i].q = r
        /\ \A j \in DOMAIN container : j # i => container'[j].q = container[j].q
    BY <1>4, <1>5, UpdateStep
  <1>7. Holds(f, v)'
    <2>1. CASE SamePackets(w, v) /\ stored' = stored /\ home' = home
      <3>1. Qsize(v) = Qsize(w) /\ \A n \in 1 .. Qsize(w) : At(v, n) = At(w, n)
        BY <2>1 DEF Qsize, At, SamePackets
      <3> QED
        BY <1>1, <1>2, <1>3, <3>1, HoldsKept DEF NothingTaken
    <2>2. CASE /\ stored' = stored + 1 /\ home' = Append(home, f)
               /\ Qsize(w) < w.max /\ v = QueuePut(w, stored + 1)
      BY <1>1, <1>2, <2>2, HoldsPut
    <2> QED
      BY <2>1, <2>2
  <1>8. ASSUME NEW g, NEW u \in Queue, Holds(g, u) PROVE Holds(g, u)'
    BY <1>2, <1>3, <1>8, HoldsKept DEF NothingTaken
  <1>9. Queues'
    <2>1. ASSUME NEW j \in DOMAIN container', NEW g, NEW a, NEW u,
                 g = container'[j].filterid, a = container'[j].q, u = Completed(a)
          PROVE  Holds(g, u)'
      <3>1. CASE j = i
        <4>1. g = f /\ u = v
          BY <1>6, <2>1, <3>1
        <4> QED
          BY <1>7, <4>1
      <3>2. CASE j # i
        <4>1. g = container[j].filterid /\ u = Completed(container[j].q) /\ j \in DOMAIN container
          BY <1>6, <2>1, <3>2
        <4>2. u \in Queue /\ Holds(g, u)
          BY <4>1, EntryFacts
        <4> QED
          BY <1>8, <4>2
      <3> QED
        BY <3>1, <3>2
    <2>2. ASSUME NEW j \in DOMAIN build'.done, NEW g, NEW a, NEW u,
                 g = build'.done[j].filterid, a = build'.done[j].q, u = Completed(a)
          PROVE  Holds(g, u)'
      <3>1. u \in Queue /\ Holds(g, u)
        BY <2>2, DoneFacts
      <3> QED
        BY <1>8, <3>1
    <2> QED
      BY <2>1, <2>2, QueuesPrimed
  <1>10. HalfCopied'
    <2>1. CASE Len(build.half) < 1
      BY <2>1 DEF HalfCopied
    <2>2. CASE Len(build.half) >= 1
      <3>1. PICK g, a, b, p, h : /\ g = BuildId /\ a = container[Source].q /\ b = container'[Source].q
                                 /\ p = build.half[1] /\ h = build.half[2]
        OBVIOUS
      <3>2. PICK y, z : y = Completed(a) /\ z = Completed(b)
        OBVIOUS
      <3>3. /\ Source \in DOMAIN container /\ a \in Members /\ p \in Nat /\ a.get <= p /\ p <= a.put
            /\ Len(build.half) = 2 => h \in 0 .. a.max /\ HalfHolds(g, y, p, h)
        BY <2>2, <3>1, <3>2, HalfFacts
      <3>4. /\ y \in Queue /\ y.max = a.max /\ y.get = a.get /\ a.put <= y.put /\ a.put \in Nat
            /\ a.max \in Nat
        BY <3>2, <3>3, MembersFacts
      <3>5. y.get <= p /\ p <= y.put
        <4>1. y.put \in Nat
          BY <3>4, QueueFacts
        <4> QED
          BY <3>3, <3>4, <4>1
      <3>6. (container[Source].q)' = b /\ build'.half = build.half /\ BuildId' = g
        BY <1>6, <3>1
      <3>7. CASE Source # i
        <4>1. b = a /\ z = y
          BY <1>6, <3>1, <3>2, <3>3, <3>7
        <4>2. Len(build.half) = 2 => h <= a.max /\ HalfHolds(g, y, p, h)'
          <5>1. ASSUME Len(build.half) = 2 PROVE HalfHolds(g, y, p, h)'
            <6>1. h \in 0 .. y.max /\ HalfHolds(g, y, p, h)
              BY <3>3, <3>4, <5>1
            <6> QED
              BY <1>2, <1>3, <3>3, <3>4, <3>5, <6>1, HalfSame
          <5> QED
            BY <3>3, <3>4, <5>1
        <4> QED
          BY <3>1, <3>2, <3>3, <3>6, <4>1, <4>2, HalfPrimed
      <3>8. CASE Source = i
        <4>1. b = r /\ a = q /\ y = w /\ z = v
          BY <1>6, <3>1, <3>2, <3>8
        <4>2. r.get = q.get /\ r.max = q.max
          <5>1. v.get = r.get /\ v.max = r.max /\ w.get = q.get /\ w.max = q.max
            BY <1>1, MembersFacts
          <5>2. CASE SamePackets(w, v)
            BY <5>1, <5>2 DEF SamePackets
          <5>3. CASE Qsize(w) < w.max /\ v = QueuePut(w, stored + 1)
            <6>1. PICK x \in Nat : x = stored + 1
              BY <1>2
            <6>2. Qsize(w) < w.max /\ v = QueuePut(w, x)
              BY <5>3, <6>1
            <6>3. LET n == QueuePut(w, x) IN n.get = w.get /\ n.max = w.max
              <7>1. w \in Queue /\ Qsize(w) < w.max
                BY <1>1, <6>2
              <7> QED
                BY <7>1, PutAppends
            <6>4. v.get = w.get /\ v.max = w.max
              BY <6>2, <6>3, Zenon
            <6> QED
              BY <5>1, <6>4
          <5> QED
            BY <5>2, <5>3
        <4>3. p <= r.put /\ r.get <= p
          <5>1. q.put \in Nat /\ r.put \in Nat
            BY <1>1, MembersFacts
          <5> QED
            BY <3>3, <4>1, <4>2, <5>1
        <4>4. Len(build.half) = 2 => h <= r.max /\ HalfHolds(g, v, p, h)'
          <5>1. ASSUME Len(build.half) = 2 PROVE HalfHolds(g, v, p, h)'
            <6>1. h \in 0 .. w.max /\ HalfHolds(g, w, p, h) /\ w.get <= p /\ p <= w.put
              BY <3>3, <3>4, <3>5, <4>1, <5>1
            <6>2. CASE SamePackets(w, v)
              <7>1. v.put = w.put /\ v.free = w.free /\ v.get = w.get /\ v.max = w.max /\ v.data = w.data
                BY <6>2 DEF SamePackets
              <7> QED
                BY <1>1, <1>2, <1>3, <3>3, <6>1, <7>1, HalfSame
            <6>3. CASE Qsize(w) < w.max /\ v = QueuePut(w, stored + 1)
              <7>1. PICK x \in Nat : x = stored + 1
                BY <1>2
              <7>2. v = QueuePut(w, x) /\ Qsize(w) < w.max
                BY <6>3, <7>1
              <7> QED
                BY <1>1, <1>2, <1>3, <3>3, <6>1, <7>2, HalfPut
            <6> QED
              BY <6>2, <6>3
          <5> QED
            BY <3>3, <3>4, <4>1, <4>2, <5>1
        <4> QED
          BY <3>1, <3>2, <3>3, <3>6, <4>1, <4>3, <4>4, HalfPrimed
      <3> QED
        BY <3>7, <3>8
    <2>3. build.half \in Seq(Nat)
      BY <1>2 DEF SetType
    <2> QED
      BY <2>1, <2>2, <2>3
  <1>11. DeliveryOrder'
    BY <1>2 DEF DeliveryOrder
  <1>12. StaysWithFilter'
    <2>1. \A p \in 1 .. stored : p \in 1 .. stored' /\ home'[p] = home[p]
      BY <1>1, <1>2
    <2> QED
      BY <1>2, <2>1 DEF StaysWithFilter
  <1> QED
    BY <1>6, <1>9, <1>10, <1>11, <1>12 DEF SetInv

\* get_packet delivers the oldest packet of a queue; init is not copying.
LEMMA TakeStep ==
    ASSUME SetInv, guard = "free", NEW i \in DOMAIN container, NEW f, NEW q, NEW r, NEW x,
           NEW w, NEW v, w = Completed(q), v = Completed(r),
           f = container[i].filterid, q = container[i].q, r \in Members, v = [w EXCEPT !.get = w.get + 1],
           x = At(w, 1), Qsize(w) > 0, container' = [container EXCEPT ![i].q = r],
           delivered' = [delivered EXCEPT ![f] = Append(@, x)],
           UNCHANGED <<mode, pq, filterids, guard, build, put, shaper, stored, home, torn, corrupt>>
    PROVE  SetInv'
  <1>1. f \in FId /\ w \in Queue /\ Holds(f, w)
    BY EntryFacts
  <1>2. /\ SetType /\ StaysWithFilter /\ DeliveryOrder /\ delivered \in [FId -> Seq(Nat)]
        /\ stored' \in Nat /\ home' \in Seq(FId) /\ Len(home') = stored' /\ torn' \subseteq FId
        /\ corrupt' \in BOOLEAN /\ put' \in [Putter -> PutState] /\ shaper' \in ShaperState
    BY DEF SetInv, SetType
  <1>4. 1 \in 1 .. Qsize(w) /\ x \in Nat
    BY <1>1, QueueFacts
  <1>5. f \in torn \/ /\ x \in 1 .. stored /\ home[x] = f
                      /\ \A d \in DOMAIN delivered[f] : delivered[f][d] < x
    BY <1>1, <1>4 DEF Holds, InOrder
  <1>6. /\ delivered' \in [FId -> Seq(Nat)] /\ delivered'[f] = Append(delivered[f], x)
        /\ \A g \in FId : g # f => delivered'[g] = delivered[g]
    BY <1>1, <1>2, <1>4
  <1>7. PutsGoOn
    BY <1>2 DEF PutsGoOn
  <1>8. /\ SetType' /\ References' /\ Building'
        /\ DOMAIN container' = DOMAIN container
        /\ \A j \in DOMAIN container : container'[j].filterid = container[j].filterid
        /\ container'[i].q = r
        /\ \A j \in DOMAIN container : j # i => container'[j].q = container[j].q
    BY <1>2, <1>6, <1>7, UpdateStep
  <1>9. Holds(f, v)'
    BY <1>1, <1>2, HoldsGet
  <1>10. build'.half = <<>> /\ build'.done = <<>>
    BY FreeFacts
  <1>11. Queues'
    <2>1. ASSUME NEW j \in DOMAIN container', NEW g, NEW a, NEW u,
                 g = container'[j].filterid, a = container'[j].q, u = Completed(a)
          PROVE  Holds(g, u)'
      <3>1. CASE j = i
        <4>1. g = f /\ u = v
          BY <1>8, <2>1, <3>1
        <4> QED
          BY <1>9, <4>1
      <3>2. CASE j # i
        <4>1. g = container[j].filterid /\ u = Completed(container[j].q) /\ j \in DOMAIN container
          BY <1>8, <2>1, <3>2
        <4>2. u \in Queue /\ g \in FId /\ Holds(g, u)
          BY <4>1, EntryFacts
        <4>3. g # f
          BY <3>2, <4>1 DEF SetInv, Building
        <4>4. delivered'[g] = delivered[g]
          BY <1>6, <4>2, <4>3
        <4> QED
          BY <1>2, <4>2, <4>4, HoldsKept
      <3> QED
        BY <3>1, <3>2
    <2> QED
      BY <1>10, <2>1, QueuesPrimed
  <1>12. HalfCopied'
    BY <1>10 DEF HalfCopied
  <1>13. \A d \in DOMAIN delivered'[f] :
            \/ d \in DOMAIN delivered[f] /\ delivered'[f][d] = delivered[f][d]
            \/ d = Len(delivered[f]) + 1 /\ delivered'[f][d] = x
    BY <1>1, <1>2, <1>6
  <1>14. DeliveryOrder'
    <2> SUFFICES ASSUME NEW g \in FId \ torn, NEW d \in DOMAIN delivered'[g],
                        NEW e \in DOMAIN delivered'[g], d < e
                 PROVE  delivered'[g][d] < delivered'[g][e]
      BY <1>6 DEF DeliveryOrder
    <2>1. CASE g # f
      BY <1>2, <1>6, <2>1 DEF DeliveryOrder
    <2>2. CASE g = f
      <3>1. DOMAIN delivered[f] = 1 .. Len(delivered[f]) /\ Len(delivered[f]) \in Nat
        BY <1>1, <1>2
      <3>2. d \in DOMAIN delivered'[f] /\ e \in DOMAIN delivered'[f]
        BY <2>2
      <3>3. d \in DOMAIN delivered[f] /\ delivered'[f][d] = delivered[f][d]
        BY <1>13, <3>1, <3>2
      <3>4. CASE e \in DOMAIN delivered[f] /\ delivered'[f][e] = delivered[f][e]
        BY <1>1, <1>2, <2>2, <3>3, <3>4 DEF DeliveryOrder
      <3>5. CASE delivered'[f][e] = x
        BY <1>5, <2>2, <3>3, <3>5
      <3> QED
        BY <1>13, <3>2, <3>4, <3>5
    <2> QED
      BY <2>1, <2>2
  <1>15. StaysWithFilter'
    <2> SUFFICES ASSUME NEW g \in FId \ torn, NEW d \in DOMAIN delivered'[g]
                 PROVE  delivered'[g][d] \in 1 .. stored /\ home[delivered'[g][d]] = g
      BY <1>6 DEF StaysWithFilter
    <2>1. CASE g # f
      BY <1>2, <1>6, <2>1 DEF StaysWithFilter
    <2>2. CASE g = f
      BY <1>1, <1>2, <1>5, <1>13, <2>2 DEF StaysWithFilter
    <2> QED
      BY <2>1, <2>2
  <1> QED
    BY <1>8, <1>11, <1>12, <1>14, <1>15 DEF SetInv

\* One queue of the container changes from q to r.
Changes(i, f, q, r) ==
    /\ i \in DOMAIN container /\ f = container[i].filterid /\ q = container[i].q
    /\ r \in Members /\ q.put <= r.put /\ container' = [container EXCEPT ![i].q = r]

\* A put_packet whose container is the current one reaches a queue of it.
LEMMA PutReaches ==
    ASSUME SetInv, NEW t \in Putter, put[t].at \in {"write", "store"}, put[t].c = pq
    PROVE  put[t].f \in Nat /\ put[t].f + 1 \in DOMAIN container
  <1>1. put \in [Putter -> PutState] /\ container \in Seq(Entry)
    BY DEF SetInv, SetType
  <1>2. put[t].f \in Nat
    <2>1. put[t] \in PutState
      BY <1>1
    <2> QED
      BY <2>1 DEF PutState, Idle
  <1>3. put[t].f < Len(container)
    BY DEF SetInv, References, Refers
  <1> QED
    BY <1>1, <1>2, <1>3

\* put_packet reaches its queue, which may be full.
LEMMA PutWriteDoes ==
    ASSUME SetInv, NEW t \in Putter, PutWrite(t)
    PROVE  \/ UNCHANGED <<container, stored, home>> /\ put' = [put EXCEPT ![t] = Idle]
           \/ \E i, f, q, r, w, v :
                 /\ Changes(i, f, q, r) /\ w = Completed(q) /\ v = Completed(r)
                 /\ i = put[t].f + 1 /\ r.guard = "count"
                 /\ Qsize(w) < w.max /\ v = QueuePut(w, stored + 1)
                 /\ stored' = stored + 1 /\ home' = Append(home, f)
                 /\ put' = [put EXCEPT ![t].at = "store"]
  <1> DEFINE i == put[t].f + 1
  <1>1. put[t].at = "write" /\ put[t].c = pq /\ container[i].q.guard = "free"
    BY DEF PutWrite
  <1>2. i \in DOMAIN container
    BY <1>1, PutReaches
  <1>3. \/ UNCHANGED <<container, stored, home>> /\ put' = [put EXCEPT ![t] = Idle]
        \/ /\ ~ NoSpace(container[i].q) /\ stored' = stored + 1
           /\ container' = [container EXCEPT ![i].q = StoreData(container[i].q, stored + 1)]
           /\ home' = Append(home, container[i].filterid)
           /\ put' = [put EXCEPT ![t].at = "store"]
    BY DEF PutWrite
  <1> HIDE DEF i
  <1>4. PICK f, q, r, x : /\ f = container[i].filterid /\ q = container[i].q /\ x = stored + 1
                          /\ r = StoreData(q, x)
    OBVIOUS
  <1>5. ASSUME ~ NoSpace(q)
        PROVE  /\ r \in Members /\ q.put <= r.put /\ Completed(r) = QueuePut(Completed(q), x)
               /\ Qsize(Completed(q)) < Completed(q).max
    <2>1. q \in Members /\ q.guard = "free"
      BY <1>1, <1>2, <1>4, EntryFacts DEF i
    <2>2. x \in Nat
      BY <1>4 DEF SetInv, SetType
    <2>3. LET n == StoreData(q, x)
          IN  /\ n \in Members /\ q.put <= n.put /\ Completed(n) = QueuePut(Completed(q), x)
              /\ Qsize(Completed(q)) < Completed(q).max
      BY <1>5, <2>1, <2>2, StoreCompletes
    <2> QED
      BY <1>4, <2>3, Zenon
  <1>6. r.guard = "count"
    <2>1. q \in MembersRecord
      BY <1>2, <1>4, EntryFacts, MembersFacts
    <2> QED
      BY <1>4, <2>1 DEF StoreData, MembersRecord
  <1>7. CASE UNCHANGED <<container, stored, home>> /\ put' = [put EXCEPT ![t] = Idle]
    BY <1>7
  <1>8. CASE /\ ~ NoSpace(container[i].q) /\ stored' = stored + 1
             /\ container' = [container EXCEPT ![i].q = StoreData(container[i].q, stored + 1)]
             /\ home' = Append(home, container[i].filterid)
             /\ put' = [put EXCEPT ![t].at = "store"]
    <2>1. container' = [container EXCEPT ![i].q = r]
      BY <1>4, <1>8
    <2>2. ~ NoSpace(q) /\ x = stored + 1
      BY <1>4, <1>8
    <2>3. Changes(i, f, q, r)
      BY <1>2, <1>4, <1>5, <2>1, <2>2 DEF Changes
    <2>4. stored' = stored + 1 /\ home' = Append(home, f) /\ put' = [put EXCEPT ![t].at = "store"]
      BY <1>4, <1>8
    <2>5. PICK w, v : w = Completed(q) /\ v = Completed(r)
      OBVIOUS
    <2>6. Qsize(w) < w.max /\ v = QueuePut(w, stored + 1)
      BY <1>5, <2>2, <2>5
    <2>7. i = put[t].f + 1
      BY DEF i
    <2> QED
      BY <1>6, <2>3, <2>4, <2>5, <2>6, <2>7, Zenon
  <1> QED
    BY <1>3, <1>7, <1>8

\* put_packet reaching its queue keeps the invariant.
LEMMA PutWriteStep ==
    ASSUME SetInv, NEW t \in Putter, PutWrite(t)
    PROVE  SetInv'
  <1>1. /\ put \in [Putter -> PutState] /\ shaper \in ShaperState /\ corrupt \in BOOLEAN
        /\ put[t] \in PutState
    BY DEF SetInv, SetType
  <1>2. put[t].at = "write"
    BY DEF PutWrite
  <1>3. UNCHANGED <<mode, pq, filterids, guard, build, shaper, delivered, torn, corrupt>>
    BY DEF PutWrite
  <1>4. CASE UNCHANGED <<container, stored, home>> /\ put' = [put EXCEPT ![t] = Idle]
    <2>1. Idle \in PutState /\ Idle.at \notin {"write", "store"}
      BY DEF PutState, Idle
    <2>2. put' \in [Putter -> PutState] /\ put'[t] = Idle /\ \A u \in Putter : u # t => put'[u] = put[u]
      BY <1>1, <1>4, <2>1
    <2>3. References'
      BY <1>3, <1>4, <2>1, <2>2 DEF SetInv, References, Refers
    <2> QED
      BY <1>1, <1>3, <1>4, <2>2, <2>3, CallStep
  <1>5. ASSUME NEW i, NEW f, NEW q, NEW r, NEW w, NEW v, Changes(i, f, q, r),
               w = Completed(q), v = Completed(r), Qsize(w) < w.max, v = QueuePut(w, stored + 1),
               stored' = stored + 1, home' = Append(home, f), put' = [put EXCEPT ![t].at = "store"]
        PROVE  SetInv'
    <2>1. PICK s : s = [put[t] EXCEPT !.at = "store"]
      OBVIOUS
    <2>2. put[t] \in [at : {"write", "store"}, f : Nat, c : Nat]
      BY <1>1, <1>2 DEF PutState, Idle
    <2>3. s \in PutState /\ s.f = put[t].f /\ s.c = put[t].c
      BY <2>1, <2>2 DEF PutState
    <2>4. put' = [put EXCEPT ![t] = s]
      BY <1>5, <2>1
    <2>5. PutsGoOn
      BY <1>1, <1>2, <2>3, <2>4 DEF PutsGoOn
    <2>6. shaper' \in ShaperState /\ shaper' = shaper
      BY <1>1, <1>3
    <2>7. /\ i \in DOMAIN container /\ f = container[i].filterid /\ q = container[i].q
          /\ r \in Members /\ q.put <= r.put /\ container' = [container EXCEPT ![i].q = r]
      BY <1>5 DEF Changes
    <2> QED
      BY <1>3, <1>5, <2>5, <2>6, <2>7, ChangeStep
  <1> QED
    BY <1>4, <1>5, PutWriteDoes

\* The next stores of put_packet.
LEMMA PutStoresDo ==
    ASSUME SetInv, NEW t \in Putter, PutCount(t) \/ PutSlot(t) \/ PutWrap(t)
    PROVE  /\ \/ put' = put /\ ~ PutWrap(t)
              \/ put' = [put EXCEPT ![t] = Idle] /\ PutWrap(t)
           /\ UNCHANGED <<mode, pq, filterids, guard, build, shaper, History>>
           /\ \E i, f, q, r : /\ Changes(i, f, q, r) /\ Completed(r) = Completed(q)
                              /\ i = put[t].f + 1 /\ q.guard # "free"
                              /\ PutWrap(t) => r.guard = "free" /\ r.free < r.max
                              /\ ~ PutWrap(t) => r.guard # "free"
  <1> DEFINE i == put[t].f + 1
  <1>1. put[t].at = "store" /\ put[t].c = pq
    BY DEF PutCount, PutSlot, PutWrap
  <1>2. i \in DOMAIN container
    BY <1>1, PutReaches
  <1>3. \/ put' = put /\ ~ PutWrap(t)
        \/ put' = [put EXCEPT ![t] = Idle] /\ PutWrap(t)
    <2>1. PutCount(t) \/ PutSlot(t) => put' = put /\ ~ PutWrap(t)
      BY DEF PutCount, PutSlot, PutWrap
    <2>2. PutWrap(t) => put' = [put EXCEPT ![t] = Idle]
      BY DEF PutWrap
    <2> QED
      BY <2>1, <2>2
  <1>4. UNCHANGED <<mode, pq, filterids, guard, build, shaper, History>>
    BY DEF PutCount, PutSlot, PutWrap
  <1>5. PICK f, q : f = container[i].filterid /\ q = container[i].q
    OBVIOUS
  <1>6. q \in Members /\ q.max \in Nat \ {0} /\ q.free \in 0 .. q.max /\ q \in MembersRecord
    BY <1>2, <1>5, EntryFacts, MembersFacts
  <1>7. \E r : /\ Stores(q, r) /\ container' = [container EXCEPT ![i].q = r]
               /\ q.guard # "free"
               /\ PutWrap(t) => r.guard = "free" /\ r.free < r.max
               /\ ~ PutWrap(t) => r.guard # "free"
    <2>1. CASE PutCount(t)
      <3>1. PICK r : r = [q EXCEPT !.put = q.put + 1, !.guard = "slot"]
        OBVIOUS
      <3>2. q.guard = "count" /\ container' = [container EXCEPT ![i].q = r] /\ ~ PutWrap(t)
        <4>1. q.guard = "count" /\ container[i].q.guard = "count"
          BY <1>5, <2>1 DEF PutCount
        <4>2. container' = [container EXCEPT ![i].q = r]
          BY <1>2, <1>5, <2>1, <3>1 DEF PutCount
        <4>3. ~ PutWrap(t)
          BY <4>1 DEF PutWrap
        <4> QED
          BY <4>1, <4>2, <4>3
      <3>3. r.guard = "slot"
        BY <1>6, <3>1 DEF MembersRecord
      <3>4. Stores(q, r)
        BY <3>1, <3>2 DEF Stores, Counted
      <3> QED
        BY <3>2, <3>3, <3>4
    <2>2. CASE PutSlot(t)
      <3>1. PICK r : r = [q EXCEPT !.free = q.free + 1, !.guard = "wrap"]
        OBVIOUS
      <3>2. q.guard = "slot" /\ container' = [container EXCEPT ![i].q = r] /\ ~ PutWrap(t)
        <4>1. q.guard = "slot" /\ container[i].q.guard = "slot"
          BY <1>5, <2>2 DEF PutSlot
        <4>2. container' = [container EXCEPT ![i].q = r]
          BY <1>2, <1>5, <2>2, <3>1 DEF PutSlot
        <4>3. ~ PutWrap(t)
          BY <4>1 DEF PutWrap
        <4> QED
          BY <4>1, <4>2, <4>3
      <3>3. r.guard = "wrap"
        BY <1>6, <3>1 DEF MembersRecord
      <3>4. Stores(q, r)
        BY <3>1, <3>2 DEF Stores, FreeSlot
      <3> QED
        BY <3>2, <3>3, <3>4
    <2>3. CASE PutWrap(t)
      <3>1. PICK h, r : h = Wrapped(q.max, q.free) /\ r = [q EXCEPT !.free = h, !.guard = "free"]
        OBVIOUS
      <3>2. q.guard = "wrap" /\ container' = [container EXCEPT ![i].q = r]
        <4>1. q.guard = "wrap"
          BY <1>5, <2>3 DEF PutWrap
        <4>2. container' = [container EXCEPT ![i].q = r]
          BY <1>2, <1>5, <2>3, <3>1 DEF PutWrap, Wrapped
        <4> QED
          BY <4>1, <4>2
      <3>3. h \in Nat /\ h < q.max
        BY <1>6, <3>1 DEF Wrapped
      <3>4. r.guard = "free" /\ r.free = h /\ r.max = q.max
        BY <1>6, <3>1, <3>3 DEF MembersRecord
      <3>5. Stores(q, r)
        BY <3>1, <3>2 DEF Stores, FreeSlot
      <3> QED
        BY <2>3, <3>2, <3>3, <3>4, <3>5
    <2> QED
      BY <2>1, <2>2, <2>3
  <1>8. PICK r : /\ Stores(q, r) /\ container' = [container EXCEPT ![i].q = r]
                 /\ q.guard # "free"
                 /\ PutWrap(t) => r.guard = "free" /\ r.free < r.max
                 /\ ~ PutWrap(t) => r.guard # "free"
    BY <1>7
  <1>9. r \in Members /\ q.put <= r.put /\ Completed(r) = Completed(q)
    BY <1>6, <1>8, StoresComplete
  <1>10. Changes(i, f, q, r)
    BY <1>2, <1>5, <1>8, <1>9 DEF Changes
  <1> QED
    BY <1>3, <1>4, <1>8, <1>9, <1>10

\* The further stores of put_packet keep the invariant.
LEMMA PutStoresStep ==
    ASSUME SetInv, NEW t \in Putter, PutCount(t) \/ PutSlot(t) \/ PutWrap(t)
    PROVE  SetInv'
  <1>1. /\ put \in [Putter -> PutState] /\ shaper \in ShaperState
    BY DEF SetInv, SetType
  <1>2. /\ put' = put \/ put' = [put EXCEPT ![t] = Idle]
        /\ UNCHANGED <<mode, pq, filterids, guard, build, shaper, stored, home, delivered, torn, corrupt>>
    BY PutStoresDo DEF History
  <1>3. PutsGoOn
    <2>1. Idle \in PutState /\ Idle.at \notin {"write", "store"}
      BY DEF PutState, Idle
    <2> QED
      BY <1>1, <1>2, <2>1 DEF PutsGoOn
  <1>4. PICK i, f, q, r : Changes(i, f, q, r) /\ Completed(r) = Completed(q)
    BY PutStoresDo
  <1>5. PICK w, v : w = Completed(q) /\ v = Completed(r)
    OBVIOUS
  <1>6. v = w /\ SamePackets(w, v) /\ shaper' \in ShaperState /\ shaper' = shaper
    BY <1>1, <1>2, <1>4, <1>5 DEF SamePackets
  <1>7. /\ i \in DOMAIN container /\ f = container[i].filterid /\ q = container[i].q
        /\ r \in Members /\ q.put <= r.put /\ container' = [container EXCEPT ![i].q = r]
    BY <1>4 DEF Changes
  <1> QED
    BY <1>2, <1>3, <1>5, <1>6, <1>7, ChangeStep

\* r is q with another ticks_left; r is q after its oldest packet was delivered.
Ticked(q, r) == \E k \in Int : r = [q EXCEPT !.ticks = k]
Taken(f, q, r) ==
    /\ r = [q EXCEPT !.get = q.get + 1]
    /\ \E x : x = At(q, 1) /\ delivered' = [delivered EXCEPT ![f] = Append(@, x)]

\* get_packet counts a tick or takes the oldest packet; no packet is half stored.
LEMMA GetPacketDoes ==
    ASSUME SetInv, NEW n \in Index, GetPacket(n)
    PROVE  \E i, f, q, r, w, v :
              /\ Changes(i, f, q, r) /\ w = Completed(q) /\ v = Completed(r)
              /\ q.guard = "free" /\ r.guard = q.guard /\ r.free = q.free /\ r.max = q.max
              /\ Qsize(w) > 0
              /\ (delivered' = delivered /\ Ticked(w, v)) \/ Taken(f, w, v)
  <1>1. n \in Nat
    BY SetAssumption, FS_CardinalityType DEF Index
  <1>2. container \in Seq(Entry)
    BY DEF SetInv, SetType
  <1>3. Len(container) > n
    BY DEF GetPacket
  <1>4. PICK i, f, q, w, x : /\ i = n + 1 /\ f = container[i].filterid /\ q = container[i].q
                             /\ w = Completed(q) /\ x = At(w, 1)
    OBVIOUS
  <1>5. i \in DOMAIN container
    BY <1>1, <1>2, <1>3, <1>4
  <1>6. q \in Members /\ q \in MembersRecord /\ q.put \in Nat
    BY <1>4, <1>5, EntryFacts, MembersFacts
  <1>7. q.guard = "free" /\ Qsize(q) > 0
    BY <1>4 DEF GetPacket
  <1>8. Qsize(w) > 0
    BY <1>4, <1>6, <1>7, GetCompletes
  <1>9. CASE container' = [container EXCEPT ![n + 1].q.ticks = @ - 1] /\ delivered' = delivered
    <2>1. PICK k, r : k = q.ticks - 1 /\ r = [q EXCEPT !.ticks = k]
      OBVIOUS
    <2>2. k \in Int
      BY <1>6, <2>1 DEF MembersRecord
    <2>3. container' = [container EXCEPT ![i].q = r]
      BY <1>4, <1>5, <1>9, <2>1
    <2>4. /\ r \in Members /\ r.put = q.put /\ r.free = q.free /\ r.guard = q.guard
          /\ Completed(r) = [Completed(q) EXCEPT !.ticks = k]
      BY <1>6, <2>1, <2>2, TicksComplete
    <2>5. r.max = q.max
      BY <1>6, <2>1 DEF MembersRecord
    <2>6. Changes(i, f, q, r)
      BY <1>4, <1>5, <1>6, <2>3, <2>4 DEF Changes
    <2>7. PICK v : v = Completed(r)
      OBVIOUS
    <2>8. v = [w EXCEPT !.ticks = k]
      BY <1>4, <2>4, <2>7
    <2>9. Ticked(w, v)
      BY <2>2, <2>8, Zenon DEF Ticked
    <2> QED
      BY <1>4, <1>7, <1>8, <1>9, <2>4, <2>5, <2>6, <2>7, <2>9
  <1>10. CASE /\ delivered' = [delivered EXCEPT ![container[n + 1].filterid] =
                                 Append(@, container[n + 1].q.data[QueueLast(container[n + 1].q)])]
              /\ container' = [container EXCEPT ![n + 1].q.get = @ + 1]
    <2>1. PICK r : r = [q EXCEPT !.get = q.get + 1]
      OBVIOUS
    <2>2. /\ r \in Members /\ r.put = q.put /\ r.free = q.free /\ r.guard = q.guard
          /\ Completed(r) = [Completed(q) EXCEPT !.get = Completed(q).get + 1]
          /\ q.data[QueueLast(q)] = At(Completed(q), 1)
      BY <1>6, <1>7, <2>1, GetCompletes
    <2>3. container' = [container EXCEPT ![i].q = r]
      BY <1>4, <1>5, <1>10, <2>1
    <2>4. delivered' = [delivered EXCEPT ![f] = Append(@, x)]
      BY <1>4, <1>10, <2>2
    <2>5. r.max = q.max
      BY <1>6, <2>1 DEF MembersRecord
    <2>6. Changes(i, f, q, r)
      BY <1>4, <1>5, <1>6, <2>2, <2>3 DEF Changes
    <2>7. PICK v : v = Completed(r)
      OBVIOUS
    <2>8. v = [w EXCEPT !.get = w.get + 1] /\ x = At(w, 1)
      BY <1>4, <2>2, <2>7
    <2>9. Taken(f, w, v)
      BY <2>4, <2>8, Zenon DEF Taken
    <2> QED
      BY <1>4, <1>7, <1>8, <2>2, <2>5, <2>6, <2>7, <2>9
  <1> QED
    BY <1>9, <1>10 DEF GetPacket

\* A step that only counts the ticks of a queue.
LEMMA TickedFields ==
    ASSUME NEW w \in Queue, NEW v, Ticked(w, v)
    PROVE  v.put = w.put /\ v.free = w.free /\ v.get = w.get /\ v.max = w.max /\ v.data = w.data
  BY QueueFacts DEF Ticked, Queue, QueueRecord

\* get_packet keeps the invariant.
LEMMA GetPacketStep ==
    ASSUME SetInv, NEW n \in Index, GetPacket(n)
    PROVE  SetInv'
  <1>1. /\ guard = "free" /\ shaper \in ShaperState /\ put \in [Putter -> PutState]
    BY DEF GetPacket, SetInv, SetType
  <1>2. UNCHANGED <<mode, pq, filterids, guard, build, put, shaper, stored, home, torn, corrupt>>
    BY DEF GetPacket
  <1>3. PutsGoOn
    BY <1>1, <1>2 DEF PutsGoOn
  <1>4. PICK i, f, q, r, w, v :
              /\ Changes(i, f, q, r) /\ w = Completed(q) /\ v = Completed(r) /\ Qsize(w) > 0
              /\ (delivered' = delivered /\ Ticked(w, v)) \/ Taken(f, w, v)
    BY GetPacketDoes
  <1>5. /\ i \in DOMAIN container /\ f = container[i].filterid /\ q = container[i].q
        /\ r \in Members /\ q.put <= r.put /\ container' = [container EXCEPT ![i].q = r]
    BY <1>4 DEF Changes
  <1>6. CASE delivered' = delivered /\ Ticked(w, v)
    <2>1. w \in Queue
      BY <1>4, <1>5, EntryFacts
    <2>2. SamePackets(w, v)
      BY <1>6, <2>1, TickedFields DEF SamePackets
    <2>3. shaper' \in ShaperState /\ shaper' = shaper
      BY <1>1, <1>2
    <2>4. w = Completed(q) /\ v = Completed(r)
      BY <1>4
    <2>5. stored' = stored /\ home' = home /\ SamePackets(w, v)
      BY <1>2, <2>2
    <2>6. UNCHANGED <<mode, pq, filterids, guard, build, delivered, torn, corrupt>>
      BY <1>2, <1>6
    <2> QED
      BY <1>3, <1>5, <2>3, <2>4, <2>5, <2>6, ChangeStep
  <1>7. CASE Taken(f, w, v)
    <2>1. PICK x : x = At(w, 1) /\ delivered' = [delivered EXCEPT ![f] = Append(@, x)]
      BY <1>7 DEF Taken
    <2>2. v = [w EXCEPT !.get = w.get + 1]
      BY <1>7 DEF Taken
    <2> QED
      BY <1>1, <1>2, <1>4, <1>5, <2>1, <2>2, TakeStep
  <1> QED
    BY <1>4, <1>6, <1>7

\* set_queue_state writes ticks_left through a reference into the current container.
LEMMA SetStateWriteDoes ==
    ASSUME SetInv, SetStateWrite, shaper.c = pq
    PROVE  /\ corrupt' = corrupt
           /\ \E i, f, q, r, w, v :
                 /\ Changes(i, f, q, r) /\ w = Completed(q) /\ v = Completed(r)
                 /\ r.guard = q.guard /\ r.free = q.free /\ r.max = q.max
                 /\ Ticked(w, v)
  <1>1. shaper \in ShaperState /\ container \in Seq(Entry)
    BY DEF SetInv, SetType
  <1>2. /\ shaper # Idle /\ corrupt' = corrupt
        /\ container' = [container EXCEPT ![shaper.f + 1].q.ticks = shaper.ticks]
    BY DEF SetStateWrite
  <1>3. shaper.f \in Nat /\ shaper.ticks \in Int
    BY <1>1, <1>2 DEF ShaperState
  <1>4. PICK i, f, q, k, r, w, v : /\ i = shaper.f + 1 /\ f = container[i].filterid
                                   /\ q = container[i].q /\ k = shaper.ticks
                                   /\ r = [q EXCEPT !.ticks = k]
                                   /\ w = Completed(q) /\ v = Completed(r)
    OBVIOUS
  <1>5. i \in DOMAIN container
    <2>1. shaper.f < Len(container)
      BY <1>2 DEF SetInv, References, Refers
    <2> QED
      BY <1>1, <1>3, <1>4, <2>1
  <1>6. container' = [container EXCEPT ![i].q = r]
    BY <1>2, <1>4, <1>5
  <1>7. q \in Members /\ q \in MembersRecord /\ q.put \in Nat /\ k \in Int
    BY <1>3, <1>4, <1>5, EntryFacts, MembersFacts
  <1>8. /\ r \in Members /\ r.put = q.put /\ r.free = q.free /\ r.guard = q.guard
        /\ Completed(r) = [Completed(q) EXCEPT !.ticks = k]
    BY <1>4, <1>7, TicksComplete
  <1>9. r.max = q.max
    BY <1>4, <1>7 DEF MembersRecord
  <1>10. Changes(i, f, q, r)
    BY <1>4, <1>5, <1>6, <1>7, <1>8 DEF Changes
  <1>11. v = [w EXCEPT !.ticks = k]
    BY <1>4, <1>8
  <1>12. Ticked(w, v)
    BY <1>7, <1>11, Zenon DEF Ticked
  <1>13. w = Completed(q) /\ v = Completed(r) /\ corrupt' = corrupt
    BY <1>2, <1>4
  <1> QED
    BY <1>8, <1>9, <1>10, <1>12, <1>13, Zenon

\* set_queue_state, perhaps on a queue that is being copied, keeps the invariant.
LEMMA SetStateWriteStep ==
    ASSUME SetInv, SetStateWrite
    PROVE  SetInv'
  <1>1. put \in [Putter -> PutState] /\ corrupt \in BOOLEAN
    BY DEF SetInv, SetType
  <1>2. shaper' = Idle /\ Idle \in ShaperState
    BY DEF SetStateWrite, ShaperState
  <1>3. UNCHANGED <<mode, pq, filterids, guard, build, put, stored, home, delivered, torn>>
    BY DEF SetStateWrite
  <1>4. CASE shaper.c # pq
    <2>1. corrupt' = TRUE /\ UNCHANGED container
      BY <1>4 DEF SetStateWrite
    <2>2. References'
      BY <1>2, <1>3, <2>1 DEF SetInv, References, Refers
    <2> QED
      BY <1>1, <1>2, <1>3, <2>1, <2>2, CallStep
  <1>5. CASE shaper.c = pq
    <2>1. corrupt' = corrupt
      BY <1>5, SetStateWriteDoes
    <2>2. PutsGoOn
      BY <1>1, <1>3 DEF PutsGoOn
    <2>3. PICK i, f, q, r, w, v :
              Changes(i, f, q, r) /\ w = Completed(q) /\ v = Completed(r) /\ Ticked(w, v)
      BY <1>5, SetStateWriteDoes
    <2>4. /\ i \in DOMAIN container /\ f = container[i].filterid /\ q = container[i].q
          /\ r \in Members /\ q.put <= r.put /\ container' = [container EXCEPT ![i].q = r]
      BY <2>3 DEF Changes
    <2>5. w \in Queue
      BY <2>3, <2>4, EntryFacts
    <2>6. SamePackets(w, v)
      BY <2>3, <2>5, TickedFields DEF SamePackets
    <2>7. shaper' \in ShaperState /\ shaper' = Idle
      BY <1>2
    <2>8. w = Completed(q) /\ v = Completed(r)
      BY <2>3
    <2>9. stored' = stored /\ home' = home /\ SamePackets(w, v)
      BY <1>3, <2>6
    <2>10. UNCHANGED <<mode, pq, filterids, guard, build, delivered, torn, corrupt>>
      BY <1>3, <2>1
    <2> QED
      BY <2>2, <2>4, <2>7, <2>8, <2>9, <2>10, ChangeStep
  <1> QED
    BY <1>4, <1>5

\* The lazy init of put_packet: a container with one empty queue replaces
\* whatever is there, and all references become stale.
LEMMA PutInitStep ==
    ASSUME SetInv, NEW t \in Putter, PutInit(t)
    PROVE  SetInv'
  <1>1. /\ put \in [Putter -> PutState] /\ SetType /\ pq \in Nat /\ DeliveryOrder /\ StaysWithFilter
    BY DEF SetInv, SetType
  <1>2. PICK q : q = NewQueue(SetQueueMax)
    OBVIOUS
  <1>3. q \in Members /\ Qsize(Completed(q)) = 0
    BY <1>2, SetAssumption, NewQueueEmpty
  <1>4. /\ pq' = pq + 1 /\ container' = << [filterid |-> DefaultId, q |-> q] >> /\ guard = "free"
        /\ put' = [put EXCEPT ![t].at = "size"] /\ put[t].at = "init"
        /\ UNCHANGED <<mode, filterids, guard, build, shaper, stored, home, delivered, torn, corrupt>>
    BY <1>2 DEF PutInit, History
  <1>5. [filterid |-> DefaultId, q |-> q] \in Entry
    BY <1>3 DEF Entry, FId
  <1>6. /\ container' \in Seq(Entry) /\ Len(container') = 1 /\ DOMAIN container' = {1}
        /\ container'[1].filterid = DefaultId /\ container'[1].q = q
    BY <1>4, <1>5
  <1>7. /\ put' \in [Putter -> PutState] /\ put'[t].at = "size"
        /\ \A u \in Putter : u # t => put'[u] = put[u]
    <2>1. put[t] \in [at : {"init", "size", "ref"}, f : Nat]
      <3>1. put[t] \in PutState
        BY <1>1
      <3> QED
        BY <1>4, <3>1 DEF PutState, Idle
    <2>2. PICK s : s = [put[t] EXCEPT !.at = "size"]
      OBVIOUS
    <2>3. s \in PutState /\ s.at = "size"
      BY <2>1, <2>2 DEF PutState
    <2>4. put' = [put EXCEPT ![t] = s]
      BY <1>4, <2>2
    <2> QED
      BY <1>1, <2>3, <2>4
  <1>8. build'.half = <<>> /\ build'.done = <<>> /\ build'.ids = <<>>
    BY <1>4, FreeFacts
  <1>9. SetType'
    BY <1>1, <1>4, <1>6, <1>7 DEF SetType
  <1>10. References'
    <2>1. \A f \in Nat, c \in Nat : Refers(f, c) => Refers(f, c)'
      BY <1>1, <1>4 DEF Refers
    <2>2. ASSUME NEW u \in Putter, put'[u].at \in {"write", "store"}
          PROVE  (Refers(put[u].f, put[u].c))'
      <3>1. u # t /\ put'[u] = put[u]
        BY <1>7, <2>2
      <3>2. put[u] \in PutState /\ put[u].at \in {"write", "store"}
        BY <1>1, <2>2, <3>1
      <3>3. put[u].f \in Nat /\ put[u].c \in Nat
        BY <3>2 DEF PutState, Idle
      <3>4. Refers(put[u].f, put[u].c)
        BY <3>2 DEF SetInv, References
      <3> QED
        BY <1>1, <1>4, <3>1, <3>3, <3>4 DEF Refers
    <2>3. shaper' # Idle => (Refers(shaper.f, shaper.c))'
      <3> SUFFICES ASSUME shaper # Idle PROVE (Refers(shaper.f, shaper.c))'
        BY <1>4
      <3>1. shaper.f \in Nat /\ shaper.c \in Nat
        BY <1>1 DEF SetType, ShaperState
      <3>2. Refers(shaper.f, shaper.c)
        BY DEF SetInv, References
      <3> QED
        BY <1>1, <1>4, <3>1, <3>2 DEF Refers
    <2> QED
      BY <2>2, <2>3 DEF References
  <1>11. Building'
    BY <1>4, <1>6, <1>8 DEF SetInv, Building, NotBuilding
  <1>12. Queues'
    <2>1. ASSUME NEW j \in DOMAIN container', NEW g, NEW a, NEW u,
                 g = container'[j].filterid, a = container'[j].q, u = Completed(a)
          PROVE  Holds(g, u)'
      <3>1. u = Completed(q)
        BY <1>6, <2>1
      <3>2. Qsize(u) = 0
        BY <1>3, <3>1
      <3> QED
        BY <3>2 DEF Holds, InOrder
    <2> QED
      BY <1>8, <2>1, QueuesPrimed
  <1>13. HalfCopied'
    BY <1>8 DEF HalfCopied
  <1>14. DeliveryOrder' /\ StaysWithFilter'
    BY <1>1, <1>4 DEF DeliveryOrder, StaysWithFilter
  <1> QED
    BY <1>9, <1>10, <1>11, <1>12, <1>13, <1>14 DEF SetInv

\* The filter whose queue init makes next.
LEMMA BuildIdType ==
    ASSUME SetInv, Len(build.done) < Len(build.ids)
    PROVE  BuildId \in FilterId /\ Len(build.done) + 1 \in DOMAIN build.ids
  <1>1. build.ids \in Seq(FilterId) /\ build.done \in Seq(Entry)
    BY DEF SetInv, SetType
  <1>2. Len(build.done) + 1 \in DOMAIN build.ids
    BY <1>1
  <1> QED
    BY <1>1, <1>2 DEF BuildId

\* The next filter has its queue in the new container.
LEMMA AppendStep ==
    ASSUME SetInv, guard = "init", Len(build.done) < Len(build.ids), NEW f, NEW q \in Members,
           f = BuildId, Holds(f, Completed(q)), NEW e, e = [filterid |-> f, q |-> q],
           build'.ids = build.ids, build'.half = <<>>, build'.done = Append(build.done, e),
           build' \in [ids : Seq(FilterId), done : Seq(Entry), half : Seq(Nat)],
           UNCHANGED <<mode, pq, container, filterids, guard, put, shaper, stored, home, delivered, torn, corrupt>>
    PROVE  SetInv'
  <1>1. SetType /\ build.done \in Seq(Entry) /\ build.ids \in Seq(FilterId)
    BY DEF SetInv, SetType
  <1>2. SetType'
    BY <1>1 DEF SetType
  <1>3. References'
    BY DEF SetInv, References, Refers
  <1>4. /\ Len(build'.done) = Len(build.done) + 1
        /\ \A j \in DOMAIN build'.done :
              \/ j \in DOMAIN build.done /\ build'.done[j] = build.done[j]
              \/ j = Len(build.done) + 1 /\ build'.done[j] = e
    BY <1>1, <1>2 DEF SetType
  <1>5. e.filterid = build.ids[Len(build.done) + 1] /\ e.filterid = f /\ e.q = q
    BY DEF BuildId
  <1>6. Building'
    <2>1. \A j \in DOMAIN build'.done : build'.done[j].filterid = build.ids[j]
      BY <1>4, <1>5 DEF SetInv, Building
    <2>2. Len(build'.done) <= Len(build.ids) /\ Len(build'.half) <= 2
      BY <1>1, <1>4
    <2>3. guard' # "free"
      OBVIOUS
    <2> QED
      BY <2>1, <2>2, <2>3 DEF SetInv, Building
  <1>7. ASSUME NEW g, NEW u, Holds(g, u) PROVE Holds(g, u)'
    BY <1>7 DEF Holds, InOrder
  <1>8. Queues'
    <2>1. ASSUME NEW j \in DOMAIN container', NEW g, NEW a, NEW u,
                 g = container'[j].filterid, a = container'[j].q, u = Completed(a)
          PROVE  Holds(g, u)'
      BY <1>7, <2>1, EntryFacts
    <2>2. ASSUME NEW j \in DOMAIN build'.done, NEW g, NEW a, NEW u,
                 g = build'.done[j].filterid, a = build'.done[j].q, u = Completed(a)
          PROVE  Holds(g, u)'
      <3>1. CASE j \in DOMAIN build.done /\ build'.done[j] = build.done[j]
        BY <1>7, <2>2, <3>1, DoneFacts
      <3>2. CASE build'.done[j] = e
        BY <1>5, <1>7, <2>2, <3>2
      <3> QED
        BY <1>4, <3>1, <3>2
    <2> QED
      BY <2>1, <2>2, QueuesPrimed
  <1>9. HalfCopied'
    BY DEF HalfCopied
  <1>10. DeliveryOrder' /\ StaysWithFilter'
    BY DEF SetInv, DeliveryOrder, StaysWithFilter
  <1> QED
    BY <1>2, <1>3, <1>6, <1>8, <1>9, <1>10 DEF SetInv

\* A filter that is new to the filter set.
LEMMA InitNewQueueStep ==
    ASSUME SetInv, InitNewQueue
    PROVE  SetInv'
  <1>1. PICK f, q, e : /\ f = BuildId /\ q = NewQueue(FilterQueueMax)
                       /\ e = [filterid |-> f, q |-> q]
    OBVIOUS
  <1>2. q \in Members /\ Qsize(Completed(q)) = 0
    BY <1>1, SetAssumption, NewQueueEmpty
  <1>3. Holds(f, Completed(q))
    BY <1>2 DEF Holds, InOrder
  <1>4. /\ guard = "init" /\ Len(build.done) < Len(build.ids) /\ Sources = {}
        /\ UNCHANGED <<mode, pq, container, filterids, guard, put, shaper, stored, home, delivered, torn, corrupt>>
    BY DEF InitNewQueue, SetVars, History
  <1>5. /\ build \in [ids : Seq(FilterId), done : Seq(Entry), half : Seq(Nat)] /\ build.half = <<>>
        /\ build.done \in Seq(Entry)
    BY <1>4 DEF SetInv, SetType, Building
  <1>6. build' = [build EXCEPT !.done = Append(build.done, e)]
    BY <1>1 DEF InitNewQueue
  <1>7. e \in Entry
    <2>1. f \in FId
      BY <1>1, <1>4, BuildIdType DEF FId
    <2> QED
      BY <1>1, <1>2, <2>1 DEF Entry
  <1>8. Append(build.done, e) \in Seq(Entry)
    BY <1>5, <1>7
  <1>9. /\ build'.ids = build.ids /\ build'.half = <<>> /\ build'.done = Append(build.done, e)
        /\ build' \in [ids : Seq(FilterId), done : Seq(Entry), half : Seq(Nat)]
    BY <1>5, <1>6, <1>8
  <1>10. f = BuildId /\ e = [filterid |-> f, q |-> q]
    BY <1>1
  <1> QED
    BY <1>2, <1>3, <1>4, <1>9, <1>10, AppendStep

\* operator= copies the data last, and the queue is complete.
LEMMA InitCopyDataStep ==
    ASSUME SetInv, InitCopyData
    PROVE  SetInv'
  <1>1. PICK f, w, p, h, q, e : /\ f = BuildId /\ w = container[Source].q
                                /\ p = build.half[1] /\ h = build.half[2]
                                /\ q = Moved(w, p, h, "free") /\ e = [filterid |-> f, q |-> q]
    OBVIOUS
  <1>2. /\ Len(build.half) = 2
        /\ UNCHANGED <<mode, pq, container, filterids, guard, put, shaper, stored, home, delivered, torn, corrupt>>
    BY DEF InitCopyData, SetVars, History
  <1>3. /\ w \in Members /\ f \in FilterId /\ guard = "init" /\ Len(build.done) < Len(build.ids)
        /\ p \in Nat /\ w.get <= p /\ p <= w.put /\ h \in 0 .. w.max
        /\ HalfHolds(f, Completed(w), p, h)
    BY <1>1, <1>2, HalfFacts
  <1>4. q \in Members /\ Holds(f, Completed(q))
    <2>1. q \in Members /\ Completed(q) = Copy(Completed(w), p, Wrapped(w.max, h))
      BY <1>1, <1>3, CopyCompletes
    <2>2. Completed(w).max = w.max
      BY <1>3, MembersFacts
    <2> QED
      BY <1>3, <2>1, <2>2 DEF HalfHolds
  <1>5. /\ build \in [ids : Seq(FilterId), done : Seq(Entry), half : Seq(Nat)]
        /\ build.done \in Seq(Entry)
    BY DEF SetInv, SetType
  <1>6. build' = [build EXCEPT !.half = <<>>, !.done = Append(build.done, e)]
    BY <1>1 DEF InitCopyData, Moved
  <1>7. e \in Entry
    BY <1>1, <1>3, <1>4 DEF Entry, FId
  <1>8. Append(build.done, e) \in Seq(Entry) /\ <<>> \in Seq(Nat)
    BY <1>5, <1>7
  <1>9. /\ build'.ids = build.ids /\ build'.half = <<>> /\ build'.done = Append(build.done, e)
        /\ build' \in [ids : Seq(FilterId), done : Seq(Entry), half : Seq(Nat)]
    BY <1>5, <1>6, <1>8
  <1>10. f = BuildId /\ e = [filterid |-> f, q |-> q]
    BY <1>1
  <1> QED
    BY <1>2, <1>3, <1>4, <1>9, <1>10, AppendStep

\* operator= reads another member of the old queue.
LEMMA CopyStep ==
    ASSUME SetInv, guard = "init", Len(build.done) < Len(build.ids), Sources # {},
           build'.ids = build.ids, build'.done = build.done, Len(build'.half) \in {1, 2},
           build' \in [ids : Seq(FilterId), done : Seq(Entry), half : Seq(Nat)],
           UNCHANGED <<mode, pq, container, filterids, guard, put, shaper, stored, home, delivered, corrupt>>,
           torn \subseteq torn', torn' \subseteq FId,
           NEW q, q = container[Source].q, NEW w, w = Completed(q),
           NEW p, p = build'.half[1], q.get <= p, p <= q.put,
           NEW f, f = BuildId, NEW h, h = build'.half[2],
           Len(build'.half) = 2 => h <= q.max /\ HalfHolds(f, w, p, h)'
    PROVE  SetInv'
  <1>1. BuildId' = BuildId /\ Sources' = Sources /\ Source' = Source
    BY SourceKept
  <1>2. SetType'
    BY DEF SetInv, SetType
  <1>3. References'
    BY DEF SetInv, References, Refers
  <1>4. Building'
    <2>1. Len(build'.half) <= 2 /\ guard' # "free"
      <3>1. PICK n \in {1, 2} : n = Len(build'.half)
        OBVIOUS
      <3>2. n <= 2
        OBVIOUS
      <3> QED
        BY <3>1, <3>2
    <2>2. guard' = "init" /\ Len(build'.done) < Len(build'.ids) /\ Sources' # {}
      BY <1>1
    <2>3. /\ \A i, j \in DOMAIN container' : container'[i].filterid = container'[j].filterid => i = j
          /\ \A i, j \in DOMAIN build'.ids : build'.ids[i] = build'.ids[j] => i = j
          /\ Len(build'.done) <= Len(build'.ids)
          /\ \A i \in DOMAIN build'.done : build'.done[i].filterid = build'.ids[i]
      BY DEF SetInv, Building
    <2> QED
      BY <2>1, <2>2, <2>3 DEF Building
  <1>5. Queues'
    <2>1. ASSUME NEW g, NEW u, Holds(g, u) PROVE Holds(g, u)'
      BY <2>1 DEF Holds, InOrder
    <2>2. ASSUME NEW j \in DOMAIN container', NEW g, NEW a, NEW u,
                 g = container'[j].filterid, a = container'[j].q, u = Completed(a)
          PROVE  Holds(g, u)'
      BY <2>1, <2>2, EntryFacts
    <2>3. ASSUME NEW j \in DOMAIN build'.done, NEW g, NEW a, NEW u,
                 g = build'.done[j].filterid, a = build'.done[j].q, u = Completed(a)
          PROVE  Holds(g, u)'
      BY <2>1, <2>3, DoneFacts
    <2> QED
      BY <2>2, <2>3, QueuesPrimed
  <1>6. HalfCopied'
    <2>1. (container[Source].q)' = q /\ BuildId' = f
      BY <1>1
    <2> QED
      BY <2>1, HalfPrimed
  <1>7. DeliveryOrder' /\ StaysWithFilter'
    BY DEF SetInv, DeliveryOrder, StaysWithFilter
  <1> QED
    BY <1>2, <1>3, <1>4, <1>5, <1>6, <1>7 DEF SetInv

\* operator= reads pktput_counter and pktget_counter.
LEMMA InitCopyCountersStep ==
    ASSUME SetInv, InitCopyCounters
    PROVE  SetInv'
  <1>1. PICK f, q, w, p, h : /\ f = BuildId /\ q = container[Source].q /\ w = Completed(q)
                             /\ p = q.put /\ h = build'.half[2]
    OBVIOUS
  <1>2. /\ guard = "init" /\ Len(build.done) < Len(build.ids) /\ Sources # {}
        /\ build' = [build EXCEPT !.half = <<p>>]
        /\ UNCHANGED <<mode, pq, container, filterids, guard, put, shaper, stored, home, delivered, torn, corrupt>>
    BY <1>1 DEF InitCopyCounters, SetVars, History
  <1>3. q \in Members
    <2>1. Source \in DOMAIN container
      BY <1>2, SourceIsFilter DEF SetInv
    <2> QED
      BY <1>1, <2>1, EntryFacts
  <1>4. p \in Nat /\ q.get <= p /\ p <= q.put
    BY <1>1, <1>3, MembersFacts
  <1>5. build \in [ids : Seq(FilterId), done : Seq(Entry), half : Seq(Nat)] /\ <<p>> \in Seq(Nat)
    BY <1>4 DEF SetInv, SetType
  <1>6. /\ build'.ids = build.ids /\ build'.done = build.done /\ build'.half = <<p>>
        /\ build' \in [ids : Seq(FilterId), done : Seq(Entry), half : Seq(Nat)]
    BY <1>2, <1>5
  <1>7. Len(build'.half) = 1 /\ p = build'.half[1]
    BY <1>6
  <1>8. f = BuildId /\ q = container[Source].q /\ w = Completed(q) /\ h = build'.half[2]
    BY <1>1
  <1>9. Len(build'.half) \in {1, 2} /\ Len(build'.half) # 2
    BY <1>7
  <1>10. torn \subseteq torn' /\ torn' \subseteq FId
    BY <1>2 DEF SetInv, SetType
  <1> QED
    BY <1>2, <1>4, <1>6, <1>7, <1>8, <1>9, <1>10, CopyStep

\* What the copy holds when the counter read does not include a packet that the
\* free slot does not.
LEMMA FreeSlotRead ==
    ASSUME NEW q \in Members, NEW w, w = Completed(q), NEW f, Holds(f, w),
           NEW p \in Nat, q.get <= p, p <= q.put, NEW h, h = q.free,
           ~ (q.guard = "slot" /\ p = q.put)
    PROVE  HalfHolds(f, w, p, h)
  <1>1. /\ q.put \in Nat /\ q.get \in Nat /\ q.max \in Nat \ {0} /\ h \in 0 .. q.max
        /\ q.guard \in Guards /\ (q.guard \in {"count", "slot"} => h < q.max)
        /\ w \in Queue /\ w.put = FinalPut(q) /\ w.free = FinalFree(q)
        /\ w.get = q.get /\ w.max = q.max
    BY MembersFacts
  <1>2. w.put \in Nat /\ Qsize(w) \in 0 .. w.max /\ Qsize(w) = w.put - w.get
    BY <1>1, QueueFacts
  <1>3. CASE q.guard \in {"free", "wrap"}
    <2>1. w.put = q.put /\ w.free = Wrapped(w.max, h)
      BY <1>1, <1>3 DEF FinalPut, FinalFree
    <2>2. w.free \in 0 .. w.max - 1
      BY <1>1, QueueFacts
    <2>3. Ahead(w.max, Wrapped(w.max, h), w.free) <= w.put - p
      <3>1. Ahead(w.max, w.free, w.free) = 0
        BY <2>2 DEF Ahead
      <3> QED
        BY <1>1, <2>1, <3>1
    <2>4. PICK u, k : u = Copy(w, p, w.free) /\ k = w.put - p
      OBVIOUS
    <2>5. k \in Nat /\ w.get <= p /\ p <= w.put
      BY <1>1, <1>2, <2>1, <2>4
    <2>6. u \in Queue /\ Qsize(u) = p - w.get
      BY <2>2, <2>4, <2>5, <1>1, CopyFacts
    <2>7. \A i \in 1 .. p - w.get : i + k \in 1 .. Qsize(w) /\ At(u, i) = At(w, i + k)
      <3>1. \A i \in 1 .. p - w.get : /\ i + (w.put - p) \in 1 .. Qsize(w)
                                      /\ At(Copy(w, p, w.free), i) = At(w, i + (w.put - p))
        BY <1>1, <2>5, CopyIsNewest
      <3> QED
        BY <2>4, <3>1
    <2>8. Holds(f, u)
      BY <1>1, <2>5, <2>6, <2>7, HoldsNewest
    <2> QED
      BY <2>1, <2>3, <2>4, <2>8 DEF HalfHolds
  <1>4. CASE q.guard \in {"count", "slot"}
    <2>1. h \in 0 .. w.max - 1 /\ Wrapped(w.max, h) = h
      BY <1>1, <1>4 DEF Wrapped
    <2>2. w.free = After(w.max, h)
      BY <1>1, <1>4, <2>1 DEF FinalFree, After, Wrapped
    <2>3. p + 1 <= w.put
      <3>1. CASE q.guard = "count"
        BY <1>1, <3>1 DEF FinalPut
      <3>2. CASE q.guard = "slot"
        BY <1>1, <3>2 DEF FinalPut
      <3> QED
        BY <1>4, <3>1, <3>2
    <2>4. Ahead(w.max, h, w.free) <= w.put - p
      BY <1>1, <1>2, <2>1, <2>2, <2>3 DEF Ahead, After
    <2>5. PICK n, b : n = Qsize(w) - 1 /\ b = w.put - 1
      OBVIOUS
    <2>6. /\ n \in 0 .. w.max - 1 /\ b \in Nat /\ w.get <= b /\ b <= w.put /\ p <= b
          /\ n = b - w.get /\ Qsize(w) = n + 1
      BY <1>1, <1>2, <2>3, <2>5
    <2>7. PICK u, z : u = Copy(w, b, h) /\ z = Copy(w, p, h)
      OBVIOUS
    <2>8. /\ u \in Queue /\ Qsize(u) = n /\ u.put = b /\ u.free = h
          /\ u.get = w.get /\ u.max = w.max /\ u.data = w.data
      BY <1>1, <2>1, <2>6, <2>7, CopyFacts
    <2>9. /\ z \in Queue /\ Qsize(z) = p - w.get /\ z.free = h /\ z.max = w.max /\ z.data = w.data
      <3>1. w.get <= p /\ p <= w.put
        BY <1>1, <1>2, <2>3
      <3> QED
        BY <1>1, <2>1, <2>7, <3>1, CopyFacts
    <2>10. Holds(f, u)
      <3>1. \A i \in 1 .. n : Pos(w.max, After(w.max, h), n + 1, i) = Pos(w.max, h, n, i)
        BY <1>1, <2>1, <2>6, PosPut
      <3>2. \A i \in 1 .. n : At(u, i) = At(w, i)
        BY <2>2, <2>6, <2>8, <3>1 DEF At
      <3>3. \A i \in 1 .. n : i + 0 = i /\ i \in 1 .. Qsize(w)
        BY <1>2, <2>6
      <3>4. \A i \in 1 .. Qsize(u) : i + 0 \in 1 .. Qsize(w) /\ At(u, i) = At(w, i + 0)
        BY <2>8, <3>2, <3>3
      <3> QED
        BY <1>1, <2>8, <3>4, HoldsNewest
    <2>11. PICK k, y : k = u.put - p /\ y = Copy(u, p, u.free)
      OBVIOUS
    <2>12. \A i \in 1 .. p - u.get : i + k \in 1 .. Qsize(u) /\ At(y, i) = At(u, i + k)
      <3>1. u.get <= p /\ p <= u.put
        BY <1>1, <2>6, <2>8
      <3>2. \A i \in 1 .. p - u.get : /\ i + (u.put - p) \in 1 .. Qsize(u)
                                      /\ At(Copy(u, p, u.free), i) = At(u, i + (u.put - p))
        BY <2>8, <3>1, CopyIsNewest
      <3> QED
        BY <2>11, <3>2
    <2>13. Qsize(y) = p - u.get /\ y.free = h /\ y.max = w.max /\ y.data = w.data
      <3>1. u.get <= p /\ p <= u.put /\ u.free \in 0 .. u.max - 1
        BY <1>1, <2>1, <2>6, <2>8
      <3>2. /\ Qsize(y) = p - u.get /\ y.free = u.free /\ y.max = u.max /\ y.data = u.data
        BY <2>8, <2>11, <3>1, CopyFacts
      <3> QED
        BY <2>8, <3>2
    <2>14. \A i \in 1 .. Qsize(z) : At(z, i) = At(y, i)
      BY <2>8, <2>9, <2>13 DEF At
    <2>15. k \in Nat /\ \A i \in 1 .. Qsize(z) : i + k \in 1 .. Qsize(u) /\ At(z, i) = At(u, i + k)
      <3>1. k \in Nat
        BY <2>6, <2>8, <2>11
      <3> QED
        BY <2>8, <2>9, <2>12, <2>14, <3>1
    <2>16. Holds(f, z)
      BY <2>8, <2>9, <2>10, <2>15, HoldsNewest
    <2> QED
      BY <2>1, <2>4, <2>7, <2>16 DEF HalfHolds
  <1> QED
    BY <1>1, <1>3, <1>4 DEF Guards

\* operator= reads current_freeslot; packets may have been stored since.
LEMMA InitCopyFreeslotStep ==
    ASSUME SetInv, InitCopyFreeslot
    PROVE  SetInv'
  <1>1. PICK f, q, w, p, h : /\ f = BuildId /\ q = container[Source].q /\ w = Completed(q)
                             /\ p = build.half[1] /\ h = q.free
    OBVIOUS
  <1>2. /\ Len(build.half) = 1 /\ build' = [build EXCEPT !.half = Append(build.half, h)]
        /\ UNCHANGED <<mode, pq, container, filterids, guard, put, shaper, stored, home, delivered, corrupt>>
    BY <1>1 DEF InitCopyFreeslot, SetVars
  <1>3. /\ Source \in DOMAIN container /\ q \in Members /\ container[Source].filterid = f
        /\ guard = "init" /\ Len(build.done) < Len(build.ids) /\ f \in FilterId
        /\ p \in Nat /\ q.get <= p /\ p <= q.put
    BY <1>1, <1>2, HalfFacts
  <1>4. Sources # {}
    BY <1>2 DEF SetInv, Building
  <1>5. h \in Nat /\ h <= q.max
    BY <1>1, <1>3, MembersFacts
  <1>6. /\ build \in [ids : Seq(FilterId), done : Seq(Entry), half : Seq(Nat)]
        /\ build.half \in Seq(Nat)
    BY DEF SetInv, SetType
  <1>7. ASSUME NEW s \in Seq(Nat), NEW k \in Nat, Len(s) = 1
        PROVE  /\ Append(s, k) \in Seq(Nat) /\ Len(Append(s, k)) = 2
               /\ Append(s, k)[1] = s[1] /\ Append(s, k)[2] = k
    <2>1. PICK a : a = Append(s, k)
      OBVIOUS
    <2>2. a \in Seq(Nat) /\ Len(a) = Len(s) + 1
      BY <2>1
    <2>3. Len(a) = 2
      BY <1>7, <2>2
    <2>4. a[Len(s) + 1] = k /\ \A j \in 1 .. Len(s) : a[j] = s[j]
      BY <2>1
    <2>5. a[1] = s[1] /\ a[2] = k
      BY <1>7, <2>4
    <2> QED
      BY <2>1, <2>2, <2>3, <2>5
  <1>8. PICK n \in Seq(Nat) : /\ n = Append(build.half, h) /\ Len(n) = 2
                              /\ n[1] = p /\ n[2] = h
    BY <1>1, <1>2, <1>5, <1>6, <1>7
  <1>9. /\ build'.ids = build.ids /\ build'.done = build.done /\ build'.half = n
        /\ build' \in [ids : Seq(FilterId), done : Seq(Entry), half : Seq(Nat)]
    BY <1>2, <1>6, <1>8
  <1>10. torn' = IF q.guard = "slot" /\ p = q.put THEN torn \cup {f} ELSE torn
    BY <1>1 DEF InitCopyFreeslot, Torn
  <1>11. torn \subseteq torn' /\ torn' \subseteq FId
    <2>1. torn \subseteq FId /\ f \in FId
      BY <1>3 DEF SetInv, SetType, FId
    <2> QED
      BY <1>10, <2>1
  <1>12. HalfHolds(f, w, p, h)'
    <2>1. CASE q.guard = "slot" /\ p = q.put
      BY <1>10, <2>1 DEF HalfHolds, Holds
    <2>2. CASE ~ (q.guard = "slot" /\ p = q.put)
      <3>1. Holds(f, w)
        BY <1>1, <1>3, EntryFacts
      <3>2. HalfHolds(f, w, p, h)
        BY <1>1, <1>3, <2>2, <3>1, FreeSlotRead
      <3> QED
        BY <1>2, <1>11, <3>2 DEF HalfHolds, Holds, InOrder
    <2> QED
      BY <2>1, <2>2
  <1>13. f = BuildId /\ q = container[Source].q /\ w = Completed(q)
    BY <1>1
  <1>14. Len(build'.half) \in {1, 2} /\ p = build'.half[1] /\ h = build'.half[2]
    BY <1>8, <1>9
  <1> QED
    BY <1>2, <1>3, <1>4, <1>5, <1>9, <1>11, <1>12, <1>13, <1>14, CopyStep

\* init has been given a modified filter set.
LEMMA InitStartStep ==
    ASSUME SetInv, NEW ids \in mode.sets, InitStart(ids)
    PROVE  SetInv'
  <1>1. /\ guard' = "init" /\ build' = [NotBuilding EXCEPT !.ids = ids]
        /\ UNCHANGED <<mode, pq, container, filterids, put, shaper, stored, home, delivered, torn, corrupt>>
    BY DEF InitStart, History
  <1>2. ids \in Seq(FilterId) /\ \A i, j \in DOMAIN ids : ids[i] = ids[j] => i = j
    <2>1. mode \in World
      BY DEF SetInv, SetType
    <2>2. mode.sets \subseteq Seq(FilterId) /\ IsInjective(ids)
      BY <2>1, SetAssumption
    <2> QED
      BY <2>2 DEF IsInjective
  <1>3. build' = [ids |-> ids, done |-> <<>>, half |-> <<>>]
    BY <1>1 DEF NotBuilding
  <1>4. /\ build' \in [ids : Seq(FilterId), done : Seq(Entry), half : Seq(Nat)]
        /\ build'.ids = ids /\ build'.done = <<>> /\ build'.half = <<>>
    BY <1>2, <1>3
  <1>5. SetType'
    BY <1>1, <1>4 DEF SetInv, SetType
  <1>6. References'
    BY <1>1 DEF SetInv, References, Refers
  <1>7. Building'
    <2>1. Len(build'.done) = 0 /\ Len(build'.half) = 0 /\ DOMAIN build'.done = {} /\ Len(ids) \in Nat
      BY <1>2, <1>4
    <2> QED
      BY <1>1, <1>2, <1>4, <2>1 DEF SetInv, Building
  <1>8. Queues'
    <2>1. ASSUME NEW j \in DOMAIN container', NEW g, NEW a, NEW u,
                 g = container'[j].filterid, a = container'[j].q, u = Completed(a)
          PROVE  Holds(g, u)'
      <3>1. Holds(g, u)
        BY <1>1, <2>1, EntryFacts
      <3> QED
        BY <1>1, <3>1 DEF Holds, InOrder
    <2> QED
      BY <1>4, <2>1, QueuesPrimed
  <1>9. HalfCopied'
    BY <1>4 DEF HalfCopied
  <1>10. DeliveryOrder' /\ StaysWithFilter'
    BY <1>1 DEF SetInv, DeliveryOrder, StaysWithFilter
  <1> QED
    BY <1>5, <1>6, <1>7, <1>8, <1>9, <1>10 DEF SetInv

\* pq.reset: the new container replaces the old one, all references are stale.
LEMMA InitPublishStep ==
    ASSUME SetInv, InitPublish
    PROVE  SetInv'
  <1>1. /\ guard' = "free" /\ build' = NotBuilding /\ filterids' = build.ids /\ pq' = pq + 1
        /\ container' = build.done
        /\ UNCHANGED <<mode, put, shaper, stored, home, delivered, torn, corrupt>>
    BY DEF InitPublish
  <1>2. /\ SetType /\ build.done \in Seq(Entry) /\ build.ids \in Seq(FilterId) /\ pq \in Nat
        /\ put \in [Putter -> PutState] /\ shaper \in ShaperState
    BY DEF SetInv, SetType
  <1>3. build'.ids = <<>> /\ build'.done = <<>> /\ build'.half = <<>>
    BY <1>1 DEF NotBuilding
  <1>4. SetType'
    <2>1. build' \in [ids : Seq(FilterId), done : Seq(Entry), half : Seq(Nat)]
      BY <1>1 DEF NotBuilding
    <2> QED
      BY <1>1, <1>2, <2>1 DEF SetType
  <1>5. References'
    <2>1. ASSUME NEW u \in Putter, put'[u].at \in {"write", "store"}
          PROVE  (Refers(put[u].f, put[u].c))'
      <3>1. put[u] \in PutState /\ put[u].at \in {"write", "store"} /\ put'[u] = put[u]
        BY <1>1, <1>2, <2>1
      <3>2. put[u].c \in Nat /\ Refers(put[u].f, put[u].c)
        BY <3>1 DEF PutState, Idle, SetInv, References
      <3> QED
        BY <1>1, <1>2, <3>1, <3>2 DEF Refers
    <2>2. ASSUME shaper' # Idle PROVE (Refers(shaper.f, shaper.c))'
      <3>1. shaper.c \in Nat /\ Refers(shaper.f, shaper.c)
        BY <1>1, <1>2, <2>2 DEF ShaperState, SetInv, References
      <3> QED
        BY <1>1, <1>2, <3>1 DEF Refers
    <2> QED
      BY <2>1, <2>2 DEF References
  <1>6. Building'
    <2>1. \A i, j \in DOMAIN build.done : build.done[i].filterid = build.done[j].filterid => i = j
      <3>1. /\ \A i \in DOMAIN build.done : i \in DOMAIN build.ids /\ build.done[i].filterid = build.ids[i]
            /\ \A i, j \in DOMAIN build.ids : build.ids[i] = build.ids[j] => i = j
        BY <1>2 DEF SetInv, Building
      <3> QED
        BY <3>1
    <2>2. Len(build'.done) <= Len(build'.ids) /\ Len(build'.half) <= 2 /\ DOMAIN build'.done = {}
          /\ DOMAIN build'.ids = {}
      BY <1>3
    <2> QED
      BY <1>1, <1>3, <2>1, <2>2 DEF Building, NotBuilding
  <1>7. Queues'
    <2>1. ASSUME NEW j \in DOMAIN container', NEW g, NEW a, NEW u,
                 g = container'[j].filterid, a = container'[j].q, u = Completed(a)
          PROVE  Holds(g, u)'
      <3>1. Holds(g, u)
        BY <1>1, <2>1, DoneFacts
      <3> QED
        BY <1>1, <3>1 DEF Holds, InOrder
    <2> QED
      BY <1>3, <2>1, QueuesPrimed
  <1>8. HalfCopied'
    BY <1>3 DEF HalfCopied
  <1>9. DeliveryOrder' /\ StaysWithFilter'
    BY <1>1 DEF SetInv, DeliveryOrder, StaysWithFilter
  <1> QED
    BY <1>4, <1>5, <1>6, <1>7, <1>8, <1>9 DEF SetInv

\* A step that changes nothing of the program.
LEMMA IdleStep == ASSUME SetInv, UNCHANGED vars PROVE SetInv'
  <1>1. /\ UNCHANGED <<mode, pq, container, filterids, guard, build, stored, home, delivered, torn>>
        /\ UNCHANGED <<put, shaper, corrupt>>
    BY DEF vars
  <1>2. References'
    BY <1>1 DEF SetInv, References, Refers
  <1>3. put' \in [Putter -> PutState] /\ shaper' \in ShaperState /\ corrupt' \in BOOLEAN
    BY <1>1 DEF SetInv, SetType
  <1> QED
    BY <1>1, <1>2, <1>3, CallStep

\* Every step of the packet threads, of init, of get_packet and of the shaper
\* keeps the invariant.
LEMMA NextSetInv == SetInv /\ [Next]_vars => SetInv'
  <1> SUFFICES ASSUME SetInv, [Next]_vars PROVE SetInv'
    OBVIOUS
  <1>1. ASSUME NEW t \in Putter, PutPacket(t) PROVE SetInv'
    BY <1>1, PutCallStep, PutInitStep, PutWriteStep, PutStoresStep DEF PutPacket
  <1>2. ASSUME InitFilterset PROVE SetInv'
    <2>1. ASSUME NEW ids \in mode.sets, InitStart(ids) PROVE SetInv'
      BY <2>1, InitStartStep
    <2>2. ASSUME NEW ids \in mode.sets, InitUnmodified(ids) PROVE SetInv'
      BY <2>2, IdleStep DEF InitUnmodified
    <2> QED
      BY <1>2, <2>1, <2>2, InitNewQueueStep, InitCopyCountersStep, InitCopyFreeslotStep,
         InitCopyDataStep, InitPublishStep DEF InitFilterset
  <1>3. ASSUME NEW f \in Index, GetPacket(f) PROVE SetInv'
    BY <1>3, GetPacketStep
  <1>4. ASSUME SetQueueState PROVE SetInv'
    BY <1>4, SetStateRefStep, SetStateWriteStep DEF SetQueueState
  <1> QED
    BY <1>1, <1>2, <1>3, <1>4, IdleStep DEF Next

\* get_packet hands out the packets of a filter in the order in which they were
\* stored and none twice, whoever puts packets while init copies the queues, but
\* for filters of which init copied a packet counted and not behind the free slot.
THEOREM SetDeliveryOrder == Spec => []DeliveryOrder
  <1>1. SetInv => DeliveryOrder
    BY DEF SetInv
  <1> QED
    BY <1>1, InitSetInv, NextSetInv, PTL DEF Spec

\* A packet is only ever delivered from a queue of the filter it was stored for,
\* through any number of filter sets, but for such filters.
THEOREM SetStaysWithFilter == Spec => []StaysWithFilter
  <1>1. SetInv => StaysWithFilter
    BY DEF SetInv
  <1> QED
    BY <1>1, InitSetInv, NextSetInv, PTL DEF Spec

----------------------------------------------------------------------------
(* One packet thread, and init only between its calls *)

\* The calls in progress, and the container they refer to: nothing is replaced
\* under a call, and only a put_packet that meets no container makes one.
Quiet ==
    /\ ~ corrupt
    /\ \A t, u \in Putter : put[t] # Idle /\ put[u] # Idle => t = u
    /\ guard = "init" => NoCallInProgress
    /\ \A t \in Putter : put[t].at = "init" => pq = 0
    /\ \A t \in Putter : put[t].at \in {"write", "store"} => put[t].c = pq
    /\ shaper # Idle => shaper.c = pq /\ pq # 0
    /\ pq = 0 => container = <<>> /\ filterids = <<>>

\* No put_packet is at work on q.
Settled(q) == q.guard = "free" /\ q.free < q.max

\* A queue is settled unless a put_packet is storing in it; init copies settled
\* queues only.
Resting ==
    /\ \A i \in DOMAIN container :
          \/ Settled(container[i].q)
          \/ /\ container[i].q.guard # "free"
             /\ \E t \in Putter : put[t].at = "store" /\ put[t].f + 1 = i
    /\ \A i \in DOMAIN build.done : Settled(build.done[i].q)
    /\ torn = {}

Serves == filterids # <<>> => Ids(container) = filterids

\* What init has copied is what the old container holds.
Exact ==
    /\ Len(build.half) >= 1 => build.half[1] = container[Source].q.put
    /\ Len(build.half) = 2 => build.half[2] = container[Source].q.free
    /\ \A i \in DOMAIN build.done, s \in DOMAIN container :
          build.done[i].filterid = container[s].filterid => build.done[i].q = container[s].q

Queued(p) == \E i \in DOMAIN container : p \in Range(Packets(Completed(container[i].q)))
Given(p) == \E f \in DOMAIN delivered : p \in Range(delivered[f])

Accounted ==
    /\ discarded \subseteq 1 .. stored
    /\ \A p \in 1 .. stored : Queued(p) \/ p \in discarded \/ Given(p)

OrderlyInv == Orderly => Quiet /\ Resting /\ Serves /\ Exact /\ Accounted

\* put_packet goes on: only its own state changes, and the queues if it stores.
LEMMA QuietCall ==
    ASSUME SetInv, Quiet, NEW t \in Putter, NEW s \in PutState, put[t] # Idle,
           put' = [put EXCEPT ![t] = s], s.at # "init", s.at \in {"write", "store"} => s.c = pq,
           UNCHANGED <<pq, filterids, guard, shaper, corrupt>>, pq = 0 => container' = container
    PROVE  Quiet'
  <1>1. put \in [Putter -> PutState]
    BY DEF SetInv, SetType
  <1>2. put'[t] = s /\ \A u \in Putter : u # t => put'[u] = put[u]
    BY <1>1
  <1>3. \A u, v \in Putter : put'[u] # Idle /\ put'[v] # Idle => u = v
    BY <1>2 DEF Quiet
  <1>4. guard' # "init"
    BY DEF Quiet, NoCallInProgress
  <1>5. /\ \A u \in Putter : put'[u].at = "init" => pq' = 0
        /\ \A u \in Putter : put'[u].at \in {"write", "store"} => put'[u].c = pq'
    BY <1>2 DEF Quiet
  <1>6. (shaper' # Idle => shaper'.c = pq' /\ pq' # 0) /\ (pq' = 0 => container' = <<>> /\ filterids' = <<>>)
    BY DEF Quiet
  <1> QED
    BY <1>3, <1>4, <1>5, <1>6 DEF Quiet

\* A call of put_packet starts: it is the only one.
LEMMA QuietStart ==
    ASSUME SetInv, Orderly, Quiet, NEW t \in Putter, NEW f \in Index, PutStart(t, f)
    PROVE  Quiet'
  <1> DEFINE s == [at |-> IF pq = 0 THEN "init" ELSE "size", f |-> f]
             B == {u \in Putter : put[u] # Idle}
  <1>1. put \in [Putter -> PutState]
    BY DEF SetInv, SetType
  <1>2. B = {}
    <2>1. Cardinality(B) < 1
      BY DEF PutStart, Orderly
    <2>2. IsFiniteSet(B)
      BY SetAssumption, FS_Subset
    <2> HIDE DEF B
    <2>3. Cardinality(B) \in Nat
      BY <2>2, FS_CardinalityType
    <2>4. Cardinality(B) = 0
      BY <2>1, <2>3
    <2> QED
      BY <2>2, <2>4, FS_EmptySet
  <1>3. \A u \in Putter : put[u] = Idle
    BY <1>2
  <1>4. /\ guard = "free" /\ put' = [put EXCEPT ![t] = s]
        /\ UNCHANGED <<pq, container, filterids, guard, shaper, corrupt>>
    BY DEF PutStart, SetVars, History, CallsAllowed, Orderly
  <1>5. put'[t] = s /\ \A u \in Putter : u # t => put'[u] = Idle
    BY <1>1, <1>3, <1>4
  <1>6. Idle.at = "idle" /\ s.at \notin {"write", "store"} /\ (s.at = "init" => pq = 0)
    BY DEF Idle
  <1>7. /\ \A u, v \in Putter : put'[u] # Idle /\ put'[v] # Idle => u = v
        /\ \A u \in Putter : put'[u].at = "init" => pq' = 0
        /\ \A u \in Putter : put'[u].at \in {"write", "store"} => put'[u].c = pq'
    <2> HIDE DEF s
    <2> QED
      BY <1>4, <1>5, <1>6
  <1>8. (shaper' # Idle => shaper'.c = pq' /\ pq' # 0) /\ (pq' = 0 => container' = <<>> /\ filterids' = <<>>)
    BY <1>4 DEF Quiet
  <1>9. ~ corrupt' /\ guard' # "init"
    BY <1>4 DEF Quiet
  <1> QED
    BY <1>7, <1>8, <1>9 DEF Quiet

\* A put_packet that met no container makes one; there still is none.
LEMMA QuietPutInit ==
    ASSUME SetInv, Quiet, NEW t \in Putter, PutInit(t)
    PROVE  Quiet'
  <1>1. put \in [Putter -> PutState] /\ pq \in Nat
    BY DEF SetInv, SetType
  <1>2. /\ put[t].at = "init" /\ guard = "free" /\ pq' = pq + 1 /\ put' = [put EXCEPT ![t].at = "size"]
        /\ UNCHANGED <<filterids, guard, shaper, corrupt>>
    BY DEF PutInit, History
  <1>3. Idle.at = "idle"
    BY DEF Idle
  <1>4. \A u \in Putter : u # t => put[u] = Idle
    BY <1>2, <1>3 DEF Quiet
  <1>5. pq = 0 /\ shaper = Idle /\ pq' # 0
    BY <1>1, <1>2 DEF Quiet
  <1>6. put'[t].at = "size" /\ \A u \in Putter : u # t => put'[u] = Idle
    <2>1. put[t] \in [at : {"init", "size", "ref"}, f : Nat]
      <3>1. put[t] \in PutState
        BY <1>1
      <3> QED
        BY <1>2, <3>1 DEF PutState, Idle
    <2>2. PICK s : s = [put[t] EXCEPT !.at = "size"]
      OBVIOUS
    <2>3. s.at = "size"
      BY <2>1, <2>2
    <2>4. put' = [put EXCEPT ![t] = s]
      BY <1>2, <2>2
    <2> QED
      BY <1>1, <1>4, <2>3, <2>4
  <1>7. /\ \A u, v \in Putter : put'[u] # Idle /\ put'[v] # Idle => u = v
        /\ \A u \in Putter : put'[u].at \notin {"init", "write", "store"}
    BY <1>3, <1>6
  <1> QED
    BY <1>2, <1>5, <1>7 DEF Quiet

\* Steps of put_packet after the start.
LEMMA QuietPut ==
    ASSUME SetInv, Quiet, NEW t \in Putter, PutSize(t) \/ PutRef(t) \/ PutWrite(t)
                             \/ PutCount(t) \/ PutSlot(t) \/ PutWrap(t)
    PROVE  Quiet'
  <1>1. put \in [Putter -> PutState] /\ pq \in Nat /\ put[t] \in PutState /\ container \in Seq(Entry)
    BY DEF SetInv, SetType
  <1>2. UNCHANGED <<pq, filterids, guard, shaper, corrupt>>
    BY DEF PutSize, PutRef, PutWrite, PutCount, PutSlot, PutWrap, SetVars, History
  <1>3. Idle \in PutState /\ Idle.at = "idle"
    BY DEF PutState, Idle
  <1>4. put[t] # Idle
    BY <1>3 DEF PutSize, PutRef, PutWrite, PutCount, PutSlot, PutWrap
  <1>5. pq = 0 => container' = container
    <2>1. CASE PutWrite(t) \/ PutCount(t) \/ PutSlot(t) \/ PutWrap(t)
      <3>1. put[t].at \in {"write", "store"} /\ put[t].c = pq
        BY <2>1 DEF PutWrite, PutCount, PutSlot, PutWrap
      <3>2. put[t].f \in Nat /\ put[t].f + 1 \in DOMAIN container
        BY <3>1, PutReaches
      <3>3. pq = 0 => DOMAIN container = {}
        BY DEF Quiet
      <3> QED
        BY <3>2, <3>3
    <2>2. CASE PutSize(t) \/ PutRef(t)
      BY <2>2 DEF PutSize, PutRef, SetVars
    <2> QED
      BY <2>1, <2>2
  <1>6. CASE PutSize(t)
    <2> DEFINE s == IF Len(container) > put[t].f THEN [at |-> "ref", f |-> put[t].f] ELSE Idle
    <2>1. put[t].f \in Nat
      BY <1>1, <1>6 DEF PutSize, PutState, Idle
    <2>2. s \in PutState /\ s.at \notin {"init", "write", "store"}
      BY <2>1 DEF PutState, Idle
    <2>3. put' = [put EXCEPT ![t] = s]
      BY <1>6 DEF PutSize
    <2> HIDE DEF s
    <2> QED
      BY <1>2, <1>4, <1>5, <2>2, <2>3, QuietCall
  <1>7. CASE PutRef(t)
    <2> DEFINE s == IF Len(container) > put[t].f
                      THEN [at |-> "write", f |-> put[t].f, c |-> pq] ELSE Idle
    <2>1. put[t].f \in Nat
      BY <1>1, <1>7 DEF PutRef, PutState, Idle
    <2>2. s \in PutState /\ (s.at \in {"write", "store"} => s.c = pq) /\ s.at # "init"
      BY <1>1, <2>1 DEF PutState, Idle
    <2>3. put' = [put EXCEPT ![t] = s]
      BY <1>7 DEF PutRef
    <2> HIDE DEF s
    <2> QED
      BY <1>2, <1>4, <1>5, <2>2, <2>3, QuietCall
  <1>8. CASE PutWrite(t)
    <2>1. put[t].at = "write" /\ put[t].c = pq
      BY <1>8 DEF PutWrite
    <2>2. put[t] \in [at : {"write", "store"}, f : Nat, c : Nat]
      BY <1>1, <2>1 DEF PutState, Idle
    <2>3. PICK s : s = [put[t] EXCEPT !.at = "store"]
      OBVIOUS
    <2>4. s \in PutState /\ s.c = pq /\ s.at = "store"
      BY <2>1, <2>2, <2>3 DEF PutState
    <2>5. put' = [put EXCEPT ![t] = Idle] \/ put' = [put EXCEPT ![t] = s]
      BY <1>8, <2>3 DEF PutWrite
    <2>6. CASE put' = [put EXCEPT ![t] = Idle]
      BY <1>2, <1>3, <1>4, <1>5, <2>6, QuietCall
    <2>7. CASE put' = [put EXCEPT ![t] = s]
      BY <1>2, <1>4, <1>5, <2>4, <2>7, QuietCall
    <2> QED
      BY <2>5, <2>6, <2>7
  <1>9. CASE PutCount(t) \/ PutSlot(t) \/ PutWrap(t)
    <2>1. PICK s : s = put[t]
      OBVIOUS
    <2>2. put[t].at = "store" /\ put[t].c = pq
      BY <1>9 DEF PutCount, PutSlot, PutWrap
    <2>3. s \in PutState /\ s.at = "store" /\ s.c = pq
      BY <1>1, <2>1, <2>2
    <2>4. put' = [put EXCEPT ![t] = Idle] \/ put' = [put EXCEPT ![t] = s]
      <3>1. [put EXCEPT ![t] = s] = put
        BY <1>1, <2>1
      <3> QED
        BY <1>9, <3>1, PutStoresDo
    <2>5. CASE put' = [put EXCEPT ![t] = Idle]
      BY <1>2, <1>3, <1>4, <1>5, <2>5, QuietCall
    <2>6. CASE put' = [put EXCEPT ![t] = s]
      BY <1>2, <1>4, <1>5, <2>3, <2>6, QuietCall
    <2> QED
      BY <2>4, <2>5, <2>6
  <1> QED
    BY <1>6, <1>7, <1>8, <1>9

\* Steps of init: no call is in progress.
LEMMA QuietInit ==
    ASSUME SetInv, Orderly, Quiet, InitFilterset
    PROVE  Quiet'
  <1>1. pq \in Nat
    BY DEF SetInv, SetType
  <1>2. CASE \E ids \in mode.sets : InitStart(ids) \/ InitUnmodified(ids)
    <2>1. NoCallInProgress /\ guard = "free"
      BY <1>2 DEF InitStart, InitUnmodified, Orderly
    <2>2. UNCHANGED <<pq, container, filterids, put, shaper, corrupt>>
      BY <1>2 DEF InitStart, InitUnmodified, History, vars
    <2> QED
      BY <2>1, <2>2 DEF Quiet, NoCallInProgress
  <1>3. CASE InitNewQueue \/ InitCopyCounters \/ InitCopyFreeslot \/ InitCopyData
    <2>1. UNCHANGED <<pq, container, filterids, guard, put, shaper, corrupt>>
      BY <1>3 DEF InitNewQueue, InitCopyCounters, InitCopyFreeslot, InitCopyData, SetVars, History
    <2> QED
      BY <2>1 DEF Quiet, NoCallInProgress
  <1>4. CASE InitPublish
    <2>1. /\ pq' = pq + 1 /\ guard = "init" /\ guard' = "free"
          /\ UNCHANGED <<put, shaper, corrupt>>
      BY <1>4 DEF InitPublish
    <2>2. shaper = Idle /\ \A t \in Putter : put[t] = Idle
      BY <2>1 DEF Quiet, NoCallInProgress
    <2>3. Idle.at = "idle" /\ pq' # 0
      BY <1>1, <2>1 DEF Idle
    <2> QED
      BY <2>1, <2>2, <2>3 DEF Quiet
  <1> QED
    BY <1>2, <1>3, <1>4 DEF InitFilterset

\* Steps of get_packet and set_queue_state.
LEMMA QuietShaper ==
    ASSUME SetInv, Orderly, Quiet, (\E f \in Index : GetPacket(f)) \/ SetQueueState
    PROVE  Quiet'
  <1>1. pq \in Nat
    BY DEF SetInv, SetType
  <1>2. CASE \E f \in Index : GetPacket(f)
    <2>1. pq # 0 /\ UNCHANGED <<pq, filterids, guard, put, shaper, corrupt>>
      BY <1>2 DEF GetPacket
    <2> QED
      BY <2>1 DEF Quiet, NoCallInProgress
  <1>3. CASE \E f \in Index, ticks \in 0 .. MaxTicks : SetStateRef(f, ticks)
    <2>1. /\ pq # 0 /\ guard = "free" /\ shaper'.c = pq
          /\ UNCHANGED <<pq, container, filterids, guard, put, corrupt>>
      BY <1>3 DEF SetStateRef, SetVars, History, CallsAllowed, Orderly
    <2> QED
      BY <2>1 DEF Quiet
  <1>4. CASE SetStateWrite
    <2>1. /\ shaper # Idle /\ shaper' = Idle
          /\ UNCHANGED <<pq, filterids, guard, put>>
      BY <1>4 DEF SetStateWrite
    <2>2. shaper.c = pq /\ pq # 0
      BY <2>1 DEF Quiet
    <2>3. corrupt' = corrupt
      BY <1>4, <2>2 DEF SetStateWrite
    <2> QED
      BY <2>1, <2>2, <2>3 DEF Quiet, NoCallInProgress
  <1> QED
    BY <1>2, <1>3, <1>4 DEF SetQueueState

\* No step of an orderly service writes into a container that is gone.
LEMMA QuietNext ==
    ASSUME SetInv, Orderly, Quiet, [Next]_vars
    PROVE  Quiet' /\ \A t \in Putter : ~ PutDangling(t)
  <1>1. \A t \in Putter : ~ PutDangling(t)
    BY DEF PutDangling, Quiet
  <1>2. ASSUME NEW t \in Putter, PutPacket(t) PROVE Quiet'
    BY <1>1, <1>2, QuietStart, QuietPutInit, QuietPut DEF PutPacket
  <1>3. CASE UNCHANGED vars
    <2>1. UNCHANGED <<pq, container, filterids, guard, put, shaper, corrupt>>
      BY <1>3 DEF vars
    <2> QED
      BY <1>1, <2>1 DEF Quiet, NoCallInProgress
  <1> QED
    BY <1>1, <1>2, <1>3, QuietInit, QuietShaper DEF Next

\* The steps of the packet threads, of get_packet and of set_queue_state happen
\* while init is not at work.
LEMMA FreeStep ==
    ASSUME SetInv, Orderly, Quiet,
           \/ \E t \in Putter : PutPacket(t)
           \/ \E f \in Index : GetPacket(f)
           \/ SetQueueState
    PROVE  guard = "free" /\ UNCHANGED <<build, guard>>
  <1>1. guard \in {"free", "init"} /\ Idle.at = "idle"
    BY DEF SetInv, SetType, Idle
  <1>2. ASSUME NEW t \in Putter, PutPacket(t) PROVE guard = "free" /\ UNCHANGED <<build, guard>>
    <2>1. CASE \E f \in Index : PutStart(t, f)
      BY <2>1 DEF PutStart, CallsAllowed, Orderly
    <2>2. CASE PutInit(t) \/ PutSize(t) \/ PutRef(t) \/ PutWrite(t)
               \/ PutCount(t) \/ PutSlot(t) \/ PutWrap(t) \/ PutDangling(t)
      <3>1. put[t] # Idle
        BY <1>1, <2>2 DEF PutInit, PutSize, PutRef, PutWrite, PutCount, PutSlot, PutWrap, PutDangling
      <3>2. guard = "free"
        BY <1>1, <3>1 DEF Quiet, NoCallInProgress
      <3> QED
        BY <2>2, <3>2 DEF PutInit, PutSize, PutRef, PutWrite, PutCount, PutSlot, PutWrap, PutDangling
    <2> QED
      BY <1>2, <2>1, <2>2 DEF PutPacket
  <1>3. ASSUME NEW f \in Index, GetPacket(f) PROVE guard = "free" /\ UNCHANGED <<build, guard>>
    BY <1>3 DEF GetPacket
  <1>4. CASE SetQueueState
    <2>1. CASE \E f \in Index, ticks \in 0 .. MaxTicks : SetStateRef(f, ticks)
      BY <2>1 DEF SetStateRef, CallsAllowed, Orderly
    <2>2. CASE SetStateWrite
      BY <1>1, <2>2 DEF SetStateWrite, Quiet, NoCallInProgress
    <2> QED
      BY <1>4, <2>1, <2>2 DEF SetQueueState
  <1> QED
    BY <1>2, <1>3, <1>4

\* A queue changes: the filters of the container stay, and its other queues.
LEMMA ChangeKeeps ==
    ASSUME SetInv, NEW i, NEW f, NEW q, NEW r, Changes(i, f, q, r)
    PROVE  /\ Ids(container)' = Ids(container) /\ DOMAIN container' = DOMAIN container
           /\ i \in DOMAIN container /\ container[i].q = q /\ container'[i].q = r
           /\ f \in FId /\ q \in Members /\ r \in Members
           /\ Completed(q) \in Queue /\ Completed(r) \in Queue
           /\ \A j \in DOMAIN container : j # i => container'[j].q = container[j].q
  <1>1. container \in Seq(Entry)
    BY DEF SetInv, SetType
  <1>2. /\ i \in DOMAIN container /\ container[i].q = q /\ f = container[i].filterid
        /\ r \in Members /\ container' = [container EXCEPT ![i].q = r]
    BY DEF Changes
  <1>3. /\ DOMAIN container' = DOMAIN container
        /\ \A j \in DOMAIN container : container'[j].filterid = container[j].filterid
        /\ container'[i].q = r
        /\ \A j \in DOMAIN container : j # i => container'[j].q = container[j].q
    BY <1>1, <1>2, QueueReplaced
  <1>4. [j \in DOMAIN container' |-> container'[j].filterid] = [j \in DOMAIN container |-> container[j].filterid]
    BY <1>3
  <1>5. Ids(container)' = Ids(container)
    BY <1>4 DEF Ids
  <1>6. q \in Members /\ f \in FId /\ Completed(q) \in Queue /\ Completed(r) \in Queue
    BY <1>2, EntryFacts, MembersFacts
  <1> QED
    BY <1>2, <1>3, <1>5, <1>6

\* While init is at work no put_packet is.
LEMMA SettledCopy ==
    ASSUME Quiet, Resting, guard = "init", NEW i \in DOMAIN container
    PROVE  Settled(container[i].q)
  <1>1. \A t \in Putter : put[t].at = "idle"
    BY DEF Quiet, NoCallInProgress, Idle
  <1> QED
    BY <1>1 DEF Resting

\* A queue that is settled is what it is when put_packet is done.
LEMMA SettledFacts ==
    ASSUME NEW q \in Members, Settled(q)
    PROVE  Packets(Completed(q)) = Packets(q)
  <1>1. Completed(q).put = FinalPut(q) /\ Completed(q).free = FinalFree(q)
        /\ Completed(q).get = q.get /\ Completed(q).max = q.max /\ Completed(q).data = q.data
        /\ q.max \in Nat /\ q.free \in Nat
    BY MembersFacts
  <1>2. FinalPut(q) = q.put /\ FinalFree(q) = q.free
    BY <1>1 DEF Settled, FinalPut, FinalFree, Wrapped
  <1> QED
    BY <1>1, <1>2 DEF Packets, Qsize

\* A queue changes and is settled as before, or is in the hands of the put_packet
\* that changes it.
LEMMA RestingChange ==
    ASSUME SetInv, Resting, NEW i, NEW f, NEW q, NEW r, Changes(i, f, q, r),
           build' = build, torn' = torn,
           \/ put' = put /\ r.guard = q.guard /\ r.free = q.free /\ r.max = q.max
           \/ /\ \A u \in Putter : put[u].at = "store" /\ put[u].f + 1 # i => put'[u] = put[u]
              /\ \/ Settled(r)
                 \/ r.guard # "free" /\ \E u \in Putter : put'[u].at = "store" /\ put'[u].f + 1 = i
    PROVE  Resting'
  <1>1. /\ DOMAIN container' = DOMAIN container /\ container[i].q = q /\ container'[i].q = r
        /\ i \in DOMAIN container
        /\ \A j \in DOMAIN container : j # i => container'[j].q = container[j].q
    BY ChangeKeeps
  <1>2. ASSUME NEW j \in DOMAIN container
        PROVE  \/ Settled(container'[j].q)
               \/ /\ container'[j].q.guard # "free"
                  /\ \E u \in Putter : put'[u].at = "store" /\ put'[u].f + 1 = j
    <2>1. CASE j = i
      <3>1. CASE put' = put /\ r.guard = q.guard /\ r.free = q.free /\ r.max = q.max
        BY <1>1, <2>1, <3>1 DEF Resting, Settled
      <3>2. CASE \/ Settled(r)
                 \/ r.guard # "free" /\ \E u \in Putter : put'[u].at = "store" /\ put'[u].f + 1 = i
        BY <1>1, <2>1, <3>2
      <3> QED
        BY <3>1, <3>2
    <2>2. CASE j # i
      <3>1. container'[j].q = container[j].q
        BY <1>1, <2>2
      <3>2. CASE Settled(container[j].q)
        BY <3>1, <3>2
      <3>3. CASE /\ container[j].q.guard # "free"
                 /\ \E t \in Putter : put[t].at = "store" /\ put[t].f + 1 = j
        <4>1. PICK t \in Putter : put[t].at = "store" /\ put[t].f + 1 = j
          BY <3>3
        <4>2. put'[t] = put[t]
          BY <2>2, <4>1
        <4> QED
          BY <3>1, <3>3, <4>1, <4>2
      <3> QED
        BY <3>2, <3>3 DEF Resting
    <2> QED
      BY <2>1, <2>2
  <1>3. \A j \in DOMAIN build'.done : Settled(build'.done[j].q)
    BY DEF Resting
  <1> QED
    BY <1>1, <1>2, <1>3 DEF Resting

\* Steps of put_packet.
LEMMA RestingPut ==
    ASSUME SetInv, Orderly, Quiet, Resting, NEW t \in Putter, PutPacket(t)
    PROVE  Resting'
  <1>1. put \in [Putter -> PutState] /\ put[t] \in PutState /\ Idle.at = "idle"
    BY DEF SetInv, SetType, Idle
  <1>2. ~ PutDangling(t)
    BY DEF PutDangling, Quiet
  <1>3. ASSUME UNCHANGED <<container, build, torn>>, put[t].at # "store", NEW s,
               put' = [put EXCEPT ![t] = s]
        PROVE  Resting'
    <2>1. \A u \in Putter : put[u].at = "store" => put'[u] = put[u]
      BY <1>1, <1>3
    <2> QED
      BY <1>3, <2>1 DEF Resting
  <1>4. CASE \E f \in Index : PutStart(t, f)
    <2>1. PICK f \in Index : PutStart(t, f)
      BY <1>4
    <2>2. /\ put[t].at # "store" /\ UNCHANGED <<container, build, torn>>
          /\ put' = [put EXCEPT ![t] = [at |-> IF pq = 0 THEN "init" ELSE "size", f |-> f]]
      BY <2>1 DEF PutStart, SetVars, History
    <2> QED
      BY <1>3, <2>2
  <1>5. CASE PutInit(t)
    <2>1. PICK q : q = NewQueue(SetQueueMax)
      OBVIOUS
    <2>2. Settled(q)
      BY <2>1, SetAssumption, NewQueueEmpty DEF Settled
    <2>3. container' = << [filterid |-> DefaultId, q |-> q] >> /\ build' = build /\ torn' = torn
      BY <1>5, <2>1 DEF PutInit, History
    <2>4. DOMAIN container' = {1} /\ container'[1].q = q
      BY <2>3
    <2> QED
      BY <2>2, <2>3, <2>4 DEF Resting
  <1>6. CASE PutSize(t)
    <2>1. /\ put[t].at # "store" /\ UNCHANGED <<container, build, torn>>
          /\ put' = [put EXCEPT ![t] = IF Len(container) > put[t].f
                                         THEN [at |-> "ref", f |-> put[t].f] ELSE Idle]
      BY <1>6 DEF PutSize, SetVars, History
    <2> QED
      BY <1>3, <2>1
  <1>7. CASE PutRef(t)
    <2>1. /\ put[t].at # "store" /\ UNCHANGED <<container, build, torn>>
          /\ put' = [put EXCEPT ![t] = IF Len(container) > put[t].f
                                         THEN [at |-> "write", f |-> put[t].f, c |-> pq] ELSE Idle]
      BY <1>7 DEF PutRef, SetVars, History
    <2> QED
      BY <1>3, <2>1
  <1>8. CASE PutWrite(t)
    <2>1. put[t].at = "write" /\ put[t].at # "store" /\ UNCHANGED <<build, torn>>
      BY <1>8 DEF PutWrite
    <2>2. CASE UNCHANGED <<container, stored, home>> /\ put' = [put EXCEPT ![t] = Idle]
      BY <1>3, <2>1, <2>2
    <2>3. ASSUME NEW i, NEW f, NEW q, NEW r, Changes(i, f, q, r),
                 i = put[t].f + 1, r.guard = "count", put' = [put EXCEPT ![t].at = "store"]
          PROVE  Resting'
      <3>1. PICK s : s = [put[t] EXCEPT !.at = "store"]
        OBVIOUS
      <3>2. put[t] \in [at : {"write", "store"}, f : Nat, c : Nat]
        BY <1>1, <2>1 DEF PutState, Idle
      <3>3. s.at = "store" /\ s.f = put[t].f
        BY <3>1, <3>2
      <3>4. put' = [put EXCEPT ![t] = s]
        BY <2>3, <3>1
      <3>5. /\ \A u \in Putter : put[u].at = "store" /\ put[u].f + 1 # i => put'[u] = put[u]
            /\ put'[t].at = "store" /\ put'[t].f + 1 = i
        BY <1>1, <2>1, <2>3, <3>3, <3>4
      <3>6. \E u \in Putter : put'[u].at = "store" /\ put'[u].f + 1 = i
        BY <3>5
      <3>7. r.guard # "free"
        BY <2>3
      <3> QED
        BY <2>1, <2>3, <3>5, <3>6, <3>7, RestingChange
    <2> QED
      BY <1>8, <2>2, <2>3, PutWriteDoes
  <1>9. CASE PutCount(t) \/ PutSlot(t) \/ PutWrap(t)
    <2>1. put[t].at = "store"
      BY <1>9 DEF PutCount, PutSlot, PutWrap
    <2>2. PICK i, f, q, r : /\ Changes(i, f, q, r) /\ i = put[t].f + 1
                            /\ PutWrap(t) => r.guard = "free" /\ r.free < r.max
                            /\ ~ PutWrap(t) => r.guard # "free"
      BY <1>9, PutStoresDo
    <2>3. build' = build /\ torn' = torn
      BY <1>9, PutStoresDo DEF History
    <2>4. CASE put' = put /\ ~ PutWrap(t)
      <3>1. \E u \in Putter : put'[u].at = "store" /\ put'[u].f + 1 = i
        BY <2>1, <2>2, <2>4
      <3>2. r.guard # "free"
        BY <2>2, <2>4
      <3>3. \A u \in Putter : put[u].at = "store" /\ put[u].f + 1 # i => put'[u] = put[u]
        BY <2>4
      <3> QED
        BY <2>2, <2>3, <3>1, <3>2, <3>3, RestingChange
    <2>5. CASE put' = [put EXCEPT ![t] = Idle] /\ PutWrap(t)
      <3>1. Settled(r)
        BY <2>2, <2>5 DEF Settled
      <3>2. \A u \in Putter : put[u].at = "store" /\ put[u].f + 1 # i => put'[u] = put[u]
        BY <1>1, <2>2, <2>5
      <3> QED
        BY <2>2, <2>3, <3>1, <3>2, RestingChange
    <2> QED
      BY <1>9, <2>4, <2>5, PutStoresDo
  <1> QED
    BY <1>2, <1>4, <1>5, <1>6, <1>7, <1>8, <1>9 DEF PutPacket

\* Steps of init: it copies settled queues.
LEMMA RestingInit ==
    ASSUME SetInv, Quiet, Resting, Exact, InitFilterset
    PROVE  Resting'
  <1>0. /\ build \in [ids : Seq(FilterId), done : Seq(Entry), half : Seq(Nat)]
        /\ build.done \in Seq(Entry)
    BY DEF SetInv, SetType
  <1>1. ASSUME UNCHANGED <<container, put, torn>>, build'.done = build.done \/ build'.done = <<>>
        PROVE  Resting'
    BY <1>1 DEF Resting
  <1>2. ASSUME UNCHANGED <<container, put, torn>>, NEW e, Settled(e.q),
               build'.done = Append(build.done, e)
        PROVE  Resting'
    <2>1. \A j \in DOMAIN build'.done :
             (j \in DOMAIN build.done /\ build'.done[j] = build.done[j]) \/ build'.done[j] = e
      <3>1. PICK n : n = Append(build.done, e)
        OBVIOUS
      <3>2. \A j \in DOMAIN n : (j \in DOMAIN build.done /\ n[j] = build.done[j]) \/ n[j] = e
        BY <1>0, <3>1
      <3> QED
        BY <1>2, <3>1, <3>2
    <2>2. \A j \in DOMAIN build'.done : Settled(build'.done[j].q)
      BY <1>2, <2>1 DEF Resting
    <2> QED
      BY <1>2, <2>2 DEF Resting
  <1>3. CASE \E ids \in mode.sets : InitStart(ids) \/ InitUnmodified(ids)
    <2>1. UNCHANGED <<container, put, torn>> /\ (build'.done = build.done \/ build'.done = <<>>)
      BY <1>3 DEF InitStart, InitUnmodified, NotBuilding, History, vars
    <2> QED
      BY <1>1, <2>1
  <1>4. CASE InitNewQueue
    <2>1. PICK q, e : q = NewQueue(FilterQueueMax) /\ e = [filterid |-> BuildId, q |-> q]
      OBVIOUS
    <2>2. Settled(q) /\ e.q = q
      BY <2>1, SetAssumption, NewQueueEmpty DEF Settled
    <2>3. build' = [build EXCEPT !.done = Append(build.done, e)] /\ UNCHANGED <<container, put, torn>>
      BY <1>4, <2>1 DEF InitNewQueue, SetVars, History
    <2>4. build'.done = Append(build.done, e)
      BY <1>0, <2>3
    <2> QED
      BY <1>2, <2>2, <2>3, <2>4
  <1>5. CASE InitCopyCounters
    <2>1. UNCHANGED <<container, put, torn>> /\ build'.done = build.done
      BY <1>0, <1>5 DEF InitCopyCounters, SetVars, History
    <2> QED
      BY <1>1, <2>1
  <1>6. CASE InitCopyFreeslot
    <2>1. UNCHANGED <<container, put>> /\ build'.done = build.done /\ Len(build.half) = 1
      BY <1>0, <1>6 DEF InitCopyFreeslot, SetVars
    <2>2. Settled(container[Source].q)
      BY <2>1, HalfFacts, SettledCopy
    <2>3. ~ Torn
      BY <2>2 DEF Torn, Settled
    <2>4. torn' = torn
      BY <1>6, <2>3 DEF InitCopyFreeslot
    <2> QED
      BY <1>1, <2>1, <2>4
  <1>7. CASE InitCopyData
    <2>1. PICK w, p, h, q, e : /\ w = container[Source].q /\ p = build.half[1] /\ h = build.half[2]
                               /\ q = Moved(w, p, h, "free") /\ e = [filterid |-> BuildId, q |-> q]
      OBVIOUS
    <2>2. Len(build.half) = 2 /\ UNCHANGED <<container, put, torn>>
      BY <1>7 DEF InitCopyData, SetVars, History
    <2>3. build' = [build EXCEPT !.half = <<>>, !.done = Append(build.done, e)]
      BY <1>7, <2>1 DEF InitCopyData, Moved
    <2>4. build'.done = Append(build.done, e)
      BY <1>0, <2>3
    <2>5. w \in Members /\ Settled(w) /\ h = w.free /\ w \in MembersRecord
      BY <2>1, <2>2, HalfFacts, SettledCopy, MembersFacts DEF Exact
    <2>6. q.guard = "free" /\ q.free = h /\ q.max = w.max
      BY <2>1, <2>5 DEF Moved, MembersRecord
    <2>7. Settled(q) /\ e.q = q
      BY <2>1, <2>5, <2>6 DEF Settled
    <2> QED
      BY <1>2, <2>2, <2>4, <2>7
  <1>8. CASE InitPublish
    <2>1. container' = build.done /\ build'.done = <<>> /\ torn' = torn
      BY <1>8 DEF InitPublish, NotBuilding
    <2> QED
      BY <2>1 DEF Resting
  <1> QED
    BY <1>3, <1>4, <1>5, <1>6, <1>7, <1>8 DEF InitFilterset

\* No step leaves a queue half stored but for the put_packet at work on it.
LEMMA RestingNext ==
    ASSUME SetInv, Orderly, Quiet, Resting, Exact, [Next]_vars
    PROVE  Resting'
  <1>1. ASSUME UNCHANGED <<container, build, put, torn>> PROVE Resting'
    BY <1>1 DEF Resting
  <1>2. ASSUME NEW f \in Index, GetPacket(f) PROVE Resting'
    <2>1. UNCHANGED <<build, put, torn>>
      BY <1>2 DEF GetPacket
    <2>2. PICK i, g, q, r : /\ Changes(i, g, q, r)
                            /\ r.guard = q.guard /\ r.free = q.free /\ r.max = q.max
      BY <1>2, GetPacketDoes
    <2> QED
      BY <2>1, <2>2, RestingChange
  <1>3. CASE SetQueueState
    <2>1. CASE \E f \in Index, ticks \in 0 .. MaxTicks : SetStateRef(f, ticks)
      BY <1>1, <2>1 DEF SetStateRef, SetVars, History
    <2>2. CASE SetStateWrite
      <3>1. UNCHANGED <<build, put, torn>> /\ shaper.c = pq
        BY <2>2 DEF SetStateWrite, Quiet
      <3>2. PICK i, g, q, r : /\ Changes(i, g, q, r)
                              /\ r.guard = q.guard /\ r.free = q.free /\ r.max = q.max
        BY <2>2, <3>1, SetStateWriteDoes
      <3> QED
        BY <3>1, <3>2, RestingChange
    <2> QED
      BY <1>3, <2>1, <2>2 DEF SetQueueState
  <1>4. CASE UNCHANGED vars
    BY <1>1, <1>4 DEF vars
  <1> QED
    BY <1>2, <1>3, <1>4, RestingPut, RestingInit DEF Next

\* ticks_left changed: the same packets are queued.
LEMMA TickedKeeps ==
    ASSUME NEW q \in Queue, NEW r, Ticked(q, r)
    PROVE  r \in Queue /\ Range(Packets(r)) = Range(Packets(q))
  <1>1. PICK k \in Int : r = [q EXCEPT !.ticks = k]
    BY DEF Ticked
  <1>2. r \in Queue /\ Qsize(r) = Qsize(q) /\ \A i \in 1 .. Qsize(q) : At(r, i) = At(q, i)
    BY <1>1, TicksKeep
  <1>3. {At(r, i) : i \in 1 .. Qsize(q)} = {At(q, i) : i \in 1 .. Qsize(q)}
    BY <1>2
  <1> QED
    BY <1>2, <1>3, PacketsAt

\* put_packet adds its packet to those queued.
LEMMA PutKeeps ==
    ASSUME NEW q \in Queue, NEW x \in Nat, Qsize(q) < q.max, NEW r, r = QueuePut(q, x)
    PROVE  r \in Queue /\ Range(Packets(q)) \subseteq Range(Packets(r)) /\ x \in Range(Packets(r))
  <1>1. /\ r \in Queue /\ Qsize(r) = Qsize(q) + 1
        /\ \A i \in 1 .. Qsize(q) : At(r, i) = At(q, i)
        /\ At(r, Qsize(q) + 1) = x
    BY PutAppends
  <1>2. Qsize(q) \in Nat
    BY QueueFacts
  <1>3. \A i \in 1 .. Qsize(q) : i \in 1 .. Qsize(r)
    BY <1>1, <1>2
  <1>4. Qsize(q) + 1 \in 1 .. Qsize(r)
    BY <1>1, <1>2
  <1>5. /\ Range(Packets(q)) = {At(q, i) : i \in 1 .. Qsize(q)}
        /\ Range(Packets(r)) = {At(r, i) : i \in 1 .. Qsize(r)}
    BY PacketsAt
  <1> QED
    BY <1>1, <1>3, <1>4, <1>5

\* get_packet removes only the packet it delivers.
LEMMA TakenKeeps ==
    ASSUME NEW q \in Queue, Qsize(q) > 0, NEW r, r = [q EXCEPT !.get = q.get + 1]
    PROVE  r \in Queue /\ \A p \in Range(Packets(q)) : p \in Range(Packets(r)) \/ p = At(q, 1)
  <1>1. /\ r \in Queue /\ Qsize(r) = Qsize(q) - 1
        /\ \A i \in 1 .. Qsize(q) - 1 : At(r, i) = At(q, i + 1)
    BY GetTakesOldest
  <1>2. Qsize(q) \in Nat
    BY QueueFacts
  <1>3. /\ Range(Packets(q)) = {At(q, i) : i \in 1 .. Qsize(q)}
        /\ Range(Packets(r)) = {At(r, i) : i \in 1 .. Qsize(r)}
    BY PacketsAt
  <1>4. ASSUME NEW i \in 1 .. Qsize(q) PROVE At(q, i) \in Range(Packets(r)) \/ At(q, i) = At(q, 1)
    <2>1. CASE i = 1
      BY <2>1
    <2>2. CASE i # 1
      <3>1. i - 1 \in 1 .. Qsize(q) - 1 /\ (i - 1) + 1 = i
        BY <1>2, <2>2
      <3>2. At(r, i - 1) = At(q, i)
        BY <1>1, <3>1
      <3> QED
        BY <1>1, <1>3, <3>1, <3>2
    <2> QED
      BY <2>1, <2>2
  <1> QED
    BY <1>1, <1>3, <1>4

\* The container serves the filters of filterids.
LEMMA ServesNext ==
    ASSUME SetInv, Orderly, Quiet, Serves, [Next]_vars
    PROVE  Serves'
  <1>1. ASSUME UNCHANGED <<container, filterids>> PROVE Serves'
    BY <1>1 DEF Serves, Ids
  <1>2. ASSUME NEW i, NEW f, NEW q, NEW r, Changes(i, f, q, r), filterids' = filterids
        PROVE  Serves'
    BY <1>2, ChangeKeeps DEF Serves
  <1>3. ASSUME NEW t \in Putter, PutPacket(t) PROVE Serves'
    <2>1. CASE \/ \E f \in Index : PutStart(t, f)
               \/ PutSize(t) \/ PutRef(t) \/ PutDangling(t)
      BY <1>1, <2>1 DEF PutStart, PutSize, PutRef, PutDangling, SetVars
    <2>2. CASE PutInit(t)
      BY <2>2 DEF PutInit, Quiet, Serves
    <2>3. CASE PutWrite(t)
      <3>1. filterids' = filterids
        BY <2>3 DEF PutWrite
      <3> QED
        BY <1>1, <1>2, <2>3, <3>1, PutWriteDoes
    <2>4. CASE PutCount(t) \/ PutSlot(t) \/ PutWrap(t)
      <3>1. filterids' = filterids
        BY <2>4, PutStoresDo
      <3> QED
        BY <1>2, <2>4, <3>1, PutStoresDo
    <2> QED
      BY <1>3, <2>1, <2>2, <2>3, <2>4 DEF PutPacket
  <1>4. ASSUME InitFilterset PROVE Serves'
    <2>1. CASE \/ \E ids \in mode.sets : InitStart(ids) \/ InitUnmodified(ids)
               \/ InitNewQueue \/ InitCopyCounters \/ InitCopyFreeslot \/ InitCopyData
      <3>1. UNCHANGED <<container, filterids>>
        BY <2>1 DEF InitStart, InitUnmodified, InitNewQueue, InitCopyCounters, InitCopyFreeslot,
           InitCopyData, SetVars, vars
      <3> QED
        BY <1>1, <3>1
    <2>2. CASE InitPublish
      <3>1. container' = build.done /\ filterids' = build.ids /\ Len(build.done) = Len(build.ids)
        BY <2>2 DEF InitPublish
      <3>2. build.done \in Seq(Entry) /\ build.ids \in Seq(FilterId)
        BY DEF SetInv, SetType
      <3>3. \A i \in DOMAIN build.done : build.done[i].filterid = build.ids[i]
        BY DEF SetInv, Building
      <3>4. Ids(build.done) = build.ids
        BY <3>1, <3>2, <3>3 DEF Ids
      <3> QED
        BY <3>1, <3>4 DEF Serves, Ids
    <2> QED
      BY <1>4, <2>1, <2>2 DEF InitFilterset
  <1>5. ASSUME NEW f \in Index, GetPacket(f) PROVE Serves'
    <2>1. filterids' = filterids
      BY <1>5 DEF GetPacket
    <2> QED
      BY <1>2, <1>5, <2>1, GetPacketDoes
  <1>6. ASSUME SetQueueState PROVE Serves'
    <2>1. CASE \E f \in Index, ticks \in 0 .. MaxTicks : SetStateRef(f, ticks)
      BY <1>1, <2>1 DEF SetStateRef, SetVars
    <2>2. CASE SetStateWrite
      <3>1. shaper.c = pq /\ filterids' = filterids
        BY <2>2 DEF SetStateWrite, Quiet
      <3> QED
        BY <1>2, <2>2, <3>1, SetStateWriteDoes
    <2> QED
      BY <1>6, <2>1, <2>2 DEF SetQueueState
  <1> QED
    BY <1>1, <1>3, <1>4, <1>5, <1>6 DEF Next, vars

\* The queue that init completes is the one of the filter in the old container.
LEMMA ExactAppend ==
    ASSUME SetInv, Exact, NEW e, NEW f, f = BuildId, e.filterid = f,
           build.done \in Seq(Entry),
           \A s \in DOMAIN container : container[s].filterid = f => e.q = container[s].q,
           build'.done = Append(build.done, e), build'.half = <<>>, UNCHANGED container
    PROVE  Exact'
  <1>1. \A j \in DOMAIN build'.done :
           (j \in DOMAIN build.done /\ build'.done[j] = build.done[j]) \/ build'.done[j] = e
    <2>1. PICK n : n = Append(build.done, e)
      OBVIOUS
    <2>2. \A j \in DOMAIN n : (j \in DOMAIN build.done /\ n[j] = build.done[j]) \/ n[j] = e
      BY <2>1
    <2> QED
      BY <2>1, <2>2
  <1>2. ASSUME NEW i \in DOMAIN build'.done, NEW s \in DOMAIN container',
               build'.done[i].filterid = container'[s].filterid
        PROVE  build'.done[i].q = container'[s].q
    BY <1>1, <1>2 DEF Exact
  <1> QED
    BY <1>2 DEF Exact

\* init copies the queues as they are, because no packet is put meanwhile.
LEMMA ExactNext ==
    ASSUME SetInv, Orderly, Quiet, Resting, Exact, [Next]_vars
    PROVE  Exact'
  <1>0. build \in [ids : Seq(FilterId), done : Seq(Entry), half : Seq(Nat)] /\ build.done \in Seq(Entry)
        /\ build.half \in Seq(Nat)
    BY DEF SetInv, SetType
  <1>1. ASSUME guard = "free", build' = build PROVE Exact'
    <2>1. build'.half = <<>> /\ build'.done = <<>>
      BY <1>1, FreeFacts
    <2> QED
      BY <2>1 DEF Exact
  <1>2. ASSUME NEW ids \in mode.sets, InitStart(ids) PROVE Exact'
    <2>1. build'.half = <<>> /\ build'.done = <<>>
      BY <1>2 DEF InitStart, NotBuilding
    <2> QED
      BY <2>1 DEF Exact
  <1>3. ASSUME NEW ids \in mode.sets, InitUnmodified(ids) PROVE Exact'
    BY <1>1, <1>3 DEF InitUnmodified, vars
  <1>4. CASE InitNewQueue
    <2>1. PICK f, q, e : f = BuildId /\ q = NewQueue(FilterQueueMax) /\ e = [filterid |-> f, q |-> q]
      OBVIOUS
    <2>2. build' = [build EXCEPT !.done = Append(build.done, e)] /\ container' = container /\ Sources = {}
      BY <1>4, <2>1 DEF InitNewQueue, SetVars
    <2>3. build.half = <<>>
      BY <2>2 DEF SetInv, Building
    <2>4. build'.done = Append(build.done, e) /\ build'.half = <<>>
      BY <1>0, <2>2, <2>3
    <2>5. \A s \in DOMAIN container : container[s].filterid # f
      BY <2>1, <2>2 DEF Sources
    <2>6. f = BuildId /\ e.filterid = f
      BY <2>1
    <2> QED
      BY <1>0, <2>2, <2>4, <2>5, <2>6, ExactAppend
  <1>5. CASE InitCopyCounters
    <2>1. PICK p : p = container[Source].q.put
      OBVIOUS
    <2>2. build' = [build EXCEPT !.half = <<p>>] /\ container' = container
      BY <1>5, <2>1 DEF InitCopyCounters, SetVars
    <2>3. build'.half = <<p>> /\ build'.done = build.done /\ build'.ids = build.ids
      BY <1>0, <2>2
    <2>4. Len(build'.half) = 1 /\ build'.half[1] = p
      BY <2>3
    <2>5. Source' = Source
      BY <2>2, <2>3, SourceKept
    <2> QED
      BY <2>1, <2>2, <2>3, <2>4, <2>5 DEF Exact
  <1>6. CASE InitCopyFreeslot
    <2>1. PICK h : h = container[Source].q.free
      OBVIOUS
    <2>2. build' = [build EXCEPT !.half = Append(build.half, h)] /\ container' = container /\ Len(build.half) = 1
      BY <1>6, <2>1 DEF InitCopyFreeslot, SetVars
    <2>3. PICK n : n = Append(build.half, h)
      OBVIOUS
    <2>4. build'.half = n /\ build'.done = build.done /\ build'.ids = build.ids
      BY <1>0, <2>2, <2>3
    <2>5. n[1] = build.half[1] /\ n[2] = h
      <3>1. n[Len(build.half) + 1] = h /\ \A j \in 1 .. Len(build.half) : n[j] = build.half[j]
        BY <1>0, <2>3
      <3> QED
        BY <2>2, <3>1
    <2>6. Source' = Source
      BY <2>2, <2>4, SourceKept
    <2> QED
      BY <2>1, <2>2, <2>4, <2>5, <2>6 DEF Exact
  <1>7. CASE InitCopyData
    <2>1. PICK f, w, q, e : /\ f = BuildId /\ w = container[Source].q
                            /\ q = Moved(w, build.half[1], build.half[2], "free")
                            /\ e = [filterid |-> f, q |-> q]
      OBVIOUS
    <2>2. /\ build' = [build EXCEPT !.half = <<>>, !.done = Append(build.done, e)]
          /\ container' = container /\ Len(build.half) = 2
      BY <1>7, <2>1 DEF InitCopyData, SetVars, Moved
    <2>3. /\ w \in Members /\ Source \in DOMAIN container /\ container[Source].filterid = f
          /\ guard = "init"
      BY <2>1, <2>2, HalfFacts
    <2>4. q = w
      <3>1. build.half[1] = w.put /\ build.half[2] = w.free
        BY <2>1, <2>2 DEF Exact
      <3>2. w \in MembersRecord /\ w.guard = "free"
        BY <2>1, <2>3, MembersFacts, SettledCopy DEF Settled
      <3>3. q = [w EXCEPT !.put = w.put, !.free = w.free, !.guard = w.guard]
        BY <2>1, <3>1, <3>2 DEF Moved
      <3> QED
        BY <3>2, <3>3 DEF MembersRecord
    <2>5. build'.done = Append(build.done, e) /\ build'.half = <<>>
      BY <1>0, <2>2
    <2>6. f = BuildId /\ e.filterid = f /\ e.q = w
      BY <2>1, <2>4
    <2>7. \A s \in DOMAIN container : container[s].filterid = f => e.q = container[s].q
      BY <2>1, <2>3, <2>6 DEF SetInv, Building
    <2> QED
      BY <1>0, <2>2, <2>5, <2>6, <2>7, ExactAppend
  <1>8. CASE InitPublish
    <2>1. build'.half = <<>> /\ build'.done = <<>>
      BY <1>8 DEF InitPublish, NotBuilding
    <2> QED
      BY <2>1 DEF Exact
  <1>9. CASE UNCHANGED vars
    <2>1. build' = build /\ container' = container
      BY <1>9 DEF vars
    <2>2. Source' = Source
      BY <2>1, SourceKept
    <2> QED
      BY <2>1, <2>2 DEF Exact
  <1> QED
    BY <1>1, <1>2, <1>3, <1>4, <1>5, <1>6, <1>7, <1>8, <1>9, FreeStep DEF Next, InitFilterset

\* A packet that is queued, discarded or delivered stays so when no queue and no
\* delivery is taken back.
LEMMA AccountedKept ==
    ASSUME Accounted, stored' = stored, discarded' = discarded,
           \A p : Queued(p) => Queued(p)' \/ Given(p)', \A p : Given(p) => Given(p)'
    PROVE  Accounted'
  BY DEF Accounted

\* What is queued after one queue of the container has changed.
LEMMA QueuedChange ==
    ASSUME SetInv, NEW i, NEW f, NEW q, NEW r, NEW w, NEW v, Changes(i, f, q, r),
           w = Completed(q), v = Completed(r)
    PROVE  /\ \A p : Queued(p) => Queued(p)' \/ p \in Range(Packets(w))
           /\ \A p \in Range(Packets(v)) : Queued(p)'
  <1>1. /\ DOMAIN container' = DOMAIN container /\ i \in DOMAIN container
        /\ container[i].q = q /\ container'[i].q = r
        /\ \A j \in DOMAIN container : j # i => container'[j].q = container[j].q
    BY ChangeKeeps
  <1>2. ASSUME NEW p, Queued(p) PROVE Queued(p)' \/ p \in Range(Packets(w))
    <2>1. PICK j \in DOMAIN container : p \in Range(Packets(Completed(container[j].q)))
      BY <1>2 DEF Queued
    <2>2. CASE j = i
      BY <1>1, <2>1, <2>2
    <2>3. CASE j # i
      <3>1. p \in Range(Packets(Completed(container'[j].q))) /\ j \in DOMAIN container'
        BY <1>1, <2>1, <2>3
      <3> QED
        BY <3>1 DEF Queued
    <2> QED
      BY <2>2, <2>3
  <1>3. ASSUME NEW p \in Range(Packets(v)) PROVE Queued(p)'
    <2>1. p \in Range(Packets(Completed(container'[i].q))) /\ i \in DOMAIN container'
      BY <1>1, <1>3
    <2> QED
      BY <2>1 DEF Queued
  <1> QED
    BY <1>2, <1>3

\* No stored packet vanishes.
LEMMA AccountedNext ==
    ASSUME SetInv, Orderly, Quiet, Resting, Exact, Accounted, [Next]_vars
    PROVE  Accounted'
  <1>0. /\ stored \in Nat /\ stored + 1 \in Nat /\ container \in Seq(Entry)
        /\ delivered \in [FId -> Seq(Nat)] /\ build.done \in Seq(Entry) /\ build.ids \in Seq(FilterId)
    BY DEF SetInv, SetType
  <1>1. ASSUME UNCHANGED <<container, stored, discarded, delivered>> PROVE Accounted'
    BY <1>1 DEF Accounted, Queued, Given
  <1>2. ASSUME NEW i, NEW f, NEW q, NEW r, NEW w, NEW v, Changes(i, f, q, r),
               w = Completed(q), v = Completed(r), Ticked(w, v) \/ v = w,
               UNCHANGED <<stored, discarded, delivered>>
        PROVE  Accounted'
    <2>1. w \in Queue
      BY <1>2, ChangeKeeps
    <2>2. Range(Packets(v)) = Range(Packets(w))
      BY <1>2, <2>1, TickedKeeps
    <2>3. \A p : Queued(p) => Queued(p)'
      BY <1>2, <2>2, QueuedChange
    <2>4. \A p : Given(p) => Given(p)'
      BY <1>2 DEF Given
    <2> QED
      BY <1>2, <2>3, <2>4, AccountedKept
  <1>3. ASSUME NEW t \in Putter, PutPacket(t) PROVE Accounted'
    <2>1. CASE \/ \E f \in Index : PutStart(t, f)
               \/ PutSize(t) \/ PutRef(t)
      BY <1>1, <2>1 DEF PutStart, PutSize, PutRef, SetVars, History
    <2>2. CASE PutInit(t)
      <3>1. UNCHANGED <<stored, discarded, delivered>> /\ container = <<>>
        BY <2>2 DEF PutInit, History, Quiet
      <3>2. \A p : ~ Queued(p)
        BY <3>1 DEF Queued
      <3>3. \A p : Given(p) => Given(p)'
        BY <3>1 DEF Given
      <3> QED
        BY <3>1, <3>2, <3>3, AccountedKept
    <2>3. CASE PutWrite(t)
      <3>1. UNCHANGED <<discarded, delivered>>
        BY <2>3 DEF PutWrite
      <3>2. ASSUME NEW i, NEW f, NEW q, NEW r, NEW w, NEW v, Changes(i, f, q, r),
                   w = Completed(q), v = Completed(r), Qsize(w) < w.max,
                   v = QueuePut(w, stored + 1), stored' = stored + 1
            PROVE  Accounted'
        <4>1. w \in Queue
          BY <3>2, ChangeKeeps
        <4>2. PICK x \in Nat : x = stored + 1
          BY <1>0
        <4>3. Range(Packets(w)) \subseteq Range(Packets(v)) /\ x \in Range(Packets(v))
          BY <3>2, <4>1, <4>2, PutKeeps
        <4>4. \A p : Queued(p) => Queued(p)'
          BY <3>2, <4>3, QueuedChange
        <4>5. \A p : p = stored + 1 => Queued(p)'
          BY <3>2, <4>2, <4>3, QueuedChange
        <4>6. \A p : Given(p) => Given(p)'
          BY <3>1 DEF Given
        <4>7. discarded' \subseteq 1 .. stored'
          BY <1>0, <3>1, <3>2 DEF Accounted
        <4>8. ASSUME NEW p \in 1 .. stored' PROVE Queued(p)' \/ p \in discarded' \/ Given(p)'
          <5>1. CASE p \in 1 .. stored
            BY <3>1, <4>4, <4>6, <5>1 DEF Accounted
          <5>2. CASE p = stored + 1
            BY <4>5, <5>2
          <5> QED
            BY <1>0, <3>2, <5>1, <5>2
        <4> QED
          BY <4>7, <4>8 DEF Accounted
      <3> QED
        BY <1>1, <2>3, <3>1, <3>2, PutWriteDoes
    <2>4. CASE PutCount(t) \/ PutSlot(t) \/ PutWrap(t)
      <3>1. UNCHANGED <<stored, discarded, delivered>>
        BY <2>4, PutStoresDo DEF History
      <3>2. PICK i, f, q, r : Changes(i, f, q, r) /\ Completed(r) = Completed(q)
        BY <2>4, PutStoresDo
      <3>3. PICK w, v : w = Completed(q) /\ v = Completed(r)
        OBVIOUS
      <3>4. v = w
        BY <3>2, <3>3
      <3> QED
        BY <1>2, <3>1, <3>2, <3>3, <3>4
    <2> QED
      BY <1>3, <2>1, <2>2, <2>3, <2>4, QuietNext DEF PutPacket
  <1>4. ASSUME NEW n \in Index, GetPacket(n) PROVE Accounted'
    <2>1. UNCHANGED <<stored, discarded>>
      BY <1>4 DEF GetPacket
    <2>2. ASSUME NEW i, NEW f, NEW q, NEW r, NEW w, NEW v, NEW x, Changes(i, f, q, r),
                 w = Completed(q), v = Completed(r), Qsize(w) > 0,
                 v = [w EXCEPT !.get = w.get + 1], x = At(w, 1),
                 delivered' = [delivered EXCEPT ![f] = Append(@, x)]
          PROVE  Accounted'
      <3>1. w \in Queue /\ f \in FId
        BY <2>2, ChangeKeeps
      <3>2. \A p \in Range(Packets(w)) : p \in Range(Packets(v)) \/ p = x
        BY <2>2, <3>1, TakenKeeps
      <3>4. x \in Nat
        BY <2>2, <3>1, QueueFacts
      <3>5. /\ delivered'[f] = Append(delivered[f], x) /\ DOMAIN delivered' = DOMAIN delivered
            /\ f \in DOMAIN delivered /\ delivered[f] \in Seq(Nat)
            /\ \A g \in DOMAIN delivered : g # f => delivered'[g] = delivered[g]
        BY <1>0, <2>2, <3>1
      <3>6. Range(delivered[f]) \subseteq Range(delivered'[f]) /\ x \in Range(delivered'[f])
        <4>1. PICK a, b : a = delivered[f] /\ b = Append(a, x)
          OBVIOUS
        <4>2. a \in Seq(Nat)
          BY <3>5, <4>1
        <4>3. /\ \A k \in DOMAIN a : k \in DOMAIN b /\ b[k] = a[k]
              /\ Len(a) + 1 \in DOMAIN b /\ b[Len(a) + 1] = x
          BY <3>4, <4>1, <4>2
        <4>4. Range(a) \subseteq Range(b) /\ x \in Range(b)
          BY <4>3 DEF Range
        <4> QED
          BY <3>5, <4>1, <4>4
      <3>7. \A p : Given(p) => Given(p)'
        <4> SUFFICES ASSUME NEW p, NEW g \in DOMAIN delivered, p \in Range(delivered[g])
                     PROVE  p \in Range(delivered'[g])
          BY <3>5 DEF Given
        <4> QED
          BY <3>5, <3>6
      <3>8. Given(x)'
        BY <3>5, <3>6 DEF Given
      <3>9. ASSUME NEW p, Queued(p) PROVE Queued(p)' \/ Given(p)'
        <4>1. Queued(p)' \/ p \in Range(Packets(w))
          BY <2>2, <3>9, QueuedChange
        <4>2. p \in Range(Packets(w)) => Queued(p)' \/ p = x
          BY <2>2, <3>2, QueuedChange
        <4> QED
          BY <3>8, <4>1, <4>2
      <3> QED
        BY <2>1, <3>7, <3>9, AccountedKept
    <2>3. PICK i, f, q, r, w, v :
              /\ Changes(i, f, q, r) /\ w = Completed(q) /\ v = Completed(r) /\ Qsize(w) > 0
              /\ (delivered' = delivered /\ Ticked(w, v)) \/ Taken(f, w, v)
      BY <1>4, GetPacketDoes
    <2>4. CASE delivered' = delivered /\ Ticked(w, v)
      <3>1. stored' = stored /\ discarded' = discarded /\ delivered' = delivered /\ Ticked(w, v)
        BY <2>1, <2>4
      <3> QED
        BY <1>2, <2>3, <3>1
    <2>5. CASE Taken(f, w, v)
      <3>1. PICK x : x = At(w, 1) /\ delivered' = [delivered EXCEPT ![f] = Append(@, x)]
        BY <2>5 DEF Taken
      <3>2. v = [w EXCEPT !.get = w.get + 1]
        BY <2>5 DEF Taken
      <3> QED
        BY <2>2, <2>3, <3>1, <3>2
    <2> QED
      BY <2>3, <2>4, <2>5
  <1>5. CASE SetQueueState
    <2>1. CASE \E f \in Index, ticks \in 0 .. MaxTicks : SetStateRef(f, ticks)
      BY <1>1, <2>1 DEF SetStateRef, SetVars, History
    <2>2. CASE SetStateWrite
      <3>1. shaper.c = pq /\ UNCHANGED <<stored, discarded, delivered>>
        BY <2>2 DEF SetStateWrite, Quiet
      <3> QED
        BY <1>2, <2>2, <3>1, SetStateWriteDoes
    <2> QED
      BY <1>5, <2>1, <2>2 DEF SetQueueState
  <1>6. CASE \/ \E ids \in mode.sets : InitStart(ids) \/ InitUnmodified(ids)
             \/ InitNewQueue \/ InitCopyCounters \/ InitCopyFreeslot \/ InitCopyData
    <2>1. UNCHANGED <<container, stored, discarded, delivered>>
      BY <1>6 DEF InitStart, InitUnmodified, InitNewQueue, InitCopyCounters, InitCopyFreeslot,
         InitCopyData, SetVars, History, vars
    <2> QED
      BY <1>1, <2>1
  <1>7. CASE InitPublish
    <2> DEFINE Gone == {j \in DOMAIN container : container[j].filterid \notin Range(build.ids)}
    <2>1. /\ container' = build.done /\ Len(build.done) = Len(build.ids)
          /\ UNCHANGED <<stored, delivered>>
          /\ discarded' = discarded \cup UNION {Range(Packets(container[j].q)) : j \in Gone}
      BY <1>7 DEF InitPublish
    <2>2. ASSUME NEW j \in DOMAIN container
          PROVE  /\ Range(Packets(container[j].q)) \subseteq 1 .. stored
                 /\ Packets(Completed(container[j].q)) = Packets(container[j].q)
      <3>1. guard = "init"
        BY <1>7 DEF InitPublish
      <3>2. container[j].q \in Members /\ Settled(container[j].q)
        BY <3>1, EntryFacts, SettledCopy
      <3>3. Packets(Completed(container[j].q)) = Packets(container[j].q)
        BY <3>2, SettledFacts
      <3>4. PICK f, w : f = container[j].filterid /\ w = Completed(container[j].q)
        OBVIOUS
      <3>5. w \in Queue /\ InOrder(f, w)
        BY <3>4, EntryFacts DEF Holds, Resting
      <3>6. Range(Packets(w)) = {At(w, n) : n \in 1 .. Qsize(w)}
        BY <3>5, PacketsAt
      <3> QED
        BY <3>3, <3>4, <3>5, <3>6 DEF InOrder
    <2>3. discarded' \subseteq 1 .. stored'
      BY <2>1, <2>2 DEF Accounted
    <2>4. ASSUME NEW p, Queued(p) PROVE Queued(p)' \/ p \in discarded'
      <3>1. PICK s \in DOMAIN container : p \in Range(Packets(Completed(container[s].q)))
        BY <2>4 DEF Queued
      <3>2. CASE s \in Gone
        <4>1. p \in Range(Packets(container[s].q))
          BY <2>2, <3>1
        <4> QED
          BY <2>1, <3>2, <4>1
      <3>3. CASE s \notin Gone
        <4>1. PICK i \in DOMAIN build.ids : build.ids[i] = container[s].filterid
          BY <3>3 DEF Range
        <4>2. i \in DOMAIN build.done
          BY <1>0, <2>1
        <4>3. build.done[i].filterid = container[s].filterid
          BY <4>1, <4>2 DEF SetInv, Building
        <4>4. build.done[i].q = container[s].q
          BY <4>2, <4>3 DEF Exact
        <4> QED
          BY <2>1, <3>1, <4>2, <4>4 DEF Queued
      <3> QED
        BY <3>2, <3>3
    <2>5. \A p : Given(p) => Given(p)'
      BY <2>1 DEF Given
    <2>6. discarded \subseteq discarded'
      BY <2>1
    <2> HIDE DEF Gone
    <2> QED
      BY <2>1, <2>3, <2>4, <2>5, <2>6 DEF Accounted
  <1>8. CASE UNCHANGED vars
    BY <1>1, <1>8 DEF vars
  <1> QED
    BY <1>3, <1>4, <1>5, <1>6, <1>7, <1>8 DEF Next, InitFilterset

\* The service starts orderly.
LEMMA InitOrderly == Init => OrderlyInv
  <1> SUFFICES ASSUME Init PROVE OrderlyInv
    OBVIOUS
  <1>1. \A t \in Putter : put[t] = Idle
    BY DEF Init
  <1>2. Quiet
    <2>1. Idle.at = "idle"
      BY DEF Idle
    <2> QED
      BY <1>1, <2>1 DEF Init, Quiet
  <1>3. Serves
    BY DEF Init, Serves
  <1>6. Resting
    BY DEF Init, NotBuilding, Resting
  <1>4. Exact
    <2>1. build.half = <<>> /\ build.done = <<>>
      BY DEF Init, NotBuilding
    <2> QED
      BY <2>1 DEF Exact
  <1>5. Accounted
    BY DEF Init, Accounted
  <1> QED
    BY <1>2, <1>3, <1>4, <1>5, <1>6 DEF OrderlyInv

\* Every step of an orderly service keeps what holds of it.
LEMMA NextOrderly == SetInv /\ OrderlyInv /\ [Next]_vars => OrderlyInv'
  <1> SUFFICES ASSUME SetInv, OrderlyInv, [Next]_vars, Orderly' PROVE (Quiet /\ Resting /\ Serves /\ Exact /\ Accounted)'
    BY DEF OrderlyInv
  <1>1. mode' = mode
    BY DEF Next, PutPacket, PutStart, PutInit, PutSize, PutRef, PutWrite, PutCount, PutSlot, PutWrap,
       PutDangling, InitFilterset, InitStart, InitUnmodified, InitNewQueue, InitCopyCounters, InitCopyFreeslot, InitCopyData,
       InitPublish, GetPacket, SetQueueState, SetStateRef, SetStateWrite, SetVars, vars
  <1>2. Orderly /\ Quiet /\ Resting /\ Serves /\ Exact /\ Accounted
    BY <1>1 DEF Orderly, OrderlyInv
  <1> QED
    BY <1>2, QuietNext, RestingNext, ServesNext, ExactNext, AccountedNext

\* Together with the invariant of the set it holds throughout.
LEMMA OrderlyAlways == Spec => [](SetInv /\ OrderlyInv)
  BY InitSetInv, NextSetInv, InitOrderly, NextOrderly, PTL DEF Spec

\* With one packet thread and init between its calls, the container has a queue
\* for each filter init was last given, in that order: the early return of init
\* for an unmodified filter set is right.
THEOREM SetServesFilterset == Spec => []ServesFilterset
  <1>1. OrderlyInv => ServesFilterset
    BY DEF OrderlyInv, Serves, ServesFilterset
  <1> QED
    BY <1>1, OrderlyAlways, PTL

\* With one packet thread and init between its calls, nothing is written into a
\* freed container, and each packet stored is queued, was delivered, or belonged
\* to a filter that is no longer in the filter set.
THEOREM SetConservation == Spec => []Conservation
  <1>1. SetInv /\ OrderlyInv => Conservation
    <2> SUFFICES ASSUME SetInv, OrderlyInv, Orderly
                 PROVE  /\ ~ corrupt
                        /\ (\A i \in DOMAIN container : container[i].q.guard = "free") =>
                              1 .. stored = PacketsOf(container) \cup discarded
                                               \cup UNION {Range(delivered[f]) : f \in DOMAIN delivered}
      BY DEF Conservation
    <2>1. Quiet /\ Resting /\ Accounted
      BY DEF OrderlyInv
    <2> SUFFICES ASSUME \A i \in DOMAIN container : container[i].q.guard = "free"
                 PROVE  1 .. stored = PacketsOf(container) \cup discarded
                                         \cup UNION {Range(delivered[f]) : f \in DOMAIN delivered}
      BY <2>1 DEF Quiet
    <2>a. \A i \in DOMAIN container : Packets(Completed(container[i].q)) = Packets(container[i].q)
      <3> SUFFICES ASSUME NEW i \in DOMAIN container
                   PROVE  Packets(Completed(container[i].q)) = Packets(container[i].q)
        OBVIOUS
      <3>1. container[i].q \in Members /\ Settled(container[i].q)
        BY <2>1, EntryFacts DEF Resting
      <3> QED
        BY <3>1, SettledFacts
    <2>2. \A p : p \in PacketsOf(container) <=> Queued(p)
      BY <2>a DEF PacketsOf, Queued
    <2>3. \A p : p \in UNION {Range(delivered[f]) : f \in DOMAIN delivered} <=> Given(p)
      BY DEF Given
    <2>4. ASSUME NEW p, Queued(p) PROVE p \in 1 .. stored
      <3>1. PICK j \in DOMAIN container : p \in Range(Packets(Completed(container[j].q)))
        BY <2>4 DEF Queued
      <3>2. PICK f, w : f = container[j].filterid /\ w = Completed(container[j].q)
        OBVIOUS
      <3>3. w \in Queue /\ InOrder(f, w)
        BY <2>1, <3>2, EntryFacts DEF Holds, Resting
      <3>4. Range(Packets(w)) = {At(w, k) : k \in 1 .. Qsize(w)}
        BY <3>3, PacketsAt
      <3> QED
        BY <3>1, <3>2, <3>3, <3>4 DEF InOrder
    <2>5. ASSUME NEW p, Given(p) PROVE p \in 1 .. stored
      <3>1. PICK f \in DOMAIN delivered : p \in Range(delivered[f])
        BY <2>5 DEF Given
      <3>2. PICK d \in DOMAIN delivered[f] : p = delivered[f][d]
        BY <3>1 DEF Range
      <3> QED
        BY <2>1, <3>2 DEF SetInv, StaysWithFilter, Resting
    <2>6. \A p : p \in 1 .. stored <=> p \in PacketsOf(container) \cup discarded
                       \cup UNION {Range(delivered[f]) : f \in DOMAIN delivered}
      BY <2>1, <2>2, <2>3, <2>4, <2>5, Zenon DEF Accounted
    <2> QED
      BY <2>6
  <1> QED
    BY <1>1, OrderlyAlways, PTL
=============================================================================
