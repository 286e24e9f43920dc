--------------------------- MODULE PacketQueueSet ---------------------------
(***************************************************************************)
(* utm::pkt_queue_filterset (corefilters/pkt_queue_filterset.cpp): the     *)
(* packet queues of all filters, held in a container that is replaced as a *)
(* whole when the filter set changes.                                      *)
(*                                                                         *)
(* init(filterset) and get_packet take the mutex "guard"; put_packet and   *)
(* set_queue_state do not.  So a packet thread may hold a pointer into a   *)
(* container that init replaces and frees, and init copies queues (member  *)
(* by member, pkt_queue::operator=) into which packet threads are putting: *)
(* a queue's own mutex keeps put_packet and get_packet apart, but the copy *)
(* does not take it and may see a packet half stored.                      *)
(*                                                                         *)
(* Packets are numbered by the order in which pkt_queue::put_packet stored *)
(* them.  The counters do not wrap here: PacketQueue covers that.  The two *)
(* directions of a filter are independent copies of the same queue; one is *)
(* modelled.                                                               *)
(***************************************************************************)
EXTENDS Integers, Sequences, FiniteSets, SequencesExt

CONSTANTS
    Putter,          \* packet threads calling put_packet
    FilterId,        \* ids of filters, positive
    FilterQueueMax,  \* MAX_FILTERQUEUE_PACKETS
    SetQueueMax,     \* MAX_FILTERSETQUEUE_PACKETS
    MaxPackets,      \* bound on the number of stored packets
    MaxTicks,        \* bound on the values given to ticks_left
    World            \* how the service uses the queues, a set of modes:
                     \* [sets: the filter sets init is given, sequences of ids;
                     \*  quiesced: init is called only while no put_packet is
                     \*  in progress; threads: how many put_packet calls may be
                     \*  in progress at once; containers: bound on the number
                     \*  of containers allocated]

ASSUME SetAssumption ==
    /\ IsFiniteSet(Putter) /\ IsFiniteSet(FilterId)
    /\ FilterId \subseteq Nat \ {0}
    /\ MaxTicks \in Nat
    /\ FilterQueueMax \in Nat \ {0} /\ SetQueueMax \in Nat \ {0}
    /\ \A m \in World :
          /\ DOMAIN m = {"sets", "quiesced", "threads", "containers"}
          /\ m.sets \subseteq Seq(FilterId)
          /\ \A ids \in m.sets : IsInjective(ids)   \* ubaselist::get_next_id numbers filters
          /\ m.quiesced \in BOOLEAN /\ m.threads \in Nat /\ m.containers \in Nat

VARIABLES
    mode,        \* the way the service uses the queues, fixed
    pq,          \* number of the current container, 0 for the NULL pointer
    container,   \* the current container: a sequence of [filterid, q]
    filterids,
    guard,       \* the mutex: "free", or "init" while init(filterset) copies
    build,       \* the container under construction and the half copied queue
    shaper,      \* state of the shaper's set_queue_state call
    put,         \* state of each packet thread's put_packet call
    stored,      \* packets stored so far
    home,        \* packet -> filter id of the queue it was stored in
    discarded,   \* packets whose filter was not in the filter set init was given
    delivered,   \* filter id -> packets get_packet returned from its queue
    torn,        \* filters of which a packet was half stored when init copied
                 \* their queue: counted, but not behind the free slot
    corrupt      \* a put_packet wrote into a freed container

vars == <<mode, pq, container, filterids, guard, build, put, shaper, stored,
          home, discarded, delivered, torn, corrupt>>

DefaultId == 0   \* filterid of the single queue of the default container

----------------------------------------------------------------------------
(* The members of one pkt_queue.  Its mutex "guard" is free, or held by a  *)
(* put_packet that is to store pktput_counter ("count"), current_freeslot  *)
(* ("slot") or its return to the first slot ("wrap") next.                 *)

NewQueue(m) ==
    [put |-> 0, get |-> 0, free |-> 0, ticks |-> 0, max |-> m, guard |-> "free",
     data |-> [s \in 0 .. m - 1 |-> 0]]

Qsize(q) == q.put - q.get

\* PKTQUEUE_NOSPACE: the queue is full, or get_pktposptr has no such slot, as in
\* a copy made while current_freeslot was past the last one.
NoSpace(q) == Qsize(q) >= q.max \/ q.free >= q.max

\* memcpy into the free slot, the first store of put_packet.
StoreData(q, x) == [q EXCEPT !.data[q.free] = x, !.guard = "count"]

QueueLast(q) == (q.max + q.free - Qsize(q)) % q.max

\* The packets of a queue, oldest first.
Packets(q) ==
    [i \in 1 .. Qsize(q) |-> q.data[(q.max + q.free - Qsize(q) + i - 1) % q.max]]

PacketsOf(c) == UNION {Range(Packets(c[i].q)) : i \in DOMAIN c}

Ids(c) == [i \in DOMAIN c |-> c[i].filterid]

Idle == [at |-> "idle"]
NotBuilding == [ids |-> <<>>, done |-> <<>>, half |-> <<>>]

Init ==
    /\ mode \in World
    /\ pq = 0
    /\ container = <<>>
    /\ filterids = <<>>
    /\ guard = "free"
    /\ build = NotBuilding
    /\ put = [t \in Putter |-> Idle]
    /\ shaper = Idle
    /\ stored = 0
    /\ home = <<>>
    /\ discarded = {}
    /\ delivered = [f \in FilterId \cup {DefaultId} |-> <<>>]
    /\ torn = {}
    /\ corrupt = FALSE

\* External: whether the service stops its packet threads around init.
NoCallInProgress == shaper = Idle /\ \A t \in Putter : put[t] = Idle
CallsAllowed == mode.quiesced => guard = "free"

----------------------------------------------------------------------------
(* put_packet: no lock is taken before the queue itself is reached. *)

SetVars == <<mode, pq, container, filterids>>
History == <<stored, home, discarded, delivered, torn, corrupt>>

\* if (pq.get() == NULL)
PutStart(t, f) ==
    /\ put[t].at = "idle"
    /\ Cardinality({u \in Putter : put[u] # Idle}) < mode.threads
    /\ CallsAllowed
    /\ put' = [put EXCEPT ![t] = [at |-> IF pq = 0 THEN "init" ELSE "size", f |-> f]]
    /\ UNCHANGED <<SetVars, guard, build, shaper, History>>

\* init(packetbuf_size): under guard, and without a second look at pq.
PutInit(t) ==
    /\ put[t].at = "init"
    /\ guard = "free"
    /\ pq < mode.containers
    /\ pq' = pq + 1
    /\ container' = << [filterid |-> DefaultId, q |-> NewQueue(SetQueueMax)] >>
    /\ put' = [put EXCEPT ![t].at = "size"]
    /\ UNCHANGED <<mode, filterids, guard, build, shaper, History>>

\* pq.get()->size() > filter_seq_id, else PKTQUEUE_NOSPACE
PutSize(t) ==
    /\ put[t].at = "size"
    /\ put' = [put EXCEPT ![t] = IF Len(container) > put[t].f
                                   THEN [at |-> "ref", f |-> put[t].f]
                                   ELSE Idle]
    /\ UNCHANGED <<SetVars, guard, build, shaper, History>>

\* pq.get()->at(filter_seq_id): the pointer is read again; at() throws when the
\* container has become shorter, and the packet is not stored.
PutRef(t) ==
    /\ put[t].at = "ref"
    /\ put' = [put EXCEPT ![t] = IF Len(container) > put[t].f
                                   THEN [at |-> "write", f |-> put[t].f, c |-> pq]
                                   ELSE Idle]
    /\ UNCHANGED <<SetVars, guard, build, shaper, History>>

\* pkt_queue::put_packet on the queue referred to: it takes the queue's mutex and
\* copies the packet into the free slot.
PutWrite(t) ==
    LET i == put[t].f + 1
        q == container[i].q
    IN  /\ put[t].at = "write" /\ put[t].c = pq
        /\ q.guard = "free"
        /\ \/ /\ NoSpace(q)
              /\ put' = [put EXCEPT ![t] = Idle]
              /\ UNCHANGED <<container, stored, home>>
           \/ /\ ~ NoSpace(q) /\ stored < MaxPackets
              /\ put' = [put EXCEPT ![t].at = "store"]
              /\ stored' = stored + 1
              /\ container' = [container EXCEPT ![i].q = StoreData(q, stored + 1)]
              /\ home' = Append(home, container[i].filterid)
        /\ UNCHANGED <<mode, pq, filterids, guard, build, shaper, discarded,
                       delivered, torn, corrupt>>

\* pktput_counter++
PutCount(t) ==
    LET i == put[t].f + 1
        q == container[i].q
    IN  /\ put[t].at = "store" /\ put[t].c = pq
        /\ q.guard = "count"
        /\ container' = [container EXCEPT ![i].q = [q EXCEPT !.put = @ + 1, !.guard = "slot"]]
        /\ UNCHANGED <<mode, pq, filterids, guard, build, put, shaper, History>>

\* current_freeslot++
PutSlot(t) ==
    LET i == put[t].f + 1
        q == container[i].q
    IN  /\ put[t].at = "store" /\ put[t].c = pq
        /\ q.guard = "slot"
        /\ container' = [container EXCEPT ![i].q = [q EXCEPT !.free = @ + 1, !.guard = "wrap"]]
        /\ UNCHANGED <<mode, pq, filterids, guard, build, put, shaper, History>>

\* if (current_freeslot >= maxpackets) current_freeslot = 0; the mutex is released.
PutWrap(t) ==
    LET i == put[t].f + 1
        q == container[i].q
    IN  /\ put[t].at = "store" /\ put[t].c = pq
        /\ q.guard = "wrap"
        /\ container' = [container EXCEPT ![i].q =
                [q EXCEPT !.free = IF @ >= q.max THEN 0 ELSE @, !.guard = "free"]]
        /\ put' = [put EXCEPT ![t] = Idle]
        /\ UNCHANGED <<mode, pq, filterids, guard, build, shaper, History>>

\* The container the reference points into has been freed.
PutDangling(t) ==
    /\ put[t].at \in {"write", "store"}
    /\ put[t].c # pq
    /\ put' = [put EXCEPT ![t] = Idle]
    /\ corrupt' = TRUE
    /\ UNCHANGED <<SetVars, guard, build, shaper, stored, home, discarded, delivered, torn>>

----------------------------------------------------------------------------
(* init(filterset): builds the new container under guard. *)

InitStart(ids) ==
    /\ guard = "free"
    /\ mode.quiesced => NoCallInProgress
    /\ filterids # ids
    /\ pq < mode.containers
    /\ guard' = "init"
    /\ build' = [NotBuilding EXCEPT !.ids = ids]
    /\ UNCHANGED <<mode, pq, container, filterids, put, shaper, History>>

\* filterids == ids: the filterset was not modified
InitUnmodified(ids) ==
    /\ guard = "free"
    /\ mode.quiesced => NoCallInProgress
    /\ filterids = ids
    /\ UNCHANGED vars

BuildId == build.ids[Len(build.done) + 1]
\* Mutant: queues are handed on by position.
MutSources == {i \in DOMAIN container : i = Len(build.done) + 1}

Sources == {i \in DOMAIN container : container[i].filterid = BuildId}
Source == CHOOSE i \in Sources : \A j \in Sources : i <= j

\* A filter without a queue in the old container gets a new queue.
InitNewQueue ==
    /\ guard = "init"
    /\ Len(build.done) < Len(build.ids)
    /\ Sources = {}
    /\ build' = [build EXCEPT !.done =
                    Append(@, [filterid |-> BuildId, q |-> NewQueue(FilterQueueMax)])]
    /\ UNCHANGED <<SetVars, guard, put, shaper, History>>

\* refpqf = (*itex): operator= reads the members of the old queue in order,
\* without its mutex.  pktget_counter cannot change meanwhile (get_packet
\* needs guard); pktput_counter, current_freeslot and the data can, also between
\* the stores of one put_packet.
InitCopyCounters ==
    /\ guard = "init"
    /\ Len(build.done) < Len(build.ids)
    /\ Sources # {}
    /\ build.half = <<>>
    /\ build' = [build EXCEPT !.half = <<container[Source].q.put>>]
    /\ UNCHANGED <<SetVars, guard, put, shaper, History>>

\* Mutant: operator= forgets current_freeslot.
MutInitCopyFreeslot ==
    /\ Len(build.half) = 1
    /\ build' = [build EXCEPT !.half = Append(@, 0)]
    /\ UNCHANGED <<SetVars, guard, put, shaper, History>>

\* The counter read includes a packet that the free slot does not.
Torn == container[Source].q.guard = "slot" /\ build.half[1] = container[Source].q.put

InitCopyFreeslot ==
    /\ Len(build.half) = 1
    /\ build' = [build EXCEPT !.half = Append(@, container[Source].q.free)]
    /\ torn' = IF Torn THEN torn \cup {BuildId} ELSE torn
    /\ UNCHANGED <<SetVars, guard, put, shaper, stored, home, discarded, delivered, corrupt>>

\* Mutant: operator= copies the counters after current_freeslot.
MutInitCopyData ==
    LET old == container[Source].q
        new == [old EXCEPT !.free = build.half[2], !.guard = "free"]
    IN  /\ Len(build.half) = 2
        /\ build' = [build EXCEPT !.half = <<>>,
                        !.done = Append(@, [filterid |-> BuildId, q |-> new])]
        /\ UNCHANGED <<SetVars, guard, put, shaper, History>>

InitCopyData ==
    LET old == container[Source].q
        new == [old EXCEPT !.put = build.half[1], !.free = build.half[2], !.guard = "free"]
    IN  /\ Len(build.half) = 2
        /\ build' = [build EXCEPT !.half = <<>>,
                        !.done = Append(@, [filterid |-> BuildId, q |-> new])]
        /\ UNCHANGED <<SetVars, guard, put, shaper, History>>

\* Mutant: an empty filter set is remembered but its container not installed.
MutInitPublish ==
    /\ guard = "init"
    /\ Len(build.done) = Len(build.ids)
    /\ filterids' = build.ids
    /\ pq' = pq + 1
    /\ container' = IF Len(container) > Len(build.done) THEN container ELSE build.done
    /\ guard' = "free"
    /\ build' = NotBuilding
    /\ UNCHANGED <<mode, put, shaper, History>>

\* filterids = ids; pq.reset(ppq) frees the old container; guard is released.
InitPublish ==
    /\ guard = "init"
    /\ Len(build.done) = Len(build.ids)
    /\ filterids' = build.ids
    /\ pq' = pq + 1
    /\ container' = build.done
    /\ guard' = "free"
    /\ build' = NotBuilding
    /\ discarded' = discarded \cup
          UNION {Range(Packets(container[i].q)) :
                    i \in {j \in DOMAIN container :
                              container[j].filterid \notin Range(build.ids)}}
    /\ UNCHANGED <<mode, put, shaper, stored, home, delivered, torn, corrupt>>

----------------------------------------------------------------------------
\* get_packet of the queue at index f, under guard; a poll of a delayed queue
\* only counts ticks_left down.
GetPacket(f) ==
    LET i == f + 1
        q == container[i].q
    IN  /\ guard = "free"
        /\ pq # 0
        /\ Len(container) > f
        /\ q.guard = "free"
        /\ Qsize(q) > 0
        /\ \/ /\ q.ticks > 0
              /\ container' = [container EXCEPT ![i].q.ticks = @ - 1]
              /\ UNCHANGED delivered
           \/ /\ q.ticks <= 0
              /\ delivered' = [delivered EXCEPT ![container[i].filterid] =
                                  Append(@, q.data[QueueLast(q)])]
              /\ container' = [container EXCEPT ![i].q.get = @ + 1]
        /\ UNCHANGED <<mode, pq, filterids, guard, build, put, shaper, stored, home,
                       discarded, torn, corrupt>>

\* set_queue_state: no lock; at() yields a reference (or throws), through which
\* the members are then written, into a freed container if init was faster.
SetStateRef(f, ticks) ==
    /\ shaper = Idle
    /\ CallsAllowed
    /\ pq # 0
    /\ Len(container) > f
    /\ container[f + 1].q.ticks # ticks
    /\ shaper' = [at |-> "write", f |-> f, c |-> pq, ticks |-> ticks]
    /\ UNCHANGED <<SetVars, guard, build, put, History>>

SetStateWrite ==
    /\ shaper # Idle
    /\ shaper' = Idle
    /\ \/ /\ shaper.c = pq
          /\ container' = [container EXCEPT ![shaper.f + 1].q.ticks = shaper.ticks]
          /\ UNCHANGED corrupt
       \/ /\ shaper.c # pq
          /\ corrupt' = TRUE
          /\ UNCHANGED container
    /\ UNCHANGED <<mode, pq, filterids, guard, build, put, stored, home, discarded,
                   delivered, torn>>

Index == 0 .. Cardinality(FilterId) - 1

PutPacket(t) ==
    \/ \E f \in Index : PutStart(t, f)
    \/ PutInit(t) \/ PutSize(t) \/ PutRef(t)
    \/ PutWrite(t) \/ PutCount(t) \/ PutSlot(t) \/ PutWrap(t)
    \/ PutDangling(t)

InitFilterset ==
    \/ \E ids \in mode.sets : InitStart(ids) \/ InitUnmodified(ids)
    \/ InitNewQueue \/ InitCopyCounters \/ InitCopyFreeslot \/ InitCopyData
    \/ InitPublish

SetQueueState ==
    \/ \E f \in Index, ticks \in 0 .. MaxTicks : SetStateRef(f, ticks)
    \/ SetStateWrite

\* After a write into freed memory nothing is known of the program.
Next ==
    /\ ~ corrupt
    /\ \/ \E t \in Putter : PutPacket(t)
       \/ InitFilterset
       \/ \E f \in Index : GetPacket(f)
       \/ SetQueueState

Spec == Init /\ [][Next]_vars

----------------------------------------------------------------------------
\* get_packet hands out the packets of a filter in the order in which they
\* were stored and none twice, even when init copies a queue member by member
\* while packets are put into it, and however often the filter moves to
\* another position of the filter set; unless pktput_counter was read after and
\* current_freeslot before the same put_packet stored them: such a copy begins one
\* slot too early, at a packet delivered before or a slot never used.
DeliveryOrder ==
    \A f \in DOMAIN delivered \ torn :
        \A i, j \in DOMAIN delivered[f] : i < j => delivered[f][i] < delivered[f][j]

\* A packet is only ever delivered from the queue of the filter it was stored
\* for: a replaced container hands queues on by filter id, not by position, and
\* a slot in use holds a packet, but for the copies DeliveryOrder excepts.
StaysWithFilter ==
    \A f \in DOMAIN delivered \ torn :
        \A i \in DOMAIN delivered[f] :
            /\ delivered[f][i] \in 1 .. stored
            /\ home[delivered[f][i]] = f

Orderly == mode.quiesced /\ mode.threads = 1

\* With one packet thread, and init only between its calls, it never writes into
\* a freed container and no stored packet vanishes: while no packet is half stored,
\* each is queued, delivered, or belonged to a filter that the service removed from
\* the filter set (or to the default container).
Conservation ==
    Orderly =>
        /\ ~ corrupt
        /\ (\A i \in DOMAIN container : container[i].q.guard = "free") =>
              1 .. stored = PacketsOf(container) \cup discarded
                               \cup UNION {Range(delivered[f]) : f \in DOMAIN delivered}

\* Then the container also serves the filters init was last given.  init relies
\* on it: it returns early when filterids has not changed.  (Otherwise the lazy
\* init of a put_packet that saw no container yet can replace the one init made.)
ServesFilterset ==
    Orderly /\ filterids # <<>> => Ids(container) = filterids
=============================================================================
