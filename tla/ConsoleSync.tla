---------------------------- MODULE ConsoleSync ----------------------------
(***************************************************************************)
(* The speed history of the filters and its replication to a console.      *)
(*                                                                         *)
(* Every REFRESH_INTERVAL the service stores one speed per filter in the   *)
(* ring cnt_set (filtercnt::do_refresh) and advances the common ring of    *)
(* sequence numbers and times (filterset_data::goto_next_point).  A        *)
(* console asks for what is newer than the last sequence number it has;    *)
(* the service answers with a difference (filtersetcons::fill_from_-       *)
(* filterset, create_diff, select_diffspeed) which the console appends to  *)
(* rings of its own (apply_to_filterset, apply_diffspeed).                 *)
(*                                                                         *)
(* The service refreshes all filters and advances the point in one go; how *)
(* requests travel is external.  What a filter has counted when the point  *)
(* with sequence number s becomes the next one is Total(f, s), so that a   *)
(* speed found in a ring tells which filter and point it belongs to.       *)
(***************************************************************************)
EXTENDS SpeedPacking, Integers, Sequences, Functions, FiniteSetsExt

CONSTANTS
    MAXVALUES,       \* size of the rings
    REFRESH_INTERVAL, \* seconds between two points
    ServerFilters,   \* ids of the filters of the service, in order
    ConsoleFilters,  \* ids of the filters of the console, in order
    Total(_, _),     \* count of a filter when a sequence number becomes next
    FirstSeq,        \* next_seqnum when the service starts
    MaxSeq           \* bound on the sequence numbers

\* cnt_speed: what a filter counted from one point to the next, per second.
\* Packets raise a count; set_cnt may lower it.
Speed(delta) == (IF delta < 0 THEN -delta ELSE delta) \div REFRESH_INTERVAL

\* Speed of a filter at the point with sequence number s.
Sample(f, s) == Speed(Total(f, s + 1) - Total(f, s))

\* Five speeds below 512 MByte/sec add up to less than 2^32: nothing wraps.
ASSUME SyncAssumption ==
    /\ MAXVALUES \in Nat /\ MAXVALUES >= 5
    /\ REFRESH_INTERVAL \in Nat \ {0}
    /\ MaxSeq \in Nat /\ FirstSeq \in 0 .. MaxSeq
    /\ ServerFilters \in Seq(Range(ServerFilters)) /\ IsInjective(ServerFilters)
    /\ ConsoleFilters \in Seq(Range(ConsoleFilters)) /\ IsInjective(ConsoleFilters)
    /\ \A f \in Range(ServerFilters) :
          /\ \A s \in FirstSeq .. MaxSeq + 1 : Total(f, s) \in Nat
          /\ \A s \in FirstSeq .. MaxSeq : Sample(f, s) < 536870912

VARIABLES
    fdata,     \* filterset_data of the service
    cnt_set,   \* filter -> ring of packed speeds, service
    momspeed,  \* filter -> cnt_momspeed1, service
    cnt,       \* filter -> bytes counted, service
    cnt_prev,  \* filter -> bytes counted when the latest point was recorded
    cfdata,    \* filterset_data of the console
    ccnt_set,  \* filter -> ring of packed speeds, console
    cspeed,    \* filter -> cnt_speed, console
    ccnt,      \* filter -> bytes counted, console
    reply      \* the answer under way to the console, or NoReply

serverVars == <<fdata, cnt_set, momspeed, cnt, cnt_prev>>
consoleVars == <<cfdata, ccnt_set, cspeed, ccnt>>
vars == <<serverVars, consoleVars, reply>>

Point == 0 .. MAXVALUES - 1
NoReply == <<>>

----------------------------------------------------------------------------
\* memset to zero
EmptyData ==
    [total_points |-> 0, next_point |-> 0, next_seqnum |-> 0,
     seqnum |-> [n \in Point |-> 0], time |-> [n \in Point |-> 0]]

GotoNextPoint(d, current_time, current_seqnum) ==
    LET seq == IF current_seqnum # 0 THEN current_seqnum ELSE d.next_seqnum
    IN  [total_points |-> IF d.total_points < MAXVALUES THEN d.total_points + 1
                                                        ELSE d.total_points,
         next_point |-> IF d.next_point >= MAXVALUES - 1 THEN 0 ELSE d.next_point + 1,
         next_seqnum |-> seq + 1,
         seqnum |-> [d.seqnum EXCEPT ![d.next_point] = seq],
         time |-> [d.time EXCEPT ![d.next_point] = current_time]]

\* Mutant: the next sequence number instead of the current one.
MutCurrentSeqnum(d) == d.next_seqnum

CurrentSeqnum(d) == IF d.next_seqnum = 0 THEN 0 ELSE d.next_seqnum - 1

\* calc_start_last_index: the ring as the index range start .. last - 1.
StartIndex(d) == IF d.total_points < MAXVALUES THEN 0 ELSE d.next_point
LastIndex(d) == IF d.total_points < MAXVALUES THEN d.total_points
                                              ELSE d.next_point + MAXVALUES

\* Mutant: the point the console already has is sent again.
MutNewer(d, seqnum) ==
    {i \in StartIndex(d) .. LastIndex(d) - 1 : seqnum <= d.seqnum[i % MAXVALUES]}

\* create_diff: the points newer than seqnum; the difference is from the first
\* of them to the last point.
Newer(d, seqnum) ==
    {i \in StartIndex(d) .. LastIndex(d) - 1 : seqnum < d.seqnum[i % MAXVALUES]}

\* size entries of a ring from an index on.
Select(ring, start, size) == [k \in 1 .. size |-> ring[(start + k - 1) % MAXVALUES]]

\* Up to MAXVALUES entries put into a ring from point n on.
Store(ring, n, entries) ==
    [p \in Point |->
        LET k == IF p >= n THEN p - n + 1 ELSE p - n + MAXVALUES + 1
        IN  IF k <= Len(entries) THEN entries[k] ELSE ring[p]]

----------------------------------------------------------------------------
Init ==
    /\ fdata = [EmptyData EXCEPT !.next_seqnum = FirstSeq]
    /\ cnt_set = [f \in Range(ServerFilters) |-> [n \in Point |-> 0]]
    /\ momspeed = [f \in Range(ServerFilters) |-> 0]
    /\ cnt = [f \in Range(ServerFilters) |-> Total(f, FirstSeq)]
    /\ cnt_prev = cnt
    /\ cfdata = EmptyData
    /\ ccnt_set = [f \in Range(ConsoleFilters) |-> [n \in Point |-> 0]]
    /\ cspeed = [f \in Range(ConsoleFilters) |-> 0]
    /\ ccnt = [f \in Range(ConsoleFilters) |-> 0]
    /\ reply = NoReply

\* Mutant: beyond the start of the ring, one point too far back.
MutMomSpeed(ring, speed, total_points, next_point) ==
    LET n(c) == IF next_point >= c THEN next_point - c
                                   ELSE (total_points - 1 + next_point) - c
        Back(c) == IF c <= total_points THEN UnpackSpeed(ring[n(c)]) ELSE 0
    IN  (speed + Back(1) + Back(2) + Back(3) + Back(4))
          \div (IF total_points < 4 THEN total_points + 1 ELSE 5)

\* do_refresh: the average of the new speed and the stored speeds of up to four
\* points before it.
MomSpeed(ring, speed, total_points, next_point) ==
    LET n(c) == IF next_point >= c THEN next_point - c
                                   ELSE (total_points + next_point) - c
        Back(c) == IF c <= total_points THEN UnpackSpeed(ring[n(c)]) ELSE 0
    IN  (speed + Back(1) + Back(2) + Back(3) + Back(4))
          \div (IF total_points < 4 THEN total_points + 1 ELSE 5)

\* Packets are counted for a filter (or its count is set).
Count(f) ==
    /\ fdata.next_seqnum < MaxSeq
    /\ cnt[f] # Total(f, fdata.next_seqnum + 1)
    /\ cnt' = [cnt EXCEPT ![f] = Total(f, fdata.next_seqnum + 1)]
    /\ UNCHANGED <<fdata, cnt_set, momspeed, cnt_prev, consoleVars, reply>>

\* The refresh timer: do_refresh of every filter, then goto_next_point.
Refresh ==
    LET cnt_speed(f) == Speed(cnt[f] - cnt_prev[f])
        n == fdata.next_point
    IN  /\ fdata.next_seqnum < MaxSeq
        /\ \A f \in DOMAIN cnt : cnt[f] = Total(f, fdata.next_seqnum + 1)
        /\ cnt_prev' = cnt
        /\ cnt_set' = [f \in DOMAIN cnt_set |->
                          [cnt_set[f] EXCEPT ![n] = PackSpeed(cnt_speed(f))]]
        /\ momspeed' = [f \in DOMAIN cnt_set |->
                           MomSpeed(cnt_set'[f], cnt_speed(f), fdata.total_points, n)]
        /\ fdata' = GotoNextPoint(fdata, fdata.next_seqnum, 0)
        /\ UNCHANGED <<cnt, consoleVars, reply>>

\* The console's request, answered by fill_from_filterset.
FillFromFilterset ==
    LET newer == Newer(fdata, CurrentSeqnum(cfdata))
        start == IF newer = {} THEN 0 ELSE Min(newer)
        size == IF newer = {} THEN 0 ELSE LastIndex(fdata) - start
    IN  /\ reply = NoReply
        /\ reply' = [seqnum |-> Select(fdata.seqnum, start, size),
                     time |-> Select(fdata.time, start, size),
                     bytes |-> [k \in DOMAIN ServerFilters |-> cnt[ServerFilters[k]]],
                     speeds |-> [k \in DOMAIN ServerFilters |->
                                    Select(cnt_set[ServerFilters[k]], start, size)]]
        /\ UNCHANGED <<serverVars, consoleVars>>

\* The answer does not arrive; the console will ask again.
LoseReply ==
    /\ reply # NoReply
    /\ reply' = NoReply
    /\ UNCHANGED <<serverVars, consoleVars>>

\* Mutant: filters are paired by position without a look at the ids.
MutPlain(k) == k \in DOMAIN ConsoleFilters

\* plain_mode: the filters are paired by position as long as the ids agree,
\* from the first difference on by findptr_by_id.
Plain(k) == \A j \in 1 .. k : j \in DOMAIN ConsoleFilters
                                 /\ ConsoleFilters[j] = ServerFilters[j]

Target(k) ==
    IF Plain(k) THEN {ConsoleFilters[k]}
                ELSE {f \in Range(ConsoleFilters) : f = ServerFilters[k]}

\* goto_next_point for every point of the answer, whose sequence numbers are not 0.
Advance(d, r) ==
    LET n == Len(r.seqnum)
    IN  IF n = 0
          THEN d
          ELSE [total_points |-> IF d.total_points + n < MAXVALUES
                                   THEN d.total_points + n ELSE MAXVALUES,
                next_point |-> (d.next_point + n) % MAXVALUES,
                next_seqnum |-> r.seqnum[n] + 1,
                seqnum |-> Store(d.seqnum, d.next_point, r.seqnum),
                time |-> Store(d.time, d.next_point, r.time)]

\* Mutant: cnt_speed is taken from the first instead of the latest point.
MutApplyToFilterset ==
    LET n == cfdata.next_point
        Source(f) == {k \in DOMAIN ServerFilters : f \in Target(k)}
        From(f) == CHOOSE k \in Source(f) : TRUE
        Entries(f) == reply.speeds[From(f)]
        Applied(f) == Source(f) # {} /\ reply.seqnum # <<>>
    IN  /\ reply # NoReply
        /\ cfdata' = Advance(cfdata, reply)
        /\ ccnt_set' = [f \in DOMAIN ccnt_set |->
              IF Applied(f) THEN Store(ccnt_set[f], n, Entries(f)) ELSE ccnt_set[f]]
        /\ cspeed' = [f \in DOMAIN cspeed |->
              IF Applied(f) THEN UnpackSpeed(Entries(f)[1]) ELSE cspeed[f]]
        /\ ccnt' = [f \in DOMAIN ccnt |->
              IF Source(f) # {} THEN reply.bytes[From(f)] ELSE ccnt[f]]
        /\ reply' = NoReply
        /\ UNCHANGED serverVars

\* The console applies the answer: apply_to_filterset.
ApplyToFilterset ==
    LET n == cfdata.next_point
        Source(f) == {k \in DOMAIN ServerFilters : f \in Target(k)}
        From(f) == CHOOSE k \in Source(f) : TRUE
        Entries(f) == reply.speeds[From(f)]
        Applied(f) == Source(f) # {} /\ reply.seqnum # <<>>
    IN  /\ reply # NoReply
        /\ cfdata' = Advance(cfdata, reply)
        /\ ccnt_set' = [f \in DOMAIN ccnt_set |->
              IF Applied(f) THEN Store(ccnt_set[f], n, Entries(f)) ELSE ccnt_set[f]]
        /\ cspeed' = [f \in DOMAIN cspeed |->
              IF Applied(f) THEN UnpackSpeed(Entries(f)[Len(Entries(f))]) ELSE cspeed[f]]
        /\ ccnt' = [f \in DOMAIN ccnt |->
              IF Source(f) # {} THEN reply.bytes[From(f)] ELSE ccnt[f]]
        /\ reply' = NoReply
        /\ UNCHANGED serverVars

Next ==
    \/ \E f \in Range(ServerFilters) : Count(f)
    \/ Refresh
    \/ FillFromFilterset
    \/ LoseReply
    \/ ApplyToFilterset

Spec == Init /\ [][Next]_vars

\* The console polls for ever and answers get through from time to time.
FairSpec == Spec /\ WF_vars(FillFromFilterset) /\ SF_vars(ApplyToFilterset)
----------------------------------------------------------------------------
\* The points of a ring, oldest first.
Points(d) == [k \in 1 .. d.total_points |-> (StartIndex(d) + k - 1) % MAXVALUES]

Shared == Range(ServerFilters) \cap Range(ConsoleFilters)

\* Each point the console shows has the time and, for every filter both sides
\* know, the speed that the service recorded under that sequence number,
\* although the rings of the two sides wrap at different sequence numbers and
\* the filters may be in a different order.
ReplicaFaithful ==
    \A k \in DOMAIN Points(cfdata) :
        LET p == Points(cfdata)[k]
        IN  /\ cfdata.time[p] = cfdata.seqnum[p]
            /\ \A f \in Shared : ccnt_set[f][p] = PackSpeed(Sample(f, cfdata.seqnum[p]))

\* The console's points are in order; where one is missing, the console had
\* fallen so far behind that the answer replaced its whole ring.
ReplicaContiguous ==
    LET s == [k \in DOMAIN Points(cfdata) |-> cfdata.seqnum[Points(cfdata)[k]]]
    IN  \A k \in DOMAIN s \ {1} : s[k] = s[k - 1] + 1

\* The recorded speed of a filter as a reader of the ring sees it.
Stored(f, s) == UnpackSpeed(PackSpeed(Sample(f, s)))

\* The average of a filter's speeds at the latest five of n points: the one at
\* cur and the recorded ones before it.
Average(f, cur, n) ==
    LET Before(c) == IF c < n THEN Stored(f, cur - c) ELSE 0
    IN  (Sample(f, cur) + Before(1) + Before(2) + Before(3) + Before(4))
          \div (IF n < 5 THEN n ELSE 5)

\* cnt_momspeed1 is the average of the latest speed and the recorded ones of the
\* four points before it (fewer at the start), also where they straddle the end
\* of the ring.
MomSpeedRight ==
    fdata.total_points > 0 =>
        \A f \in Range(ServerFilters) :
            momspeed[f] = Average(f, fdata.next_seqnum - 1, fdata.total_points)

\* The speed the console displays for a filter belongs to its latest point, and
\* the byte count to a time from that point to the next one: an answer never
\* mixes points.
ConsoleSpeedCurrent ==
    cfdata.total_points > 0 =>
        \A f \in Shared :
            /\ cspeed[f] = Stored(f, cfdata.next_seqnum - 1)
            /\ \E s \in {cfdata.next_seqnum, cfdata.next_seqnum + 1} : ccnt[f] = Total(f, s)

\* A polling console catches up with a service that has stopped recording.
EventuallyInSync == <>[](CurrentSeqnum(cfdata) = CurrentSeqnum(fdata))
=============================================================================
