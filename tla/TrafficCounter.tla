--------------------------- MODULE TrafficCounter ---------------------------
(***************************************************************************)
(* The byte counter of one filter and one direction through the life of    *)
(* the service: packets add to it (filtercnt::add_cnt, packet threads, no  *)
(* lock), the service thread refreshes it, resets it on schedule, raises   *)
(* the limit flag file, saves it to the state file and restores it after a *)
(* restart (filtercnt.cpp, filter2.cpp, filterset.cpp, filtersetstate.cpp).*)
(*                                                                         *)
(* cnt is atomic and cnt_prev is not; do_refresh loads cnt in one step and *)
(* books the difference in a later one, and reset stores cnt and cnt_prev  *)
(* in two steps, so packets may be counted in between.  The calls of the   *)
(* service (timers of one thread) do not overlap each other.               *)
(*                                                                         *)
(* The state file holds last_reset_ts as local time and gets it back       *)
(* without daylight saving, so that it moves ahead by an hour in summer;   *)
(* a save truncates the file before it writes it.                          *)
(*                                                                         *)
(* The filter counts upwards (m_bRevers clear).  The warning flag, bit 1   *)
(* of m_wTrafficLimitFlags, is handled like bit 0 with a lower threshold   *)
(* and is not modelled separately.                                         *)
(***************************************************************************)
EXTENDS Integers, FiniteSets

CONSTANTS
    Length,       \* packet lengths
    Limit,        \* m_nTrafficLimitMb in bytes, 0 for no limit
    PeriodLen,    \* length of the reset period (hour, day, week, month)
    SummerTime,   \* the times at which daylight saving is in force
    Hour,         \* what daylight saving adds to the local time
    StartTime,    \* clock when the service first runs
    MaxTime,      \* bound on the clock
    MaxAdded,     \* bound on the number of packets
    MaxRestarts   \* bound on the number of restarts

ASSUME CounterAssumption ==
    /\ Length \subseteq Nat \ {0}
    /\ Limit \in Nat
    /\ PeriodLen \in Nat \ {0}
    /\ SummerTime \subseteq Nat
    /\ Hour \in Nat
    /\ StartTime \in Nat /\ MaxTime \in Nat
    /\ MaxAdded \in Nat /\ MaxRestarts \in Nat

VARIABLES
    cnt, cnt_prev,
    cnt_xml,        \* also cnt_xml2 and cnt_logdb, which get the same additions
    last_reset_ts,
    limflag,        \* bit 0 of m_wTrafficLimitFlags
    svc,            \* what the service thread is in the middle of
    state_file,     \* the saved filterstate; not readable: absent or cut off
    now,
    packets,        \* packets counted so far
    restarts,
    hist            \* history of the run, read by the properties only

vars == <<cnt, cnt_prev, cnt_xml, last_reset_ts, limflag, svc, state_file, now,
          packets, restarts, hist>>

Idle == [op |-> "idle", v |-> 0]

\* added: bytes counted; lost: bytes zeroed before they were reported or
\* counted in a filter set that a reload replaced; replayed: bytes restored from the state file;
\* oldest: time of the oldest packet in cnt (0: none); checked: time of the
\* latest schedule check of this process; moved: how far saving and restoring
\* put last_reset_ts ahead since the latest scheduled reset; resetAt: time of
\* that reset; unsaved: it is not in a readable state file; forgotten: a
\* restart did not find it there; repeated: a period was reset twice;
\* notified: the flag file was written and the limit not seen unexceeded since;
\* fileNotified: notified at the time of the latest save.
NoHistory ==
    [added |-> 0, lost |-> 0, replayed |-> 0, oldest |-> 0, checked |-> 0,
     moved |-> 0, resetAt |-> 0, unsaved |-> FALSE, forgotten |-> FALSE, repeated |-> FALSE,
     notified |-> FALSE, fileNotified |-> FALSE, renotified |-> FALSE]

\* An absent state file leaves the filter as its constructor made it.
NoStateFile ==
    [bytes |-> 0, lastreset |-> 0, limflags |-> FALSE, readable |-> FALSE,
     oldest |-> 0, moved |-> 0]

Init ==
    /\ cnt = 0 /\ cnt_prev = 0 /\ cnt_xml = 0
    /\ last_reset_ts = 0
    /\ limflag = FALSE
    /\ svc = Idle
    /\ state_file = NoStateFile
    /\ now = StartTime
    /\ packets = 0
    /\ restarts = 0
    /\ hist = NoHistory

Abs(x) == IF x < 0 THEN -x ELSE x

\* start_of_hour, start_of_day, ...: the start of the period t lies in.
StartOfPeriod(t) == t - (t % PeriodLen)

\* utime::from_time_t fills in the local time (localtime_s); to_time_t takes it
\* for standard time (tm_isdst = 0).
LocalTime(t) == t + (IF t \in SummerTime THEN Hour ELSE 0)

LimitExceeded == Limit # 0 /\ cnt >= Limit

----------------------------------------------------------------------------
\* match_filter counted a packet of length n: add_cnt is one fetch_add.
AddCnt(n) ==
    /\ packets < MaxAdded
    /\ packets' = packets + 1
    /\ cnt' = cnt + n
    /\ hist' = [hist EXCEPT !.added = @ + n, !.oldest = IF @ = 0 THEN now ELSE @]
    /\ UNCHANGED <<cnt_prev, cnt_xml, last_reset_ts, limflag, svc, state_file,
                   now, restarts>>

\* do_refresh: local_cnt = cnt.load() ...
RefreshLoad ==
    /\ svc = Idle
    /\ svc' = [op |-> "refresh", v |-> cnt]
    /\ UNCHANGED <<cnt, cnt_prev, cnt_xml, last_reset_ts, limflag, state_file,
                   now, packets, restarts, hist>>

\* Mutant: cnt is read again instead of using the loaded value.
MutRefreshBook ==
    /\ svc.op = "refresh"
    /\ cnt_xml' = cnt_xml + Abs(svc.v - cnt_prev)
    /\ cnt_prev' = cnt
    /\ svc' = Idle
    /\ UNCHANGED <<cnt, last_reset_ts, limflag, state_file, now, packets,
                   restarts, hist>>

\* ... and the difference to cnt_prev is booked for the reports.
RefreshBook ==
    /\ svc.op = "refresh"
    /\ cnt_xml' = cnt_xml + Abs(svc.v - cnt_prev)
    /\ cnt_prev' = svc.v
    /\ svc' = Idle
    /\ UNCHANGED <<cnt, last_reset_ts, limflag, state_file, now, packets,
                   restarts, hist>>

\* reset_on_schedule when the period has changed since last_reset_ts: cnt = 0 ...
ScheduleReset ==
    /\ svc = Idle
    /\ StartOfPeriod(now) > 0
    /\ last_reset_ts < StartOfPeriod(now)
    /\ cnt' = 0
    /\ svc' = [op |-> "reset", v |-> now]
    /\ hist' = [hist EXCEPT
                   !.lost = @ + (cnt - cnt_prev), !.oldest = 0,
                   !.repeated = @ \/ (/\ hist.resetAt # 0
                                      /\ StartOfPeriod(hist.resetAt) = StartOfPeriod(now)
                                      /\ ~ hist.forgotten),
                   !.resetAt = now, !.unsaved = TRUE, !.forgotten = FALSE]
    /\ UNCHANGED <<cnt_prev, cnt_xml, last_reset_ts, limflag, state_file, now,
                   packets, restarts>>

\* What a reset adds to the lost bytes: with the history (reset_history) the
\* booked bytes go too.
Dropped(reset_history) == IF reset_history THEN cnt_xml ELSE 0

\* ... cnt_prev = 0, with the history also cnt_xml = 0; last_reset_ts = the
\* time the check started.
ScheduleResetPrev(reset_history) ==
    /\ svc.op = "reset"
    /\ cnt_prev' = 0
    /\ cnt_xml' = cnt_xml - Dropped(reset_history)
    /\ last_reset_ts' = svc.v
    /\ svc' = Idle
    /\ hist' = [hist EXCEPT !.checked = svc.v, !.moved = 0,
                            !.lost = @ + Dropped(reset_history)]
    /\ UNCHANGED <<cnt, limflag, state_file, now, packets, restarts>>

\* reset_all_counters, on the administrator's request: cnt = 0 ...
ResetAll ==
    /\ svc = Idle
    /\ cnt' = 0
    /\ svc' = [op |-> "resetall", v |-> now]
    /\ hist' = [hist EXCEPT !.lost = @ + (cnt - cnt_prev), !.oldest = 0]
    /\ UNCHANGED <<cnt_prev, cnt_xml, last_reset_ts, limflag, state_file, now,
                   packets, restarts>>

\* ... cnt_prev = 0 and the history; last_reset_ts is left alone.
ResetAllPrev ==
    /\ svc.op = "resetall"
    /\ cnt_prev' = 0
    /\ cnt_xml' = 0
    /\ svc' = Idle
    /\ hist' = [hist EXCEPT !.lost = @ + cnt_xml]
    /\ UNCHANGED <<cnt, last_reset_ts, limflag, state_file, now, packets, restarts>>

\* reset_on_schedule within the period of the latest reset.
ScheduleNothing ==
    /\ svc = Idle
    /\ ~ (StartOfPeriod(now) > 0 /\ last_reset_ts < StartOfPeriod(now))
    /\ hist' = [hist EXCEPT !.checked = now]
    /\ UNCHANGED <<cnt, cnt_prev, cnt_xml, last_reset_ts, limflag, svc,
                   state_file, now, packets, restarts>>

\* process_traffic_limit_flags: writes the file when the flag goes up.
LimitFlags ==
    /\ svc = Idle
    /\ limflag' = LimitExceeded
    /\ hist' = [hist EXCEPT
                   !.notified = LimitExceeded,
                   !.renotified = @ \/ (LimitExceeded /\ ~ limflag /\ hist.notified)]
    /\ UNCHANGED <<cnt, cnt_prev, cnt_xml, last_reset_ts, svc, state_file, now,
                   packets, restarts>>

\* Mutant: lastreset and limflags are not written.
MutSaveState ==
    /\ svc = Idle
    /\ state_file' = [bytes |-> cnt, lastreset |-> 0, limflags |-> FALSE,
                      readable |-> FALSE, oldest |-> hist.oldest, moved |-> hist.moved]
    /\ svc' = [op |-> "save", v |-> 0]
    /\ hist' = [hist EXCEPT !.unsaved = TRUE, !.fileNotified = hist.notified]
    /\ UNCHANGED <<cnt, cnt_prev, cnt_xml, last_reset_ts, limflag, now,
                   packets, restarts>>

\* create_from_filterset; xml_save opens the state file, which truncates it ...
SaveState ==
    /\ svc = Idle
    /\ state_file' = [bytes |-> cnt, lastreset |-> LocalTime(last_reset_ts),
                      limflags |-> limflag, readable |-> FALSE, oldest |-> hist.oldest,
                      moved |-> hist.moved + (LocalTime(last_reset_ts) - last_reset_ts)]
    /\ svc' = [op |-> "save", v |-> 0]
    /\ hist' = [hist EXCEPT !.unsaved = TRUE, !.fileNotified = hist.notified]
    /\ UNCHANGED <<cnt, cnt_prev, cnt_xml, last_reset_ts, limflag, now,
                   packets, restarts>>

\* ... and writes it.
SaveWrite ==
    /\ svc.op = "save"
    /\ state_file' = [state_file EXCEPT !.readable = TRUE]
    /\ svc' = Idle
    /\ hist' = [hist EXCEPT !.unsaved = hist.forgotten]
    /\ UNCHANGED <<cnt, cnt_prev, cnt_xml, last_reset_ts, limflag, now,
                   packets, restarts>>

\* filterset::copy_counters: the counters of a reloaded filter set start from
\* those of the one in use ...
ReloadCopy ==
    /\ svc = Idle
    /\ svc' = [op |-> "reload", v |-> cnt]
    /\ UNCHANGED <<cnt, cnt_prev, cnt_xml, last_reset_ts, limflag, state_file,
                   now, packets, restarts, hist>>

\* ... and the service then puts it in use (external); packets counted in the
\* old one meanwhile are lost.  The limit flags are not copied: the new filter
\* has the ones of its filter set file.
ReloadSwap(fileflag) ==
    /\ svc.op = "reload"
    /\ cnt' = svc.v
    /\ limflag' = fileflag
    /\ svc' = Idle
    /\ hist' = [hist EXCEPT !.lost = @ + (cnt - svc.v),
                            !.oldest = IF svc.v = 0 THEN 0 ELSE @,
                            !.notified = @ /\ fileflag]
    /\ UNCHANGED <<cnt_prev, cnt_xml, last_reset_ts, state_file, now,
                   packets, restarts>>

\* What the service finds: of a file that cannot be parsed nothing is loaded.
Loaded == IF state_file.readable THEN state_file ELSE NoStateFile

\* Mutant: starting the service counts as a reset.
MutRestart ==
    /\ restarts < MaxRestarts
    /\ restarts' = restarts + 1
    /\ cnt' = Loaded.bytes
    /\ cnt_prev' = 0
    /\ cnt_xml' = 0
    /\ last_reset_ts' = now
    /\ limflag' = Loaded.limflags
    /\ svc' = Idle
    /\ hist' = [hist EXCEPT
                   !.added = 0, !.lost = 0, !.replayed = Loaded.bytes,
                   !.oldest = Loaded.oldest, !.checked = 0, !.moved = Loaded.moved,
                   !.notified = state_file.readable /\ hist.fileNotified,
                   !.forgotten = @ \/ hist.unsaved]
    /\ UNCHANGED <<state_file, now, packets>>

\* The service stops at any point, in the middle of a call too, and starts
\* again: constructors, then apply_to_filterset (set_cnt leaves cnt_prev 0).
Restart ==
    /\ restarts < MaxRestarts
    /\ restarts' = restarts + 1
    /\ cnt' = Loaded.bytes
    /\ cnt_prev' = 0
    /\ cnt_xml' = 0
    /\ last_reset_ts' = Loaded.lastreset
    /\ limflag' = Loaded.limflags
    /\ svc' = Idle
    /\ hist' = [hist EXCEPT
                   !.added = 0, !.lost = 0, !.replayed = Loaded.bytes,
                   !.oldest = Loaded.oldest, !.checked = 0, !.moved = Loaded.moved,
                   !.notified = state_file.readable /\ hist.fileNotified,
                   !.forgotten = @ \/ hist.unsaved]
    /\ UNCHANGED <<state_file, now, packets>>

Tick ==
    /\ now < MaxTime
    /\ now' = now + 1
    /\ UNCHANGED <<cnt, cnt_prev, cnt_xml, last_reset_ts, limflag, svc,
                   state_file, packets, restarts, hist>>

Next ==
    \/ \E n \in Length : AddCnt(n)
    \/ RefreshLoad \/ RefreshBook
    \/ ScheduleReset \/ ScheduleNothing
    \/ \E h \in BOOLEAN : ScheduleResetPrev(h)
    \/ ResetAll \/ ResetAllPrev
    \/ LimitFlags
    \/ SaveState \/ SaveWrite
    \/ ReloadCopy
    \/ \E f \in BOOLEAN : ReloadSwap(f)
    \/ Restart
    \/ Tick

Spec == Init /\ [][Next]_vars
----------------------------------------------------------------------------
HistoryType ==
    [added : Nat, lost : Nat, replayed : Nat, oldest : Nat, checked : Nat,
     moved : Nat, resetAt : Nat, unsaved : BOOLEAN, forgotten : BOOLEAN, repeated : BOOLEAN,
     notified : BOOLEAN, fileNotified : BOOLEAN, renotified : BOOLEAN]

StateFileType ==
    [bytes : Nat, lastreset : Nat, limflags : BOOLEAN, readable : BOOLEAN,
     oldest : Nat, moved : Nat]

TypeOK ==
    /\ cnt \in Nat /\ cnt_prev \in Nat /\ cnt_xml \in Nat
    /\ last_reset_ts \in Nat
    /\ limflag \in BOOLEAN
    /\ svc \in [op : {"idle", "refresh", "reset", "resetall", "save", "reload"}, v : Nat]
    /\ state_file \in StateFileType
    /\ now \in Nat /\ packets \in Nat /\ restarts \in Nat
    /\ hist \in HistoryType

\* The part of cnt the reports have not seen.  While reset is half done
\* cnt_prev still belongs to the old count.
Pending == IF svc.op \in {"reset", "resetall"} THEN cnt ELSE cnt - cnt_prev

\* Nothing is reported twice and nothing is dropped silently: what a
\* process reported, has yet to report and has lost to a reset or reload is
\* exactly what it counted plus what it found in the state file, whatever packets
\* arrive between the steps of do_refresh and of reset.
ReportsBalance ==
    cnt_xml + Pending + hist.lost = hist.added + hist.replayed

\* The booked difference is never negative: cnt_prev never runs ahead of cnt.
\* (do_refresh would otherwise report traffic that was never counted.)
PrevBehind ==
    /\ Pending >= 0
    /\ svc.op \in {"refresh", "reload"} => cnt_prev <= svc.v /\ svc.v <= cnt

\* After a schedule check the counter holds no traffic of an earlier period,
\* also when the counter came from a state file that predates the period.  Only
\* the hours by which summer time put the restored last_reset_ts ahead
\* (utime::to_time_t) may still be in it: the reset is late by no more.
NoStaleTraffic ==
    hist.checked # 0 /\ hist.oldest # 0
        => hist.oldest + hist.moved >= StartOfPeriod(hist.checked)

\* A counter is reset twice in one period only if the service stopped before
\* it saved the first reset or in the middle of a later save (the file is then
\* cut off, ubase::xml_save): a saved last_reset_ts survives the restart.
ResetNotRepeated == ~ hist.repeated

\* The limit flag file is written once per excess, also across a restart after
\* a save: the flag bit is part of the saved state, unless the service stopped
\* in the middle of a save.  (A reload takes the flag from the filter set file
\* and may forget it: copy_filter_counters.)
FlagFileOnce == ~ hist.renotified
=============================================================================
