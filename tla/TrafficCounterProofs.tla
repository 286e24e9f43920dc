------------------------ MODULE TrafficCounterProofs ------------------------
(***************************************************************************)
(* Proofs about the byte counter of a filter, for packets of any lengths,  *)
(* any number of resets and restarts, and any reset period.                *)
(***************************************************************************)
EXTENDS TrafficCounter, TLAPS

\* The three parts support each other: the balance needs the booked
\* difference to be non-negative, which needs cnt_prev to lag cnt.
IInv == TypeOK /\ ReportsBalance /\ PrevBehind

\* The flag values in the history do not matter to the balance.
LEMMA InitIInv == Init => IInv
  <1> SUFFICES ASSUME Init PROVE IInv
    OBVIOUS
  <1> USE CounterAssumption DEF Init, Idle
  <1>1. hist \in HistoryType
    BY DEF NoHistory, HistoryType
  <1>2. state_file \in StateFileType
    BY DEF NoStateFile, StateFileType
  <1>3. TypeOK
    BY <1>1, <1>2 DEF TypeOK
  <1>4. hist.added = 0 /\ hist.lost = 0 /\ hist.replayed = 0
    BY DEF NoHistory
  <1> QED BY <1>3, <1>4 DEF IInv, ReportsBalance, PrevBehind, Pending

\* The local time is not behind the standard time.
LEMMA LocalTimeAhead ==
    ASSUME NEW t \in Nat
    PROVE  LocalTime(t) \in Nat /\ LocalTime(t) >= t
  BY CounterAssumption DEF LocalTime

\* Each step of a packet thread, of the service or of a restart keeps IInv.
LEMMA NextIInv ==
    ASSUME IInv, [Next]_vars
    PROVE  IInv'
  <1> USE CounterAssumption DEF IInv, TypeOK, ReportsBalance, PrevBehind, Pending, Idle
  <1>0. hist.added \in Nat /\ hist.lost \in Nat /\ hist.replayed \in Nat
    BY DEF HistoryType
  <1>1. ASSUME NEW n \in Length, AddCnt(n) PROVE IInv'
    <2>1. n \in Nat /\ n > 0
      OBVIOUS
    <2> DEFINE o == IF hist.oldest = 0 THEN now ELSE hist.oldest
    <2>2. o \in Nat /\ hist.added + n \in Nat
      BY <2>1, <1>0 DEF HistoryType
    <2>3. hist' = [hist EXCEPT !.added = hist.added + n, !.oldest = o]
      BY <1>1 DEF AddCnt
    <2>4. /\ hist'.added = hist.added + n
          /\ hist'.lost = hist.lost /\ hist'.replayed = hist.replayed
      BY <1>1 DEF AddCnt, HistoryType
    <2>5. hist' \in HistoryType
      <3> HIDE DEF o
      <3> QED BY <2>2, <2>3 DEF HistoryType
    <2> QED BY <1>0, <1>1, <2>1, <2>4, <2>5 DEF AddCnt
  <1>2. CASE RefreshLoad
    BY <1>2 DEF RefreshLoad
  <1>3. CASE RefreshBook
    <2>1. svc.v >= cnt_prev /\ svc.v <= cnt /\ svc.v \in Nat
      BY <1>3 DEF RefreshBook
    <2>2. Abs(svc.v - cnt_prev) = svc.v - cnt_prev
      BY <2>1 DEF Abs
    <2> QED BY <1>3, <2>1, <2>2 DEF RefreshBook
  <1>4. CASE ScheduleReset
    <2>1. cnt - cnt_prev \in Nat
      BY <1>4 DEF ScheduleReset
    <2>2. hist' \in HistoryType
      <3> DEFINE r == hist.repeated \/ (/\ hist.resetAt # 0
                                         /\ StartOfPeriod(hist.resetAt) = StartOfPeriod(now)
                                         /\ ~ hist.forgotten)
      <3>1. r \in BOOLEAN /\ hist.lost + (cnt - cnt_prev) \in Nat
        BY <1>0, <2>1
      <3>2. hist' = [hist EXCEPT !.lost = hist.lost + (cnt - cnt_prev), !.oldest = 0,
                        !.repeated = r, !.resetAt = now, !.unsaved = TRUE,
                        !.forgotten = FALSE]
        BY <1>4 DEF ScheduleReset
      <3> HIDE DEF r
      <3> QED BY <3>1, <3>2 DEF HistoryType
    <2>3. /\ hist'.lost = hist.lost + (cnt - cnt_prev)
          /\ hist'.added = hist.added /\ hist'.replayed = hist.replayed
      BY <1>4 DEF ScheduleReset, HistoryType
    <2> QED BY <1>0, <1>4, <2>1, <2>2, <2>3 DEF ScheduleReset
  <1>5. ASSUME NEW h \in BOOLEAN, ScheduleResetPrev(h) PROVE IInv'
    <2> DEFINE d == Dropped(h)
    <2>0. d \in Nat /\ cnt_xml - d \in Nat /\ hist.lost + d \in Nat
      BY <1>0 DEF Dropped
    <2>1. /\ hist'.added = hist.added
          /\ hist'.lost = hist.lost + d /\ hist'.replayed = hist.replayed
      BY <1>5 DEF ScheduleResetPrev, HistoryType
    <2>2. /\ hist' = [hist EXCEPT !.checked = svc.v, !.moved = 0, !.lost = hist.lost + d]
          /\ cnt_xml' = cnt_xml - d
      BY <1>5 DEF ScheduleResetPrev
    <2> HIDE DEF d
    <2>3. hist' \in HistoryType
      BY <2>0, <2>2 DEF HistoryType
    <2> QED BY <1>0, <1>5, <2>0, <2>1, <2>2, <2>3 DEF ScheduleResetPrev
  <1>6. CASE ScheduleNothing
    <2>1. /\ hist'.added = hist.added
          /\ hist'.lost = hist.lost /\ hist'.replayed = hist.replayed
      BY <1>6 DEF ScheduleNothing, HistoryType
    <2>2. hist' \in HistoryType
      BY <1>6 DEF ScheduleNothing, HistoryType
    <2> QED BY <1>6, <2>1, <2>2 DEF ScheduleNothing
  <1>7. CASE LimitFlags
    <2>1. /\ hist'.added = hist.added
          /\ hist'.lost = hist.lost /\ hist'.replayed = hist.replayed
      BY <1>7 DEF LimitFlags, HistoryType
    <2>2. hist' \in HistoryType
      BY <1>7 DEF LimitFlags, HistoryType, LimitExceeded
    <2> QED BY <1>7, <2>1, <2>2 DEF LimitFlags, LimitExceeded
  <1>8. CASE SaveState
    <2>1. /\ hist'.added = hist.added
          /\ hist'.lost = hist.lost /\ hist'.replayed = hist.replayed
      BY <1>8 DEF SaveState, HistoryType
    <2>2. hist' \in HistoryType
      BY <1>8 DEF SaveState, HistoryType
    <2>3. state_file' \in StateFileType
      <3> DEFINE l == LocalTime(last_reset_ts)
                 m == hist.moved + (l - last_reset_ts)
      <3>1. l \in Nat /\ m \in Nat
        BY LocalTimeAhead DEF HistoryType
      <3>2. state_file' = [bytes |-> cnt, lastreset |-> l, limflags |-> limflag,
                           readable |-> FALSE, oldest |-> hist.oldest, moved |-> m]
        BY <1>8 DEF SaveState
      <3>3. hist.oldest \in Nat
        BY DEF HistoryType
      <3> HIDE DEF l, m
      <3> QED BY <3>1, <3>2, <3>3 DEF StateFileType
    <2> QED BY <1>8, <2>1, <2>2, <2>3 DEF SaveState
  <1>16. CASE SaveWrite
    <2>1. /\ hist'.added = hist.added
          /\ hist'.lost = hist.lost /\ hist'.replayed = hist.replayed
      BY <1>16 DEF SaveWrite, HistoryType
    <2>2. hist' \in HistoryType /\ state_file' \in StateFileType
      BY <1>16 DEF SaveWrite, HistoryType, StateFileType
    <2> QED BY <1>16, <2>1, <2>2 DEF SaveWrite
  <1>9. CASE Restart
    <2> DEFINE f == Loaded
    <2>0. f \in StateFileType
      BY DEF Loaded, NoStateFile, StateFileType
    <2>1. /\ hist'.added = 0 /\ hist'.lost = 0
          /\ hist'.replayed = f.bytes
      BY <1>9 DEF Restart, HistoryType
    <2>2. hist' \in HistoryType
      <3>1. state_file.readable \in BOOLEAN
        BY DEF StateFileType
      <3> DEFINE n == state_file.readable /\ hist.fileNotified
                 g == hist.forgotten \/ hist.unsaved
      <3>2. n \in BOOLEAN /\ g \in BOOLEAN
        BY DEF HistoryType
      <3>3. hist' = [hist EXCEPT
                       !.added = 0, !.lost = 0, !.replayed = f.bytes,
                       !.oldest = f.oldest, !.checked = 0, !.moved = f.moved,
                       !.notified = n, !.forgotten = g]
        BY <1>9 DEF Restart
      <3> HIDE DEF f, n, g
      <3> QED BY <2>0, <3>2, <3>3 DEF HistoryType, StateFileType
    <2>3. /\ f.bytes \in Nat /\ f.lastreset \in Nat
          /\ f.limflags \in BOOLEAN
      <3> HIDE DEF f
      <3> QED BY <2>0 DEF StateFileType
    <2>4. /\ cnt' = f.bytes /\ last_reset_ts' = f.lastreset /\ limflag' = f.limflags
          /\ state_file' = state_file
      BY <1>9 DEF Restart
    <2> HIDE DEF f
    <2> QED BY <1>9, <2>1, <2>2, <2>3, <2>4 DEF Restart
  <1>10. CASE Tick
    BY <1>10 DEF Tick
  <1>11. CASE UNCHANGED vars
    BY <1>11 DEF vars
  <1>12. CASE ReloadCopy
    BY <1>12 DEF ReloadCopy
  <1>14. CASE ResetAll
    <2>1. cnt - cnt_prev \in Nat
      BY <1>14 DEF ResetAll
    <2>2. /\ hist'.lost = hist.lost + (cnt - cnt_prev)
          /\ hist'.added = hist.added /\ hist'.replayed = hist.replayed
      BY <1>14 DEF ResetAll, HistoryType
    <2>3. hist' \in HistoryType
      <3> DEFINE l == hist.lost + (cnt - cnt_prev)
      <3>1. l \in Nat
        BY <1>0, <2>1
      <3>2. hist' = [hist EXCEPT !.lost = l, !.oldest = 0]
        BY <1>14 DEF ResetAll
      <3> HIDE DEF l
      <3> QED BY <3>1, <3>2 DEF HistoryType
    <2> QED BY <1>0, <1>14, <2>1, <2>2, <2>3 DEF ResetAll
  <1>15. CASE ResetAllPrev
    <2>1. /\ hist'.lost = hist.lost + cnt_xml
          /\ hist'.added = hist.added /\ hist'.replayed = hist.replayed
      BY <1>15 DEF ResetAllPrev, HistoryType
    <2>2. hist' \in HistoryType
      BY <1>0, <1>15 DEF ResetAllPrev, HistoryType
    <2> QED BY <1>0, <1>15, <2>1, <2>2 DEF ResetAllPrev
  <1>13. ASSUME NEW f \in BOOLEAN, ReloadSwap(f) PROVE IInv'
    <2>1. cnt - svc.v \in Nat /\ svc.v \in Nat /\ cnt_prev <= svc.v
      BY <1>13 DEF ReloadSwap
    <2> DEFINE o == IF svc.v = 0 THEN 0 ELSE hist.oldest
               q == hist.notified /\ f
    <2>2. o \in Nat /\ q \in BOOLEAN /\ hist.lost + (cnt - svc.v) \in Nat
      BY <2>1, <1>0 DEF HistoryType
    <2>3. hist' = [hist EXCEPT !.lost = hist.lost + (cnt - svc.v), !.oldest = o,
                               !.notified = q]
      BY <1>13 DEF ReloadSwap
    <2>4. /\ hist'.lost = hist.lost + (cnt - svc.v)
          /\ hist'.added = hist.added /\ hist'.replayed = hist.replayed
      BY <1>13 DEF ReloadSwap, HistoryType
    <2>5. hist' \in HistoryType
      <3> HIDE DEF o, q
      <3> QED BY <2>2, <2>3 DEF HistoryType
    <2>6. limflag' \in BOOLEAN /\ cnt' = svc.v /\ svc' = [op |-> "idle", v |-> 0]
      BY <1>13 DEF ReloadSwap
    <2> QED BY <1>0, <1>13, <2>1, <2>4, <2>5, <2>6 DEF ReloadSwap
  <1> QED
    BY <1>12, <1>13, <1>14, <1>15, <1>16, <1>1, <1>2, <1>3, <1>4, <1>5, <1>6, <1>7, <1>8, <1>9, <1>10, <1>11 DEF Next

\* The counters are never negative and the saved state is always readable.
THEOREM CounterTypeCorrect == Spec => []TypeOK
  <1>1. IInv => TypeOK
    BY DEF IInv
  <1>2. IInv /\ [Next]_vars => IInv'
    BY NextIInv
  <1> QED BY InitIInv, <1>1, <1>2, PTL DEF Spec

\* The reports of filtercnt account for every counted byte.
THEOREM CounterBalance == Spec => []ReportsBalance
  <1>1. IInv => ReportsBalance
    BY DEF IInv
  <1>2. IInv /\ [Next]_vars => IInv'
    BY NextIInv
  <1> QED BY InitIInv, <1>1, <1>2, PTL DEF Spec

\* do_refresh never books a negative difference.
THEOREM CounterPrevBehind == Spec => []PrevBehind
  <1>1. IInv => PrevBehind
    BY DEF IInv
  <1>2. IInv /\ [Next]_vars => IInv'
    BY NextIInv
  <1> QED BY InitIInv, <1>1, <1>2, PTL DEF Spec

----------------------------------------------------------------------------
(***************************************************************************)
(* The limit flag file.                                                    *)
(***************************************************************************)

\* FlagFileOnce with what makes it inductive: an excess that was announced
\* keeps the flag bit up, in memory and, from the save on, in the state file.
FlagInv ==
    /\ hist.notified => limflag
    /\ hist.fileNotified => state_file.limflags
    /\ FlagFileOnce

\* The flag bit follows the announcement through limit checks, saves, reloads
\* and restarts.
LEMMA NextFlagInv ==
    ASSUME TypeOK, FlagInv, [Next]_vars
    PROVE  FlagInv'
  <1> USE DEF FlagInv, FlagFileOnce, TypeOK, HistoryType, StateFileType
  <1>1. ASSUME NEW n \in Length, AddCnt(n) PROVE FlagInv'
    BY <1>1 DEF AddCnt
  <1>2. CASE RefreshLoad \/ RefreshBook \/ ReloadCopy \/ Tick
    BY <1>2 DEF RefreshLoad, RefreshBook, ReloadCopy, Tick
  <1>3. CASE ScheduleReset \/ ScheduleNothing \/ ResetAll \/ ResetAllPrev
    BY <1>3 DEF ScheduleReset, ScheduleNothing, ResetAll, ResetAllPrev
  <1>4. ASSUME NEW h \in BOOLEAN, ScheduleResetPrev(h) PROVE FlagInv'
    BY <1>4 DEF ScheduleResetPrev
  <1>5. CASE LimitFlags
    BY <1>5 DEF LimitFlags
  <1>6. CASE SaveState \/ SaveWrite
    <2>1. CASE SaveState
      <3>1. /\ state_file'.limflags = limflag /\ limflag' = limflag
            /\ hist'.notified = hist.notified /\ hist'.renotified = hist.renotified
            /\ hist'.fileNotified = hist.notified
        BY <2>1 DEF SaveState
      <3> QED BY <3>1
    <2>2. CASE SaveWrite
      BY <2>2 DEF SaveWrite
    <2> QED BY <1>6, <2>1, <2>2
  <1>7. ASSUME NEW f \in BOOLEAN, ReloadSwap(f) PROVE FlagInv'
    BY <1>7 DEF ReloadSwap
  <1>8. CASE Restart
    BY <1>8 DEF Restart, Loaded
  <1>9. CASE UNCHANGED vars
    BY <1>9 DEF vars
  <1> QED BY <1>1, <1>2, <1>3, <1>4, <1>5, <1>6, <1>7, <1>8, <1>9 DEF Next

\* The limit flag file is written once per excess, across any number of
\* restarts: process_traffic_limit_flags finds the saved bit again, unless the
\* service stopped in the middle of xml_save.
THEOREM CounterFlagFileOnce == Spec => []FlagFileOnce
  <1>1. Init => FlagInv
    BY DEF Init, NoHistory, NoStateFile, FlagInv, FlagFileOnce
  <1>2. TypeOK /\ FlagInv /\ [Next]_vars => FlagInv'
    BY NextFlagInv
  <1>3. FlagInv => FlagFileOnce
    BY DEF FlagInv
  <1> QED BY CounterTypeCorrect, <1>1, <1>2, <1>3, PTL DEF Spec

----------------------------------------------------------------------------
(***************************************************************************)
(* The scheduled reset.                                                    *)
(***************************************************************************)

\* The start of a period is not after any moment of it.
LEMMA StartOfPeriodBound ==
    ASSUME NEW t \in Nat
    PROVE  StartOfPeriod(t) \in Nat /\ StartOfPeriod(t) <= t
  <1>1. t % PeriodLen \in 0..(PeriodLen - 1) /\ t % PeriodLen <= t
    BY CounterAssumption
  <1> QED BY <1>1 DEF StartOfPeriod

\* ResetNotRepeated with what makes it inductive: unless a restart did not find
\* the latest reset in the state file, that reset is in progress or
\* last_reset_ts is not before it; once saved, so is the time in the file,
\* which can be read.
ResetInv ==
    /\ ResetNotRepeated
    /\ svc.op = "reset" => svc.v = hist.resetAt
    /\ hist.resetAt # 0 /\ ~ hist.forgotten
          => svc.op = "reset" \/ last_reset_ts >= hist.resetAt
    /\ hist.resetAt # 0 /\ ~ hist.forgotten /\ svc.op = "save"
          => state_file.lastreset >= hist.resetAt
    /\ hist.resetAt # 0 /\ ~ hist.forgotten /\ ~ hist.unsaved
          => state_file.readable /\ state_file.lastreset >= hist.resetAt

\* Resets, saves and restarts keep last_reset_ts and the file together.
LEMMA NextResetInv ==
    ASSUME TypeOK, ResetInv, [Next]_vars
    PROVE  ResetInv'
  <1> USE DEF ResetInv, ResetNotRepeated, TypeOK, HistoryType, StateFileType, Idle
  <1>1. ASSUME NEW n \in Length, AddCnt(n) PROVE ResetInv'
    BY <1>1 DEF AddCnt
  <1>2. CASE RefreshLoad \/ RefreshBook \/ ReloadCopy \/ Tick
    BY <1>2 DEF RefreshLoad, RefreshBook, ReloadCopy, Tick
  <1>3. CASE ScheduleReset
    <2>1. hist.resetAt # 0 /\ ~ hist.forgotten => last_reset_ts >= hist.resetAt
      BY <1>3 DEF ScheduleReset
    <2>2. /\ StartOfPeriod(hist.resetAt) \in Nat
          /\ StartOfPeriod(hist.resetAt) <= hist.resetAt
      BY StartOfPeriodBound
    <2>3. last_reset_ts < StartOfPeriod(now)
      BY <1>3 DEF ScheduleReset
    <2>4. StartOfPeriod(now) \in Nat
      BY StartOfPeriodBound
    <2>5. ~ (/\ hist.resetAt # 0
             /\ StartOfPeriod(hist.resetAt) = StartOfPeriod(now)
             /\ ~ hist.forgotten)
      BY <2>1, <2>2, <2>3, <2>4
    <2> QED BY <1>3, <2>5 DEF ScheduleReset
  <1>4. ASSUME NEW h \in BOOLEAN, ScheduleResetPrev(h) PROVE ResetInv'
    BY <1>4 DEF ScheduleResetPrev
  <1>5. CASE ScheduleNothing \/ ResetAll \/ ResetAllPrev \/ LimitFlags
    <2>1. CASE ScheduleNothing
      BY <2>1 DEF ScheduleNothing
    <2>2. CASE ResetAll
      BY <2>2 DEF ResetAll
    <2>3. CASE ResetAllPrev
      BY <2>3 DEF ResetAllPrev
    <2>4. CASE LimitFlags
      BY <2>4 DEF LimitFlags
    <2> QED BY <1>5, <2>1, <2>2, <2>3, <2>4
  <1>6. CASE SaveState
    <2>1. LocalTime(last_reset_ts) >= last_reset_ts /\ LocalTime(last_reset_ts) \in Nat
      BY LocalTimeAhead
    <2>2. /\ state_file'.lastreset = LocalTime(last_reset_ts)
          /\ hist'.resetAt = hist.resetAt /\ hist'.forgotten = hist.forgotten
          /\ hist'.unsaved = TRUE /\ hist'.repeated = hist.repeated
      BY <1>6 DEF SaveState
    <2> QED BY <1>6, <2>1, <2>2 DEF SaveState
  <1>10. CASE SaveWrite
    BY <1>10 DEF SaveWrite
  <1>7. ASSUME NEW f \in BOOLEAN, ReloadSwap(f) PROVE ResetInv'
    BY <1>7 DEF ReloadSwap
  <1>8. CASE Restart
    BY <1>8 DEF Restart, Loaded
  <1>9. CASE UNCHANGED vars
    BY <1>9 DEF vars
  <1> QED BY <1>1, <1>2, <1>3, <1>4, <1>5, <1>6, <1>7, <1>8, <1>9, <1>10 DEF Next

\* A saved reset is not repeated in its period, whatever the period length and
\* wherever the service is stopped, except in the middle of xml_save.
THEOREM CounterResetNotRepeated == Spec => []ResetNotRepeated
  <1>1. Init => ResetInv
    BY DEF Init, Idle, NoHistory, NoStateFile, ResetInv, ResetNotRepeated
  <1>2. TypeOK /\ ResetInv /\ [Next]_vars => ResetInv'
    BY NextResetInv
  <1>3. ResetInv => ResetNotRepeated
    BY DEF ResetInv
  <1> QED BY CounterTypeCorrect, <1>1, <1>2, <1>3, PTL DEF Spec

\* NoStaleTraffic with what makes it inductive: but for the hours the restored
\* time was put ahead, nothing in the counter or in the state file is older
\* than the reset recorded beside it, and nothing recorded is ahead of the clock.
StaleInv ==
    /\ NoStaleTraffic
    /\ hist.oldest # 0 => hist.oldest + hist.moved >= last_reset_ts
    /\ hist.oldest # 0 /\ svc.op = "reset" => hist.oldest >= svc.v
    /\ state_file.oldest # 0
          => state_file.oldest + state_file.moved >= state_file.lastreset
    /\ last_reset_ts <= now + hist.moved
    /\ state_file.lastreset <= now + state_file.moved
    /\ hist.checked <= now
    /\ svc.op = "reset" => svc.v <= now

\* Packets, resets, saves and restarts keep the counter's traffic on the near
\* side of the recorded reset.
LEMMA NextStaleInv ==
    ASSUME TypeOK, StaleInv, [Next]_vars
    PROVE  StaleInv'
  <1> USE DEF StaleInv, NoStaleTraffic, TypeOK, HistoryType, StateFileType, Idle
  <1>0. /\ StartOfPeriod(hist.checked) \in Nat /\ StartOfPeriod(hist.checked) <= hist.checked
        /\ StartOfPeriod(svc.v) \in Nat /\ StartOfPeriod(svc.v) <= svc.v
        /\ StartOfPeriod(now) \in Nat
    BY StartOfPeriodBound
  <1>1. ASSUME NEW n \in Length, AddCnt(n) PROVE StaleInv'
    BY <1>0, <1>1 DEF AddCnt
  <1>2. CASE RefreshLoad \/ RefreshBook \/ ReloadCopy \/ Tick
    BY <1>2 DEF RefreshLoad, RefreshBook, ReloadCopy, Tick
  <1>3. CASE ScheduleReset \/ ResetAll
    <2>1. CASE ScheduleReset
      BY <2>1 DEF ScheduleReset
    <2>2. CASE ResetAll
      BY <2>2 DEF ResetAll
    <2> QED BY <1>3, <2>1, <2>2
  <1>4. ASSUME NEW h \in BOOLEAN, ScheduleResetPrev(h) PROVE StaleInv'
    BY <1>0, <1>4 DEF ScheduleResetPrev
  <1>5. CASE ScheduleNothing
    <2>1. hist.oldest # 0 => hist.oldest + hist.moved >= StartOfPeriod(now)
      BY <1>0, <1>5 DEF ScheduleNothing
    <2> QED BY <1>5, <2>1 DEF ScheduleNothing
  <1>6. CASE ResetAllPrev \/ LimitFlags
    <2>1. CASE ResetAllPrev
      BY <2>1 DEF ResetAllPrev
    <2>2. CASE LimitFlags
      BY <2>2 DEF LimitFlags
    <2> QED BY <1>6, <2>1, <2>2
  <1>7. CASE SaveState
    <2> DEFINE l == LocalTime(last_reset_ts)
    <2>1. l >= last_reset_ts /\ l \in Nat
      BY LocalTimeAhead
    <2>2. /\ state_file'.lastreset = l /\ state_file'.oldest = hist.oldest
          /\ state_file'.moved = hist.moved + (l - last_reset_ts)
          /\ hist'.oldest = hist.oldest /\ hist'.moved = hist.moved
          /\ hist'.checked = hist.checked /\ svc'.op = "save"
      BY <1>7 DEF SaveState
    <2> HIDE DEF l
    <2> QED BY <1>7, <2>1, <2>2 DEF SaveState
  <1>11. CASE SaveWrite
    BY <1>11 DEF SaveWrite
  <1>8. ASSUME NEW f \in BOOLEAN, ReloadSwap(f) PROVE StaleInv'
    BY <1>8 DEF ReloadSwap
  <1>9. CASE Restart
    BY <1>9 DEF Restart, Loaded, NoStateFile
  <1>10. CASE UNCHANGED vars
    BY <1>10 DEF vars
  <1> QED
    BY <1>1, <1>2, <1>3, <1>4, <1>5, <1>6, <1>7, <1>8, <1>9, <1>10, <1>11 DEF Next

\* After a schedule check the counter holds no traffic of an earlier period,
\* also when reset_on_schedule finds a counter restored from an old file, but
\* for the hours by which summer time put the restored last_reset_ts ahead.
THEOREM CounterNoStaleTraffic == Spec => []NoStaleTraffic
  <1>1. Init => StaleInv
    BY CounterAssumption DEF Init, Idle, NoHistory, NoStateFile, StaleInv, NoStaleTraffic
  <1>2. TypeOK /\ StaleInv /\ [Next]_vars => StaleInv'
    BY NextStaleInv
  <1>3. StaleInv => NoStaleTraffic
    BY DEF StaleInv
  <1> QED BY CounterTypeCorrect, <1>1, <1>2, <1>3, PTL DEF Spec
=============================================================================
