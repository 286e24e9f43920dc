---------------------------- MODULE SpeedProofs ----------------------------
(***************************************************************************)
(* Theorems about the speeds a console displays: what packing does to a    *)
(* speed (SpeedTransfer), and that the console's copy of the speed history *)
(* is a copy (ConsoleSync).                                                *)
(***************************************************************************)
EXTENDS SpeedTransfer, ConsoleSync, WellFoundedInduction, TLAPS

\* What pack_speed followed by unpack_speed yields.
LEMMA RoundTrip ==
    ASSUME NEW s \in PackableSpeed
    PROVE  /\ s < 131072 => UnpackSpeed(PackSpeed(s)) = 4 * (s \div 4)
           /\ s >= 131072 => UnpackSpeed(PackSpeed(s)) = 1024 * (s \div 1024)
  <1>1. CASE s < 131072
    <2>1. s \div 4 \in Nat /\ s \div 4 < 32768
      BY SMT, <1>1 DEF PackableSpeed
    <2>2. PackSpeed(s) = s \div 4
      BY SMT, <1>1 DEF PackSpeed
    <2>3. UnpackSpeed(s \div 4) = 4 * (s \div 4)
      BY SMT, <2>1 DEF UnpackSpeed
    <2> QED BY SMT, <1>1, <2>2, <2>3 DEF PackableSpeed
  <1>2. CASE s >= 131072
    <2>1. s \div 1024 \in Nat /\ s \div 1024 < 32768
      BY SMT, <1>2 DEF PackableSpeed
    <2>2. (s \div 1024) % 32768 = s \div 1024
      BY SMT, <2>1
    <2>3. (32768 + (s \div 1024)) % 32768 = s \div 1024
      BY SMT, <2>1
    <2>4. PackSpeed(s) = 32768 + (s \div 1024)
      BY SMT, <1>2, <2>2 DEF PackSpeed, PackableSpeed
    <2>5. UnpackSpeed(32768 + (s \div 1024)) = 1024 * (s \div 1024)
      BY SMT, <2>1, <2>3 DEF UnpackSpeed
    <2> QED BY SMT, <1>2, <2>4, <2>5 DEF PackableSpeed
  <1> QED BY SMT, <1>1, <1>2 DEF PackableSpeed

\* Rounding down by less than a unit.
LEMMA RoundTripError ==
    ASSUME NEW s \in PackableSpeed
    PROVE  /\ UnpackSpeed(PackSpeed(s)) <= s
           /\ s - UnpackSpeed(PackSpeed(s)) < PackUnit(s)
  <1>1. s \in Nat /\ 4 * (s \div 4) <= s /\ s - 4 * (s \div 4) < 4
    BY SMT DEF PackableSpeed
  <1>2. 1024 * (s \div 1024) <= s /\ s - 1024 * (s \div 1024) < 1024
    BY SMT DEF PackableSpeed
  <1> QED BY SMT, <1>1, <1>2, RoundTrip DEF PackUnit

\* Order is kept within a representation and across the switch.
LEMMA RoundTripMonotone ==
    ASSUME NEW s \in PackableSpeed, NEW t \in PackableSpeed, s <= t
    PROVE  UnpackSpeed(PackSpeed(s)) <= UnpackSpeed(PackSpeed(t))
  <1>1. CASE t < 131072
    <2>1. s < 131072 /\ s \div 4 <= t \div 4
      BY SMT, <1>1 DEF PackableSpeed
    <2> QED BY SMT, <1>1, <2>1, RoundTrip DEF PackableSpeed
  <1>2. CASE s >= 131072
    <2>1. t >= 131072 /\ s \div 1024 <= t \div 1024
      BY SMT, <1>2 DEF PackableSpeed
    <2> QED BY SMT, <1>2, <2>1, RoundTrip DEF PackableSpeed
  <1>3. CASE s < 131072 /\ t >= 131072
    <2>1. 4 * (s \div 4) < 131072 /\ 1024 * (t \div 1024) >= 131072
      BY SMT, <1>3 DEF PackableSpeed
    <2> QED BY SMT, <1>3, <2>1, RoundTrip DEF PackableSpeed
  <1> QED BY SMT, <1>1, <1>2, <1>3 DEF PackableSpeed

\* Each packed and shown value is the packed and unpacked measured one.
TransferInv ==
    /\ measured \in Seq(Nat) /\ packed \in Seq(Int) /\ shown \in Seq(Int)
    /\ Len(packed) = Len(measured) /\ Len(shown) <= Len(packed)
    /\ \A i \in 1 .. Len(packed) : packed[i] = PackSpeed(measured[i])
    /\ \A i \in 1 .. Len(shown) : shown[i] = UnpackSpeed(PackSpeed(measured[i]))

LEMMA PackInt == \A s \in Nat : PackSpeed(s) \in Int
  BY SMT DEF PackSpeed

LEMMA UnpackInt == \A p \in Int : UnpackSpeed(p) \in Int
  BY SMT DEF UnpackSpeed

LEMMA TransferInvInductive == TransferSpec => []TransferInv
  <1>1. TransferInit => TransferInv
    BY SMT DEF TransferInit, TransferInv
  <1>2. TransferInv /\ [TransferNext]_transferVars => TransferInv'
    <2> SUFFICES ASSUME TransferInv, [TransferNext]_transferVars PROVE TransferInv'
      OBVIOUS
    <2>1. ASSUME NEW speed \in Speeds, Measure(speed) PROVE TransferInv'
      <3>1. speed \in Nat /\ PackSpeed(speed) \in Int
        BY SMT, SpeedsAssumption, PackInt
      <3> QED BY SMT, <2>1, <3>1 DEF TransferInv, Measure
    <2>2. CASE Display
      <3> DEFINE k == Len(shown) + 1
      <3>1. k \in 1 .. Len(packed) /\ packed[k] \in Int
        BY SMT, <2>2 DEF TransferInv, Display
      <3>2. UnpackSpeed(packed[k]) \in Int
        BY SMT, <3>1, UnpackInt
      <3> QED BY SMT, <2>2, <3>1, <3>2 DEF TransferInv, Display
    <2>3. CASE UNCHANGED transferVars
      BY SMT, <2>3 DEF TransferInv, transferVars
    <2> QED BY SMT, <2>1, <2>2, <2>3 DEF TransferNext
  <1> QED BY <1>1, <1>2, PTL DEF TransferSpec

\* The console shows every speed below 32 MByte/sec to within a unit of the
\* packed form.
THEOREM SpeedDisplayAccurate == TransferSpec => []DisplayAccurate
  <1>1. TransferInv => DisplayAccurate
    <2> SUFFICES ASSUME TransferInv, NEW i \in DOMAIN shown, measured[i] \in PackableSpeed
                 PROVE  /\ shown[i] <= measured[i]
                        /\ measured[i] - shown[i] < PackUnit(measured[i])
      BY SMT DEF DisplayAccurate
    <2>1. DOMAIN shown = 1 .. Len(shown)
      BY SMT DEF TransferInv
    <2>2. shown[i] = UnpackSpeed(PackSpeed(measured[i]))
      BY <2>1, Zenon DEF TransferInv
    <2> QED BY <2>2, RoundTripError, Zenon
  <1> QED BY TransferInvInductive, <1>1, PTL

\* The console never shows the faster of two filters as the slower.
THEOREM SpeedDisplayMonotone == TransferSpec => []DisplayMonotone
  <1>1. TransferInv => DisplayMonotone
    <2> SUFFICES ASSUME TransferInv, NEW i \in DOMAIN shown, NEW j \in DOMAIN shown,
                        measured[i] \in PackableSpeed, measured[j] \in PackableSpeed,
                        measured[i] <= measured[j]
                 PROVE  shown[i] <= shown[j]
      BY SMT DEF DisplayMonotone
    <2>1. DOMAIN shown = 1 .. Len(shown)
      BY SMT DEF TransferInv
    <2>2. /\ shown[i] = UnpackSpeed(PackSpeed(measured[i]))
          /\ shown[j] = UnpackSpeed(PackSpeed(measured[j]))
      BY <2>1, Zenon DEF TransferInv
    <2> QED BY <2>2, RoundTripMonotone, Zenon
  <1> QED BY TransferInvInductive, <1>1, PTL

----------------------------------------------------------------------------
(***************************************************************************)
(* The rings.  A point has an age: 1 for the one written last, MAXVALUES   *)
(* for the one that is written next.                                       *)
(***************************************************************************)
Age(n, p) == IF p < n THEN n - p ELSE n + MAXVALUES - p

DataType ==
    [total_points : 0 .. MAXVALUES, next_point : Point, next_seqnum : Nat,
     seqnum : [Point -> Nat], time : [Point -> Nat]]

\* A ring has consecutive sequence numbers up to next_seqnum, with their times.
RingInv(d) ==
    /\ d \in DataType
    /\ d.total_points < MAXVALUES => d.next_point = d.total_points
    /\ \A p \in Point : Age(d.next_point, p) <= d.total_points =>
          /\ d.seqnum[p] = d.next_seqnum - Age(d.next_point, p)
          /\ d.time[p] = d.next_seqnum - Age(d.next_point, p)

\* A ring of speeds of a filter agrees with the ring of sequence numbers.
SpeedsInv(d, ring, f) ==
    \A p \in Point : Age(d.next_point, p) <= d.total_points =>
        ring[p] = PackSpeed(Sample(f, d.next_seqnum - Age(d.next_point, p)))

\* A count is that of the point before s or that of the next one.
CountAt(f, s, c) == c = Total(f, s) \/ c = Total(f, s + 1)

ServerInv ==
    /\ RingInv(fdata)
    /\ fdata.next_seqnum \in FirstSeq .. MaxSeq
    /\ fdata.total_points <= fdata.next_seqnum - FirstSeq
    /\ fdata.total_points < MAXVALUES => fdata.total_points = fdata.next_seqnum - FirstSeq
    /\ cnt_set \in [Range(ServerFilters) -> [Point -> Int]]
    /\ \A f \in Range(ServerFilters) : SpeedsInv(fdata, cnt_set[f], f)
    /\ cnt_prev = [f \in Range(ServerFilters) |-> Total(f, fdata.next_seqnum)]
    /\ cnt \in [Range(ServerFilters) -> Nat]
    /\ \A f \in Range(ServerFilters) : CountAt(f, fdata.next_seqnum, cnt[f])

ConsoleInv ==
    /\ RingInv(cfdata)
    /\ cfdata.total_points = 0 => cfdata.next_seqnum = 0
    /\ cfdata.total_points > 0 =>
          /\ cfdata.next_seqnum - cfdata.total_points >= FirstSeq
          /\ cfdata.next_seqnum <= fdata.next_seqnum
    /\ ccnt_set \in [Range(ConsoleFilters) -> [Point -> Int]]
    /\ DOMAIN cspeed = Range(ConsoleFilters) /\ DOMAIN ccnt = Range(ConsoleFilters)
    /\ \A f \in Shared : SpeedsInv(cfdata, ccnt_set[f], f)

\* The points of an answer are the n before sequence number q; it continues the
\* console's ring or replaces it.
ReplyPoints(r, n, q) ==
    /\ r.seqnum = [k \in 1 .. n |-> q - n + k - 1]
    /\ r.time = [k \in 1 .. n |-> q - n + k - 1]
    /\ \A j \in DOMAIN ServerFilters :
          /\ r.speeds[j] = [k \in 1 .. n |-> PackSpeed(Sample(ServerFilters[j], q - n + k - 1))]
          /\ CountAt(ServerFilters[j], q, r.bytes[j])

Follows(n, q) ==
    /\ q - n >= FirstSeq
    /\ n > 0 => q - n >= 1
    /\ n = MAXVALUES \/ cfdata.total_points = 0 \/ q - n = cfdata.next_seqnum

ReplyInv ==
    reply # NoReply =>
        \E n \in 0 .. MAXVALUES, q \in FirstSeq .. fdata.next_seqnum :
            ReplyPoints(reply, n, q) /\ Follows(n, q)

SyncInv == ServerInv /\ ConsoleInv /\ ReplyInv /\ MomSpeedRight /\ ConsoleSpeedCurrent

----------------------------------------------------------------------------
(***************************************************************************)
(* Arithmetic of the ring.                                                 *)
(***************************************************************************)
\* A number below the modulus is its own remainder; one turn is subtracted.
LEMMA RemainderSmall ==
    ASSUME NEW m \in Nat \ {0}, NEW x \in 0 .. m - 1
    PROVE  x % m = x
  BY SMT

LEMMA RemainderOnce ==
    ASSUME NEW m \in Nat \ {0}, NEW x \in m .. 2 * m - 1
    PROVE  x % m = x - m
  BY SMT

LEMMA RemainderSum ==
    ASSUME NEW m \in Nat \ {0}, NEW n \in 0 .. m - 1, NEW len \in 0 .. m
    PROVE  /\ n + len < m => (n + len) % m = n + len
           /\ n + len >= m => (n + len) % m = n + len - m
  BY SMT

LEMMA MaxNat == MAXVALUES \in Nat \ {0}
  BY SyncAssumption

LEMMA AgeType ==
    ASSUME NEW n \in Point, NEW p \in Point
    PROVE  Age(n, p) \in 1 .. MAXVALUES
  BY MaxNat DEF Age, Point

\* A smallest member exists.
LEMMA SmallestMember ==
    ASSUME NEW S \in SUBSET Nat, S # {}
    PROVE  Min(S) \in S /\ \A y \in S : Min(S) <= y
  <1>1. PICK x \in S : \A y \in S : ~ (<<y, x>> \in OpToRel(<, Nat))
    BY NatLessThanWellFounded, WFMin, Zenon
  <1>2. \A y \in S : ~ (y < x)
    BY <1>1 DEF OpToRel
  <1>3. \A y \in S : x <= y
    BY <1>2
  <1> QED BY <1>3 DEF Min

\* The i-th index of calc_start_last_index is a point, and how old it is.
LEMMA IndexAge ==
    ASSUME NEW d, RingInv(d), NEW i \in StartIndex(d) .. LastIndex(d) - 1
    PROVE  /\ i % MAXVALUES \in Point
           /\ Age(d.next_point, i % MAXVALUES) = LastIndex(d) - i
           /\ LastIndex(d) - i \in 1 .. d.total_points
  <1> DEFINE m == MAXVALUES  n == d.next_point  t == d.total_points
  <1>1. m \in Nat \ {0} /\ n \in 0 .. m - 1 /\ t \in 0 .. m /\ (t < m => n = t)
    BY MaxNat DEF RingInv, DataType, Point
  <1>2. CASE t < m
    <2>1. i \in 0 .. t - 1 /\ LastIndex(d) = t /\ n = t
      BY <1>1, <1>2 DEF StartIndex, LastIndex
    <2>2. i % m = i
      BY <1>1, <1>2, <2>1, RemainderSmall
    <2> QED BY <1>1, <1>2, <2>1, <2>2 DEF Age, Point
  <1>3. CASE t = m
    <2>1. i \in n .. n + m - 1 /\ LastIndex(d) = n + m
      BY <1>1, <1>3 DEF StartIndex, LastIndex
    <2>2. CASE i < m
      <3>1. i % m = i
        BY <1>1, <2>1, <2>2, RemainderSmall
      <3> QED BY <1>1, <1>3, <2>1, <2>2, <3>1 DEF Age, Point
    <2>3. CASE i >= m
      <3>1. i % m = i - m
        BY <1>1, <2>1, <2>3, RemainderOnce
      <3> QED BY <1>1, <1>3, <2>1, <2>3, <3>1 DEF Age, Point
    <2> QED BY <1>1, <2>1, <2>2, <2>3
  <1> QED BY <1>1, <1>2, <1>3

\* Entry of a difference of len entries from point n on that is put at point p.
Entry(n, p) == IF p >= n THEN p - n + 1 ELSE p - n + MAXVALUES + 1

\* When len points are appended, those that get an entry are as old as the entry,
\* the others have aged by len.
LEMMA AppendAge ==
    ASSUME NEW n \in Point, NEW p \in Point, NEW len \in 0 .. MAXVALUES
    PROVE  /\ Entry(n, p) \in 1 .. MAXVALUES
           /\ (n + len) % MAXVALUES \in Point
           /\ Entry(n, p) <= len => Age((n + len) % MAXVALUES, p) = len - Entry(n, p) + 1
           /\ Entry(n, p) > len => Age((n + len) % MAXVALUES, p) = Age(n, p) + len
  <1> DEFINE m == MAXVALUES
  <1>1. m \in Nat \ {0} /\ n \in 0 .. m - 1 /\ p \in 0 .. m - 1 /\ len \in 0 .. m
    BY MaxNat DEF Point
  <1>2. CASE n + len < m
    <2>1. (n + len) % m = n + len
      BY <1>1, <1>2, RemainderSmall
    <2> QED BY <1>1, <1>2, <2>1 DEF Age, Entry, Point
  <1>3. CASE n + len >= m
    <2>1. (n + len) % m = n + len - m
      BY <1>1, <1>3, RemainderSum
    <2>2. CASE p >= n
      <3>1. Entry(n, p) = p - n + 1 /\ Age(n + len - m, p) = n + len - p
        BY <1>1, <1>3, <2>2 DEF Age, Entry
      <3> QED BY <1>1, <1>3, <2>1, <2>2, <3>1 DEF Point
    <2>3. CASE p < n
      <3>1. Entry(n, p) = p - n + m + 1 /\ Age(n, p) = n - p
        BY <1>1, <1>3, <2>3 DEF Age, Entry
      <3>2. p - n + m + 1 <= len => Age(n + len - m, p) = n + len - m - p
        BY <1>1, <1>3, <2>3 DEF Age
      <3>3. p - n + m + 1 > len => Age(n + len - m, p) = n + len - p
        BY <1>1, <1>3, <2>3 DEF Age
      <3> QED BY <1>1, <1>3, <2>1, <2>3, <3>1, <3>2, <3>3 DEF Point
    <2> QED BY <1>1, <2>2, <2>3
  <1> QED BY <1>1, <1>2, <1>3

\* start_diffindex and diff_size of create_diff.
IsDiff(d, cur, start, size) ==
    /\ start = IF Newer(d, cur) = {} THEN 0 ELSE Min(Newer(d, cur))
    /\ size = IF Newer(d, cur) = {} THEN 0 ELSE LastIndex(d) - start

\* They select the latest size points, beginning after cur or, when cur is older
\* than the ring, with the oldest.
LatestPoints(d, cur, start, size) ==
    /\ size \in 0 .. d.total_points
    /\ size = 0 => d.total_points = 0 \/ d.next_seqnum - 1 <= cur
    /\ size > 0 => /\ cur < d.next_seqnum - size
                   /\ size = d.total_points \/ cur = d.next_seqnum - size - 1
    /\ \A k \in 1 .. size :
          /\ (start + k - 1) % MAXVALUES \in Point
          /\ Age(d.next_point, (start + k - 1) % MAXVALUES) = size - k + 1

LEMMA DiffFacts ==
    ASSUME NEW d, RingInv(d), NEW cur \in Nat, NEW start, NEW size, IsDiff(d, cur, start, size)
    PROVE  LatestPoints(d, cur, start, size)
  <1> DEFINE S == StartIndex(d)  L == LastIndex(d)  Q == d.next_seqnum  T == d.total_points
             newer == Newer(d, cur)
  <1>1. S \in Nat /\ L \in Nat /\ Q \in Nat /\ T \in 0 .. MAXVALUES /\ L - S = T
    BY MaxNat DEF RingInv, DataType, Point, StartIndex, LastIndex
  <1>2. \A i \in S .. L - 1 : d.seqnum[i % MAXVALUES] = Q - (L - i)
    <2> TAKE i \in S .. L - 1
    <2>1. /\ i % MAXVALUES \in Point
          /\ Age(d.next_point, i % MAXVALUES) = L - i
          /\ L - i \in 1 .. T
      BY IndexAge, Zenon
    <2>2. Age(d.next_point, i % MAXVALUES) <= T
      BY <1>1, <2>1
    <2> QED BY <2>1, <2>2, Zenon DEF RingInv
  <1>3. \A i : i \in newer <=> i \in S .. L - 1 /\ cur < d.seqnum[i % MAXVALUES]
    BY Zenon DEF Newer
  <1> HIDE DEF newer, S, L, Q, T
  <1>4. newer = {i \in S .. L - 1 : cur < Q - (L - i)}
    BY <1>1, <1>2, <1>3
  <1>5. \A i \in S .. L - 1 : /\ i % MAXVALUES \in Point
                              /\ Age(d.next_point, i % MAXVALUES) = L - i
    BY IndexAge, Zenon DEF S, L
  <1>6. CASE newer = {}
    <2>1. size = 0
      BY <1>6, Zenon DEF newer, IsDiff
    <2>2. T > 0 => L - 1 \in S .. L - 1 /\ L - 1 \notin newer
      BY <1>1, <1>6
    <2>3. T > 0 => Q - 1 <= cur
      BY <1>1, <1>4, <2>2
    <2>4. 0 \in 0 .. T /\ 1 .. 0 = {} /\ ~ (0 > 0)
      BY <1>1
    <2>5. T = 0 \/ Q - 1 <= cur
      BY <1>1, <2>3
    <2> QED BY <2>1, <2>4, <2>5, Zenon DEF Q, T, LatestPoints
  <1>7. CASE newer # {}
    <2>1. start = Min(newer) /\ size = L - start
      BY <1>7, Zenon DEF newer, L, IsDiff
    <2>2. newer \in SUBSET Nat
      BY <1>1, <1>4
    <2>3. start \in newer /\ \A y \in newer : start <= y
      BY <1>7, <2>1, <2>2, SmallestMember
    <2>4. start \in S .. L - 1 /\ cur < Q - (L - start)
      BY <1>4, <2>3
    <2>5. start > S => start - 1 \in S .. L - 1 /\ start - 1 \notin newer
      BY <1>1, <2>3, <2>4
    <2>6. start > S => ~ (cur < Q - (L - (start - 1)))
      BY <1>4, <2>5
    <2>7. size \in 1 .. T /\ cur < Q - size /\ (size = T \/ cur = Q - size - 1)
      BY <1>1, <2>1, <2>4, <2>6
    <2>8. \A k \in 1 .. size : start + k - 1 \in S .. L - 1 /\ L - (start + k - 1) = size - k + 1
      BY <1>1, <2>1, <2>4
    <2>9. \A k \in 1 .. size : /\ (start + k - 1) % MAXVALUES \in Point
                               /\ Age(d.next_point, (start + k - 1) % MAXVALUES) = size - k + 1
      BY <1>5, <2>8, Zenon
    <2>10. size \in 0 .. T /\ size # 0 /\ size > 0
      BY <1>1, <2>7
    <2> QED BY <2>7, <2>9, <2>10, Zenon DEF Q, T, LatestPoints
  <1> QED BY <1>6, <1>7

----------------------------------------------------------------------------
(***************************************************************************)
(* n points, the ones before sequence number q, are appended to a ring.    *)
(***************************************************************************)
Appended(d, e, n, q) ==
    /\ e.total_points = IF d.total_points + n < MAXVALUES THEN d.total_points + n
                                                          ELSE MAXVALUES
    /\ e.next_point = (d.next_point + n) % MAXVALUES
    /\ e.next_seqnum = q

\* The points continue the ring, or nothing of it is left.
Continues(d, n, q) ==
    n = MAXVALUES \/ d.total_points = 0 \/ q - n = d.next_seqnum

\* A point of the new ring is an appended one or was one of the old ring.
LEMMA AppendPoint ==
    ASSUME NEW d, RingInv(d), NEW n \in 1 .. MAXVALUES, NEW q \in Nat, q - n >= 0,
           NEW e, Appended(d, e, n, q), Continues(d, n, q),
           NEW p \in Point, Age(e.next_point, p) <= e.total_points
    PROVE  \/ /\ Entry(d.next_point, p) \in 1 .. n
              /\ q - n + Entry(d.next_point, p) - 1 = q - Age(e.next_point, p)
           \/ /\ ~ (Entry(d.next_point, p) <= n)
              /\ Age(d.next_point, p) <= d.total_points
              /\ d.next_seqnum - Age(d.next_point, p) = q - Age(e.next_point, p)
  <1> DEFINE m == MAXVALUES  N == d.next_point  T == d.total_points  Q == d.next_seqnum
             E == Entry(N, p)  A == Age(N, p)  B == Age(e.next_point, p)
  <1>1. m \in Nat \ {0} /\ N \in Point /\ T \in 0 .. m /\ Q \in Nat /\ n \in 0 .. MAXVALUES
    BY MaxNat DEF RingInv, DataType
  <1>2. /\ E \in 1 .. m
        /\ E <= n => B = n - E + 1
        /\ E > n => B = A + n
    <2>1. Age((N + n) % m, p) = B
      BY Zenon DEF Appended
    <2>2. /\ E \in 1 .. m
          /\ E <= n => Age((N + n) % m, p) = n - E + 1
          /\ E > n => Age((N + n) % m, p) = A + n
      BY <1>1, AppendAge, Zenon
    <2> HIDE DEF B, E, A
    <2> QED BY <2>1, <2>2, Zenon
  <1>3. A \in 1 .. m
    BY <1>1, AgeType
  <1>4. n = m \/ T = 0 \/ q - n = Q
    BY Zenon DEF Continues
  <1>5. e.total_points = IF T + n < m THEN T + n ELSE m
    BY Zenon DEF Appended
  <1> HIDE DEF E, A, B, N, T, Q, m
  <1>6. B <= e.total_points
    BY Zenon DEF B
  <1>7. n \in 1 .. m
    BY DEF m
  <1>8. \/ E \in 1 .. n /\ q - n + E - 1 = q - B
        \/ ~ (E <= n) /\ A <= T /\ Q - A = q - B
    BY <1>1, <1>2, <1>3, <1>4, <1>5, <1>6, <1>7
  <1> QED BY <1>8, Zenon DEF E, A, B, N, T, Q

LEMMA AppendType ==
    ASSUME NEW d, RingInv(d), NEW n \in 1 .. MAXVALUES, NEW q,
           NEW e, Appended(d, e, n, q)
    PROVE  /\ e.total_points \in 1 .. MAXVALUES /\ e.next_point \in Point
           /\ e.total_points < MAXVALUES => e.next_point = e.total_points
  <1> DEFINE m == MAXVALUES  N == d.next_point  T == d.total_points
  <1>1. m \in Nat \ {0} /\ N \in 0 .. m - 1 /\ T \in 0 .. m /\ (T < m => N = T)
    BY MaxNat DEF RingInv, DataType, Point
  <1>2. e.total_points = IF T + n < m THEN T + n ELSE m
    BY Zenon DEF Appended
  <1>3. e.next_point = (N + n) % m
    BY Zenon DEF Appended
  <1>4. (N + n) % m \in Point
    <2>1. N \in Point /\ n \in 0 .. MAXVALUES
      BY <1>1 DEF Point
    <2> QED BY <2>1, AppendAge, Zenon
  <1>5. e.total_points < m => (N + n) % m = N + n
    <2>1. e.total_points < m => N + n < m
      BY <1>1, <1>2
    <2>2. n \in 0 .. m
      BY <1>1
    <2> QED BY <1>1, <2>1, <2>2, RemainderSum
  <1>6. e.total_points < m => N + n = e.total_points
    BY <1>1, <1>2
  <1>7. e.total_points \in 1 .. m
    BY <1>1, <1>2
  <1> QED BY <1>3, <1>4, <1>5, <1>6, <1>7, Zenon

\* What Store puts at a point.
LEMMA StoreValue ==
    ASSUME NEW ring, NEW n, NEW entries, NEW p \in Point
    PROVE  /\ Entry(n, p) <= Len(entries) => Store(ring, n, entries)[p] = entries[Entry(n, p)]
           /\ ~ (Entry(n, p) <= Len(entries)) => Store(ring, n, entries)[p] = ring[p]
  BY Zenon DEF Store, Entry

\* One entry put at a point.
LEMMA StoreOne ==
    ASSUME NEW V, NEW ring \in [Point -> V], NEW n \in Point, NEW x,
           NEW es, Len(es) = 1, es[1] = x
    PROVE  [ring EXCEPT ![n] = x] = Store(ring, n, es)
  <1>2. \A p \in Point : /\ Entry(n, p) <= 1 <=> p = n
                         /\ p = n => Entry(n, p) = 1
    BY MaxNat DEF Entry, Point
  <1> HIDE DEF Entry
  <1>3. ASSUME NEW p \in Point
        PROVE  Store(ring, n, es)[p] = IF p = n THEN x ELSE ring[p]
    <2>1. /\ Entry(n, p) <= 1 => Store(ring, n, es)[p] = es[Entry(n, p)]
          /\ ~ (Entry(n, p) <= 1) => Store(ring, n, es)[p] = ring[p]
      BY Zenon DEF Store, Entry
    <2> QED BY <1>2, <2>1, SMT
  <1>4. Store(ring, n, es) = [p \in Point |-> Store(ring, n, es)[p]]
    BY SMT DEF Store
  <1> QED BY <1>3, <1>4

\* Rings of numbers stay so.
LEMMA StoreType ==
    ASSUME NEW V, NEW ring \in [Point -> V], NEW n \in Point, NEW len \in 0 .. MAXVALUES,
           NEW entries \in [1 .. len -> V]
    PROVE  Store(ring, n, entries) \in [Point -> V]
  <1>1. len \in Nat /\ Len(entries) = len
    BY MaxNat
  <1>2. ASSUME NEW p \in Point PROVE Store(ring, n, entries)[p] \in V
    <2>1. Entry(n, p) \in 1 .. MAXVALUES
      BY AppendAge
    <2>2. Entry(n, p) <= len => Entry(n, p) \in 1 .. len
      BY <1>1, <2>1, MaxNat
    <2>3. /\ Entry(n, p) <= len => Store(ring, n, entries)[p] = entries[Entry(n, p)]
          /\ ~ (Entry(n, p) <= len) => Store(ring, n, entries)[p] = ring[p]
      BY <1>1, StoreValue, SMT
    <2> QED BY <2>2, <2>3
  <1>3. Store(ring, n, entries) = [p \in Point |-> Store(ring, n, entries)[p]]
    BY SMT DEF Store
  <1> QED BY <1>2, <1>3

\* The ring stays a ring of consecutive sequence numbers.
LEMMA RingAppend ==
    ASSUME NEW d, RingInv(d), NEW n \in 1 .. MAXVALUES, NEW q \in Nat, q - n >= 0,
           NEW e, Appended(d, e, n, q), Continues(d, n, q), NEW tp, NEW np,
           NEW es, es = [k \in 1 .. n |-> q - n + k - 1],
           e = [total_points |-> tp, next_point |-> np, next_seqnum |-> q,
                seqnum |-> Store(d.seqnum, d.next_point, es),
                time |-> Store(d.time, d.next_point, es)]
    PROVE  RingInv(e)
  <1>1. /\ tp \in 1 .. MAXVALUES /\ np \in Point
        /\ e.total_points < MAXVALUES => e.next_point = e.total_points
    BY AppendType
  <1>2. es \in [1 .. n -> Nat] /\ n \in 0 .. MAXVALUES /\ n \in Nat
        /\ \A k \in 1 .. n : es[k] = q - n + k - 1
    BY MaxNat
  <1>3. /\ d.seqnum \in [Point -> Nat] /\ d.time \in [Point -> Nat] /\ d.next_point \in Point
    BY DEF RingInv, DataType
  <1>4. e.seqnum \in [Point -> Nat] /\ e.time \in [Point -> Nat]
    BY <1>2, <1>3, StoreType
  <1>5. e \in DataType
    BY <1>1, <1>4, MaxNat DEF DataType
  <1>6. ASSUME NEW p \in Point, Age(e.next_point, p) <= e.total_points
        PROVE  /\ e.seqnum[p] = e.next_seqnum - Age(e.next_point, p)
               /\ e.time[p] = e.next_seqnum - Age(e.next_point, p)
    <2>1. \/ /\ Entry(d.next_point, p) \in 1 .. n
             /\ q - n + Entry(d.next_point, p) - 1 = q - Age(e.next_point, p)
          \/ /\ ~ (Entry(d.next_point, p) <= n)
             /\ Age(d.next_point, p) <= d.total_points
             /\ d.next_seqnum - Age(d.next_point, p) = q - Age(e.next_point, p)
      BY <1>6, AppendPoint
    <2>2. Len(es) = n
      BY <1>2
    <2>3. /\ Entry(d.next_point, p) <= n => /\ e.seqnum[p] = es[Entry(d.next_point, p)]
                                           /\ e.time[p] = es[Entry(d.next_point, p)]
          /\ ~ (Entry(d.next_point, p) <= n) => /\ e.seqnum[p] = d.seqnum[p]
                                               /\ e.time[p] = d.time[p]
      <3>1. e.seqnum = Store(d.seqnum, d.next_point, es) /\ e.time = Store(d.time, d.next_point, es)
        OBVIOUS
      <3> QED BY <1>2, <2>2, <3>1, StoreValue, SMT
    <2>4. Entry(d.next_point, p) \in 1 .. n => Entry(d.next_point, p) <= n
      BY <1>2
    <2>5. Age(d.next_point, p) <= d.total_points =>
             /\ d.seqnum[p] = d.next_seqnum - Age(d.next_point, p)
             /\ d.time[p] = d.next_seqnum - Age(d.next_point, p)
      BY DEF RingInv
    <2>6. e.next_seqnum = q
      OBVIOUS
    <2> QED BY <1>2, <2>1, <2>3, <2>4, <2>5, <2>6, Zenon
  <1> QED BY <1>1, <1>5, <1>6, Zenon DEF RingInv

\* The speeds of a filter keep agreeing with the sequence numbers.
LEMMA SpeedsAppend ==
    ASSUME NEW d, RingInv(d), NEW n \in 1 .. MAXVALUES, NEW q \in Nat, q - n >= 0,
           NEW e, Appended(d, e, n, q), Continues(d, n, q),
           NEW f, NEW ring, SpeedsInv(d, ring, f),
           NEW es, es = [k \in 1 .. n |-> PackSpeed(Sample(f, q - n + k - 1))]
    PROVE  SpeedsInv(e, Store(ring, d.next_point, es), f)
  <1>1. n \in Nat /\ Len(es) = n
        /\ \A k \in 1 .. n : es[k] = PackSpeed(Sample(f, q - n + k - 1))
    BY MaxNat
  <1>2. ASSUME NEW p \in Point, Age(e.next_point, p) <= e.total_points
        PROVE  Store(ring, d.next_point, es)[p]
                 = PackSpeed(Sample(f, e.next_seqnum - Age(e.next_point, p)))
    <2>1. \/ /\ Entry(d.next_point, p) \in 1 .. n
             /\ q - n + Entry(d.next_point, p) - 1 = q - Age(e.next_point, p)
          \/ /\ ~ (Entry(d.next_point, p) <= n)
             /\ Age(d.next_point, p) <= d.total_points
             /\ d.next_seqnum - Age(d.next_point, p) = q - Age(e.next_point, p)
      BY <1>2, AppendPoint
    <2>2. /\ Entry(d.next_point, p) <= n =>
                Store(ring, d.next_point, es)[p] = es[Entry(d.next_point, p)]
          /\ ~ (Entry(d.next_point, p) <= n) => Store(ring, d.next_point, es)[p] = ring[p]
      BY <1>1, StoreValue, SMT
    <2>3. Entry(d.next_point, p) \in 1 .. n => Entry(d.next_point, p) <= n
      BY <1>1
    <2>4. Age(d.next_point, p) <= d.total_points =>
             ring[p] = PackSpeed(Sample(f, d.next_seqnum - Age(d.next_point, p)))
      BY Zenon DEF SpeedsInv
    <2>5. e.next_seqnum = q
      BY Zenon DEF Appended
    <2> QED BY <1>1, <2>1, <2>2, <2>3, <2>4, <2>5, Zenon
  <1> QED BY <1>2, Zenon DEF SpeedsInv

----------------------------------------------------------------------------
(***************************************************************************)
(* The momentary speed.                                                    *)
(***************************************************************************)
\* The point do_refresh looks at c points back.
BackPoint(d, c) == IF d.next_point >= c THEN d.next_point - c
                                        ELSE (d.total_points + d.next_point) - c

LEMMA BackAge ==
    ASSUME NEW d, RingInv(d), NEW c \in 1 .. 4, c <= d.total_points
    PROVE  /\ BackPoint(d, c) \in Point /\ BackPoint(d, c) # d.next_point
           /\ Age(d.next_point, BackPoint(d, c)) = c
  <1> DEFINE m == MAXVALUES  N == d.next_point  T == d.total_points
  <1>1. m \in Nat /\ m >= 5 /\ N \in 0 .. m - 1 /\ T \in 0 .. m /\ (T < m => N = T)
    BY SyncAssumption DEF RingInv, DataType, Point
  <1>2. BackPoint(d, c) = IF N >= c THEN N - c ELSE N + m - c
    BY <1>1 DEF BackPoint
  <1> QED BY <1>1, <1>2 DEF Age, Point

\* The stored speed c points back, as do_refresh reads it after it has stored
\* the new one.
BackSpeed(d, f, c) == IF c <= d.total_points THEN Stored(f, d.next_seqnum - c) ELSE 0

LEMMA BackValue ==
    ASSUME NEW d, RingInv(d), NEW f, NEW ring \in [Point -> Int], SpeedsInv(d, ring, f),
           NEW x, NEW c \in 1 .. 4
    PROVE  (IF c <= d.total_points
              THEN UnpackSpeed([ring EXCEPT ![d.next_point] = x][BackPoint(d, c)]) ELSE 0)
             = BackSpeed(d, f, c)
  <1>1. CASE c <= d.total_points
    <2>1. /\ BackPoint(d, c) \in Point /\ BackPoint(d, c) # d.next_point
          /\ Age(d.next_point, BackPoint(d, c)) = c
      BY <1>1, BackAge
    <2>2. [ring EXCEPT ![d.next_point] = x][BackPoint(d, c)] = ring[BackPoint(d, c)]
      BY <2>1
    <2>3. ring[BackPoint(d, c)] = PackSpeed(Sample(f, d.next_seqnum - c))
      BY <1>1, <2>1, Zenon DEF SpeedsInv
    <2>4. UnpackSpeed([ring EXCEPT ![d.next_point] = x][BackPoint(d, c)])
            = Stored(f, d.next_seqnum - c)
      BY <2>2, <2>3, SMT DEF Stored
    <2>5. BackSpeed(d, f, c) = Stored(f, d.next_seqnum - c)
      BY <1>1, Zenon DEF BackSpeed
    <2> QED BY <1>1, <2>4, <2>5, SMT
  <1>2. CASE ~ (c <= d.total_points)
    BY <1>2, Zenon DEF BackSpeed
  <1> QED BY <1>1, <1>2, Zenon

\* A ring with one entry replaced.
Put(ring, n, x) == [ring EXCEPT ![n] = x]

BackAverage(d, f, speed) ==
    (speed + BackSpeed(d, f, 1) + BackSpeed(d, f, 2) + BackSpeed(d, f, 3) + BackSpeed(d, f, 4))
      \div (IF d.total_points < 4 THEN d.total_points + 1 ELSE 5)

LEMMA MomSpeedValue ==
    ASSUME NEW d, RingInv(d), NEW f, NEW ring \in [Point -> Int], SpeedsInv(d, ring, f),
           NEW x, NEW speed, NEW r, r = Put(ring, d.next_point, x)
    PROVE  MomSpeed(r, speed, d.total_points, d.next_point) = BackAverage(d, f, speed)
  <1> DEFINE Read(c) == IF c <= d.total_points THEN UnpackSpeed(r[BackPoint(d, c)]) ELSE 0
  <1>1. /\ Read(1) = BackSpeed(d, f, 1) /\ Read(2) = BackSpeed(d, f, 2)
        /\ Read(3) = BackSpeed(d, f, 3) /\ Read(4) = BackSpeed(d, f, 4)
    <2>1. 1 \in 1 .. 4 /\ 2 \in 1 .. 4 /\ 3 \in 1 .. 4 /\ 4 \in 1 .. 4
      OBVIOUS
    <2>2. \A c \in 1 .. 4 : (IF c <= d.total_points
              THEN UnpackSpeed([ring EXCEPT ![d.next_point] = x][BackPoint(d, c)]) ELSE 0)
                = BackSpeed(d, f, c)
      BY BackValue, Zenon
    <2>3. \A c \in 1 .. 4 : Read(c) = BackSpeed(d, f, c)
      BY <2>2, Zenon DEF Put
    <2> QED BY <2>1, <2>3, Zenon
  <1>2. MomSpeed(r, speed, d.total_points, d.next_point)
          = (speed + Read(1) + Read(2) + Read(3) + Read(4))
              \div (IF d.total_points < 4 THEN d.total_points + 1 ELSE 5)
    BY Zenon DEF MomSpeed, BackPoint
  <1> HIDE DEF Read
  <1>3. MomSpeed(r, speed, d.total_points, d.next_point)
             = (speed + BackSpeed(d, f, 1) + BackSpeed(d, f, 2) + BackSpeed(d, f, 3)
                  + BackSpeed(d, f, 4))
                 \div (IF d.total_points < 4 THEN d.total_points + 1 ELSE 5)
    BY <1>1, <1>2, Zenon
  <1> QED BY <1>3, Zenon DEF BackAverage

----------------------------------------------------------------------------
(***************************************************************************)
(* The steps of the service.                                               *)
(***************************************************************************)
LEMMA SampleNat ==
    ASSUME NEW f \in Range(ServerFilters), NEW s \in FirstSeq .. MaxSeq
    PROVE  /\ Total(f, s) \in Nat /\ Total(f, s + 1) \in Nat
           /\ Sample(f, s) \in Nat /\ PackSpeed(Sample(f, s)) \in Int
  <1>1. /\ s \in FirstSeq .. MaxSeq + 1 /\ s + 1 \in FirstSeq .. MaxSeq + 1
        /\ REFRESH_INTERVAL \in Nat \ {0}
    BY SyncAssumption
  <1>2. Total(f, s) \in Nat /\ Total(f, s + 1) \in Nat
    BY <1>1, SyncAssumption
  <1>3. ASSUME NEW x \in Nat, NEW y \in Nat PROVE Speed(x - y) \in Nat
    <2> DEFINE a == IF x - y < 0 THEN -(x - y) ELSE x - y
    <2>1. a \in Nat
      OBVIOUS
    <2>2. \A b \in Nat : b \div REFRESH_INTERVAL \in Nat
      BY <1>1
    <2> QED BY <2>1, <2>2, Zenon DEF Speed
  <1>4. Sample(f, s) \in Nat
    BY <1>2, <1>3, Zenon DEF Sample
  <1> QED BY <1>2, <1>4, PackInt

\* goto_next_point of the service appends one point.
LEMMA GotoNext ==
    ASSUME NEW d, RingInv(d), NEW e, e = GotoNextPoint(d, d.next_seqnum, 0)
    PROVE  /\ Appended(d, e, 1, d.next_seqnum + 1)
           /\ RingInv(e)
  <1> DEFINE N == d.next_point  Q == d.next_seqnum  T == d.total_points  m == MAXVALUES
             es == [k \in 1 .. 1 |-> (Q + 1) - 1 + k - 1]
             tp == IF T < m THEN T + 1 ELSE T
             np == IF N >= m - 1 THEN 0 ELSE N + 1
  <1>1. /\ m \in Nat \ {0} /\ N \in 0 .. m - 1 /\ N \in Point /\ T \in 0 .. m /\ Q \in Nat
        /\ d.seqnum \in [Point -> Nat] /\ d.time \in [Point -> Nat]
    BY MaxNat DEF RingInv, DataType, Point
  <1>2. es = [k \in 1 .. 1 |-> Q]
    BY <1>1
  <1>3. /\ [d.seqnum EXCEPT ![N] = Q] = Store(d.seqnum, N, es)
        /\ [d.time EXCEPT ![N] = Q] = Store(d.time, N, es)
    <2>1. Len(es) = 1 /\ es[1] = Q
      BY <1>2
    <2> HIDE DEF es
    <2> QED BY <1>1, <2>1, StoreOne, Zenon
  <1>4. e = [total_points |-> tp, next_point |-> np, next_seqnum |-> Q + 1,
             seqnum |-> [d.seqnum EXCEPT ![N] = Q],
             time |-> [d.time EXCEPT ![N] = Q]]
    BY SMT DEF GotoNextPoint
  <1> HIDE DEF es
  <1>5. e = [total_points |-> tp, next_point |-> np, next_seqnum |-> Q + 1,
             seqnum |-> Store(d.seqnum, d.next_point, es),
             time |-> Store(d.time, d.next_point, es)]
    BY <1>3, <1>4, Zenon
  <1>6. /\ N + 1 < m => (N + 1) % m = N + 1
        /\ N + 1 >= m => (N + 1) % m = N + 1 - m
    BY <1>1, RemainderSum
  <1>7. np = (N + 1) % m /\ tp = IF T + 1 < m THEN T + 1 ELSE m
    BY <1>1, <1>6
  <1>8. e.total_points = tp /\ e.next_point = np /\ e.next_seqnum = Q + 1
    BY <1>4
  <1>9. Appended(d, e, 1, Q + 1)
    BY <1>7, <1>8, Zenon DEF Appended
  <1>10. Q + 1 \in Nat /\ (Q + 1) - 1 >= 0 /\ (Q + 1) - 1 = Q /\ 1 \in 1 .. MAXVALUES
    BY <1>1
  <1>11. Continues(d, 1, Q + 1)
    BY <1>10 DEF Continues
  <1> HIDE DEF tp, np
  <1>12. RingInv(e)
    <2>1. PICK q \in Nat : q = Q + 1
      BY <1>10
    <2>2. es = [k \in 1 .. 1 |-> q - 1 + k - 1]
      BY <1>1, <2>1 DEF es
    <2>3. q - 1 >= 0 /\ Appended(d, e, 1, q) /\ Continues(d, 1, q)
      BY <1>9, <1>10, <1>11, <2>1
    <2>4. e = [total_points |-> tp, next_point |-> np, next_seqnum |-> q,
               seqnum |-> Store(d.seqnum, d.next_point, es),
               time |-> Store(d.time, d.next_point, es)]
      BY <1>5, <2>1
    <2> QED BY <1>10, <2>2, <2>3, <2>4, RingAppend, Zenon
  <1> QED BY <1>9, <1>12

\* The average of do_refresh is that of the points up to the new one.
LEMMA AverageNext ==
    ASSUME NEW d, RingInv(d), NEW e, Appended(d, e, 1, d.next_seqnum + 1), NEW f
    PROVE  Average(f, e.next_seqnum - 1, e.total_points)
             = BackAverage(d, f, Sample(f, d.next_seqnum))
  <1> DEFINE m == MAXVALUES  T == d.total_points  Q == d.next_seqnum
             n == e.total_points  cur == e.next_seqnum - 1
             Before(c) == IF c < n THEN Stored(f, cur - c) ELSE 0
  <1>1. m \in Nat /\ m >= 5 /\ T \in 0 .. m /\ Q \in Nat
    BY SyncAssumption DEF RingInv, DataType
  <1>2. n = (IF T + 1 < m THEN T + 1 ELSE m) /\ e.next_seqnum = Q + 1
    BY Zenon DEF Appended
  <1>3. cur = Q /\ (IF n < 5 THEN n ELSE 5) = IF T < 4 THEN T + 1 ELSE 5
    BY <1>1, <1>2
  <1>4. \A c \in {1, 2, 3, 4} : c < n <=> c <= T
    BY <1>1, <1>2
  <1>5. \A c \in {1, 2, 3, 4} : Before(c) = BackSpeed(d, f, c)
    BY <1>3, <1>4, Zenon DEF BackSpeed
  <1>6. Average(f, cur, n) = (Sample(f, cur) + Before(1) + Before(2) + Before(3) + Before(4))
                               \div (IF n < 5 THEN n ELSE 5)
    BY Zenon DEF Average
  <1>7. /\ Before(1) = BackSpeed(d, f, 1) /\ Before(2) = BackSpeed(d, f, 2)
        /\ Before(3) = BackSpeed(d, f, 3) /\ Before(4) = BackSpeed(d, f, 4)
    BY <1>5
  <1> HIDE DEF Before, n, cur
  <1>8. Average(f, cur, n) = (Sample(f, Q) + BackSpeed(d, f, 1) + BackSpeed(d, f, 2)
                                + BackSpeed(d, f, 3) + BackSpeed(d, f, 4))
                               \div (IF T < 4 THEN T + 1 ELSE 5)
    BY <1>3, <1>6, <1>7, Zenon
  <1> QED BY <1>8, Zenon DEF n, cur, BackAverage

\* Counting changes a count to that of the next point.
LEMMA CountStep ==
    ASSUME SyncInv, NEW g \in Range(ServerFilters), Count(g)
    PROVE  SyncInv'
  <1> DEFINE s == fdata.next_seqnum
  <1>1. /\ fdata' = fdata /\ cnt_set' = cnt_set /\ momspeed' = momspeed /\ cnt_prev' = cnt_prev
        /\ cfdata' = cfdata /\ ccnt_set' = ccnt_set /\ cspeed' = cspeed /\ ccnt' = ccnt
        /\ reply' = reply
    BY DEF Count, consoleVars
  <1>2. s \in FirstSeq .. MaxSeq /\ cnt \in [Range(ServerFilters) -> Nat]
    BY DEF SyncInv, ServerInv
  <1>3. Total(g, s + 1) \in Nat
    BY <1>2, SampleNat, Zenon
  <1>4. cnt' = [cnt EXCEPT ![g] = Total(g, s + 1)]
    BY DEF Count
  <1>5. cnt' \in [Range(ServerFilters) -> Nat]
    BY <1>2, <1>3, <1>4
  <1>6. \A f \in Range(ServerFilters) : CountAt(f, s, cnt'[f])
    <2> TAKE f \in Range(ServerFilters)
    <2>1. f = g => cnt'[f] = Total(f, s + 1)
      BY <1>2, <1>4
    <2>2. f # g => cnt'[f] = cnt[f]
      BY <1>2, <1>4
    <2>3. CountAt(f, s, cnt[f])
      BY Zenon DEF SyncInv, ServerInv
    <2> QED BY <2>1, <2>2, <2>3, Zenon DEF CountAt
  <1>7. ServerInv'
    BY <1>1, <1>5, <1>6, Zenon DEF SyncInv, ServerInv
  <1>8. ConsoleInv' /\ MomSpeedRight' /\ ConsoleSpeedCurrent'
    BY <1>1, Zenon DEF SyncInv, ConsoleInv, MomSpeedRight, ConsoleSpeedCurrent
  <1>9. ReplyInv'
    BY <1>1, Zenon DEF SyncInv, ReplyInv, Follows
  <1> QED BY <1>7, <1>8, <1>9 DEF SyncInv

\* The refresh appends the point with the speeds since the one before it.
LEMMA RefreshStep ==
    ASSUME SyncInv, Refresh
    PROVE  SyncInv'
  <1> DEFINE Q == fdata.next_seqnum  N == fdata.next_point  T == fdata.total_points
             F == Range(ServerFilters)
  <1>1. /\ RingInv(fdata) /\ Q \in FirstSeq .. MaxSeq
        /\ T <= Q - FirstSeq /\ (T < MAXVALUES => T = Q - FirstSeq)
        /\ cnt_set \in [F -> [Point -> Int]] /\ cnt \in [F -> Nat]
        /\ cnt_prev = [f \in F |-> Total(f, Q)]
        /\ \A f \in F : SpeedsInv(fdata, cnt_set[f], f)
    BY Zenon DEF SyncInv, ServerInv
  <1>2. N \in Point /\ T \in 0 .. MAXVALUES /\ Q \in Nat /\ FirstSeq \in Nat /\ MaxSeq \in Nat
        /\ MAXVALUES \in Nat \ {0}
    BY <1>1, MaxNat, SyncAssumption DEF RingInv, DataType
  <1>3. /\ Q < MaxSeq /\ cnt' = cnt /\ cnt_prev' = cnt
        /\ fdata' = GotoNextPoint(fdata, Q, 0)
        /\ cfdata' = cfdata /\ ccnt_set' = ccnt_set /\ cspeed' = cspeed /\ ccnt' = ccnt
        /\ reply' = reply
    BY DEF Refresh, consoleVars
  <1>4. \A f \in F : cnt[f] = Total(f, Q + 1)
    BY <1>1 DEF Refresh
  <1>5. /\ cnt_set' = [f \in F |-> [cnt_set[f] EXCEPT ![N] = PackSpeed(Speed(cnt[f] - cnt_prev[f]))]]
        /\ momspeed' = [f \in F |-> MomSpeed(cnt_set'[f], Speed(cnt[f] - cnt_prev[f]), T, N)]
    BY <1>1 DEF Refresh
  <1>6. \A f \in F : Speed(cnt[f] - cnt_prev[f]) = Sample(f, Q)
    BY <1>1, <1>4 DEF Sample
  <1>7. Appended(fdata, fdata', 1, Q + 1) /\ RingInv(fdata')
    BY <1>1, <1>3, GotoNext, Zenon
  <1>8. /\ fdata'.next_seqnum = Q + 1
        /\ fdata'.total_points = IF T + 1 < MAXVALUES THEN T + 1 ELSE MAXVALUES
    BY <1>7, Zenon DEF Appended
  <1>9. /\ fdata'.next_seqnum \in FirstSeq .. MaxSeq
        /\ fdata'.total_points <= fdata'.next_seqnum - FirstSeq
        /\ fdata'.total_points < MAXVALUES => fdata'.total_points = fdata'.next_seqnum - FirstSeq
    BY <1>1, <1>2, <1>3, <1>8
  <1>10. \A f \in F : PackSpeed(Sample(f, Q)) \in Int
    BY <1>1, SampleNat, Zenon
  <1>11. \A f \in F : cnt_set'[f] = [cnt_set[f] EXCEPT ![N] = PackSpeed(Sample(f, Q))]
    BY <1>5, <1>6
  <1>12. cnt_set' \in [F -> [Point -> Int]]
    <2>1. \A f \in F : cnt_set'[f] \in [Point -> Int]
      BY <1>1, <1>2, <1>10, <1>11
    <2> QED BY <1>5, <2>1
  <1>13. ASSUME NEW f \in F PROVE SpeedsInv(fdata', cnt_set'[f], f)
    <2>1. PICK q \in Nat : q = Q + 1
      BY <1>2
    <2>2. PICK es : es = [k \in 1 .. 1 |-> PackSpeed(Sample(f, q - 1 + k - 1))]
      OBVIOUS
    <2>3. Len(es) = 1 /\ es[1] = PackSpeed(Sample(f, q - 1 + 1 - 1))
      BY <2>2
    <2>4. q - 1 + 1 - 1 = Q /\ q - 1 = Q /\ q - 1 >= 0 /\ 1 \in 1 .. MAXVALUES
      BY <1>2, <2>1
    <2>5. cnt_set[f] \in [Point -> Int] /\ SpeedsInv(fdata, cnt_set[f], f)
      BY <1>1
    <2>6. es[1] = PackSpeed(Sample(f, Q))
      BY <2>3, <2>4, Zenon
    <2>7. cnt_set'[f] = Store(cnt_set[f], N, es)
      <3>1. [cnt_set[f] EXCEPT ![N] = PackSpeed(Sample(f, Q))] = Store(cnt_set[f], N, es)
        <4>1. PICK x : x = PackSpeed(Sample(f, Q))
          OBVIOUS
        <4>2. PICK ring \in [Point -> Int] : ring = cnt_set[f]
          BY <2>5
        <4>3. Len(es) = 1 /\ es[1] = x
          BY <2>3, <2>6, <4>1
        <4>4. [ring EXCEPT ![N] = x] = Store(ring, N, es)
          BY <1>2, <4>3, StoreOne
        <4> QED BY <4>1, <4>2, <4>4
      <3> QED BY <1>11, <3>1, Zenon
    <2>8. Appended(fdata, fdata', 1, q) /\ Continues(fdata, 1, q)
      BY <1>7, <2>1, <2>4, Zenon DEF Continues
    <2>9. SpeedsInv(fdata', Store(cnt_set[f], N, es), f)
      BY <1>1, <2>2, <2>4, <2>5, <2>8, SpeedsAppend, Zenon
    <2> QED BY <2>7, <2>9, Zenon
  <1>14. cnt_prev' = [f \in F |-> Total(f, fdata'.next_seqnum)]
    <2>1. cnt = [f \in F |-> cnt[f]]
      BY <1>1
    <2> QED BY <1>3, <1>4, <1>8, <2>1
  <1>15. \A f \in F : CountAt(f, fdata'.next_seqnum, cnt'[f])
    BY <1>3, <1>4, <1>8, Zenon DEF CountAt
  <1>16. ServerInv'
    BY <1>1, <1>3, <1>7, <1>9, <1>12, <1>13, <1>14, <1>15, Zenon DEF ServerInv
  <1>17. ASSUME NEW f \in F
         PROVE  momspeed'[f] = Average(f, fdata'.next_seqnum - 1, fdata'.total_points)
    <2>1. momspeed'[f] = MomSpeed([cnt_set[f] EXCEPT ![N] = PackSpeed(Sample(f, Q))],
                                  Sample(f, Q), T, N)
      <3>1. momspeed'[f] = MomSpeed(cnt_set'[f], Speed(cnt[f] - cnt_prev[f]), T, N)
        BY <1>5
      <3> QED BY <1>6, <1>11, <3>1, Zenon
    <2>2. cnt_set[f] \in [Point -> Int] /\ SpeedsInv(fdata, cnt_set[f], f)
      BY <1>1
    <2>3. MomSpeed([cnt_set[f] EXCEPT ![N] = PackSpeed(Sample(f, Q))], Sample(f, Q), T, N)
            = BackAverage(fdata, f, Sample(f, Q))
      <3>1. PICK x : x = PackSpeed(Sample(f, Q))
        OBVIOUS
      <3>2. PICK ring \in [Point -> Int] : ring = cnt_set[f]
        BY <2>2
      <3>4. RingInv(fdata) /\ SpeedsInv(fdata, ring, f)
        BY <1>1, <3>2
      <3>5. PICK r : r = Put(ring, N, x)
        OBVIOUS
      <3>3. MomSpeed(r, Sample(f, Q), T, N)
              = BackAverage(fdata, f, Sample(f, Q))
        BY <3>4, <3>5, MomSpeedValue, Zenon
      <3> QED BY <3>1, <3>2, <3>3, <3>5, Zenon DEF Put
    <2>4. Average(f, fdata'.next_seqnum - 1, fdata'.total_points)
            = BackAverage(fdata, f, Sample(f, Q))
      BY <1>1, <1>7, AverageNext, Zenon
    <2> QED BY <2>1, <2>3, <2>4, Zenon
  <1>18. MomSpeedRight'
    BY <1>17, Zenon DEF MomSpeedRight
  <1>19. ConsoleInv'
    <2>1. cfdata.total_points > 0 => cfdata.next_seqnum <= Q
      BY Zenon DEF SyncInv, ConsoleInv
    <2>2. cfdata.next_seqnum \in Nat
      BY DEF SyncInv, ConsoleInv, RingInv, DataType
    <2>3. cfdata.total_points > 0 => cfdata.next_seqnum <= fdata'.next_seqnum
      BY <1>2, <1>8, <2>1, <2>2
    <2> QED BY <1>3, <2>3, Zenon DEF SyncInv, ConsoleInv
  <1>20. ReplyInv'
    <2> SUFFICES ASSUME reply # NoReply
                 PROVE  \E n \in 0 .. MAXVALUES : \E q \in FirstSeq .. fdata'.next_seqnum :
                            ReplyPoints(reply, n, q) /\ Follows(n, q)'
      BY <1>3, Zenon DEF ReplyInv
    <2>1. PICK n \in 0 .. MAXVALUES : \E q \in FirstSeq .. Q : ReplyPoints(reply, n, q) /\ Follows(n, q)
      BY Zenon DEF SyncInv, ReplyInv
    <2>2. PICK q \in FirstSeq .. Q : ReplyPoints(reply, n, q) /\ Follows(n, q)
      BY <2>1
    <2>3. q \in FirstSeq .. fdata'.next_seqnum
      BY <1>2, <1>8
    <2>4. Follows(n, q)'
      BY <1>3, <2>2, Zenon DEF Follows
    <2> QED BY <2>2, <2>3, <2>4, Zenon
  <1>21. ConsoleSpeedCurrent'
    BY <1>3, Zenon DEF SyncInv, ConsoleSpeedCurrent
  <1> QED BY <1>16, <1>18, <1>19, <1>20, <1>21 DEF SyncInv

----------------------------------------------------------------------------
(***************************************************************************)
(* The answer: it holds the latest points and follows the console's.       *)
(***************************************************************************)
LEMMA FillStep ==
    ASSUME SyncInv, FillFromFilterset
    PROVE  SyncInv'
  <1> DEFINE Q == fdata.next_seqnum  T == fdata.total_points
             cQ == cfdata.next_seqnum  cT == cfdata.total_points
             cur == CurrentSeqnum(cfdata)
             newer == Newer(fdata, cur)
             F == Range(ServerFilters)
  <1>1. PICK start : start = IF newer = {} THEN 0 ELSE Min(newer)
    OBVIOUS
  <1>2. PICK size : size = IF newer = {} THEN 0 ELSE LastIndex(fdata) - start
    OBVIOUS
  <1>3. /\ RingInv(fdata) /\ Q \in FirstSeq .. MaxSeq
        /\ T <= Q - FirstSeq /\ (T < MAXVALUES => T = Q - FirstSeq)
        /\ \A f \in F : SpeedsInv(fdata, cnt_set[f], f) /\ CountAt(f, Q, cnt[f])
    BY Zenon DEF SyncInv, ServerInv
  <1>4. /\ cQ \in Nat /\ cT \in 0 .. MAXVALUES /\ (cT = 0 => cQ = 0)
        /\ cT > 0 => cQ - cT >= FirstSeq /\ cQ <= Q
    BY Zenon DEF SyncInv, ConsoleInv, RingInv, DataType
  <1>5. /\ MAXVALUES \in Nat \ {0} /\ FirstSeq \in Nat /\ MaxSeq \in Nat
        /\ Q \in Nat /\ T \in 0 .. MAXVALUES
    BY <1>3, MaxNat, SyncAssumption DEF RingInv, DataType
  <1>6. cur = IF cQ = 0 THEN 0 ELSE cQ - 1
    BY Zenon DEF CurrentSeqnum
  <1>7. cur \in Nat
    BY <1>4, <1>6
  <1>8. /\ size \in 0 .. T
        /\ size = 0 => T = 0 \/ Q - 1 <= cur
        /\ size > 0 => cur < Q - size /\ (size = T \/ cur = Q - size - 1)
        /\ \A k \in 1 .. size :
              /\ (start + k - 1) % MAXVALUES \in Point
              /\ Age(fdata.next_point, (start + k - 1) % MAXVALUES) = size - k + 1
    <2>1. IsDiff(fdata, cur, start, size)
      BY <1>1, <1>2, Zenon DEF IsDiff
    <2> HIDE DEF cur
    <2>2. LatestPoints(fdata, cur, start, size)
      BY <1>3, <1>7, <2>1, DiffFacts, Zenon
    <2> QED BY <2>2, Zenon DEF LatestPoints
  <1>9. /\ serverVars' = serverVars /\ consoleVars' = consoleVars
        /\ reply' = [seqnum |-> Select(fdata.seqnum, start, size),
                     time |-> Select(fdata.time, start, size),
                     bytes |-> [k \in DOMAIN ServerFilters |-> cnt[ServerFilters[k]]],
                     speeds |-> [k \in DOMAIN ServerFilters |->
                                    Select(cnt_set[ServerFilters[k]], start, size)]]
    BY <1>1, <1>2, Zenon DEF FillFromFilterset
  <1> HIDE DEF cur, newer
  <1>10. /\ fdata' = fdata /\ cnt_set' = cnt_set /\ momspeed' = momspeed /\ cnt' = cnt
         /\ cnt_prev' = cnt_prev /\ cfdata' = cfdata /\ ccnt_set' = ccnt_set
         /\ cspeed' = cspeed /\ ccnt' = ccnt
    BY <1>9 DEF serverVars, consoleVars
  <1>11. size \in 0 .. MAXVALUES /\ Q - size >= FirstSeq /\ (size > 0 => Q - size >= 1)
    BY <1>3, <1>5, <1>7, <1>8
  <1>12. size = MAXVALUES \/ cT = 0 \/ Q - size = cQ
    BY <1>3, <1>4, <1>5, <1>6, <1>8
  <1>13. \A k \in 1 .. size : /\ size - k + 1 <= T
                              /\ Q - (size - k + 1) = Q - size + k - 1
    BY <1>5, <1>8
  <1>14. ASSUME NEW k \in 1 .. size
         PROVE  LET p == (start + k - 1) % MAXVALUES
                IN  /\ fdata.seqnum[p] = Q - size + k - 1
                    /\ fdata.time[p] = Q - size + k - 1
                    /\ \A f \in F : cnt_set[f][p] = PackSpeed(Sample(f, Q - size + k - 1))
    <2>1. PICK p : p = (start + k - 1) % MAXVALUES
      OBVIOUS
    <2>2. p \in Point /\ Age(fdata.next_point, p) = size - k + 1
      BY <1>8, <2>1, Zenon
    <2>3. Age(fdata.next_point, p) <= T
      BY <1>13, <2>2, Zenon
    <2>4. Q - Age(fdata.next_point, p) = Q - size + k - 1
      BY <1>13, <2>2, Zenon
    <2>5. fdata.seqnum[p] = Q - Age(fdata.next_point, p)
          /\ fdata.time[p] = Q - Age(fdata.next_point, p)
      BY <1>3, <2>2, <2>3, Zenon DEF RingInv
    <2>6. \A f \in F : cnt_set[f][p] = PackSpeed(Sample(f, Q - Age(fdata.next_point, p)))
      BY <1>3, <2>2, <2>3, Zenon DEF SpeedsInv
    <2>7. \A f \in F : cnt_set[f][p] = PackSpeed(Sample(f, Q - size + k - 1))
      BY <2>4, <2>6, Zenon
    <2> QED BY <2>1, <2>4, <2>5, <2>7, Zenon
  <1>15. /\ Select(fdata.seqnum, start, size) = [k \in 1 .. size |-> Q - size + k - 1]
         /\ Select(fdata.time, start, size) = [k \in 1 .. size |-> Q - size + k - 1]
    BY <1>14 DEF Select
  <1>16. ASSUME NEW f \in F
         PROVE  Select(cnt_set[f], start, size)
                  = [k \in 1 .. size |-> PackSpeed(Sample(f, Q - size + k - 1))]
    BY <1>14, Zenon DEF Select
  <1>21. PICK q \in Nat : q = Q
    BY <1>5
  <1>17. ReplyPoints(reply', size, q)
    <2>1. \A j \in DOMAIN ServerFilters : ServerFilters[j] \in F
      BY DEF Range
    <2>2. \A j \in DOMAIN ServerFilters :
             /\ reply'.speeds[j] = [k \in 1 .. size |->
                                      PackSpeed(Sample(ServerFilters[j], Q - size + k - 1))]
             /\ CountAt(ServerFilters[j], Q, reply'.bytes[j])
      <3> TAKE j \in DOMAIN ServerFilters
      <3>1. /\ reply'.speeds[j] = Select(cnt_set[ServerFilters[j]], start, size)
            /\ reply'.bytes[j] = cnt[ServerFilters[j]]
        BY <1>9
      <3>2. Select(cnt_set[ServerFilters[j]], start, size)
              = [k \in 1 .. size |-> PackSpeed(Sample(ServerFilters[j], Q - size + k - 1))]
        BY <1>16, <2>1, Zenon
      <3>3. CountAt(ServerFilters[j], Q, cnt[ServerFilters[j]])
        BY <1>3, <2>1, Zenon
      <3> QED BY <3>1, <3>2, <3>3, Zenon
    <2>3. /\ reply'.seqnum = Select(fdata.seqnum, start, size)
          /\ reply'.time = Select(fdata.time, start, size)
      BY <1>9
    <2> QED BY <1>15, <1>21, <2>2, <2>3, Zenon DEF ReplyPoints
  <1>18. Follows(size, q)'
    BY <1>10, <1>11, <1>12, <1>21, Zenon DEF Follows
  <1>19. ReplyInv'
    <2>1. q \in FirstSeq .. fdata'.next_seqnum
      BY <1>3, <1>5, <1>10, <1>21
    <2> QED BY <1>11, <1>17, <1>18, <2>1, Zenon DEF ReplyInv
  <1>20. ServerInv' /\ ConsoleInv' /\ MomSpeedRight' /\ ConsoleSpeedCurrent'
    BY <1>10, Zenon DEF SyncInv, ServerInv, ConsoleInv, MomSpeedRight, ConsoleSpeedCurrent
  <1> QED BY <1>19, <1>20 DEF SyncInv

----------------------------------------------------------------------------
(***************************************************************************)
(* The console applies the answer.                                         *)
(***************************************************************************)
\* Places of the answer that apply_to_filterset gives to a filter, and the one.
Source(f) == {k \in DOMAIN ServerFilters : f \in Target(k)}
From(f) == CHOOSE k \in Source(f) : TRUE

\* Whether paired by position or by id, a filter gets the place with its id.
LEMMA TargetById ==
    ASSUME NEW k \in DOMAIN ServerFilters
    PROVE  Target(k) = {f \in Range(ConsoleFilters) : f = ServerFilters[k]}
  <1>1. CASE Plain(k)
    <2>1. k \in 1 .. k
      BY SyncAssumption
    <2>2. k \in DOMAIN ConsoleFilters /\ ConsoleFilters[k] = ServerFilters[k]
      BY <1>1, <2>1, Zenon DEF Plain
    <2>3. ConsoleFilters[k] \in Range(ConsoleFilters)
      BY <2>2, Zenon DEF Range
    <2>4. Target(k) = {ConsoleFilters[k]}
      BY <1>1, Zenon DEF Target
    <2> QED BY <2>2, <2>3, <2>4
  <1>2. CASE ~ Plain(k)
    BY <1>2, Zenon DEF Target
  <1> QED BY <1>1, <1>2

LEMMA SourceFacts ==
    /\ \A f \in Range(ConsoleFilters) : Source(f) # {} =>
          f \in Shared /\ From(f) \in DOMAIN ServerFilters /\ ServerFilters[From(f)] = f
    /\ \A f \in Shared : Source(f) # {}
  <1>1. \A f, k : k \in Source(f) => /\ k \in DOMAIN ServerFilters /\ ServerFilters[k] = f
                                     /\ f \in Range(ConsoleFilters)
    BY TargetById, Zenon DEF Source
  <1>2. ASSUME NEW f \in Range(ConsoleFilters), Source(f) # {}
        PROVE  f \in Shared /\ From(f) \in DOMAIN ServerFilters /\ ServerFilters[From(f)] = f
    <2>1. From(f) \in Source(f)
      BY <1>2, Zenon DEF From
    <2>2. From(f) \in DOMAIN ServerFilters /\ ServerFilters[From(f)] = f
      BY <1>1, <2>1, Zenon
    <2>3. f \in Range(ServerFilters)
      BY <2>2, Zenon DEF Range
    <2> QED BY <2>2, <2>3, Zenon DEF Shared
  <1>3. ASSUME NEW f \in Shared PROVE Source(f) # {}
    <2>1. f \in Range(ServerFilters) /\ f \in Range(ConsoleFilters)
      BY Zenon DEF Shared
    <2>2. PICK k \in DOMAIN ServerFilters : f = ServerFilters[k]
      BY <2>1, Zenon DEF Range
    <2>3. f \in Target(k)
      BY <2>1, <2>2, TargetById
    <2> QED BY <2>3, Zenon DEF Source
  <1> QED BY <1>2, <1>3, Zenon

\* What the step does to the console's filters.
LEMMA ApplyFilters ==
    ASSUME ConsoleInv, ApplyToFilterset, NEW n \in 0 .. MAXVALUES, Len(reply.seqnum) = n,
           n = 0 <=> reply.seqnum = <<>>
    PROVE  /\ DOMAIN ccnt' = DOMAIN ccnt /\ DOMAIN cspeed' = DOMAIN cspeed
           /\ ccnt_set' = [f \in Range(ConsoleFilters) |->
                 IF Source(f) # {} /\ n # 0
                   THEN Store(ccnt_set[f], cfdata.next_point, reply.speeds[From(f)])
                   ELSE ccnt_set[f]]
           /\ \A f \in Range(ConsoleFilters) :
                 /\ Source(f) # {} => ccnt'[f] = reply.bytes[From(f)]
                 /\ Source(f) # {} /\ n # 0 =>
                       cspeed'[f] = UnpackSpeed(reply.speeds[From(f)][Len(reply.speeds[From(f)])])
                 /\ n = 0 => cspeed'[f] = cspeed[f]
  <1>1. /\ DOMAIN ccnt_set = Range(ConsoleFilters) /\ DOMAIN cspeed = Range(ConsoleFilters)
        /\ DOMAIN ccnt = Range(ConsoleFilters)
    BY DEF ConsoleInv
  <1>2. /\ ccnt_set' = [f \in DOMAIN ccnt_set |->
               IF Source(f) # {} /\ reply.seqnum # <<>>
                 THEN Store(ccnt_set[f], cfdata.next_point, reply.speeds[From(f)])
                 ELSE ccnt_set[f]]
        /\ cspeed' = [f \in DOMAIN cspeed |->
               IF Source(f) # {} /\ reply.seqnum # <<>>
                 THEN UnpackSpeed(reply.speeds[From(f)][Len(reply.speeds[From(f)])])
                 ELSE cspeed[f]]
        /\ ccnt' = [f \in DOMAIN ccnt |->
               IF Source(f) # {} THEN reply.bytes[From(f)] ELSE ccnt[f]]
    BY Zenon DEF ApplyToFilterset, Source, From
  <1>3. n # 0 <=> reply.seqnum # <<>>
    OBVIOUS
  <1>4. ccnt_set' = [f \in Range(ConsoleFilters) |->
                 IF Source(f) # {} /\ n # 0
                   THEN Store(ccnt_set[f], cfdata.next_point, reply.speeds[From(f)])
                   ELSE ccnt_set[f]]
    BY <1>1, <1>2, <1>3
  <1>5. \A f \in Range(ConsoleFilters) :
                 /\ Source(f) # {} => ccnt'[f] = reply.bytes[From(f)]
                 /\ Source(f) # {} /\ n # 0 =>
                       cspeed'[f] = UnpackSpeed(reply.speeds[From(f)][Len(reply.speeds[From(f)])])
                 /\ n = 0 => cspeed'[f] = cspeed[f]
    BY <1>1, <1>2, <1>3
  <1>6. DOMAIN ccnt' = DOMAIN ccnt /\ DOMAIN cspeed' = DOMAIN cspeed
    BY <1>2
  <1> QED BY <1>4, <1>5, <1>6

\* Advance appends the points of the answer.
LEMMA AdvanceAppends ==
    ASSUME NEW d, RingInv(d), NEW r, NEW n \in 1 .. MAXVALUES, NEW q \in Nat, q - n >= 0,
           ReplyPoints(r, n, q), Continues(d, n, q), NEW e, e = Advance(d, r)
    PROVE  Appended(d, e, n, q) /\ RingInv(e)
  <1> DEFINE tp == IF d.total_points + n < MAXVALUES THEN d.total_points + n ELSE MAXVALUES
             np == (d.next_point + n) % MAXVALUES
  <1>1. PICK es : es = [k \in 1 .. n |-> q - n + k - 1]
    OBVIOUS
  <1>2. n \in Nat /\ n # 0 /\ Len(es) = n /\ es[n] + 1 = q
    BY <1>1, MaxNat
  <1>3. r.seqnum = es /\ r.time = es
    BY <1>1, Zenon DEF ReplyPoints
  <1>4. e = [total_points |-> tp, next_point |-> np, next_seqnum |-> es[n] + 1,
             seqnum |-> Store(d.seqnum, d.next_point, es),
             time |-> Store(d.time, d.next_point, es)]
    BY <1>2, <1>3, Zenon DEF Advance
  <1> HIDE DEF tp, np
  <1>5. e = [total_points |-> tp, next_point |-> np, next_seqnum |-> q,
             seqnum |-> Store(d.seqnum, d.next_point, es),
             time |-> Store(d.time, d.next_point, es)]
    BY <1>2, <1>4, Zenon
  <1>6. e.total_points = tp /\ e.next_point = np /\ e.next_seqnum = q
    BY <1>5
  <1>7. Appended(d, e, n, q)
    BY <1>6, Zenon DEF Appended, tp, np
  <1>8. RingInv(e)
    BY <1>1, <1>5, <1>7, RingAppend, Zenon
  <1> QED BY <1>7, <1>8

LEMMA ApplyStep ==
    ASSUME SyncInv, ApplyToFilterset
    PROVE  SyncInv'
  <1> DEFINE N == cfdata.next_point  cQ == cfdata.next_seqnum  cT == cfdata.total_points
             F == Range(ConsoleFilters)
  <1>1. reply # NoReply /\ serverVars' = serverVars /\ reply' = NoReply
        /\ cfdata' = Advance(cfdata, reply)
    BY Zenon DEF ApplyToFilterset
  <1>2. /\ fdata' = fdata /\ cnt_set' = cnt_set /\ momspeed' = momspeed /\ cnt' = cnt
        /\ cnt_prev' = cnt_prev
    BY <1>1 DEF serverVars
  <1>3. ServerInv' /\ MomSpeedRight' /\ ReplyInv'
    BY <1>1, <1>2, Zenon DEF SyncInv, ServerInv, MomSpeedRight, ReplyInv
  <1>4. PICK n \in 0 .. MAXVALUES :
           \E q \in FirstSeq .. fdata.next_seqnum : ReplyPoints(reply, n, q) /\ Follows(n, q)
    BY <1>1, Zenon DEF SyncInv, ReplyInv
  <1>5. PICK q \in FirstSeq .. fdata.next_seqnum : ReplyPoints(reply, n, q) /\ Follows(n, q)
    BY <1>4
  <1>6. /\ q - n >= FirstSeq /\ (n > 0 => q - n >= 1)
        /\ n = MAXVALUES \/ cT = 0 \/ q - n = cQ
    BY <1>5, Zenon DEF Follows
  <1>7. /\ MAXVALUES \in Nat \ {0} /\ FirstSeq \in Nat /\ MaxSeq \in Nat
        /\ fdata.next_seqnum \in FirstSeq .. MaxSeq
        /\ cQ \in Nat /\ cT \in 0 .. MAXVALUES /\ N \in Point
    BY MaxNat, SyncAssumption DEF SyncInv, ServerInv, ConsoleInv, RingInv, DataType
  <1>8. /\ RingInv(cfdata) /\ (cT = 0 => cQ = 0)
        /\ cT > 0 => cQ - cT >= FirstSeq /\ cQ <= fdata.next_seqnum
        /\ ccnt_set \in [F -> [Point -> Int]]
        /\ DOMAIN cspeed = F /\ DOMAIN ccnt = F
        /\ \A f \in Shared : SpeedsInv(cfdata, ccnt_set[f], f)
    BY Zenon DEF SyncInv, ConsoleInv
  <1>9. q \in Nat /\ n \in Nat /\ q <= fdata.next_seqnum /\ q <= MaxSeq
    BY <1>7
  <1>10. Len(reply.seqnum) = n /\ (n = 0 <=> reply.seqnum = <<>>)
    <2>1. reply.seqnum = [k \in 1 .. n |-> q - n + k - 1]
      BY <1>5, Zenon DEF ReplyPoints
    <2> QED BY <1>9, <2>1
  <1>11. /\ DOMAIN ccnt' = F /\ DOMAIN cspeed' = F
         /\ ccnt_set' = [f \in F |->
               IF Source(f) # {} /\ n # 0 THEN Store(ccnt_set[f], N, reply.speeds[From(f)])
                                          ELSE ccnt_set[f]]
         /\ \A f \in F :
               /\ Source(f) # {} => ccnt'[f] = reply.bytes[From(f)]
               /\ Source(f) # {} /\ n # 0 =>
                     cspeed'[f] = UnpackSpeed(reply.speeds[From(f)][Len(reply.speeds[From(f)])])
               /\ n = 0 => cspeed'[f] = cspeed[f]
    <2>1. ConsoleInv
      BY DEF SyncInv
    <2> QED BY <1>8, <1>10, <2>1, ApplyFilters, Zenon
  <1>12. \A f \in F : Source(f) # {} =>
            /\ f \in Shared
            /\ reply.speeds[From(f)] = [k \in 1 .. n |-> PackSpeed(Sample(f, q - n + k - 1))]
            /\ CountAt(f, q, reply.bytes[From(f)])
    <2> SUFFICES ASSUME NEW f \in F, Source(f) # {}
                 PROVE  /\ f \in Shared
                        /\ reply.speeds[From(f)]
                             = [k \in 1 .. n |-> PackSpeed(Sample(f, q - n + k - 1))]
                        /\ CountAt(f, q, reply.bytes[From(f)])
      OBVIOUS
    <2>1. PICK j \in DOMAIN ServerFilters : j = From(f) /\ ServerFilters[j] = f /\ f \in Shared
      BY SourceFacts, Zenon
    <2>2. /\ reply.speeds[j]
               = [k \in 1 .. n |-> PackSpeed(Sample(ServerFilters[j], q - n + k - 1))]
          /\ CountAt(ServerFilters[j], q, reply.bytes[j])
      BY <1>5, Zenon DEF ReplyPoints
    <2> QED BY <2>1, <2>2, SMT
  <1>13. \A f \in Shared : f \in F /\ Source(f) # {} /\ f \in Range(ServerFilters)
    BY SourceFacts, Zenon DEF Shared
  <1>14. \A f \in Shared : \E s \in {q, q + 1} : ccnt'[f] = Total(f, s)
    BY <1>11, <1>12, <1>13, Zenon DEF CountAt
  <1>15. CASE n = 0
    <2>1. cfdata' = cfdata
      BY <1>1, <1>10, <1>15, Zenon DEF Advance
    <2>2. ccnt_set' = ccnt_set
      BY <1>8, <1>11, <1>15
    <2>3. ConsoleInv'
      BY <1>2, <1>8, <1>11, <2>1, <2>2, Zenon DEF ConsoleInv
    <2>4. cT > 0 => q = cQ
      BY <1>6, <1>7, <1>9, <1>15
    <2>5. ConsoleSpeedCurrent'
      <3> SUFFICES ASSUME cT > 0, NEW f \in Shared
                   PROVE  /\ cspeed'[f] = Stored(f, cQ - 1)
                          /\ \E s \in {cQ, cQ + 1} : ccnt'[f] = Total(f, s)
        BY <2>1, Zenon DEF ConsoleSpeedCurrent
      <3>1. cspeed[f] = Stored(f, cQ - 1)
        BY Zenon DEF SyncInv, ConsoleSpeedCurrent
      <3>2. cspeed'[f] = cspeed[f]
        BY <1>11, <1>13, <1>15, Zenon
      <3>3. \E s \in {q, q + 1} : ccnt'[f] = Total(f, s)
        BY <1>14, Zenon
      <3> QED BY <2>4, <3>1, <3>2, <3>3, Zenon
    <2> QED BY <1>3, <2>3, <2>5 DEF SyncInv
  <1>16. CASE n # 0
    <2>1. n \in 1 .. MAXVALUES /\ q - n >= 0
      BY <1>6, <1>7, <1>9, <1>16
    <2>2. Continues(cfdata, n, q)
      BY <1>6, Zenon DEF Continues
    <2>3. PICK e : e = Advance(cfdata, reply)
      OBVIOUS
    <2>4. Appended(cfdata, e, n, q) /\ RingInv(e)
      BY <1>5, <1>8, <1>9, <2>1, <2>2, <2>3, AdvanceAppends, Zenon
    <2>5. cfdata' = e
      BY <1>1, <2>3, Zenon
    <2>6. /\ e.next_seqnum = q
          /\ e.total_points = IF cT + n < MAXVALUES THEN cT + n ELSE MAXVALUES
      BY <2>4, Zenon DEF Appended
    <2>7. e.total_points > 0 /\ e.next_seqnum - e.total_points >= FirstSeq
          /\ e.next_seqnum <= fdata.next_seqnum /\ e.total_points # 0
      BY <1>6, <1>7, <1>8, <1>9, <2>1, <2>6
    <2>8. ASSUME NEW f \in F, Source(f) # {}
          PROVE  /\ Store(ccnt_set[f], N, reply.speeds[From(f)]) \in [Point -> Int]
                 /\ SpeedsInv(e, Store(ccnt_set[f], N, reply.speeds[From(f)]), f)
                 /\ cspeed'[f] = Stored(f, q - 1)
      <3>1. PICK es : es = [k \in 1 .. n |-> PackSpeed(Sample(f, q - n + k - 1))]
        OBVIOUS
      <3>2. reply.speeds[From(f)] = es /\ f \in Shared
        BY <1>12, <2>8, <3>1, Zenon
      <3>3. f \in Range(ServerFilters) /\ SpeedsInv(cfdata, ccnt_set[f], f)
            /\ ccnt_set[f] \in [Point -> Int]
        BY <1>8, <1>13, <3>2
      <3>4. ASSUME NEW k \in 1 .. n PROVE PackSpeed(Sample(f, q - n + k - 1)) \in Int
        <4>1. q - n + k - 1 \in FirstSeq .. MaxSeq
          BY <1>6, <1>7, <1>9
        <4> QED BY <3>3, <4>1, SampleNat, Zenon
      <3>5. es \in [1 .. n -> Int]
        BY <3>1, <3>4
      <3>6. Len(es) = n /\ es[n] = PackSpeed(Sample(f, q - n + n - 1)) /\ q - n + n - 1 = q - 1
        BY <1>9, <2>1, <3>1
      <3>7. Store(ccnt_set[f], N, es) \in [Point -> Int]
        BY <1>7, <3>3, <3>5, StoreType, Zenon
      <3>8. SpeedsInv(e, Store(ccnt_set[f], N, es), f)
        BY <1>8, <1>9, <2>1, <2>2, <2>4, <3>1, <3>3, SpeedsAppend, Zenon
      <3>9. cspeed'[f] = UnpackSpeed(es[Len(es)])
        BY <1>11, <1>16, <2>8, <3>2, Zenon
      <3>10. cspeed'[f] = Stored(f, q - 1)
        BY <3>6, <3>9, Zenon DEF Stored
      <3> QED BY <3>2, <3>7, <3>8, <3>10, Zenon
    <2>9. \A f \in F : ccnt_set'[f] = IF Source(f) # {}
                                        THEN Store(ccnt_set[f], N, reply.speeds[From(f)])
                                        ELSE ccnt_set[f]
      BY <1>11, <1>16
    <2>10. ccnt_set' \in [F -> [Point -> Int]]
      <3>1. \A f \in F : ccnt_set'[f] \in [Point -> Int]
        BY <1>8, <2>8, <2>9
      <3>2. ccnt_set' = [f \in F |-> ccnt_set'[f]]
        BY <1>11
      <3> QED BY <3>1, <3>2
    <2>11. \A f \in Shared : SpeedsInv(e, ccnt_set'[f], f)
      BY <1>13, <2>8, <2>9, Zenon
    <2>12. ConsoleInv'
      BY <1>2, <1>11, <2>4, <2>5, <2>7, <2>10, <2>11, Zenon DEF ConsoleInv
    <2>13. ConsoleSpeedCurrent'
      <3> SUFFICES ASSUME NEW f \in Shared
                   PROVE  /\ cspeed'[f] = Stored(f, e.next_seqnum - 1)
                          /\ \E s \in {e.next_seqnum, e.next_seqnum + 1} : ccnt'[f] = Total(f, s)
        BY <2>5, Zenon DEF ConsoleSpeedCurrent
      <3> QED BY <1>13, <1>14, <2>6, <2>8, Zenon
    <2> QED BY <1>3, <2>12, <2>13 DEF SyncInv
  <1> QED BY <1>15, <1>16

----------------------------------------------------------------------------
LEMMA SyncInit == Init => SyncInv
  <1> SUFFICES ASSUME Init PROVE SyncInv
    OBVIOUS
  <1>1. /\ MAXVALUES \in Nat \ {0} /\ FirstSeq \in 0 .. MaxSeq /\ MaxSeq \in Nat
        /\ 0 \in Point
    BY MaxNat, SyncAssumption DEF Point
  <1>2. /\ fdata = [total_points |-> 0, next_point |-> 0, next_seqnum |-> FirstSeq,
                    seqnum |-> [n \in Point |-> 0], time |-> [n \in Point |-> 0]]
        /\ cfdata = [total_points |-> 0, next_point |-> 0, next_seqnum |-> 0,
                     seqnum |-> [n \in Point |-> 0], time |-> [n \in Point |-> 0]]
    BY DEF Init, EmptyData
  <1>3. \A p \in Point : Age(0, p) \in 1 .. MAXVALUES /\ ~ (Age(0, p) <= 0)
    <2> TAKE p \in Point
    <2>1. Age(0, p) \in 1 .. MAXVALUES
      BY <1>1, AgeType
    <2> QED BY <1>1, <2>1
  <1>4. RingInv(fdata) /\ RingInv(cfdata)
    BY <1>1, <1>2, <1>3 DEF RingInv, DataType
  <1>5. \A f, ring : SpeedsInv(fdata, ring, f) /\ SpeedsInv(cfdata, ring, f)
    BY <1>2, <1>3 DEF SpeedsInv
  <1>6. \A f \in Range(ServerFilters) : Total(f, FirstSeq) \in Nat
    BY <1>1, SampleNat
  <1>7. ServerInv
    <2>1. /\ cnt = [f \in Range(ServerFilters) |-> Total(f, FirstSeq)] /\ cnt_prev = cnt
          /\ cnt_set = [f \in Range(ServerFilters) |-> [n \in Point |-> 0]]
      BY Zenon DEF Init
    <2>2. /\ fdata.next_seqnum = FirstSeq /\ fdata.total_points = 0
      BY <1>2
    <2>3. /\ cnt \in [Range(ServerFilters) -> Nat]
          /\ cnt_set \in [Range(ServerFilters) -> [Point -> Int]]
      BY <1>6, <2>1
    <2>4. \A f \in Range(ServerFilters) : CountAt(f, FirstSeq, cnt[f])
      BY <2>1 DEF CountAt
    <2>5. cnt_prev = [f \in Range(ServerFilters) |-> Total(f, fdata.next_seqnum)]
      BY <2>1, <2>2
    <2>6. /\ fdata.next_seqnum \in FirstSeq .. MaxSeq
          /\ fdata.total_points <= fdata.next_seqnum - FirstSeq
          /\ fdata.total_points < MAXVALUES => fdata.total_points = fdata.next_seqnum - FirstSeq
      BY <1>1, <2>2
    <2> QED BY <1>4, <1>5, <2>2, <2>3, <2>4, <2>5, <2>6, Zenon DEF ServerInv
  <1>8. ConsoleInv
    <2>1. cfdata.next_seqnum = 0 /\ cfdata.total_points = 0 /\ ~ (cfdata.total_points > 0)
      BY <1>2
    <2>2. /\ ccnt_set \in [Range(ConsoleFilters) -> [Point -> Int]]
          /\ DOMAIN cspeed = Range(ConsoleFilters) /\ DOMAIN ccnt = Range(ConsoleFilters)
      BY DEF Init
    <2> QED BY <1>4, <1>5, <2>1, <2>2, Zenon DEF ConsoleInv
  <1>9. reply = NoReply /\ ~ (fdata.total_points > 0) /\ ~ (cfdata.total_points > 0)
    BY <1>2 DEF Init
  <1> QED BY <1>7, <1>8, <1>9, Zenon DEF SyncInv, ReplyInv, MomSpeedRight, ConsoleSpeedCurrent

LEMMA SyncStutter ==
    ASSUME SyncInv, serverVars' = serverVars, consoleVars' = consoleVars,
           reply' = reply \/ reply' = NoReply
    PROVE  SyncInv'
  <1>1. /\ fdata' = fdata /\ cnt_set' = cnt_set /\ momspeed' = momspeed /\ cnt' = cnt
        /\ cnt_prev' = cnt_prev /\ cfdata' = cfdata /\ ccnt_set' = ccnt_set
        /\ cspeed' = cspeed /\ ccnt' = ccnt
    BY DEF serverVars, consoleVars
  <1>2. ServerInv' /\ ConsoleInv' /\ MomSpeedRight' /\ ConsoleSpeedCurrent'
    BY <1>1, Zenon DEF SyncInv, ServerInv, ConsoleInv, MomSpeedRight, ConsoleSpeedCurrent
  <1>3. ReplyInv'
    BY <1>1, Zenon DEF SyncInv, ReplyInv, Follows
  <1> QED BY <1>2, <1>3 DEF SyncInv

LEMMA SyncNext == SyncInv /\ [Next]_vars => SyncInv'
  <1> SUFFICES ASSUME SyncInv, [Next]_vars PROVE SyncInv'
    OBVIOUS
  <1>1. ASSUME NEW f \in Range(ServerFilters), Count(f) PROVE SyncInv'
    BY <1>1, CountStep
  <1>2. CASE Refresh
    BY <1>2, RefreshStep
  <1>3. CASE FillFromFilterset
    BY <1>3, FillStep
  <1>4. CASE LoseReply
    BY <1>4, SyncStutter DEF LoseReply
  <1>5. CASE ApplyToFilterset
    BY <1>5, ApplyStep
  <1>6. CASE UNCHANGED vars
    BY <1>6, SyncStutter DEF vars
  <1> QED BY <1>1, <1>2, <1>3, <1>4, <1>5, <1>6, Zenon DEF Next

LEMMA SyncInvariant == Spec => []SyncInv
  BY SyncInit, SyncNext, PTL DEF Spec

\* The k-th oldest point of a ring and its age.
LEMMA PointAge ==
    ASSUME NEW d, RingInv(d), NEW k \in 1 .. d.total_points
    PROVE  /\ k \in DOMAIN Points(d) /\ Points(d)[k] \in Point
           /\ Age(d.next_point, Points(d)[k]) = d.total_points - k + 1
           /\ Age(d.next_point, Points(d)[k]) <= d.total_points
  <1> DEFINE i == StartIndex(d) + k - 1
  <1>1. /\ d.total_points \in 0 .. MAXVALUES /\ MAXVALUES \in Nat \ {0}
        /\ StartIndex(d) \in Nat /\ LastIndex(d) = StartIndex(d) + d.total_points
    BY MaxNat DEF RingInv, DataType, Point, StartIndex, LastIndex
  <1>2. i \in StartIndex(d) .. LastIndex(d) - 1 /\ LastIndex(d) - i = d.total_points - k + 1
        /\ d.total_points - k + 1 <= d.total_points
    BY <1>1
  <1>3. /\ i % MAXVALUES \in Point
        /\ Age(d.next_point, i % MAXVALUES) = LastIndex(d) - i
    BY <1>2, IndexAge, Zenon
  <1>4. k \in DOMAIN Points(d) /\ Points(d)[k] = i % MAXVALUES
    BY Zenon DEF Points
  <1> QED BY <1>2, <1>3, <1>4, Zenon

\* Every point a console shows is a copy of the service's, for rings of any size,
\* any filters in any order, and any speeds.
THEOREM ConsoleReplicaFaithful == Spec => []ReplicaFaithful
  <1>1. SyncInv => ReplicaFaithful
    <2> SUFFICES ASSUME SyncInv, NEW k \in DOMAIN Points(cfdata)
                 PROVE  LET p == Points(cfdata)[k]
                        IN  /\ cfdata.time[p] = cfdata.seqnum[p]
                            /\ \A f \in Shared :
                                  ccnt_set[f][p] = PackSpeed(Sample(f, cfdata.seqnum[p]))
      BY Zenon DEF ReplicaFaithful
    <2>1. RingInv(cfdata) /\ \A f \in Shared : SpeedsInv(cfdata, ccnt_set[f], f)
      BY Zenon DEF SyncInv, ConsoleInv
    <2>2. k \in 1 .. cfdata.total_points
      BY Zenon DEF Points
    <2>3. PICK p : p = Points(cfdata)[k]
      OBVIOUS
    <2>4. p \in Point /\ Age(cfdata.next_point, p) <= cfdata.total_points
      BY <2>1, <2>2, <2>3, PointAge, Zenon
    <2>5. /\ cfdata.seqnum[p] = cfdata.next_seqnum - Age(cfdata.next_point, p)
          /\ cfdata.time[p] = cfdata.next_seqnum - Age(cfdata.next_point, p)
      BY <2>1, <2>4, Zenon DEF RingInv
    <2>6. \A f \in Shared : ccnt_set[f][p]
             = PackSpeed(Sample(f, cfdata.next_seqnum - Age(cfdata.next_point, p)))
      BY <2>1, <2>4, Zenon DEF SpeedsInv
    <2> QED BY <2>3, <2>5, <2>6, Zenon
  <1> QED BY SyncInvariant, <1>1, PTL

\* The console's points have consecutive sequence numbers: no poll, however late
\* or lost, leaves a gap or repeats a point.
THEOREM ConsoleReplicaContiguous == Spec => []ReplicaContiguous
  <1>1. SyncInv => ReplicaContiguous
    <2> SUFFICES ASSUME SyncInv PROVE ReplicaContiguous
      OBVIOUS
    <2> DEFINE s == [k \in DOMAIN Points(cfdata) |-> cfdata.seqnum[Points(cfdata)[k]]]
    <2>1. RingInv(cfdata)
      BY Zenon DEF SyncInv, ConsoleInv
    <2>2. cfdata.total_points \in 0 .. MAXVALUES /\ cfdata.next_seqnum \in Nat /\ MAXVALUES \in Nat
      BY <2>1, MaxNat DEF RingInv, DataType
    <2>3. DOMAIN s = 1 .. cfdata.total_points
      BY Zenon DEF Points
    <2>4. ASSUME NEW k \in 1 .. cfdata.total_points
          PROVE  s[k] = cfdata.next_seqnum - (cfdata.total_points - k + 1)
      <3>1. PICK p : p = Points(cfdata)[k]
        OBVIOUS
      <3>2. /\ k \in DOMAIN Points(cfdata) /\ p \in Point
            /\ Age(cfdata.next_point, p) = cfdata.total_points - k + 1
            /\ Age(cfdata.next_point, p) <= cfdata.total_points
        BY <2>1, <3>1, PointAge, Zenon
      <3>3. cfdata.seqnum[p] = cfdata.next_seqnum - Age(cfdata.next_point, p)
        BY <2>1, <3>2, Zenon DEF RingInv
      <3> QED BY <3>1, <3>2, <3>3, Zenon
    <2> HIDE DEF s
    <2>5. \A k \in DOMAIN s \ {1} : s[k] = s[k - 1] + 1
      <3> TAKE k \in DOMAIN s \ {1}
      <3>1. k \in 1 .. cfdata.total_points /\ k - 1 \in 1 .. cfdata.total_points
        BY <2>2, <2>3
      <3>2. /\ s[k] = cfdata.next_seqnum - (cfdata.total_points - k + 1)
            /\ s[k - 1] = cfdata.next_seqnum - (cfdata.total_points - (k - 1) + 1)
        BY <2>4, <3>1, Zenon
      <3> QED BY <2>2, <3>1, <3>2
    <2> QED BY <2>5, Zenon DEF ReplicaContiguous, s
  <1> QED BY SyncInvariant, <1>1, PTL

\* do_refresh averages the latest five points, wherever the ring wraps.
THEOREM ServiceMomSpeedRight == Spec => []MomSpeedRight
  <1>1. SyncInv => MomSpeedRight
    BY DEF SyncInv
  <1> QED BY SyncInvariant, <1>1, PTL

\* The speed and the count the console displays belong to its latest point.
THEOREM ConsoleSpeedIsCurrent == Spec => []ConsoleSpeedCurrent
  <1>1. SyncInv => ConsoleSpeedCurrent
    BY DEF SyncInv
  <1> QED BY SyncInvariant, <1>1, PTL
=============================================================================
