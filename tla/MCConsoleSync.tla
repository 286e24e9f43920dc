--------------------------- MODULE MCConsoleSync ---------------------------
(* Instance of ConsoleSync: rings of 5 points that wrap twice, filters in     *)
(* different order on the two sides.                                          *)
EXTENDS ConsoleSync, SequencesExt

MCServerFilters == <<1, 2, 3>>
MCConsoleFilters == <<1, 3, 4, 2>>

\* Filter 1 has slow speeds that grow by 4, filter 2 fast ones that are no
\* multiple of the packed unit; filter 2 is set back to 0 before point 7.
\* Filter 3 is idle at every other point.
Sum(s) == (s * (s - 1)) \div 2
MCTotal(f, s) ==
    CASE f = 1 -> 2 * (401 * s + 4 * Sum(s))
      [] f = 2 -> LET t == IF s < 7 THEN s ELSE s - 7 IN 2 * (200000 * t + 1200 * Sum(t))
      [] f = 3 -> LET t == s \div 2 IN 2 * (2400 * t + 8 * Sum(t))

\* Advance is goto_next_point for one point of the answer after the other.
ASSUME AdvanceIsRepeated ==
    \A t \in 0 .. MAXVALUES, p \in Point, n \in 0 .. MAXVALUES :
        LET d == [total_points |-> t, next_point |-> p, next_seqnum |-> 20,
                  seqnum |-> [q \in Point |-> 10 + q], time |-> [q \in Point |-> 30 + q]]
            r == [seqnum |-> [k \in 1 .. n |-> 50 + k], time |-> [k \in 1 .. n |-> 70 + k]]
        IN  Advance(d, r)
              = FoldLeft(LAMBDA acc, k : GotoNextPoint(acc, r.time[k], r.seqnum[k]),
                         d, [k \in 1 .. n |-> k])
=============================================================================
