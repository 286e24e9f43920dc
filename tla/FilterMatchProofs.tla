------------------------- MODULE FilterMatchProofs -------------------------
(***************************************************************************)
(* match_filter with any number of threads and rules, however its steps    *)
(* and the resets interleave: what passes a blocking filter stays below    *)
(* the limit, packet by packet and in total, a rule for less than so many  *)
(* bytes is overrun by one packet of each thread at most, and what a match *)
(* says of a packet and of its answer.                                     *)
(***************************************************************************)
EXTENDS FilterMatch, FiniteSetTheorems, TLAPS

HistType ==
    [base : [Counter -> Int],
     passed : [Counter -> Int],
     pos : [Thread -> Int],
     counted : [Thread -> BOOLEAN],
     passedAt : [Counter -> SUBSET Int]]

MatchType ==
    /\ scen \in Scenario
    /\ cnt \in [Counter -> Int]
    /\ pc \in [Thread -> {"idle", "add", "check", "return", "done"}]
    /\ DOMAIN call = Thread
    /\ \A t \in Thread : pc[t] # "idle" => call[t].data.length \in Nat
    /\ seen \in [Thread -> [Counter -> Int]]
    /\ loaded \in [Thread -> SUBSET Counter]
    /\ hist \in HistType

\* A filter that counts upwards never holds or shows a negative count.
NotNegative ==
    ~ this.m_bRevers =>
        \A d \in Counter :
            /\ cnt[d] >= 0
            /\ \A t \in Thread : seen[t][d] >= 0

\* A call that has counted its packet: the counter has moved on from its value
\* then, and so had it when the call read it.
Ahead(t, v) == IF this.m_bRevers THEN v <= hist.pos[t] ELSE v >= hist.pos[t]

CallsSeeThemselves ==
    \A t \in Thread :
        /\ pc[t] = "add" => loaded[t] = {}
        /\ pc[t] = "return" /\ Blocks => ~ hist.counted[t]
        /\ pc[t] \in {"add", "check"} /\ hist.counted[t] =>
              /\ pc[t] = "check"
              /\ Ahead(t, cnt[CounterOf(t)])
              /\ CounterOf(t) \in loaded[t] => Ahead(t, seen[t][CounterOf(t)])

MatchInv == MatchType /\ NotNegative /\ CallsSeeThemselves /\ PassedBelowLimit

LEMMA InitInv == Init => MatchInv
  <1> SUFFICES ASSUME Init PROVE MatchInv
    OBVIOUS
  <1> USE ScenarioAssumption
  <1>1. MatchType
    <2>1. hist \in HistType
      BY DEF Init, NoHistory, HistType, Counter
    <2> QED
      BY <2>1 DEF Init, MatchType, Counter
  <1>2. NotNegative
    BY DEF Init, NotNegative, Counter
  <1>3. CallsSeeThemselves
    BY DEF Init, CallsSeeThemselves, NoHistory
  <1>4. PassedBelowLimit
    BY DEF Init, PassedBelowLimit, NoHistory
  <1> QED
    BY <1>1, <1>2, <1>3, <1>4 DEF MatchInv

\* A call that may return without having found the limit exceeded has read its
\* own packet, and read it below the limit.
LEMMA ReturnBelow ==
    ASSUME MatchInv, NEW t \in Thread, pc[t] = "check", hist.counted[t],
           ToLoad(t) = {}, ~ LimitExceeded(seen[t])
    PROVE  /\ Limited /\ CounterOf(t) \in LimitedCounters => hist.pos[t] < this.m_nTrafficLimit
           /\ Prepaid => hist.pos[t] >= 0
  <1> DEFINE d == CounterOf(t)
             s == seen[t]
  <1>1. /\ d \in Counter
        /\ s \in [Counter -> Int]
        /\ hist.pos[t] \in Int
        /\ this.m_nTrafficLimit \in Nat
        /\ this.m_nTrafficLimitType \in LimitType
        /\ this.m_bRevers \in BOOLEAN
    BY ScenarioAssumption DEF MatchInv, MatchType, HistType, CounterOf, Counter, this
  <1>2. d \in loaded[t] => Ahead(t, s[d])
    BY DEF MatchInv, CallsSeeThemselves
  <1>3. ~ this.m_bRevers => s["sent"] >= 0 /\ s["recv"] >= 0
    BY DEF MatchInv, NotNegative, Counter
  <1>4. ASSUME Limited, d \in LimitedCounters
        PROVE  hist.pos[t] < this.m_nTrafficLimit
    <2>1. ~ this.m_bRevers /\ this.m_nTrafficLimit # 0
      BY <1>4 DEF Limited
    <2>2. d \in loaded[t] /\ s[d] < this.m_nTrafficLimit
      <3>1. CASE this.m_nTrafficLimitType = "SENT_PLUS_RECV"
        BY <1>1, <1>3, <2>1, <3>1 DEF ToLoad, LimitExceeded, Counter
      <3>2. CASE this.m_nTrafficLimitType = "SENT"
        BY <1>1, <1>3, <1>4, <2>1, <3>2 DEF ToLoad, LimitExceeded, Counter, LimitedCounters
      <3>3. CASE this.m_nTrafficLimitType = "RECV"
        BY <1>1, <1>3, <1>4, <2>1, <3>3 DEF ToLoad, LimitExceeded, Counter, LimitedCounters
      <3>4. CASE this.m_nTrafficLimitType \in {"SENT_OR_RECV", "REVERS"}
        BY <1>1, <1>3, <2>1, <3>4 DEF ToLoad, LimitExceeded, Counter
      <3> QED
        BY <1>1, <3>1, <3>2, <3>3, <3>4 DEF LimitType
    <2> QED
      BY <1>1, <1>2, <2>1, <2>2 DEF Ahead
  <1>5. ASSUME Prepaid PROVE hist.pos[t] >= 0
    <2>1. d \in loaded[t] /\ s[d] >= 0
      BY <1>1, <1>5 DEF Prepaid, ToLoad, LimitExceeded, Counter
    <2> QED
      BY <1>1, <1>2, <1>5, <2>1 DEF Ahead, Prepaid
  <1> QED
    BY <1>4, <1>5

LEMMA FilterFixed ==
    ASSUME [Next]_vars
    PROVE  scen' = scen /\ this' = this /\ Blocks' = Blocks /\ Limited' = Limited
           /\ Prepaid' = Prepaid /\ LimitedCounters' = LimitedCounters
  <1>1. scen' = scen
    BY DEF Next, vars, MatchNothing, MatchRule, AddCnt, LoadCnt, Return, ResetSent, ResetRecv, ResetCnt
  <1> QED
    BY <1>1 DEF this, Blocks, Limited, Prepaid, LimitedCounters

LEMMA StepInv == MatchInv /\ [Next]_vars => MatchInv'
  <1> SUFFICES ASSUME MatchInv, [Next]_vars PROVE MatchInv'
    OBVIOUS
  <1> USE FilterFixed
  <1>t. /\ MatchType /\ NotNegative /\ CallsSeeThemselves /\ PassedBelowLimit
        /\ hist \in HistType
        /\ \A t \in Thread : CounterOf(t) \in Counter
        /\ this.m_bRevers \in BOOLEAN
    BY ScenarioAssumption DEF MatchInv, MatchType, CounterOf, Counter, this
  <1>1. ASSUME NEW t \in Thread, NEW data \in scen.inputs, MatchNothing(t, data)
        PROVE  MatchInv'
    <2>0. data.length \in Nat
      BY ScenarioAssumption, <1>t DEF MatchType
    <2>1. MatchType'
      BY <1>t, <1>1, <2>0 DEF MatchType, MatchNothing
    <2>2. NotNegative'
      BY <1>t, <1>1 DEF NotNegative, MatchNothing
    <2>3. CallsSeeThemselves'
      BY <1>t, <1>1 DEF CallsSeeThemselves, MatchNothing, MatchType, CounterOf, Ahead
    <2>4. PassedBelowLimit'
      BY <1>t, <1>1 DEF PassedBelowLimit, MatchNothing
    <2> QED
      BY <2>1, <2>2, <2>3, <2>4 DEF MatchInv
  <1>2. ASSUME NEW t \in Thread, NEW data \in scen.inputs, NEW i \in DOMAIN this.rules,
               MatchRule(t, data, i)
        PROVE  MatchInv'
    <2>0. data.length \in Nat
      BY ScenarioAssumption, <1>t DEF MatchType
    <2>h. /\ hist' \in HistType
          /\ hist'.pos = hist.pos /\ hist'.passedAt = hist.passedAt
          /\ hist'.counted = [hist.counted EXCEPT ![t] = FALSE]
      BY <1>t, <1>2 DEF HistType, MatchRule
    <2>1. MatchType'
      BY <1>t, <1>2, <2>0, <2>h DEF MatchType, MatchRule
    <2>2. NotNegative'
      BY <1>t, <1>2 DEF NotNegative, MatchRule, MatchType
    <2>3. CallsSeeThemselves'
      <3> SUFFICES ASSUME NEW u \in Thread
                   PROVE  /\ pc'[u] = "add" => loaded'[u] = {}
                          /\ pc'[u] = "return" /\ Blocks => ~ hist'.counted[u]
                          /\ pc'[u] \in {"add", "check"} /\ hist'.counted[u] =>
                                /\ pc'[u] = "check"
                                /\ Ahead(u, cnt[CounterOf(u)])'
                                /\ CounterOf(u)' \in loaded'[u] => Ahead(u, seen[u][CounterOf(u)])'
        BY DEF CallsSeeThemselves
      <3>1. CASE u = t
        BY <1>t, <1>2, <2>h, <3>1 DEF MatchRule, MatchType, HistType
      <3>2. CASE u # t
        BY <1>t, <1>2, <2>h, <3>2 DEF MatchRule, MatchType, HistType, CallsSeeThemselves, CounterOf, Ahead
      <3> QED
        BY <3>1, <3>2
    <2>4. PassedBelowLimit'
      BY <1>t, <2>h DEF PassedBelowLimit
    <2> QED
      BY <2>1, <2>2, <2>3, <2>4 DEF MatchInv
  <1>3. ASSUME NEW t \in Thread, AddCnt(t) PROVE MatchInv'
    <2> DEFINE n == NewCount(t)
               c == CounterOf(t)
    <2>0. /\ c \in Counter /\ n \in Int
          /\ IF this.m_bRevers THEN n <= cnt[c] ELSE n >= cnt[c]
      BY <1>t, <1>3 DEF AddCnt, MatchType, NewCount
    <2>c. cnt' = [cnt EXCEPT ![c] = n]
      BY <1>3 DEF AddCnt
    <2>h. /\ hist' \in HistType
          /\ hist'.passedAt = hist.passedAt
          /\ hist'.pos = [hist.pos EXCEPT ![t] = n]
          /\ hist'.counted = [hist.counted EXCEPT ![t] = TRUE]
      <3> HIDE DEF n
      <3> QED
        BY <1>t, <1>3, <2>0 DEF HistType, AddCnt, n
    <2> HIDE DEF n
    <2>1. MatchType'
      BY <1>t, <1>3, <2>0, <2>c, <2>h DEF MatchType, AddCnt
    <2>2. NotNegative'
      BY <1>t, <1>3, <2>0, <2>c DEF NotNegative, AddCnt, MatchType
    <2>3. CallsSeeThemselves'
      <3> SUFFICES ASSUME NEW u \in Thread
                   PROVE  /\ pc'[u] = "add" => loaded'[u] = {}
                          /\ pc'[u] = "return" /\ Blocks => ~ hist'.counted[u]
                          /\ pc'[u] \in {"add", "check"} /\ hist'.counted[u] =>
                                /\ pc'[u] = "check"
                                /\ Ahead(u, cnt[CounterOf(u)])'
                                /\ CounterOf(u)' \in loaded'[u] => Ahead(u, seen[u][CounterOf(u)])'
        BY DEF CallsSeeThemselves
      <3>0. CounterOf(u)' = CounterOf(u)
        BY <1>3 DEF AddCnt, CounterOf
      <3>1. CASE u = t
        <4>1. pc'[u] = IF Blocks THEN "check" ELSE "return"
          BY <1>t, <1>3, <3>1 DEF AddCnt, MatchType, Blocks
        <4>2. loaded'[u] = {}
          BY <1>t, <1>3, <3>1 DEF AddCnt, CallsSeeThemselves
        <4>3. cnt'[c] = n /\ hist'.pos[u] = n
          BY <1>t, <2>0, <2>c, <2>h, <3>1 DEF MatchType, HistType
        <4> QED
          BY <1>t, <2>0, <3>0, <3>1, <4>1, <4>2, <4>3 DEF Ahead
      <3>2. CASE u # t
        <4>1. /\ pc'[u] = pc[u] /\ loaded'[u] = loaded[u] /\ seen'[u] = seen[u]
              /\ hist'.counted[u] = hist.counted[u] /\ hist'.pos[u] = hist.pos[u]
              /\ hist.pos[u] \in Int
          BY <1>t, <1>3, <2>h, <3>2 DEF AddCnt, MatchType, HistType
        <4>2. /\ cnt[CounterOf(u)] \in Int /\ cnt'[CounterOf(u)] \in Int
              /\ IF this.m_bRevers THEN cnt'[CounterOf(u)] <= cnt[CounterOf(u)]
                                   ELSE cnt'[CounterOf(u)] >= cnt[CounterOf(u)]
          BY <1>t, <2>0, <2>c DEF MatchType
        <4> QED
          BY <1>t, <3>0, <4>1, <4>2 DEF CallsSeeThemselves, Ahead
      <3> QED
        BY <3>1, <3>2
    <2>4. PassedBelowLimit'
      BY <1>t, <2>h DEF PassedBelowLimit
    <2> QED
      BY <2>1, <2>2, <2>3, <2>4 DEF MatchInv
  <1>4. ASSUME NEW t \in Thread, NEW d \in Counter, LoadCnt(t, d) PROVE MatchInv'
    <2>0. /\ cnt' = cnt /\ pc' = pc /\ hist' = hist /\ call' = call
          /\ pc[t] = "check"
          /\ seen' = [seen EXCEPT ![t] = [seen[t] EXCEPT ![d] = cnt[d]]]
          /\ loaded' = [loaded EXCEPT ![t] = loaded[t] \cup {d}]
      BY <1>t, <1>4 DEF LoadCnt, MatchType
    <2>1. MatchType'
      BY <1>t, <2>0 DEF MatchType
    <2>2. NotNegative'
      BY <1>t, <2>0 DEF NotNegative, MatchType
    <2>3. CallsSeeThemselves'
      BY <1>t, <2>0 DEF CallsSeeThemselves, CounterOf, Ahead, MatchType
    <2>4. PassedBelowLimit'
      BY <1>t, <2>0 DEF PassedBelowLimit
    <2> QED
      BY <2>1, <2>2, <2>3, <2>4 DEF MatchInv
  <1>5. ASSUME NEW t \in Thread, Return(t) PROVE MatchInv'
    <2> DEFINE c == CounterOf(t)
    <2>0. /\ cnt' = cnt /\ seen' = seen /\ loaded' = loaded /\ call' = call
          /\ pc' = [pc EXCEPT ![t] = "done"]
          /\ pc[t] = "return" \/ (pc[t] = "check" /\ ToLoad(t) = {})
      BY <1>5 DEF Return
    <2>h. /\ hist' \in HistType
          /\ hist'.pos = hist.pos /\ hist'.counted = hist.counted
          /\ \/ hist'.passedAt = hist.passedAt
             \/ /\ hist.counted[t]
                /\ pc[t] = "check" => ~ LimitExceeded(seen[t])
                /\ hist'.passedAt = [hist.passedAt EXCEPT ![c] = @ \cup {hist.pos[t]}]
      <3>1. call[t].data.length \in Nat /\ c \in Counter /\ hist.pos[t] \in Int
        BY <1>t, <2>0 DEF MatchType, HistType
      <3>2. CASE hist' = hist
        BY <1>t, <3>2
      <3>3. CASE hist' # hist
        <4>1. /\ hist.counted[t]
              /\ pc[t] = "check" => ~ LimitExceeded(seen[t])
              /\ hist' = [hist EXCEPT !.passed[c] = @ + call[t].data.length,
                                      !.passedAt[c] = @ \cup {hist.pos[t]}]
          BY <1>5, <3>3 DEF Return
        <4> DEFINE bytes == [hist.passed EXCEPT ![c] = @ + call[t].data.length]
                   at == [hist.passedAt EXCEPT ![c] = @ \cup {hist.pos[t]}]
        <4>2. bytes \in [Counter -> Int]
          BY <1>t, <3>1 DEF HistType
        <4>3. at \in [Counter -> SUBSET Int]
          BY <1>t, <3>1 DEF HistType
        <4>4. hist' = [hist EXCEPT !.passed = bytes, !.passedAt = at]
          BY <4>1
        <4>5. hist' \in HistType /\ hist'.pos = hist.pos /\ hist'.counted = hist.counted
              /\ hist'.passedAt = at
          <5> HIDE DEF bytes, at
          <5> QED
            BY <1>t, <4>2, <4>3, <4>4 DEF HistType
        <4> QED
          BY <4>1, <4>5
      <3> QED
        BY <3>2, <3>3
    <2>1. MatchType'
      BY <1>t, <2>0, <2>h DEF MatchType
    <2>2. NotNegative'
      BY <1>t, <2>0 DEF NotNegative
    <2>3. CallsSeeThemselves'
      BY <1>t, <2>0, <2>h DEF CallsSeeThemselves, CounterOf, Ahead, MatchType
    <2>4. PassedBelowLimit'
      <3>1. CASE hist'.passedAt = hist.passedAt
        BY <1>t, <3>1 DEF PassedBelowLimit
      <3>2. CASE hist'.passedAt # hist.passedAt
        <4>1. /\ hist.counted[t]
              /\ pc[t] = "check" => ~ LimitExceeded(seen[t])
              /\ hist'.passedAt = [hist.passedAt EXCEPT ![c] = @ \cup {hist.pos[t]}]
          BY <2>h, <3>2
        <4>2. /\ Limited /\ c \in LimitedCounters => hist.pos[t] < this.m_nTrafficLimit
              /\ Prepaid => hist.pos[t] >= 0
          <5>1. CASE pc[t] = "return"
            BY <1>t, <4>1, <5>1 DEF CallsSeeThemselves, Limited, Prepaid
          <5>2. CASE pc[t] = "check" /\ ToLoad(t) = {}
            BY <4>1, <5>2, ReturnBelow
          <5> QED
            BY <2>0, <5>1, <5>2
        <4>3. \A d \in Counter : \A p \in hist'.passedAt[d] :
                  p \in hist.passedAt[d] \/ (d = c /\ p = hist.pos[t])
          BY <1>t, <4>1 DEF HistType
        <4> QED
          BY <1>t, <4>2, <4>3 DEF PassedBelowLimit
      <3> QED
        BY <3>1, <3>2
    <2> QED
      BY <2>1, <2>2, <2>3, <2>4 DEF MatchInv
  <1>6. ASSUME NEW d \in Counter, ResetCnt(d) PROVE MatchInv'
    <2>0. /\ pc' = pc /\ seen' = seen /\ loaded' = loaded /\ call' = call
          /\ cnt' = [cnt EXCEPT ![d] = 0]
      BY <1>6 DEF ResetCnt
    <2>h. /\ hist' \in HistType
          /\ hist'.pos = hist.pos
          /\ hist'.counted = [t \in Thread |-> hist.counted[t] /\ CounterOf(t) # d]
          /\ hist'.passedAt = [hist.passedAt EXCEPT ![d] = {}]
      <3> DEFINE k == [t \in Thread |-> hist.counted[t] /\ CounterOf(t) # d]
      <3>1. k \in [Thread -> BOOLEAN]
        BY <1>t, Zenon DEF HistType
      <3>2. hist' = [hist EXCEPT !.base[d] = 0, !.passed[d] = 0, !.passedAt[d] = {}, !.counted = k]
        BY <1>6 DEF ResetCnt
      <3> DEFINE b == [hist.base EXCEPT ![d] = 0]
                 p == [hist.passed EXCEPT ![d] = 0]
                 at == [hist.passedAt EXCEPT ![d] = {}]
      <3>4. b \in [Counter -> Int] /\ p \in [Counter -> Int] /\ at \in [Counter -> SUBSET Int]
        BY <1>t DEF HistType
      <3>5. hist' = [hist EXCEPT !.base = b, !.passed = p, !.passedAt = at, !.counted = k]
        BY <3>2
      <3>3. /\ hist' \in HistType /\ hist'.pos = hist.pos /\ hist'.counted = k
            /\ hist'.passedAt = at
        <4> HIDE DEF k, b, p, at
        <4> QED
          BY <1>t, <3>1, <3>4, <3>5 DEF HistType
      <3> QED
        BY <3>3
    <2>1. MatchType'
      BY <1>t, <2>0, <2>h DEF MatchType
    <2>2. NotNegative'
      BY <1>t, <2>0 DEF NotNegative, MatchType
    <2>3. CallsSeeThemselves'
      BY <1>t, <2>0, <2>h DEF CallsSeeThemselves, CounterOf, Ahead, MatchType
    <2>4. PassedBelowLimit'
      BY <1>t, <2>h DEF PassedBelowLimit, HistType
    <2> QED
      BY <2>1, <2>2, <2>3, <2>4 DEF MatchInv
  <1>7. CASE UNCHANGED vars
    BY <1>t, <1>7 DEF vars, MatchInv, MatchType, NotNegative, CallsSeeThemselves, PassedBelowLimit,
                      CounterOf, Ahead
  <1> QED
    BY <1>1, <1>2, <1>3, <1>4, <1>5, <1>6, <1>7 DEF Next, ResetSent, ResetRecv, Counter

\* Whatever the number of threads, the rules and the lengths of the packets: a
\* packet that match_filter lets through a limited filter was counted below the
\* limit, since every call reads the counters after it added to them.
THEOREM FilterPassedBelowLimit == Spec => []PassedBelowLimit
  <1>1. MatchInv => PassedBelowLimit
    BY DEF MatchInv
  <1> QED
    BY InitInv, StepInv, <1>1, PTL DEF Spec
----------------------------------------------------------------------------
(* The packet, the rule and the direction a call has settled on.             *)

\* A rule without a condition on the counters matches alike at all times.
LEMMA CounterIndependent ==
    ASSUME NEW rule, NEW data, NEW c, NEW e, rule.condition_type = "ALWAYS"
    PROVE  /\ \A dir \in {FORWARD, BACKWARD} :
                  DirectionMatch(rule, data, c, dir) = DirectionMatch(rule, data, e, dir)
           /\ RuleDirection(rule, data, c) = RuleDirection(rule, data, e)
  <1>1. ConditionMatch(rule, c) = TRUE /\ ConditionMatch(rule, e) = TRUE
    BY DEF ConditionMatch
  <1>2. \A dir \in {FORWARD, BACKWARD} :
            DirectionMatch(rule, data, c, dir) = DirectionMatch(rule, data, e, dir)
    BY <1>1 DEF DirectionMatch
  <1> QED
    BY <1>2 DEF RuleDirection

\* The answer to a packet: both ends and the direction exchanged, all else kept.
LEMMA ReversedFields ==
    ASSUME NEW data, DOMAIN data = Input
    PROVE  LET back == Reversed(data) IN
           /\ back.src = data.dst /\ back.dst = data.src
           /\ back.proto = data.proto /\ back.icmp = data.icmp /\ back.flags = data.flags
           /\ back.lt = data.lt /\ back.nNicAlias = data.nNicAlias
           /\ back.bWithNat = data.bWithNat /\ back.nPrevFilter = data.nPrevFilter
           /\ back.mat = data.mat /\ back.hosts = data.hosts /\ back.users = data.users
  BY DEF Reversed, Input

\* A mirrored rule matches the answer in one direction exactly when it matches
\* the packet in the other.
LEMMA MirroredMatch ==
    ASSUME NEW rule, NEW data, NEW c, DOMAIN data = Input, Mirrored(rule)
    PROVE  /\ DirectionMatch(rule, Reversed(data), c, FORWARD)
                <=> DirectionMatch(rule, data, c, BACKWARD)
           /\ DirectionMatch(rule, Reversed(data), c, BACKWARD)
                <=> DirectionMatch(rule, data, c, FORWARD)
           /\ NatAndNicMatch(rule, Reversed(data)) <=> NatAndNicMatch(rule, data)
           /\ TriesBackward(rule)
  <1> DEFINE back == Reversed(data)
  <1>1. /\ back.src = data.dst /\ back.dst = data.src
        /\ back.proto = data.proto /\ back.icmp = data.icmp /\ back.flags = data.flags
        /\ back.lt = data.lt /\ back.nNicAlias = data.nNicAlias
        /\ back.bWithNat = data.bWithNat /\ back.nPrevFilter = data.nPrevFilter
        /\ back.mat = data.mat /\ back.hosts = data.hosts /\ back.users = data.users
    BY ReversedFields
  <1> HIDE DEF back
  <1>2. /\ rule.src.type \notin {"INCOMING", "OUTGOING"}
        /\ rule.dst.type \notin {"INCOMING", "OUTGOING"}
        /\ rule.pkt_options = {} /\ TriesBackward(rule)
    BY DEF Mirrored
  <1>3. \A e : /\ SrcAddrMatch(rule.src, e, back) <=> SrcAddrMatch(rule.src, e, data)
               /\ DstAddrMatch(rule.dst, e, back) <=> DstAddrMatch(rule.dst, e, data)
    BY <1>1, <1>2 DEF SrcAddrMatch, DstAddrMatch, AddrMatch
  <1>4. Ends(back, FORWARD) = Ends(data, BACKWARD) /\ Ends(back, BACKWARD) = Ends(data, FORWARD)
    BY <1>1 DEF Ends, FORWARD, BACKWARD
  <1>5. \A ends : /\ ProtoMatch(rule, back, ends) <=> ProtoMatch(rule, data, ends)
                  /\ MacMatch(rule, back, ends) <=> MacMatch(rule, data, ends)
    BY <1>1 DEF ProtoMatch, MacMatch, MacEqual
  <1>6. \A dir \in {FORWARD, BACKWARD} : OptionsMatch(rule, back, dir) /\ OptionsMatch(rule, data, dir)
    BY <1>2 DEF OptionsMatch
  <1>7. PrevFilterMatch(rule, back) <=> PrevFilterMatch(rule, data)
    BY <1>1 DEF PrevFilterMatch
  <1>8. NatAndNicMatch(rule, back) <=> NatAndNicMatch(rule, data)
    BY <1>1 DEF NatAndNicMatch
  <1>9. /\ DirectionMatch(rule, back, c, FORWARD) <=> DirectionMatch(rule, data, c, BACKWARD)
        /\ DirectionMatch(rule, back, c, BACKWARD) <=> DirectionMatch(rule, data, c, FORWARD)
    BY <1>1, <1>3, <1>4, <1>5, <1>6, <1>7 DEF DirectionMatch
  <1> QED
    BY <1>2, <1>8, <1>9 DEF back
AllMirrored == \A i \in DOMAIN this.rules : Mirrored(this.rules[i])

\* What a call with mirrored rules has found stays what it would find.
CallsMatch ==
    \A t \in Thread : pc[t] # "idle" =>
        /\ call[t].data \in scen.inputs
        /\ call[t].rule \in {0} \cup DOMAIN this.rules
        /\ AllMirrored =>
              IF call[t].rule = 0 THEN NoRuleMatches(this, call[t].data, cnt)
              ELSE /\ FirstMatch(this, call[t].data, cnt, call[t].rule)
                   /\ call[t].dir = RuleDirection(Rule(t), call[t].data, cnt)

\* Only the match itself settles the packet, the rule and the direction.
LEMMA CallSteps ==
    ASSUME MatchInv, [Next]_vars, NEW t \in Thread
    PROVE  \/ call'[t] = call[t] /\ (pc'[t] = "idle" <=> pc[t] = "idle")
           \/ \E data \in scen.inputs :
                  \/ /\ NoRuleMatches(this, data, cnt) /\ cnt' = cnt
                     /\ call'[t] = [data |-> data, rule |-> 0, dir |-> NoMatch]
                  \/ \E i \in DOMAIN this.rules :
                         /\ FirstMatch(this, data, cnt, i) /\ cnt' = cnt
                         /\ call'[t] = [data |-> data, rule |-> i,
                                        dir |-> RuleDirection(this.rules[i], data, cnt)]
  <1>t. /\ DOMAIN call = Thread
        /\ pc \in [Thread -> {"idle", "add", "check", "return", "done"}]
    BY DEF MatchInv, MatchType
  <1>1. ASSUME NEW u \in Thread, NEW data \in scen.inputs, MatchNothing(u, data)
        PROVE  \/ call'[t] = call[t] /\ pc'[t] = pc[t]
               \/ /\ NoRuleMatches(this, data, cnt) /\ cnt' = cnt
                  /\ call'[t] = [data |-> data, rule |-> 0, dir |-> NoMatch]
    BY <1>t, <1>1 DEF MatchNothing
  <1>2. ASSUME NEW u \in Thread, NEW data \in scen.inputs, NEW i \in DOMAIN this.rules,
               MatchRule(u, data, i)
        PROVE  \/ call'[t] = call[t] /\ pc'[t] = pc[t]
               \/ /\ FirstMatch(this, data, cnt, i) /\ cnt' = cnt
                  /\ call'[t] = [data |-> data, rule |-> i,
                                 dir |-> RuleDirection(this.rules[i], data, cnt)]
    BY <1>t, <1>2 DEF MatchRule
  <1>3. ASSUME NEW u \in Thread, AddCnt(u) \/ Return(u) \/ \E d \in Counter : LoadCnt(u, d)
        PROVE  call' = call /\ (pc'[t] = "idle" <=> pc[t] = "idle")
    BY <1>t, <1>3 DEF AddCnt, LoadCnt, Return
  <1>4. ASSUME ResetSent \/ ResetRecv \/ UNCHANGED vars
        PROVE  call' = call /\ pc' = pc
    BY <1>4 DEF ResetSent, ResetRecv, ResetCnt, vars
  <1> QED
    BY <1>1, <1>2, <1>3, <1>4 DEF Next

LEMMA StepCallsMatch == MatchInv /\ CallsMatch /\ [Next]_vars => CallsMatch'
  <1> SUFFICES ASSUME MatchInv, CallsMatch, [Next]_vars, NEW t \in Thread, pc'[t] # "idle"
               PROVE  /\ call'[t].data \in scen.inputs
                      /\ call'[t].rule \in {0} \cup DOMAIN this.rules
                      /\ AllMirrored =>
                            IF call'[t].rule = 0 THEN NoRuleMatches(this, call'[t].data, cnt')
                            ELSE /\ FirstMatch(this, call'[t].data, cnt', call'[t].rule)
                                 /\ call'[t].dir = RuleDirection(this.rules[call'[t].rule], call'[t].data, cnt')
    BY FilterFixed DEF CallsMatch, AllMirrored, Rule
  <1>0. /\ DOMAIN this.rules = 1 .. Len(this.rules) /\ Len(this.rules) \in Nat
    BY ScenarioAssumption DEF MatchInv, MatchType, this
  <1>1. CASE call'[t] = call[t] /\ (pc'[t] = "idle" <=> pc[t] = "idle")
    <2>1. ASSUME AllMirrored
          PROVE  /\ \A i \in DOMAIN this.rules :
                        RuleDirection(this.rules[i], call[t].data, cnt')
                            = RuleDirection(this.rules[i], call[t].data, cnt)
      BY <2>1, CounterIndependent DEF AllMirrored, Mirrored
    <2>2. ASSUME AllMirrored, NoRuleMatches(this, call[t].data, cnt)
          PROVE  NoRuleMatches(this, call[t].data, cnt')
      BY <2>1, <2>2 DEF NoRuleMatches
    <2>3. ASSUME AllMirrored, NEW i \in DOMAIN this.rules, FirstMatch(this, call[t].data, cnt, i)
          PROVE  FirstMatch(this, call[t].data, cnt', i)
      <3>1. \A j \in 1 .. i - 1 : j \in DOMAIN this.rules
        BY <1>0, <2>3
      <3> QED
        BY <2>1, <2>3, <3>1 DEF FirstMatch
    <2> QED
      BY <1>1, <2>1, <2>2, <2>3 DEF CallsMatch, Rule
  <1>2. CASE \E data \in scen.inputs :
                 \/ /\ NoRuleMatches(this, data, cnt) /\ cnt' = cnt
                    /\ call'[t] = [data |-> data, rule |-> 0, dir |-> NoMatch]
                 \/ \E i \in DOMAIN this.rules :
                        /\ FirstMatch(this, data, cnt, i) /\ cnt' = cnt
                        /\ call'[t] = [data |-> data, rule |-> i,
                                       dir |-> RuleDirection(this.rules[i], data, cnt)]
    <2>1. PICK data \in scen.inputs :
                 \/ /\ NoRuleMatches(this, data, cnt) /\ cnt' = cnt
                    /\ call'[t] = [data |-> data, rule |-> 0, dir |-> NoMatch]
                 \/ \E i \in DOMAIN this.rules :
                        /\ FirstMatch(this, data, cnt, i) /\ cnt' = cnt
                        /\ call'[t] = [data |-> data, rule |-> i,
                                       dir |-> RuleDirection(this.rules[i], data, cnt)]
      BY <1>2
    <2>2. CASE /\ NoRuleMatches(this, data, cnt) /\ cnt' = cnt
               /\ call'[t] = [data |-> data, rule |-> 0, dir |-> NoMatch]
      BY <2>2
    <2>3. ASSUME NEW i \in DOMAIN this.rules,
                 FirstMatch(this, data, cnt, i), cnt' = cnt,
                 call'[t] = [data |-> data, rule |-> i, dir |-> RuleDirection(this.rules[i], data, cnt)]
          PROVE  /\ call'[t].data \in scen.inputs
                 /\ call'[t].rule \in DOMAIN this.rules /\ call'[t].rule # 0
                 /\ FirstMatch(this, call'[t].data, cnt', call'[t].rule)
                 /\ call'[t].dir = RuleDirection(this.rules[call'[t].rule], call'[t].data, cnt')
      <3>1. i # 0
        BY <1>0, <2>3
      <3> QED
        BY <2>3, <3>1
    <2> QED
      BY <2>1, <2>2, <2>3
  <1> QED
    BY <1>1, <1>2, CallSteps

\* The answer to a packet meets the rule the packet met and is counted in the
\* other counter, for all mirrored rules and at whatever counters.
THEOREM FilterAnswerCountedOpposite == Spec => []AnswerCountedOpposite
  <1>1. Init => CallsMatch
    BY DEF Init, CallsMatch
  <1>2. ASSUME MatchInv, CallsMatch PROVE AnswerCountedOpposite
    <2> SUFFICES ASSUME NEW t \in Thread, pc[t] # "idle", AllMirrored
                 PROVE  LET data == call[t].data
                            i == call[t].rule
                            back == Reversed(data)
                        IN  IF i = 0 THEN NoRuleMatches(this, back, cnt)
                            ELSE /\ FirstMatch(this, back, cnt, i)
                                 /\ \/ {call[t].dir, RuleDirection(Rule(t), back, cnt)} = {FORWARD, BACKWARD}
                                    \/ \A dir \in {FORWARD, BACKWARD} : DirectionMatch(Rule(t), data, cnt, dir)
      BY DEF AnswerCountedOpposite, AllMirrored
    <2> DEFINE data == call[t].data
               i == call[t].rule
               back == Reversed(data)
    <2>1. /\ DOMAIN data = Input
          /\ i \in {0} \cup DOMAIN this.rules
          /\ DOMAIN this.rules = 1 .. Len(this.rules) /\ Len(this.rules) \in Nat
          /\ IF i = 0 THEN NoRuleMatches(this, data, cnt)
             ELSE FirstMatch(this, data, cnt, i) /\ call[t].dir = RuleDirection(Rule(t), data, cnt)
      BY <1>2, ScenarioAssumption DEF CallsMatch, MatchInv, MatchType, this
    <2>2. back.lt = data.lt
      BY <2>1, ReversedFields
    <2>3. \A j \in DOMAIN this.rules :
              /\ DirectionMatch(this.rules[j], back, cnt, FORWARD) <=> DirectionMatch(this.rules[j], data, cnt, BACKWARD)
              /\ DirectionMatch(this.rules[j], back, cnt, BACKWARD) <=> DirectionMatch(this.rules[j], data, cnt, FORWARD)
              /\ NatAndNicMatch(this.rules[j], back) <=> NatAndNicMatch(this.rules[j], data)
              /\ TriesBackward(this.rules[j])
      BY <2>1, MirroredMatch DEF AllMirrored
    <2> HIDE DEF back, data, i
    <2>4. \A j \in DOMAIN this.rules :
              RuleDirection(this.rules[j], back, cnt) = NoMatch <=> RuleDirection(this.rules[j], data, cnt) = NoMatch
      BY <2>3 DEF RuleDirection, FORWARD, BACKWARD, NoMatch
    <2>5. ASSUME i = 0 PROVE NoRuleMatches(this, back, cnt)
      BY <2>1, <2>2, <2>4, <2>5 DEF NoRuleMatches
    <2>6. ASSUME i # 0 PROVE FirstMatch(this, back, cnt, i)
      <3>1. \A j \in 1 .. i - 1 : j \in DOMAIN this.rules
        BY <2>1, <2>6
      <3> QED
        BY <2>1, <2>2, <2>4, <2>6, <3>1 DEF FirstMatch
    <2>7. ASSUME i # 0
          PROVE  \/ {call[t].dir, RuleDirection(Rule(t), back, cnt)} = {FORWARD, BACKWARD}
                 \/ \A dir \in {FORWARD, BACKWARD} : DirectionMatch(Rule(t), data, cnt, dir)
      <3>1. Rule(t) = this.rules[i] /\ i \in DOMAIN this.rules
        BY <2>1, <2>7 DEF Rule, i
      <3>2. RuleDirection(Rule(t), data, cnt) # NoMatch /\ call[t].dir = RuleDirection(Rule(t), data, cnt)
        BY <2>1, <2>7, <3>1 DEF FirstMatch
      <3> QED
        BY <2>3, <3>1, <3>2 DEF RuleDirection
    <2> QED
      BY <2>5, <2>6, <2>7 DEF back, data, i
  <1> QED
    BY InitInv, StepInv, StepCallsMatch, <1>1, <1>2, PTL DEF Spec

\* A rule for opening TCP packets matches nothing else: it is not tried
\* backward, and forward the flags are tested.
THEOREM FilterSynRuleOnlyOpens == Spec => []SynRuleOnlyOpens
  <1>1. Init => SynRuleOnlyOpens
    BY DEF Init, SynRuleOnlyOpens
  <1>2. ASSUME NEW rule, NEW data, NEW c, "TCPSYN" \in rule.pkt_options, data.proto = 6,
               RuleDirection(rule, data, c) # NoMatch
        PROVE  /\ RuleDirection(rule, data, c) = FORWARD
               /\ "SYN" \in data.flags /\ "ACK" \notin data.flags
    <2>1. ~ TriesBackward(rule)
      BY <1>2 DEF TriesBackward
    <2>2. RuleDirection(rule, data, c) = FORWARD /\ DirectionMatch(rule, data, c, FORWARD)
      BY <1>2, <2>1 DEF RuleDirection
    <2>3. OptionsMatch(rule, data, FORWARD)
      BY <2>2 DEF DirectionMatch
    <2> QED
      BY <1>2, <2>2, <2>3 DEF OptionsMatch
  <1>3. ASSUME MatchInv, SynRuleOnlyOpens, [Next]_vars PROVE SynRuleOnlyOpens'
    <2> SUFFICES ASSUME NEW t \in Thread,
                        pc'[t] # "idle", call'[t].rule # 0, call'[t].data.proto = 6,
                        \A i \in DOMAIN this.rules : "TCPSYN" \in this.rules[i].pkt_options
                 PROVE  /\ "SYN" \in call'[t].data.flags /\ "ACK" \notin call'[t].data.flags
                        /\ call'[t].dir = FORWARD
      BY <1>3, FilterFixed DEF SynRuleOnlyOpens
    <2>1. CASE call'[t] = call[t] /\ (pc'[t] = "idle" <=> pc[t] = "idle")
      BY <1>3, <2>1 DEF SynRuleOnlyOpens
    <2>2. ASSUME NEW data, NEW i \in DOMAIN this.rules,
                 FirstMatch(this, data, cnt, i),
                 call'[t] = [data |-> data, rule |-> i, dir |-> RuleDirection(this.rules[i], data, cnt)]
          PROVE  /\ "SYN" \in call'[t].data.flags /\ "ACK" \notin call'[t].data.flags
                 /\ call'[t].dir = FORWARD
      <3>1. data.proto = 6 /\ RuleDirection(this.rules[i], data, cnt) # NoMatch
        BY <2>2 DEF FirstMatch
      <3> QED
        BY <1>2, <2>2, <3>1
    <2>3. ASSUME NEW data, call'[t] = [data |-> data, rule |-> 0, dir |-> NoMatch]
          PROVE  FALSE
      BY <2>3
    <2> QED
      BY <1>3, <2>1, <2>2, <2>3, CallSteps
  <1> QED
    BY InitInv, StepInv, <1>1, <1>3, PTL DEF Spec
----------------------------------------------------------------------------
(* How far the counter runs past the bound of a rule "less than so many      *)
(* bytes sent".                                                              *)

\* The threads between the test of the counter and the addition.
Adding == {t \in Thread : pc[t] = "add"}

\* The filter has only rules for less than lim bytes sent.
LessRules(lim) ==
    /\ ~ this.m_bRevers /\ scen.cnt["sent"] < lim
    /\ \A i \in DOMAIN this.rules :
           /\ this.rules[i].condition_type = "SENT_LESS"
           /\ this.rules[i].condition_limit <= lim

\* Each thread that has passed the test still has its packet to add.
Overshoot ==
    \A lim \in Nat : LessRules(lim) =>
        cnt["sent"] + Cardinality(Adding) * MaxLength < lim + Cardinality(Thread) * MaxLength

\* The largest length of the packets of a scenario.
LEMMA MaxLengthBound ==
    ASSUME MatchType
    PROVE  MaxLength \in Nat /\ \A d \in scen.inputs : d.length <= MaxLength
  <1> DEFINE P(n) == \A d \in scen.inputs : d.length <= n
             lengths == {d.length : d \in scen.inputs}
  <1>1. \E n \in lengths : P(n)
    BY ScenarioAssumption DEF MatchType
  <1>2. MaxLength = CHOOSE n \in lengths : P(n)
    BY DEF MaxLength
  <1> HIDE DEF P
  <1>3. MaxLength \in lengths /\ P(MaxLength)
    BY <1>1, <1>2, Zenon
  <1> QED
    BY <1>3, ScenarioAssumption DEF P, MatchType

LEMMA Product ==
    ASSUME NEW a \in Nat, NEW b \in Nat, NEW m \in Nat, a <= b
    PROVE  /\ a * m \in Nat /\ b * m \in Nat
           /\ a * m <= b * m
           /\ (a + 1) * m = a * m + m
  OBVIOUS

\* The number of threads that are about to add, after a step of thread t.
LEMMA AddingCount ==
    /\ IsFiniteSet(Adding) /\ Cardinality(Adding) \in Nat
    /\ Cardinality(Thread) \in Nat /\ Cardinality(Adding) <= Cardinality(Thread)
  BY ThreadAssumption, FS_Subset, FS_CardinalityType DEF Adding

LEMMA StepOvershoot == MatchInv /\ CallsMatch /\ Overshoot /\ [Next]_vars => Overshoot'
  <1> SUFFICES ASSUME MatchInv, CallsMatch, Overshoot, [Next]_vars,
                      NEW lim \in Nat, LessRules(lim)
               PROVE  cnt'["sent"] + Cardinality(Adding') * MaxLength
                          < lim + Cardinality(Thread) * MaxLength
    BY FilterFixed DEF Overshoot, LessRules, MaxLength
  <1> DEFINE m == MaxLength
             n == Cardinality(Thread)
             k == Cardinality(Adding)
             l == Cardinality(Adding')
  <1>1. m \in Nat /\ \A d \in scen.inputs : d.length <= m
    BY MaxLengthBound DEF MatchInv
  <1>2. k \in Nat /\ n \in Nat /\ k <= n /\ IsFiniteSet(Adding)
    BY AddingCount
  <1>3. Adding' \in SUBSET Thread
    BY DEF Adding
  <1>4. l \in Nat /\ l <= n
    BY <1>3, ThreadAssumption, FS_Subset, FS_CardinalityType
  <1>5. cnt["sent"] + k * m < lim + n * m
    BY DEF Overshoot
  <1>6. /\ cnt \in [Counter -> Int] /\ cnt["sent"] \in Int
        /\ pc \in [Thread -> {"idle", "add", "check", "return", "done"}]
        /\ ~ this.m_bRevers /\ lim > 0
    BY ScenarioAssumption DEF MatchInv, MatchType, LessRules, Counter
  <1> HIDE DEF m, n, k, l
  <1>7. ASSUME cnt' = cnt, Adding' \subseteq Adding
        PROVE  cnt'["sent"] + l * m < lim + n * m
    <2>1. l <= k
      BY <1>2, <1>7, FS_Subset DEF k, l
    <2>2. l * m <= k * m /\ l * m \in Nat /\ k * m \in Nat /\ n * m \in Nat
      BY <1>1, <1>2, <1>4, <2>1, Product
    <2> QED
      BY <1>5, <1>6, <1>7, <2>2
  <1>8. ASSUME cnt'["sent"] \in Int, cnt'["sent"] < lim
        PROVE  cnt'["sent"] + l * m < lim + n * m
    <2>1. l * m <= n * m /\ l * m \in Nat /\ n * m \in Nat
      BY <1>1, <1>2, <1>4, Product
    <2> QED
      BY <1>8, <2>1
  <1>9. ASSUME NEW t \in Thread, NEW data \in scen.inputs, MatchNothing(t, data)
        PROVE  cnt'["sent"] + l * m < lim + n * m
    BY <1>6, <1>7, <1>9 DEF MatchNothing, Adding
  <1>10. ASSUME NEW t \in Thread, NEW data \in scen.inputs, NEW i \in DOMAIN this.rules,
                MatchRule(t, data, i)
         PROVE  cnt'["sent"] + l * m < lim + n * m
    <2>1. RuleDirection(this.rules[i], data, cnt) # NoMatch
      BY <1>10 DEF MatchRule, FirstMatch
    <2>2. ConditionMatch(this.rules[i], cnt)
      BY <2>1 DEF RuleDirection, DirectionMatch
    <2>3. cnt["sent"] < this.rules[i].condition_limit
      BY <2>2 DEF ConditionMatch, LessRules
    <2>4. this.rules[i].condition_limit \in Nat
      BY ScenarioAssumption DEF MatchInv, MatchType, this
    <2>5. cnt' = cnt
      BY <1>10 DEF MatchRule
    <2> QED
      BY <1>6, <1>8, <2>3, <2>4, <2>5 DEF LessRules
  <1>11. ASSUME NEW t \in Thread, AddCnt(t)
         PROVE  cnt'["sent"] + l * m < lim + n * m
    <2>1. Adding' = Adding \ {t} /\ t \in Adding
      BY <1>6, <1>11 DEF AddCnt, Adding
    <2>2. l = k - 1
      BY <1>2, <2>1, FS_RemoveElement DEF k, l
    <2>3. call[t].data.length \in Nat /\ call[t].data.length <= m
      BY <1>1, <1>11 DEF AddCnt, CallsMatch, MatchInv, MatchType
    <2>4. cnt'["sent"] \in Int /\ cnt'["sent"] <= cnt["sent"] + m
      BY <1>1, <1>6, <1>11, <2>3 DEF AddCnt, NewCount, CounterOf, Counter
    <2>5. l \in Nat /\ k = l + 1
      BY <1>2, <1>4, <2>2
    <2>6. (l + 1) * m = l * m + m /\ l * m \in Nat /\ n * m \in Nat
      BY <1>1, <1>2, <1>4, Product
    <2> QED
      BY <1>1, <1>5, <1>6, <2>4, <2>5, <2>6
  <1>12. ASSUME NEW t \in Thread, NEW d \in Counter, LoadCnt(t, d)
         PROVE  cnt'["sent"] + l * m < lim + n * m
    BY <1>7, <1>12 DEF LoadCnt, Adding
  <1>13. ASSUME NEW t \in Thread, Return(t)
         PROVE  cnt'["sent"] + l * m < lim + n * m
    <2>1. pc' = [pc EXCEPT ![t] = "done"] /\ cnt' = cnt
      BY <1>13 DEF Return
    <2>2. Adding' \subseteq Adding
      BY <1>6, <2>1 DEF Adding
    <2> QED
      BY <1>7, <2>1, <2>2
  <1>14. CASE ResetSent
    BY <1>6, <1>8, <1>14 DEF ResetSent, ResetCnt, Counter, m, n, l
  <1>15. CASE ResetRecv
    <2>1. cnt'["sent"] = cnt["sent"] /\ Adding' = Adding
      BY <1>6, <1>15 DEF ResetRecv, ResetCnt, Counter, Adding
    <2> QED
      BY <1>5, <2>1 DEF k, m, n
  <1>16. CASE UNCHANGED vars
    BY <1>7, <1>16 DEF vars, Adding, m, n, l
  <1> QED
    BY <1>9, <1>10, <1>11, <1>12, <1>13, <1>14, <1>15, <1>16 DEF Next, m, n, l

\* The bytes sent pass the bound of a rule by less than one packet of each
\* thread, for any number of threads and any lengths: match_filter tests the
\* counter before it adds.
THEOREM FilterOvershootBounded == Spec => []OvershootBounded
  <1>1. ASSUME Init PROVE Overshoot
    <2> SUFFICES ASSUME NEW lim \in Nat, LessRules(lim)
                 PROVE  cnt["sent"] + Cardinality(Adding) * MaxLength < lim + Cardinality(Thread) * MaxLength
      BY DEF Overshoot
    <2>1. MatchType
      BY <1>1, InitInv DEF MatchInv
    <2>2. Cardinality(Adding) * MaxLength <= Cardinality(Thread) * MaxLength
          /\ Cardinality(Adding) * MaxLength \in Nat /\ Cardinality(Thread) * MaxLength \in Nat
      BY <2>1, AddingCount, MaxLengthBound, Product
    <2>3. cnt["sent"] \in Int /\ cnt["sent"] < lim
      BY <1>1, <2>1 DEF Init, LessRules, MatchType, Counter
    <2> QED
      BY <2>2, <2>3
  <1>2. ASSUME MatchInv, Overshoot PROVE OvershootBounded
    <2> SUFFICES ASSUME NEW i \in DOMAIN this.rules, LessRules(this.rules[i].condition_limit)
                 PROVE  cnt["sent"] < this.rules[i].condition_limit + Cardinality(Thread) * MaxLength
      BY DEF OvershootBounded, LessRules
    <2> DEFINE lim == this.rules[i].condition_limit
               a == Cardinality(Adding) * MaxLength
               b == Cardinality(Thread) * MaxLength
    <2>1. lim \in Nat /\ cnt["sent"] \in Int
      BY <1>2, ScenarioAssumption DEF MatchInv, MatchType, this, Counter
    <2>2. a \in Nat /\ b \in Nat
      BY <1>2, AddingCount, MaxLengthBound, Product DEF MatchInv
    <2>3. cnt["sent"] + a < lim + b
      BY <1>2, <2>1 DEF Overshoot
    <2> HIDE DEF lim, a, b
    <2>4. cnt["sent"] < lim + b
      BY <2>1, <2>2, <2>3
    <2> QED
      BY <2>4 DEF lim, b
  <1>3. Init => CallsMatch
    BY DEF Init, CallsMatch
  <1> QED
    BY InitInv, StepInv, StepCallsMatch, StepOvershoot, <1>1, <1>2, <1>3, PTL DEF Spec
----------------------------------------------------------------------------
(* The bytes let through, in total.                                          *)

\* How far a counter has moved from the value last stored in it.
Depth(d, v) == IF this.m_bRevers THEN hist.base[d] - v ELSE v - hist.base[d]

\* A call whose packet is counted and that has yet to decide.
Undecided(t) == hist.counted[t] /\ pc[t] \in {"check", "return"}

\* The bytes a call has counted, numbered from the value last stored.
Last(t) == Depth(CounterOf(t), hist.pos[t])
Bytes(t) == Last(t) - call[t].data.length + 1 .. Last(t)

\* Every byte let through is one of those counted, and no byte is counted, or
\* let through, twice.
CountedBytes ==
    /\ \A d \in Counter : hist.base[d] \in Nat /\ Depth(d, cnt[d]) >= 0
    /\ \A t \in Thread : Undecided(t) =>
          call[t].data.length <= Last(t) /\ Last(t) <= Depth(CounterOf(t), cnt[CounterOf(t)])
    /\ \A t, u \in Thread :
          Undecided(t) /\ Undecided(u) /\ t # u /\ CounterOf(t) = CounterOf(u) =>
              Bytes(t) \cap Bytes(u) = {}
PassedBytes(d) ==
    \E S \in SUBSET (1 .. Depth(d, cnt[d])) :
        /\ Cardinality(S) = hist.passed[d]
        /\ S = {} \/ \E p \in hist.passedAt[d] : S \subseteq 1 .. Depth(d, p)
        /\ \A t \in Thread : Undecided(t) /\ CounterOf(t) = d => S \cap Bytes(t) = {}
BytesInv == CountedBytes /\ \A d \in Counter : PassedBytes(d)

\* A filter whose limit is on the sum of both counters.
SumLimited == Limited /\ this.m_nTrafficLimitType = "SENT_PLUS_RECV"
Other(d) == IF d = "sent" THEN "recv" ELSE "sent"

\* A call will have read the counter d at v or later.
Sees(t, d, v) == d \in loaded[t] => seen[t][d] >= v

\* Of two calls the one that counted later reads what the other counted.
SumInv ==
    SumLimited =>
        /\ \A t \in Thread, d \in Counter : Sees(t, d, hist.base[d])
        /\ \A d \in Counter : \A p \in hist.passedAt[d] :
              p <= cnt[d] /\ p + hist.base[Other(d)] < this.m_nTrafficLimit
        /\ \A p \in hist.passedAt["sent"], q \in hist.passedAt["recv"] : p + q < this.m_nTrafficLimit
        /\ \A t, u \in Thread :
              Undecided(t) /\ Undecided(u) /\ CounterOf(t) = "sent" /\ CounterOf(u) = "recv" =>
                  Sees(t, "recv", hist.pos[u]) \/ Sees(u, "sent", hist.pos[t])
        /\ \A t \in Thread : Undecided(t) =>
              \A q \in hist.passedAt[Other(CounterOf(t))] :
                  Sees(t, Other(CounterOf(t)), q) \/ hist.pos[t] + q < this.m_nTrafficLimit
\* What the actions do to the history.
LEMMA MatchHist ==
    ASSUME MatchInv, NEW t \in Thread, NEW data, NEW i, MatchRule(t, data, i)
    PROVE  /\ hist'.base = hist.base /\ hist'.passed = hist.passed /\ hist'.pos = hist.pos
           /\ hist'.passedAt = hist.passedAt
           /\ hist'.counted = [hist.counted EXCEPT ![t] = FALSE]
  <1>1. hist \in HistType
    BY DEF MatchInv, MatchType
  <1> QED
    BY <1>1 DEF HistType, MatchRule

LEMMA AddHist ==
    ASSUME MatchInv, NEW t \in Thread, AddCnt(t)
    PROVE  /\ hist'.base = hist.base /\ hist'.passed = hist.passed
           /\ hist'.passedAt = hist.passedAt
           /\ hist'.pos = [hist.pos EXCEPT ![t] = NewCount(t)]
           /\ hist'.counted = [hist.counted EXCEPT ![t] = TRUE]
  <1>1. hist \in HistType
    BY DEF MatchInv, MatchType
  <1> DEFINE n == NewCount(t)
  <1>2. hist' = [hist EXCEPT !.pos[t] = n, !.counted[t] = TRUE]
    BY DEF AddCnt
  <1> HIDE DEF n
  <1>3. /\ hist'.base = hist.base /\ hist'.passed = hist.passed
        /\ hist'.passedAt = hist.passedAt
        /\ hist'.pos = [hist.pos EXCEPT ![t] = n]
        /\ hist'.counted = [hist.counted EXCEPT ![t] = TRUE]
    BY <1>1, <1>2 DEF HistType
  <1> QED
    BY <1>3 DEF n

LEMMA ReturnHist ==
    ASSUME MatchInv, NEW t \in Thread, Return(t)
    PROVE  /\ hist'.base = hist.base /\ hist'.pos = hist.pos /\ hist'.counted = hist.counted
           /\ \/ hist'.passed = hist.passed /\ hist'.passedAt = hist.passedAt
              \/ /\ hist.counted[t]
                 /\ pc[t] = "check" => ~ LimitExceeded(seen[t])
                 /\ hist'.passed = [hist.passed EXCEPT ![CounterOf(t)] = @ + call[t].data.length]
                 /\ hist'.passedAt = [hist.passedAt EXCEPT ![CounterOf(t)] = @ \cup {hist.pos[t]}]
  <1>1. hist \in HistType
    BY DEF MatchInv, MatchType
  <1> DEFINE c == CounterOf(t)
             bytes == [hist.passed EXCEPT ![c] = @ + call[t].data.length]
             at == [hist.passedAt EXCEPT ![c] = @ \cup {hist.pos[t]}]
  <1>2. \/ hist' = hist
        \/ /\ hist.counted[t]
           /\ pc[t] = "check" => ~ LimitExceeded(seen[t])
           /\ hist' = [hist EXCEPT !.passed = bytes, !.passedAt = at]
    BY DEF Return
  <1>3. ASSUME hist' = [hist EXCEPT !.passed = bytes, !.passedAt = at]
        PROVE  /\ hist'.base = hist.base /\ hist'.pos = hist.pos /\ hist'.counted = hist.counted
               /\ hist'.passed = bytes /\ hist'.passedAt = at
    <2> HIDE DEF bytes, at
    <2> QED
      BY <1>1, <1>3 DEF HistType
  <1> QED
    BY <1>2, <1>3

LEMMA ResetHist ==
    ASSUME MatchInv, NEW d \in Counter, ResetCnt(d)
    PROVE  /\ hist'.base = [hist.base EXCEPT ![d] = 0]
           /\ hist'.passed = [hist.passed EXCEPT ![d] = 0]
           /\ hist'.passedAt = [hist.passedAt EXCEPT ![d] = {}]
           /\ hist'.pos = hist.pos
           /\ hist'.counted = [t \in Thread |-> hist.counted[t] /\ CounterOf(t) # d]
  <1>1. hist \in HistType
    BY DEF MatchInv, MatchType
  <1> DEFINE k == [t \in Thread |-> hist.counted[t] /\ CounterOf(t) # d]
  <1>2. hist' = [hist EXCEPT !.base[d] = 0, !.passed[d] = 0, !.passedAt[d] = {}, !.counted = k]
    BY DEF ResetCnt
  <1> HIDE DEF k
  <1>3. /\ hist'.base = [hist.base EXCEPT ![d] = 0]
        /\ hist'.passed = [hist.passed EXCEPT ![d] = 0]
        /\ hist'.passedAt = [hist.passedAt EXCEPT ![d] = {}]
        /\ hist'.pos = hist.pos /\ hist'.counted = k
    BY <1>1, <1>2 DEF HistType
  <1> QED
    BY <1>3 DEF k

\* A step that counts nothing and lets nothing through.
LEMMA BytesKept ==
    ASSUME BytesInv, this' = this, cnt' = cnt, hist'.base = hist.base, hist'.passed = hist.passed,
           hist'.passedAt = hist.passedAt,
           \A u \in Thread : Undecided(u)' =>
               Undecided(u) /\ hist'.pos[u] = hist.pos[u] /\ call'[u] = call[u]
    PROVE  BytesInv'
  <1>2. \A u \in Thread : Undecided(u)' =>
            /\ Undecided(u) /\ CounterOf(u)' = CounterOf(u)
            /\ Last(u)' = Last(u) /\ Bytes(u)' = Bytes(u)
            /\ call'[u].data.length = call[u].data.length
    BY DEF CounterOf, Last, Bytes, Depth
  <1>3. \A d \in Counter : Depth(d, cnt[d])' = Depth(d, cnt[d])
    BY DEF Depth
  <1>4. CountedBytes'
    BY <1>2, <1>3 DEF BytesInv, CountedBytes, Depth
  <1>5. ASSUME NEW d \in Counter PROVE PassedBytes(d)'
    <2>1. PICK S \in SUBSET (1 .. Depth(d, cnt[d])) :
              /\ Cardinality(S) = hist.passed[d]
              /\ S = {} \/ \E p \in hist.passedAt[d] : S \subseteq 1 .. Depth(d, p)
              /\ \A t \in Thread : Undecided(t) /\ CounterOf(t) = d => S \cap Bytes(t) = {}
      BY DEF BytesInv, PassedBytes
    <2>2. S = {} \/ \E p \in hist'.passedAt[d] : S \subseteq 1 .. Depth(d, p)'
      BY <2>1 DEF Depth
    <2>3. \A t \in Thread : Undecided(t)' /\ CounterOf(t)' = d => S \cap Bytes(t)' = {}
      BY <1>2, <2>1
    <2> QED
      BY <1>3, <2>1, <2>2, <2>3 DEF PassedBytes
  <1> QED
    BY <1>4, <1>5 DEF BytesInv
LEMMA StepBytes == MatchInv /\ BytesInv /\ [Next]_vars => BytesInv'
  <1> SUFFICES ASSUME MatchInv, BytesInv, [Next]_vars PROVE BytesInv'
    OBVIOUS
  <1>f. this' = this
    BY FilterFixed
  <1>t. /\ DOMAIN call = Thread
        /\ pc \in [Thread -> {"idle", "add", "check", "return", "done"}]
        /\ cnt \in [Counter -> Int]
        /\ hist.pos \in [Thread -> Int] /\ hist.counted \in [Thread -> BOOLEAN]
        /\ hist.base \in [Counter -> Int] /\ hist.passed \in [Counter -> Int]
        /\ hist.passedAt \in [Counter -> SUBSET Int]
        /\ this.m_bRevers \in BOOLEAN
        /\ \A t \in Thread : CounterOf(t) \in Counter
        /\ \A t \in Thread : pc[t] # "idle" => call[t].data.length \in Nat
    BY ScenarioAssumption DEF MatchInv, MatchType, HistType, CounterOf, Counter, this
  <1>d. \A d \in Counter : \A v \in Int : Depth(d, v) \in Int
    BY <1>t DEF Depth
  <1>1. ASSUME NEW t \in Thread, NEW data \in scen.inputs, MatchNothing(t, data)
        PROVE  BytesInv'
    <2>1. \A u \in Thread : Undecided(u)' => Undecided(u) /\ hist'.pos[u] = hist.pos[u] /\ call'[u] = call[u]
      BY <1>t, <1>1 DEF MatchNothing, Undecided
    <2> QED
      BY <1>f, <1>1, <2>1, BytesKept DEF MatchNothing
  <1>2. ASSUME NEW t \in Thread, NEW data \in scen.inputs, NEW i \in DOMAIN this.rules,
               MatchRule(t, data, i)
        PROVE  BytesInv'
    <2>1. \A u \in Thread : Undecided(u)' => Undecided(u) /\ hist'.pos[u] = hist.pos[u] /\ call'[u] = call[u]
      BY <1>t, <1>2, MatchHist DEF MatchRule, Undecided
    <2> QED
      BY <1>f, <1>2, <2>1, MatchHist, BytesKept DEF MatchRule
  <1>3. ASSUME NEW t \in Thread, AddCnt(t) PROVE BytesInv'
    <2> DEFINE c == CounterOf(t)
               n == NewCount(t)
               len == call[t].data.length
               D == Depth(c, cnt[c])
    <2>1. /\ c \in Counter /\ len \in Nat /\ n \in Int /\ D \in Int /\ D >= 0
          /\ n = IF this.m_bRevers THEN cnt[c] - len ELSE cnt[c] + len
      BY <1>t, <1>3, <1>d DEF AddCnt, NewCount, BytesInv, CountedBytes
    <2>2. /\ cnt' = [cnt EXCEPT ![c] = n] /\ call' = call
          /\ \A u \in Thread : pc'[u] # pc[u] => u = t
          /\ hist'.base = hist.base /\ hist'.passed = hist.passed
          /\ hist'.passedAt = hist.passedAt
          /\ hist'.pos = [hist.pos EXCEPT ![t] = n]
          /\ hist'.counted = [hist.counted EXCEPT ![t] = TRUE]
      BY <1>t, <1>3, AddHist DEF AddCnt
    <2> HIDE DEF n, c, len
    <2>3. \A d \in Counter : Depth(d, cnt[d])' = IF d = c THEN D + len ELSE Depth(d, cnt[d])
      <3> SUFFICES ASSUME NEW d \in Counter
                   PROVE  Depth(d, cnt[d])' = IF d = c THEN D + len ELSE Depth(d, cnt[d])
        OBVIOUS
      <3>1. cnt'[d] = (IF d = c THEN n ELSE cnt[d]) /\ hist'.base[d] = hist.base[d]
        BY <1>t, <2>1, <2>2
      <3> QED
        BY <1>f, <1>t, <2>1, <3>1 DEF Depth
    <2>4. CounterOf(t)' = c /\ Last(t)' = D + len /\ Bytes(t)' = D + 1 .. D + len
      <3>1. CounterOf(t)' = c /\ call'[t].data.length = len
        BY <2>2 DEF CounterOf, c, len
      <3>2. hist'.pos[t] = n
        BY <1>t, <2>1, <2>2
      <3>3. Last(t)' = D + len
        BY <1>f, <1>t, <2>1, <2>2, <3>1, <3>2 DEF Last, Depth
      <3> QED
        BY <2>1, <3>1, <3>3 DEF Bytes
    <2>5. \A u \in Thread : u # t =>
              /\ Undecided(u)' = Undecided(u) /\ CounterOf(u)' = CounterOf(u)
              /\ Last(u)' = Last(u) /\ Bytes(u)' = Bytes(u)
      <3> SUFFICES ASSUME NEW u \in Thread, u # t
                   PROVE  /\ Undecided(u)' = Undecided(u) /\ CounterOf(u)' = CounterOf(u)
                          /\ Last(u)' = Last(u) /\ Bytes(u)' = Bytes(u)
        OBVIOUS
      <3>1. /\ pc'[u] = pc[u] /\ call'[u] = call[u] /\ hist'.counted[u] = hist.counted[u]
            /\ hist'.pos[u] = hist.pos[u]
        BY <1>t, <2>2
      <3> QED
        BY <1>f, <2>2, <3>1 DEF Undecided, CounterOf, Last, Bytes, Depth
    <2> HIDE DEF D
    <2> USE DEF c, len
    <2>6. \A u \in Thread : u # t /\ Undecided(u) => Last(u) \in Int
      BY <1>t, <1>d DEF Last
    <2>7. CountedBytes'
      <3>1. \A d \in Counter : hist'.base[d] \in Nat /\ Depth(d, cnt[d])' >= 0
        BY <2>1, <2>2, <2>3 DEF BytesInv, CountedBytes
      <3>2. ASSUME NEW u \in Thread, Undecided(u)'
            PROVE  call'[u].data.length <= Last(u)' /\ Last(u)' <= Depth(CounterOf(u), cnt[CounterOf(u)])'
        <4>1. CASE u = t
          <5>1. Depth(CounterOf(u), cnt[CounterOf(u)])' = D + len
            BY <2>1, <2>3, <2>4, <4>1
          <5> QED
            BY <2>1, <2>2, <2>4, <4>1, <5>1
        <4>2. CASE u # t
          <5>1. call[u].data.length <= Last(u) /\ Last(u) <= Depth(CounterOf(u), cnt[CounterOf(u)])
            BY <2>5, <3>2, <4>2 DEF BytesInv, CountedBytes
          <5>2. Depth(CounterOf(u), cnt[CounterOf(u)])' =
                    IF CounterOf(u) = c THEN D + len ELSE Depth(CounterOf(u), cnt[CounterOf(u)])
            BY <1>t, <2>3, <2>5, <4>2
          <5>3. Last(u) \in Int /\ Depth(CounterOf(u), cnt[CounterOf(u)]) \in Int
            BY <1>t, <1>d, <2>6, <2>5, <3>2, <4>2
          <5>4. call'[u] = call[u] /\ Last(u)' = Last(u)
            BY <2>2, <2>5, <4>2
          <5> QED
            BY <2>1, <5>1, <5>2, <5>3, <5>4 DEF D
        <4> QED
          BY <4>1, <4>2
      <3>3. ASSUME NEW u \in Thread, Undecided(u), u # t, CounterOf(u) = c
            PROVE  Bytes(u) \cap Bytes(t)' = {}
        <4>1. Last(u) <= D /\ Last(u) \in Int
          BY <2>6, <3>3 DEF BytesInv, CountedBytes, D
        <4>2. Bytes(u) = Last(u) - call[u].data.length + 1 .. Last(u)
          BY DEF Bytes
        <4>3. call[u].data.length \in Nat
          BY <1>t, <3>3 DEF Undecided
        <4> QED
          BY <2>1, <2>4, <4>1, <4>2, <4>3
      <3>4. ASSUME NEW u \in Thread, NEW w \in Thread, Undecided(u)', Undecided(w)', u # w,
                   CounterOf(u)' = CounterOf(w)'
            PROVE  Bytes(u)' \cap Bytes(w)' = {}
        <4>1. CASE u = t
          BY <2>4, <2>5, <3>3, <3>4, <4>1
        <4>2. CASE w = t
          BY <2>4, <2>5, <3>3, <3>4, <4>2
        <4>3. CASE u # t /\ w # t
          BY <2>5, <3>4, <4>3 DEF BytesInv, CountedBytes
        <4> QED
          BY <4>1, <4>2, <4>3
      <3> QED
        BY <3>1, <3>2, <3>4 DEF CountedBytes
    <2>8. ASSUME NEW d \in Counter PROVE PassedBytes(d)'
      <3>1. PICK S \in SUBSET (1 .. Depth(d, cnt[d])) :
                /\ Cardinality(S) = hist.passed[d]
                /\ S = {} \/ \E p \in hist.passedAt[d] : S \subseteq 1 .. Depth(d, p)
                /\ \A u \in Thread : Undecided(u) /\ CounterOf(u) = d => S \cap Bytes(u) = {}
        BY DEF BytesInv, PassedBytes
      <3>2. S = {} \/ \E p \in hist'.passedAt[d] : S \subseteq 1 .. Depth(d, p)'
        BY <1>f, <2>2, <3>1 DEF Depth
      <3>3. S \in SUBSET (1 .. Depth(d, cnt[d])')
        <4>1. CASE d = c
          BY <2>1, <2>3, <3>1, <4>1 DEF D
        <4>2. CASE d # c
          BY <2>3, <3>1, <4>2
        <4> QED
          BY <4>1, <4>2
      <3>4. ASSUME NEW u \in Thread, Undecided(u)', CounterOf(u)' = d PROVE S \cap Bytes(u)' = {}
        <4>1. CASE u = t
          BY <2>1, <2>4, <3>1, <3>4, <4>1 DEF D
        <4>2. CASE u # t
          BY <2>5, <3>1, <3>4, <4>2
        <4> QED
          BY <4>1, <4>2
      <3>5. Cardinality(S) = hist'.passed[d]
        BY <2>2, <3>1
      <3> QED
        BY <3>2, <3>3, <3>4, <3>5 DEF PassedBytes
    <2> QED
      BY <2>7, <2>8 DEF BytesInv
  <1>4. ASSUME NEW t \in Thread, NEW d \in Counter, LoadCnt(t, d) PROVE BytesInv'
    BY <1>f, <1>4, BytesKept DEF LoadCnt, Undecided
  <1>5. ASSUME NEW t \in Thread, Return(t) PROVE BytesInv'
    <2> DEFINE c == CounterOf(t)
               len == call[t].data.length
    <2>1. /\ cnt' = cnt /\ call' = call /\ pc' = [pc EXCEPT ![t] = "done"]
          /\ pc[t] \in {"check", "return"}
      BY <1>5 DEF Return
    <2>2. /\ hist'.base = hist.base /\ hist'.pos = hist.pos /\ hist'.counted = hist.counted
          /\ \/ hist'.passed = hist.passed /\ hist'.passedAt = hist.passedAt
             \/ /\ hist.counted[t]
                /\ hist'.passed = [hist.passed EXCEPT ![c] = @ + len]
                /\ hist'.passedAt = [hist.passedAt EXCEPT ![c] = @ \cup {hist.pos[t]}]
      BY <1>5, ReturnHist
    <2>3. \A u \in Thread : Undecided(u)' => u # t /\ Undecided(u) /\ hist'.pos[u] = hist.pos[u] /\ call'[u] = call[u]
      BY <1>t, <2>1, <2>2 DEF Undecided
    <2>4. CASE hist'.passed = hist.passed /\ hist'.passedAt = hist.passedAt
      BY <1>f, <2>1, <2>2, <2>3, <2>4, BytesKept
    <2>5. CASE /\ hist.counted[t]
               /\ hist'.passed = [hist.passed EXCEPT ![c] = @ + len]
               /\ hist'.passedAt = [hist.passedAt EXCEPT ![c] = @ \cup {hist.pos[t]}]
      <3>1. Undecided(t) /\ len \in Nat /\ c \in Counter /\ Last(t) \in Int
            /\ Depth(c, cnt[c]) \in Int
        BY <1>t, <1>d, <2>1, <2>5 DEF Undecided, Last
      <3>2. len <= Last(t) /\ Last(t) <= Depth(c, cnt[c])
        BY <3>1 DEF BytesInv, CountedBytes
      <3>3. \A u \in Thread : Undecided(u)' =>
                /\ Undecided(u) /\ u # t /\ CounterOf(u)' = CounterOf(u)
                /\ Last(u)' = Last(u) /\ Bytes(u)' = Bytes(u)
        BY <1>f, <2>1, <2>2, <2>3 DEF CounterOf, Last, Bytes, Depth
      <3>4. \A d \in Counter : Depth(d, cnt[d])' = Depth(d, cnt[d])
        BY <1>f, <2>1, <2>2 DEF Depth
      <3>5. CountedBytes'
        BY <1>f, <2>1, <2>2, <3>3, <3>4 DEF BytesInv, CountedBytes, Depth
      <3>6. ASSUME NEW d \in Counter PROVE PassedBytes(d)'
        <4>1. PICK S \in SUBSET (1 .. Depth(d, cnt[d])) :
                  /\ Cardinality(S) = hist.passed[d]
                  /\ S = {} \/ \E p \in hist.passedAt[d] : S \subseteq 1 .. Depth(d, p)
                  /\ \A u \in Thread : Undecided(u) /\ CounterOf(u) = d => S \cap Bytes(u) = {}
          BY DEF BytesInv, PassedBytes
        <4>2. CASE d # c
          <5>1. Cardinality(S) = hist'.passed[d]
            BY <1>t, <2>5, <4>1, <4>2
          <5>2. S = {} \/ \E p \in hist'.passedAt[d] : S \subseteq 1 .. Depth(d, p)'
            BY <1>f, <1>t, <2>2, <2>5, <4>1, <4>2 DEF Depth
          <5>3. \A u \in Thread : Undecided(u)' /\ CounterOf(u)' = d => S \cap Bytes(u)' = {}
            BY <3>3, <4>1
          <5> QED
            BY <3>4, <4>1, <5>1, <5>2, <5>3 DEF PassedBytes
        <4>3. CASE d = c
          <5> DEFINE T == S \cup Bytes(t)
          <5>1. Bytes(t) = Last(t) - len + 1 .. Last(t)
            BY DEF Bytes
          <5>2. IsFiniteSet(Bytes(t)) /\ Cardinality(Bytes(t)) = len
            <6>1. /\ IsFiniteSet(Last(t) - len + 1 .. Last(t))
                  /\ Cardinality(Last(t) - len + 1 .. Last(t)) =
                        IF Last(t) - len + 1 > Last(t) THEN 0 ELSE Last(t) - (Last(t) - len + 1) + 1
              <7>1. Last(t) - len + 1 \in Int
                BY <3>1
              <7> HIDE DEF len
              <7> QED
                BY <3>1, <7>1, FS_Interval
            <6> QED
              BY <3>1, <5>1, <6>1
          <5>3. IsFiniteSet(S)
            <6>1. IsFiniteSet(1 .. Depth(d, cnt[d]))
              BY <3>1, <4>3, FS_Interval
            <6> QED
              BY <6>1, <4>1, FS_Subset
          <5>4. S \cap Bytes(t) = {}
            BY <3>1, <4>1, <4>3
          <5>5. Cardinality(T) = Cardinality(S) + len
            <6>1. Cardinality(T) = Cardinality(S) + Cardinality(Bytes(t)) - Cardinality(S \cap Bytes(t))
              BY <5>2, <5>3, FS_Union
            <6>2. Cardinality(S) \in Nat
              BY <5>3, FS_CardinalityType
            <6> QED
              BY <3>1, <5>2, <5>4, <6>1, <6>2, FS_EmptySet
          <5>6. Cardinality(T) = hist'.passed[d]
            BY <1>t, <2>5, <4>1, <4>3, <5>5
          <5>7. T \in SUBSET (1 .. Depth(d, cnt[d])')
            <6>1. Bytes(t) \subseteq 1 .. Depth(d, cnt[d])
              BY <3>1, <3>2, <4>3, <5>1
            <6> QED
              BY <3>4, <4>1, <6>1
          <5>8. \E p \in hist'.passedAt[d] : T \subseteq 1 .. Depth(d, p)'
            <6>1. hist'.passedAt[d] = hist.passedAt[d] \cup {hist.pos[t]}
              BY <1>t, <2>5, <4>3
            <6>2. \A p : Depth(d, p)' = Depth(d, p)
              BY <1>f, <2>2 DEF Depth
            <6>3. Depth(d, hist.pos[t]) = Last(t)
              BY <4>3 DEF Last
            <6>4. Bytes(t) \subseteq 1 .. Last(t)
              BY <3>1, <3>2, <5>1
            <6>5. CASE S = {}
              BY <6>1, <6>2, <6>3, <6>4, <6>5
            <6>6. ASSUME NEW p \in hist.passedAt[d], S \subseteq 1 .. Depth(d, p)
                  PROVE  \E q \in hist'.passedAt[d] : T \subseteq 1 .. Depth(d, q)'
              <7>1. Depth(d, p) \in Int
                BY <1>t, <1>d
              <7>2. CASE Depth(d, p) <= Last(t)
                <8>1. 1 .. Depth(d, p) \subseteq 1 .. Last(t)
                  BY <3>1, <7>1, <7>2
                <8>2. T \subseteq 1 .. Depth(d, hist.pos[t])
                  BY <6>3, <6>4, <6>6, <8>1
                <8> QED
                  BY <6>1, <6>2, <8>2
              <7>3. CASE Last(t) <= Depth(d, p)
                <8>1. 1 .. Last(t) \subseteq 1 .. Depth(d, p)
                  BY <3>1, <7>1, <7>3
                <8>2. T \subseteq 1 .. Depth(d, p)
                  BY <6>4, <6>6, <8>1
                <8> QED
                  BY <6>1, <6>2, <8>2
              <7> QED
                BY <3>1, <7>1, <7>2, <7>3
            <6> QED
              BY <4>1, <6>5, <6>6
          <5>9. \A u \in Thread : Undecided(u)' /\ CounterOf(u)' = d => T \cap Bytes(u)' = {}
            <6> SUFFICES ASSUME NEW u \in Thread, Undecided(u)', CounterOf(u)' = d
                         PROVE  T \cap Bytes(u)' = {}
              OBVIOUS
            <6>1. Undecided(u) /\ u # t /\ CounterOf(u) = d /\ Bytes(u)' = Bytes(u)
              BY <3>3
            <6>2. Bytes(t) \cap Bytes(u) = {}
              BY <3>1, <4>3, <6>1 DEF BytesInv, CountedBytes
            <6> QED
              BY <4>1, <6>1, <6>2
          <5> HIDE DEF T
          <5> QED
            BY <5>6, <5>7, <5>8, <5>9 DEF PassedBytes
        <4> QED
          BY <4>2, <4>3
      <3> QED
        BY <3>5, <3>6 DEF BytesInv
    <2> QED
      BY <2>2, <2>4, <2>5
  <1>6. ASSUME NEW e \in Counter, ResetCnt(e) PROVE BytesInv'
    <2>1. /\ cnt' = [cnt EXCEPT ![e] = 0] /\ call' = call /\ pc' = pc
          /\ hist'.base = [hist.base EXCEPT ![e] = 0]
          /\ hist'.passed = [hist.passed EXCEPT ![e] = 0]
          /\ hist'.passedAt = [hist.passedAt EXCEPT ![e] = {}]
          /\ hist'.pos = hist.pos
          /\ hist'.counted = [t \in Thread |-> hist.counted[t] /\ CounterOf(t) # e]
      BY <1>6, ResetHist DEF ResetCnt
    <2>2. \A u \in Thread : Undecided(u)' =>
              /\ Undecided(u) /\ CounterOf(u) # e /\ CounterOf(u)' = CounterOf(u)
              /\ Last(u)' = Last(u) /\ Bytes(u)' = Bytes(u)
              /\ call'[u].data.length = call[u].data.length
      BY <1>f, <1>t, <2>1 DEF Undecided, CounterOf, Last, Bytes, Depth
    <2>3. /\ Depth(e, cnt[e])' = 0
          /\ \A d \in Counter : d # e => Depth(d, cnt[d])' = Depth(d, cnt[d])
      BY <1>f, <1>t, <2>1 DEF Depth
    <2>4. \A d \in Counter : hist'.base[d] \in Nat
      BY <1>t, <2>1 DEF BytesInv, CountedBytes
    <2>5. \A d \in Counter : Depth(d, cnt[d])' >= 0
      BY <2>3 DEF BytesInv, CountedBytes
    <2>6. CountedBytes'
      BY <1>t, <2>2, <2>3, <2>4, <2>5 DEF BytesInv, CountedBytes
    <2>7. ASSUME NEW d \in Counter PROVE PassedBytes(d)'
      <3>1. CASE d = e
        <4>1. {} \in SUBSET (1 .. Depth(d, cnt[d])') /\ Cardinality({}) = hist'.passed[d]
          BY <1>t, <2>1, <3>1, FS_EmptySet
        <4> QED
          BY <4>1 DEF PassedBytes
      <3>2. CASE d # e
        <4>1. PICK S \in SUBSET (1 .. Depth(d, cnt[d])) :
                  /\ Cardinality(S) = hist.passed[d]
                  /\ S = {} \/ \E p \in hist.passedAt[d] : S \subseteq 1 .. Depth(d, p)
                  /\ \A u \in Thread : Undecided(u) /\ CounterOf(u) = d => S \cap Bytes(u) = {}
          BY DEF BytesInv, PassedBytes
        <4>2. Cardinality(S) = hist'.passed[d]
          BY <1>t, <2>1, <3>2, <4>1
        <4>3. S = {} \/ \E p \in hist'.passedAt[d] : S \subseteq 1 .. Depth(d, p)'
          BY <1>f, <1>t, <2>1, <3>2, <4>1 DEF Depth
        <4>4. \A u \in Thread : Undecided(u)' /\ CounterOf(u)' = d => S \cap Bytes(u)' = {}
          BY <2>2, <4>1
        <4> QED
          BY <2>3, <3>2, <4>1, <4>2, <4>3, <4>4 DEF PassedBytes
      <3> QED
        BY <3>1, <3>2
    <2> QED
      BY <2>6, <2>7 DEF BytesInv
  <1>7. CASE UNCHANGED vars
    BY <1>f, <1>7, BytesKept DEF vars, Undecided
  <1> QED
    BY <1>1, <1>2, <1>3, <1>4, <1>5, <1>6, <1>7 DEF Next, ResetSent, ResetRecv, Counter
\* With a limit on the sum, a call that returns without having found it
\* exceeded has read both counters, its own packet among them.
LEMMA ReturnSum ==
    ASSUME MatchInv, SumLimited, NEW t \in Thread, pc[t] = "check", hist.counted[t],
           ToLoad(t) = {}, ~ LimitExceeded(seen[t])
    PROVE  /\ loaded[t] = Counter
           /\ seen[t]["sent"] + seen[t]["recv"] < this.m_nTrafficLimit
           /\ seen[t][CounterOf(t)] >= hist.pos[t]
  <1>1. /\ ~ this.m_bRevers /\ this.m_nTrafficLimit # 0
        /\ this.m_nTrafficLimitType = "SENT_PLUS_RECV"
        /\ this.m_nTrafficLimit \in Nat
        /\ seen[t] \in [Counter -> Int] /\ loaded[t] \in SUBSET Counter
        /\ CounterOf(t) \in Counter
    BY ScenarioAssumption DEF SumLimited, Limited, MatchInv, MatchType, this, CounterOf, Counter
  <1>2. loaded[t] = Counter
    BY <1>1 DEF ToLoad
  <1>3. seen[t]["sent"] \in Int /\ seen[t]["recv"] \in Int
    BY <1>1 DEF Counter
  <1>4. seen[t]["sent"] + seen[t]["recv"] < this.m_nTrafficLimit
    BY <1>1, <1>3 DEF LimitExceeded
  <1>5. Ahead(t, seen[t][CounterOf(t)])
    BY <1>1, <1>2 DEF MatchInv, CallsSeeThemselves
  <1> QED
    BY <1>1, <1>2, <1>4, <1>5 DEF Ahead

LEMMA StepSum == MatchInv /\ BytesInv /\ SumInv /\ [Next]_vars => SumInv'
  <1> SUFFICES ASSUME MatchInv, BytesInv, SumInv, [Next]_vars, SumLimited PROVE SumInv'
    <2>1. ASSUME [Next]_vars PROVE SumLimited' = SumLimited
      BY <2>1, FilterFixed DEF SumLimited
    <2> QED
      BY <2>1 DEF SumInv
  <1> DEFINE L == this.m_nTrafficLimit
             New(t) == \A d \in Counter : Sees(t, d, hist.base[d])
             Single(d, p) == p <= cnt[d] /\ p + hist.base[Other(d)] < L
             Pair(t, u) == Sees(t, "recv", hist.pos[u]) \/ Sees(u, "sent", hist.pos[t])
             Late(t, q) == Sees(t, Other(CounterOf(t)), q) \/ hist.pos[t] + q < L
  <1>f. this' = this /\ L \in Nat /\ ~ this.m_bRevers /\ Blocks /\ SumLimited'
    BY FilterFixed, ScenarioAssumption DEF SumLimited, Limited, MatchInv, MatchType, this
  <1>t. /\ DOMAIN call = Thread
        /\ pc \in [Thread -> {"idle", "add", "check", "return", "done"}]
        /\ cnt \in [Counter -> Int]
        /\ seen \in [Thread -> [Counter -> Int]] /\ loaded \in [Thread -> SUBSET Counter]
        /\ hist.pos \in [Thread -> Int] /\ hist.counted \in [Thread -> BOOLEAN]
        /\ hist.base \in [Counter -> Int]
        /\ hist.passedAt \in [Counter -> SUBSET Int]
        /\ \A t \in Thread : CounterOf(t) \in Counter
        /\ \A d \in Counter : Other(d) \in Counter /\ Other(d) # d /\ Other(Other(d)) = d
    BY DEF MatchInv, MatchType, HistType, CounterOf, Counter, Other
  <1>i. /\ \A t \in Thread : New(t)
        /\ \A d \in Counter : \A p \in hist.passedAt[d] : Single(d, p)
        /\ \A p \in hist.passedAt["sent"], q \in hist.passedAt["recv"] : p + q < L
        /\ \A t, u \in Thread :
              Undecided(t) /\ Undecided(u) /\ CounterOf(t) = "sent" /\ CounterOf(u) = "recv" => Pair(t, u)
        /\ \A t \in Thread : Undecided(t) =>
              \A q \in hist.passedAt[Other(CounterOf(t))] : Late(t, q)
    BY DEF SumInv
  <1>u. \A t \in Thread : Undecided(t) => pc[t] = "check" /\ hist.pos[t] <= cnt[CounterOf(t)]
    BY <1>f, <1>t DEF Undecided, MatchInv, CallsSeeThemselves, Ahead
  <1>b. \A d \in Counter : hist.base[d] \in Nat /\ hist.base[d] <= cnt[d] /\ cnt[d] >= 0
    BY <1>f, <1>t DEF BytesInv, CountedBytes, Depth, MatchInv, NotNegative
  <1>s. \A t \in Thread, d \in Counter : seen[t][d] >= 0
    BY <1>f DEF MatchInv, NotNegative
  <1>1. ASSUME hist'.base = hist.base, hist'.passedAt = hist.passedAt,
               \A d \in Counter : cnt'[d] \in Int /\ cnt'[d] >= cnt[d],
               \A u \in Thread : loaded'[u] = {} \/ (loaded'[u] = loaded[u] /\ seen'[u] = seen[u]),
               \A u \in Thread : Undecided(u)' =>
                   \/ loaded'[u] = {}
                   \/ Undecided(u) /\ hist'.pos[u] = hist.pos[u] /\ CounterOf(u)' = CounterOf(u)
        PROVE  SumInv'
    <2>1. \A u \in Thread : New(u)'
      BY <1>i, <1>1 DEF Sees
    <2>2. \A d \in Counter : \A p \in hist'.passedAt[d] : p <= cnt'[d] /\ p + hist'.base[Other(d)] < L
      BY <1>f, <1>i, <1>t, <1>1
    <2>3. \A p \in hist'.passedAt["sent"], q \in hist'.passedAt["recv"] : p + q < L
      BY <1>i, <1>1
    <2>4. \A t, u \in Thread :
              Undecided(t)' /\ Undecided(u)' /\ CounterOf(t)' = "sent" /\ CounterOf(u)' = "recv" => Pair(t, u)'
      BY <1>i, <1>1 DEF Sees
    <2>5. \A t \in Thread : Undecided(t)' =>
              \A q \in hist'.passedAt[Other(CounterOf(t)')] : Late(t, q)'
      <3> SUFFICES ASSUME NEW t \in Thread, Undecided(t)', NEW q \in hist'.passedAt[Other(CounterOf(t)')]
                   PROVE  Sees(t, Other(CounterOf(t)), q)' \/ hist'.pos[t] + q < L
        BY <1>f
      <3>1. CASE loaded'[t] = {}
        BY <3>1 DEF Sees
      <3>2. CASE /\ loaded'[t] = loaded[t] /\ seen'[t] = seen[t]
                 /\ Undecided(t) /\ hist'.pos[t] = hist.pos[t] /\ CounterOf(t)' = CounterOf(t)
        BY <1>i, <1>1, <3>2 DEF Sees, Other
      <3> QED
        BY <1>1, <3>1, <3>2
    <2> QED
      BY <1>f, <2>1, <2>2, <2>3, <2>4, <2>5 DEF SumInv, Other
  <1>2. ASSUME NEW t \in Thread, NEW data \in scen.inputs, MatchNothing(t, data)
        PROVE  SumInv'
    BY <1>t, <1>1, <1>2 DEF MatchNothing, Undecided, CounterOf
  <1>3. ASSUME NEW t \in Thread, NEW data \in scen.inputs, NEW i \in DOMAIN this.rules,
               MatchRule(t, data, i)
        PROVE  SumInv'
    BY <1>t, <1>1, <1>3, MatchHist DEF MatchRule, Undecided, CounterOf
  <1>4. ASSUME NEW t \in Thread, AddCnt(t) PROVE SumInv'
    <2>1. /\ NewCount(t) \in Int /\ NewCount(t) >= cnt[CounterOf(t)]
          /\ loaded[t] = {}
      BY <1>f, <1>t, <1>4 DEF AddCnt, NewCount, MatchInv, MatchType, CallsSeeThemselves
    <2>2. \A d \in Counter : cnt'[d] \in Int /\ cnt'[d] >= cnt[d]
      BY <1>t, <1>4, <2>1 DEF AddCnt
    <2>3. \A u \in Thread : CounterOf(u)' = CounterOf(u)
      BY <1>4 DEF AddCnt, CounterOf
    <2>4. \A u \in Thread : u # t => pc'[u] = pc[u] /\ hist'.pos[u] = hist.pos[u] /\ hist'.counted[u] = hist.counted[u]
      <3>1. /\ hist'.pos = [hist.pos EXCEPT ![t] = NewCount(t)]
            /\ hist'.counted = [hist.counted EXCEPT ![t] = TRUE]
        BY <1>4, AddHist
      <3>2. pc' = [pc EXCEPT ![t] = pc'[t]]
        BY <1>t, <1>4 DEF AddCnt
      <3> QED
        BY <1>t, <3>1, <3>2
    <2>5. hist'.base = hist.base /\ hist'.passedAt = hist.passedAt /\ loaded' = loaded /\ seen' = seen
      BY <1>4, AddHist DEF AddCnt
    <2> QED
      BY <1>1, <2>1, <2>2, <2>3, <2>4, <2>5 DEF Undecided
  <1>5. ASSUME NEW t \in Thread, NEW d \in Counter, LoadCnt(t, d) PROVE SumInv'
    <2>1. /\ cnt' = cnt /\ pc' = pc /\ hist' = hist /\ call' = call
          /\ seen' = [seen EXCEPT ![t] = [seen[t] EXCEPT ![d] = cnt[d]]]
          /\ loaded' = [loaded EXCEPT ![t] = loaded[t] \cup {d}]
      BY <1>t, <1>5 DEF LoadCnt
    <2>2. \A u \in Thread : Undecided(u)' = Undecided(u) /\ CounterOf(u)' = CounterOf(u)
      BY <2>1 DEF Undecided, CounterOf
    <2>3. \A u \in Thread, e \in Counter : \A v \in Int : Sees(u, e, v) /\ v <= cnt[e] => Sees(u, e, v)'
      BY <1>t, <2>1 DEF Sees
    <2>4. \A u \in Thread : New(u)'
      BY <1>b, <1>i, <1>t, <2>1, <2>3 DEF Sees
    <2>5. \A u, w \in Thread :
              Undecided(u)' /\ Undecided(w)' /\ CounterOf(u)' = "sent" /\ CounterOf(w)' = "recv" => Pair(u, w)'
      <3> SUFFICES ASSUME NEW u \in Thread, NEW w \in Thread, Undecided(u), Undecided(w),
                          CounterOf(u) = "sent", CounterOf(w) = "recv"
                   PROVE  Pair(u, w)'
        BY <2>2
      <3>1. Pair(u, w) /\ hist.pos[w] <= cnt["recv"] /\ hist.pos[u] <= cnt["sent"]
            /\ hist.pos[w] \in Int /\ hist.pos[u] \in Int
        BY <1>i, <1>u, <1>t
      <3>2. hist'.pos[w] = hist.pos[w] /\ hist'.pos[u] = hist.pos[u]
        BY <2>1
      <3>3. Sees(u, "recv", hist.pos[w]) => Sees(u, "recv", hist.pos[w])'
        BY <1>t, <2>1, <3>1 DEF Sees, Counter
      <3>4. Sees(w, "sent", hist.pos[u]) => Sees(w, "sent", hist.pos[u])'
        BY <1>t, <2>1, <3>1 DEF Sees, Counter
      <3> QED
        BY <3>1, <3>2, <3>3, <3>4
    <2>6. \A u \in Thread : Undecided(u)' => \A q \in hist'.passedAt[Other(CounterOf(u)')] : Late(u, q)'
      <3> SUFFICES ASSUME NEW u \in Thread, Undecided(u), NEW q \in hist.passedAt[Other(CounterOf(u))]
                   PROVE  Late(u, q)'
        BY <2>1, <2>2
      <3>1. Late(u, q) /\ q <= cnt[Other(CounterOf(u))] /\ q \in Int /\ Other(CounterOf(u)) \in Counter
        BY <1>i, <1>t
      <3>2. Sees(u, Other(CounterOf(u)), q) => Sees(u, Other(CounterOf(u)), q)'
        <4>1. Other(CounterOf(u))' = Other(CounterOf(u))
          BY <2>2 DEF Other
        <4> QED
          BY <1>t, <2>1, <3>1, <4>1 DEF Sees
      <3> QED
        BY <1>f, <2>1, <2>2, <3>1, <3>2
    <2>7. \A e \in Counter : \A p \in hist'.passedAt[e] : p <= cnt'[e] /\ p + hist'.base[Other(e)] < L
      BY <1>i, <2>1
    <2>8. \A p \in hist'.passedAt["sent"], q \in hist'.passedAt["recv"] : p + q < L
      BY <1>i, <2>1
    <2> QED
      BY <1>f, <2>4, <2>5, <2>6, <2>7, <2>8 DEF SumInv, Other
  <1>6. ASSUME NEW t \in Thread, Return(t) PROVE SumInv'
    <2> DEFINE c == CounterOf(t)
    <2>1. /\ cnt' = cnt /\ call' = call /\ seen' = seen /\ loaded' = loaded
          /\ pc' = [pc EXCEPT ![t] = "done"]
          /\ pc[t] = "return" \/ (pc[t] = "check" /\ ToLoad(t) = {})
      BY <1>6 DEF Return
    <2>2. /\ hist'.base = hist.base /\ hist'.pos = hist.pos /\ hist'.counted = hist.counted
          /\ \/ hist'.passedAt = hist.passedAt
             \/ /\ hist.counted[t]
                /\ pc[t] = "check" => ~ LimitExceeded(seen[t])
                /\ hist'.passedAt = [hist.passedAt EXCEPT ![c] = @ \cup {hist.pos[t]}]
      BY <1>6, ReturnHist
    <2>3. \A u \in Thread : CounterOf(u)' = CounterOf(u) /\ (Undecided(u)' => u # t /\ Undecided(u))
      BY <1>t, <2>1, <2>2 DEF Undecided, CounterOf
    <2>4. CASE hist'.passedAt = hist.passedAt
      BY <1>1, <1>t, <2>1, <2>2, <2>3, <2>4
    <2>5. CASE /\ hist.counted[t]
               /\ pc[t] = "check" => ~ LimitExceeded(seen[t])
               /\ hist'.passedAt = [hist.passedAt EXCEPT ![c] = @ \cup {hist.pos[t]}]
      <3> DEFINE o == Other(c)
                 x == hist.pos[t]
      <3>1. Undecided(t) /\ pc[t] = "check" /\ ToLoad(t) = {}
        BY <1>u, <2>1, <2>5 DEF Undecided
      <3>2. /\ loaded[t] = Counter
            /\ seen[t]["sent"] + seen[t]["recv"] < L
            /\ seen[t][c] >= x
        BY <2>5, <3>1, ReturnSum
      <3>3. /\ c \in Counter /\ o \in Counter /\ o # c /\ x \in Int
            /\ seen[t][c] \in Int /\ seen[t][o] \in Int
        BY <1>t
      <3>4. seen[t][c] + seen[t][o] < L
        BY <3>2, <1>t DEF Other, Counter
      <3>5. \A v \in Int : Sees(t, o, v) => x + v < L
        BY <1>f, <3>2, <3>3, <3>4 DEF Sees
      <3>6. \A d \in Counter : \A p \in hist'.passedAt[d] : p \in hist.passedAt[d] \/ (d = c /\ p = x)
        BY <1>t, <2>5
      <3> HIDE DEF c, o, x
      <3>7. \A d \in Counter : \A p \in hist'.passedAt[d] : p <= cnt'[d] /\ p + hist'.base[Other(d)] < L
        <4> SUFFICES ASSUME NEW d \in Counter, NEW p \in hist'.passedAt[d]
                     PROVE  p <= cnt[d] /\ p + hist.base[Other(d)] < L
          BY <2>1, <2>2
        <4>1. CASE p \in hist.passedAt[d]
          BY <1>i, <4>1
        <4>2. CASE d = c /\ p = x
          <5>1. x <= cnt[c]
            BY <1>u, <3>1 DEF c, x
          <5>2. Sees(t, o, hist.base[o]) /\ hist.base[o] \in Int
            BY <1>i, <1>t, <3>3
          <5> QED
            BY <3>5, <4>2, <5>1, <5>2 DEF o
        <4> QED
          BY <3>6, <4>1, <4>2
      <3>8. \A q \in hist.passedAt[o] : x + q < L /\ q \in Int
        <4> SUFFICES ASSUME NEW q \in hist.passedAt[o] PROVE x + q < L /\ q \in Int
          OBVIOUS
        <4>1. Late(t, q) /\ q \in Int
          BY <1>i, <1>t, <3>1, <3>3 DEF o, c
        <4> QED
          BY <3>5, <4>1 DEF o, c, x
      <3>9. \A p \in hist'.passedAt["sent"], q \in hist'.passedAt["recv"] : p + q < L
        <4> SUFFICES ASSUME NEW p \in hist'.passedAt["sent"], NEW q \in hist'.passedAt["recv"]
                     PROVE  p + q < L
          OBVIOUS
        <4>1. CASE p \in hist.passedAt["sent"] /\ q \in hist.passedAt["recv"]
          BY <1>i, <4>1
        <4>2. CASE p \notin hist.passedAt["sent"]
          <5>1. c = "sent" /\ p = x /\ o = "recv" /\ q \in hist.passedAt["recv"]
            BY <3>6, <4>2 DEF Counter, o, Other
          <5> QED
            BY <3>8, <5>1
        <4>3. CASE q \notin hist.passedAt["recv"]
          <5>1. c = "recv" /\ q = x /\ o = "sent" /\ p \in hist.passedAt["sent"]
            BY <3>6, <4>3 DEF Counter, o, Other
          <5> QED
            BY <3>3, <3>8, <5>1
        <4> QED
          BY <4>1, <4>2, <4>3
      <3>10. \A u \in Thread : New(u)'
        BY <1>i, <2>1, <2>2 DEF Sees
      <3>11. \A w, u \in Thread :
                Undecided(w)' /\ Undecided(u)' /\ CounterOf(w)' = "sent" /\ CounterOf(u)' = "recv" => Pair(w, u)'
        BY <1>i, <2>1, <2>2, <2>3 DEF Sees
      <3>12. \A u \in Thread : Undecided(u)' => \A q \in hist'.passedAt[Other(CounterOf(u)')] : Late(u, q)'
        <4> SUFFICES ASSUME NEW u \in Thread, Undecided(u), u # t,
                            NEW q \in hist'.passedAt[Other(CounterOf(u))]
                     PROVE  Late(u, q)
          <5>1. \A u \in Thread : \A q : Late(u, q)' = Late(u, q)
            BY <1>f, <2>1, <2>2, <2>3 DEF Sees, Other
          <5> QED
            BY <2>3, <5>1
        <4>1. CASE q \in hist.passedAt[Other(CounterOf(u))]
          BY <1>i, <4>1
        <4>2. CASE q \notin hist.passedAt[Other(CounterOf(u))]
          <5>1. Other(CounterOf(u)) = c /\ q = x /\ CounterOf(u) = o
            BY <1>t, <3>6, <4>2 DEF o
          <5>2. Sees(t, o, hist.pos[u]) \/ Sees(u, c, x)
            BY <1>i, <1>t, <3>1, <3>3, <5>1 DEF c, o, x, Other, Counter
          <5>3. hist.pos[u] \in Int
            BY <1>t
          <5>4. Sees(t, o, hist.pos[u]) => hist.pos[u] + x < L
            BY <1>f, <3>3, <3>5, <5>3
          <5> QED
            BY <5>1, <5>2, <5>4
        <4> QED
          BY <4>1, <4>2
      <3> QED
        BY <1>f, <3>7, <3>9, <3>10, <3>11, <3>12 DEF SumInv, Other
    <2> QED
      BY <2>2, <2>4, <2>5
  <1>7. ASSUME NEW e \in Counter, ResetCnt(e) PROVE SumInv'
    <2>1. /\ cnt' = [cnt EXCEPT ![e] = 0] /\ call' = call /\ pc' = pc
          /\ seen' = seen /\ loaded' = loaded
          /\ hist'.base = [hist.base EXCEPT ![e] = 0]
          /\ hist'.passedAt = [hist.passedAt EXCEPT ![e] = {}]
          /\ hist'.pos = hist.pos
          /\ hist'.counted = [t \in Thread |-> hist.counted[t] /\ CounterOf(t) # e]
      BY <1>7, ResetHist DEF ResetCnt
    <2>2. \A u \in Thread : CounterOf(u)' = CounterOf(u) /\ (Undecided(u)' => Undecided(u) /\ CounterOf(u) # e)
      BY <1>t, <2>1 DEF Undecided, CounterOf
    <2>3. /\ \A d \in Counter : d # e => hist'.base[d] = hist.base[d] /\ hist'.passedAt[d] = hist.passedAt[d] /\ cnt'[d] = cnt[d]
          /\ hist'.base[e] = 0 /\ hist'.passedAt[e] = {}
      BY <1>t, <2>1
    <2>4. \A u \in Thread : New(u)'
      <3> SUFFICES ASSUME NEW u \in Thread, NEW d \in Counter PROVE Sees(u, d, hist.base[d])'
        OBVIOUS
      <3>1. CASE d = e
        BY <1>s, <2>1, <2>3, <3>1 DEF Sees
      <3>2. CASE d # e
        BY <1>i, <2>1, <2>3, <3>2 DEF Sees
      <3> QED
        BY <3>1, <3>2
    <2>5. \A d \in Counter : \A p \in hist'.passedAt[d] : p <= cnt'[d] /\ p + hist'.base[Other(d)] < L
      <3> SUFFICES ASSUME NEW d \in Counter, NEW p \in hist'.passedAt[d]
                   PROVE  p <= cnt'[d] /\ p + hist'.base[Other(d)] < L
        OBVIOUS
      <3>1. d # e /\ p \in hist.passedAt[d] /\ p \in Int
        BY <1>t, <2>3
      <3>2. Single(d, p)
        BY <1>i, <3>1
      <3>3. hist'.base[Other(d)] \in Int /\ hist.base[Other(d)] \in Int /\ hist'.base[Other(d)] <= hist.base[Other(d)]
        BY <1>b, <1>t, <2>3
      <3> QED
        BY <1>f, <2>3, <3>1, <3>2, <3>3
    <2>6. \A p \in hist'.passedAt["sent"], q \in hist'.passedAt["recv"] : p + q < L
      BY <1>i, <2>3 DEF Counter
    <2>7. \A t, u \in Thread :
              Undecided(t)' /\ Undecided(u)' /\ CounterOf(t)' = "sent" /\ CounterOf(u)' = "recv" => Pair(t, u)'
      BY <1>i, <2>1, <2>2 DEF Sees
    <2>8. \A t \in Thread : Undecided(t)' => \A q \in hist'.passedAt[Other(CounterOf(t)')] : Late(t, q)'
      <3> SUFFICES ASSUME NEW t \in Thread, Undecided(t)', NEW q \in hist'.passedAt[Other(CounterOf(t))]
                   PROVE  Late(t, q)'
        BY <2>2
      <3>1. Other(CounterOf(t)) # e /\ q \in hist.passedAt[Other(CounterOf(t))]
        BY <1>t, <2>3
      <3>2. Late(t, q) /\ Other(CounterOf(t))' = Other(CounterOf(t))
        BY <1>i, <2>2, <3>1 DEF Other
      <3> QED
        BY <1>f, <2>1, <3>2 DEF Sees
    <2> QED
      BY <1>f, <2>4, <2>5, <2>6, <2>7, <2>8 DEF SumInv, Other
  <1>8. CASE UNCHANGED vars
    <2>1. \A u \in Thread : Undecided(u)' = Undecided(u) /\ CounterOf(u)' = CounterOf(u)
      BY <1>8 DEF vars, Undecided, CounterOf
    <2> QED
      BY <1>1, <1>8, <1>t, <2>1 DEF vars
  <1> QED
    BY <1>2, <1>3, <1>4, <1>5, <1>6, <1>7, <1>8 DEF Next, ResetSent, ResetRecv, Counter

\* All the bytes that were let through were counted up to the packet of one of
\* the calls that let them through.
LEMMA PassedUpTo ==
    ASSUME MatchInv, BytesInv, NEW d \in Counter
    PROVE  /\ hist.passed[d] \in Nat
           /\ hist.passed[d] > 0 => \E p \in hist.passedAt[d] : hist.passed[d] <= Depth(d, p)
  <1>1. PICK S \in SUBSET (1 .. Depth(d, cnt[d])) :
            /\ Cardinality(S) = hist.passed[d]
            /\ S = {} \/ \E p \in hist.passedAt[d] : S \subseteq 1 .. Depth(d, p)
    BY DEF BytesInv, PassedBytes
  <1>2. \A v \in Int : Depth(d, v) \in Int
    BY ScenarioAssumption DEF MatchInv, MatchType, HistType, Depth, this
  <1>3. cnt[d] \in Int /\ hist.passedAt[d] \in SUBSET Int
    BY DEF MatchInv, MatchType, HistType
  <1>4. IsFiniteSet(S) /\ Cardinality(S) \in Nat
    <2>1. IsFiniteSet(1 .. Depth(d, cnt[d]))
      BY <1>2, <1>3, FS_Interval
    <2> QED
      BY <2>1, <1>1, FS_Subset, FS_CardinalityType
  <1>5. ASSUME hist.passed[d] > 0 PROVE \E p \in hist.passedAt[d] : hist.passed[d] <= Depth(d, p)
    <2>1. S # {}
      BY <1>1, <1>5, FS_EmptySet
    <2>2. PICK p \in hist.passedAt[d] : S \subseteq 1 .. Depth(d, p)
      BY <1>1, <2>1
    <2>3. Depth(d, p) \in Int
      BY <1>2, <1>3
    <2>4. /\ IsFiniteSet(1 .. Depth(d, p))
          /\ Cardinality(1 .. Depth(d, p)) = IF 1 > Depth(d, p) THEN 0 ELSE Depth(d, p) - 1 + 1
      BY <2>3, FS_Interval
    <2>5. Cardinality(S) <= Cardinality(1 .. Depth(d, p))
      BY <2>2, <2>4, FS_Subset
    <2> QED
      BY <1>1, <1>4, <1>5, <2>3, <2>4, <2>5
  <1> QED
    BY <1>1, <1>4, <1>5

\* The limit of match_filter holds for the sum of all packets let through, for
\* any number of threads, any packet lengths and resets at any time: the last
\* of them to count its packet read the counters after all the others had.
THEOREM FilterPassedWithinLimit == Spec => []PassedWithinLimit
  <1>1. ASSUME Init PROVE BytesInv /\ SumInv
    <2>1. MatchType
      BY <1>1, InitInv DEF MatchInv
    <2>2. /\ hist.base = cnt /\ hist.passed = [d \in Counter |-> 0]
          /\ hist.counted = [t \in Thread |-> FALSE] /\ hist.passedAt = [d \in Counter |-> {}]
          /\ cnt \in [Counter -> Nat] /\ loaded = [t \in Thread |-> {}]
      BY <1>1, ScenarioAssumption DEF Init, NoHistory
    <2>3. \A d \in Counter : Depth(d, cnt[d]) = 0
      BY <2>2 DEF Depth
    <2>4. CountedBytes
      BY <2>2, <2>3 DEF CountedBytes, Undecided
    <2>5. \A d \in Counter : PassedBytes(d)
      <3> SUFFICES ASSUME NEW d \in Counter PROVE PassedBytes(d)
        OBVIOUS
      <3>1. {} \in SUBSET (1 .. Depth(d, cnt[d])) /\ Cardinality({}) = hist.passed[d]
        BY <2>2, FS_EmptySet
      <3> QED
        BY <3>1 DEF PassedBytes
    <2>6. SumInv
      BY <2>2 DEF SumInv, Sees, Undecided, Counter
    <2> QED
      BY <2>4, <2>5, <2>6 DEF BytesInv
  <1>2. ASSUME MatchInv, BytesInv, SumInv PROVE PassedWithinLimit
    <2> DEFINE L == this.m_nTrafficLimit
    <2>1. /\ L \in Nat /\ hist.base \in [Counter -> Int] /\ hist.passed \in [Counter -> Int]
          /\ hist.passedAt \in [Counter -> SUBSET Int]
          /\ \A d \in Counter : hist.base[d] \in Nat
          /\ LimitedCounters \subseteq Counter
      BY <1>2, ScenarioAssumption DEF MatchInv, MatchType, HistType, this, BytesInv, CountedBytes,
         LimitedCounters, Counter
    <2>2. \A d \in Counter : hist.passed[d] \in Nat
      BY <1>2, PassedUpTo
    <2>3. ASSUME NEW d \in Counter, ~ this.m_bRevers, hist.passed[d] > 0
          PROVE  \E p \in hist.passedAt[d] : hist.base[d] + hist.passed[d] <= p /\ p \in Int
      <3>1. PICK p \in hist.passedAt[d] : hist.passed[d] <= Depth(d, p)
        BY <1>2, <2>3, PassedUpTo
      <3> QED
        BY <2>1, <2>2, <2>3, <3>1 DEF Depth
    <2>4. ASSUME Limited, NEW d \in LimitedCounters, hist.passed[d] > 0
          PROVE  hist.base[d] + hist.passed[d] < L
      <3>1. PICK p \in hist.passedAt[d] : hist.base[d] + hist.passed[d] <= p /\ p \in Int
        BY <2>1, <2>3, <2>4 DEF Limited
      <3>2. p < L
        BY <1>2, <2>1, <2>4 DEF MatchInv, PassedBelowLimit
      <3> QED
        BY <2>1, <2>2, <3>1, <3>2
    <2>5. ASSUME Limited, this.m_nTrafficLimitType = "SENT_PLUS_RECV",
                 hist.passed["sent"] + hist.passed["recv"] > 0
          PROVE  (hist.base["sent"] + hist.passed["sent"]) + (hist.base["recv"] + hist.passed["recv"]) < L
      <3>1. /\ \A d \in Counter : \A p \in hist.passedAt[d] : p + hist.base[Other(d)] < L
            /\ \A p \in hist.passedAt["sent"], q \in hist.passedAt["recv"] : p + q < L
        BY <1>2, <2>5 DEF SumInv, SumLimited
      <3>2. /\ "sent" \in Counter /\ "recv" \in Counter
            /\ Other("sent") = "recv" /\ Other("recv") = "sent" /\ ~ this.m_bRevers
        BY <2>5 DEF Counter, Other, Limited
      <3>3. /\ hist.base["sent"] \in Nat /\ hist.base["recv"] \in Nat
            /\ hist.passed["sent"] \in Nat /\ hist.passed["recv"] \in Nat
        BY <2>1, <2>2, <3>2
      <3>4. CASE hist.passed["sent"] > 0 /\ hist.passed["recv"] > 0
        <4>1. PICK p \in hist.passedAt["sent"] : hist.base["sent"] + hist.passed["sent"] <= p /\ p \in Int
          BY <2>3, <3>2, <3>4
        <4>2. PICK q \in hist.passedAt["recv"] : hist.base["recv"] + hist.passed["recv"] <= q /\ q \in Int
          BY <2>3, <3>2, <3>4
        <4> QED
          BY <2>1, <3>1, <3>3, <4>1, <4>2
      <3>5. CASE hist.passed["sent"] > 0 /\ hist.passed["recv"] = 0
        <4>1. PICK p \in hist.passedAt["sent"] : hist.base["sent"] + hist.passed["sent"] <= p /\ p \in Int
          BY <2>3, <3>2, <3>5
        <4>2. p + hist.base["recv"] < L
          BY <3>1, <3>2
        <4> QED
          BY <2>1, <3>3, <3>5, <4>1, <4>2
      <3>6. CASE hist.passed["sent"] = 0 /\ hist.passed["recv"] > 0
        <4>1. PICK p \in hist.passedAt["recv"] : hist.base["recv"] + hist.passed["recv"] <= p /\ p \in Int
          BY <2>3, <3>2, <3>6
        <4>2. p + hist.base["sent"] < L
          BY <3>1, <3>2
        <4> QED
          BY <2>1, <3>3, <3>6, <4>1, <4>2
      <3> QED
        BY <2>5, <3>3, <3>4, <3>5, <3>6
    <2>6. ASSUME Prepaid, NEW d \in Counter, hist.passed[d] > 0
          PROVE  hist.base[d] - hist.passed[d] >= 0
      <3>1. PICK p \in hist.passedAt[d] : hist.passed[d] <= Depth(d, p)
        BY <1>2, <2>6, PassedUpTo
      <3>2. p \in Int /\ p >= 0
        BY <1>2, <2>1, <2>6 DEF MatchInv, PassedBelowLimit
      <3> QED
        BY <2>1, <2>2, <2>6, <3>1, <3>2 DEF Depth, Prepaid
    <2> DEFINE total == [d \in Counter |-> hist.base[d] + hist.passed[d]]
    <2>7. \A d \in Counter : total[d] = hist.base[d] + hist.passed[d]
      OBVIOUS
    <2>8. "sent" \in Counter /\ "recv" \in Counter
      BY DEF Counter
    <2> HIDE DEF total
    <2>9. /\ Limited =>
                /\ \A d \in LimitedCounters : hist.passed[d] > 0 => total[d] < L
                /\ this.m_nTrafficLimitType = "SENT_PLUS_RECV" /\ hist.passed["sent"] + hist.passed["recv"] > 0
                       => total["sent"] + total["recv"] < L
          /\ Prepaid => \A d \in Counter : hist.passed[d] > 0 => hist.base[d] - hist.passed[d] >= 0
      BY <2>1, <2>4, <2>5, <2>6, <2>7, <2>8
    <2> QED
      BY <2>9 DEF PassedWithinLimit, total
  <1> QED
    BY InitInv, StepInv, StepBytes, StepSum, <1>1, <1>2, PTL DEF Spec
=============================================================================
