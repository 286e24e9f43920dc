---------------------------- MODULE FilterMatch ----------------------------
(***************************************************************************)
(* filter2::match_filter called by several packet threads at once, without *)
(* a lock, while the service resets the filter's counters: a call finds    *)
(* the first rule that matches, adds the packet to a counter, and then     *)
(* reads the counters again to decide whether the limit is exceeded.       *)
(*                                                                         *)
(* The counters are atomic (std::atomic): an addition is one step, and so  *)
(* is each read of the limit test.  The counters a rule's condition tests  *)
(* are read in one step with the rest of the match.                        *)
(*                                                                         *)
(* The limit is in bytes (m_nTrafficLimitMb * mbytes).                     *)
(***************************************************************************)
EXTENDS RuleMatch, FiniteSets

CONSTANTS
    Thread,      \* the threads that call match_filter
    Scenario     \* records [filter, cnt, inputs, maxCalls, maxResets]: a filter,
                 \* its counters as restored, the inputs of the calls, the
                 \* bounds on the number of calls and of resets

Counter == {"sent", "recv"}
LimitType == {"SENT_OR_RECV", "SENT_PLUS_RECV", "SENT", "RECV", "REVERS"}

\* The members of match_filter_input.
Input == {"src", "dst", "proto", "icmp", "flags", "length", "lt", "nPacketDirection", "nNicAlias",
          "bWithNat", "nPrevFilter", "nModifyCounter", "mat", "hosts", "users"}

ASSUME ThreadAssumption == IsFiniteSet(Thread)

ASSUME ScenarioAssumption ==
    \A s \in Scenario :
        /\ s.cnt \in [Counter -> Nat]
        /\ s.maxCalls \in Nat
        /\ s.maxResets \in Nat
        /\ s.filter.m_bRevers \in BOOLEAN
        /\ s.filter.m_bBlocked \in BOOLEAN
        /\ s.filter.m_nTrafficLimit \in Nat
        /\ s.filter.m_nTrafficLimitType \in LimitType
        /\ DOMAIN s.filter.rules = 1 .. Len(s.filter.rules) /\ Len(s.filter.rules) \in Nat
        /\ \A i \in DOMAIN s.filter.rules : s.filter.rules[i].condition_limit \in Nat
        /\ \A d \in s.inputs : DOMAIN d = Input /\ d.length \in Nat
        /\ \E n \in {d.length : d \in s.inputs} : \A d \in s.inputs : d.length <= n

VARIABLES
    scen,      \* the scenario of this behaviour
    cnt,       \* cnt_sent and cnt_recv
    pc,        \* pc[t]: where thread t is in match_filter
    call,      \* call[t]: input, matched rule and direction of its latest call
    seen,      \* seen[t]: the counters as its limit test read them
    loaded,    \* loaded[t]: which of them it has read
    result,    \* result[t]: the match_filter_result of its latest call
    resetting, \* between the two stores of reset_filter_counters
    calls,     \* number of calls so far
    resets,    \* number of resets so far
    hist       \* history, read by the properties only

vars == <<scen, cnt, pc, call, seen, loaded, result, resetting, calls, resets, hist>>

\* base: the value last stored into a counter; passed: bytes added since then
\* whose packet was let through; pos[t]: the counter right after t's addition,
\* counted[t]: which has not been reset since; passedAt: the pos of all packets
\* let through since then.
NoHistory(c) ==
    [base |-> c,
     passed |-> [d \in Counter |-> 0],
     pos |-> [t \in Thread |-> 0],
     counted |-> [t \in Thread |-> FALSE],
     passedAt |-> [d \in Counter |-> {}]]

Init ==
    /\ scen \in Scenario
    /\ cnt = scen.cnt
    /\ pc = [t \in Thread |-> "idle"]
    /\ call = [t \in Thread |-> [rule |-> 0, dir |-> NoMatch]]
    /\ seen = [t \in Thread |-> [d \in Counter |-> 0]]
    /\ loaded = [t \in Thread |-> {}]
    /\ result = [t \in Thread |-> [match |-> FALSE, exceeded |-> FALSE, action |-> "COUNT"]]
    /\ resetting = FALSE
    /\ calls = 0 /\ resets = 0
    /\ hist = NoHistory(scen.cnt)

\* The filter the calls are made on.
this == scen.filter

Rule(t) == this.rules[call[t].rule]

Counts(rule) == rule.action \in {"COUNT", "COUNTPASS"}

\* Forward traffic is counted as sent, backward traffic as received.
CounterOf(t) == IF call[t].dir = FORWARD THEN "sent" ELSE "recv"
----------------------------------------------------------------------------
\* is_traffic_limit_exceeded with the counters s.
LimitExceeded(s) ==
    IF this.m_bRevers
    THEN this.m_nTrafficLimitType # "SENT_OR_RECV" /\ (s["sent"] < 0 \/ s["recv"] < 0)
    ELSE /\ this.m_nTrafficLimit # 0
         /\ CASE this.m_nTrafficLimitType = "SENT_PLUS_RECV" -> s["sent"] + s["recv"] >= this.m_nTrafficLimit
              [] this.m_nTrafficLimitType = "SENT" -> s["sent"] >= this.m_nTrafficLimit
              [] this.m_nTrafficLimitType = "RECV" -> s["recv"] >= this.m_nTrafficLimit
              [] OTHER -> s["sent"] >= this.m_nTrafficLimit \/ s["recv"] >= this.m_nTrafficLimit

\* The counters it reads next, given those read so far: the operands of + in
\* any order, those of || from left to right and only as far as needed.
ToLoad(t) ==
    LET orElse == IF "sent" \notin loaded[t] THEN {"sent"}
                  ELSE IF LimitExceeded(seen[t]) THEN {}
                  ELSE {"recv"} \ loaded[t]
    IN  IF this.m_bRevers
        THEN IF this.m_nTrafficLimitType = "SENT_OR_RECV" THEN {} ELSE orElse
        ELSE IF this.m_nTrafficLimit = 0 THEN {}
        ELSE CASE this.m_nTrafficLimitType = "SENT_PLUS_RECV" -> Counter \ loaded[t]
               [] this.m_nTrafficLimitType = "SENT" -> {"sent"} \ loaded[t]
               [] this.m_nTrafficLimitType = "RECV" -> {"recv"} \ loaded[t]
               [] OTHER -> orElse
----------------------------------------------------------------------------
Callable(t) == pc[t] \in {"idle", "done"} /\ calls < scen.maxCalls

\* match_filter without a matching rule: the cleared result is returned.
MatchNothing(t, data) ==
    /\ Callable(t)
    /\ NoRuleMatches(this, data, cnt)
    /\ pc' = [pc EXCEPT ![t] = "done"]
    /\ call' = [call EXCEPT ![t] = [data |-> data, rule |-> 0, dir |-> NoMatch]]
    /\ result' = [result EXCEPT ![t] = [match |-> FALSE, exceeded |-> FALSE, action |-> "COUNT"]]
    /\ calls' = calls + 1
    /\ UNCHANGED <<scen, cnt, seen, loaded, resetting, resets, hist>>

\* match_filter up to the match with rule i.
MatchRule(t, data, i) ==
    /\ Callable(t)
    /\ FirstMatch(this, data, cnt, i)
    /\ pc' = [pc EXCEPT ![t] =
                 IF ~ Counts(this.rules[i]) THEN "return"
                 ELSE IF data.nModifyCounter THEN "add"
                 ELSE IF this.m_nTrafficLimitAction = "BLOCK" THEN "check" ELSE "return"]
    /\ call' = [call EXCEPT ![t] =
                   [data |-> data, rule |-> i, dir |-> RuleDirection(this.rules[i], data, cnt)]]
    /\ seen' = [seen EXCEPT ![t] = [d \in Counter |-> 0]]
    /\ loaded' = [loaded EXCEPT ![t] = {}]
    /\ calls' = calls + 1
    /\ hist' = [hist EXCEPT !.counted[t] = FALSE]
    /\ UNCHANGED <<scen, cnt, result, resetting, resets>>

\* add_cnt, downwards for a reversed filter.
NewCount(t) ==
    IF this.m_bRevers THEN cnt[CounterOf(t)] - call[t].data.length
                   ELSE cnt[CounterOf(t)] + call[t].data.length

\* Mutant: the limit is tested before the packet is added.
MutAddCnt(t) ==
    /\ pc[t] = "add"
    /\ cnt' = [cnt EXCEPT ![CounterOf(t)] = NewCount(t)]
    /\ pc' = [pc EXCEPT ![t] = IF this.m_nTrafficLimitAction = "BLOCK" THEN "check" ELSE "return"]
    /\ seen' = [seen EXCEPT ![t] = cnt]
    /\ loaded' = [loaded EXCEPT ![t] = Counter]
    /\ hist' = [hist EXCEPT !.pos[t] = NewCount(t), !.counted[t] = TRUE]
    /\ UNCHANGED <<scen, call, result, resetting, calls, resets>>

AddCnt(t) ==
    /\ pc[t] = "add"
    /\ cnt' = [cnt EXCEPT ![CounterOf(t)] = NewCount(t)]
    /\ pc' = [pc EXCEPT ![t] = IF this.m_nTrafficLimitAction = "BLOCK" THEN "check" ELSE "return"]
    /\ hist' = [hist EXCEPT !.pos[t] = NewCount(t), !.counted[t] = TRUE]
    /\ UNCHANGED <<scen, call, seen, loaded, result, resetting, calls, resets>>

\* get_cnt of one counter in the limit test.
LoadCnt(t, d) ==
    /\ pc[t] = "check"
    /\ d \in ToLoad(t)
    /\ seen' = [seen EXCEPT ![t][d] = cnt[d]]
    /\ loaded' = [loaded EXCEPT ![t] = @ \cup {d}]
    /\ UNCHANGED <<scen, cnt, pc, call, result, resetting, calls, resets, hist>>

\* The packet is denied when the limit is exceeded or the filter is blocked.
Return(t) ==
    LET exceeded == pc[t] = "check" /\ LimitExceeded(seen[t])
        action == IF exceeded \/ this.m_bBlocked THEN "DENY" ELSE Rule(t).action
        counts == action # "DENY" /\ hist.counted[t]
        d == CounterOf(t)
    IN  /\ pc[t] = "return" \/ (pc[t] = "check" /\ ToLoad(t) = {})
        /\ pc' = [pc EXCEPT ![t] = "done"]
        /\ result' = [result EXCEPT ![t] = [match |-> TRUE, exceeded |-> exceeded, action |-> action]]
        /\ hist' = IF counts
                   THEN [hist EXCEPT !.passed[d] = @ + call[t].data.length,
                                     !.passedAt[d] = @ \cup {hist.pos[t]}]
                   ELSE hist
        /\ UNCHANGED <<scen, cnt, call, seen, loaded, resetting, calls, resets>>
----------------------------------------------------------------------------
\* filtercnt::reset of one counter.
ResetCnt(d) ==
    /\ cnt' = [cnt EXCEPT ![d] = 0]
    /\ hist' = [hist EXCEPT !.base[d] = 0, !.passed[d] = 0, !.passedAt[d] = {},
                            !.counted = [t \in Thread |-> hist.counted[t] /\ CounterOf(t) # d]]
    /\ UNCHANGED <<scen, pc, call, seen, loaded, result, calls>>

\* reset_filter_counters: first cnt_sent ...
ResetSent ==
    /\ ~ resetting /\ resets < scen.maxResets
    /\ resetting' = TRUE
    /\ resets' = resets + 1
    /\ ResetCnt("sent")

\* ... then cnt_recv.
ResetRecv ==
    /\ resetting
    /\ resetting' = FALSE
    /\ UNCHANGED resets
    /\ ResetCnt("recv")

Next ==
    \/ \E t \in Thread :
           \/ \E data \in scen.inputs :
                  \/ MatchNothing(t, data)
                  \/ \E i \in DOMAIN this.rules : MatchRule(t, data, i)
           \/ AddCnt(t)
           \/ \E d \in Counter : LoadCnt(t, d)
           \/ Return(t)
    \/ ResetSent
    \/ ResetRecv

Spec == Init /\ [][Next]_vars
----------------------------------------------------------------------------
Blocks == this.m_nTrafficLimitAction = "BLOCK"
Limited == Blocks /\ ~ this.m_bRevers /\ this.m_nTrafficLimit # 0
Prepaid == Blocks /\ this.m_bRevers /\ this.m_nTrafficLimitType # "SENT_OR_RECV"

\* The counters the limit is about.
LimitedCounters ==
    CASE this.m_nTrafficLimitType = "SENT" -> {"sent"}
      [] this.m_nTrafficLimitType = "RECV" -> {"recv"}
      [] OTHER -> Counter

\* The bytes that are let through since a counter was last stored stay below
\* the limit, or within the balance of a reversed filter, although the threads
\* add, read and decide independently of each other and of resets: the test
\* comes after the addition, so the last thread to add sees all the others.
PassedWithinLimit ==
    LET total == [d \in Counter |-> hist.base[d] + hist.passed[d]] IN
    /\ Limited =>
          /\ \A d \in LimitedCounters : hist.passed[d] > 0 => total[d] < this.m_nTrafficLimit
          /\ this.m_nTrafficLimitType = "SENT_PLUS_RECV" /\ hist.passed["sent"] + hist.passed["recv"] > 0
                 => total["sent"] + total["recv"] < this.m_nTrafficLimit
    /\ Prepaid => \A d \in Counter : hist.passed[d] > 0 => hist.base[d] - hist.passed[d] >= 0

\* Every packet let through was counted at a value below the limit, or not
\* below zero in a reversed filter.
PassedBelowLimit ==
    \A d \in Counter : \A p \in hist.passedAt[d] :
        /\ Limited /\ d \in LimitedCounters => p < this.m_nTrafficLimit
        /\ Prepaid => p >= 0

MaxLength == CHOOSE n \in {d.length : d \in scen.inputs} : \A d \in scen.inputs : d.length <= n

\* A rule for "less than so many bytes sent" tests the counter before the
\* packet is added: the counter passes the bound by at most one packet of each
\* thread.
OvershootBounded ==
    \A lim \in {this.rules[i].condition_limit : i \in DOMAIN this.rules} :
        (/\ ~ this.m_bRevers /\ scen.cnt["sent"] < lim
         /\ \A i \in DOMAIN this.rules :
                /\ this.rules[i].condition_type = "SENT_LESS"
                /\ this.rules[i].condition_limit <= lim)
        => cnt["sent"] < lim + Cardinality(Thread) * MaxLength

\* A filter of rules with the option TCPSYN matches a TCP packet only if it
\* opens a connection, and never as an answer, whether its rules are mirrored
\* or not.
SynRuleOnlyOpens ==
    \A t \in Thread :
        (/\ pc[t] # "idle" /\ call[t].rule # 0 /\ call[t].data.proto = 6
         /\ \A i \in DOMAIN this.rules : "TCPSYN" \in this.rules[i].pkt_options)
        => /\ "SYN" \in call[t].data.flags /\ "ACK" \notin call[t].data.flags
           /\ call[t].dir = FORWARD

Reversed(data) ==
    [data EXCEPT !.src = data.dst, !.dst = data.src,
                 !.nPacketDirection = CASE @ = "incoming" -> "outgoing"
                                        [] @ = "outgoing" -> "incoming"
                                        [] OTHER -> @]

\* A rule that says the same of both directions.
Mirrored(rule) ==
    /\ TriesBackward(rule)
    /\ rule.pkt_options = {}
    /\ rule.condition_type = "ALWAYS"
    /\ {rule.src.type, rule.dst.type} \cap {"INCOMING", "OUTGOING"} = {}

\* With mirrored rules the answer to a packet meets the same rule and is
\* counted in the other counter, unless the rule matches the packet both ways.
AnswerCountedOpposite ==
    \A t \in Thread :
        pc[t] # "idle" /\ (\A i \in DOMAIN this.rules : Mirrored(this.rules[i])) =>
            LET data == call[t].data
                i == call[t].rule
                back == Reversed(data)
            IN  IF i = 0 THEN NoRuleMatches(this, back, cnt)
                ELSE /\ FirstMatch(this, back, cnt, i)
                     /\ \/ {call[t].dir, RuleDirection(Rule(t), back, cnt)} = {FORWARD, BACKWARD}
                        \/ \A dir \in {FORWARD, BACKWARD} : DirectionMatch(Rule(t), data, cnt, dir)

\* The comment at is_match (filter2.cpp, lines 290-291): once a test of the
\* rule fails the rule does not match; so both its port conditions hold of a
\* packet it matches.
PortConditionsHold ==
    \A t \in Thread :
        pc[t] # "idle" /\ call[t].rule # 0 /\ call[t].data.proto \in {6, 17}
            /\ Rule(t).proto # 0 =>
                LET ends == Ends(call[t].data, call[t].dir) IN
                /\ PortMatch(Rule(t).src, ends.src.port)
                /\ PortMatch(Rule(t).dst, ends.dst.port)
=============================================================================
