--------------------------- MODULE MCFilterMatch ---------------------------
(* Scenarios for FilterMatch: one family of filters and packets for each    *)
(* part of a rule, called once, and filters with limits that two threads    *)
(* work on.                                                                 *)
EXTENDS FilterMatch, TLC

MacA == <<1, 1>>
MacB == <<2, 1>>     \* the last four bytes are those of MacA
MacC == <<2, 2>>

RuleEnd ==
    [type |-> "IP", ip |-> 0, mask |-> 0, mac |-> MacA, host |-> "h", atkey |-> 1, uid |-> 1,
     procnick |-> 1, port_type |-> "ANY", port |-> 2, port_to |-> 3]

AnyRule ==
    [src |-> RuleEnd, dst |-> RuleEnd, mirrored |-> "TWOWAY", proto |-> 0, pkt_options |-> {},
     condition_type |-> "ALWAYS", condition_limit |-> 0, wday |-> 0 .. 6, time_from |-> 0,
     time_to |-> 23, cond_mac_type |-> "ANY", cond_mac_data |-> MacA,
     prevfilter_type |-> "ANY", natuse |-> "ANY", nicalias |-> "DEFAULT", action |-> "COUNT"]

AnyFilter ==
    [m_bDisable |-> FALSE, m_nWorkHours |-> [d \in 0 .. 6 |-> 0 .. 23], m_nStartDay |-> 1,
     m_nEndDay |-> 9, m_bRevers |-> FALSE, m_bBlocked |-> FALSE, m_nTrafficLimit |-> 0,
     m_nTrafficLimitType |-> "SENT_OR_RECV", m_nTrafficLimitAction |-> "BLOCK",
     rules |-> <<AnyRule>>]

\* This computer with the process of a local user, a LAN host with a remote
\* user, an internet host.
Here == [ip |-> 1, mac |-> MacA, port |-> 2, mypc |-> TRUE, lat |-> TRUE, proc |-> 1, uid |-> 1]
Lan == [ip |-> 2, mac |-> MacB, port |-> 3, mypc |-> FALSE, lat |-> TRUE, proc |-> 0, uid |-> 0]
Wan == [ip |-> 5, mac |-> MacC, port |-> 4, mypc |-> FALSE, lat |-> FALSE, proc |-> 2, uid |-> 2]

Packet ==
    [src |-> Here, dst |-> Wan, proto |-> 6, icmp |-> 0, flags |-> {}, length |-> 1,
     lt |-> [wday |-> 1, hour |-> 12, day |-> 5], nPacketDirection |-> "incoming",
     nNicAlias |-> "PUBLIC", bWithNat |-> FALSE, nPrevFilter |-> 0, nModifyCounter |-> TRUE,
     mat |-> (1 :> {2, 3}), hosts |-> ("h" :> {5}), users |-> {<<1, 2>>}]

Case(filters, inputs) ==
    {[filter |-> x, cnt |-> [d \in Counter |-> 0], inputs |-> inputs,
      maxCalls |-> 1, maxResets |-> 0] : x \in filters}

OneRule(rules) == {[AnyFilter EXCEPT !.rules = <<r>>] : r \in rules}

AddrType == {"MYIP", "IP", "RANGE", "LAN", "WAN", "MAC", "HOST", "ADDRGRP", "ADDRGRP_NO",
             "INCOMING", "OUTGOING", "USER", "USER_ANY", "PROCNAME", "PROCUSER", "none"}

AddrEnd(ty) ==
    [RuleEnd EXCEPT !.type = ty, !.ip = IF ty = "RANGE" THEN 2 ELSE 1, !.mask = 4]

AddrCases ==
    Case(OneRule({[AnyRule EXCEPT !.src = AddrEnd(a), !.dst = AddrEnd(b), !.mirrored = m] :
                     a \in AddrType, b \in AddrType, m \in {"ONEWAY", "TWOWAY"}}),
         {[Packet EXCEPT !.src = s, !.dst = d, !.nPacketDirection = p] :
             s \in {Here, Lan, Wan}, d \in {Here, Lan, Wan}, p \in {"incoming", "outgoing"}})

PortType == {"EQUAL", "GREATER", "LESS", "NOTEQUAL", "BETWEEN", "NOTBETWEEN", "EQUAL_OR"}
PortEnd(ty) == [RuleEnd EXCEPT !.port_type = ty]
PortRules(pairs) ==
    {[AnyRule EXCEPT !.src = PortEnd(p[1]), !.dst = PortEnd(p[2]), !.proto = n, !.mirrored = m] :
        p \in pairs, n \in {0, 6}, m \in {"ONEWAY", "STATEFUL"}}
PortPackets ==
    {[Packet EXCEPT !.src.port = p, !.dst.port = q, !.proto = n] :
        p \in 1 .. 4, q \in 1 .. 4, n \in {1, 6}}

PortCases ==
    Case(OneRule(PortRules(({"ANY"} \X PortType) \cup (PortType \X {"ANY"}))), PortPackets)

BothPortsCases ==
    Case(OneRule(PortRules(PortType \X PortType)), PortPackets)

OptionCases ==
    Case(OneRule({[AnyRule EXCEPT !.pkt_options = o, !.mirrored = m, !.src = AddrEnd("MYIP")] :
                     o \in SUBSET {"TCPSYN", "ICMPECHOREQUEST", "ICMPTTLEXCEEDED"},
                     m \in {"ONEWAY", "TWOWAY"}}),
         {[Packet EXCEPT !.src = s, !.dst = d, !.flags = fl] :
             s \in {Here, Wan}, d \in {Here, Wan}, fl \in SUBSET {"SYN", "ACK"}}
         \cup {[Packet EXCEPT !.proto = 1, !.icmp = i] : i \in {0, 3, 8, 11}})

OtherRules ==
    {[AnyRule EXCEPT !.cond_mac_type = c] :
        c \in {"SRC_EQUAL", "SRC_NOTEQUAL", "DST_EQUAL", "DST_NOTEQUAL"}}
    \cup {[AnyRule EXCEPT !.nicalias = n, !.natuse = u] :
            n \in {"DEFAULT", "PUBLIC", "NETFLOW"}, u \in {"ANY", "YES", "NO"}}
    \cup {[AnyRule EXCEPT !.prevfilter_type = p] : p \in {"NOTMATCHED", "MATCHED"}}
    \cup {[AnyRule EXCEPT !.wday = 1 .. 5, !.time_from = 9, !.time_to = 17]}
    \cup {[AnyRule EXCEPT !.action = a] : a \in {"PASS", "DENY"}}

OtherPackets ==
    {[Packet EXCEPT !.src = s, !.dst = d, !.nNicAlias = n, !.bWithNat = w] :
        s \in {Here, Lan}, d \in {Lan, Wan}, n \in {"PUBLIC", "NETFLOW"}, w \in BOOLEAN}
    \cup {[Packet EXCEPT !.nPrevFilter = 1, !.lt = [wday |-> w, hour |-> h, day |-> y]] :
            w \in {0, 1}, h \in {8, 9, 17, 18}, y \in {0, 1, 9, 10}}

OtherCases ==
    Case(OneRule(OtherRules)
         \cup {[AnyFilter EXCEPT !.m_bDisable = x, !.m_bBlocked = y,
                                 !.m_nWorkHours = [d \in 0 .. 6 |-> IF d = 0 THEN {} ELSE 9 .. 18]] :
                  x \in BOOLEAN, y \in BOOLEAN}
         \cup {[AnyFilter EXCEPT !.rules = <<[AnyRule EXCEPT !.src = AddrEnd(a)], AnyRule>>] :
                  a \in {"LAN", "WAN", "MYIP"}},
         OtherPackets)

ConditionType == {"SENT_LESS", "SENT_GREATER", "RECV_LESS", "RECV_GREATER",
                  "SENT_OR_RECV_LESS", "SENT_OR_RECV_GREATER", "SENT_AND_RECV_LESS",
                  "SENT_AND_RECV_GREATER", "SENT_PLUS_RECV_LESS", "SENT_PLUS_RECV_GREATER"}

Traffic(lens) ==
    {[Packet EXCEPT !.length = n, !.src = s, !.dst = IF s = Here THEN Wan ELSE Here] :
        n \in lens, s \in {Here, Wan}}

Repeated(filters, c, inputs, n) ==
    {[filter |-> x, cnt |-> c, inputs |-> inputs,
      maxCalls |-> n, maxResets |-> 1] : x \in filters}

FromHere(rule) == [rule EXCEPT !.src = AddrEnd("MYIP")]

ConditionCases ==
    Repeated(OneRule({FromHere([AnyRule EXCEPT !.condition_type = c, !.condition_limit = 3]) :
                         c \in ConditionType}),
             [d \in Counter |-> 2], Traffic({1, 2}), 3)

LimitCases ==
    Repeated({[AnyFilter EXCEPT !.rules = <<FromHere(AnyRule)>>, !.m_nTrafficLimit = 4,
                                !.m_nTrafficLimitType = ty] : ty \in LimitType},
             ("sent" :> 1 @@ "recv" :> 0), Traffic({1, 2}), 3)
    \cup
    Repeated({[AnyFilter EXCEPT !.rules = <<FromHere(AnyRule)>>, !.m_nTrafficLimit = 4,
                                !.m_nTrafficLimitAction = "SPEED2"]},
             [d \in Counter |-> 3], Traffic({1}), 2)
    \cup
    Repeated({[AnyFilter EXCEPT !.rules = <<FromHere(AnyRule)>>, !.m_bRevers = TRUE,
                                !.m_nTrafficLimitType = ty] : ty \in {"SENT_OR_RECV", "REVERS"}},
             [d \in Counter |-> 3], Traffic({1, 2}), 3)
    \cup
    Repeated({[AnyFilter EXCEPT !.rules = <<FromHere(AnyRule)>>, !.m_nTrafficLimit = 3,
                                !.m_nTrafficLimitAction = a] : a \in {"BLOCK", "SPEED2"}},
             [d \in Counter |-> 2],
             Traffic({1}) \cup {[p EXCEPT !.nModifyCounter = FALSE] : p \in Traffic({1})}, 3)

MCSymmetry == Permutations(Thread)

MCScenario ==
    AddrCases \cup PortCases \cup OptionCases \cup OtherCases \cup ConditionCases \cup LimitCases
=============================================================================
