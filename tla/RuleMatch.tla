----------------------------- MODULE RuleMatch -----------------------------
(***************************************************************************)
(* Does a rule match a packet, and in which direction: the loop over the   *)
(* rules of filter2::match_filter (filter2.cpp) as operators.              *)
(*                                                                         *)
(* What the code keeps as src_x and dst_x members is here a record per     *)
(* end, of the rule (rule.src, rule.dst) and of the packet (data.src,      *)
(* data.dst).  A packet's end also has what match_filter_input says of it: *)
(* whether the address is this computer's (mypc) or in the LAN table       *)
(* (lat), the nickname and the owner of the local process (0: none).       *)
(*                                                                         *)
(* Bit masks (pkt_options, wday, work hours) are sets.  Addresses and ICMP *)
(* types keep their bits, since masks are applied to them.  A MAC address  *)
(* is its first two and its last four bytes.  The tables a rule refers to  *)
(* are data.mat (address groups by key), data.hosts (addresses by name)    *)
(* and data.users (pairs of user and address that are logged in).          *)
(* The FTP and the stateful tracking are commented out in the code.        *)
(***************************************************************************)
EXTENDS Integers, Sequences

FORWARD == 0
BACKWARD == 1
NoMatch == 2      \* curdir after both directions were tried

\* The bits that are set in n (addresses and ICMP types of the model are small).
Bits(n) == {i \in 0 .. 7 : (n \div 2^i) % 2 = 1}

\* Mutant: backward, the LAN flag of the wrong end is tested.
MutEnds(data, curdir) ==
    IF curdir = FORWARD
    THEN [src |-> data.src, dst |-> data.dst]
    ELSE [src |-> [data.dst EXCEPT !.lat = data.src.lat], dst |-> data.src]

\* The ends of the packet as the rule's source and destination, in direction
\* curdir.
Ends(data, curdir) ==
    IF curdir = FORWARD
    THEN [src |-> data.src, dst |-> data.dst]
    ELSE [src |-> data.dst, dst |-> data.src]

\* The tests that are the same for both ends: rule end r, packet end e.
AddrMatch(r, e, data) ==
    CASE r.type = "MYIP" -> e.mypc
      [] r.type = "IP" -> Bits(e.ip) \cap Bits(r.mask) = Bits(r.ip) \cap Bits(r.mask)
      [] r.type = "RANGE" -> r.ip <= e.ip /\ e.ip <= r.mask
      [] r.type = "LAN" -> e.lat
      [] r.type = "WAN" -> ~ e.lat
      [] r.type = "MAC" -> r.mac = e.mac
      [] r.type = "HOST" -> r.host \in DOMAIN data.hosts /\ e.ip \in data.hosts[r.host]
      [] r.type = "ADDRGRP" -> r.atkey \in DOMAIN data.mat /\ e.ip \in data.mat[r.atkey]
      [] r.type = "ADDRGRP_NO" -> r.atkey \in DOMAIN data.mat /\ e.ip \notin data.mat[r.atkey]
      [] r.type = "INCOMING" -> data.nPacketDirection = "incoming"
      [] r.type = "USER" -> <<r.uid, e.ip>> \in data.users
      [] r.type = "USER_ANY" -> \E u \in data.users : u[2] = e.ip
      [] r.type = "PROCNAME" -> e.proc # 0 /\ e.proc = r.procnick
      [] r.type = "PROCUSER" -> e.uid # 0 /\ e.uid = r.uid
      [] OTHER -> FALSE

\* RULE_OUTGOING is tested with != at the source and with == at the destination.
SrcAddrMatch(r, e, data) ==
    IF r.type = "OUTGOING" THEN data.nPacketDirection # "outgoing" ELSE AddrMatch(r, e, data)

DstAddrMatch(r, e, data) ==
    IF r.type = "OUTGOING" THEN data.nPacketDirection = "outgoing" ELSE AddrMatch(r, e, data)

PortMatch(r, port) ==
    CASE r.port_type = "ANY" -> TRUE
      [] r.port_type = "EQUAL" -> port = r.port
      [] r.port_type = "GREATER" -> port > r.port
      [] r.port_type = "LESS" -> port < r.port
      [] r.port_type = "NOTEQUAL" -> port # r.port
      [] r.port_type = "BETWEEN" -> port >= r.port /\ port <= r.port_to
      [] r.port_type = "NOTBETWEEN" -> port <= r.port \/ port >= r.port_to
      [] r.port_type = "EQUAL_OR" -> port = r.port \/ port = r.port_to

\* The switch over dst_port_type assigns is_match whatever the switch over
\* src_port_type left in it: a destination condition replaces the source's.
PortsMatch(rule, ends) ==
    IF rule.dst.port_type # "ANY"
    THEN PortMatch(rule.dst, ends.dst.port)
    ELSE PortMatch(rule.src, ends.src.port)

ProtoMatch(rule, data, ends) ==
    \/ rule.proto = 0
    \/ /\ rule.proto = data.proto
       /\ data.proto \in {6, 17} => PortsMatch(rule, ends)

\* Packet options, tested forward only.  For ICMP the type is the high byte of
\* flags and the TTL test replaces the result of the echo test.
OptionsMatch(rule, data, curdir) ==
    curdir = FORWARD =>
        /\ data.proto = 1 =>
               IF "ICMPTTLEXCEEDED" \in rule.pkt_options
               THEN Bits(11) \subseteq Bits(data.icmp)
               ELSE "ICMPECHOREQUEST" \in rule.pkt_options => Bits(8) \subseteq Bits(data.icmp)
        /\ data.proto = 6 /\ "TCPSYN" \in rule.pkt_options =>
               "SYN" \in data.flags /\ "ACK" \notin data.flags

\* Mutant: less or equal, for the condition on the bytes sent.
MutConditionMatch(rule, cnt) ==
    IF rule.condition_type = "SENT_LESS" THEN cnt.sent <= rule.condition_limit
    ELSE rule.condition_type = "ALWAYS"

\* The condition on the filter's own counters, as they are read here.
ConditionMatch(rule, cnt) ==
    LET lim == rule.condition_limit IN
    CASE rule.condition_type = "ALWAYS" -> TRUE
      [] rule.condition_type = "SENT_LESS" -> cnt.sent < lim
      [] rule.condition_type = "SENT_GREATER" -> cnt.sent > lim
      [] rule.condition_type = "RECV_LESS" -> cnt.recv < lim
      [] rule.condition_type = "RECV_GREATER" -> cnt.recv > lim
      [] rule.condition_type = "SENT_OR_RECV_LESS" -> cnt.sent < lim \/ cnt.recv < lim
      [] rule.condition_type = "SENT_OR_RECV_GREATER" -> cnt.sent > lim \/ cnt.recv > lim
      [] rule.condition_type = "SENT_AND_RECV_LESS" -> cnt.sent < lim /\ cnt.recv < lim
      [] rule.condition_type = "SENT_AND_RECV_GREATER" -> cnt.sent > lim /\ cnt.recv > lim
      [] rule.condition_type = "SENT_PLUS_RECV_LESS" -> cnt.sent + cnt.recv < lim
      [] rule.condition_type = "SENT_PLUS_RECV_GREATER" -> cnt.sent + cnt.recv > lim

TimeMatch(rule, lt) ==
    /\ lt.wday \in rule.wday
    /\ rule.time_from <= lt.hour
    /\ lt.hour <= rule.time_to

\* From a netflow collector only the last four bytes of a MAC address are
\* compared, and only by the two tests for equality.
MacEqual(mac, rule, data) ==
    IF data.nNicAlias = "NETFLOW" THEN mac[2] = rule.cond_mac_data[2] ELSE mac = rule.cond_mac_data

MacMatch(rule, data, ends) ==
    CASE rule.cond_mac_type = "ANY" -> TRUE
      [] rule.cond_mac_type = "SRC_EQUAL" -> MacEqual(ends.src.mac, rule, data)
      [] rule.cond_mac_type = "SRC_NOTEQUAL" -> ends.src.mac # rule.cond_mac_data
      [] rule.cond_mac_type = "DST_EQUAL" -> MacEqual(ends.dst.mac, rule, data)
      [] rule.cond_mac_type = "DST_NOTEQUAL" -> ends.dst.mac # rule.cond_mac_data

PrevFilterMatch(rule, data) ==
    CASE rule.prevfilter_type = "ANY" -> TRUE
      [] rule.prevfilter_type = "NOTMATCHED" -> data.nPrevFilter = 0
      [] rule.prevfilter_type = "MATCHED" -> data.nPrevFilter = 1

DirectionMatch(rule, data, cnt, curdir) ==
    LET ends == Ends(data, curdir) IN
    /\ SrcAddrMatch(rule.src, ends.src, data)
    /\ DstAddrMatch(rule.dst, ends.dst, data)
    /\ ProtoMatch(rule, data, ends)
    /\ OptionsMatch(rule, data, curdir)
    /\ ConditionMatch(rule, cnt)
    /\ TimeMatch(rule, data.lt)
    /\ MacMatch(rule, data, ends)
    /\ PrevFilterMatch(rule, data)

\* The rule is not for this kind of traffic: the next rule is tried.
NatAndNicMatch(rule, data) ==
    /\ rule.natuse = "YES" => data.bWithNat
    /\ rule.natuse = "NO" => ~ data.bWithNat
    /\ rule.nicalias \in {"PUBLIC", "PRIVATE", "NETFLOW"} => rule.nicalias = data.nNicAlias

\* Mutant: rules for opening packets are tried backward too.
MutTriesBackward(rule) == rule.mirrored # "ONEWAY"

\* A rule that is one way, or that is for opening packets, is not tried
\* backward.
TriesBackward(rule) ==
    /\ rule.mirrored # "ONEWAY"
    /\ {"TCPSYN", "ICMPECHOREQUEST"} \cap rule.pkt_options = {}

\* The direction in which the rule matches, forward first.
RuleDirection(rule, data, cnt) ==
    IF ~ NatAndNicMatch(rule, data) THEN NoMatch
    ELSE IF DirectionMatch(rule, data, cnt, FORWARD) THEN FORWARD
    ELSE IF TriesBackward(rule) /\ DirectionMatch(rule, data, cnt, BACKWARD) THEN BACKWARD
    ELSE NoMatch

\* Neither disabled nor outside its working hours and days (m_nWorkHours by
\* tm_wday; the code's array starts on Monday).
FilterActive(filter, lt) ==
    /\ ~ filter.m_bDisable
    /\ lt.hour \in filter.m_nWorkHours[lt.wday]
    /\ filter.m_nStartDay <= lt.day /\ lt.day <= filter.m_nEndDay

\* Rule i is the first one that matches.
FirstMatch(filter, data, cnt, i) ==
    /\ FilterActive(filter, data.lt)
    /\ RuleDirection(filter.rules[i], data, cnt) # NoMatch
    /\ \A j \in 1 .. i - 1 : RuleDirection(filter.rules[j], data, cnt) = NoMatch

NoRuleMatches(filter, data, cnt) ==
    FilterActive(filter, data.lt) =>
        \A i \in DOMAIN filter.rules : RuleDirection(filter.rules[i], data, cnt) = NoMatch
=============================================================================
