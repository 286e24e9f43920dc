---- MODULE MCDhcpServer ----
(***************************************************************************)
(* Two clients and a static host that uses BOOTP, an interface and a relay *)
(* behind it.  The third address has a negative index in the short char.   *)
(***************************************************************************)
EXTENDS DhcpServer

MCStatic == [c \in Client \cap {3} |-> 1]
MCVia == [n \in Net |-> 1]
MCGateway == [n \in Net |-> 0]
MCReach == [n \in Net |-> IF n = 1 THEN 1 .. RangeSize ELSE 2 .. RangeSize]
Sends(a, b, c) == [x \in Client |-> CASE x = 1 -> a [] x = 2 -> b [] x = 3 -> c]

\* A client that roams, a lease file that fails, and the static host.
MCWorld ==
    {[visits |-> Sends({1, 2}, {1}, {}), fails |-> 0, stops |-> 1],
     [visits |-> Sends({1}, {1}, {}), fails |-> 1, stops |-> 1],
     [visits |-> Sends({1}, {}, {2}), fails |-> 0, stops |-> 1]}
====
