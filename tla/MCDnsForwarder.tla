---- MODULE MCDnsForwarder ----
(***************************************************************************)
(* Two forwarding servers, one of which may be silent; two clients that    *)
(* use one id, one whose id is a host name, and clients that do not share. *)
(***************************************************************************)
EXTENDS DnsForwarder

Query(c, x, n) == [client |-> c, id |-> x, name |-> n]

MCWorld ==
    {[asks |-> {Query("c1", "7", "a"), Query("c2", "7", "b")},
      alive |-> {2}, prompt |-> FALSE, fails |-> 0, hosts |-> FALSE],
     [asks |-> {Query("c1", "7", "a"), Query("c2", "8", "7"), Query("c3", "8", "7")},
      alive |-> {1, 2}, prompt |-> TRUE, fails |-> 0, hosts |-> TRUE],
     [asks |-> {Query("c1", "7", "a"), Query("c2", "8", "b")},
      alive |-> {2}, prompt |-> TRUE, fails |-> 1, hosts |-> FALSE]}
====
