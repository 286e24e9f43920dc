-------------------------- MODULE MCTrafficCounter --------------------------
(* Instance of TrafficCounter with two reset periods and two restarts. *)
EXTENDS TrafficCounter
=============================================================================
