--------------------------- MODULE MCSiteCategory ---------------------------
(* Instance of SiteCategory: two connection threads, two sites. *)
EXTENDS SiteCategory

CONSTANTS c1, c2, s1, s2

MCVerdict == {Sex, Ok}
\* The database is empty or has an old row for one of the sites.
MCStored ==
    LET row == [status |-> Suspicious, old |-> TRUE]
    IN  {[s \in Site |-> {}], [s \in Site |-> IF s = s1 THEN {row} ELSE {}]}
=============================================================================
