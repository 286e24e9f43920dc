-------------------------- MODULE MCSpeedTransfer --------------------------
(* Speeds around every boundary of the packed form. *)
EXTENDS SpeedTransfer

MCSpeeds == {0, 1, 3, 4, 5, 131067, 131068, 131071, 131072, 131073, 132095, 132096,
             1048575, 1048576, 33553407, 33553408, 33554431, 33554432, 67108864}
=============================================================================
