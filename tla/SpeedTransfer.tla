--------------------------- MODULE SpeedTransfer ---------------------------
(***************************************************************************)
(* Two consecutive speeds of a filter on their way from do_refresh, which  *)
(* packs them, to a console, which unpacks and displays them.              *)
(***************************************************************************)
EXTENDS SpeedPacking, Sequences

CONSTANT Speeds    \* the speeds measured

ASSUME SpeedsAssumption == Speeds \subseteq Nat

VARIABLES measured,   \* cnt_speed values of the service
          packed,     \* their packed forms, in cnt_set
          shown       \* what the console unpacked

transferVars == <<measured, packed, shown>>

TransferInit ==
    /\ measured = <<>>
    /\ packed = <<>>
    /\ shown = <<>>

Measure(speed) ==
    /\ Len(measured) < 2
    /\ measured' = Append(measured, speed)
    /\ packed' = Append(packed, PackSpeed(speed))
    /\ UNCHANGED shown

Display ==
    /\ Len(shown) < Len(packed)
    /\ shown' = Append(shown, UnpackSpeed(packed[Len(shown) + 1]))
    /\ UNCHANGED <<measured, packed>>

TransferNext == Display \/ \E speed \in Speeds : Measure(speed)

TransferSpec == TransferInit /\ [][TransferNext]_transferVars
----------------------------------------------------------------------------
\* Up to 32 MByte/sec the console shows the measured speed, rounded down by
\* less than one unit of the packed form, on both sides of the 128 KByte/sec
\* switch of representation.
DisplayAccurate ==
    \A i \in DOMAIN shown :
        measured[i] \in PackableSpeed =>
            /\ shown[i] <= measured[i]
            /\ measured[i] - shown[i] < PackUnit(measured[i])

\* A faster filter is never shown slower: packing keeps the order of speeds,
\* across the switch of representation too.
DisplayMonotone ==
    \A i, j \in DOMAIN shown :
        measured[i] \in PackableSpeed /\ measured[j] \in PackableSpeed
            /\ measured[i] <= measured[j] => shown[i] <= shown[j]
=============================================================================
