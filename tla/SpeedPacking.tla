---------------------------- MODULE SpeedPacking ----------------------------
(***************************************************************************)
(* The 16 bit form in which speeds are stored and sent to consoles         *)
(* (filtercnt::pack_speed and unpack_speed, corefilters/filtercnt.cpp).    *)
(***************************************************************************)
EXTENDS Integers

\* Mutants: the switch of representation one too late, and the large speeds
\* stored as what exceeds 128 KByte/sec.
MutPackSpeedSwitch(speed) ==
    IF speed <= 131072
      THEN speed \div 4
      ELSE 32768 + ((speed \div 1024) % 32768)

MutPackSpeedOver(speed) ==
    IF speed < 131072
      THEN speed \div 4
      ELSE 32768 + (((speed - 131072) \div 1024) % 32768)

\* pack_speed.  speed is unsigned 32 bit; the shifted value is or-ed with the
\* top bit and cut to 16 bit, which keeps its low 15 bits.
PackSpeed(speed) ==
    IF speed < 131072
      THEN speed \div 4
      ELSE 32768 + ((speed \div 1024) % 32768)

\* unpack_speed
UnpackSpeed(packed_speed) ==
    IF packed_speed < 32768
      THEN 4 * packed_speed
      ELSE 1024 * (packed_speed % 32768)

\* The speeds the packed form can express: below 32 MByte/sec.
PackableSpeed == {s \in Nat : s < 33554432}

\* Unit of the packed form of a speed: 4 bytes below 128 KByte/sec, 1 KByte above.
PackUnit(speed) == IF speed < 131072 THEN 4 ELSE 1024
=============================================================================
