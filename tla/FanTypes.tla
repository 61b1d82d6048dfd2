------------------------------ MODULE FanTypes ------------------------------
(***************************************************************************)
(* The three enumerations of ops-fand and their conversions from and to    *)
(* the strings that the database holds (fanspeed.c, fanstatus.c,           *)
(* fandirection.c).  A C enum is the integer of its enumerator.            *)
(***************************************************************************)
EXTENDS Integers, Sequences

CONSTANT NULL    \* the null pointer: an absent map key, row, column or struct

(* enum fanspeed: NONE is "no override", never a speed a fan can run at. *)
FAND_SPEED_NONE   == -1
FAND_SPEED_SLOW   == 0
FAND_SPEED_NORMAL == 1
FAND_SPEED_MEDIUM == 2
FAND_SPEED_FAST   == 3
FAND_SPEED_MAX    == 4

(* Seeded mistake: a name that ops-tempd does not use.                     *)
fanspeed_string_misnamed == <<"slow", "normal", "medium", "fast", "maximum">>

fanspeed_string == <<"slow", "normal", "medium", "fast", "max">>

RealSpeed == FAND_SPEED_SLOW .. FAND_SPEED_MAX
FanSpeed  == FAND_SPEED_NONE .. FAND_SPEED_MAX

FAND_STATUS_UNINITIALIZED == 0
FAND_STATUS_OK            == 1
FAND_STATUS_FAULT         == 2

fanstatus_string == <<"uninitialized", "ok", "fault">>

(* What the status field of a struct may hold: an enumerator, or, fresh    *)
(* from malloc, any integer; those above the enumerators (written 3) every *)
(* reader treats alike.                                                    *)
CachedStatus == FAND_STATUS_UNINITIALIZED .. 3

FAND_DIRECTION_F2B == 0
FAND_DIRECTION_B2F == 1

fandirection_string == <<"f2b", "b2f">>

(* What the tables can turn an enumerator into. *)
SpeedName     == {"slow", "normal", "medium", "fast", "max"}
StatusName    == {"uninitialized", "ok", "fault"}
DirectionName == {"f2b", "b2f"}

-----------------------------------------------------------------------------

(* The search loop that the three *_string_to_enum functions share: the    *)
(* index of the name in the table, or the default for NULL and for a name  *)
(* the table lacks.                                                        *)
IndexOfName(table, name, default) ==
  IF \E i \in DOMAIN table : table[i] = name
  THEN (CHOOSE i \in DOMAIN table : table[i] = name) - 1
  ELSE default

(* Seeded mistake: the last name of the table is out of bounds.            *)
NameAtIndexShort(table, e, default) ==
  IF e \in 0 .. Len(table) - 2 THEN table[e + 1] ELSE table[default + 1]

NameAtIndex(table, e, default) ==
  IF e \in 0 .. Len(table) - 1 THEN table[e + 1] ELSE table[default + 1]

fan_speed_string_to_enum(name) ==
  IndexOfName(fanspeed_string, name, FAND_SPEED_NONE)
fan_speed_enum_to_string(e) ==
  NameAtIndex(fanspeed_string, e, FAND_SPEED_NORMAL)

fan_status_string_to_enum(name) ==
  IndexOfName(fanstatus_string, name, FAND_STATUS_UNINITIALIZED)
fan_status_enum_to_string(e) ==
  NameAtIndex(fanstatus_string, e, FAND_STATUS_UNINITIALIZED)

fan_direction_string_to_enum(name) ==
  IndexOfName(fandirection_string, name, FAND_DIRECTION_F2B)
fan_direction_enum_to_string(e) ==
  NameAtIndex(fandirection_string, e, FAND_DIRECTION_F2B)

=============================================================================
