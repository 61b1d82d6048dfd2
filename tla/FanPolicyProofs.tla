-------------------------- MODULE FanPolicyProofs ---------------------------
(***************************************************************************)
(* The speed decision obeys the policy for every set of sensor readings    *)
(* and every override.                                                     *)
(***************************************************************************)
EXTENDS FanPolicy, TLAPS

(* The search of fan_speed_string_to_enum finds the rank of a speed's name *)
(* and gives NONE for every other value.                                   *)
LEMMA EnumOfName ==
  /\ \A name \in DOMAIN Rank : fan_speed_string_to_enum(name) = Rank[name]
  /\ \A name : name \notin DOMAIN Rank
                 => fan_speed_string_to_enum(name) = FAND_SPEED_NONE
<1>1. DOMAIN fanspeed_string = 1 .. 5
  BY DEF fanspeed_string
<1>2. /\ fanspeed_string[1] = "slow"   /\ fanspeed_string[2] = "normal"
      /\ fanspeed_string[3] = "medium" /\ fanspeed_string[4] = "fast"
      /\ fanspeed_string[5] = "max"
  BY DEF fanspeed_string
<1>3. \A i \in 1 .. 5 : i = 1 \/ i = 2 \/ i = 3 \/ i = 4 \/ i = 5
  OBVIOUS
<1>4. ASSUME NEW name \in DOMAIN Rank
      PROVE  fan_speed_string_to_enum(name) = Rank[name]
  BY <1>1, <1>2, <1>3 DEF fan_speed_string_to_enum, IndexOfName, Rank
<1>5. ASSUME NEW name, name \notin DOMAIN Rank
      PROVE  fan_speed_string_to_enum(name) = FAND_SPEED_NONE
  BY <1>1, <1>2, <1>3, <1>5 DEF fan_speed_string_to_enum, IndexOfName, Rank
<1> QED BY <1>4, <1>5

(* The ranks are the enumerators of real speeds.                           *)
LEMMA RankIsSpeed == \A name \in DOMAIN Rank : Rank[name] \in 0 .. 4
BY DEF Rank

(* The name of a real speed has that speed for its rank; NONE, which the   *)
(* table lacks, is named "normal".                                         *)
LEMMA NameOfSpeed ==
  /\ \A e \in 0 .. 4 : /\ fan_speed_enum_to_string(e) \in DOMAIN Rank
                       /\ Rank[fan_speed_enum_to_string(e)] = e
  /\ fan_speed_enum_to_string(FAND_SPEED_NONE) = "normal"
<1>1. Len(fanspeed_string) = 5
  BY DEF fanspeed_string
<1>2. /\ fanspeed_string[1] = "slow"   /\ fanspeed_string[2] = "normal"
      /\ fanspeed_string[3] = "medium" /\ fanspeed_string[4] = "fast"
      /\ fanspeed_string[5] = "max"
  BY DEF fanspeed_string
<1>3. ASSUME NEW e \in 0 .. 4
      PROVE  fan_speed_enum_to_string(e) \in DOMAIN Rank
             /\ Rank[fan_speed_enum_to_string(e)] = e
  <2>1. e = 0 \/ e = 1 \/ e = 2 \/ e = 3 \/ e = 4
    OBVIOUS
  <2>2. fan_speed_enum_to_string(e) = fanspeed_string[e + 1]
    BY <1>1 DEF fan_speed_enum_to_string, NameAtIndex
  <2> QED BY <1>2, <2>1, <2>2 DEF Rank
<1>4. fan_speed_enum_to_string(FAND_SPEED_NONE) = "normal"
  BY <1>1, <1>2 DEF fan_speed_enum_to_string, NameAtIndex, FAND_SPEED_NONE, FAND_SPEED_NORMAL
<1> QED BY <1>3, <1>4

(* The maximum that the loop of fand_reconfigure computes is a rank that   *)
(* some reading asks for (or "slow"), and none asks for a higher one.      *)
LEMMA HighestIsHottest ==
  ASSUME NEW r
  PROVE  /\ HighestFanState(r) \in 0 .. 4
         /\ IsHottestRank(r, HighestFanState(r))
<1> DEFINE T == {FAND_SPEED_SLOW} \cup {fan_speed_string_to_enum(x) : x \in r}
<1>1. T \subseteq -1 .. 4 /\ 0 \in T
  BY EnumOfName, RankIsSpeed DEF FAND_SPEED_SLOW, FAND_SPEED_NONE
<1>2. \E m \in T : \A y \in T : m >= y
  <2>1. CASE 4 \in T BY <1>1, <2>1
  <2>2. CASE 4 \notin T /\ 3 \in T BY <1>1, <2>2
  <2>3. CASE 4 \notin T /\ 3 \notin T /\ 2 \in T BY <1>1, <2>3
  <2>4. CASE 4 \notin T /\ 3 \notin T /\ 2 \notin T /\ 1 \in T BY <1>1, <2>4
  <2>5. CASE 4 \notin T /\ 3 \notin T /\ 2 \notin T /\ 1 \notin T BY <1>1, <2>5
  <2> QED BY <2>1, <2>2, <2>3, <2>4, <2>5
<1>3. Max(T) \in T /\ \A y \in T : Max(T) >= y
  BY <1>2 DEF Max
<1>4. HighestFanState(r) = Max(T)
  BY DEF HighestFanState
<1>5. Max(T) \in 0 .. 4
  BY <1>1, <1>3
<1>6. Max(T) = 0 \/ \E x \in r \cap DOMAIN Rank : Rank[x] = Max(T)
  <2>1. CASE Max(T) = FAND_SPEED_SLOW
    BY <2>1 DEF FAND_SPEED_SLOW
  <2>2. CASE \E x \in r : Max(T) = fan_speed_string_to_enum(x)
    <3>1. PICK x \in r : Max(T) = fan_speed_string_to_enum(x)
      BY <2>2
    <3>2. x \in DOMAIN Rank
      BY <3>1, <1>5, EnumOfName DEF FAND_SPEED_NONE
    <3> QED BY <3>1, <3>2, EnumOfName
  <2> QED BY <1>3, <2>1, <2>2
<1>7. \A x \in r \cap DOMAIN Rank : Rank[x] <= Max(T)
  <2> TAKE x \in r \cap DOMAIN Rank
  <2>1. fan_speed_string_to_enum(x) \in T
    OBVIOUS
  <2>2. fan_speed_string_to_enum(x) = Rank[x]
    BY EnumOfName
  <2> QED BY <2>1, <2>2, <1>1, <1>3
<1> HIDE DEF T
<1> QED BY <1>4, <1>5, <1>6, <1>7 DEF IsHottestRank

(* The choice at the head of fand_set_fanspeed, on top of that maximum,    *)
(* is the policy, whatever the strings in the database.                    *)
THEOREM SpeedIsPolicy ==
  ASSUME NEW r, NEW o
  PROVE  ObeysPolicy(Speed(r, o), r, o)
<1> DEFINE h == HighestFanState(r)
           e == fan_speed_string_to_enum(o)
<1>1. h \in 0 .. 4 /\ IsHottestRank(r, h)
  BY HighestIsHottest
<1>2. "max" \in r => h = 4
  <2>1. "max" \in DOMAIN Rank /\ Rank["max"] = 4
    BY DEF Rank
  <2> QED BY <2>1, <1>1 DEF IsHottestRank
<1>3. h = 4 => "max" \in r
  <2>1. \A x \in DOMAIN Rank : Rank[x] = 4 => x = "max"
    BY DEF Rank
  <2> QED BY <2>1, <1>1 DEF IsHottestRank
<1>4. IF o \in DOMAIN Rank THEN e = Rank[o] /\ e \in 0 .. 4 ELSE e = FAND_SPEED_NONE
  BY EnumOfName, RankIsSpeed
<1>5. Speed(r, o) = CommandedSpeed(h, e)
  BY DEF Speed
<1> HIDE DEF h, e
<1>6. CASE "max" \notin r /\ o \in DOMAIN Rank
  <2>1. CommandedSpeed(h, e) = e
    BY <1>1, <1>3, <1>4, <1>6
       DEF CommandedSpeed, FAND_SPEED_NONE, FAND_SPEED_MAX, FAND_SPEED_NORMAL
  <2> QED BY <2>1, <1>4, <1>5, <1>6 DEF ObeysPolicy
<1>7. CASE ~("max" \notin r /\ o \in DOMAIN Rank)
  <2>1. CommandedSpeed(h, e) = h
    BY <1>1, <1>2, <1>4, <1>7
       DEF CommandedSpeed, FAND_SPEED_NONE, FAND_SPEED_MAX, FAND_SPEED_NORMAL
  <2> QED BY <2>1, <1>1, <1>5, <1>7 DEF ObeysPolicy
<1> QED BY <1>6, <1>7

(* A further reading never slows the fans, whatever the override.          *)
THEOREM HotterIsNeverSlower ==
  ASSUME NEW r, NEW q, NEW o, r \subseteq q
  PROVE  Speed(q, o) >= Speed(r, o)
<1>1. ObeysPolicy(Speed(q, o), q, o) /\ ObeysPolicy(Speed(r, o), r, o)
  BY SpeedIsPolicy
<1>2. "max" \in DOMAIN Rank /\ Rank["max"] = 4
  BY DEF Rank
<1> QED BY <1>1, <1>2, RankIsSpeed DEF ObeysPolicy, IsHottestRank

(* The speed that some readings make is recovered from the name of their   *)
(* maximum and the name of the override.                                   *)
LEMMA SpeedFromNames ==
  ASSUME NEW h \in 0 .. 4, NEW e \in -1 .. 4
  PROVE  LET name == fan_speed_enum_to_string(h)
         IN  /\ e # FAND_SPEED_NONE
                  => Speed({name}, fan_speed_enum_to_string(e)) = CommandedSpeed(h, e)
             /\ \A none : none \notin DOMAIN Rank
                  => Speed({name}, none) = CommandedSpeed(h, FAND_SPEED_NONE)
<1> DEFINE name == fan_speed_enum_to_string(h)
<1>1. name \in DOMAIN Rank /\ Rank[name] = h
  BY NameOfSpeed
<1> HIDE DEF name
<1>2. HighestFanState({name}) = h
  BY <1>1, HighestIsHottest DEF IsHottestRank
<1>3. e # FAND_SPEED_NONE => fan_speed_string_to_enum(fan_speed_enum_to_string(e)) = e
  BY NameOfSpeed, EnumOfName DEF FAND_SPEED_NONE
<1> QED BY <1>2, <1>3, EnumOfName DEF Speed, name

=============================================================================
