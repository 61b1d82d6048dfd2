------------------------- MODULE MCFanPolicyProofs --------------------------
(***************************************************************************)
(* What the exploration of the speed decision checks for six strings holds *)
(* for every set of strings.                                               *)
(***************************************************************************)
EXTENDS MCFanPolicy, FanPolicyProofs

(* The computed speed is the policy's, whatever sensors and override say.  *)
THEOREM PolicyHolds == Spec => []PolicyIsComputed
<1>1. PolicyIsComputed
  BY SpeedIsPolicy DEF PolicyIsComputed
<1> QED BY <1>1, PTL

(* No further reading slows the fans while the override stays.             *)
THEOREM HotterHolds == Spec => HotterNeverSlower
<1>1. readings \subseteq readings' /\ override' = override
        => Speed(readings', override') >= Speed(readings, override)
  <2> SUFFICES ASSUME readings \subseteq readings', override' = override
               PROVE  Speed(readings', override) >= Speed(readings, override)
    OBVIOUS
  <2> QED BY HotterIsNeverSlower
<1> QED BY <1>1, PTL DEF HotterNeverSlower

(* The statuses and directions are read back as written.                   *)
LEMMA NamesAreReadBack ==
  /\ \A e \in {FAND_STATUS_UNINITIALIZED, FAND_STATUS_OK, FAND_STATUS_FAULT} :
       fan_status_string_to_enum(fan_status_enum_to_string(e)) = e
  /\ \A e \in {FAND_DIRECTION_F2B, FAND_DIRECTION_B2F} :
       fan_direction_string_to_enum(fan_direction_enum_to_string(e)) = e
<1>1. ASSUME NEW table, NEW n \in Nat, NEW e \in 0 .. n - 1, NEW d, NEW c,
             DOMAIN table = 1 .. n, Len(table) = n,
             \A i, j \in 1 .. n : table[i] = table[j] => i = j
      PROVE  IndexOfName(table, NameAtIndex(table, e, d), c) = e
  <2> DEFINE name == table[e + 1]
  <2>1. NameAtIndex(table, e, d) = name
    BY <1>1 DEF NameAtIndex
  <2>2. e + 1 \in DOMAIN table
    BY <1>1
  <2>3. \A i \in DOMAIN table : table[i] = name => i = e + 1
    BY <1>1, <2>2
  <2>4. (CHOOSE i \in DOMAIN table : table[i] = name) = e + 1
    BY <2>2, <2>3
  <2> HIDE DEF name
  <2>5. \E i \in DOMAIN table : table[i] = name
    BY <2>2 DEF name
  <2> QED BY <1>1, <2>1, <2>4, <2>5 DEF IndexOfName
<1>2. /\ DOMAIN fanstatus_string = 1 .. 3 /\ Len(fanstatus_string) = 3
      /\ \A i, j \in 1 .. 3 : fanstatus_string[i] = fanstatus_string[j] => i = j
  <2>1. /\ DOMAIN fanstatus_string = 1 .. 3 /\ Len(fanstatus_string) = 3
        /\ fanstatus_string[1] = "uninitialized" /\ fanstatus_string[2] = "ok"
        /\ fanstatus_string[3] = "fault"
    BY DEF fanstatus_string
  <2>2. \A i \in 1 .. 3 : i = 1 \/ i = 2 \/ i = 3
    OBVIOUS
  <2> QED BY <2>1, <2>2
<1>3. /\ DOMAIN fandirection_string = 1 .. 2 /\ Len(fandirection_string) = 2
      /\ \A i, j \in 1 .. 2 : fandirection_string[i] = fandirection_string[j] => i = j
  <2>1. /\ DOMAIN fandirection_string = 1 .. 2 /\ Len(fandirection_string) = 2
        /\ fandirection_string[1] = "f2b" /\ fandirection_string[2] = "b2f"
    BY DEF fandirection_string
  <2>2. \A i \in 1 .. 2 : i = 1 \/ i = 2
    OBVIOUS
  <2> QED BY <2>1, <2>2
<1>4. \A e \in 0 .. 2 : fan_status_string_to_enum(fan_status_enum_to_string(e)) = e
  <2> TAKE e \in 0 .. 2
  <2> DEFINE n == 3
  <2>1. n \in Nat /\ e \in 0 .. n - 1
    OBVIOUS
  <2>2. DOMAIN fanstatus_string = 1 .. n /\ Len(fanstatus_string) = n
        /\ \A i, j \in 1 .. n : fanstatus_string[i] = fanstatus_string[j] => i = j
    BY <1>2
  <2> HIDE DEF n
  <2>3. IndexOfName(fanstatus_string, NameAtIndex(fanstatus_string, e, FAND_STATUS_UNINITIALIZED),
                    FAND_STATUS_UNINITIALIZED) = e
    BY <1>1, <2>1, <2>2
  <2> QED BY <2>3 DEF fan_status_string_to_enum, fan_status_enum_to_string
<1>5. \A e \in 0 .. 1 : fan_direction_string_to_enum(fan_direction_enum_to_string(e)) = e
  <2> TAKE e \in 0 .. 1
  <2> DEFINE n == 2
  <2>1. n \in Nat /\ e \in 0 .. n - 1
    OBVIOUS
  <2>2. DOMAIN fandirection_string = 1 .. n /\ Len(fandirection_string) = n
        /\ \A i, j \in 1 .. n : fandirection_string[i] = fandirection_string[j] => i = j
    BY <1>3
  <2> HIDE DEF n
  <2>3. IndexOfName(fandirection_string, NameAtIndex(fandirection_string, e, FAND_DIRECTION_F2B),
                    FAND_DIRECTION_F2B) = e
    BY <1>1, <2>1, <2>2
  <2> QED BY <2>3 DEF fan_direction_string_to_enum, fan_direction_enum_to_string
<1> QED
  BY <1>4, <1>5 DEF FAND_STATUS_UNINITIALIZED, FAND_STATUS_OK, FAND_STATUS_FAULT,
       FAND_DIRECTION_F2B, FAND_DIRECTION_B2F

(* The name published for a speed ranks as the policy wants it, and the    *)
(* other names are read back as what they were written for.                *)
THEOREM NamesHold == Spec => []PublishedNamesAreMeant
<1>1. LET name == fan_speed_enum_to_string(Speed(readings, override))
      IN  ObeysPolicy(Rank[name], readings, override)
  <2> DEFINE v == Speed(readings, override)
  <2>1. ObeysPolicy(v, readings, override)
    BY SpeedIsPolicy
  <2>2. v \in 0 .. 4
    BY <2>1, RankIsSpeed DEF ObeysPolicy
  <2> HIDE DEF v
  <2>3. Rank[fan_speed_enum_to_string(v)] = v
    BY <2>2, NameOfSpeed
  <2> QED BY <2>1, <2>3 DEF v
<1>2. PublishedNamesAreMeant
  BY <1>1, NamesAreReadBack DEF PublishedNamesAreMeant
<1> QED BY <1>2, PTL

=============================================================================
