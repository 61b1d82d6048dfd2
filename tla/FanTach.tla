------------------------------ MODULE FanTach -------------------------------
(***************************************************************************)
(* One poll of one fan, transfer by transfer (fand_read_fan_status and the *)
(* routines it calls).  PhysFan takes the poll for one step; here the      *)
(* fan's inputs move between the i2c transfers, the two bytes of the       *)
(* tachometer among them, and every transfer has the three outcomes that   *)
(* the code tells apart: zero, negative, positive.                         *)
(*                                                                         *)
(* The history variable during collects the inputs that the fan had since  *)
(* the poll began; no action reads it.                                     *)
(***************************************************************************)
EXTENDS FanTypes

CONSTANTS
  Description,  \* hardware descriptions of a fan, from the description files
  Count,        \* values of the tachometer's counter
  Word,         \* number of values of a machine word: 2^32
  I2cErrors     \* may an i2c operation fail?

ByteSize == 256

ASSUME TachAssumption ==
  /\ Description \subseteq
       [speed_msb : BOOLEAN, direction_detect : BOOLEAN, present : BOOLEAN,
        f2b : {0, 1}, multiplier : Nat, numerator : Nat]
  /\ Count \subseteq 0 .. ByteSize * ByteSize - 1
  /\ Word \in Nat /\ Word > 2 * ByteSize * ByteSize
  /\ I2cErrors \in BOOLEAN

VARIABLES
  yaml_fan,     \* the description of this fan, its FRU and its subsystem
  input,        \* the inputs of the fan now
  pc,           \* the next transfer of the poll
  rc,           \* what i2c_reg_read returned for each transfer of this poll
  dword,        \* what the first transfer of the speed has brought
  direction, rpm, status,   \* of struct locl_fan
  during        \* history: the inputs since the poll began

struct == <<direction, rpm, status>>
vars   == <<yaml_fan, input, pc, rc, dword, struct, during>>

Direction == {FAND_DIRECTION_F2B, FAND_DIRECTION_B2F}
Input     == [count : Count, fault : BOOLEAN, present : BOOLEAN,
              airflow : Direction]
Transfer  == {"direction", "present", "lsb", "msb", "fault"}

Steady(outcome) == [t \in Transfer |-> outcome]

(* The struct comes from malloc: its fields have no value yet. *)
Init ==
  /\ yaml_fan \in Description
  /\ input \in Input
  /\ pc = "direction" /\ rc = Steady(0) /\ dword = 0
  /\ direction = NULL /\ rpm = NULL /\ status = NULL
  /\ during = {input}

-----------------------------------------------------------------------------
(* Arithmetic. *)

(* What an int holds after the assignment of n; the overflow of a product  *)
(* wraps around in the build.                                              *)
AsInt(n) == LET w == n % Word IN IF 2 * w < Word THEN w ELSE w - Word

(* Seeded mistake: the first transfer brings the whole counter.            *)
LsbUnmasked(count) == count

Lsb(count) == count % ByteSize
Msb(count) == count \div ByteSize

(* The first transfer brings the low byte, or the whole counter where no   *)
(* second one is described.                                                *)
FirstTransfer(count) == IF yaml_fan.speed_msb THEN Lsb(count) ELSE count

(* Seeded mistake: the shift is missing.                                   *)
JoinedUnshifted(lsb, msb) == lsb + msb

Joined(lsb, msb) == lsb + msb * ByteSize

(* The raw reading times the multiplier, or the numerator divided by it. *)
Converted(raw) ==
  IF yaml_fan.multiplier # 0 THEN AsInt(raw * yaml_fan.multiplier)
  ELSE IF yaml_fan.numerator = 0 THEN raw
  ELSE IF raw = 0 THEN 0
  ELSE yaml_fan.numerator \div raw

-----------------------------------------------------------------------------
(* The transfers. *)

(* The operation for transfer t ends with the result code. *)
I2cRegRead(t, code) ==
  /\ code \in IF I2cErrors THEN {-1, 0, 1} ELSE {0}
  /\ rc' = [rc EXCEPT ![t] = code]

(* The bit of the direction input: high or low for front to back, as the   *)
(* description says.                                                       *)
DirectionBit == IF input.airflow = FAND_DIRECTION_F2B THEN yaml_fan.f2b
                                                      ELSE 1 - yaml_fan.f2b

(* Seeded mistake: the description's polarity is not looked at.            *)
DirectionOfBit(code) ==
  IF code # 0 \/ DirectionBit # 0 THEN FAND_DIRECTION_F2B ELSE FAND_DIRECTION_B2F

fand_read_fan_fru_direction(code) ==
  IF code # 0 THEN FAND_DIRECTION_F2B
  ELSE IF (DirectionBit # 0) = (yaml_fan.f2b # 0) THEN FAND_DIRECTION_F2B
  ELSE FAND_DIRECTION_B2F

fand_read_direction ==
  /\ pc = "direction"
  /\ IF yaml_fan.direction_detect
     THEN \E code \in {-1, 0, 1} :
            /\ I2cRegRead("direction", code)
            /\ direction' = fand_read_fan_fru_direction(code)
     ELSE direction' = FAND_DIRECTION_F2B /\ UNCHANGED rc
  /\ pc' = "present"
  /\ UNCHANGED <<yaml_fan, input, dword, rpm, status, during>>

(* Seeded mistake: a FRU counts as present unless it is seen to be absent. *)
PresentUnlessSeen(code) == IF code = 0 THEN {input.present} ELSE {TRUE}

(* Only a negative result is a failure here; after a positive one the      *)
(* variable was never assigned.                                            *)
PresentRead(code) ==
  IF code = 0 THEN {input.present} ELSE IF code < 0 THEN {FALSE} ELSE BOOLEAN

(* An absent FRU ends the poll. *)
fand_read_present ==
  /\ pc = "present"
  /\ \E present \in BOOLEAN :
       /\ IF yaml_fan.present
          THEN \E code \in {-1, 0, 1} : /\ I2cRegRead("present", code)
                                        /\ present \in PresentRead(code)
          ELSE present = TRUE /\ UNCHANGED rc
       /\ IF present
          THEN pc' = "lsb" /\ UNCHANGED <<rpm, status>>
          ELSE pc' = "done" /\ rpm' = 0 /\ status' = FAND_STATUS_FAULT
  /\ UNCHANGED <<yaml_fan, input, dword, direction, during>>

(* fand_read_rpm up to its second transfer; a failed one ends it with 0. *)
ReadLsb ==
  /\ pc = "lsb"
  /\ \E code \in {-1, 0, 1} :
       /\ I2cRegRead("lsb", code)
       /\ dword' = IF code = 0 THEN FirstTransfer(input.count) ELSE 0
       /\ IF code = 0 /\ yaml_fan.speed_msb
          THEN pc' = "msb" /\ UNCHANGED rpm
          ELSE pc' = "fault" /\ rpm' = Converted(dword')
  /\ UNCHANGED <<yaml_fan, input, direction, status, during>>

(* Its second transfer, and the conversion by fand_read_fan_status. *)
ReadMsb ==
  /\ pc = "msb"
  /\ \E code \in {-1, 0, 1} :
       /\ I2cRegRead("msb", code)
       /\ rpm' = Converted(IF code = 0 THEN Joined(dword, Msb(input.count)) ELSE 0)
  /\ pc' = "fault"
  /\ UNCHANGED <<yaml_fan, input, dword, direction, status, during>>

(* Seeded mistake: a fan that cannot be read is taken to be well.          *)
StatusUnlessFault(code) ==
  IF code = 0 /\ input.fault THEN FAND_STATUS_FAULT ELSE FAND_STATUS_OK

(* A failed transfer gives the enumerator 0, UNINITIALIZED. *)
StatusRead(code) ==
  IF code # 0 THEN FAND_STATUS_UNINITIALIZED
  ELSE IF input.fault THEN FAND_STATUS_FAULT
  ELSE FAND_STATUS_OK

fand_read_status ==
  /\ pc = "fault"
  /\ \E code \in {-1, 0, 1} :
       /\ I2cRegRead("fault", code)
       /\ status' = StatusRead(code)
  /\ pc' = "done"
  /\ UNCHANGED <<yaml_fan, input, dword, direction, rpm, during>>

(* The next pass of the main loop polls the fan again. *)
NextPoll ==
  /\ pc = "done"
  /\ pc' = "direction" /\ rc' = Steady(0) /\ dword' = 0
  /\ during' = {input}
  /\ UNCHANGED <<yaml_fan, input, struct>>

(* The physical world. *)
InputMoves ==
  /\ input' \in Input \ {input}
  /\ during' = during \cup {input'}
  /\ UNCHANGED <<yaml_fan, pc, rc, dword, struct>>

Poll ==
  \/ fand_read_direction \/ fand_read_present
  \/ ReadLsb \/ ReadMsb \/ fand_read_status \/ NextPoll

Next == Poll \/ InputMoves

Spec == Init /\ [][Next]_vars

-----------------------------------------------------------------------------
(* Properties. *)

TypeOK ==
  /\ yaml_fan \in Description
  /\ input \in Input
  /\ pc \in Transfer \cup {"done"}
  /\ rc \in [Transfer -> {-1, 0, 1}]
  /\ dword \in 0 .. ByteSize * ByteSize - 1
  /\ pc = "msb" => dword < ByteSize
  /\ direction \in Direction \cup {NULL}
  /\ rpm \in Int \cup {NULL}
  /\ status \in CachedStatus \cup {NULL}
  /\ during \subseteq Input

Polled == pc = "done"

(* The rpm that a counter stands for: without regard to how the code gets  *)
(* there, the quotient rounded down, and 0 for a counter of 0.             *)
IsRpmOf(r, count) ==
  LET m == yaml_fan.multiplier
      n == yaml_fan.numerator
  IN  CASE m # 0             -> r = count * m
        [] m = 0 /\ n = 0    -> r = count
        [] m = 0 /\ n # 0    -> IF count = 0 THEN r = 0
                                ELSE r * count <= n /\ n < (r + 1) * count

(* Does the product of the counter and the multiplier fit an int?          *)
Fits(count) == 2 * count * yaml_fan.multiplier < Word

RpmIsReal ==
  (\A i \in during : Fits(i.count)) => \E i \in during : IsRpmOf(rpm, i.count)

(* A fan whose inputs stayed as they were during the poll, with every      *)
(* transfer carried out, is reported as it is: its airflow whatever the    *)
(* polarity of the input, its state, and the rpm of its counter.           *)
SteadyFanIsReported ==
  Polled /\ rc = Steady(0) /\ during = {input} =>
    /\ direction = IF yaml_fan.direction_detect THEN input.airflow
                                                ELSE FAND_DIRECTION_F2B
    /\ IF yaml_fan.present /\ ~input.present
       THEN status = FAND_STATUS_FAULT /\ rpm = 0
       ELSE /\ status = IF input.fault THEN FAND_STATUS_FAULT ELSE FAND_STATUS_OK
            /\ RpmIsReal

(* A FRU that is out during the whole poll is a fault and stands still,    *)
(* also when the poll's transfers fail -- except for the one outcome that  *)
(* the code does not take for a failure.                                   *)
AbsentFanIsAFault ==
  Polled /\ yaml_fan.present /\ rc["present"] <= 0
    /\ (\A i \in during : ~i.present)
  => status = FAND_STATUS_FAULT /\ rpm = 0

(* The fault input of a fan is not overlooked: asserted during the whole   *)
(* poll, the fan is reported as ok under no outcome of the transfers.      *)
FaultyFanIsNotOk ==
  Polled /\ (\A i \in during : i.fault) => status # FAND_STATUS_OK

(* A fan that turns is reported with the rpm of a moment of the poll,      *)
(* unless the counter is read in two transfers and its high byte moved     *)
(* between them.                                                           *)
UntornRpmIsReal ==
  Polled /\ rc = Steady(0) /\ (\A i \in during : i.present)
    /\ (yaml_fan.speed_msb => \A i, j \in during : Msb(i.count) = Msb(j.count))
  => RpmIsReal

(* The same without the exception.                                         *)
ReportedRpmIsReal ==
  Polled /\ rc = Steady(0) /\ (\A i \in during : i.present) => RpmIsReal

(* A torn reading is off by less than one step of the high byte: a raw     *)
(* value that is reported as it is differs from the counter at the second  *)
(* transfer by less than 256, however far the counter ran in between.      *)
TornReadingIsWithinAByte ==
  [][ReadMsb /\ rc'["msb"] = 0
       /\ yaml_fan.multiplier = 0 /\ yaml_fan.numerator = 0
     => rpm' - input.count \in 1 - ByteSize .. ByteSize - 1]_vars

-----------------------------------------------------------------------------
(* Why these hold: what each transfer that was carried out has left behind *)
(* is what it saw of some input of the poll.                               *)

DirectionIsSeen ==
  pc # "direction" =>
    IF yaml_fan.direction_detect
    THEN rc["direction"] = 0 => \E i \in during : direction = i.airflow
    ELSE direction = FAND_DIRECTION_F2B

(* The poll goes on past the presence input, or ends there. *)
SeenPresent ==
  yaml_fan.present => rc["present"] = 1 \/ \E i \in during : i.present

SeenAbsent ==
  /\ yaml_fan.present
  /\ rc["present"] = 0 => \E i \in during : ~i.present
  /\ status = FAND_STATUS_FAULT /\ rpm = 0

FirstByteIsSeen ==
  /\ yaml_fan.speed_msb
  /\ \E i \in during : dword = Lsb(i.count)

RpmIsOfSeenBytes ==
  rc["lsb"] = 0 /\ rc["msb"] = 0 =>
    IF yaml_fan.speed_msb
    THEN \E i, j \in during : rpm = Converted(Joined(Lsb(i.count), Msb(j.count)))
    ELSE \E i \in during : rpm = Converted(i.count)

StatusIsSeen ==
  IF rc["fault"] # 0
  THEN status = FAND_STATUS_UNINITIALIZED
  ELSE \E i \in during :
         status = IF i.fault THEN FAND_STATUS_FAULT ELSE FAND_STATUS_OK

PollInv ==
  /\ input \in during
  /\ DirectionIsSeen
  /\ pc \in {"lsb", "msb", "fault"} => SeenPresent
  /\ pc = "msb" => FirstByteIsSeen
  /\ pc = "fault" => RpmIsOfSeenBytes
  /\ pc = "done" => SeenAbsent \/ (SeenPresent /\ RpmIsOfSeenBytes /\ StatusIsSeen)

=============================================================================
