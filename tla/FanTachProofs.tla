--------------------------- MODULE FanTachProofs ----------------------------
(***************************************************************************)
(* What a poll of a fan reports, proved for every description of a fan,    *)
(* every set of counter values and every word size.                        *)
(***************************************************************************)
EXTENDS FanTach, TLAPS

-----------------------------------------------------------------------------
(* The arithmetic. *)

LEMMA ByteSizeType == ByteSize \in Nat /\ ByteSize > 1
BY DEF ByteSize

(* A counter is its two bytes joined. *)
LEMMA JoinedBytes ==
  \A c \in Nat : c < ByteSize * ByteSize =>
    /\ Lsb(c) \in Nat /\ Lsb(c) < ByteSize
    /\ Msb(c) \in Nat /\ Msb(c) < ByteSize
    /\ Joined(Lsb(c), Msb(c)) = c
BY ByteSizeType, SMT DEF Lsb, Msb, Joined

(* A byte joined with the high byte of c is less than a byte away from c. *)
LEMMA TornBytes ==
  \A b, c \in Nat : b < ByteSize /\ c < ByteSize * ByteSize =>
    /\ Joined(b, Msb(c)) \in Nat
    /\ Joined(b, Msb(c)) < ByteSize * ByteSize
    /\ Joined(b, Msb(c)) - c < ByteSize
    /\ c - Joined(b, Msb(c)) < ByteSize
<1> SUFFICES ASSUME NEW b \in Nat, NEW c \in Nat,
                    b < ByteSize, c < ByteSize * ByteSize
             PROVE  /\ Joined(b, Msb(c)) \in Nat
                    /\ Joined(b, Msb(c)) < ByteSize * ByteSize
                    /\ Joined(b, Msb(c)) - c < ByteSize
                    /\ c - Joined(b, Msb(c)) < ByteSize
  OBVIOUS
<1> DEFINE m == Msb(c)
           l == Lsb(c)
<1>1. /\ m \in Nat /\ m < ByteSize /\ l \in Nat /\ l < ByteSize
      /\ l + m * ByteSize = c
  BY JoinedBytes DEF Joined
<1> HIDE DEF m, l
<1>2. /\ b + m * ByteSize \in Nat
      /\ b + m * ByteSize < ByteSize * ByteSize
      /\ b + m * ByteSize - c < ByteSize
      /\ c - (b + m * ByteSize) < ByteSize
  BY <1>1, ByteSizeType, SMT
<1> DEFINE j == Joined(b, Msb(c))
<1>3. j = b + m * ByteSize
  BY DEF m, Joined
<1> HIDE DEF j
<1>4. /\ j \in Nat /\ j < ByteSize * ByteSize
      /\ j - c < ByteSize /\ c - j < ByteSize
  BY <1>1, <1>2, <1>3, ByteSizeType, SMT
<1> QED BY <1>4 DEF j

(* The quotient rounded down. *)
LEMMA Quotient ==
  \A n \in Nat, c \in Nat \ {0} :
    /\ n \div c \in Nat
    /\ (n \div c) * c <= n
    /\ n < (n \div c + 1) * c
OBVIOUS

LEMMA WordType == Word \in Nat /\ Word > 131072
BY TachAssumption DEF TachAssumption, ByteSize

LEMMA AsIntType == \A n \in Int : AsInt(n) \in Int
<1> TAKE n \in Int
<1>1. n % Word \in Int
  BY WordType
<1> QED BY <1>1, WordType DEF AsInt

(* A number that fits is left alone by the assignment to an int. *)
LEMMA AsIntOfFitting == \A n \in Nat : 2 * n < Word => AsInt(n) = n
<1> SUFFICES ASSUME NEW n \in Nat, 2 * n < Word PROVE AsInt(n) = n
  OBVIOUS
<1>1. n % Word = n
  BY WordType
<1> QED BY <1>1, WordType DEF AsInt

-----------------------------------------------------------------------------
(* Types. *)

LEMMA DescriptionType ==
  \A d \in Description : /\ d.multiplier \in Nat /\ d.numerator \in Nat
                         /\ d.f2b \in {0, 1}
BY TachAssumption DEF TachAssumption

LEMMA CounterRange ==
  \A n : n \in 0 .. ByteSize * ByteSize - 1 <=> n \in Nat /\ n < ByteSize * ByteSize
<1> DEFINE top == ByteSize * ByteSize
<1>1. top \in Nat
  BY ByteSizeType, SMT
<1> HIDE DEF top
<1>2. \A n : n \in 0 .. top - 1 <=> n \in Nat /\ n < top
  BY <1>1
<1> QED BY <1>2 DEF top

LEMMA CountType ==
  \A i \in Input : i.count \in Nat /\ i.count < ByteSize * ByteSize
BY TachAssumption, CounterRange DEF TachAssumption, Input

(* What the first transfer brings, or the 0 of a failed one.               *)
LEMMA FirstTransferType ==
  ASSUME input \in Input
  PROVE  /\ FirstTransfer(input.count) \in 0 .. ByteSize * ByteSize - 1
         /\ FirstTransfer(input.count) \in Nat
         /\ 0 \in 0 .. ByteSize * ByteSize - 1
<1>1. Lsb(input.count) \in Nat /\ Lsb(input.count) < ByteSize * ByteSize
  BY CountType, JoinedBytes DEF ByteSize
<1>2. 0 \in Nat /\ 0 < ByteSize * ByteSize
  BY DEF ByteSize
<1>3. FirstTransfer(input.count) \in Nat /\ FirstTransfer(input.count) < ByteSize * ByteSize
  BY <1>1, CountType DEF FirstTransfer
<1> QED BY <1>2, <1>3, CounterRange

LEMMA ConvertedType ==
  yaml_fan \in Description => \A raw \in Nat : Converted(raw) \in Int
<1> SUFFICES ASSUME yaml_fan \in Description, NEW raw \in Nat
             PROVE  Converted(raw) \in Int
  OBVIOUS
<1>1. yaml_fan.multiplier \in Nat /\ yaml_fan.numerator \in Nat
  BY DescriptionType
<1>2. raw * yaml_fan.multiplier \in Int
  BY <1>1, SMT
<1>3. raw # 0 => yaml_fan.numerator \div raw \in Int
  BY <1>1, Quotient
<1> QED BY <1>2, <1>3, AsIntType DEF Converted

(* Type correctness: the first byte fits a byte, the rpm is an int, the    *)
(* status one that the readers of the struct know, whatever the transfers  *)
(* return and however the inputs move.                                     *)
THEOREM TypeCorrect == Spec => []TypeOK
<1>1. Init => TypeOK
  BY ByteSizeType DEF Init, TypeOK, Steady, Transfer
<1>2. TypeOK /\ [Next]_vars => TypeOK'
  <2> SUFFICES ASSUME TypeOK, [Next]_vars PROVE TypeOK'
    OBVIOUS
  <2> USE DEF TypeOK
  <2>1. CASE fand_read_direction
    BY <2>1 DEF fand_read_direction, I2cRegRead, fand_read_fan_fru_direction,
                Direction, Transfer
  <2>2. CASE fand_read_present
    BY <2>2 DEF fand_read_present, I2cRegRead, Transfer, CachedStatus,
                FAND_STATUS_UNINITIALIZED, FAND_STATUS_FAULT
  <2>3. CASE ReadLsb
    <3> PICK code \in {-1, 0, 1} :
          /\ I2cRegRead("lsb", code)
          /\ dword' = IF code = 0 THEN FirstTransfer(input.count) ELSE 0
          /\ IF code = 0 /\ yaml_fan.speed_msb
             THEN pc' = "msb" /\ UNCHANGED rpm
             ELSE pc' = "fault" /\ rpm' = Converted(dword')
      BY <2>3 DEF ReadLsb
    <3>1. dword' \in 0 .. ByteSize * ByteSize - 1 /\ dword' \in Nat
      BY FirstTransferType
    <3>2. pc' = "msb" => dword' < ByteSize
      BY CountType, JoinedBytes DEF FirstTransfer
    <3>3. rpm' \in Int \cup {NULL}
      BY <3>1, ConvertedType
    <3> QED BY <2>3, <3>1, <3>2, <3>3 DEF ReadLsb, I2cRegRead, Transfer
  <2>4. CASE ReadMsb
    <3> PICK code \in {-1, 0, 1} :
          /\ I2cRegRead("msb", code)
          /\ rpm' = Converted(IF code = 0 THEN Joined(dword, Msb(input.count)) ELSE 0)
      BY <2>4 DEF ReadMsb
    <3>1. dword \in Nat /\ dword < ByteSize
      BY <2>4, CounterRange DEF ReadMsb
    <3>2. Joined(dword, Msb(input.count)) \in Nat
      BY <3>1, CountType, TornBytes
    <3>3. rpm' \in Int
      BY <3>2, ConvertedType
    <3> QED BY <2>4, <3>3 DEF ReadMsb, I2cRegRead, Transfer
  <2>5. CASE fand_read_status
    BY <2>5 DEF fand_read_status, StatusRead, I2cRegRead, Transfer, CachedStatus,
                FAND_STATUS_UNINITIALIZED, FAND_STATUS_FAULT, FAND_STATUS_OK
  <2>6. CASE NextPoll
    BY <2>6, ByteSizeType DEF NextPoll, Steady, Transfer, struct
  <2>7. CASE InputMoves
    BY <2>7 DEF InputMoves, struct
  <2>8. CASE UNCHANGED vars
    BY <2>8 DEF vars, struct
  <2> QED BY <2>1, <2>2, <2>3, <2>4, <2>5, <2>6, <2>7, <2>8 DEF Next, Poll
<1> QED BY <1>1, <1>2, PTL DEF Spec

-----------------------------------------------------------------------------
(* The inductive invariant. *)

(* What was seen of an input stays seen while the poll lasts. *)
LEMMA SeenGrows ==
  ASSUME PollInv, InputMoves
  PROVE  PollInv'
<1> USE DEF InputMoves, struct
<1>1. during \subseteq during' /\ input' \in during'
  OBVIOUS
<1>2. DirectionIsSeen'
  BY <1>1 DEF PollInv, DirectionIsSeen
<1>3. SeenPresent => SeenPresent'
  BY <1>1 DEF SeenPresent
<1>4. FirstByteIsSeen => FirstByteIsSeen'
  BY <1>1 DEF FirstByteIsSeen
<1>5. RpmIsOfSeenBytes => RpmIsOfSeenBytes'
  BY <1>1 DEF RpmIsOfSeenBytes, Converted
<1>6. SeenAbsent => SeenAbsent'
  BY <1>1 DEF SeenAbsent
<1>7. StatusIsSeen => StatusIsSeen'
  BY <1>1 DEF StatusIsSeen
<1> QED BY <1>1, <1>2, <1>3, <1>4, <1>5, <1>6, <1>7 DEF PollInv

LEMMA PollStep ==
  ASSUME TypeOK, PollInv, Poll
  PROVE  PollInv'
<1> USE DEF PollInv, TypeOK
<1>1. CASE fand_read_direction
  <2> USE <1>1 DEF fand_read_direction
  <2>1. DirectionIsSeen'
    <3>1. CASE yaml_fan.direction_detect
      <4> PICK code \in {-1, 0, 1} :
            /\ I2cRegRead("direction", code)
            /\ direction' = fand_read_fan_fru_direction(code)
        BY <3>1
      <4>1. rc'["direction"] = code
        BY DEF I2cRegRead, Transfer
      <4>2. code = 0 => direction' = input.airflow
        BY DescriptionType DEF fand_read_fan_fru_direction, DirectionBit, Input,
           Direction, FAND_DIRECTION_F2B, FAND_DIRECTION_B2F
      <4> QED BY <4>1, <4>2 DEF DirectionIsSeen
    <3>2. CASE ~yaml_fan.direction_detect
      BY <3>2 DEF DirectionIsSeen
    <3> QED BY <3>1, <3>2
  <2> QED BY <2>1
<1>2. CASE fand_read_present
  <2> USE <1>2 DEF fand_read_present
  <2>1. PICK present \in BOOLEAN :
          /\ IF yaml_fan.present
             THEN \E code \in {-1, 0, 1} : /\ I2cRegRead("present", code)
                                           /\ present \in PresentRead(code)
             ELSE present = TRUE /\ UNCHANGED rc
          /\ IF present
             THEN pc' = "lsb" /\ UNCHANGED <<rpm, status>>
             ELSE pc' = "done" /\ rpm' = 0 /\ status' = FAND_STATUS_FAULT
    OBVIOUS
  <2>2. yaml_fan.present => /\ rc'["present"] = 0 => present = input.present
                            /\ rc'["present"] = -1 => ~present
                            /\ rc'["present"] \in {-1, 0, 1}
    <3> HAVE yaml_fan.present
    <3>1. PICK code \in {-1, 0, 1} : /\ I2cRegRead("present", code)
                                     /\ present \in PresentRead(code)
      BY <2>1
    <3>2. rc'["present"] = code
      BY <3>1 DEF I2cRegRead, Transfer
    <3>3. /\ code = 0 => present = input.present
          /\ code = -1 => ~present
      <4>1. PresentRead(0) = {input.present}
        BY DEF PresentRead
      <4>2. -1 # 0 /\ -1 < 0
        BY SMT
      <4>3. PresentRead(-1) = {FALSE}
        BY <4>2, Zenon DEF PresentRead
      <4> QED BY <3>1, <4>1, <4>3, Zenon
    <3> QED BY <3>2, <3>3
  <2>3. rc'["direction"] = rc["direction"]
    BY <2>1 DEF I2cRegRead, Transfer
  <2>4. DirectionIsSeen'
    BY <2>3 DEF DirectionIsSeen
  <2>5. present => SeenPresent' /\ pc' = "lsb"
    BY <2>1, <2>2 DEF SeenPresent
  <2>6. ~present => SeenAbsent' /\ pc' = "done"
    BY <2>1, <2>2 DEF SeenAbsent
  <2> QED BY <2>4, <2>5, <2>6
<1>3. CASE ReadLsb
  <2> USE <1>3 DEF ReadLsb
  <2>1. PICK code \in {-1, 0, 1} :
          /\ I2cRegRead("lsb", code)
          /\ dword' = IF code = 0 THEN FirstTransfer(input.count) ELSE 0
          /\ IF code = 0 /\ yaml_fan.speed_msb
             THEN pc' = "msb" /\ UNCHANGED rpm
             ELSE pc' = "fault" /\ rpm' = Converted(dword')
    OBVIOUS
  <2>2. /\ rc'["lsb"] = code
        /\ rc'["direction"] = rc["direction"]
        /\ rc'["present"] = rc["present"]
    BY <2>1 DEF I2cRegRead, Transfer
  <2>3. DirectionIsSeen' /\ SeenPresent'
    BY <2>2 DEF DirectionIsSeen, SeenPresent
  <2>4. pc' = "msb" => FirstByteIsSeen'
    BY <2>1 DEF FirstByteIsSeen, FirstTransfer
  <2>5. pc' = "fault" => RpmIsOfSeenBytes'
    BY <2>1, <2>2 DEF RpmIsOfSeenBytes, Converted, FirstTransfer
  <2> QED BY <2>1, <2>3, <2>4, <2>5
<1>4. CASE ReadMsb
  <2> USE <1>4 DEF ReadMsb
  <2>1. PICK code \in {-1, 0, 1} :
          /\ I2cRegRead("msb", code)
          /\ rpm' = Converted(IF code = 0 THEN Joined(dword, Msb(input.count)) ELSE 0)
    OBVIOUS
  <2>2. /\ rc'["msb"] = code
        /\ rc'["direction"] = rc["direction"]
        /\ rc'["present"] = rc["present"]
    BY <2>1 DEF I2cRegRead, Transfer
  <2>3. DirectionIsSeen' /\ SeenPresent'
    BY <2>2 DEF DirectionIsSeen, SeenPresent
  <2>4. RpmIsOfSeenBytes'
    BY <2>1, <2>2 DEF RpmIsOfSeenBytes, FirstByteIsSeen, Converted
  <2> QED BY <2>3, <2>4
<1>5. CASE fand_read_status
  <2> USE <1>5 DEF fand_read_status
  <2>1. PICK code \in {-1, 0, 1} :
          I2cRegRead("fault", code) /\ status' = StatusRead(code)
    OBVIOUS
  <2>2. rc'["fault"] = code /\ \A t \in Transfer \ {"fault"} : rc'[t] = rc[t]
    BY <2>1 DEF I2cRegRead, Transfer
  <2>3. DirectionIsSeen' /\ SeenPresent'
    BY <2>2 DEF DirectionIsSeen, SeenPresent, Transfer
  <2>4. RpmIsOfSeenBytes'
    BY <2>2 DEF RpmIsOfSeenBytes, Converted, Transfer
  <2>5. StatusIsSeen'
    BY <2>1, <2>2 DEF StatusIsSeen, StatusRead
  <2> QED BY <2>3, <2>4, <2>5
<1>6. CASE NextPoll
  BY <1>6 DEF NextPoll, DirectionIsSeen
<1> QED BY <1>1, <1>2, <1>3, <1>4, <1>5, <1>6 DEF Poll

LEMMA PollInvariant == Spec => [](TypeOK /\ PollInv)
<1>1. Init => PollInv
  BY DEF Init, PollInv, DirectionIsSeen
<1>2. TypeOK /\ PollInv /\ [Next]_vars => PollInv'
  <2> SUFFICES ASSUME TypeOK, PollInv, [Next]_vars PROVE PollInv'
    OBVIOUS
  <2>1. CASE UNCHANGED vars
    BY <2>1 DEF vars, struct, PollInv, DirectionIsSeen, SeenPresent,
       SeenAbsent, FirstByteIsSeen, RpmIsOfSeenBytes, StatusIsSeen, Converted
  <2> QED BY <2>1, SeenGrows, PollStep DEF Next
<1> QED BY <1>1, <1>2, TypeCorrect, PTL DEF Spec

-----------------------------------------------------------------------------
(* What the poll reports. *)

(* The conversion of a counter is its rpm, where the product fits. *)
LEMMA ConvertedIsRpm ==
  ASSUME yaml_fan \in Description, NEW c \in Nat, Fits(c)
  PROVE  IsRpmOf(Converted(c), c)
<1> DEFINE m == yaml_fan.multiplier
           n == yaml_fan.numerator
<1>1. m \in Nat /\ n \in Nat
  BY DescriptionType
<1>2. CASE m # 0
  <2> DEFINE p == c * m
  <2>1. p \in Nat /\ 2 * p < Word
    BY <1>1, SMT DEF Fits
  <2> HIDE DEF p
  <2>2. AsInt(p) = p
    BY <2>1, AsIntOfFitting
  <2> QED BY <1>2, <2>2 DEF p, IsRpmOf, Converted
<1>3. CASE m = 0 /\ n # 0 /\ c # 0
  <2>1. Converted(c) = n \div c
    BY <1>3 DEF Converted
  <2>2. (n \div c) * c <= n /\ n < (n \div c + 1) * c
    BY <1>1, <1>3, Quotient
  <2> QED BY <1>3, <2>1, <2>2 DEF IsRpmOf
<1>4. CASE m = 0 /\ (n = 0 \/ c = 0)
  BY <1>4 DEF IsRpmOf, Converted
<1> QED BY <1>2, <1>3, <1>4

(* What was seen is a counter, if it was seen in one transfer or all       *)
(* inputs agree on the high byte.                                          *)
LEMMA SeenBytesAreReal ==
  ASSUME TypeOK, RpmIsOfSeenBytes, rc = Steady(0),
         yaml_fan.speed_msb => \A i, j \in during : Msb(i.count) = Msb(j.count)
  PROVE  RpmIsReal
<1> SUFFICES ASSUME \A i \in during : Fits(i.count)
             PROVE  \E i \in during : IsRpmOf(rpm, i.count)
  BY DEF RpmIsReal
<1>1. rc["lsb"] = 0 /\ rc["msb"] = 0
  BY DEF Steady, Transfer
<1>2. \A i \in during : i.count \in Nat /\ i.count < ByteSize * ByteSize
  BY CountType DEF TypeOK
<1>3. \E i \in during : rpm = Converted(i.count)
  <2>1. CASE yaml_fan.speed_msb
    <3>1. PICK i \in during, j \in during :
            rpm = Converted(Joined(Lsb(i.count), Msb(j.count)))
      BY <1>1, <2>1 DEF RpmIsOfSeenBytes
    <3>2. Msb(i.count) = Msb(j.count)
      BY <2>1
    <3>3. Joined(Lsb(i.count), Msb(j.count)) = i.count
      BY <1>2, <3>2, JoinedBytes
    <3> QED BY <3>1, <3>3
  <2>2. CASE ~yaml_fan.speed_msb
    BY <1>1, <2>2 DEF RpmIsOfSeenBytes
  <2> QED BY <2>1, <2>2
<1> QED BY <1>2, <1>3, ConvertedIsRpm DEF TypeOK

(* A fan that turns is reported with the rpm of a moment of the poll, if   *)
(* its counter is read in one transfer or the high byte stands still.      *)
THEOREM UntornRpm == Spec => []UntornRpmIsReal
<1>1. TypeOK /\ PollInv => UntornRpmIsReal
  <2> SUFFICES ASSUME TypeOK, PollInv, pc = "done", rc = Steady(0),
                      \A i \in during : i.present,
                      yaml_fan.speed_msb =>
                        \A i, j \in during : Msb(i.count) = Msb(j.count)
               PROVE  RpmIsReal
    BY DEF UntornRpmIsReal, Polled
  <2>1. ~SeenAbsent
    BY DEF SeenAbsent, Steady, Transfer
  <2> QED BY <2>1, SeenBytesAreReal DEF PollInv
<1> QED BY <1>1, PollInvariant, PTL

(* A fan that keeps still during a poll is reported as it is. *)
THEOREM SteadyFan == Spec => []SteadyFanIsReported
<1>1. TypeOK /\ PollInv => SteadyFanIsReported
  <2> SUFFICES ASSUME TypeOK, PollInv, pc = "done", rc = Steady(0),
                      during = {input}
               PROVE  /\ direction = IF yaml_fan.direction_detect
                                     THEN input.airflow ELSE FAND_DIRECTION_F2B
                      /\ IF yaml_fan.present /\ ~input.present
                         THEN status = FAND_STATUS_FAULT /\ rpm = 0
                         ELSE /\ status = IF input.fault THEN FAND_STATUS_FAULT
                                                         ELSE FAND_STATUS_OK
                              /\ RpmIsReal
    BY DEF SteadyFanIsReported, Polled
  <2>1. \A t \in Transfer : rc[t] = 0
    BY DEF Steady
  <2>2. direction = IF yaml_fan.direction_detect THEN input.airflow
                                                 ELSE FAND_DIRECTION_F2B
    BY <2>1 DEF PollInv, DirectionIsSeen, Transfer
  <2>3. CASE yaml_fan.present /\ ~input.present
    <3>1. ~SeenPresent
      BY <2>1, <2>3 DEF SeenPresent, Transfer
    <3> QED BY <2>2, <2>3, <3>1 DEF PollInv, SeenAbsent
  <2>4. CASE ~(yaml_fan.present /\ ~input.present)
    <3>1. ~SeenAbsent
      BY <2>1, <2>4 DEF SeenAbsent, Transfer
    <3>2. RpmIsOfSeenBytes /\ StatusIsSeen
      BY <3>1 DEF PollInv
    <3>3. RpmIsReal
      BY <3>2, SeenBytesAreReal
    <3>4. status = IF input.fault THEN FAND_STATUS_FAULT ELSE FAND_STATUS_OK
      BY <2>1, <3>2 DEF StatusIsSeen, Transfer
    <3> QED BY <2>2, <2>4, <3>3, <3>4
  <2> QED BY <2>3, <2>4
<1> QED BY <1>1, PollInvariant, PTL

(* A FRU that is out during the whole poll is reported as a fault.         *)
THEOREM AbsentFan == Spec => []AbsentFanIsAFault
<1>1. TypeOK /\ PollInv => AbsentFanIsAFault
  <2> SUFFICES ASSUME TypeOK, PollInv, pc = "done", yaml_fan.present,
                      rc["present"] <= 0, \A i \in during : ~i.present
               PROVE  status = FAND_STATUS_FAULT /\ rpm = 0
    BY DEF AbsentFanIsAFault, Polled
  <2>1. rc["present"] # 1
    OBVIOUS
  <2>2. ~SeenPresent
    BY <2>1 DEF SeenPresent
  <2> QED BY <2>2 DEF PollInv, SeenAbsent
<1> QED BY <1>1, PollInvariant, PTL

(* A fan with a fault during the whole poll is never reported as ok.       *)
THEOREM FaultyFan == Spec => []FaultyFanIsNotOk
<1>1. TypeOK /\ PollInv => FaultyFanIsNotOk
  BY DEF FaultyFanIsNotOk, Polled, PollInv, SeenAbsent, StatusIsSeen,
     FAND_STATUS_UNINITIALIZED, FAND_STATUS_OK, FAND_STATUS_FAULT
<1> QED BY <1>1, PollInvariant, PTL

(* However far the counter runs between the two transfers, the raw value   *)
(* is less than a step of the high byte away from the counter at the       *)
(* second.                                                                 *)
THEOREM TornReading == Spec => TornReadingIsWithinAByte
<1>1. TypeOK /\ ReadMsb /\ rc'["msb"] = 0
        /\ yaml_fan.multiplier = 0 /\ yaml_fan.numerator = 0
      => rpm' - input.count \in 1 - ByteSize .. ByteSize - 1
  <2> SUFFICES ASSUME TypeOK, ReadMsb, rc'["msb"] = 0,
                      yaml_fan.multiplier = 0, yaml_fan.numerator = 0
               PROVE  rpm' - input.count \in 1 - ByteSize .. ByteSize - 1
    OBVIOUS
  <2> DEFINE c == input.count
  <2>1. rpm' = Joined(dword, Msb(c))
    <3> PICK code \in {-1, 0, 1} :
          /\ I2cRegRead("msb", code)
          /\ rpm' = Converted(IF code = 0 THEN Joined(dword, Msb(input.count)) ELSE 0)
      BY DEF ReadMsb
    <3>1. code = 0
      BY DEF I2cRegRead, TypeOK, Transfer
    <3> QED BY <3>1 DEF Converted
  <2>2. c \in Nat /\ c < ByteSize * ByteSize /\ dword \in Nat /\ dword < ByteSize
    BY CountType, CounterRange DEF TypeOK, ReadMsb
  <2> HIDE DEF c
  <2>3. /\ rpm' \in Nat /\ rpm' - c < ByteSize /\ c - rpm' < ByteSize
    BY <2>1, <2>2, TornBytes
  <2>4. rpm' - c \in 1 - ByteSize .. ByteSize - 1
    <3>1. \A r, k \in Nat : r - k < ByteSize /\ k - r < ByteSize
                           => r - k \in 1 - ByteSize .. ByteSize - 1
      BY ByteSizeType, SMT
    <3> QED BY <2>2, <2>3, <3>1
  <2> QED BY <2>4 DEF c
<1>2. TypeOK /\ [Next]_vars =>
        [ReadMsb /\ rc'["msb"] = 0
           /\ yaml_fan.multiplier = 0 /\ yaml_fan.numerator = 0
         => rpm' - input.count \in 1 - ByteSize .. ByteSize - 1]_vars
  BY <1>1
<1> QED BY <1>2, TypeCorrect, PTL DEF Spec, TornReadingIsWithinAByte

=============================================================================
