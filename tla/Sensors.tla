------------------------------- MODULE Sensors -------------------------------
(***************************************************************************)
(* From the registers of the two sensors to the snapshots of them that the *)
(* command loop and the session take: the calibration of the MS5837, the   *)
(* filters, SetData and GetData under the mutex of each sensor, and        *)
(* GetSensorsStruct, which takes the one and then the other.               *)
(*                                                                         *)
(* What the sensors will measure is chosen first.  A sample is known by    *)
(* its number; a Data is copied field by field, of which two stand for all.*)
(***************************************************************************)
EXTENDS Filters, MS5837, Sequences

CONSTANTS
  Readers,     \* the threads that call GetSensorsStruct
  Measures,    \* what the sensors may measure: a sequence of degrees and one of depths
  Factory,     \* the PROM as it was programmed
  Errors,      \* what the bus may do to it: sets of inverted bits
  None

ASSUME SensorsAssumption ==
  /\ None \notin Readers \cup {"thread"} \cup {"bno055_", "ms5837_"}
  /\ "thread" \notin Readers
  /\ Factory \in [0 .. 7 -> SUBSET Bits]
  /\ {} \in Errors
  /\ Measures \subseteq [bno055_ : Seq(Degrees), ms5837_ : Seq(Nat)]

(* The maker of the depth sensor programmed words that are not zero, with  *)
(* their checksum.  An error of the bus leaves a word of zero, or is one   *)
(* that the checksum would notice in a PROM that is blank otherwise.       *)
ASSUME PromAssumption ==
  /\ \A i \in 0 .. 6 : Factory[i] # {}
  /\ CRC4(Factory) = ShiftRight(Factory[0], 12)
  /\ Errors \subseteq SUBSET ((0 .. 7) \X Bits)
  /\ \A e \in Errors \ {{}} :
       LET pattern == WithErrors([i \in 0 .. 7 |-> {}], e)
       IN  \/ \E i \in 0 .. 6 : pattern[i] = Factory[i]
           \/ CRC4(pattern) # ShiftRight(pattern[0], 12)

VARIABLES
  measures,     \* what they measure
  prom,         \* what the last reading of the PROM had: "nothing", "intact" or "errors"
  verified,     \* Init of the MS5837 has yielded true
  filters_,     \* one filter of each sensor
  taken,        \* how many samples have been measured
  setting,      \* the sensor whose SetData runs, or None
  dataMutex_,   \* who is in SetData or GetData of each sensor, or None
  data_,        \* the sample each field of the Data comes from
  reading,      \* the sensor each reader takes the Data of, or None
  copy,         \* its copy, as far as it has come
  newest        \* the sample that was published when it asked

measureVars == <<measures, prom, verified, filters_, taken>>
setVars == <<setting, data_>>
readVars == <<reading, copy, newest>>
vars == <<measureVars, setVars, dataMutex_, readVars>>

Devices == {"bno055_", "ms5837_"}

TypeOK ==
  /\ measures \in Measures
  /\ prom \in {"nothing", "intact", "errors"}
  /\ verified \in BOOLEAN
  /\ DOMAIN filters_ = Devices
  /\ taken \in [Devices -> Nat]
  /\ \A d \in Devices : filters_[d].index \in 0 .. Size /\ taken[d] <= Len(measures[d])
  /\ setting \in Devices \cup {None}
  /\ dataMutex_ \in [Devices -> Readers \cup {"thread", None}]
  /\ data_ \in [Devices -> [1 .. 2 -> Nat]]
  /\ reading \in [Readers -> Devices \cup {None}]
  /\ copy \in [Readers -> Seq(Nat)]
  /\ newest \in [Readers -> Nat]

Init ==
  /\ measures \in Measures
  /\ prom = "nothing" /\ verified = FALSE
  /\ filters_ = [bno055_ |-> NewFilter(<<0, 0>>), ms5837_ |-> NewFilter(0)]
  /\ taken = [d \in Devices |-> 0]
  /\ setting = None
  /\ dataMutex_ = [d \in Devices |-> None]
  /\ data_ = [d \in Devices |-> [i \in 1 .. 2 |-> 0]]
  /\ reading = [r \in Readers |-> None]
  /\ copy = [r \in Readers |-> <<>>]
  /\ newest = [r \in Readers |-> 0]

----------------------------------------------------------------------------
(* The thread of the sensors.                                              *)

(* Init of the MS5837, until the words agree with their checksum. *)
PromReadings ==
  {[prom |-> IF e = {} THEN "intact" ELSE "errors", verified |-> Verified(WithErrors(Factory, e))] :
     e \in Errors}

(* Bound: the PROM is read before the first sample and the first snapshot; *)
(* when Init runs again is the subject of SensorHandler.                   *)
ReadProm ==
  /\ ~verified
  /\ setting = None /\ taken["bno055_"] = 0
  /\ \A r \in Readers : reading[r] = None /\ copy[r] = <<>>
  /\ \E words \in PromReadings : prom' = words.prom /\ verified' = words.verified
  /\ UNCHANGED <<measures, filters_, taken, setVars, dataMutex_, readVars>>

(* The last resumption of ReadData: the sample passes the filter and is    *)
(* given to SetData.                                                       *)
Measure(d) ==
  /\ setting = None
  /\ d = "ms5837_" => verified
  /\ taken[d] < Len(measures[d])
  /\ taken' = [taken EXCEPT ![d] = @ + 1]
  /\ LET v == measures[d][taken'[d]]
     IN filters_' = [filters_ EXCEPT ![d] = IF d = "bno055_" THEN CircleMovingAverage(@, v)
                                            ELSE MovingAverage(@, v)]
  /\ setting' = d
  /\ UNCHANGED <<measures, prom, verified, data_, dataMutex_, readVars>>

LockedByNobody(d, who) == UNCHANGED dataMutex_
Locked(d, who) == dataMutex_[d] = None /\ dataMutex_' = [dataMutex_ EXCEPT ![d] = who]
Unlocked(d) == dataMutex_' = [dataMutex_ EXCEPT ![d] = None]

(* SetData: the guard and the first field, then the rest and the end of    *)
(* the guard.                                                              *)
SetDataBegins(d) ==
  /\ setting = d
  /\ data_[d][1] # taken[d]
  /\ Locked(d, "thread")
  /\ data_' = [data_ EXCEPT ![d][1] = taken[d]]
  /\ UNCHANGED <<measureVars, setting, readVars>>

SetDataEnds(d) ==
  /\ setting = d
  /\ data_[d][1] = taken[d]
  /\ data_' = [data_ EXCEPT ![d][2] = taken[d]]
  /\ Unlocked(d)
  /\ setting' = None
  /\ UNCHANGED <<measureVars, readVars>>

----------------------------------------------------------------------------
(* The readers.                                                            *)

Asks(r, d) ==
  /\ reading' = [reading EXCEPT ![r] = d]
  /\ copy' = [copy EXCEPT ![r] = <<>>]
  /\ newest' = [newest EXCEPT ![r] = data_[d][2]]
  /\ UNCHANGED <<measureVars, setVars, dataMutex_>>

(* GetSensorsStruct asks the BNO055 first, then the MS5837. *)
GetSensorsStruct(r) ==
  \/ reading[r] = None /\ Asks(r, "bno055_")
  \/ reading[r] = "bno055_" /\ Len(copy[r]) = 2 /\ Asks(r, "ms5837_")

GetDataBegins(r, d) ==
  /\ reading[r] = d
  /\ copy[r] = <<>>
  /\ Locked(d, r)
  /\ copy' = [copy EXCEPT ![r] = <<data_[d][1]>>]
  /\ UNCHANGED <<measureVars, setVars, reading, newest>>

GetDataEnds(r, d) ==
  /\ reading[r] = d
  /\ Len(copy[r]) = 1
  /\ copy' = [copy EXCEPT ![r] = Append(@, data_[d][2])]
  /\ Unlocked(d)
  /\ UNCHANGED <<measureVars, setVars, reading, newest>>

Returned(r) ==
  /\ reading[r] = "ms5837_"
  /\ Len(copy[r]) = 2
  /\ reading' = [reading EXCEPT ![r] = None]
  /\ copy' = [copy EXCEPT ![r] = <<>>]
  /\ UNCHANGED <<measureVars, setVars, dataMutex_, newest>>

Next ==
  \/ ReadProm
  \/ \E d \in Devices :
       \/ Measure(d) \/ SetDataBegins(d) \/ SetDataEnds(d)
       \/ \E r \in Readers : GetDataBegins(r, d) \/ GetDataEnds(r, d)
  \/ \E r \in Readers : GetSensorsStruct(r) \/ Returned(r)

Spec == Init /\ [][Next]_vars
----------------------------------------------------------------------------
(* Properties.                                                             *)

(* Calibration that came over the bus with errors is not used, whatever    *)
(* words they fall on; and calibration that came without is.               *)
CalibrationIsTheSensors == verified <=> prom = "intact"

(* Each half of a snapshot is one whole sample of its sensor, and none     *)
(* older than what was published when it was asked for; the two need not   *)
(* have been current at the same time.                                     *)
SnapshotIsCurrent ==
  \A r \in Readers :
    Len(copy[r]) = 2 =>
      copy[r][1] = copy[r][2] /\ copy[r][1] \in newest[r] .. taken[reading[r]]

Last(d, n) == SubSeq(measures[d], taken[d] - n + 1, taken[d])
Steady(d) == taken[d] >= Size /\ \A i, j \in 1 .. Size : Last(d, Size)[i] = Last(d, Size)[j]

(* A filter forgets: once a sensor has measured the same as often as its   *)
(* filter is long, that is what the filter returns, whatever came before,  *)
(* zeros of the start included.                                            *)
FiltersSettle ==
  /\ Steady("ms5837_") => Average(filters_.ms5837_) = Size * measures.ms5837_[taken.ms5837_]
  /\ Steady("bno055_") =>
       LET a == measures.bno055_[taken.bno055_]
           angle == Angle(filters_.bno055_)
       IN  /\ angle.cos = Size * Cos(a)
           /\ angle.half = IF a = 0 THEN "none" ELSE IF Sin(a) > 0 THEN "first" ELSE "second"
=============================================================================
