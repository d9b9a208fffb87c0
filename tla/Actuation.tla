----------------------------- MODULE Actuation -----------------------------
(***************************************************************************)
(* The arithmetic of one cycle of the command loop: the errors of the      *)
(* angles, the move the regulators correct, the thrust each channel is     *)
(* asked for, its normalization, the hand, and the PWM that is sent.       *)
(* Where commands, settings and samples come from is a matter of the       *)
(* modules CommandsCycle, RobotSettings and SensorHandler.                 *)
(*                                                                         *)
(* A vector of floats is a record of integers over one denominator, and    *)
(* the arithmetic is exact: rounding is not modelled.                      *)
(***************************************************************************)
EXTENDS Integers, FiniteSetsExt

CONSTANTS
  Channels,    \* of the high-frequency PWM, 1 .. 12 in the code
  Unit,        \* the integer that stands for 1.0 in a command
  Commands, Settings, Rotations,  \* what the cycle may be given
  Forces,      \* what the regulators may answer, before it is normalized
  None

Dimensions == 1 .. 6   \* Vx, Vy, Vz, Wx, Wy, Wz
Hands == 1 .. 4        \* coefficients of the hand that settings may hold
Angles == 1 .. 3       \* X, Y, Z

ASSUME ActuationAssumption ==
  /\ Max(Channels) \in Nat \ {0} /\ Channels = 1 .. Max(Channels)
  /\ Unit \in Nat \ {0}
  /\ Commands \subseteq [Move : [Dimensions -> Int], Hand : [Hands -> Int],
                         Stabilization : BOOLEAN, StabilizationTarget : [Angles -> Int]]
  /\ Settings \subseteq [ThrustersCoefficientArray : [Channels -> [Dimensions -> -100 .. 100]],
                         HandCoefficientArray : [Hands -> -100 .. 100],
                         ThrustersNumber : 0 .. 12, HandFreedom : 0 .. 4]
  /\ \A s \in Settings :      \* what RobotSettings guarantees
       /\ s.ThrustersNumber + s.HandFreedom <= Max(Channels)
       /\ \A i \in Channels : i > s.ThrustersNumber =>
            s.ThrustersCoefficientArray[i] = [d \in Dimensions |-> 0]
  /\ Rotations \subseteq [Angles -> Int]
  /\ Forces \subseteq [Dimensions -> Int]

(* Degrees: of the samples as the filters leave them, the pitch within the *)
(* quarters a comment of Calculate names, and of the targets of a pilot.   *)
ASSUME AngleAssumption ==
  /\ \A r \in Rotations :
       r[1] \in 0 .. 359 /\ r[2] \in (0 .. 90) \cup (270 .. 359) /\ r[3] \in 0 .. 359
  /\ \A c \in Commands :
       LET target == c.StabilizationTarget
       IN  target[1] \in -180 .. 180 /\ target[2] \in -90 .. 90 /\ target[3] \in 0 .. 360

VARIABLES
  stage,      \* "idle", or the cycle has "gathered" its inputs or "sent"
  commands, settings, rotation,   \* its inputs
  errors,     \* of the angles, if the cycle stabilizes
  demand,     \* history: hiPWM before Normalize
  motors      \* HiPWM of the message that is sent

inputs == <<commands, settings, rotation>>
vars == <<stage, inputs, errors, demand, motors>>

----------------------------------------------------------------------------
AbsValue(x) == IF x < 0 THEN -x ELSE x
Ceil(a, b) == -((-a) \div b)

Float(f) == [num |-> f, den |-> Unit]

(* The largest of the values, Normalize's maxValue. *)
LargestSigned(f) == Max({f[i] : i \in DOMAIN f} \cup {0})
Largest(f) == Max({AbsValue(f[i]) : i \in DOMAIN f})

AlwaysScales(v, amplitude) == Largest(v.num) > 0
Scales(v, amplitude) == Largest(v.num) > amplitude * v.den

EachClamped(v, amplitude) ==
  [v EXCEPT !.num = [i \in DOMAIN v.num |->
     Min({amplitude * v.den, Max({-amplitude * v.den, v.num[i]})})]]

(* Vector::Normalize: v is scaled by amplitude / maxValue if that is less  *)
(* than 1, which infinity, for a vector of zeros, is not.                  *)
Normalize(v, amplitude) ==
  IF Scales(v, amplitude)
  THEN [num |-> [i \in DOMAIN v.num |-> v.num[i] * amplitude], den |-> Largest(v.num)]
  ELSE v

RowTimes(row, f) ==
  row[1] * f[1] + row[2] * f[2] + row[3] * f[3] + row[4] * f[4] + row[5] * f[5] + row[6] * f[6]

Product(matrix, v) == [v EXCEPT !.num = [i \in Channels |-> RowTimes(matrix[i], v.num)]]

----------------------------------------------------------------------------
(* Stabilization::Calculate, up to the regulators.                         *)

WrapByHalf(e) ==
  IF e > 180 THEN e - 180 ELSE IF e < -180 THEN e + 180 ELSE e
WrapError(e) ==
  IF e > 180 THEN 360 - e ELSE IF e < -180 THEN 360 + e ELSE e

MeasuredAsIs(y) == y
MeasuredY(y) == IF y >= 270 THEN y - 360 ELSE y

Errors(target, measured) ==
  << WrapError(target[1] - measured[1]),
     target[2] - MeasuredY(measured[2]),
     WrapError(target[3] - measured[3]) >>

(* The move of the pilot, corrected: Vz and Wy are replaced, the other     *)
(* dimensions are added to.                                                *)
Corrected(move, correction) ==
  [num |-> [d \in Dimensions |->
              (IF d \in {3, 5} THEN 0 ELSE move.num[d] * correction.den)
              + correction.num[d] * move.den],
   den |-> move.den * correction.den]

(* The channel of the k-th coefficient of the hand: they are written from  *)
(* the last channel backwards.                                             *)
HandChannel(k) == Max(Channels) + 1 - k

(* The vector v with the hand's values in it. *)
WithHand(v, s, c) ==
  LET IsHand(i) == \E k \in 1 .. s.HandFreedom : i = HandChannel(k)
      Value(i) == LET k == Max(Channels) + 1 - i
                  IN  c.Hand[k] * s.HandCoefficientArray[k]
  IN  [num |-> [i \in Channels |-> IF IsHand(i) THEN Value(i) * v.den ELSE v.num[i] * Unit],
       den |-> v.den * Unit]

(* From [-100; 100] to [0; 2000], and FormMotorsStruct, which also rounds  *)
(* up LowPWM as the client sent it.                                        *)
PWM(v) == [i \in Channels |-> Ceil((v.num[i] + 100 * v.den) * 10, v.den)]

----------------------------------------------------------------------------
(* The variables are the locals of the loop's body: None out of their     *)
(* scope.                                                                  *)
Init ==
  /\ stage = "idle"
  /\ commands = None /\ settings = None /\ rotation = None
  /\ errors = None /\ demand = None /\ motors = None

(* GetCommands, GetSettings and GetSensorsStruct. *)
Gather ==
  /\ stage = "idle"
  /\ commands' \in Commands
  /\ settings' \in Settings
  /\ rotation' \in Rotations
  /\ stage' = "gathered"
  /\ UNCHANGED <<errors, demand, motors>>

Send(move) ==
  /\ demand' = Product(settings.ThrustersCoefficientArray, move)
  /\ motors' = PWM(WithHand(Normalize(demand', 100), settings, commands))
  /\ stage' = "sent"
  /\ UNCHANGED inputs

Stabilized(force) ==
  /\ stage = "gathered"
  /\ commands.Stabilization
  /\ errors' = Errors(commands.StabilizationTarget, rotation)
  /\ Send(Corrected(Float(commands.Move), Normalize(Float(force), 1)))

Manual ==
  /\ stage = "gathered"
  /\ ~commands.Stabilization
  /\ Send(Float(commands.Move))
  /\ UNCHANGED errors

(* The cycle ends. *)
Sleep ==
  /\ stage = "sent"
  /\ stage' = "idle"
  /\ commands' = None /\ settings' = None /\ rotation' = None
  /\ errors' = None /\ demand' = None /\ motors' = None

Next == Gather \/ Manual \/ (\E force \in Forces : Stabilized(force)) \/ Sleep

Spec == Init /\ [][Next]_vars

----------------------------------------------------------------------------
(* Properties.  All are of the message that is sent; a thruster is a       *)
(* channel below ThrustersNumber.                                          *)

Thrusters == 1 .. settings.ThrustersNumber

TypeOK ==
  /\ stage \in {"idle", "gathered", "sent"}
  /\ commands \in Commands \cup {None}
  /\ settings \in Settings \cup {None}
  /\ rotation \in Rotations \cup {None}
  /\ errors # None => errors \in [Angles -> -180 .. 180]
  /\ demand # None => DOMAIN demand.num = Channels /\ demand.den > 0
  /\ motors # None => DOMAIN motors = Channels

(* A hand that is moved no faster than the stick allows keeps every        *)
(* channel within what the conversion to PWM assumes (CommandsCycle.cpp,   *)
(* "from [-100; 100] to [0; 2000]"), whatever the pilot and the regulators *)
(* ask of the thrusters together.                                          *)
PWMInRange ==
  stage = "sent" /\ (\A k \in Hands : AbsValue(commands.Hand[k]) <= Unit)
    => \A i \in Channels : motors[i] \in 0 .. 2000

(* Limiting the thrust does not turn its direction: the PWM of any two     *)
(* thrusters stand in the ratio they were asked for, up to the rounding up *)
(* of each by less than one.                                               *)
DirectionKept ==
  stage = "sent" =>
    \A i, j \in Thrusters :
      LET di == demand.num[i]
          dj == demand.num[j]
      IN  AbsValue((motors[i] - 1000) * dj - (motors[j] - 1000) * di)
            <= AbsValue(di) + AbsValue(dj)

(* Thrust that the channels can give is given, no less and no more; if     *)
(* they cannot, the thruster that is asked for most gives all it can.      *)
DemandMet ==
  stage = "sent" /\ settings.ThrustersNumber > 0 =>
    LET most == Max({AbsValue(demand.num[i]) : i \in Thrusters})
    IN  IF most <= 100 * demand.den
        THEN \A i \in Thrusters :
               motors[i] = 1000 + Ceil(10 * demand.num[i], demand.den)
        ELSE \E i \in Thrusters : motors[i] \in {0, 2000}

(* The regulators are given the angle between target and sample: the       *)
(* distance on the circle, however the sensor counts its degrees.          *)
Distance(a, b) == LET d == (a - b) % 360 IN Min({d, 360 - d})

ErrorIsDistance ==
  stage = "sent" /\ commands.Stabilization =>
    \A i \in Angles :
      AbsValue(errors[i]) = Distance(commands.StabilizationTarget[i], rotation[i])
=============================================================================
