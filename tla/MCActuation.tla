---------------------------- MODULE MCActuation ----------------------------
(***************************************************************************)
(* Actuation for TLC: five channels, half and whole sticks, settings whose *)
(* rows exceed, meet and miss the range, and angles on both sides of every *)
(* case of Errors: rotations in [0; 360), as CircleMovingAverage leaves    *)
(* them, targets as a pilot counts: X in [-180; 180], Y in [-90; 90], Z in *)
(* [0; 360].                                                               *)
(***************************************************************************)
EXTENDS Actuation, Sequences

MCChannels == 1 .. 5

Targets == {<<x, y, x + 180>> : x \in {-180, -90, 0, 45, 180}, y \in {-90, 0, 45}}
MCRotations == {<<x, y, (x + 135) % 360>> : x \in {0, 90, 180, 225, 315}, y \in {0, 90, 270, 315}}

Moves == {<<0, 0, 0, 0, 0, 0>>, <<1, 0, 0, 0, 0, 0>>, <<2, 2, 0, 0, 0, 0>>,
          <<-2, 1, 2, 0, -1, 2>>, <<2, 2, 2, 2, 2, 2>>}

Command(move, hand, stabilization, target) ==
  [Move |-> move, Hand |-> hand, Stabilization |-> stabilization,
   StabilizationTarget |-> target]

MCCommands ==
  {Command(m, <<a, b, 0, 0>>, FALSE, <<0, 0, 0>>) : m \in Moves, a \in {-2, 0, 1}, b \in {0, 2}}
  \cup {Command(m, <<0, 1, 0, 0>>, TRUE, t) : m \in Moves, t \in Targets}

Row(a, b, c, d, e, f) == <<a, b, c, d, e, f>>
Zero == Row(0, 0, 0, 0, 0, 0)

MCSettings ==
  {[ThrustersCoefficientArray |-> rows, HandCoefficientArray |-> <<100, -50, 0, 0>>,
    ThrustersNumber |-> 3, HandFreedom |-> h] :
     h \in 0 .. 2,
     rows \in {<<Row(100, 0, 0, 0, 0, 50), Row(-100, 30, 0, 0, 0, 0),
                Row(0, 0, 100, -100, 70, 0), Zero, Zero>>,
               <<Row(-100, -100, -100, -100, -100, -100), Row(1, 0, 0, 0, 0, 0),
                Row(0, 33, 0, 10, 0, 0), Zero, Zero>>}}
  \cup {[ThrustersCoefficientArray |-> <<Zero, Zero, Zero, Zero, Zero>>,
         HandCoefficientArray |-> <<0, 0, 0, 0>>, ThrustersNumber |-> 0, HandFreedom |-> 0]}

MCForces == {<<0, 0, 0, 0, 0, 0>>, <<0, 0, -1, 0, 0, 2>>, <<3, -6, 4, -1, 2, 0>>}
=============================================================================
