------------------------------ MODULE Filters ------------------------------
(***************************************************************************)
(* The filters of the samples: an average over the last samples in a ring  *)
(* of Size elements that starts with zeros, and the same for angles, which *)
(* averages their cosines and sines.                                       *)
(***************************************************************************)
EXTENDS Integers

CONSTANT Size   \* BufferSize of every filter

ASSUME FiltersAssumption == Size \in Nat \ {0}

(* _elements and _index as they are made. *)
NewFilter(zero) == [elements |-> [i \in 0 .. Size - 1 |-> zero], index |-> 0]

StoredShort(f, v) ==
  LET i == IF f.index = Size - 1 THEN 0 ELSE f.index
  IN  [elements |-> [f.elements EXCEPT ![i] = v], index |-> i + 1]

StoredUnwrapped(f, v) ==
  [elements |-> [f.elements EXCEPT ![f.index] = v], index |-> f.index + 1]

(* One sample more; the index wraps before the sample is stored. *)
Stored(f, v) ==
  LET i == IF f.index = Size THEN 0 ELSE f.index
  IN  [elements |-> [f.elements EXCEPT ![i] = v], index |-> i + 1]

Total(g) ==
  LET sum[n \in 0 .. Size] == IF n = 0 THEN 0 ELSE sum[n - 1] + g[n - 1]
  IN  sum[Size]

----------------------------------------------------------------------------
(* MovingAverage.  The result is kept as the sum: Size times the average.  *)

MovingAverage(f, v) == Stored(f, v)
Average(f) == Total(f.elements)

----------------------------------------------------------------------------
(* CircleMovingAverage, for multiples of 60 degrees: twice the cosine, and *)
(* the sine in thousandths of sin(60).  180 is not pi: the sine of the     *)
(* double nearest to pi is a little more than zero, that of its opposite a *)
(* little less.                                                            *)
Degrees == {60 * k : k \in -3 .. 5}

Cos(a) == CASE a = 0 -> 2
            [] a \in {60, -60, 300} -> 1
            [] a \in {120, -120, 240} -> -1
            [] OTHER -> -2
Sin(a) == CASE a \in {60, 120} -> 1000
            [] a = 180 -> 1
            [] a = 0 -> 0
            [] a = -180 -> -1
            [] OTHER -> -1000

CircleMovingAverage(f, a) == Stored(f, <<Cos(a), Sin(a)>>)

(* acos of the averaged cosine, in the half that the averaged sine says;   *)
(* zero degrees when the sines cancel.  An angle is kept as its cosine,    *)
(* times twice Size, and its half.                                         *)
Angle(f) ==
  LET cos == Total([i \in DOMAIN f.elements |-> f.elements[i][1]])
      sin == Total([i \in DOMAIN f.elements |-> f.elements[i][2]])
  IN  IF sin > 0 THEN [half |-> "first", cos |-> cos]
      ELSE IF sin < 0 THEN [half |-> "second", cos |-> cos]
      ELSE [half |-> "none", cos |-> 2 * Size]
=============================================================================
