------------------------- MODULE Actuation_proofs -------------------------
(***************************************************************************)
(* Theorems about the message of a cycle, for any number of channels, any  *)
(* settings, any sticks and any answer of the regulators.                  *)
(***************************************************************************)
EXTENDS Actuation, Induction

(***************************************************************************)
(* Integers: what SMT does not find by itself of products and quotients.   *)
(***************************************************************************)

(* A factor that is positive may be cancelled. *)
LEMMA Cancel ==
  ASSUME NEW a \in Int, NEW b \in Int, NEW c \in Nat \ {0}
  PROVE  (c * a <= c * b <=> a <= b) /\ (c * a < c * b <=> a < b)
OBVIOUS

(* What a factor of at most a hundred makes of a value. *)
LEMMA Scaled ==
  ASSUME NEW a \in Int, NEW u \in Nat, -u <= a, a <= u, NEW f \in -100 .. 100
  PROVE  a * f \in Int /\ -(100 * u) <= a * f /\ a * f <= 100 * u
<1>1. CASE f = 0
  BY <1>1
<1>2. CASE f > 0
  <2>1. f * (-u) <= f * a /\ f * a <= f * u
    BY <1>2, Cancel
  <2>2. u * f <= u * 100
    <3>1. CASE u = 0
      BY <3>1
    <3>2. CASE u > 0
      BY <3>2, Cancel
    <3> QED
      BY <3>1, <3>2
  <2> QED
    BY <2>1, <2>2
<1>3. CASE f < 0
  <2> DEFINE g == -f
  <2>1. g \in Nat \ {0} /\ g <= 100 /\ a * f = -(g * a)
    BY <1>3
  <2> HIDE DEF g
  <2>2. g * (-u) <= g * a /\ g * a <= g * u
    BY <2>1, Cancel
  <2>3. u * g <= u * 100
    <3>1. CASE u = 0
      BY <2>1, <3>1
    <3>2. CASE u > 0
      BY <2>1, <3>2, Cancel
    <3> QED
      BY <3>1, <3>2
  <2> QED
    BY <2>1, <2>2, <2>3
<1> QED
  BY <1>1, <1>2, <1>3

(* Ceil rounds up. *)
LEMMA CeilBounds ==
  ASSUME NEW a \in Int, NEW b \in Nat \ {0}
  PROVE  Ceil(a, b) \in Int /\ b * (Ceil(a, b) - 1) < a /\ a <= b * Ceil(a, b)
<1> DEFINE q == (-a) \div b
<1>1. q \in Int /\ b * q <= -a /\ -a < b * q + b
  OBVIOUS
<1> HIDE DEF q
<1>2. Ceil(a, b) = -q
  BY DEF Ceil, q
<1>3. b * (-q) = -(b * q) /\ b * (-q - 1) = -(b * q) - b
  BY <1>1
<1> QED
  BY <1>1, <1>2, <1>3

(* And is the only integer that does. *)
LEMMA CeilUnique ==
  ASSUME NEW a \in Int, NEW b \in Nat \ {0}, NEW c \in Int, b * (c - 1) < a, a <= b * c
  PROVE  Ceil(a, b) = c
<1> DEFINE d == Ceil(a, b)
<1>1. d \in Int /\ b * (d - 1) < a /\ a <= b * d
  BY CeilBounds
<1> HIDE DEF d
<1>2. b * (d - 1) < b * c /\ b * (c - 1) < b * d
  BY <1>1
<1>3. d - 1 < c /\ c - 1 < d
  BY <1>1, <1>2, Cancel
<1>4. d = c
  BY <1>1, <1>3
<1> QED
  BY <1>4 DEF d

(* The largest of the values of a function on an interval, by induction on *)
(* its length.                                                             *)
LEMMA LargestIs ==
  ASSUME NEW n \in Nat \ {0}, NEW f, \A i \in 1 .. n : f[i] \in Int
  PROVE  LET m == Max({AbsValue(f[i]) : i \in 1 .. n})
         IN  m \in Nat /\ (\E i \in 1 .. n : m = AbsValue(f[i])) /\ \A i \in 1 .. n : AbsValue(f[i]) <= m
<1> DEFINE v(i) == AbsValue(f[i])
           P == {k \in Nat : k \in 1 .. n => \E i \in 1 .. k : \A j \in 1 .. k : v(j) <= v(i)}
<1>1. \A i \in 1 .. n : v(i) \in Nat
  BY DEF AbsValue
<1> HIDE DEF v
<1>2. \A k \in Nat : k \in P <=> (k \in 1 .. n => \E i \in 1 .. k : \A j \in 1 .. k : v(j) <= v(i))
  OBVIOUS
<1> HIDE DEF P
<1>3. \A k \in Nat : k \in P => k + 1 \in P
  <2> SUFFICES ASSUME NEW k \in Nat, k \in P, k + 1 \in 1 .. n
               PROVE  \E i \in 1 .. k + 1 : \A j \in 1 .. k + 1 : v(j) <= v(i)
    <3>1. \A k \in Nat : k + 1 \in Nat
      OBVIOUS
    <3> QED
      BY <1>2, <3>1
  <2>1. CASE k = 0
    BY <1>1, <2>1
  <2>2. CASE k # 0
    <3>1. PICK i \in 1 .. k : \A j \in 1 .. k : v(j) <= v(i)
      BY <1>2, <2>2
    <3>2. \A j \in 1 .. k + 1 : v(j) \in Nat /\ (j \in 1 .. k \/ j = k + 1)
      BY <1>1
    <3>3. i \in 1 .. k + 1 /\ k + 1 \in 1 .. k + 1
      OBVIOUS
    <3>4. CASE v(k + 1) <= v(i)
      BY <3>1, <3>2, <3>3, <3>4
    <3>5. CASE v(i) < v(k + 1)
      <4>1. \A j \in 1 .. k + 1 : v(j) <= v(k + 1)
        <5> SUFFICES ASSUME NEW j \in 1 .. k + 1 PROVE v(j) <= v(k + 1)
          OBVIOUS
        <5>1. v(j) \in Nat /\ v(i) \in Nat /\ v(k + 1) \in Nat
          BY <3>2, <3>3
        <5>2. CASE j = k + 1
          BY <5>1, <5>2
        <5>3. CASE j \in 1 .. k
          BY <3>1, <3>5, <5>1, <5>3
        <5> QED
          BY <3>2, <5>2, <5>3
      <4> QED
        BY <3>3, <4>1
    <3> QED
      BY <3>2, <3>3, <3>4, <3>5
  <2> QED
    BY <2>1, <2>2
<1>4. PICK i \in 1 .. n : \A j \in 1 .. n : v(j) <= v(i)
  <2>1. 0 \in P
    BY <1>2
  <2>2. Nat \subseteq P
    BY <1>3, <2>1, NaturalsFrom
  <2> QED
    BY <1>2, <2>2
<1> DEFINE V == {v(j) : j \in 1 .. n}
<1>5. v(i) \in V /\ \A y \in V : v(i) >= y
  BY <1>1, <1>4
<1>6. Max(V) \in V /\ \A y \in V : Max(V) >= y
  BY <1>5 DEF Max
<1> QED
  BY <1>1, <1>6 DEF v

(* The least of two integers. *)
LEMMA MinOfTwo ==
  ASSUME NEW x \in Int, NEW y \in Int
  PROVE  Min({x, y}) = IF x <= y THEN x ELSE y
<1> DEFINE z == IF x <= y THEN x ELSE y
<1>1. z \in {x, y} /\ \A w \in {x, y} : z <= w
  OBVIOUS
<1>2. Min({x, y}) \in {x, y} /\ \A w \in {x, y} : Min({x, y}) <= w
  BY <1>1 DEF Min
<1> QED
  BY <1>2

(* A common factor of dividend and divisor does not matter. *)
LEMMA CeilOfMultiple ==
  ASSUME NEW a \in Int, NEW b \in Nat \ {0}, NEW u \in Nat \ {0}
  PROVE  Ceil(a * u, b * u) = Ceil(a, b)
<1> DEFINE c == Ceil(a, b)
<1>1. c \in Int /\ b * (c - 1) < a /\ a <= b * c
  BY CeilBounds
<1> HIDE DEF c
<1> DEFINE low == b * (c - 1)
           high == b * c
<1>2. low \in Int /\ high \in Int
  BY <1>1
<1>3. (b * u) * (c - 1) = u * low /\ (b * u) * c = u * high /\ a * u = u * a
  BY <1>1
<1> HIDE DEF low, high
<1>4. u * low < u * a /\ u * a <= u * high
  BY <1>1, <1>2, Cancel DEF low, high
<1>5. b * u \in Nat \ {0} /\ a * u \in Int
  OBVIOUS
<1>6. Ceil(a * u, b * u) = c
  BY <1>1, <1>3, <1>4, <1>5, CeilUnique
<1> QED
  BY <1>6 DEF c

(* A multiple of the divisor may be taken out. *)
LEMMA CeilOfSum ==
  ASSUME NEW a \in Int, NEW b \in Nat \ {0}, NEW k \in Int
  PROVE  Ceil(a + k * b, b) = k + Ceil(a, b)
<1> DEFINE c == Ceil(a, b)
<1>1. c \in Int /\ b * (c - 1) < a /\ a <= b * c
  BY CeilBounds
<1> HIDE DEF c
<1>2. b * ((k + c) - 1) = b * (c - 1) + k * b /\ b * (k + c) = b * c + k * b
  BY <1>1
<1>3. b * ((k + c) - 1) < a + k * b /\ a + k * b <= b * (k + c)
  BY <1>1, <1>2
<1>4. Ceil(a + k * b, b) = k + c
  BY <1>1, <1>3, CeilUnique
<1> QED
  BY <1>4 DEF c

(* A tenfold value of the range [-100; 100] is within [-1000; 1000]. *)
LEMMA CeilInRange ==
  ASSUME NEW a \in Int, NEW b \in Nat \ {0}, b * (-1000) <= a, a <= b * 1000
  PROVE  -1000 <= Ceil(a, b) /\ Ceil(a, b) <= 1000
<1> DEFINE c == Ceil(a, b)
<1>1. c \in Int /\ b * (c - 1) < a /\ a <= b * c
  BY CeilBounds
<1> HIDE DEF c
<1>2. b * (c - 1) < b * 1000 /\ b * (-1000) <= b * c
  BY <1>1
<1>3. c - 1 < 1000 /\ -1000 <= c
  BY <1>1, <1>2, Cancel
<1>4. -1000 <= c /\ c <= 1000
  BY <1>1, <1>3
<1> QED
  BY <1>4 DEF c

----------------------------------------------------------------------------
(***************************************************************************)
(* The vectors of a cycle.                                                 *)
(***************************************************************************)

Last == Max(Channels)
Denominators == Nat \ {0}
Thrusts == [num : [Channels -> Int], den : Denominators]

(* The largest of the values of a vector of thrusts. *)
LEMMA LargestThrust ==
  ASSUME NEW v \in Thrusts
  PROVE  /\ Largest(v.num) \in Nat
         /\ \E i \in Channels : Largest(v.num) = AbsValue(v.num[i])
         /\ \A i \in Channels : AbsValue(v.num[i]) <= Largest(v.num)
<1>1. Last \in Nat \ {0} /\ Channels = 1 .. Last
  BY ActuationAssumption DEF Last
<1>2. DOMAIN v.num = 1 .. Last /\ \A i \in 1 .. Last : v.num[i] \in Int
  BY <1>1 DEF Thrusts
<1>3. Largest(v.num) = Max({AbsValue(v.num[i]) : i \in 1 .. Last})
  BY <1>2 DEF Largest
<1> DEFINE f == v.num
           m == Max({AbsValue(f[i]) : i \in 1 .. Last})
<1>4. \A i \in 1 .. Last : f[i] \in Int
  BY <1>2
<1> HIDE DEF f
<1>5. m \in Nat /\ (\E i \in 1 .. Last : m = AbsValue(f[i])) /\ \A i \in 1 .. Last : AbsValue(f[i]) <= m
  BY <1>1, <1>4, LargestIs
<1> HIDE DEF m
<1>6. Largest(v.num) = m
  BY <1>3 DEF f, m
<1> QED
  BY <1>1, <1>5, <1>6 DEF f

(* Normalize either leaves a vector alone, that is within the amplitude,   *)
(* or scales it to the amplitude.                                          *)
LEMMA Normalized ==
  ASSUME NEW v \in Thrusts
  PROVE  LET w == Normalize(v, 100)
             most == Largest(v.num)
         IN  /\ w \in Thrusts
             /\ most <= 100 * v.den => w = v
             /\ most > 100 * v.den =>
                  most > 0 /\ w.den = most /\ \A i \in Channels : w.num[i] = v.num[i] * 100
             /\ \A i \in Channels : -(100 * w.den) <= w.num[i] /\ w.num[i] <= 100 * w.den
<1> DEFINE w == Normalize(v, 100)
           most == Largest(v.num)
<1>1. most \in Nat /\ \A i \in Channels : AbsValue(v.num[i]) <= most
  BY LargestThrust
<1> HIDE DEF most
<1>2. v.den \in Nat \ {0} /\ v.num \in [Channels -> Int]
  BY DEF Thrusts, Denominators
<1>3. Scales(v, 100) <=> most > 100 * v.den
  BY DEF Scales, most
<1>4. \A i \in Channels : -most <= v.num[i] /\ v.num[i] <= most
  BY <1>1, <1>2 DEF AbsValue
<1>5. CASE most <= 100 * v.den
  <2>1. w = v
    BY <1>1, <1>2, <1>3, <1>5 DEF Normalize
  <2>2. \A i \in Channels : -(100 * v.den) <= v.num[i] /\ v.num[i] <= 100 * v.den
    BY <1>1, <1>2, <1>4, <1>5
  <2> HIDE DEF w
  <2>3. ~ (most > 100 * v.den)
    BY <1>1, <1>2, <1>5
  <2> QED
    BY <2>1, <2>2, <2>3 DEF w, most
<1>6. CASE most > 100 * v.den
  <2>1. w = [num |-> [i \in Channels |-> v.num[i] * 100], den |-> most]
    BY <1>2, <1>3, <1>6 DEF Normalize, most
  <2> HIDE DEF w
  <2>2. most > 0 /\ ~ (most <= 100 * v.den)
    BY <1>1, <1>2, <1>6
  <2>3. w.den = most /\ \A i \in Channels : w.num[i] = v.num[i] * 100
    BY <2>1
  <2>4. w \in Thrusts
    BY <1>1, <1>2, <2>1, <2>2 DEF Thrusts, Denominators
  <2>5. \A i \in Channels : -(100 * w.den) <= w.num[i] /\ w.num[i] <= 100 * w.den
    BY <1>1, <1>2, <1>4, <2>3
  <2> QED
    BY <2>2, <2>3, <2>4, <2>5 DEF w, most
<1> QED
  BY <1>1, <1>2, <1>5, <1>6

(* What is asked of the six dimensions.                                    *)
Moves == [num : [Dimensions -> Int], den : Denominators]

(* A row of integers times a vector of integers is an integer. *)
LEMMA RowTimesIsInt ==
  ASSUME NEW row \in [Dimensions -> -100 .. 100], NEW f \in [Dimensions -> Int]
  PROVE  RowTimes(row, f) \in Int
<1>1. \A d \in Dimensions : row[d] \in Int /\ f[d] \in Int
  OBVIOUS
<1>2. \A x, y \in Int : x * y \in Int
  OBVIOUS
<1>3. \A d \in Dimensions : row[d] * f[d] \in Int
  BY <1>1, <1>2
<1> QED
  BY <1>3 DEF RowTimes, Dimensions

(* The product asks for thrusts, and for none of the channels above        *)
(* ThrustersNumber, whose rows are zeros.                                  *)
LEMMA ProductIsThrusts ==
  ASSUME NEW s \in Settings, NEW v \in Moves
  PROVE  LET p == Product(s.ThrustersCoefficientArray, v)
         IN  p \in Thrusts /\ \A i \in Channels : i > s.ThrustersNumber => p.num[i] = 0
<1> DEFINE matrix == s.ThrustersCoefficientArray
           p == Product(matrix, v)
<1>1. matrix \in [Channels -> [Dimensions -> -100 .. 100]]
  BY ActuationAssumption
<1>2. \A i \in Channels : i > s.ThrustersNumber => matrix[i] = [d \in Dimensions |-> 0]
  BY ActuationAssumption
<1>3. v.num \in [Dimensions -> Int] /\ v.den \in Denominators
  BY DEF Moves
<1> HIDE DEF matrix
<1>4. p = [num |-> [i \in Channels |-> RowTimes(matrix[i], v.num)], den |-> v.den]
  BY DEF Product, Moves
<1>5. \A i \in Channels : RowTimes(matrix[i], v.num) \in Int
  BY <1>1, <1>3, RowTimesIsInt
<1>6. ASSUME NEW i \in Channels, i > s.ThrustersNumber
      PROVE  RowTimes(matrix[i], v.num) = 0
  <2>1. \A d \in Dimensions : matrix[i][d] = 0 /\ v.num[d] \in Int
    BY <1>2, <1>3, <1>6
  <2>2. \A x \in Int : 0 * x = 0
    OBVIOUS
  <2>3. \A d \in Dimensions : matrix[i][d] * v.num[d] = 0
    BY <2>1, <2>2
  <2> QED
    BY <2>3 DEF RowTimes, Dimensions
<1> HIDE DEF p
<1>7. p \in Thrusts
  BY <1>3, <1>4, <1>5 DEF Thrusts
<1>8. \A i \in Channels : i > s.ThrustersNumber => p.num[i] = 0
  BY <1>4, <1>6
<1> QED
  BY <1>7, <1>8 DEF p, matrix

(* A command asks for a move. *)
LEMMA MovesOfPilot ==
  ASSUME NEW c \in Commands
  PROVE  Float(c.Move) \in Moves
BY ActuationAssumption DEF Float, Moves, Denominators

(* A move that is corrected is a move. *)
LEMMA CorrectedIsMove ==
  ASSUME NEW m \in Moves, NEW k \in Moves
  PROVE  Corrected(m, k) \in Moves
<1>1. /\ m.num \in [Dimensions -> Int] /\ m.den \in Nat \ {0}
      /\ k.num \in [Dimensions -> Int] /\ k.den \in Nat \ {0}
  BY DEF Moves, Denominators
<1>2. \A x, y \in Int : x * y \in Int
  OBVIOUS
<1>3. \A x, y \in Nat \ {0} : x * y \in Nat \ {0}
  OBVIOUS
<1>4. \A d \in Dimensions : m.num[d] * k.den \in Int /\ k.num[d] * m.den \in Int
  BY <1>1, <1>2
<1>5. \A d \in Dimensions :
        (IF d \in {3, 5} THEN 0 ELSE m.num[d] * k.den) + k.num[d] * m.den \in Int
  BY <1>4
<1>6. m.den * k.den \in Nat \ {0}
  BY <1>1, <1>3
<1> QED
  BY <1>5, <1>6 DEF Corrected, Moves, Denominators

(* And so is what the regulators answer, normalized. *)
LEMMA CorrectionIsMove ==
  ASSUME NEW force \in Forces
  PROVE  Normalize(Float(force), 1) \in Moves
<1> DEFINE most == Largest(force)
<1>1. force \in [Dimensions -> Int] /\ Unit \in Nat \ {0}
  BY ActuationAssumption
<1>2. \A i \in 1 .. 6 : force[i] \in Int
  BY <1>1 DEF Dimensions
<1>3. Max({AbsValue(force[i]) : i \in 1 .. 6}) \in Nat
  BY <1>2, LargestIs
<1>4. most \in Nat
  BY <1>1, <1>3 DEF Largest, Dimensions
<1> HIDE DEF most
<1>5. CASE most > Unit
  <2>1. Normalize(Float(force), 1) = [num |-> [i \in Dimensions |-> force[i] * 1], den |-> most]
    BY <1>1, <1>5 DEF Normalize, Scales, Float, most
  <2>2. most \in Nat \ {0}
    BY <1>1, <1>4, <1>5
  <2> QED
    BY <1>1, <2>1, <2>2 DEF Moves, Denominators
<1>6. CASE ~ (most > Unit)
  <2>1. Normalize(Float(force), 1) = Float(force)
    BY <1>1, <1>6 DEF Normalize, Scales, Float, most
  <2> QED
    BY <1>1, <2>1 DEF Moves, Denominators, Float
<1> QED
  BY <1>5, <1>6

(* Which channels are the hand's: the last HandFreedom.                    *)
IsHandChannel(i, s) == \E k \in 1 .. s.HandFreedom : i = HandChannel(k)

(* They are no thrusters' channels, and there is a coefficient for each. *)
LEMMA HandChannels ==
  ASSUME NEW s \in Settings, NEW i \in Channels
  PROVE  /\ IsHandChannel(i, s) => Last + 1 - i \in Hands /\ ~ (i <= s.ThrustersNumber)
         /\ s.HandCoefficientArray \in [Hands -> -100 .. 100]
         /\ s.ThrustersNumber \in 0 .. 12
         /\ 1 .. s.ThrustersNumber \subseteq Channels
<1>1. Last \in Nat \ {0} /\ Channels = 1 .. Last
  BY ActuationAssumption DEF Last
<1>2. /\ s.ThrustersNumber \in 0 .. 12 /\ s.HandFreedom \in 0 .. 4
      /\ s.HandCoefficientArray \in [Hands -> -100 .. 100]
      /\ s.ThrustersNumber + s.HandFreedom <= Last
  BY ActuationAssumption DEF Last
<1>3. ASSUME IsHandChannel(i, s)
      PROVE  Last + 1 - i \in Hands /\ ~ (i <= s.ThrustersNumber)
  <2>1. PICK k \in 1 .. s.HandFreedom : i = Last + 1 - k
    BY <1>3 DEF IsHandChannel, HandChannel, Last
  <2> DEFINE t == s.ThrustersNumber
             h == s.HandFreedom
  <2>2. t \in Nat /\ h \in 0 .. 4 /\ t + h <= Last /\ k \in 1 .. h
    BY <1>2
  <2> HIDE DEF t, h
  <2>3. Last + 1 - i = k /\ k \in 1 .. 4 /\ ~ (i <= t)
    BY <1>1, <2>1, <2>2
  <2> QED
    BY <2>3 DEF Hands, t
<1>4. 1 .. s.ThrustersNumber \subseteq Channels
  <2> DEFINE t == s.ThrustersNumber
             h == s.HandFreedom
  <2>1. t \in Nat /\ h \in Nat /\ t + h <= Last
    BY <1>2
  <2> HIDE DEF t, h
  <2>2. 1 .. t \subseteq 1 .. Last
    BY <1>1, <2>1
  <2> QED
    BY <1>1, <2>2 DEF t
<1> QED
  BY <1>2, <1>3, <1>4

(* The PWM of a channel that is not the hand's, and of one that is. *)
LEMMA PWMIs ==
  ASSUME NEW s \in Settings, NEW c \in Commands, NEW w \in Thrusts, NEW i \in Channels
  PROVE  LET k == Last + 1 - i
         IN  PWM(WithHand(w, s, c))[i] =
               IF IsHandChannel(i, s)
               THEN 1000 + Ceil(10 * (c.Hand[k] * s.HandCoefficientArray[k]), Unit)
               ELSE 1000 + Ceil(10 * w.num[i], w.den)
<1> DEFINE k == Last + 1 - i
           value == c.Hand[k] * s.HandCoefficientArray[k]
           u == WithHand(w, s, c)
<1>1. /\ w.num \in [Channels -> Int] /\ w.den \in Nat \ {0} /\ Unit \in Nat \ {0}
      /\ c.Hand \in [Hands -> Int]
  BY ActuationAssumption DEF Thrusts, Denominators
<1>2. u.den = w.den * Unit
  BY DEF WithHand
<1>3. u.num[i] = IF IsHandChannel(i, s) THEN value * w.den ELSE w.num[i] * Unit
  BY DEF WithHand, IsHandChannel, Last
<1>4. w.den * Unit \in Nat \ {0} /\ w.den * Unit = Unit * w.den
  BY <1>1
<1>5. PWM(u)[i] = Ceil((u.num[i] + 100 * u.den) * 10, u.den)
  BY DEF PWM
<1> HIDE DEF u
<1>6. CASE IsHandChannel(i, s)
  <2>1. k \in Hands /\ s.HandCoefficientArray \in [Hands -> Int]
    BY <1>6, HandChannels
  <2>2. c.Hand[k] \in Int /\ s.HandCoefficientArray[k] \in Int
    BY <1>1, <2>1
  <2>3. \A x, y \in Int : x * y \in Int
    OBVIOUS
  <2>4. value \in Int
    BY <2>2, <2>3
  <2>5. u.num[i] = value * w.den
    BY <1>3, <1>6
  <2> HIDE DEF value
  <2>6. (value * w.den + 100 * (w.den * Unit)) * 10 = (10 * value + 1000 * Unit) * w.den
    BY <1>1, <2>4
  <2>7. PWM(u)[i] = Ceil((10 * value + 1000 * Unit) * w.den, Unit * w.den)
    BY <1>2, <1>4, <1>5, <2>5, <2>6
  <2>8. 10 * value + 1000 * Unit \in Int /\ 10 * value \in Int
    BY <1>1, <2>4
  <2>9. Ceil((10 * value + 1000 * Unit) * w.den, Unit * w.den) = Ceil(10 * value + 1000 * Unit, Unit)
    <3> DEFINE y == 10 * value + 1000 * Unit
    <3>1. y \in Int
      BY <2>8
    <3> HIDE DEF y
    <3>2. Ceil(y * w.den, Unit * w.den) = Ceil(y, Unit)
      BY <1>1, <3>1, CeilOfMultiple
    <3> QED
      BY <3>2 DEF y
  <2>10. Ceil(10 * value + 1000 * Unit, Unit) = 1000 + Ceil(10 * value, Unit)
    BY <1>1, <2>8, CeilOfSum
  <2> QED
    BY <1>6, <2>7, <2>9, <2>10 DEF value, u
<1>7. CASE ~ IsHandChannel(i, s)
  <2> DEFINE x == w.num[i]
  <2>1. x \in Int
    BY <1>1
  <2>2. u.num[i] = x * Unit
    BY <1>3, <1>7
  <2> HIDE DEF x
  <2>3. (x * Unit + 100 * (w.den * Unit)) * 10 = (10 * x + 1000 * w.den) * Unit
    BY <1>1, <2>1
  <2>4. PWM(u)[i] = Ceil((10 * x + 1000 * w.den) * Unit, w.den * Unit)
    BY <1>2, <1>5, <2>2, <2>3
  <2>5. 10 * x + 1000 * w.den \in Int /\ 10 * x \in Int
    BY <1>1, <2>1
  <2>6. Ceil((10 * x + 1000 * w.den) * Unit, w.den * Unit) = Ceil(10 * x + 1000 * w.den, w.den)
    <3> DEFINE y == 10 * x + 1000 * w.den
    <3>1. y \in Int
      BY <2>5
    <3> HIDE DEF y
    <3>2. Ceil(y * Unit, w.den * Unit) = Ceil(y, w.den)
      BY <1>1, <3>1, CeilOfMultiple
    <3> QED
      BY <3>2 DEF y
  <2>7. Ceil(10 * x + 1000 * w.den, w.den) = 1000 + Ceil(10 * x, w.den)
    <3> DEFINE y == 10 * x
               d == w.den
    <3>1. y \in Int /\ d \in Nat \ {0} /\ 1000 \in Int
      BY <1>1, <2>5
    <3> HIDE DEF y, d
    <3>2. Ceil(y + 1000 * d, d) = 1000 + Ceil(y, d)
      BY <3>1, CeilOfSum
    <3> QED
      BY <3>2 DEF y, d
  <2> QED
    BY <1>7, <2>4, <2>6, <2>7 DEF x, u
<1> QED
  BY <1>6, <1>7

----------------------------------------------------------------------------
(***************************************************************************)
(* The invariant.                                                          *)
(***************************************************************************)

(* A cycle has its inputs until it sleeps. *)
InputsInv == stage \in {"gathered", "sent"} =>
  commands \in Commands /\ settings \in Settings /\ rotation \in Rotations

(* And what it has sent is what they demand: nothing of the channels above *)
(* ThrustersNumber, the rest normalized, with the hand's values in it.     *)
SentInv == stage = "sent" =>
  /\ demand \in Thrusts
  /\ \A i \in Channels : i > settings.ThrustersNumber => demand.num[i] = 0
  /\ motors = PWM(WithHand(Normalize(demand, 100), settings, commands))
  /\ commands.Stabilization => errors = Errors(commands.StabilizationTarget, rotation)

ActuationInv == TypeOK /\ InputsInv /\ SentInv

(* No cycle has begun. *)
LEMMA InitInv == Init => ActuationInv
BY DEF Init, ActuationInv, TypeOK, InputsInv, SentInv

(* Sending keeps the invariant, whatever move is sent. *)
LEMMA SendKeepsInv ==
  ASSUME ActuationInv, stage = "gathered", NEW move \in Moves, Send(move),
         errors' # None => errors' \in [Angles -> -180 .. 180],
         commands.Stabilization => errors' = Errors(commands.StabilizationTarget, rotation)
  PROVE  ActuationInv'
<1>1. /\ commands \in Commands /\ settings \in Settings /\ rotation \in Rotations
      /\ commands' = commands /\ settings' = settings /\ rotation' = rotation
  BY DEF ActuationInv, InputsInv, Send, inputs
<1>2. /\ demand' = Product(settings.ThrustersCoefficientArray, move) /\ stage' = "sent"
      /\ motors' = PWM(WithHand(Normalize(demand', 100), settings, commands))
  BY DEF Send
<1>3. demand' \in Thrusts /\ \A i \in Channels : i > settings.ThrustersNumber => demand'.num[i] = 0
  BY <1>1, <1>2, ProductIsThrusts
<1>4. DOMAIN motors' = Channels
  BY <1>2 DEF PWM
<1>5. DOMAIN demand'.num = Channels /\ demand'.den > 0
  BY <1>3 DEF Thrusts, Denominators
<1>6. TypeOK'
  BY <1>1, <1>2, <1>4, <1>5 DEF TypeOK
<1>7. InputsInv'
  BY <1>1 DEF InputsInv
<1>8. SentInv'
  BY <1>1, <1>2, <1>3 DEF SentInv
<1> QED
  BY <1>6, <1>7, <1>8 DEF ActuationInv

(* What is left of a difference of angles on the circle. *)
Turn(x) == IF AbsValue(x) <= 180 THEN AbsValue(x) ELSE AbsValue(360 - AbsValue(x))

(* The distance of two angles, from their difference. *)
LEMMA DistanceIs ==
  ASSUME NEW a \in Int, NEW b \in Int, a - b \in -539 .. 539
  PROVE  Distance(a, b) = Turn(a - b)
<1> DEFINE d == (a - b) % 360
<1>1. d \in 0 .. 359
  OBVIOUS
<1>2. d = IF a - b >= 360 THEN a - b - 360
          ELSE IF a - b >= 0 THEN a - b
          ELSE IF a - b >= -360 THEN a - b + 360 ELSE a - b + 720
  OBVIOUS
<1> HIDE DEF d
<1>3. Distance(a, b) = Min({d, 360 - d})
  BY DEF Distance, d
<1>4. Min({d, 360 - d}) = IF d <= 360 - d THEN d ELSE 360 - d
  BY <1>1, MinOfTwo
<1>5. Distance(a, b) = IF d <= 180 THEN d ELSE 360 - d
  BY <1>1, <1>3, <1>4
<1> QED
  BY <1>1, <1>2, <1>5 DEF AbsValue, Turn

(* What Calculate makes of the difference of two angles is their distance. *)
LEMMA WrappedIsDistance ==
  ASSUME NEW a \in -180 .. 360, NEW b \in 0 .. 359
  PROVE  WrapError(a - b) \in -180 .. 180 /\ AbsValue(WrapError(a - b)) = Distance(a, b)
<1>1. WrapError(a - b) \in -180 .. 180
  BY DEF WrapError
<1>2. a \in Int /\ b \in Int /\ a - b \in -539 .. 539
  OBVIOUS
<1>3. Distance(a, b) = Turn(a - b)
  BY ONLY <1>2, DistanceIs
<1> QED
  <2> DEFINE x == a - b
  <2>1. x \in -539 .. 539
    BY <1>2
  <2> HIDE DEF x
  <2>2. AbsValue(WrapError(x)) = Turn(x)
    BY <2>1 DEF WrapError, AbsValue, Turn
  <2> QED
    BY ONLY <1>1, <1>3, <2>2 DEF x

(* The same for the pitch, whose quarters are counted differently. *)
LEMMA MeasuredIsDistance ==
  ASSUME NEW a \in -90 .. 90, NEW b \in (0 .. 90) \cup (270 .. 359)
  PROVE  a - MeasuredY(b) \in -180 .. 180 /\ AbsValue(a - MeasuredY(b)) = Distance(a, b)
<1>1. a - MeasuredY(b) \in -180 .. 180
  BY DEF MeasuredY
<1>2. a \in Int /\ b \in Int /\ a - b \in -539 .. 539
  OBVIOUS
<1>3. Distance(a, b) = Turn(a - b)
  BY ONLY <1>2, DistanceIs
<1> QED
  <2>1. AbsValue(a - MeasuredY(b)) = Turn(a - b)
    BY DEF MeasuredY, AbsValue, Turn
  <2> QED
    BY <1>1, <1>3, <2>1

(* So the errors are distances of at most half a turn. *)
LEMMA ErrorsAre ==
  ASSUME NEW c \in Commands, NEW r \in Rotations
  PROVE  LET t == c.StabilizationTarget
         IN  /\ Errors(t, r) \in [Angles -> -180 .. 180]
             /\ \A i \in Angles : AbsValue(Errors(t, r)[i]) = Distance(t[i], r[i])
<1> DEFINE t == c.StabilizationTarget
<1>1. r[1] \in 0 .. 359 /\ r[2] \in (0 .. 90) \cup (270 .. 359) /\ r[3] \in 0 .. 359
  BY AngleAssumption
<1>2. t[1] \in -180 .. 180 /\ t[2] \in -90 .. 90 /\ t[3] \in 0 .. 360
  BY AngleAssumption
<1> HIDE DEF t
<1>3. t[1] \in -180 .. 360 /\ t[3] \in -180 .. 360
  <2> DEFINE x == t[1]
             y == t[3]
  <2>1. x \in -180 .. 180 /\ y \in 0 .. 360
    BY <1>2
  <2> HIDE DEF x, y
  <2>2. x \in -180 .. 360 /\ y \in -180 .. 360
    BY ONLY <2>1
  <2> QED
    BY <2>2 DEF x, y
<1> DEFINE e1 == WrapError(t[1] - r[1])
           e2 == t[2] - MeasuredY(r[2])
           e3 == WrapError(t[3] - r[3])
<1>4. e1 \in -180 .. 180 /\ AbsValue(e1) = Distance(t[1], r[1])
  BY ONLY <1>1, <1>3, WrappedIsDistance, Zenon
<1>5. e2 \in -180 .. 180 /\ AbsValue(e2) = Distance(t[2], r[2])
  BY ONLY <1>1, <1>2, MeasuredIsDistance, Zenon
<1>6. e3 \in -180 .. 180 /\ AbsValue(e3) = Distance(t[3], r[3])
  BY ONLY <1>1, <1>3, WrappedIsDistance, Zenon
<1>7. Errors(t, r) = <<e1, e2, e3>>
  BY DEF Errors
<1> HIDE DEF e1, e2, e3
<1>8. <<e1, e2, e3>> \in [1 .. 3 -> -180 .. 180]
  BY ONLY <1>4, <1>5, <1>6
<1>9. \A i \in 1 .. 3 : AbsValue(<<e1, e2, e3>>[i]) = Distance(t[i], r[i])
  <2>1. \A i \in 1 .. 3 : i = 1 \/ i = 2 \/ i = 3
    OBVIOUS
  <2>2. <<e1, e2, e3>>[1] = e1 /\ <<e1, e2, e3>>[2] = e2 /\ <<e1, e2, e3>>[3] = e3
    OBVIOUS
  <2> QED
    BY <1>4, <1>5, <1>6, <2>1, <2>2
<1> QED
  BY <1>7, <1>8, <1>9 DEF Angles, t

(* Every action keeps the invariant. *)
LEMMA NextInv == ActuationInv /\ [Next]_vars => ActuationInv'
<1> SUFFICES ASSUME ActuationInv, [Next]_vars PROVE ActuationInv'
  OBVIOUS
<1>1. CASE Gather
  <2>1. TypeOK'
    BY <1>1 DEF Gather, ActuationInv, TypeOK
  <2> QED
    BY <1>1, <2>1 DEF Gather, ActuationInv, InputsInv, SentInv
<1>2. CASE Manual
  <2>1. commands \in Commands /\ Float(commands.Move) \in Moves
    BY <1>2, MovesOfPilot DEF Manual, ActuationInv, InputsInv
  <2>2. stage = "gathered" /\ ~ commands.Stabilization /\ Send(Float(commands.Move)) /\ errors' = errors
    BY <1>2 DEF Manual
  <2>3. errors # None => errors \in [Angles -> -180 .. 180]
    BY DEF ActuationInv, TypeOK
  <2> QED
    BY <2>1, <2>2, <2>3, SendKeepsInv
<1>3. ASSUME NEW force \in Forces, Stabilized(force) PROVE ActuationInv'
  <2> DEFINE move == Corrected(Float(commands.Move), Normalize(Float(force), 1))
  <2>1. commands \in Commands /\ rotation \in Rotations
    BY <1>3 DEF Stabilized, ActuationInv, InputsInv
  <2>2. move \in Moves
    BY <2>1, MovesOfPilot, CorrectionIsMove, CorrectedIsMove
  <2>3. stage = "gathered" /\ Send(move) /\ errors' = Errors(commands.StabilizationTarget, rotation)
    BY <1>3 DEF Stabilized
  <2>4. errors' \in [Angles -> -180 .. 180]
    BY <2>1, <2>3, ErrorsAre
  <2> HIDE DEF move
  <2> QED
    BY <2>2, <2>3, <2>4, SendKeepsInv
<1>4. CASE Sleep
  BY <1>4 DEF Sleep, ActuationInv, TypeOK, InputsInv, SentInv
<1>5. CASE UNCHANGED vars
  BY <1>5 DEF vars, inputs, ActuationInv, TypeOK, InputsInv, SentInv
<1> QED
  BY <1>1, <1>2, <1>3, <1>4, <1>5 DEF Next

(* So it holds always. *)
LEMMA Invariance == Spec => []ActuationInv
BY InitInv, NextInv, PTL DEF Spec

(* Actuation::TypeOK: the body of the cycle computes with values of the    *)
(* ranges it is written for.                                               *)
THEOREM TypeCorrect == Spec => []TypeOK
<1>1. ActuationInv => TypeOK
  BY DEF ActuationInv
<1> QED
  BY <1>1, Invariance, PTL

(* Actuation::ErrorIsDistance: the regulators are given the distance of    *)
(* target and sample on the circle, for each angle a pilot may ask for and *)
(* each a filter may leave.                                                *)
THEOREM ErrorsAreDistances == Spec => []ErrorIsDistance
<1>1. ActuationInv => ErrorIsDistance
  BY ErrorsAre DEF ActuationInv, InputsInv, SentInv, ErrorIsDistance
<1> QED
  BY <1>1, Invariance, PTL

(* What a thruster is sent, once it is normalized. *)
LEMMA ThrustersAre ==
  ASSUME ActuationInv, stage = "sent", NEW i \in Thrusters
  PROVE  LET w == Normalize(demand, 100)
         IN  i \in Channels /\ motors[i] = 1000 + Ceil(10 * w.num[i], w.den)
<1> DEFINE w == Normalize(demand, 100)
<1>1. /\ settings \in Settings /\ commands \in Commands /\ demand \in Thrusts
      /\ motors = PWM(WithHand(w, settings, commands))
  BY DEF ActuationInv, InputsInv, SentInv
<1>2. i \in Channels
  <2>1. 1 \in Channels
    BY ActuationAssumption
  <2> QED
    BY <1>1, <2>1, HandChannels DEF Thrusters
<1>3. w \in Thrusts
  BY <1>1, Normalized
<1>4. i <= settings.ThrustersNumber
  BY <1>1, <1>2, HandChannels DEF Thrusters
<1>5. ~ IsHandChannel(i, settings)
  BY <1>1, <1>2, <1>4, HandChannels
<1> HIDE DEF w
<1>6. motors[i] = 1000 + Ceil(10 * w.num[i], w.den)
  BY <1>1, <1>2, <1>3, <1>5, PWMIs
<1> QED
  BY <1>2, <1>6 DEF w

(* Actuation::PWMInRange: no channel is sent a value outside [0; 2000],    *)
(* whatever is asked of the thrusters, as long as the hand's stick is      *)
(* within its range.                                                       *)
THEOREM PWMIsInRange == Spec => []PWMInRange
<1>1. ActuationInv => PWMInRange
  <2> SUFFICES ASSUME ActuationInv, stage = "sent",
                      \A k \in Hands : AbsValue(commands.Hand[k]) <= Unit,
                      NEW i \in Channels
               PROVE  motors[i] \in 0 .. 2000
    BY DEF PWMInRange
  <2> DEFINE w == Normalize(demand, 100)
             k == Last + 1 - i
  <2>1. /\ settings \in Settings /\ commands \in Commands /\ demand \in Thrusts
        /\ motors = PWM(WithHand(w, settings, commands))
    BY DEF ActuationInv, InputsInv, SentInv
  <2>2. /\ w \in Thrusts
        /\ -(100 * w.den) <= w.num[i] /\ w.num[i] <= 100 * w.den
    BY <2>1, Normalized
  <2> HIDE DEF w
  <2>3. CASE ~ IsHandChannel(i, settings)
    <3> DEFINE x == w.num[i]
               d == w.den
    <3>1. x \in Int /\ d \in Nat \ {0} /\ -(100 * d) <= x /\ x <= 100 * d
      BY <2>2 DEF Thrusts, Denominators
    <3>2. motors[i] = 1000 + Ceil(10 * x, d)
      BY <2>1, <2>2, <2>3, PWMIs
    <3> HIDE DEF x, d
    <3> DEFINE y == 10 * x
    <3>3. y \in Int /\ d * (-1000) <= y /\ y <= d * 1000
      BY <3>1
    <3> HIDE DEF y
    <3>4. Ceil(y, d) \in Int /\ -1000 <= Ceil(y, d) /\ Ceil(y, d) <= 1000
      BY <3>1, <3>3, CeilBounds, CeilInRange
    <3>5. \A z \in Int : -1000 <= z /\ z <= 1000 => 1000 + z \in 0 .. 2000
      OBVIOUS
    <3>6. motors[i] = 1000 + Ceil(y, d)
      BY <3>2 DEF y
    <3> QED
      BY <3>4, <3>5, <3>6
  <2>4. CASE IsHandChannel(i, settings)
    <3> DEFINE hand == commands.Hand[k]
               factor == settings.HandCoefficientArray[k]
    <3>1. motors[i] = 1000 + Ceil(10 * (hand * factor), Unit)
      BY <2>1, <2>2, <2>4, PWMIs
    <3>2. k \in Hands
      BY <2>1, <2>4, HandChannels
    <3>3. commands.Hand \in [Hands -> Int] /\ Unit \in Nat \ {0}
      BY <2>1, ActuationAssumption
    <3>4. settings.HandCoefficientArray \in [Hands -> -100 .. 100]
      BY <2>1, HandChannels
    <3>5. hand \in Int /\ factor \in -100 .. 100 /\ AbsValue(hand) <= Unit
      BY <3>2, <3>3, <3>4
    <3> HIDE DEF hand, factor
    <3>6. -Unit <= hand /\ hand <= Unit
      BY <3>3, <3>5 DEF AbsValue
    <3>7. hand * factor \in Int /\ -(100 * Unit) <= hand * factor /\ hand * factor <= 100 * Unit
      BY ONLY <3>3, <3>5, <3>6, Scaled
    <3> DEFINE x == 10 * (hand * factor)
    <3>8. x \in Int /\ Unit * (-1000) <= x /\ x <= Unit * 1000
      BY <3>3, <3>7
    <3>9. motors[i] = 1000 + Ceil(x, Unit)
      BY <3>1
    <3> HIDE DEF x
    <3>10. Ceil(x, Unit) \in Int /\ -1000 <= Ceil(x, Unit) /\ Ceil(x, Unit) <= 1000
      BY <3>3, <3>8, CeilBounds, CeilInRange
    <3>11. 1000 + Ceil(x, Unit) \in 0 .. 2000
      BY ONLY <3>10
    <3> QED
      BY ONLY <3>9, <3>11
  <2> QED
    BY <2>3, <2>4
<1> QED
  BY <1>1, Invariance, PTL

(* Rounding two values up that are in the ratio of two others turns the    *)
(* ratio by no more than a unit of each.                                   *)
LEMMA RatioKept ==
  ASSUME NEW x \in Int, NEW y \in Int, NEW d \in Nat \ {0}, NEW factor \in Int
  PROVE  LET cx == Ceil(factor * x, d)
             cy == Ceil(factor * y, d)
         IN  AbsValue(cx * y - cy * x) <= AbsValue(x) + AbsValue(y)
<1> DEFINE cx == Ceil(factor * x, d)
           cy == Ceil(factor * y, d)
           ex == d * cx - factor * x
           ey == d * cy - factor * y
<1>1. factor * x \in Int /\ factor * y \in Int
  OBVIOUS
<1>2. /\ cx \in Int /\ d * (cx - 1) < factor * x /\ factor * x <= d * cx
      /\ cy \in Int /\ d * (cy - 1) < factor * y /\ factor * y <= d * cy
  BY <1>1, CeilBounds
<1> HIDE DEF cx, cy
<1>3. d * (cx - 1) = d * cx - d /\ d * (cy - 1) = d * cy - d
  BY <1>2
<1>4. d * cx \in Int /\ d * cy \in Int
  BY <1>2
<1>5. ex \in 0 .. d - 1 /\ ey \in 0 .. d - 1
  BY <1>1, <1>2, <1>3, <1>4
<1>6. d * cx = factor * x + ex /\ d * cy = factor * y + ey
  BY <1>1, <1>4
<1> HIDE DEF ex, ey
<1>7. d * (cx * y - cy * x) = ex * y - ey * x
  <2>1. d * (cx * y) = (d * cx) * y /\ d * (cy * x) = (d * cy) * x
    BY <1>2
  <2>2. (d * cx) * y = (factor * x + ex) * y /\ (d * cy) * x = (factor * y + ey) * x
    BY <1>6
  <2>3. (factor * x + ex) * y = (factor * x) * y + ex * y
    BY <1>1, <1>5
  <2>4. (factor * y + ey) * x = (factor * y) * x + ey * x
    BY <1>1, <1>5
  <2>5. (factor * x) * y = (factor * y) * x
    OBVIOUS
  <2>6. d * (cx * y - cy * x) = d * (cx * y) - d * (cy * x)
    BY <1>2
  <2>7. ex * y \in Int /\ ey * x \in Int /\ (factor * y) * x \in Int
    BY <1>5
  <2>8. d * (cx * y) = (factor * y) * x + ex * y
    BY <2>1, <2>2, <2>3, <2>5
  <2>9. d * (cy * x) = (factor * y) * x + ey * x
    BY <2>1, <2>2, <2>4
  <2> QED
    BY <2>6, <2>7, <2>8, <2>9
<1> DEFINE ax == AbsValue(x)
           ay == AbsValue(y)
           turn == cx * y - cy * x
<1>8. ax \in Nat /\ ay \in Nat /\ -ax <= x /\ x <= ax /\ -ay <= y /\ y <= ay
  BY DEF AbsValue
<1>9. turn \in Int
  BY <1>2
<1> HIDE DEF ax, ay, turn
<1>10. -(d * ay) <= ex * y /\ ex * y <= d * ay /\ -(d * ax) <= ey * x /\ ey * x <= d * ax
  <2>1. \A e \in 0 .. d - 1, z \in Int, a \in Nat :
          -a <= z /\ z <= a => -(d * a) <= e * z /\ e * z <= d * a
    <3> TAKE e \in 0 .. d - 1, z \in Int, a \in Nat
    <3> HAVE -a <= z /\ z <= a
    <3>1. e * z <= e * a /\ -(e * a) <= e * z
      OBVIOUS
    <3>2. e * a <= d * a
      OBVIOUS
    <3>3. e * z \in Int /\ e * a \in Int /\ d * a \in Int
      OBVIOUS
    <3> QED
      BY <3>1, <3>2, <3>3
  <2> QED
    BY <1>5, <1>8, <2>1
<1>11. d * (ax + ay) = d * ax + d * ay /\ d * (-(ax + ay)) = -(d * ax) - d * ay
  BY <1>8
<1>12. d * turn <= d * (ax + ay) /\ d * (-(ax + ay)) <= d * turn
  <2>1. d * turn = ex * y - ey * x
    BY <1>7 DEF turn
  <2>2. ex * y \in Int /\ ey * x \in Int /\ d * ax \in Int /\ d * ay \in Int
    BY <1>5, <1>8
  <2> QED
    BY <1>10, <1>11, <2>1, <2>2
<1>13. turn <= ax + ay /\ -(ax + ay) <= turn
  BY <1>8, <1>9, <1>12, Cancel
<1>14. AbsValue(turn) <= ax + ay
  BY <1>8, <1>9, <1>13 DEF AbsValue
<1> QED
  BY <1>14 DEF ax, ay, turn, cx, cy

(* Actuation::DirectionKept: what two thrusters are sent stands in the     *)
(* ratio that was asked for, up to a unit of each.                         *)
THEOREM DirectionIsKept == Spec => []DirectionKept
<1>1. ActuationInv => DirectionKept
  <2> SUFFICES ASSUME ActuationInv, stage = "sent", NEW i \in Thrusters, NEW j \in Thrusters
               PROVE  AbsValue((motors[i] - 1000) * demand.num[j] - (motors[j] - 1000) * demand.num[i])
                        <= AbsValue(demand.num[i]) + AbsValue(demand.num[j])
    BY DEF DirectionKept
  <2> DEFINE w == Normalize(demand, 100)
             x == demand.num[i]
             y == demand.num[j]
             d == w.den
             most == Largest(demand.num)
  <2>1. demand \in Thrusts
    BY DEF ActuationInv, SentInv
  <2>2. /\ i \in Channels /\ motors[i] = 1000 + Ceil(10 * w.num[i], d)
        /\ j \in Channels /\ motors[j] = 1000 + Ceil(10 * w.num[j], d)
    BY ThrustersAre
  <2>3. /\ w \in Thrusts
        /\ most <= 100 * demand.den => w = demand
        /\ most > 100 * demand.den => \A n \in Channels : w.num[n] = demand.num[n] * 100
    BY <2>1, Normalized
  <2>4. most \in Nat /\ demand.den \in Nat
    BY <2>1, LargestThrust DEF Thrusts, Denominators
  <2>5. x \in Int /\ y \in Int /\ d \in Nat \ {0}
    BY <2>1, <2>2, <2>3 DEF Thrusts, Denominators
  <2>6. PICK factor \in Int : w.num[i] * 10 = factor * x /\ w.num[j] * 10 = factor * y
    <3>1. CASE most <= 100 * demand.den
      <4>1. w.num[i] = x /\ w.num[j] = y
        BY <2>3, <3>1
      <4> QED
        BY <2>5, <4>1
    <3>2. CASE most > 100 * demand.den
      <4>1. w.num[i] = x * 100 /\ w.num[j] = y * 100
        BY <2>2, <2>3, <3>2
      <4> HIDE DEF w, x, y
      <4>2. (x * 100) * 10 = 1000 * x /\ (y * 100) * 10 = 1000 * y
        BY <2>5
      <4> QED
        BY <4>1, <4>2
    <3> QED
      BY <2>4, <3>1, <3>2
  <2>7. w.num[i] \in Int /\ w.num[j] \in Int
    BY <2>2, <2>3 DEF Thrusts
  <2> HIDE DEF x, y, d, w, most
  <2> DEFINE cx == Ceil(factor * x, d)
             cy == Ceil(factor * y, d)
  <2>8. cx \in Int /\ cy \in Int
    <3>1. factor * x \in Int /\ factor * y \in Int
      BY <2>5
    <3> QED
      BY <2>5, <3>1, CeilBounds
  <2>9. AbsValue(cx * y - cy * x) <= AbsValue(x) + AbsValue(y)
    BY <2>5, RatioKept
  <2>10. 10 * w.num[i] = factor * x /\ 10 * w.num[j] = factor * y
    BY <2>6, <2>7
  <2>11. motors[i] = 1000 + cx /\ motors[j] = 1000 + cy
    BY <2>2, <2>10
  <2> HIDE DEF cx, cy
  <2>12. motors[i] - 1000 = cx /\ motors[j] - 1000 = cy
    BY <2>8, <2>11
  <2> QED
    BY <2>9, <2>12 DEF x, y
<1> QED
  BY <1>1, Invariance, PTL

(* Actuation::DemandMet: a thrust that can be given is; else the thruster  *)
(* that is asked for most gives all it can.                                *)
THEOREM DemandIsMet == Spec => []DemandMet
<1>1. ActuationInv => DemandMet
  <2> SUFFICES ASSUME ActuationInv, stage = "sent", settings.ThrustersNumber > 0
               PROVE  LET most == Max({AbsValue(demand.num[i]) : i \in Thrusters})
                      IN  IF most <= 100 * demand.den
                          THEN \A i \in Thrusters :
                                 motors[i] = 1000 + Ceil(10 * demand.num[i], demand.den)
                          ELSE \E i \in Thrusters : motors[i] \in {0, 2000}
    BY DEF DemandMet
  <2> DEFINE w == Normalize(demand, 100)
             largest == Largest(demand.num)
             most == Max({AbsValue(demand.num[i]) : i \in Thrusters})
             value(i) == demand.num[i]
  <2>1. /\ demand \in Thrusts /\ settings \in Settings
        /\ \A i \in Channels : i > settings.ThrustersNumber => value(i) = 0
    BY DEF ActuationInv, InputsInv, SentInv
  <2>2. /\ settings.ThrustersNumber \in Nat \ {0} /\ Thrusters = 1 .. settings.ThrustersNumber
        /\ Thrusters \subseteq Channels /\ Channels \subseteq Nat
    <3>1. 1 \in Channels /\ Channels \subseteq Nat
      BY ActuationAssumption
    <3>2. settings.ThrustersNumber \in 0 .. 12 /\ 1 .. settings.ThrustersNumber \subseteq Channels
      BY <2>1, <3>1, HandChannels
    <3> QED
      BY <3>1, <3>2 DEF Thrusters
  <2>3. \A i \in Channels : value(i) \in Int
    BY <2>1 DEF Thrusts
  <2>4. /\ most \in Nat
        /\ \E i \in Thrusters : most = AbsValue(value(i))
        /\ \A i \in Thrusters : AbsValue(value(i)) <= most
    <3> DEFINE n == settings.ThrustersNumber
               f == demand.num
               m == Max({AbsValue(f[i]) : i \in 1 .. n})
    <3>1. n \in Nat \ {0} /\ \A i \in 1 .. n : f[i] \in Int
      BY <2>2, <2>3
    <3>2. most = m /\ 1 .. n = Thrusters
      BY <2>2
    <3> HIDE DEF n, f
    <3>3. m \in Nat /\ (\E i \in 1 .. n : m = AbsValue(f[i])) /\ \A i \in 1 .. n : AbsValue(f[i]) <= m
      BY <3>1, LargestIs
    <3> HIDE DEF m, most
    <3> QED
      BY <3>2, <3>3 DEF f
  <2>5. /\ largest \in Nat
        /\ \E i \in Channels : largest = AbsValue(value(i))
        /\ \A i \in Channels : AbsValue(value(i)) <= largest
    BY <2>1, LargestThrust
  <2>6. /\ largest <= 100 * demand.den => w = demand
        /\ largest > 100 * demand.den =>
             largest > 0 /\ w.den = largest /\ \A i \in Channels : w.num[i] = value(i) * 100
    BY <2>1, Normalized
  <2>7. demand.den \in Nat \ {0}
    BY <2>1 DEF Thrusts, Denominators
  <2> HIDE DEF w, largest, most, value
  <2>8. largest = most
    <3>1. most <= largest
      BY <2>2, <2>4, <2>5
    <3>2. PICK i \in Channels : largest = AbsValue(value(i))
      BY <2>5
    <3>3. i \in Thrusters \/ value(i) = 0
      <4>1. i \in Nat /\ i >= 1
        BY <2>2, ActuationAssumption
      <4>2. CASE i > settings.ThrustersNumber
        BY <2>1, <4>2
      <4>3. CASE ~ (i > settings.ThrustersNumber)
        BY <2>2, <4>1, <4>3
      <4> QED
        BY <4>2, <4>3
    <3>4. largest <= most
      BY <2>4, <3>2, <3>3 DEF AbsValue
    <3> QED
      BY <2>4, <2>5, <3>1, <3>4
  <2>9. \A i \in Thrusters : motors[i] = 1000 + Ceil(10 * w.num[i], w.den)
    BY ThrustersAre DEF w
  <2>10. CASE most <= 100 * demand.den
    <3>1. w = demand
      BY <2>6, <2>8, <2>10
    <3>2. \A i \in Thrusters : motors[i] = 1000 + Ceil(10 * demand.num[i], demand.den)
      BY <2>9, <3>1
    <3> QED
      BY <2>10, <3>2 DEF most
  <2>11. CASE ~ (most <= 100 * demand.den)
    <3>1. PICK i \in Thrusters : most = AbsValue(value(i))
      BY <2>4
    <3>2. i \in Channels /\ value(i) \in Int
      BY <2>2, <2>3
    <3>3. largest > 100 * demand.den
      BY <2>4, <2>7, <2>8, <2>11
    <3>4. most \in Nat \ {0} /\ w.den = most /\ w.num[i] = value(i) * 100
      BY <2>4, <2>6, <2>8, <3>2, <3>3
    <3>5. motors[i] = 1000 + Ceil(10 * (value(i) * 100), most)
      BY <2>9, <3>4
    <3> DEFINE c == IF value(i) < 0 THEN -1000 ELSE 1000
               z == 10 * (value(i) * 100)
    <3>6. value(i) = most \/ value(i) = -most
      BY <3>1, <3>2 DEF AbsValue
    <3>7. c \in Int /\ z \in Int /\ z = most * c
      BY <3>2, <3>4, <3>6
    <3>8. most * (c - 1) < z
      BY <3>4, <3>7
    <3>9. 1000 + c \in {0, 2000}
      OBVIOUS
    <3>10. motors[i] = 1000 + Ceil(z, most)
      BY <3>5
    <3> HIDE DEF c, z
    <3>11. z <= most * c
      BY <3>7
    <3>12. Ceil(z, most) = c
      BY <3>4, <3>7, <3>8, <3>11, CeilUnique
    <3>13. motors[i] \in {0, 2000}
      BY <3>9, <3>10, <3>12
    <3> QED
      BY <2>11, <3>13 DEF most
  <2> QED
    BY <2>10, <2>11
<1> QED
  BY <1>1, Invariance, PTL
=============================================================================
