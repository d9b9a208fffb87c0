--------------------------- MODULE Sensors_proofs ---------------------------
(***************************************************************************)
(* Theorems about the snapshots of Sensors, for every number of readers,   *)
(* every length of the filters and whatever is measured.                   *)
(***************************************************************************)
EXTENDS Sensors, Induction

(* What SetData has got to: each field of a Data comes from the last       *)
(* sample, or from the one before it while SetData has not got there.      *)
PublishedInv ==
  \A d \in Devices :
    /\ setting # d => dataMutex_[d] # "thread" /\ data_[d][2] = taken[d]
    /\ setting = d => data_[d][2] = taken[d] - 1
    /\ data_[d][1] = IF dataMutex_[d] = "thread" THEN taken[d] ELSE data_[d][2]

(* A reader is inside GetData of the sensor whose mutex it holds. *)
HolderInv ==
  \A r \in Readers, d \in Devices :
    dataMutex_[d] = r <=> reading[r] = d /\ Len(copy[r]) = 1

(* What a reader has copied, as far as it has come. *)
Copied(r) ==
  /\ Len(copy[r]) \in 0 .. 2
  /\ reading[r] = None => copy[r] = <<>>
  /\ reading[r] # None => newest[r] <= data_[reading[r]][2]
  /\ Len(copy[r]) = 1 => copy[r][1] = data_[reading[r]][2]
  /\ Len(copy[r]) = 2 =>
       copy[r][1] = copy[r][2] /\ copy[r][1] \in newest[r] .. taken[reading[r]]

CopyInv == \A r \in Readers : Copied(r)

SnapshotInv == TypeOK /\ PublishedInv /\ HolderInv /\ CopyInv

(* A filter's index stays within its ring, whatever the filter was. *)
LEMMA StoredIndex ==
  \A f, v : f.index \in 0 .. Size => Stored(f, v).index \in 0 .. Size
BY FiltersAssumption DEF Stored

(* A calibration is either verified or not. *)
LEMMA VerifiedIsBoolean == \A words : Verified(words) \in BOOLEAN
BY DEF Verified

(* The types hold at the start. *)
LEMMA TypeInit == Init => TypeOK
<1> SUFFICES ASSUME Init PROVE TypeOK
  OBVIOUS
<1>1. \A d \in Devices : filters_[d].index \in 0 .. Size /\ 0 <= Len(measures[d])
  BY FiltersAssumption, SensorsAssumption DEF Init, NewFilter, Devices
<1>2. DOMAIN filters_ = Devices
  BY DEF Init, Devices
<1>3. data_ \in [Devices -> [1 .. 2 -> Nat]] /\ taken \in [Devices -> Nat]
  BY DEF Init
<1>4. reading \in [Readers -> Devices \cup {None}] /\ copy \in [Readers -> Seq(Nat)]
  BY DEF Init
<1>5. \A d \in Devices : taken[d] = 0
  BY DEF Init
<1> QED
  BY <1>1, <1>2, <1>3, <1>4, <1>5 DEF Init, TypeOK

(* No step changes a type. *)
LEMMA TypeKept == ASSUME TypeOK, [Next]_vars PROVE TypeOK'
<1> USE DEF TypeOK, measureVars, setVars, readVars
<1>1. CASE ReadProm
  <2>1. verified' \in BOOLEAN /\ prom' \in {"nothing", "intact", "errors"}
    <3>1. PICK e \in Errors : /\ prom' = IF e = {} THEN "intact" ELSE "errors"
                             /\ verified' = Verified(WithErrors(Factory, e))
      BY <1>1 DEF ReadProm, PromReadings
    <3> QED
      BY <3>1, VerifiedIsBoolean
  <2> QED
    BY <1>1, <2>1 DEF ReadProm
<1>2. ASSUME NEW d \in Devices, Measure(d) PROVE TypeOK'
  <2>1. \A e \in Devices : filters_'[e].index \in 0 .. Size
    BY <1>2, StoredIndex DEF Measure, MovingAverage, CircleMovingAverage
  <2>2. taken' \in [Devices -> Nat] /\ \A e \in Devices : taken'[e] <= Len(measures[e])
    <3>1. \A e \in Devices : Len(measures[e]) \in Nat
      BY SensorsAssumption DEF Devices
    <3> QED
      BY <1>2, <3>1 DEF Measure
  <2> QED
    BY <1>2, <2>1, <2>2 DEF Measure
<1>3. ASSUME NEW d \in Devices, SetDataBegins(d) PROVE TypeOK'
  BY <1>3 DEF SetDataBegins, Locked
<1>4. ASSUME NEW d \in Devices, SetDataEnds(d) PROVE TypeOK'
  BY <1>4 DEF SetDataEnds, Unlocked
<1>5. ASSUME NEW r \in Readers, GetSensorsStruct(r) PROVE TypeOK'
  <2>1. ASSUME NEW d \in Devices, Asks(r, d) PROVE TypeOK'
    BY <2>1 DEF Asks
  <2> QED
    BY <1>5, <2>1 DEF GetSensorsStruct, Devices
<1>6. ASSUME NEW r \in Readers, NEW d \in Devices, GetDataBegins(r, d) PROVE TypeOK'
  BY <1>6 DEF GetDataBegins, Locked
<1>7. ASSUME NEW r \in Readers, NEW d \in Devices, GetDataEnds(r, d) PROVE TypeOK'
  <2>1. dataMutex_' \in [Devices -> Readers \cup {"thread", None}]
    BY <1>7 DEF GetDataEnds, Unlocked
  <2>2. copy' \in [Readers -> Seq(Nat)]
    <3>1. Append(copy[r], data_[d][2]) \in Seq(Nat)
      BY <1>7
    <3> QED
      BY <1>7, <3>1 DEF GetDataEnds
  <2> QED
    BY <1>7, <2>1, <2>2 DEF GetDataEnds
<1>8. ASSUME NEW r \in Readers, Returned(r) PROVE TypeOK'
  BY <1>8 DEF Returned
<1>9. CASE UNCHANGED vars
  BY <1>9 DEF vars
<1> QED
  BY <1>1, <1>2, <1>3, <1>4, <1>5, <1>6, <1>7, <1>8, <1>9 DEF Next

(* Every variable of the snapshots keeps its type, and every filter its    *)
(* index within the ring.                                                  *)
THEOREM TypeCorrect == Spec => []TypeOK
<1>1. Init => TypeOK
  BY TypeInit
<1>2. TypeOK /\ [Next]_vars => TypeOK'
  BY TypeKept
<1> QED
  BY <1>1, <1>2, PTL DEF Spec

(* Whoever is between the two halves of a copy holds the mutex of that     *)
(* sensor, so that no step of another disturbs the copy.                   *)
LEMMA SnapshotKept == ASSUME SnapshotInv, [Next]_vars PROVE SnapshotInv'
<1> USE SensorsAssumption DEF SnapshotInv, measureVars, setVars, readVars
<1>1. TypeOK'
  BY TypeKept
<1> SUFFICES PublishedInv' /\ HolderInv' /\ CopyInv'
  BY <1>1
<1>2. CASE ReadProm
  BY <1>2 DEF ReadProm, PublishedInv, HolderInv, CopyInv, Copied
<1>3. ASSUME NEW d \in Devices, Measure(d)
      PROVE  PublishedInv' /\ HolderInv' /\ CopyInv'
  <2>1. PublishedInv'
    <3>1. setting # d /\ setting' = d /\ taken'[d] - 1 = taken[d]
      BY <1>3 DEF Measure, Devices, TypeOK
    <3>2. \A e \in Devices \ {d} : taken'[e] = taken[e] /\ setting' # e /\ setting # e
      BY <1>3 DEF Measure, Devices, TypeOK
    <3> QED
      BY <1>3, <3>1, <3>2 DEF Measure, PublishedInv
  <2>2. HolderInv'
    BY <1>3 DEF Measure, HolderInv
  <2>3. CopyInv'
    BY <1>3 DEF Measure, CopyInv, Copied, TypeOK
  <2> QED
    BY <2>1, <2>2, <2>3
<1>4. ASSUME NEW d \in Devices, SetDataBegins(d)
      PROVE  PublishedInv' /\ HolderInv' /\ CopyInv'
  <2>1. PublishedInv'
    BY <1>4 DEF SetDataBegins, Locked, PublishedInv, TypeOK
  <2>2. HolderInv'
    BY <1>4 DEF SetDataBegins, Locked, HolderInv, TypeOK
  <2>3. CopyInv'
    BY <1>4 DEF SetDataBegins, CopyInv, Copied, TypeOK
  <2> QED
    BY <2>1, <2>2, <2>3
<1>5. ASSUME NEW d \in Devices, SetDataEnds(d)
      PROVE  PublishedInv' /\ HolderInv' /\ CopyInv'
  <2>1. dataMutex_[d] = "thread" /\ data_[d][2] = taken[d] - 1
    BY <1>5 DEF SetDataEnds, PublishedInv, TypeOK
  <2>2. PublishedInv'
    <3>1. setting' = None /\ dataMutex_'[d] = None /\ taken' = taken
      BY <1>5 DEF SetDataEnds, Unlocked, TypeOK
    <3>2. data_'[d][1] = taken[d] /\ data_'[d][2] = taken[d]
      BY <1>5 DEF SetDataEnds, TypeOK
    <3>3. \A e \in Devices \ {d} : /\ dataMutex_'[e] = dataMutex_[e] /\ data_'[e] = data_[e]
                                 /\ setting # e
      BY <1>5 DEF SetDataEnds, Unlocked, TypeOK
    <3> QED
      BY <3>1, <3>2, <3>3 DEF PublishedInv, Devices
  <2>3. HolderInv'
    BY <1>5, <2>1 DEF SetDataEnds, Unlocked, HolderInv, TypeOK
  <2>4. \A r \in Readers : reading[r] = d => Len(copy[r]) # 1
    BY <2>1 DEF HolderInv, TypeOK
  <2>5. CopyInv'
    BY <1>5, <2>1, <2>4 DEF SetDataEnds, CopyInv, Copied, TypeOK
  <2> QED
    BY <2>2, <2>3, <2>5
<1>6. ASSUME NEW r \in Readers, GetSensorsStruct(r)
      PROVE  PublishedInv' /\ HolderInv' /\ CopyInv'
  <2>1. PICK d \in Devices : Asks(r, d) /\ Len(copy[r]) # 1
    BY <1>6 DEF GetSensorsStruct, Devices, CopyInv, Copied
  <2>2. PublishedInv'
    BY <2>1 DEF Asks, PublishedInv
  <2>3. HolderInv'
    BY <2>1 DEF Asks, HolderInv, TypeOK
  <2>4. /\ reading'[r] = d /\ copy'[r] = <<>> /\ newest'[r] = data_[d][2]
        /\ data_[d][2] \in Nat /\ data_' = data_ /\ taken' = taken
    BY <2>1 DEF Asks, TypeOK
  <2>5. \A q \in Readers \ {r} :
          copy'[q] = copy[q] /\ reading'[q] = reading[q] /\ newest'[q] = newest[q]
    BY <2>1 DEF Asks, TypeOK
  <2>6. CopyInv'
    BY <2>4, <2>5 DEF CopyInv, Copied, Devices
  <2> QED
    BY <2>2, <2>3, <2>6
<1>7. ASSUME NEW r \in Readers, NEW d \in Devices, GetDataBegins(r, d)
      PROVE  PublishedInv' /\ HolderInv' /\ CopyInv'
  <2>1. PublishedInv'
    BY <1>7 DEF GetDataBegins, Locked, PublishedInv, TypeOK
  <2>2. HolderInv'
    BY <1>7 DEF GetDataBegins, Locked, HolderInv, TypeOK
  <2>3. data_[d][1] = data_[d][2]
    BY <1>7 DEF GetDataBegins, Locked, PublishedInv
  <2>4. /\ reading[r] = d /\ copy'[r] = <<data_[d][1]>> /\ Len(copy'[r]) = 1
        /\ reading' = reading /\ newest' = newest /\ data_' = data_ /\ taken' = taken
    BY <1>7 DEF GetDataBegins, TypeOK
  <2>5. \A q \in Readers \ {r} : copy'[q] = copy[q]
    BY <1>7 DEF GetDataBegins, TypeOK
  <2>6. CopyInv'
    <3>1. \A q \in Readers \ {r} : Copied(q)'
      BY <2>4, <2>5 DEF CopyInv, Copied
    <3>2. copy'[r][1] = data_[d][2] /\ d # None
      BY <2>3, <2>4 DEF Devices
    <3>3. Copied(r)'
      BY <2>4, <3>2 DEF CopyInv, Copied
    <3> QED
      BY <3>1, <3>3 DEF CopyInv
  <2> QED
    BY <2>1, <2>2, <2>6
<1>8. ASSUME NEW r \in Readers, NEW d \in Devices, GetDataEnds(r, d)
      PROVE  PublishedInv' /\ HolderInv' /\ CopyInv'
  <2>1. /\ reading[r] = d /\ Len(copy[r]) = 1 /\ copy[r] \in Seq(Nat)
        /\ copy'[r] = Append(copy[r], data_[d][2]) /\ data_[d][2] \in Nat
        /\ dataMutex_'[d] = None
        /\ reading' = reading /\ newest' = newest /\ data_' = data_ /\ taken' = taken
    BY <1>8 DEF GetDataEnds, Unlocked, TypeOK
  <2>2. /\ \A q \in Readers \ {r} : copy'[q] = copy[q]
        /\ \A e \in Devices \ {d} : dataMutex_'[e] = dataMutex_[e]
    BY <1>8 DEF GetDataEnds, Unlocked, TypeOK
  <2>3. Len(copy'[r]) = 2 /\ copy'[r][1] = copy[r][1] /\ copy'[r][2] = data_[d][2]
    BY <2>1
  <2>4. dataMutex_[d] = r
    BY <2>1 DEF HolderInv
  <2>5. PublishedInv'
    BY <1>8, <2>4 DEF GetDataEnds, Unlocked, PublishedInv, TypeOK
  <2>6. HolderInv'
    BY <2>1, <2>2, <2>3, <2>4 DEF HolderInv
  <2>7. d # None /\ data_[d][2] <= taken[d] /\ taken[d] \in Nat /\ newest[r] \in Nat
    BY DEF PublishedInv, TypeOK, Devices
  <2>8. newest[r] <= data_[d][2] /\ copy[r][1] = data_[d][2]
    BY <2>1, <2>7 DEF CopyInv, Copied
  <2>9. CopyInv'
    <3>1. \A q \in Readers \ {r} : Copied(q)'
      BY <2>1, <2>2 DEF CopyInv, Copied
    <3>2. Copied(r)'
      BY <2>1, <2>3, <2>7, <2>8 DEF Copied
    <3> QED
      BY <3>1, <3>2 DEF CopyInv
  <2> QED
    BY <2>5, <2>6, <2>9
<1>9. ASSUME NEW r \in Readers, Returned(r)
      PROVE  PublishedInv' /\ HolderInv' /\ CopyInv'
  <2>1. PublishedInv'
    BY <1>9 DEF Returned, PublishedInv
  <2>2. HolderInv'
    <3>1. /\ reading'[r] = None /\ Len(copy[r]) = 2 /\ dataMutex_' = dataMutex_
          /\ \A q \in Readers \ {r} : reading'[q] = reading[q] /\ copy'[q] = copy[q]
      BY <1>9 DEF Returned, TypeOK
    <3>2. None \notin Devices
      BY DEF Devices
    <3>3. \A d \in Devices : dataMutex_'[d] # r /\ reading'[r] # d
      <4>1. Len(copy[r]) # 1
        BY <3>1
      <4>2. \A d \in Devices : dataMutex_[d] # r
        BY <4>1 DEF HolderInv
      <4> QED
        BY <3>1, <3>2, <4>2
    <3>4. \A q \in Readers \ {r}, d \in Devices :
            dataMutex_'[d] = q <=> reading'[q] = d /\ Len(copy'[q]) = 1
      BY <3>1 DEF HolderInv
    <3> QED
      BY <3>3, <3>4 DEF HolderInv
  <2>3. CopyInv'
    BY <1>9 DEF Returned, CopyInv, Copied, TypeOK
  <2> QED
    BY <2>1, <2>2, <2>3
<1>10. CASE UNCHANGED vars
  BY <1>10 DEF vars, PublishedInv, HolderInv, CopyInv, Copied
<1> QED
  BY <1>2, <1>3, <1>4, <1>5, <1>6, <1>7, <1>8, <1>9, <1>10 DEF Next

(* Each half of a snapshot is one whole sample, none older than what was   *)
(* published when it was asked for.                                        *)
THEOREM SnapshotsAreCurrent == Spec => []SnapshotIsCurrent
<1>1. Init => SnapshotInv
  <2> SUFFICES ASSUME Init PROVE SnapshotInv
    OBVIOUS
  <2>1. TypeOK
    BY TypeInit
  <2>2. PublishedInv
    BY SensorsAssumption DEF Init, PublishedInv, Devices
  <2>3. HolderInv /\ CopyInv
    BY SensorsAssumption DEF Init, HolderInv, CopyInv, Copied
  <2> QED
    BY <2>1, <2>2, <2>3 DEF SnapshotInv
<1>2. SnapshotInv /\ [Next]_vars => SnapshotInv'
  BY SnapshotKept
<1>3. SnapshotInv => SnapshotIsCurrent
  BY DEF SnapshotInv, CopyInv, Copied, SnapshotIsCurrent
<1> QED
  BY <1>1, <1>2, <1>3, PTL DEF Spec

----------------------------------------------------------------------------
(***************************************************************************)
(* The filters.  After n samples s[1] .. s[n] the ring of a filter has the *)
(* last of them just before its index, and the others before that, round   *)
(* its end.                                                                *)
(***************************************************************************)

Back(index, k) == IF k <= index THEN index - k ELSE index - k + Size

Ring(f, n, s) ==
  /\ f.elements = [i \in 0 .. Size - 1 |-> f.elements[i]]
  /\ f.index \in 0 .. Size /\ (n > 0 => f.index > 0)
  /\ \A k \in 1 .. Size : k <= n => f.elements[Back(f.index, k)] = s[n + 1 - k]

(* A filter as it is made has no sample. *)
LEMMA RingOfNew ==
  ASSUME NEW zero, NEW s
  PROVE  Ring(NewFilter(zero), 0, s)
<1>1. Size \in Nat \ {0} /\ ~ (0 > 0) /\ \A k \in 1 .. Size : ~ (k <= 0)
  BY FiltersAssumption
<1> QED
  BY <1>1 DEF Ring, NewFilter

(* Filter stores one sample more, over the oldest. *)
LEMMA RingStored ==
  ASSUME NEW f, NEW n \in Nat, NEW s, Ring(f, n, s)
  PROVE  Ring(Stored(f, s[n + 1]), n + 1, s)
<1> DEFINE x == f.index
           i == IF x = Size THEN 0 ELSE x
           e == f.elements
           e1 == [e EXCEPT ![i] = s[n + 1]]
           g == Stored(f, s[n + 1])
<1>1. Size \in Nat \ {0} /\ x \in 0 .. Size /\ (n > 0 => x > 0)
  BY FiltersAssumption DEF Ring
<1>2. \A k \in 1 .. Size : k <= n => e[Back(x, k)] = s[n + 1 - k]
  BY DEF Ring
<1>3. e = [j \in 0 .. Size - 1 |-> e[j]]
  BY DEF Ring
<1>4. g = [elements |-> e1, index |-> i + 1]
  BY DEF Stored
<1> HIDE DEF x, e, g
<1>5. i \in 0 .. Size - 1
  BY <1>1
<1>6. /\ e1 = [j \in 0 .. Size - 1 |-> e1[j]] /\ e1[i] = s[n + 1]
      /\ \A j \in 0 .. Size - 1 : j # i => e1[j] = e[j]
  BY <1>3, <1>5
<1> HIDE DEF e1
<1>7. ASSUME NEW k \in 1 .. Size, k <= n + 1
      PROVE  e1[Back(i + 1, k)] = s[(n + 1) + 1 - k]
  <2>1. CASE k = 1
    <3>1. Back(i + 1, k) = i /\ (n + 1) + 1 - k = n + 1
      BY <1>5, <2>1 DEF Back
    <3> QED
      BY <1>6, <3>1
  <2>2. CASE k # 1
    <3>1. k - 1 \in 1 .. Size /\ k - 1 <= n /\ n + 1 - (k - 1) = (n + 1) + 1 - k
      BY <1>1, <1>7, <2>2
    <3>2. e[Back(x, k - 1)] = s[(n + 1) + 1 - k]
      BY <1>2, <3>1
    <3>3. Back(i + 1, k) = Back(x, k - 1)
      BY <1>1, <2>2 DEF Back
    <3>4. Back(x, k - 1) \in 0 .. Size - 1 /\ Back(x, k - 1) # i
      BY <1>1, <1>7, <2>2 DEF Back
    <3> QED
      BY <1>6, <3>2, <3>3, <3>4
  <2> QED
    BY <2>1, <2>2
<1>8. i + 1 \in 0 .. Size /\ i + 1 > 0
  BY <1>1, <1>5
<1> HIDE DEF i
<1>9. g.elements = e1 /\ g.index = i + 1
  BY <1>4
<1>10. Ring(g, n + 1, s)
  BY ONLY <1>6, <1>7, <1>8, <1>9 DEF Ring
<1> QED
  BY <1>10 DEF g

(* A ring as old as it is long holds nothing but its last samples. *)
LEMMA RingOfSame ==
  ASSUME NEW f, NEW n \in Nat, NEW s, Ring(f, n, s), n >= Size,
         \A k \in 1 .. Size : s[n + 1 - k] = s[n]
  PROVE  DOMAIN f.elements = 0 .. Size - 1 /\ \A i \in 0 .. Size - 1 : f.elements[i] = s[n]
<1> DEFINE x == f.index
           v == s[n]
<1>1. Size \in Nat \ {0} /\ x \in 0 .. Size
  BY FiltersAssumption DEF Ring
<1>2. \A k \in 1 .. Size : f.elements[Back(x, k)] = v
  <2>1. \A k \in 1 .. Size : k <= n
    BY <1>1
  <2> QED
    BY <2>1 DEF Ring
<1> HIDE DEF x
<1>3. ASSUME NEW j \in 0 .. Size - 1
      PROVE  f.elements[j] = v
  <2> DEFINE k == IF j < x THEN x - j ELSE x - j + Size
  <2>1. k \in 1 .. Size /\ Back(x, k) = j
    BY <1>1 DEF Back
  <2> QED
    BY <1>2, <2>1
<1> QED
  BY <1>3 DEF Ring

(* The sum of what is the same everywhere, by induction on the index. *)
LEMMA TotalOfSame ==
  ASSUME NEW v \in Int, NEW g, \A i \in 0 .. Size - 1 : g[i] = v
  PROVE  Total(g) = Size * v
<1> DEFINE Sum(f) == [n \in 0 .. Size |-> IF n = 0 THEN 0 ELSE f[n - 1] + g[n - 1]]
           sum == CHOOSE f : f = Sum(f)
           multiple == [n \in 0 .. Size |-> n * v]
<1>1. Size \in Nat \ {0}
  BY FiltersAssumption
<1>2. Total(g) = sum[Size]
  BY DEF Total
<1>3. multiple = Sum(multiple)
  <2>1. \A n \in 0 .. Size : n # 0 => n - 1 \in 0 .. Size - 1 /\ (n - 1) * v + v = n * v
    BY <1>1
  <2>2. 0 * v = 0
    OBVIOUS
  <2>3. \A n \in 0 .. Size : multiple[n] = IF n = 0 THEN 0 ELSE multiple[n - 1] + g[n - 1]
    <3> SUFFICES ASSUME NEW n \in 0 .. Size, n # 0
                 PROVE  multiple[n] = multiple[n - 1] + g[n - 1]
      BY <2>2
    <3>1. n - 1 \in 0 .. Size /\ g[n - 1] = v
      BY <1>1, <2>1
    <3> QED
      BY <2>1, <3>1
  <2> QED
    BY <2>3
<1>4. sum = Sum(sum)
  BY <1>3
<1> HIDE DEF sum
<1> DEFINE P == {n \in Nat : n \in 0 .. Size => sum[n] = n * v}
<1>5. 0 \in P
  <2>1. sum[0] = 0 /\ 0 * v = 0
    BY <1>1, <1>4
  <2> QED
    BY <2>1
<1>6. \A n \in Nat : n \in P => n + 1 \in P
  <2> SUFFICES ASSUME NEW n \in Nat, n \in P, n + 1 \in 0 .. Size
               PROVE  sum[n + 1] = (n + 1) * v
    OBVIOUS
  <2>1. n \in 0 .. Size - 1
    BY <1>1
  <2>2. sum[n] = n * v /\ g[n] = v
    BY <1>1, <2>1
  <2>3. sum[n + 1] = sum[n] + g[n]
    <3>1. (n + 1) - 1 = n /\ n + 1 # 0
      OBVIOUS
    <3> QED
      BY <1>4, <3>1
  <2>4. n * v + v = (n + 1) * v
    OBVIOUS
  <2> QED
    BY <2>2, <2>3, <2>4
<1>7. Size \in P
  BY <1>1, <1>5, <1>6, NaturalsFrom
<1> QED
  BY <1>1, <1>2, <1>7

(* What the filter of a sensor has been given. *)
Given(d) ==
  [i \in 1 .. Len(measures[d]) |->
     IF d = "bno055_" THEN <<Cos(measures[d][i]), Sin(measures[d][i])>> ELSE measures[d][i]]

RingInv == \A d \in Devices : Ring(filters_[d], taken[d], Given(d))

FilterInv == TypeOK /\ RingInv

(* Every sample passes its filter, and nothing else does. *)
LEMMA FilterKept == ASSUME FilterInv, [Next]_vars PROVE FilterInv'
<1>1. TypeOK /\ TypeOK' /\ RingInv
  BY TypeKept DEF FilterInv
<1>2. ASSUME NEW d \in Devices, Measure(d)
      PROVE  RingInv'
  <2> DEFINE n == taken[d]
             v == measures[d][n + 1]
  <2>1. /\ measures' = measures /\ n \in Nat /\ n + 1 \in 1 .. Len(measures[d])
        /\ taken' = [taken EXCEPT ![d] = n + 1]
    <3>1. taken \in [Devices -> Nat] /\ Len(measures[d]) \in Nat
      BY SensorsAssumption DEF FilterInv, TypeOK, Devices
    <3> QED
      BY <1>2, <3>1 DEF Measure
  <2>2. /\ DOMAIN filters_ = Devices
        /\ filters_' = [filters_ EXCEPT ![d] = IF d = "bno055_" THEN CircleMovingAverage(@, v)
                                               ELSE MovingAverage(@, v)]
    <3>1. taken'[d] = n + 1
      BY <1>1, <2>1 DEF TypeOK
    <3> QED
      BY <1>1, <1>2, <3>1 DEF Measure, TypeOK
  <2>3. filters_'[d] = Stored(filters_[d], Given(d)[n + 1])
    <3>1. Given(d)[n + 1] = IF d = "bno055_" THEN <<Cos(v), Sin(v)>> ELSE v
      BY <2>1 DEF Given
    <3> QED
      BY <2>2, <3>1 DEF CircleMovingAverage, MovingAverage
  <2>4. \A e \in Devices : Given(e)' = Given(e)
    BY <2>1 DEF Given
  <2>5. taken'[d] = n + 1 /\ \A e \in Devices \ {d} : taken'[e] = taken[e] /\ filters_'[e] = filters_[e]
    BY <1>1, <2>1, <2>2 DEF TypeOK
  <2>6. Ring(filters_[d], n, Given(d))
    BY <1>1 DEF RingInv
  <2> HIDE DEF n, v
  <2>7. Ring(filters_'[d], taken'[d], Given(d)')
    BY <2>1, <2>3, <2>4, <2>5, <2>6, RingStored
  <2>8. \A e \in Devices \ {d} : Ring(filters_'[e], taken'[e], Given(e)')
    BY <1>1, <2>4, <2>5 DEF RingInv
  <2>9. \A e \in Devices : Ring(filters_'[e], taken'[e], Given(e)')
    BY <2>7, <2>8
  <2> QED
    BY <2>9 DEF RingInv
<1>3. ASSUME UNCHANGED <<measures, filters_, taken>>
      PROVE  RingInv'
  BY <1>1, <1>3 DEF RingInv, Given, Ring, Back
<1>4. (\E d \in Devices : Measure(d)) \/ UNCHANGED <<measures, filters_, taken>>
  BY DEF Next, vars, measureVars, ReadProm, SetDataBegins, SetDataEnds, GetDataBegins, GetDataEnds,
         GetSensorsStruct, Asks, Returned
<1> QED
  BY <1>1, <1>2, <1>3, <1>4 DEF FilterInv

(* A steady sensor has given its filter the same all along. *)
LEMMA SteadyGives ==
  ASSUME FilterInv, NEW d \in Devices, Steady(d)
  PROVE  LET v == Given(d)[taken[d]]
         IN  /\ taken[d] \in 1 .. Len(measures[d])
             /\ DOMAIN filters_[d].elements = 0 .. Size - 1
             /\ \A i \in 0 .. Size - 1 : filters_[d].elements[i] = v
<1> DEFINE n == taken[d]
           m == measures[d]
           v == Given(d)[n]
<1>1. /\ Size \in Nat \ {0} /\ n \in Nat /\ n <= Len(m) /\ Len(m) \in Nat
      /\ Ring(filters_[d], n, Given(d))
  BY FiltersAssumption, SensorsAssumption DEF FilterInv, TypeOK, RingInv, Devices
<1>2. \E S : m \in Seq(S)
  BY SensorsAssumption DEF FilterInv, TypeOK, Devices
<1>3. n >= Size /\ \A i, j \in 1 .. Size : SubSeq(m, n - Size + 1, n)[i] = SubSeq(m, n - Size + 1, n)[j]
  BY DEF Steady, Last
<1> HIDE DEF n, m
<1>4. \A i \in 1 .. Size : SubSeq(m, n - Size + 1, n)[i] = m[n - Size + i]
  <2> SUFFICES ASSUME NEW i \in 1 .. Size
               PROVE  SubSeq(m, n - Size + 1, n)[i] = m[n - Size + i]
    OBVIOUS
  <2>1. PICK S : m \in Seq(S)
    BY <1>2
  <2>2. n - Size + 1 \in 1 .. Len(m) + 1 /\ n \in 0 .. Len(m) /\ i \in 1 .. n - (n - Size + 1) + 1
    BY <1>1, <1>3
  <2>3. n - Size + 1 + i - 1 = n - Size + i
    BY <1>1
  <2> QED
    BY <1>1, <1>3, <2>1, <2>2, <2>3
<1>5. ASSUME NEW k \in 1 .. Size
      PROVE  Given(d)[n + 1 - k] = v
  <2>1. Size + 1 - k \in 1 .. Size /\ n - Size + (Size + 1 - k) = n + 1 - k /\ n - Size + Size = n
        /\ Size \in 1 .. Size
    BY <1>1
  <2>2. m[n + 1 - k] = m[n]
    BY <1>3, <1>4, <2>1
  <2>3. n + 1 - k \in 1 .. Len(m) /\ n \in 1 .. Len(m)
    BY <1>1, <1>3
  <2> QED
    BY <2>2, <2>3 DEF Given, m
<1> HIDE DEF v
<1>6. DOMAIN filters_[d].elements = 0 .. Size - 1 /\ \A i \in 0 .. Size - 1 : filters_[d].elements[i] = v
  <2> DEFINE f == filters_[d]
             s == Given(d)
  <2>1. Ring(f, n, s) /\ n \in Nat /\ n >= Size /\ \A k \in 1 .. Size : s[n + 1 - k] = s[n]
    BY <1>1, <1>3, <1>5 DEF v
  <2> HIDE DEF f, s
  <2>2. DOMAIN f.elements = 0 .. Size - 1 /\ \A i \in 0 .. Size - 1 : f.elements[i] = s[n]
    BY <2>1, RingOfSame
  <2> QED
    BY <2>2 DEF f, s, v
<1>7. n \in 1 .. Len(m)
  BY <1>1, <1>3
<1> QED
  BY <1>6, <1>7 DEF n, m, v

(* Sensors::FiltersSettle: a filter of any length returns what its sensor  *)
(* has measured as often as the filter is long, whatever came before.      *)
THEOREM FiltersForget == Spec => []FiltersSettle
<1>1. Init => FilterInv
  <2> SUFFICES ASSUME Init PROVE FilterInv
    OBVIOUS
  <2>1. TypeOK
    BY TypeInit
  <2>2. \A d \in Devices : taken[d] = 0 /\ \E zero : filters_[d] = NewFilter(zero)
    BY DEF Init, Devices
  <2>3. RingInv
    BY <2>2, RingOfNew DEF RingInv
  <2> QED
    BY <2>1, <2>3 DEF FilterInv
<1>2. FilterInv /\ [Next]_vars => FilterInv'
  BY FilterKept
<1>3. FilterInv => FiltersSettle
  <2> SUFFICES ASSUME FilterInv PROVE FiltersSettle
    OBVIOUS
  <2> DEFINE Domain == 0 .. Size - 1
  <2>1. ASSUME Steady("ms5837_")
        PROVE  Average(filters_.ms5837_) = Size * measures.ms5837_[taken.ms5837_]
    <3> DEFINE v == measures.ms5837_[taken.ms5837_]
    <3>1. /\ taken["ms5837_"] \in 1 .. Len(measures["ms5837_"])
          /\ DOMAIN filters_["ms5837_"].elements = Domain
          /\ \A i \in Domain : filters_["ms5837_"].elements[i] = Given("ms5837_")[taken["ms5837_"]]
      BY <2>1, SteadyGives DEF Devices
    <3>2. Given("ms5837_")[taken["ms5837_"]] = v
      BY <3>1 DEF Given
    <3>3. measures.ms5837_ \in Seq(Nat)
      BY SensorsAssumption DEF FilterInv, TypeOK
    <3>4. v \in Int
      BY <3>1, <3>3
    <3> HIDE DEF v
    <3> DEFINE g == filters_.ms5837_.elements
    <3>5. \A i \in Domain : g[i] = v
      BY <3>1, <3>2
    <3> HIDE DEF g
    <3>6. Total(g) = Size * v
      BY <3>4, <3>5, TotalOfSame
    <3> QED
      BY <3>6 DEF Average, g, v
  <2>2. ASSUME Steady("bno055_")
        PROVE  LET a == measures.bno055_[taken.bno055_]
                   angle == Angle(filters_.bno055_)
               IN  /\ angle.cos = Size * Cos(a)
                   /\ angle.half = IF a = 0 THEN "none" ELSE IF Sin(a) > 0 THEN "first" ELSE "second"
    <3> DEFINE a == measures.bno055_[taken.bno055_]
               f == filters_.bno055_
               cosines == [i \in DOMAIN f.elements |-> f.elements[i][1]]
               sines == [i \in DOMAIN f.elements |-> f.elements[i][2]]
               angle == Angle(f)
    <3>1. /\ taken["bno055_"] \in 1 .. Len(measures["bno055_"])
          /\ DOMAIN f.elements = Domain
          /\ \A i \in Domain : f.elements[i] = Given("bno055_")[taken["bno055_"]]
      BY <2>2, SteadyGives DEF Devices
    <3>2. Given("bno055_")[taken["bno055_"]] = <<Cos(a), Sin(a)>>
      BY <3>1 DEF Given
    <3>3. measures.bno055_ \in Seq(Degrees)
      BY SensorsAssumption DEF FilterInv, TypeOK
    <3>4. a \in Degrees
      BY <3>1, <3>3
    <3> HIDE DEF a, f
    <3>5. Cos(a) \in Int /\ Sin(a) \in Int
      BY DEF Cos, Sin
    <3>6. Sin(a) = 0 <=> a = 0
      BY DEF Sin
    <3>7. a = 0 => Cos(a) = 2
      BY DEF Cos
    <3>8. \A i \in Domain : cosines[i] = Cos(a) /\ sines[i] = Sin(a)
      BY <3>1, <3>2
    <3>9. angle = IF Total(sines) > 0 THEN [half |-> "first", cos |-> Total(cosines)]
                  ELSE IF Total(sines) < 0 THEN [half |-> "second", cos |-> Total(cosines)]
                  ELSE [half |-> "none", cos |-> 2 * Size]
      BY DEF Angle
    <3> HIDE DEF cosines, sines
    <3>10. Total(cosines) = Size * Cos(a) /\ Total(sines) = Size * Sin(a)
      BY <3>5, <3>8, TotalOfSame
    <3> HIDE DEF angle
    <3> DEFINE s == Sin(a)
               c == Cos(a)
    <3>11. Size \in Nat \ {0}
      BY FiltersAssumption
    <3>12. /\ Size * s > 0 <=> s > 0
           /\ Size * s < 0 <=> s < 0
      <4>1. s \in Int
        BY <3>5
      <4> HIDE DEF s
      <4> QED
        BY <3>11, <4>1
    <3> HIDE DEF s, c
    <3>13. angle = IF s > 0 THEN [half |-> "first", cos |-> Size * c]
                   ELSE IF s < 0 THEN [half |-> "second", cos |-> Size * c]
                   ELSE [half |-> "none", cos |-> 2 * Size]
      BY <3>9, <3>10, <3>12 DEF s, c
    <3>14. s \in Int /\ (s = 0 <=> a = 0) /\ (a = 0 => Size * c = 2 * Size)
      BY <3>5, <3>6, <3>7, <3>11 DEF s, c
    <3>15. /\ angle.cos = Size * c
           /\ angle.half = IF a = 0 THEN "none" ELSE IF s > 0 THEN "first" ELSE "second"
      BY <3>13, <3>14
    <3> QED
      BY <3>15 DEF angle, a, f, s, c
  <2> QED
    BY <2>1, <2>2 DEF FiltersSettle
<1> QED
  BY <1>1, <1>2, <1>3, PTL DEF Spec

----------------------------------------------------------------------------
(***************************************************************************)
(* The checksum is linear: of two PROMs that are added bit by bit, it is   *)
(* the sum of theirs.  So whether it notices an error depends on the error *)
(* alone.                                                                  *)
(***************************************************************************)

Proms == [0 .. 7 -> SUBSET Bits]
XorWords(a, b) == [i \in 0 .. 7 |-> Xor(a[i], b[i])]

(* What is in a sum, and in a word that is shifted. *)
LEMMA InXor == \A a, b, x : x \in Xor(a, b) <=> ~ (x \in a <=> x \in b)
BY DEF Xor

(* A shift to the right moves every position down. *)
LEMMA InShiftRight ==
  ASSUME NEW w \in SUBSET Bits, NEW n \in 0 .. 15, NEW x
  PROVE  x \in ShiftRight(w, n) <=> x \in Bits /\ x + n \in w
<1>1. \A c \in w : c \in Int /\ 0 <= c /\ c <= 15
  BY DEF Bits
<1>2. ASSUME x \in ShiftRight(w, n)
      PROVE  x \in Bits /\ x + n \in w
  <2>1. PICK b \in {c \in w : c >= n} : x = b - n
    BY <1>2 DEF ShiftRight
  <2>2. b \in w /\ b \in Int /\ n <= b /\ b <= 15 /\ x + n = b /\ x \in 0 .. 15
    BY <1>1, <2>1
  <2> QED
    BY <2>2 DEF Bits
<1>3. ASSUME x \in Bits, x + n \in w
      PROVE  x \in ShiftRight(w, n)
  <2>1. x \in Int /\ x >= 0
    BY <1>3 DEF Bits
  <2>2. x + n >= n /\ (x + n) - n = x
    BY <2>1
  <2> QED
    BY <1>3, <2>2 DEF ShiftRight
<1> QED
  BY <1>2, <1>3

(* So a shift to the right is linear. *)
LEMMA ShiftRightLinear ==
  ASSUME NEW a \in SUBSET Bits, NEW b \in SUBSET Bits, NEW n \in 0 .. 15
  PROVE  /\ ShiftRight(a, n) \in SUBSET Bits
         /\ ShiftRight(Xor(a, b), n) = Xor(ShiftRight(a, n), ShiftRight(b, n))
<1> DEFINE s == Xor(a, b)
<1>1. s \in SUBSET Bits
  BY InXor
<1> HIDE DEF s
<1>2. \A x : x \in ShiftRight(s, n) <=> x \in Bits /\ x + n \in s
  BY <1>1, InShiftRight
<1>3. \A x : x \in ShiftRight(a, n) <=> x \in Bits /\ x + n \in a
  BY InShiftRight
<1>4. \A x : x \in ShiftRight(b, n) <=> x \in Bits /\ x + n \in b
  BY InShiftRight
<1>5. \A x : x \in s <=> ~ (x \in a <=> x \in b)
  BY InXor DEF s
<1>6. \A x : x \in ShiftRight(s, n) <=> x \in Xor(ShiftRight(a, n), ShiftRight(b, n))
  BY <1>2, <1>3, <1>4, <1>5, InXor
<1>7. ShiftRight(s, n) = Xor(ShiftRight(a, n), ShiftRight(b, n))
  BY <1>6
<1> QED
  BY <1>3, <1>7 DEF s

(* A shift to the left moves every position up, and loses what leaves the word. *)
LEMMA InShiftLeft ==
  ASSUME NEW w \in SUBSET Bits, NEW x
  PROVE  x \in ShiftLeft(w, 1) <=> x \in Bits /\ x - 1 \in w
<1>1. \A c \in w : c \in Int
  BY DEF Bits
<1>2. ASSUME x \in ShiftLeft(w, 1)
      PROVE  x \in Bits /\ x - 1 \in w
  <2>1. PICK b \in {c \in w : c + 1 \in Bits} : x = b + 1
    BY <1>2 DEF ShiftLeft
  <2>2. b \in w /\ b + 1 \in Bits /\ (b + 1) - 1 = b
    BY <1>1, <2>1
  <2> QED
    BY <2>1, <2>2
<1>3. ASSUME x \in Bits, x - 1 \in w
      PROVE  x \in ShiftLeft(w, 1)
  <2>1. (x - 1) + 1 = x
    BY <1>3 DEF Bits
  <2> QED
    BY <1>3, <2>1 DEF ShiftLeft
<1> QED
  BY <1>2, <1>3

(* One step of the division. *)
LEMMA DivideLinear ==
  ASSUME NEW a \in SUBSET Bits, NEW b \in SUBSET Bits
  PROVE  Divide(a) \in SUBSET Bits /\ Divide(Xor(a, b)) = Xor(Divide(a), Divide(b))
<1> DEFINE s == Xor(a, b)
<1>1. s \in SUBSET Bits
  BY InXor
<1>2. \A x : x \in ShiftLeft(a, 1) <=> x \in Bits /\ x - 1 \in a
  BY InShiftLeft
<1>3. \A x : x \in ShiftLeft(b, 1) <=> x \in Bits /\ x - 1 \in b
  BY InShiftLeft
<1> HIDE DEF s
<1>4. \A x : x \in ShiftLeft(s, 1) <=> x \in Bits /\ x - 1 \in s
  BY <1>1, InShiftLeft
<1>5. \A x : x \in s <=> ~ (x \in a <=> x \in b)
  BY InXor DEF s
<1>6. \A w, x : x \in Divide(w) <=> ~ (x \in ShiftLeft(w, 1) <=> (15 \in w /\ x \in {12, 13}))
  BY InXor DEF Divide
<1>7. \A x : x \in Divide(s) <=> ~ (x \in Divide(a) <=> x \in Divide(b))
  BY <1>2, <1>3, <1>4, <1>5, <1>6
<1>8. Divide(s) = Xor(Divide(a), Divide(b))
  BY <1>7, InXor
<1>9. Divide(a) \in SUBSET Bits
  <2>1. {12, 13} \subseteq Bits
    BY DEF Bits
  <2> QED
    BY <1>2, <1>6, <2>1
<1> QED
  BY <1>8, <1>9 DEF s

(* And eight of them. *)
LEMMA DivideByteLinear ==
  ASSUME NEW a \in SUBSET Bits, NEW b \in SUBSET Bits
  PROVE  DivideByte[a] \in SUBSET Bits /\ DivideByte[Xor(a, b)] = Xor(DivideByte[a], DivideByte[b])
<1>1. \A x, y \in SUBSET Bits :
        DivideTwice(x) \in SUBSET Bits /\ DivideTwice(Xor(x, y)) = Xor(DivideTwice(x), DivideTwice(y))
  <2> TAKE x, y \in SUBSET Bits
  <2>1. Divide(x) \in SUBSET Bits /\ Divide(y) \in SUBSET Bits /\ Divide(Xor(x, y)) = Xor(Divide(x), Divide(y))
    BY DivideLinear
  <2> QED
    BY <2>1, DivideLinear DEF DivideTwice
<1> DEFINE a1 == DivideTwice(a)
           b1 == DivideTwice(b)
           a2 == DivideTwice(a1)
           b2 == DivideTwice(b1)
           a3 == DivideTwice(a2)
           b3 == DivideTwice(b2)
<1>2. a1 \in SUBSET Bits /\ b1 \in SUBSET Bits /\ DivideTwice(Xor(a, b)) = Xor(a1, b1)
  BY <1>1
<1> HIDE DEF a1, b1
<1>3. a2 \in SUBSET Bits /\ b2 \in SUBSET Bits /\ DivideTwice(Xor(a1, b1)) = Xor(a2, b2)
  BY <1>1, <1>2
<1> HIDE DEF a2, b2
<1>4. a3 \in SUBSET Bits /\ b3 \in SUBSET Bits /\ DivideTwice(Xor(a2, b2)) = Xor(a3, b3)
  BY <1>1, <1>3
<1> HIDE DEF a3, b3
<1>5. DivideTwice(a3) \in SUBSET Bits /\ DivideTwice(Xor(a3, b3)) = Xor(DivideTwice(a3), DivideTwice(b3))
  BY <1>1, <1>4
<1>6. Xor(a, b) \in SUBSET Bits
  BY InXor
<1>7. /\ DivideByte[a] = DivideTwice(a3) /\ DivideByte[b] = DivideTwice(b3)
      /\ DivideByte[Xor(a, b)] = DivideTwice(Xor(a3, b3))
  BY <1>2, <1>3, <1>4, <1>6 DEF DivideByte, a1, a2, a3, b1, b2, b3
<1> QED
  BY <1>5, <1>7

(* The bytes that are divided. *)
LEMMA BytesLinear ==
  ASSUME NEW a \in Proms, NEW b \in Proms
  PROVE  /\ Masked(a) \in Proms /\ Masked(XorWords(a, b)) = XorWords(Masked(a), Masked(b))
         /\ \A i \in 0 .. 15 :
              Byte(a, i) \in SUBSET Bits /\ Byte(XorWords(a, b), i) = Xor(Byte(a, i), Byte(b, i))
<1>1. XorWords(a, b) \in Proms
  BY InXor DEF Proms, XorWords
<1>2. Masked(a) \in Proms /\ Masked(b) \in Proms /\ Masked(XorWords(a, b)) \in Proms
  BY <1>1 DEF Masked, Proms
<1>3. Masked(XorWords(a, b)) = XorWords(Masked(a), Masked(b))
  <2>1. ASSUME NEW i \in 0 .. 7
        PROVE  Masked(XorWords(a, b))[i] = Xor(Masked(a)[i], Masked(b)[i])
    <3>1. \A w \in Proms :
            Masked(w)[i] = IF i = 7 THEN {} ELSE IF i = 0 THEN w[i] \ {12, 13, 14, 15} ELSE w[i]
      BY DEF Masked, Proms
    <3>2. XorWords(a, b)[i] = Xor(a[i], b[i])
      BY DEF XorWords
    <3> DEFINE high == {12, 13, 14, 15}
               p == a[i]
               q == b[i]
    <3>3. CASE i = 7
      <4>1. Xor({}, {}) = {}
        BY DEF Xor
      <4> QED
        BY <1>1, <3>1, <3>3, <4>1
    <3>4. CASE i = 0
      <4>1. Xor(p, q) \ high = Xor(p \ high, q \ high)
        BY DEF Xor
      <4>2. i # 7
        BY <3>4
      <4> QED
        BY <1>1, <3>1, <3>2, <3>4, <4>1, <4>2
    <3>5. CASE i # 7 /\ i # 0
      BY <1>1, <3>1, <3>2, <3>5
    <3> QED
      BY <3>3, <3>4, <3>5
  <2> QED
    BY <1>2, <2>1 DEF XorWords, Proms
<1>4. ASSUME NEW i \in 0 .. 15
      PROVE  Byte(a, i) \in SUBSET Bits /\ Byte(XorWords(a, b), i) = Xor(Byte(a, i), Byte(b, i))
  <2> DEFINE k == i \div 2
  <2>1. k \in 0 .. 7
    OBVIOUS
  <2>2. a[k] \in SUBSET Bits /\ b[k] \in SUBSET Bits /\ XorWords(a, b)[k] = Xor(a[k], b[k])
    BY <2>1 DEF Proms, XorWords
  <2>3. XorWords(a, b)[k] \in SUBSET Bits
    BY <1>1, <2>1 DEF Proms
  <2> HIDE DEF k
  <2>4. CASE i % 2 = 1
    <3>1. \A w : Byte(w, i) = {x \in w[k] : x < 8}
      BY <2>4 DEF Byte, k
    <3> DEFINE p == a[k]
               q == b[k]
    <3>2. {x \in Xor(p, q) : x < 8} = Xor({x \in p : x < 8}, {x \in q : x < 8})
      BY DEF Xor
    <3>3. {x \in p : x < 8} \in SUBSET Bits
      BY <2>2
    <3> QED
      BY <2>2, <3>1, <3>2, <3>3
  <2>5. CASE i % 2 # 1
    <3>1. \A w : Byte(w, i) = ShiftRight(w[k], 8)
      BY <2>5 DEF Byte, k
    <3> QED
      BY <2>2, <3>1, ShiftRightLinear
  <2> QED
    BY <2>4, <2>5
<1> QED
  BY <1>2, <1>3, <1>4

(* The remainders after each byte, and that there are any. *)
Remainders(m) ==
  CHOOSE r : r = [i \in 0 .. 16 |-> IF i = 0 THEN {} ELSE DivideByte[Xor(r[i - 1], Byte(m, i - 1))]]

(* Each is the division of the one before it with the next byte. *)
LEMMA RemaindersAre ==
  ASSUME NEW m
  PROVE  /\ Remainders(m)[0] = {}
         /\ \A i \in 0 .. 15 : Remainders(m)[i + 1] = DivideByte[Xor(Remainders(m)[i], Byte(m, i))]
<1> DEFINE Value(r, i) == IF i = 0 THEN {} ELSE DivideByte[Xor(r[i - 1], Byte(m, i - 1))]
           P == {k \in Nat : \E r : \A i \in 0 .. k : r[i] = Value(r, i)}
<1>1. 0 \in P
  <2> DEFINE r == [i \in 0 .. 0 |-> {}]
  <2>1. \A i \in 0 .. 0 : r[i] = Value(r, i)
    OBVIOUS
  <2> QED
    BY <2>1
<1>2. ASSUME NEW k \in Nat, k \in P
      PROVE  k + 1 \in P
  <2>1. PICK r : \A i \in 0 .. k : r[i] = Value(r, i)
    BY <1>2
  <2> DEFINE q == [i \in 0 .. k + 1 |-> IF i = k + 1 THEN DivideByte[Xor(r[k], Byte(m, k))] ELSE r[i]]
  <2>2. ASSUME NEW i \in 0 .. k + 1
        PROVE  q[i] = Value(q, i)
    <3>1. CASE i = k + 1
      <4>1. i # 0 /\ i - 1 = k /\ k \in 0 .. k + 1 /\ k # k + 1
        BY <3>1
      <4>2. q[k] = r[k] /\ q[i] = DivideByte[Xor(r[k], Byte(m, k))]
        BY <3>1, <4>1
      <4> QED
        BY <4>1, <4>2
    <3>2. CASE i # k + 1
      <4>1. i \in 0 .. k /\ q[i] = r[i]
        BY <3>2
      <4>2. CASE i = 0
        BY <2>1, <4>1, <4>2
      <4>3. CASE i # 0
        <5>1. i - 1 \in 0 .. k + 1 /\ i - 1 # k + 1
          BY <4>1, <4>3
        <5>2. q[i - 1] = r[i - 1]
          BY <5>1
        <5> HIDE DEF q
        <5> QED
          BY <2>1, <4>1, <4>3, <5>2
      <4> QED
        BY <4>2, <4>3
    <3> QED
      BY <3>1, <3>2
  <2> HIDE DEF q
  <2>3. \E x : \A i \in 0 .. k + 1 : x[i] = Value(x, i)
    BY <2>2
  <2> QED
    BY <2>3
<1>3. 16 \in P
  <2> HIDE DEF P
  <2>1. Nat \subseteq P
    BY <1>1, <1>2, NaturalsFrom
  <2> QED
    BY <2>1
<1>4. PICK r : \A i \in 0 .. 16 : r[i] = Value(r, i)
  BY <1>3
<1> DEFINE q == [i \in 0 .. 16 |-> r[i]]
<1>5. ASSUME NEW i \in 0 .. 16
      PROVE  q[i] = Value(q, i)
  <2>1. i # 0 => i - 1 \in 0 .. 16
    OBVIOUS
  <2>2. q[i] = r[i] /\ (i # 0 => q[i - 1] = r[i - 1])
    BY <2>1
  <2> HIDE DEF q
  <2> QED
    BY <1>4, <2>2
<1>6. q = [i \in 0 .. 16 |-> Value(q, i)]
  <2>1. q = [i \in 0 .. 16 |-> q[i]]
    BY Zenon
  <2> HIDE DEF q
  <2> QED
    BY <1>5, <2>1
<1> HIDE DEF q
<1> DEFINE R == Remainders(m)
<1>7. R = [i \in 0 .. 16 |-> Value(R, i)]
  <2> DEFINE Are(x) == x = [i \in 0 .. 16 |-> Value(x, i)]
  <2>1. R = CHOOSE x : Are(x)
    BY DEF Remainders
  <2>2. \E x : Are(x)
    BY <1>6
  <2> HIDE DEF Are, R
  <2>3. Are(R)
    BY <2>1, <2>2, Zenon
  <2> QED
    BY <2>3 DEF Are
<1> HIDE DEF R
<1>8. R[0] = {}
  BY <1>7
<1>9. ASSUME NEW i \in 0 .. 15
      PROVE  R[i + 1] = DivideByte[Xor(R[i], Byte(m, i))]
  <2>1. i + 1 \in 0 .. 16 /\ i + 1 # 0 /\ (i + 1) - 1 = i
    OBVIOUS
  <2>2. R[i + 1] = Value(R, i + 1)
    BY <1>7, <2>1
  <2> QED
    BY <2>1, <2>2
<1> QED
  BY <1>8, <1>9 DEF R

(* The checksum of a sum. *)
LEMMA ChecksumIsLinear ==
  ASSUME NEW a \in Proms, NEW b \in Proms
  PROVE  CRC4(XorWords(a, b)) = Xor(CRC4(a), CRC4(b))
<1> DEFINE p == Masked(a)
           q == Masked(b)
           s == Masked(XorWords(a, b))
           P == {k \in Nat : k \in 0 .. 16 =>
                   /\ Remainders(p)[k] \in SUBSET Bits /\ Remainders(q)[k] \in SUBSET Bits
                   /\ Remainders(s)[k] = Xor(Remainders(p)[k], Remainders(q)[k])}
<1>1. /\ p \in Proms /\ q \in Proms /\ s = XorWords(p, q)
      /\ \A i \in 0 .. 15 : /\ Byte(p, i) \in SUBSET Bits /\ Byte(q, i) \in SUBSET Bits
                            /\ Byte(s, i) = Xor(Byte(p, i), Byte(q, i))
  <2>1. p \in Proms /\ q \in Proms /\ s = XorWords(p, q)
    BY BytesLinear
  <2> HIDE DEF p, q, s
  <2> QED
    BY <2>1, BytesLinear
<1>2. CRC4(a) = ShiftRight(Remainders(p)[16], 12)
  BY DEF CRC4, Remainders
<1>3. CRC4(b) = ShiftRight(Remainders(q)[16], 12)
  BY DEF CRC4, Remainders
<1>4. CRC4(XorWords(a, b)) = ShiftRight(Remainders(s)[16], 12)
  BY DEF CRC4, Remainders
<1> HIDE DEF p, q, s
<1>5. 0 \in P
  <2>1. Xor({}, {}) = {}
    BY DEF Xor
  <2> QED
    BY <2>1, RemaindersAre
<1>6. ASSUME NEW k \in Nat, k \in P
      PROVE  k + 1 \in P
  <2> SUFFICES ASSUME k + 1 \in 0 .. 16
               PROVE  /\ Remainders(p)[k + 1] \in SUBSET Bits /\ Remainders(q)[k + 1] \in SUBSET Bits
                      /\ Remainders(s)[k + 1] = Xor(Remainders(p)[k + 1], Remainders(q)[k + 1])
    OBVIOUS
  <2> DEFINE x == Remainders(p)[k]
             y == Remainders(q)[k]
             u == Byte(p, k)
             v == Byte(q, k)
  <2>1. k \in 0 .. 15 /\ k \in 0 .. 16
    OBVIOUS
  <2>2. x \in SUBSET Bits /\ y \in SUBSET Bits /\ Remainders(s)[k] = Xor(x, y)
    BY <1>6, <2>1
  <2>3. u \in SUBSET Bits /\ v \in SUBSET Bits /\ Byte(s, k) = Xor(u, v)
    BY <1>1, <2>1
  <2>4. /\ Remainders(p)[k + 1] = DivideByte[Xor(x, u)]
        /\ Remainders(q)[k + 1] = DivideByte[Xor(y, v)]
        /\ Remainders(s)[k + 1] = DivideByte[Xor(Xor(x, y), Xor(u, v))]
    BY <2>1, <2>2, <2>3, RemaindersAre
  <2> HIDE DEF x, y, u, v
  <2>5. Xor(x, u) \in SUBSET Bits /\ Xor(y, v) \in SUBSET Bits
    BY <2>2, <2>3 DEF Xor
  <2>6. Xor(Xor(x, y), Xor(u, v)) = Xor(Xor(x, u), Xor(y, v))
    BY DEF Xor
  <2> QED
    BY <2>4, <2>5, <2>6, DivideByteLinear
<1>7. 16 \in P
  <2> HIDE DEF P
  <2>1. Nat \subseteq P
    BY <1>5, <1>6, NaturalsFrom
  <2> QED
    BY <2>1
<1> DEFINE x == Remainders(p)[16]
           y == Remainders(q)[16]
<1>8. x \in SUBSET Bits /\ y \in SUBSET Bits /\ Remainders(s)[16] = Xor(x, y)
  BY <1>7
<1> HIDE DEF x, y
<1>9. ShiftRight(Xor(x, y), 12) = Xor(ShiftRight(x, 12), ShiftRight(y, 12))
  BY <1>8, ShiftRightLinear
<1> QED
  BY <1>2, <1>3, <1>4, <1>8, <1>9 DEF x, y

(* An error is noticed or not whatever words it falls on: what it adds to  *)
(* their checksum is what it adds to none.                                 *)
LEMMA ErrorsOnBlank ==
  ASSUME NEW programmed \in Proms, NEW e \in SUBSET ((0 .. 7) \X Bits),
         CRC4(programmed) = ShiftRight(programmed[0], 12)
  PROVE  LET blank == [i \in 0 .. 7 |-> {}]
             pattern == WithErrors(blank, e)
             words == WithErrors(programmed, e)
         IN  /\ \A i \in 0 .. 7 : words[i] = Xor(programmed[i], pattern[i])
             /\ CRC4(words) = ShiftRight(words[0], 12) <=> CRC4(pattern) = ShiftRight(pattern[0], 12)
<1> DEFINE blank == [i \in 0 .. 7 |-> {}]
           pattern == WithErrors(blank, e)
           words == WithErrors(programmed, e)
           inverted(i) == {f[2] : f \in {g \in e : g[1] = i}}
<1>1. \A i \in 0 .. 7 : inverted(i) \in SUBSET Bits
  OBVIOUS
<1>2. \A i \in 0 .. 7 : pattern[i] = Xor({}, inverted(i)) /\ words[i] = Xor(programmed[i], inverted(i))
  BY DEF WithErrors
<1>3. pattern = [i \in 0 .. 7 |-> pattern[i]] /\ words = [i \in 0 .. 7 |-> words[i]]
  BY DEF WithErrors
<1> HIDE DEF pattern, words, inverted
<1>4. \A w : Xor({}, w) = w
  BY DEF Xor
<1>5. \A i \in 0 .. 7 : pattern[i] \in SUBSET Bits /\ words[i] = Xor(programmed[i], pattern[i])
  BY <1>1, <1>2, <1>4
<1>6. pattern \in Proms /\ words = XorWords(programmed, pattern)
  BY <1>3, <1>5 DEF Proms, XorWords
<1>7. CRC4(words) = Xor(CRC4(programmed), CRC4(pattern))
  BY <1>6, ChecksumIsLinear
<1>8. ShiftRight(words[0], 12) = Xor(ShiftRight(programmed[0], 12), ShiftRight(pattern[0], 12))
  <2>1. programmed[0] \in SUBSET Bits /\ pattern[0] \in SUBSET Bits /\ words[0] = Xor(programmed[0], pattern[0])
    BY <1>5 DEF Proms
  <2> QED
    BY <2>1, ShiftRightLinear
<1>9. \A x, y, z : Xor(x, y) = Xor(x, z) => \A b : b \in y <=> b \in z
  BY InXor
<1>10. \A x, y, z : Xor(x, y) = Xor(x, z) => y = z
  <2> TAKE x, y, z
  <2> HAVE Xor(x, y) = Xor(x, z)
  <2>1. y = Xor(x, Xor(x, y)) /\ z = Xor(x, Xor(x, z))
    BY DEF Xor
  <2> QED
    BY <2>1
<1> QED
  BY <1>5, <1>7, <1>8, <1>10 DEF pattern, words, blank

(* Sensors::CalibrationIsTheSensors: Init of the MS5837 takes the words of *)
(* any sensor if and only if they came as they were programmed.            *)
THEOREM CalibrationIsVerified == Spec => []CalibrationIsTheSensors
<1>1. ASSUME NEW e \in Errors
      PROVE  Verified(WithErrors(Factory, e)) <=> e = {}
  <2> DEFINE blank == [i \in 0 .. 7 |-> {}]
             pattern == WithErrors(blank, e)
             words == WithErrors(Factory, e)
  <2>1. /\ Factory \in Proms /\ e \in SUBSET ((0 .. 7) \X Bits)
        /\ CRC4(Factory) = ShiftRight(Factory[0], 12) /\ \A i \in 0 .. 6 : Factory[i] # {}
    BY SensorsAssumption, PromAssumption DEF Proms
  <2>2. /\ \A i \in 0 .. 7 : words[i] = Xor(Factory[i], pattern[i])
        /\ CRC4(words) = ShiftRight(words[0], 12) <=> CRC4(pattern) = ShiftRight(pattern[0], 12)
    BY <2>1, ErrorsOnBlank
  <2>3. CASE e = {}
    <3>1. words = Factory
      <4>1. \A w : Xor(w, {}) = w
        BY DEF Xor
      <4> QED
        BY <2>1, <2>3, <4>1 DEF WithErrors, Proms
    <3> QED
      BY <2>1, <2>3, <3>1 DEF Verified
  <2>4. CASE e # {}
    <3>1. \/ \E i \in 0 .. 6 : pattern[i] = Factory[i]
          \/ CRC4(pattern) # ShiftRight(pattern[0], 12)
      BY <2>4, PromAssumption
    <3> HIDE DEF pattern, words
    <3>2. \A w : Xor(w, w) = {}
      BY DEF Xor
    <3>3. ASSUME NEW i \in 0 .. 6, pattern[i] = Factory[i]
          PROVE  words[i] = {}
      BY <2>2, <3>2, <3>3
    <3>4. ~ Verified(words)
      BY <2>2, <3>1, <3>3 DEF Verified
    <3> QED
      BY <2>4, <3>4 DEF words
  <2> QED
    BY <2>3, <2>4
<1>2. Init => CalibrationIsTheSensors
  BY DEF Init, CalibrationIsTheSensors
<1>3. CalibrationIsTheSensors /\ [Next]_vars => CalibrationIsTheSensors'
  <2> SUFFICES ASSUME CalibrationIsTheSensors, [Next]_vars PROVE CalibrationIsTheSensors'
    OBVIOUS
  <2>1. CASE ReadProm
    <3>1. PICK e \in Errors : /\ prom' = IF e = {} THEN "intact" ELSE "errors"
                             /\ verified' = Verified(WithErrors(Factory, e))
      BY <2>1 DEF ReadProm, PromReadings
    <3>2. verified' <=> e = {}
      BY <1>1, <3>1
    <3> QED
      BY <3>1, <3>2 DEF CalibrationIsTheSensors
  <2>2. CASE UNCHANGED <<prom, verified>>
    BY <2>2 DEF CalibrationIsTheSensors
  <2>3. ReadProm \/ UNCHANGED <<prom, verified>>
    BY DEF Next, vars, measureVars, Measure, SetDataBegins, SetDataEnds, GetDataBegins, GetDataEnds,
           GetSensorsStruct, Asks, Returned
  <2> QED
    BY <2>1, <2>2, <2>3
<1> QED
  BY <1>2, <1>3, PTL DEF Spec
=============================================================================
