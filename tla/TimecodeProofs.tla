--------------------------- MODULE TimecodeProofs ----------------------------
(***************************************************************************)
(* Time codes are right for every frame number and every whole rate: the   *)
(* two divisions of the drop-frame correction pass over exactly the        *)
(* numbers that drop-frame time code does not use.                         *)
(***************************************************************************)
EXTENDS Timecode, TLAPS

-----------------------------------------------------------------------------
(***************************************************************************)
(* Division                                                                *)
(***************************************************************************)

LEMMA DivisionIs ==
  ASSUME NEW a \in Nat, NEW d \in Nat \ {0}
  PROVE  a \div d \in Nat /\ a % d \in Nat /\ a % d < d /\ a % d = a - d * (a \div d)
<1>1. a \div d \in Nat
  OBVIOUS
<1>2. a % d \in Nat /\ a % d < d
  OBVIOUS
<1>3. a % d = a - d * (a \div d)
  OBVIOUS
<1> QED BY <1>1, <1>2, <1>3

\* Dividing by a product is dividing twice.
LEMMA DivisionTwice ==
  ASSUME NEW a \in Nat, NEW d \in Nat \ {0}, NEW e \in Nat \ {0}
  PROVE  a \div (e * d) = (a \div d) \div e
BY SMTT(30)

\* Quotient and remainder, as two numbers.
LEMMA QuotientAndRest ==
  ASSUME NEW a \in Nat, NEW d \in Nat \ {0}
  PROVE  \E b, c \in Nat : c < d /\ b = a \div d /\ c = a % d /\ c = a - d * b
<1>1. a \div d \in Nat /\ a % d \in Nat /\ a % d < d /\ a % d = a - d * (a \div d)
  BY DivisionIs
<1> QED BY <1>1, Zenon

-----------------------------------------------------------------------------
(***************************************************************************)
(* Labels                                                                  *)
(***************************************************************************)

\* Hours, minutes, seconds and frames are the digits of the number.
LEMMA LabelIsNumber ==
  ASSUME NEW n \in Nat, NEW fps \in Nat \ {0}
  PROVE  /\ NumberOf(LabelOf(n, fps), fps) = n
         /\ LabelOf(n, fps).frame < fps
         /\ MinutesOf(LabelOf(n, fps)) = (n \div fps) \div 60
<1>1. PICK x, f \in Nat : f < fps /\ x = n \div fps /\ f = n % fps /\ f = n - fps * x
  BY QuotientAndRest
<1>2. PICK y, s \in Nat : s < 60 /\ y = x \div 60 /\ s = x % 60 /\ s = x - 60 * y
  BY QuotientAndRest
<1>3. PICK h, m \in Nat : m < 60 /\ h = y \div 60 /\ m = y % 60 /\ m = y - 60 * h
  BY QuotientAndRest
<1>4. n \div (60 * fps) = y
  <2>1. n \div (60 * fps) = (n \div fps) \div 60
    BY DivisionTwice
  <2> QED BY <1>1, <1>2, <2>1
<1>5. n \div (3600 * fps) = h
  <2>1. n \div (3600 * fps) = (n \div fps) \div 3600
    BY DivisionTwice
  <2>2. x \div (60 * 60) = (x \div 60) \div 60
    BY DivisionTwice
  <2>3. 60 * 60 = 3600
    OBVIOUS
  <2>4. x \div 3600 = (x \div 60) \div 60
    BY <2>2, <2>3
  <2> QED BY <1>1, <1>2, <1>3, <2>1, <2>4
<1>6. LabelOf(n, fps) = [hour |-> h, minute |-> m, second |-> s, frame |-> f]
  BY <1>1, <1>2, <1>3, <1>4, <1>5 DEF LabelOf
<1>7. h * 60 + m = y /\ (h * 60 + m) * 60 + s = x
  <2>1. m = y - 60 * h /\ s = x - 60 * y
    BY <1>2, <1>3
  <2> QED BY <2>1
<1>8. x * fps + f = n
  <2>1. f = n - fps * x
    BY <1>1
  <2> QED BY <2>1
<1>9. NumberOf(LabelOf(n, fps), fps) = n
  BY <1>6, <1>7, <1>8 DEF NumberOf
<1>10. MinutesOf(LabelOf(n, fps)) = y
  BY <1>6, <1>7 DEF MinutesOf
<1> QED BY <1>1, <1>2, <1>6, <1>9, <1>10

\* Frame n is frame r of the q-th ten minutes, and in their minute k: the
\* correction is 18 for each ten minutes and 2 for each minute.
Placed(n, q, r, k) ==
  /\ n = TenMinutes * q + r
  /\ r < TenMinutes
  /\ k < 10
  /\ DroppedBefore(n) = 18 * q + 2 * k
  /\ r + 2 * k >= 1800 * k
  /\ r + 2 * k < 1800 * k + 1800
  /\ k > 0 => r + 2 * k >= 1800 * k + 2

LEMMA EveryFrameIsPlaced ==
  ASSUME NEW n \in Nat
  PROVE  \E q, r, k \in Nat : Placed(n, q, r, k)
<1>1. PICK q, r \in Nat :
        /\ r < TenMinutes /\ q = n \div TenMinutes /\ r = n % TenMinutes
        /\ r = n - TenMinutes * q
  <2>1. TenMinutes \in Nat \ {0}
    BY DEF TenMinutes
  <2> QED BY <2>1, QuotientAndRest
<1>2. n = TenMinutes * q + r
  <2>1. r = n - TenMinutes * q
    BY <1>1
  <2> QED BY <2>1 DEF TenMinutes
<1>3. DroppedBefore(n) = 18 * q + 2 * Quotient(r - 2, OneMinute)
  BY <1>1 DEF DroppedBefore
<1>4. CASE r < 2
  <2>1. Quotient(r - 2, OneMinute) = 0
    BY <1>4 DEF Quotient, OneMinute
  <2>2. Placed(n, q, r, 0)
    BY <1>1, <1>2, <1>3, <1>4, <2>1 DEF Placed
  <2> QED BY <2>2, Zenon
<1>5. CASE r >= 2
  <2>1. r - 2 \in Nat /\ OneMinute \in Nat \ {0}
    BY <1>5 DEF OneMinute
  <2>2. PICK k, c \in Nat :
          c < OneMinute /\ k = (r - 2) \div OneMinute /\ c = (r - 2) - OneMinute * k
    BY <2>1, QuotientAndRest
  <2>3. Quotient(r - 2, OneMinute) = k
    BY <1>5, <2>2 DEF Quotient
  <2>4. 1798 * k <= r - 2 /\ r - 2 < 1798 * k + 1798
    <3>1. c = (r - 2) - 1798 * k /\ c < 1798
      BY <2>2 DEF OneMinute
    <3> QED BY <3>1
  <2>5. k < 10
    BY <1>1, <2>4 DEF TenMinutes
  <2>6. Placed(n, q, r, k)
    BY <1>1, <1>2, <1>3, <2>3, <2>4, <2>5 DEF Placed
  <2> QED BY <2>6, Zenon
<1> QED BY <1>4, <1>5

\* The label of a frame exists and stands for that frame.
LEMMA DropFrameLabelSound ==
  ASSUME NEW n \in Nat
  PROVE  ~IsDropped(DropFrameLabel(n)) /\ DropFrameOf(DropFrameLabel(n)) = n
<1>1. PICK q, r, k \in Nat : Placed(n, q, r, k)
  BY EveryFrameIsPlaced, Zenon
<1> DEFINE N == n + DroppedBefore(n)
           l == DropFrameLabel(n)
<1>2. N \in Nat /\ N = 18000 * q + r + 2 * k
  BY <1>1 DEF Placed, TenMinutes
<1>3. l = LabelOf(N, 30)
  BY DEF DropFrameLabel
<1> HIDE DEF N, l
<1>4. /\ NumberOf(l, 30) = N
      /\ MinutesOf(l) = (N \div 30) \div 60
  BY <1>2, <1>3, LabelIsNumber
<1>5. (N \div 30) \div 60 = 10 * q + k
  BY <1>1, <1>2 DEF Placed, TenMinutes
<1>6. MinutesOf(l) = 10 * q + k /\ MinutesOf(l) \div 10 = q
  <2>1. k < 10
    BY <1>1 DEF Placed
  <2>2. (10 * q + k) \div 10 = q
    BY <2>1
  <2> QED BY <1>4, <1>5, <2>2
<1>7. DropFrameOf(l) = n
  <2>1. DropFrameOf(l) = N - 2 * ((10 * q + k) - q)
    BY <1>4, <1>6 DEF DropFrameOf
  <2>2. n = 17982 * q + r
    BY <1>1 DEF Placed, TenMinutes
  <2> QED BY <1>2, <2>1, <2>2
<1>8. ~IsDropped(l)
  <2>1. SUFFICES ASSUME l.frame < 2, l.second = 0, l.minute % 10 # 0
                 PROVE  FALSE
    BY DEF IsDropped
  <2>2. l.frame = N % 30 /\ l.second = (N \div 30) % 60 /\ l.minute = (N \div 1800) % 60
    BY <1>3 DEF LabelOf
  <2>3. N \div 1800 = 10 * q + k
    BY <1>1, <1>2 DEF Placed, TenMinutes
  <2>4. N < 1800 * (10 * q + k) + 2
    BY <1>2, <2>1, <2>2, <1>5
  <2>5. k = 0
    BY <1>1, <1>2, <2>4 DEF Placed, TenMinutes
  <2> QED BY <2>1, <2>2, <2>3, <2>5
<1> QED BY <1>7, <1>8 DEF l

-----------------------------------------------------------------------------
LEMMA ConvertSound ==
  ASSUME NEW r \in FrameRates, NEW n \in Durations, Convert(r, n)
  PROVE  LabelSound'
<1>1. n \in Nat /\ r.fps \in Nat \ {0}
  BY TimecodeAssumption
<1>2. rate' = r /\ sample' = n /\ label' \in Labels(r, n)
  BY DEF Convert
<1>3. CASE r.drop
  <2>1. PICK m \in Floored(n) : label' = DropFrameLabel(m)
    BY <1>2, <1>3 DEF Labels
  <2>2. m \in Nat /\ m \in {n, n - 1}
    BY <1>1 DEF Floored
  <2> QED BY <1>2, <1>3, <2>1, <2>2, DropFrameLabelSound DEF LabelSound
<1>4. CASE ~r.drop
  <2>1. label' = LabelOf(n, r.fps)
    BY <1>2, <1>4 DEF Labels
  <2>2. NumberOf(label', r.fps) = n /\ label'.frame < r.fps
    BY <1>1, <2>1, LabelIsNumber
  <2> QED BY <1>2, <1>4, <2>2 DEF LabelSound
<1> QED BY <1>3, <1>4

\* Whatever number is converted at whatever rate, the time code exists and
\* reads as that frame, or as the one before it where the floating-point
\* product of frame number and rate falls below the number.
THEOREM TimecodesAreSound == TimecodeSpec => []LabelSound
<1>1. TimecodeInit => LabelSound
  BY DEF TimecodeInit, LabelSound
<1>2. LabelSound /\ [TimecodeNext]_timecodeVars => LabelSound'
  <2>1. CASE UNCHANGED timecodeVars
    BY <2>1 DEF timecodeVars, LabelSound
  <2>2. Printed => LabelSound'
    BY DEF Printed, LabelSound
  <2> QED BY <2>1, <2>2, ConvertSound DEF TimecodeNext
<1> QED BY <1>1, <1>2, PTL DEF TimecodeSpec
=============================================================================
