------------------------------ MODULE Timecode -------------------------------
(***************************************************************************)
(* SMPTE time codes of frame numbers (libharvid/timecode.c), as the info   *)
(* pages print them.  Drop-frame time code labels 29.97 frames per second  *)
(* with 30 numbers: the first two of every minute, every tenth excepted,   *)
(* are not used.  Sub-frames are never configured and left out.            *)
(***************************************************************************)
EXTENDS Integers

CONSTANTS
  FrameRates,  \* records: drop (r->drop), fps (ceil of the rate)
  Durations,   \* the frame numbers that are converted
  NoLabel

ASSUME TimecodeAssumption ==
  /\ \A r \in FrameRates : r.drop \in BOOLEAN /\ r.fps \in Nat \ {0}
  /\ Durations \subseteq Nat

VARIABLES
  rate, sample,  \* the arguments
  label          \* hour, minute, second and frame, or NoLabel

timecodeVars == <<rate, sample, label>>

-----------------------------------------------------------------------------
\* The time code of number n at fps numbers a second.
LabelOf(n, fps) ==
  [hour |-> n \div (3600 * fps), minute |-> (n \div (60 * fps)) % 60,
   second |-> (n \div fps) % 60, frame |-> n % fps]

\* C's division, which rounds towards zero.
Quotient(a, b) == IF a >= 0 THEN a \div b ELSE -((-a) \div b)

\* Frames in ten minutes and in a minute but the first of them.
TenMinutes == 17982
OneMinute == 1798

\* A mutant: the two extra frames of the first minute are forgotten.
DroppedBeforeEarly(n) ==
  18 * (n \div TenMinutes) + 2 * Quotient((n % TenMinutes), OneMinute)

\* How many numbers are passed over before frame n.
DroppedBefore(n) ==
  18 * (n \div TenMinutes) + 2 * Quotient((n % TenMinutes) - 2, OneMinute)

DropFrameLabel(n) == LabelOf(n + DroppedBefore(n), 30)

\* floor(sample * fps / fps) in doubles: one less for some frames.
Floored(n) == {n} \cup ({n - 1} \cap Nat)

\* timecode_framenumber_to_time()
Labels(r, n) ==
  IF r.drop THEN {DropFrameLabel(k) : k \in Floored(n)} ELSE {LabelOf(n, r.fps)}

TimecodeInit == rate = NoLabel /\ sample = NoLabel /\ label = NoLabel

Convert(r, n) ==
  /\ label = NoLabel
  /\ rate' = r /\ sample' = n
  /\ label' \in Labels(r, n)

Printed ==
  /\ label # NoLabel
  /\ rate' = NoLabel /\ sample' = NoLabel /\ label' = NoLabel

TimecodeNext == (\E r \in FrameRates, n \in Durations : Convert(r, n)) \/ Printed

TimecodeSpec == TimecodeInit /\ [][TimecodeNext]_timecodeVars

-----------------------------------------------------------------------------
\* The numbers drop-frame time code does not use.
IsDropped(l) == l.frame < 2 /\ l.second = 0 /\ l.minute % 10 # 0

\* The number of a label, and the frame it stands for: two less for every
\* minute so far, except the tenth ones.
NumberOf(l, fps) == ((l.hour * 60 + l.minute) * 60 + l.second) * fps + l.frame
MinutesOf(l) == l.hour * 60 + l.minute
DropFrameOf(l) == NumberOf(l, 30) - 2 * (MinutesOf(l) - MinutesOf(l) \div 10)

\* A time code is one that exists and reads as the frame number it was made
\* from, or in drop-frame, because of the rounding, as the frame before.
LabelSound ==
  label # NoLabel =>
    IF rate.drop
      THEN ~IsDropped(label) /\ DropFrameOf(label) \in {sample, sample - 1}
      ELSE NumberOf(label, rate.fps) = sample /\ label.frame < rate.fps
=============================================================================
