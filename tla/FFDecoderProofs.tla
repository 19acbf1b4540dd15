--------------------------- MODULE FFDecoderProofs ---------------------------
(***************************************************************************)
(* A decoder keeps its promise for every movie whose time base is at least *)
(* as fine as its frames, whatever is in it, and for every limit of the    *)
(* search: it hands out the frame that was asked for or black, and the     *)
(* next frame only where rounding hides the difference.                    *)
(***************************************************************************)
EXTENDS FFDecoder, FiniteSetTheorems, TLAPS

\* No two frames have the same time.
FineTimes == \A m \in Movies : m.hz >= FrameRate(m)

\* avprev tells the frame that pFrame holds, unless it is -1, as it is while
\* a search runs; everything the codec holds is a frame of the movie.
FFInv ==
  /\ movie \in Movies \cup {Nothing}
  /\ position \in Nat \ {0}
  /\ codec.inside \subseteq Nat
  /\ asked \in FrameNumbers \cup {Nothing}
  /\ asked # Nothing => movie # Nothing
  /\ searching => asked # Nothing /\ avprev = -1
  /\ avprev = -1 \/ (movie # Nothing /\ pFrame \in Nat /\ avprev = Pts(movie, pFrame))

CodecStates == [base : Nat \cup {Nothing}, inside : SUBSET Nat, drain : BOOLEAN]

\* Where the frames are all in order, the demuxer is behind the frame in pFrame
\* between two requests, and never behind the frame asked for in a search; the
\* codec is in the middle of a group or gets a key-frame next, and holds
\* nothing back.
OnTrack ==
  movie # Nothing /\ Gapless(movie) =>
    /\ codec \in CodecStates /\ codec.inside = {}
    /\ avprev # -1 => position = pFrame + 2 /\ codec.base \in Nat /\ codec.base <= pFrame
    /\ searching =>
         /\ position <= asked + 1
         /\ \/ codec.base = Nothing /\ position - 1 \in movie.keys
            \/ codec.base \in Nat /\ codec.base < position - 1

-----------------------------------------------------------------------------
(***************************************************************************)
(* The demuxer and the codec                                               *)
(***************************************************************************)

LEMMA SeekPositionType ==
  ASSUME NEW m \in Movies, NEW ts
  PROVE  SeekPositions(m, ts) \subseteq Nat \ {0}
<1>1. DOMAIN m.packets = 1 .. Len(m.packets) /\ Len(m.packets) \in Nat
  BY MovieAssumption
<1> QED BY <1>1 DEF SeekPositions

\* The codec is only fed with frames.
LEMMA FedType ==
  ASSUME FFInv, searching, Feeds
  PROVE  Fed.inside \subseteq Nat
<1>1. movie \in Movies
  BY DEF FFInv
<1>2. CASE EndOfFile
  <2>1. Fed.inside = codec.inside
    BY <1>2 DEF Fed
  <2> QED BY <2>1 DEF FFInv
<1>3. CASE ~EndOfFile
  <2>1. movie.packets \in Seq(Nat \cup {OtherStream}) /\ position \in 1 .. Len(movie.packets)
    BY <1>1, <1>3, MovieAssumption DEF EndOfFile, FFInv
  <2>2. movie.packets[position] \in Nat
    BY <1>3, <2>1 DEF Feeds, IsVideo
  <2> QED BY <1>3, <2>2 DEF Fed, FFInv
<1> QED BY <1>2, <1>3

-----------------------------------------------------------------------------
(***************************************************************************)
(* Arithmetic: frames, ticks and rounding                                  *)
(***************************************************************************)

\* Products with the same factor keep the order.
LEMMA ProductsAreOrdered ==
  ASSUME NEW T \in Nat \ {0}, NEW a \in Nat, NEW b \in Nat
  PROVE  /\ a <= b => a * T <= b * T
         /\ a * T <= b * T => a <= b
         /\ a * T < b * T => a < b
<1>1. ASSUME NEW c \in Nat, NEW d \in Nat, c < d
      PROVE  c * T < d * T
  <2>1. PICK e \in Nat : d = c + 1 + e
    BY <1>1
  <2>2. d * T = c * T + T + e * T
    BY <2>1
  <2>3. e * T >= 0 /\ c * T \in Int
    OBVIOUS
  <2> QED BY <2>2, <2>3
<1>2. a * T \in Int /\ b * T \in Int
  OBVIOUS
<1>3. a < b \/ a = b \/ b < a
  OBVIOUS
<1> QED BY <1>1, <1>2, <1>3

LEMMA Quotient ==
  ASSUME NEW x \in Nat, NEW d \in Nat \ {0}
  PROVE  /\ x \div d \in Nat
         /\ d * (x \div d) <= x /\ x < d * (x \div d) + d
OBVIOUS

LEMMA Divisible ==
  ASSUME NEW x \in Nat, NEW d \in Nat \ {0}, x % d = 0
  PROVE  x = d * (x \div d) /\ x \div d \in Nat
OBVIOUS

LEMMA FrameRateType ==
  ASSUME NEW m \in Movies
  PROVE  FrameRate(m) \in Nat \ {0}
<1> DEFINE sane == {i \in 1 .. 3 : m.rates[i] \in 1 .. 1000}
           first == CHOOSE i \in sane : \A j \in sane : i <= j
<1>1. sane \subseteq 1 .. 3
  OBVIOUS
<1>2. ASSUME sane # {}
      PROVE  \E i \in sane : \A j \in sane : i <= j
  <2> HIDE DEF sane
  <2>1. CASE 1 \in sane
    BY <1>1, <2>1
  <2>2. CASE 1 \notin sane /\ 2 \in sane
    BY <1>1, <2>2
  <2>3. CASE 1 \notin sane /\ 2 \notin sane
    <3>1. \A i \in sane : i = 3
      BY <1>1, <2>3
    <3>2. 3 \in sane
      BY <1>2, <3>1
    <3> QED BY <3>1, <3>2
  <2> QED BY <2>1, <2>2, <2>3
<1>3. sane # {} => first \in sane
  <2> HIDE DEF sane
  <2> QED BY <1>2
<1>4. sane # {} => m.rates[first] \in 1 .. 1000
  BY <1>3
<1>5. CASE sane = {}
  <2>1. FrameRate(m) = 25
    BY <1>5 DEF FrameRate
  <2> QED BY ONLY <2>1
<1>6. CASE sane # {}
  <2>1. FrameRate(m) = m.rates[first]
    BY <1>6 DEF FrameRate
  <2> HIDE DEF sane, first
  <2>2. PICK r \in 1 .. 1000 : r = m.rates[first]
    BY <1>4, <1>6
  <2>3. FrameRate(m) = r
    BY <2>1, <2>2, Zenon
  <2>4. r \in Nat \ {0}
    OBVIOUS
  <2> QED BY <2>3, <2>4, Zenon
<1> QED BY <1>5, <1>6

\* A time-stamp is the nearest tick to the frame's time ...
LEMMA Rounded ==
  ASSUME NEW m \in Movies, NEW n \in Nat
  PROVE  /\ Timestamp(m, n) \in Nat
         /\ 2 * (FrameRate(m) * Timestamp(m, n)) <= 2 * (n * m.hz) + FrameRate(m)
         /\ 2 * (n * m.hz) < 2 * (FrameRate(m) * Timestamp(m, n)) + FrameRate(m)
<1>1. FrameRate(m) \in Nat \ {0} /\ m.hz \in Nat
  BY FrameRateType, MovieAssumption
<1>2. PICK f \in Nat \ {0} : f = FrameRate(m)
  BY <1>1
<1>3. PICK x \in Nat : x = 2 * n * m.hz + f
  BY <1>1, <1>2
<1>4. PICK t \in Nat : t = x \div (2 * f) /\ (2 * f) * t <= x /\ x < (2 * f) * t + 2 * f
  <2>1. 2 * f \in Nat \ {0}
    OBVIOUS
  <2> QED BY <2>1, Quotient
<1>5. Timestamp(m, n) = t
  BY <1>2, <1>3, <1>4 DEF Timestamp
<1>6. (2 * f) * t = 2 * (f * t) /\ f * t \in Nat
  OBVIOUS
<1>7. 2 * n * m.hz = 2 * (n * m.hz) /\ n * m.hz \in Nat
  BY <1>1
<1> QED BY <1>2, <1>3, <1>4, <1>5, <1>6, <1>7

\* ... and in the file it is that one or the one before.
LEMMA RoundedOrCut ==
  ASSUME NEW m \in Movies, NEW n \in Nat
  PROVE  /\ Pts(m, n) \in Nat
         /\ 2 * (FrameRate(m) * Pts(m, n)) <= 2 * (n * m.hz) + FrameRate(m)
         /\ n * m.hz < FrameRate(m) * Pts(m, n) + FrameRate(m)
<1>1. PICK f \in Nat \ {0} : f = FrameRate(m)
  BY FrameRateType
<1>2. PICK x \in Nat : x = n * m.hz
  BY MovieAssumption
<1>3. CASE m.cut
  <2>1. PICK p \in Nat : p = x \div f /\ f * p <= x /\ x < f * p + f
    BY Quotient
  <2>2. Pts(m, n) = p
    BY <1>1, <1>2, <1>3, <2>1 DEF Pts
  <2>3. f * p \in Nat
    OBVIOUS
  <2> QED BY <1>1, <1>2, <2>1, <2>2, <2>3
<1>4. CASE ~m.cut
  <2>1. PICK p \in Nat : /\ p = Timestamp(m, n)
                         /\ 2 * (f * p) <= 2 * x + f /\ 2 * x < 2 * (f * p) + f
    BY <1>1, <1>2, Rounded
  <2>2. Pts(m, n) = p
    BY <1>4, <2>1 DEF Pts
  <2>3. f * p \in Nat
    OBVIOUS
  <2> QED BY <1>1, <1>2, <2>1, <2>2, <2>3
<1> QED BY <1>3, <1>4

\* Later frames have later time-stamps.
LEMMA TimesAreOrdered ==
  ASSUME NEW m \in Movies, m.hz >= FrameRate(m), NEW a \in Nat, NEW b \in Nat, a < b
  PROVE  Timestamp(m, a) < Timestamp(m, b)
<1>1. PICK f \in Nat \ {0} : f = FrameRate(m)
  BY FrameRateType
<1>2. PICK h \in Nat : h = m.hz
  BY MovieAssumption
<1>3. PICK s \in Nat : s = Timestamp(m, a) /\ 2 * (f * s) <= 2 * (a * h) + f
  BY <1>1, <1>2, Rounded
<1>4. PICK t \in Nat : t = Timestamp(m, b) /\ 2 * (b * h) < 2 * (f * t) + f
  BY <1>1, <1>2, Rounded
<1>5. PICK e \in Nat : b = a + 1 + e
  OBVIOUS
<1>6. b * h = a * h + h + e * h /\ e * h >= 0 /\ a * h \in Int
  BY <1>5
<1>7. f * s \in Int /\ f * t \in Int /\ h >= f
  BY <1>1, <1>2
<1>8. f * s < f * t
  BY <1>3, <1>4, <1>6, <1>7
<1>9. s * f < t * f
  BY <1>8
<1> QED BY <1>3, <1>4, <1>9, ProductsAreOrdered

\* A frame between the limits of the search is the one at the target, or the
\* next one.
LEMMA WithinOneFrame ==
  ASSUME NEW m \in Movies, m.hz >= FrameRate(m), NEW a \in Nat, NEW n \in Nat,
         NEW fuzz \in {0, 1}, fuzz = 1 => TicksPerFrame(m) > 10,
         Pts(m, n) + fuzz >= Timestamp(m, a),
         Pts(m, n) - Timestamp(m, a) < TicksPerFrame(m)
  PROVE  n = a \/ n = a + 1
<1>1. PICK f \in Nat \ {0} : f = FrameRate(m)
  BY FrameRateType
<1>2. PICK h \in Nat : h = m.hz
  BY MovieAssumption
<1>3. PICK t \in Nat : /\ t = Timestamp(m, a) /\ 2 * (f * t) <= 2 * (a * h) + f
                       /\ 2 * (a * h) < 2 * (f * t) + f
  BY <1>1, <1>2, Rounded
<1>4. PICK p \in Nat : /\ p = Pts(m, n) /\ 2 * (f * p) <= 2 * (n * h) + f
                       /\ n * h < f * p + f
  BY <1>1, <1>2, RoundedOrCut
<1>5. PICK T \in Nat : /\ T = TicksPerFrame(m) /\ 2 * (f * T) <= 2 * (1 * h) + f
  BY <1>1, <1>2, Rounded DEF TicksPerFrame
<1>6. f * t \in Nat /\ f * p \in Nat /\ f * T \in Nat /\ h >= f /\ 1 * h = h
  BY <1>1, <1>2
<1>7. n < a + 2
  <2>1. SUFFICES ASSUME n >= a + 2
                 PROVE  FALSE
    OBVIOUS
  <2>2. PICK e \in Nat : n = a + 2 + e
    BY <2>1
  <2>3. n * h = a * h + 2 * h + e * h /\ e * h >= 0 /\ a * h \in Int
    BY <2>2
  <2>4. p + 1 <= t + T
    BY <1>3, <1>4, <1>5
  <2>5. (p + 1) * f <= (t + T) * f
    BY <2>4, ProductsAreOrdered
  <2>6. (p + 1) * f = f * p + f /\ (t + T) * f = f * t + f * T
    OBVIOUS
  <2> QED BY <1>3, <1>4, <1>5, <1>6, <2>3, <2>5, <2>6
<1>8. a <= n
  <2>1. SUFFICES ASSUME n < a
                 PROVE  FALSE
    OBVIOUS
  <2>2. PICK e \in Nat : a = n + 1 + e
    BY <2>1
  <2>3. a * h = n * h + h + e * h /\ e * h >= 0 /\ n * h \in Int
    BY <2>2
  <2>4. t <= p + fuzz /\ p + fuzz \in Nat
    BY <1>3, <1>4
  <2>5. t * f <= (p + fuzz) * f
    BY <2>4, ProductsAreOrdered
  <2>6. t * f = f * t /\ (p + fuzz) * f = f * p + fuzz * f
    OBVIOUS
  <2>7. CASE fuzz = 0
    BY <1>3, <1>4, <1>6, <2>3, <2>5, <2>6, <2>7
  <2>8. CASE fuzz = 1
    <3>1. 11 * f <= T * f
      <4>1. 11 <= T
        BY <1>5, <2>8
      <4> QED BY <4>1, ProductsAreOrdered
    <3>2. T * f = f * T /\ fuzz * f = f
      BY <2>8
    <3> QED BY <1>3, <1>4, <1>5, <1>6, <2>3, <2>5, <2>6, <3>1, <3>2
  <2> QED BY <2>7, <2>8
<1> QED BY <1>7, <1>8

\* With exact time-stamps the frames are multiples of tpf.
LEMMA ExactProducts ==
  ASSUME NEW m \in Movies, ExactTimes(m)
  PROVE  /\ m.hz >= FrameRate(m)
         /\ TicksPerFrame(m) \in Nat \ {0}
         /\ \A n \in Nat : /\ Timestamp(m, n) = n * TicksPerFrame(m)
                          /\ Pts(m, n) = n * TicksPerFrame(m)
<1>1. PICK f \in Nat \ {0} : f = FrameRate(m)
  BY FrameRateType
<1>2. PICK h \in Nat \ {0} : h = m.hz
  BY MovieAssumption
<1>3. PICK T \in Nat : h = f * T
  <2>1. h % f = 0
    BY <1>1, <1>2 DEF ExactTimes
  <2> QED BY <2>1, Divisible
<1>4. T # 0
  <2>1. T = 0 => f * T = 0
    OBVIOUS
  <2> QED BY <1>2, <1>3, <2>1
<1>5. ASSUME NEW n \in Nat
      PROVE  Timestamp(m, n) = n * T
  <2>1. PICK t \in Nat : /\ t = Timestamp(m, n) /\ 2 * (f * t) <= 2 * (n * h) + f
                         /\ 2 * (n * h) < 2 * (f * t) + f
    BY <1>1, <1>2, Rounded
  <2>2. PICK x \in Nat : x = n * T
    OBVIOUS
  <2>3. n * h = x * f
    BY <1>3, <2>2
  <2>4. /\ (2 * t) * f = 2 * (f * t) /\ (2 * x + 1) * f = 2 * (x * f) + f
        /\ (2 * t + 1) * f = 2 * (f * t) + f /\ (2 * x) * f = 2 * (x * f)
        /\ f * t \in Nat /\ x * f \in Nat
    OBVIOUS
  <2>5. (2 * t) * f <= (2 * x + 1) * f /\ (2 * x) * f < (2 * t + 1) * f
    BY <2>1, <2>3, <2>4
  <2>6. 2 * t <= 2 * x + 1 /\ 2 * x < 2 * t + 1
    <3>1. PICK c \in Nat, d \in Nat : c = 2 * t /\ d = 2 * x + 1
      OBVIOUS
    <3>2. PICK i \in Nat, j \in Nat : i = 2 * x /\ j = 2 * t + 1
      OBVIOUS
    <3>3. c * f <= d * f /\ i * f < j * f
      BY <2>5, <3>1, <3>2
    <3>4. c <= d /\ i < j
      BY <3>3, ProductsAreOrdered
    <3> QED BY ONLY <3>1, <3>2, <3>4
  <2>7. t = x
    BY <2>6
  <2> QED BY <2>1, <2>2, <2>7, Zenon
<1>6. TicksPerFrame(m) = T
  <2>1. Timestamp(m, 1) = 1 * T
    BY <1>5
  <2> QED BY <2>1 DEF TicksPerFrame
<1>7. h >= f
  <2>1. 1 * f <= T * f
    <3>1. 1 <= T
      BY <1>4
    <3> QED BY <3>1, ProductsAreOrdered
  <2> QED BY <1>3, <2>1
<1>8. ~m.cut
  BY DEF ExactTimes
<1> QED BY <1>1, <1>2, <1>4, <1>5, <1>6, <1>7, <1>8 DEF Pts

LEMMA TpfType ==
  ASSUME NEW m \in Movies, m.hz >= FrameRate(m)
  PROVE  TicksPerFrame(m) \in Nat \ {0}
<1>1. Timestamp(m, 0) \in Nat /\ Timestamp(m, 1) \in Nat /\ Timestamp(m, 0) < Timestamp(m, 1)
  BY Rounded, TimesAreOrdered
<1> QED BY <1>1 DEF TicksPerFrame

-----------------------------------------------------------------------------
(***************************************************************************)
(* The frame that is found                                                 *)
(***************************************************************************)

\* "Is it the frame of the last request?" is answered right, except that of a
\* truncated time-stamp the next frame may be taken for it.
LEMMA SameFrameIsAsked ==
  ASSUME FFInv, FineTimes, asked # Nothing, AlreadyDecoded
  PROVE  pFrame = asked \/ (movie.cut /\ pFrame = asked + 1)
<1>1. movie \in Movies /\ asked \in Nat /\ movie.hz >= FrameRate(movie)
  BY LimitAssumption DEF FFInv, FineTimes
<1>2. Timestamp(movie, asked) \in Nat /\ avprev = Timestamp(movie, asked)
  BY <1>1, Rounded DEF AlreadyDecoded, Target
<1>3. pFrame \in Nat /\ Pts(movie, pFrame) = Timestamp(movie, asked)
  BY <1>2 DEF FFInv
<1>4. TicksPerFrame(movie) \in Nat \ {0}
  BY <1>1, TpfType
<1>5. pFrame = asked \/ pFrame = asked + 1
  <2>1. /\ Pts(movie, pFrame) + 0 >= Timestamp(movie, asked)
        /\ Pts(movie, pFrame) - Timestamp(movie, asked) < TicksPerFrame(movie)
    BY <1>2, <1>3, <1>4
  <2> QED BY <1>1, <1>3, <2>1, WithinOneFrame
<1>6. CASE ~movie.cut /\ pFrame = asked + 1
  <2>1. Timestamp(movie, asked) < Timestamp(movie, pFrame)
    BY <1>1, <1>3, <1>6, TimesAreOrdered
  <2> QED BY <1>2, <1>3, <1>6, <2>1 DEF Pts
<1> QED BY <1>5, <1>6

\* The search ends with the frame that was asked for, or with the next one, and
\* that only where time-stamps are rounded.
LEMMA FoundIsAsked ==
  ASSUME FFInv, FineTimes, asked # Nothing, NEW n \in Nat, Reached(n), Matches(n)
  PROVE  n = asked \/ (~ExactTimes(movie) /\ n = asked + 1)
<1>1. movie \in Movies /\ asked \in Nat /\ movie.hz >= FrameRate(movie)
  BY LimitAssumption DEF FFInv, FineTimes
<1>2. Prefuzz \in {0, 1} /\ (Prefuzz = 1 => TicksPerFrame(movie) > 10)
  BY DEF Prefuzz
<1>3. n = asked \/ n = asked + 1
  BY <1>1, <1>2, WithinOneFrame DEF Reached, Matches, Target
<1>4. CASE ExactTimes(movie) /\ n = asked + 1
  <2>1. PICK T \in Nat \ {0} : /\ T = TicksPerFrame(movie) /\ Target = asked * T
                               /\ Pts(movie, n) = (asked + 1) * T
    BY <1>1, <1>4, ExactProducts DEF Target
  <2>2. (asked + 1) * T - asked * T = T
    BY <1>1
  <2> QED BY <2>1, <2>2 DEF Matches
<1> QED BY <1>3, <1>4

\* In a search of a movie whose frames are in order, the next packet is a frame
\* up to the one asked for, and the codec returns it at once.
LEMMA NextFrame ==
  ASSUME FFInv, OnTrack, searching, Gapless(movie)
  PROVE  /\ movie \in Movies /\ asked \in Nat
         /\ codec \in CodecStates /\ codec.inside = {}
         /\ EndOfFile => Fed = [codec EXCEPT !.drain = TRUE] /\ Received(Fed) = {}
         /\ ~EndOfFile =>
              /\ IsVideo(movie, position) /\ position - 1 \in 0 .. asked
              /\ Fed.inside = {position - 1} /\ Received(Fed) = {position - 1}
              /\ Fed \in CodecStates /\ Fed.base \in Nat /\ Fed.base <= position - 1
<1>1. /\ movie \in Movies /\ movie # Nothing /\ asked \in Nat /\ position \in Nat \ {0}
  BY MovieAssumption, LimitAssumption DEF FFInv
<1>2. codec \in CodecStates /\ codec.inside = {} /\ position <= asked + 1
  BY <1>1 DEF OnTrack
<1>3. CASE EndOfFile
  <2>1. Fed = [codec EXCEPT !.drain = TRUE]
    BY <1>3 DEF Fed
  <2>2. Fed.inside = {}
    BY <1>2, <2>1 DEF CodecStates
  <2> QED BY <1>1, <1>2, <1>3, <2>1, <2>2 DEF Received
<1>4. CASE ~EndOfFile
  <2>1. DOMAIN movie.packets = 1 .. Len(movie.packets) /\ Len(movie.packets) \in Nat
    BY <1>1, MovieAssumption
  <2>2. movie.packets[position] = position - 1
    BY <1>1, <1>4, <2>1 DEF EndOfFile, Gapless
  <2>3. PICK n \in Nat : n = position - 1
    BY <1>1
  <2>4. movie.packets[position] = n /\ n <= asked
    BY <1>1, <1>2, <2>2, <2>3
  <2>5. IsVideo(movie, position)
    BY <2>4, MovieAssumption DEF IsVideo
  <2>6. Fed \in CodecStates /\ Fed.inside = {n} /\ Fed.base \in Nat /\ Fed.base <= n
    <3>1. CASE codec.base = Nothing /\ n \in movie.keys
      <4>1. Fed = [codec EXCEPT !.base = n, !.inside = {n}]
        BY <1>4, <2>4, <3>1 DEF Fed
      <4>2. n \in Nat \cup {Nothing} /\ {n} \in SUBSET Nat /\ n <= n
        OBVIOUS
      <4> QED BY <1>2, <4>1, <4>2 DEF CodecStates
    <3>2. CASE codec.base \in Nat /\ codec.base < n
      <4>1. codec.base # Nothing /\ n > codec.base
        BY <3>2, MovieAssumption
      <4>2. Fed = [codec EXCEPT !.inside = codec.inside \cup {n}]
        BY <1>4, <2>4, <4>1 DEF Fed
      <4> QED BY <1>2, <3>2, <4>2 DEF CodecStates
    <3> QED BY <1>1, <2>3, <3>1, <3>2 DEF OnTrack
  <2>7. Received(Fed) = {n}
    <3>1. movie.delay = 0
      BY DEF Gapless
    <3>2. Cardinality(Fed.inside) = 1
      BY <2>6, FS_Singleton
    <3>3. {a \in {n} : \A b \in {n} : a <= b} = {n}
      OBVIOUS
    <3> QED BY <2>6, <3>1, <3>2, <3>3 DEF Received
  <2> QED BY <1>1, <1>2, <1>4, <2>3, <2>4, <2>5, <2>6, <2>7
<1> QED BY <1>3, <1>4

\* The frame it reads is not after the one asked for: it is that one, or it is
\* too early.
LEMMA NeverTooLate ==
  ASSUME FFInv, OnTrack, FineTimes, searching, Gapless(movie), NEW n, Receives(n)
  PROVE  /\ ~EndOfFile /\ n = position - 1 /\ n \in 0 .. asked
         /\ Matches(n)
         /\ Reached(n) <=> n = asked
<1>1. movie \in Movies /\ asked \in Nat /\ movie.hz >= FrameRate(movie) /\ asked # Nothing
  BY NextFrame DEF FineTimes, FFInv
<1>2. ~EndOfFile /\ n = position - 1 /\ n \in 0 .. asked
  BY NextFrame DEF Receives
<1>3. PICK p \in Nat, t \in Nat : p = Pts(movie, n) /\ t = Target /\ p = Timestamp(movie, n)
  BY <1>1, <1>2, Rounded DEF Target, Gapless, Pts
<1>4. p <= t
  <2>1. CASE n = asked
    BY <1>3, <2>1 DEF Target
  <2>2. CASE n < asked
    BY <1>1, <1>2, <1>3, <2>2, TimesAreOrdered DEF Target
  <2> QED BY <1>1, <1>2, <2>1, <2>2
<1>5. Matches(n)
  BY <1>1, <1>3, <1>4, TpfType DEF Matches
<1>6. Reached(n) => n = asked
  BY <1>1, <1>2, <1>5, FoundIsAsked
<1>7. n = asked => Reached(n)
  <2>1. Prefuzz \in {0, 1}
    BY DEF Prefuzz
  <2> QED BY <1>3, <2>1 DEF Reached, Target
<1> QED BY <1>2, <1>5, <1>6, <1>7

-----------------------------------------------------------------------------
(***************************************************************************)
(* Every action keeps the invariant and is a step of FrameServer, or none. *)
(***************************************************************************)

Implements == FFInv' /\ (Promise!Next \/ UNCHANGED <<movie, asked, picture>>)

LEMMA OpenImplements ==
  ASSUME FFInv, NEW m \in Movies, OpenMovie(m)
  PROVE  Implements
<1>1. Promise!Open(m)
  BY DEF OpenMovie, Promise!Open
<1>2. FFInv'
  BY DEF OpenMovie, FFInv, Flushed, search
<1> QED BY <1>1, <1>2 DEF Implements, Promise!Next

LEMMA CloseImplements == ASSUME FFInv, CloseMovie PROVE Implements
<1>1. Promise!Close
  BY DEF CloseMovie, Promise!Close
<1>2. FFInv'
  BY DEF CloseMovie, FFInv, Flushed, search
<1> QED BY <1>1, <1>2 DEF Implements, Promise!Next

LEMMA DecodeImplements ==
  ASSUME FFInv, NEW n \in FrameNumbers, Decode(n)
  PROVE  Implements
<1>1. Promise!Ask(n)
  BY DEF Decode, Promise!Ask
<1>2. n # Nothing
  BY LimitAssumption, MovieAssumption
<1>3. FFInv'
  BY <1>2 DEF Decode, FFInv, stream, search
<1> QED BY <1>1, <1>3 DEF Implements, Promise!Next

\* Giving up is an answer, as long as avprev stays right.
LEMMA BlackImplements ==
  ASSUME FFInv, asked # Nothing, RenderedEmpty, movie' = movie,
         position' \in Nat \ {0}, codec'.inside \subseteq Nat,
         avprev' = -1 \/ (avprev' = avprev /\ pFrame' = pFrame)
  PROVE  Implements
<1>1. Promise!Answer
  BY DEF RenderedEmpty, Promise!Answer
<1>2. FFInv'
  BY DEF RenderedEmpty, FFInv
<1> QED BY <1>1, <1>2 DEF Implements, Promise!Next

LEMMA StartImplements ==
  ASSUME FFInv, FineTimes,
         SeekOutOfRange \/ SeekSameFrame \/ SeekStart
  PROVE  Implements
<1>1. CASE SeekOutOfRange
  <2>1. /\ asked # Nothing /\ RenderedEmpty
        /\ UNCHANGED <<movie, avprev, position, codec, pFrame>>
    BY <1>1 DEF SeekOutOfRange, stream
  <2> QED BY <2>1, BlackImplements DEF FFInv
<1>2. CASE SeekSameFrame
  <2>1. asked # Nothing /\ (pFrame = asked \/ (movie.cut /\ pFrame = asked + 1))
    BY <1>2, SameFrameIsAsked DEF SeekSameFrame
  <2>2. Promise!Answer
    BY <1>2, <2>1 DEF SeekSameFrame, Rendered, ExactTimes, Gapless, Promise!Answer
  <2>3. FFInv'
    BY <1>2 DEF SeekSameFrame, Rendered, FFInv, stream
  <2> QED BY <2>2, <2>3 DEF Implements, Promise!Next
<1>3. CASE SeekStart
  <2>1. movie \in Movies /\ asked # Nothing
    BY <1>3 DEF SeekStart, FFInv
  <2>2. position' \in Nat \ {0} /\ codec'.inside \subseteq Nat
    <3>1. CASE SeekTo(Target)
      BY <2>1, <3>1, SeekPositionType DEF SeekTo, Flushed
    <3>2. CASE UNCHANGED <<position, codec>>
      BY <3>2 DEF FFInv
    <3> QED BY <1>3, <3>1, <3>2 DEF SeekStart
  <2>3. FFInv'
    BY <1>3, <2>1, <2>2 DEF SeekStart, FFInv
  <2> QED BY <1>3, <2>3 DEF Implements, SeekStart
<1> QED BY <1>1, <1>2, <1>3

\* The search goes on: no answer yet.
LEMMA SearchGoesOn ==
  ASSUME FFInv, searching, UNCHANGED <<movie, avprev, asked, searching, picture>>,
         position' \in Nat \ {0}, codec'.inside \subseteq Nat
  PROVE  Implements
<1>1. FFInv'
  BY DEF FFInv
<1> QED BY <1>1 DEF Implements

LEMMA AdvanceType == ASSUME FFInv, Advance PROVE position' \in Nat \ {0}
BY DEF Advance, FFInv

\* What is left in the codec when it has returned a frame.
LEMMA ReceiveType ==
  ASSUME FFInv, searching, NEW n, Receives(n)
  PROVE  n \in Nat /\ [Fed EXCEPT !.inside = @ \ {n}].inside \subseteq Nat
<1>1. Fed.inside \subseteq Nat
  BY FedType DEF Receives
<1>2. n \in Fed.inside
  BY DEF Receives, Received
<1> QED BY <1>1, <1>2

LEMMA SearchingImplements ==
  ASSUME FFInv, OnTrack, FineTimes, searching, Searching
  PROVE  Implements
<1>1. movie \in Movies /\ asked # Nothing /\ avprev = -1
  BY DEF FFInv
<1>2. CASE SearchError
  BY <1>1, <1>2, BlackImplements DEF SearchError, FFInv
<1>3. CASE SkipPacket
  <2>1. position' \in Nat \ {0}
    BY <1>3, AdvanceType DEF SkipPacket
  <2> QED BY <1>3, <2>1, SearchGoesOn DEF SkipPacket, FFInv
<1>4. CASE FeedOnly
  BY <1>4, AdvanceType, FedType, SearchGoesOn DEF FeedOnly
<1>5. CASE GiveUp
  BY <1>1, <1>5, BlackImplements DEF GiveUp, stream, FFInv
<1>6. ASSUME NEW n, FrameEarly(n)
      PROVE  Implements
  BY <1>6, AdvanceType, ReceiveType, SearchGoesOn DEF FrameEarly
<1>7. ASSUME NEW n, FrameFound(n)
      PROVE  Implements
  <2>1. n \in Nat /\ codec'.inside \subseteq Nat /\ position' \in Nat \ {0}
    BY <1>7, AdvanceType, ReceiveType DEF FrameFound
  <2>2. n = asked \/ (~ExactTimes(movie) /\ ~Gapless(movie) /\ n = asked + 1)
    <3>1. n = asked \/ (~ExactTimes(movie) /\ n = asked + 1)
      BY <1>1, <1>7, <2>1, FoundIsAsked DEF FrameFound
    <3>2. Gapless(movie) => n = asked
      BY <1>7, NeverTooLate DEF FrameFound
    <3> QED BY <3>1, <3>2
  <2>3. Promise!Answer
    BY <1>1, <1>7, <2>2 DEF FrameFound, Rendered, Promise!Answer
  <2>4. movie' = movie /\ pFrame' = n /\ avprev' = Pts(movie, n)
    BY <1>7 DEF FrameFound
  <2>5. avprev' = Pts(movie', pFrame')
    BY <2>4
  <2>6. FFInv'
    BY <1>1, <1>7, <2>1, <2>4, <2>5 DEF FrameFound, Rendered, FFInv
  <2> QED BY <2>3, <2>6 DEF Implements, Promise!Next
<1>8. ASSUME NEW n, FrameLateFirst(n)
      PROVE  Implements
  <2>1. position' \in Nat \ {0} /\ codec'.inside \subseteq Nat
    BY <1>1, <1>8, SeekPositionType DEF FrameLateFirst, SeekTo, Flushed
  <2> QED BY <1>8, <2>1, SearchGoesOn DEF FrameLateFirst
<1>9. ASSUME NEW n, FrameLate(n)
      PROVE  Implements
  <2>1. codec'.inside \subseteq Nat /\ position' \in Nat \ {0}
    BY <1>9, AdvanceType, ReceiveType DEF FrameLate
  <2> QED BY <1>1, <1>9, <2>1, BlackImplements DEF FrameLate
<1> QED BY <1>2, <1>3, <1>4, <1>5, <1>6, <1>7, <1>8, <1>9 DEF Searching

LEMMA FFStep ==
  ASSUME FFInv, OnTrack, FineTimes, [FFNext]_ffVars
  PROVE  Implements
<1>1. CASE UNCHANGED ffVars
  BY <1>1 DEF Implements, FFInv, ffVars, stream, search
<1> QED BY <1>1, OpenImplements, CloseImplements, DecodeImplements, StartImplements,
           SearchingImplements DEF FFNext

-----------------------------------------------------------------------------
(***************************************************************************)
(* Where the frames are all in order, the decoder stays on track.          *)
(***************************************************************************)

\* Without reordering, decoding time-stamps are those of the frames.
LEMMA DtsInOrder ==
  ASSUME NEW m \in Movies, Gapless(m), NEW q \in DOMAIN m.packets
  PROVE  Dts(m, q) = Timestamp(m, q - 1)
<1>1. PICK len \in Nat : DOMAIN m.packets = 1 .. len
  BY MovieAssumption
<1>2. q \in 1 .. len /\ q - 1 \in Nat /\ 1 .. q - 1 \subseteq 1 .. len
  BY <1>1
<1>3. ASSUME NEW r \in 1 .. q - 1
      PROVE  IsVideo(m, r)
  <2>1. m.packets[r] = r - 1 /\ r - 1 \in Nat
    BY <1>1, <1>2 DEF Gapless
  <2> QED BY <2>1, MovieAssumption DEF IsVideo
<1>4. {r \in 1 .. q - 1 : IsVideo(m, r)} = 1 .. q - 1
  BY <1>3
<1>5. Cardinality(1 .. q - 1) - m.delay = q - 1
  <2>1. m.delay = 0
    BY DEF Gapless
  <2>2. Cardinality(1 .. q - 1) = q - 1
    BY <1>2, FS_Interval
  <2> QED BY <1>2, <2>1, <2>2
<1> QED BY <1>4, <1>5 DEF Dts

\* av_seek_frame() lands on a key-frame that is not after frame n.
LEMMA LandsOnKey ==
  ASSUME NEW m \in Movies, Gapless(m), m.hz >= FrameRate(m), NEW n \in Nat,
         NEW p \in SeekPositions(m, Timestamp(m, n))
  PROVE  p \in Nat \ {0} /\ p - 1 \in m.keys /\ p <= n + 1
<1>1. PICK len \in Nat : DOMAIN m.packets = 1 .. len
  BY MovieAssumption
<1> DEFINE keys == {q \in 1 .. len : m.packets[q] \in m.keys /\ Dts(m, q) <= Timestamp(m, n)}
<1>2. SeekPositions(m, Timestamp(m, n))
        = IF keys = {} THEN {1} ELSE {q \in keys : \A r \in keys : r <= q}
  BY <1>1 DEF SeekPositions
<1>3. CASE p \in keys
  <2>1. p \in 1 .. len /\ p - 1 \in Nat /\ p - 1 \in m.keys
    BY <1>1, <1>3 DEF Gapless
  <2>2. Dts(m, p) = Timestamp(m, p - 1)
    BY <1>1, <2>1, DtsInOrder
  <2>3. Timestamp(m, p - 1) <= Timestamp(m, n)
    BY <1>3, <2>2
  <2>4. Timestamp(m, p - 1) \in Nat /\ Timestamp(m, n) \in Nat
    BY <2>1, Rounded
  <2>5. ~(n < p - 1)
    <3>1. n < p - 1 => Timestamp(m, n) < Timestamp(m, p - 1)
      BY <2>1, TimesAreOrdered
    <3> QED BY <2>3, <2>4, <3>1
  <2> QED BY <2>1, <2>5
<1>4. CASE p = 1
  BY <1>4 DEF Gapless
<1> HIDE DEF keys
<1> QED BY <1>2, <1>3, <1>4

\* Going on from the frame of the last request, when it is before this one.
LEMMA ReadsOn ==
  ASSUME FFInv, OnTrack, FineTimes, Gapless(movie), asked # Nothing, ~NeedsSeek
  PROVE  /\ pFrame \in Nat /\ avprev = Timestamp(movie, pFrame) /\ pFrame < asked
         /\ position = pFrame + 2 /\ codec.base \in Nat /\ codec.base < position - 1
<1>1. movie \in Movies /\ movie # Nothing /\ asked \in Nat /\ movie.hz >= FrameRate(movie)
  BY MovieAssumption, LimitAssumption DEF FFInv, FineTimes
<1>2. avprev # -1 /\ ~(avprev >= Target)
  BY DEF NeedsSeek
<1>3. pFrame \in Nat /\ avprev = Timestamp(movie, pFrame)
  BY <1>2 DEF FFInv, Pts, Gapless
<1>4. position = pFrame + 2 /\ codec.base \in Nat /\ codec.base <= pFrame
  BY <1>1, <1>2 DEF OnTrack
<1>5. Timestamp(movie, pFrame) \in Nat /\ Timestamp(movie, asked) \in Nat
  BY <1>1, <1>3, Rounded
<1>6. pFrame < asked
  <2>1. asked < pFrame => Timestamp(movie, asked) < Timestamp(movie, pFrame)
    BY <1>1, <1>3, TimesAreOrdered
  <2>2. ~(Timestamp(movie, pFrame) >= Timestamp(movie, asked))
    BY <1>2, <1>3 DEF Target
  <2>3. asked # pFrame
    BY <1>5, <2>2
  <2> QED BY <1>1, <1>3, <1>5, <2>1, <2>2, <2>3
<1> QED BY <1>3, <1>4, <1>6

LEMMA SeekStartsOnTrack ==
  ASSUME FFInv, OnTrack, FineTimes, SeekStart
  PROVE  OnTrack'
<1>1. movie' = movie /\ asked' = asked /\ avprev' = -1
  BY DEF SeekStart
<1> SUFFICES ASSUME movie # Nothing, Gapless(movie)
             PROVE  /\ codec' \in CodecStates /\ codec'.inside = {}
                    /\ position' <= asked + 1
                    /\ \/ codec'.base = Nothing /\ position' - 1 \in movie.keys
                       \/ codec'.base \in Nat /\ codec'.base < position' - 1
  BY <1>1 DEF OnTrack
<1>2. movie \in Movies /\ asked \in Nat /\ movie.hz >= FrameRate(movie) /\ asked # Nothing
  BY LimitAssumption DEF FFInv, FineTimes, SeekStart
<1>3. CASE NeedsSeek
  <2>1. position' \in SeekPositions(movie, Timestamp(movie, asked)) /\ codec' = Flushed
    BY <1>3 DEF SeekStart, SeekTo, Target
  <2>2. position' - 1 \in movie.keys /\ position' <= asked + 1
    BY <1>2, <2>1, LandsOnKey
  <2> QED BY <2>1, <2>2 DEF Flushed, CodecStates
<1>4. CASE ~NeedsSeek
  <2>1. position' = position /\ codec' = codec
    BY <1>4 DEF SeekStart
  <2>2. position = pFrame + 2 /\ pFrame \in Nat /\ pFrame < asked
        /\ codec.base \in Nat /\ codec.base < position - 1
    BY <1>2, <1>4, ReadsOn
  <2>3. position' <= asked + 1
    BY <1>2, <2>1, <2>2
  <2> QED BY <2>1, <2>2, <2>3 DEF OnTrack
<1> QED BY <1>3, <1>4

LEMMA SearchStaysOnTrack ==
  ASSUME FFInv, OnTrack, FineTimes, searching, Searching
  PROVE  OnTrack'
<1>1. movie' = movie
  BY DEF Searching, SearchError, SkipPacket, FeedOnly, GiveUp, FrameEarly, FrameFound,
     FrameLateFirst, FrameLate
<1> SUFFICES ASSUME movie # Nothing, Gapless(movie)
             PROVE  OnTrack'
  BY <1>1 DEF OnTrack
<1>2. /\ movie \in Movies /\ asked \in Nat /\ avprev = -1
      /\ codec \in CodecStates /\ codec.inside = {} /\ position <= asked + 1
      /\ position \in Nat \ {0}
      /\ \/ codec.base = Nothing /\ position - 1 \in movie.keys
         \/ codec.base \in Nat /\ codec.base < position - 1
  BY NextFrame DEF FFInv, OnTrack
<1>3. CASE SearchError \/ GiveUp
  BY <1>1, <1>2, <1>3 DEF SearchError, GiveUp, RenderedEmpty, OnTrack, stream
<1>4. CASE SkipPacket
  <2>1. EndOfFile
    BY <1>4, NextFrame DEF SkipPacket
  <2> QED BY <1>1, <1>2, <1>4, <2>1 DEF SkipPacket, Advance, OnTrack
<1>5. CASE FeedOnly
  <2>1. EndOfFile
    BY <1>5, NextFrame DEF FeedOnly
  <2>2. codec' = [codec EXCEPT !.drain = TRUE] /\ position' = position
    BY <1>5, <2>1, NextFrame DEF FeedOnly, Advance
  <2>3. codec' \in CodecStates /\ codec'.inside = {} /\ codec'.base = codec.base
    BY <1>2, <2>2 DEF CodecStates
  <2> QED BY <1>1, <1>2, <1>5, <2>2, <2>3 DEF FeedOnly, OnTrack
<1>6. ASSUME NEW n, Receives(n), Advance, codec' = [Fed EXCEPT !.inside = @ \ {n}]
      PROVE  /\ codec' \in CodecStates /\ codec'.inside = {}
             /\ codec'.base \in Nat /\ codec'.base <= n
             /\ n = position - 1 /\ n \in 0 .. asked /\ position' = position + 1
  <2>1. ~EndOfFile /\ n = position - 1 /\ n \in 0 .. asked
    BY <1>6, NeverTooLate
  <2>2. Fed \in CodecStates /\ Fed.inside = {n} /\ Fed.base \in Nat /\ Fed.base <= n
    BY <2>1, NextFrame
  <2>3. codec' \in CodecStates /\ codec'.inside = {} /\ codec'.base = Fed.base
    BY <1>6, <2>2 DEF CodecStates
  <2> QED BY <1>6, <2>1, <2>2, <2>3 DEF Advance
<1>7. ASSUME NEW n, FrameEarly(n)
      PROVE  OnTrack'
  <2>1. n # asked
    BY <1>7, NeverTooLate DEF FrameEarly
  <2>2. /\ codec' \in CodecStates /\ codec'.inside = {}
        /\ codec'.base \in Nat /\ codec'.base <= n
        /\ n = position - 1 /\ n \in 0 .. asked /\ position' = position + 1
    BY <1>6, <1>7 DEF FrameEarly
  <2>3. position' <= asked + 1 /\ codec'.base < position' - 1
    BY <1>2, <2>1, <2>2
  <2> QED BY <1>1, <1>2, <1>7, <2>2, <2>3 DEF FrameEarly, OnTrack
<1>8. ASSUME NEW n, FrameFound(n)
      PROVE  OnTrack'
  <2>1. /\ codec' \in CodecStates /\ codec'.inside = {}
        /\ codec'.base \in Nat /\ codec'.base <= n
        /\ n = position - 1 /\ position' = position + 1
    BY <1>6, <1>8 DEF FrameFound
  <2>2. pFrame' = n /\ searching' = FALSE
    BY <1>8 DEF FrameFound, Rendered
  <2>3. position' = pFrame' + 2
    BY <1>2, <2>1, <2>2
  <2> QED BY <1>1, <2>1, <2>2, <2>3 DEF OnTrack
<1>9. ASSUME NEW n, FrameLateFirst(n) \/ FrameLate(n)
      PROVE  FALSE
  BY <1>9, NeverTooLate DEF FrameLateFirst, FrameLate
<1> QED BY <1>3, <1>4, <1>5, <1>7, <1>8, <1>9 DEF Searching

LEMMA OnTrackStep ==
  ASSUME FFInv, OnTrack, FineTimes, [FFNext]_ffVars
  PROVE  OnTrack'
<1>1. CASE UNCHANGED ffVars
  BY <1>1 DEF OnTrack, ffVars, stream, search
<1>2. ASSUME NEW m \in Movies, OpenMovie(m)
      PROVE  OnTrack'
  BY <1>2 DEF OpenMovie, OnTrack, FFInv, Flushed, CodecStates, search
<1>3. CASE CloseMovie
  BY <1>3 DEF CloseMovie, OnTrack
<1>4. ASSUME NEW n \in FrameNumbers, Decode(n)
      PROVE  OnTrack'
  BY <1>4 DEF Decode, OnTrack, FFInv, stream, search
<1>5. CASE SeekOutOfRange \/ SeekSameFrame
  BY <1>5 DEF SeekOutOfRange, SeekSameFrame, RenderedEmpty, Rendered, OnTrack, stream
<1> QED BY <1>1, <1>2, <1>3, <1>4, <1>5, SeekStartsOnTrack, SearchStaysOnTrack DEF FFNext

LEMMA FFInitially == FFInit => FFInv /\ OnTrack /\ Promise!Init
BY DEF FFInit, FFInv, OnTrack, Flushed, Promise!Init

\* Whatever a decoder was asked before and wherever its seeks land, its answer
\* to my_decode() is the frame that was asked for, or black: for every movie
\* whose time-stamps are exact, for every movie that has all frames in order,
\* and for every SeekWindow, Reseek and Bailout.  Of any other movie it is at
\* most one frame late: the decoder implements FrameServer.
THEOREM DecoderIsFrameAccurate ==
  ASSUME \A m \in Movies : m.hz >= FrameRate(m)
  PROVE  FFSpec => FrameAccurate
<1>1. FineTimes
  BY DEF FineTimes
<1>2. FFInv /\ OnTrack /\ [FFNext]_ffVars
        => FFInv' /\ OnTrack' /\ [Promise!Next]_<<movie, asked, picture>>
  BY <1>1, FFStep, OnTrackStep DEF Implements
<1>3. FFSpec => FFInit /\ [][FFNext]_ffVars
  BY DEF FFSpec
<1> QED BY <1>2, <1>3, FFInitially, PTL DEF FrameAccurate, Promise!Spec

-----------------------------------------------------------------------------
(***************************************************************************)
(* Where the frames are all in order, every frame is found, if the search  *)
(* may read from one key-frame to the next.                                *)
(***************************************************************************)

\* A key-frame from which the search reaches frame n in time
Start(m, n, k) == k \in m.keys /\ k \in 0 .. n /\ n - k < Bailout

InOrder(m) ==
  /\ Gapless(m) /\ m.hz >= FrameRate(m)
  /\ \A n \in Nat : n < Frames(m) => n + 1 \in DOMAIN m.packets /\ \E k \in Nat : Start(m, n, k)

AllInOrder == 2 * SeekWindow < Bailout /\ \A m \in Movies : InOrder(m)

\* A search runs for a frame of the movie, and has attempts left to reach it.
Progress ==
  /\ bailout \in Int
  /\ searching => InRange /\ asked + 1 - position < bailout

SeekInv == FFInv /\ OnTrack /\ Progress

\* av_seek_frame() lands near enough to frame n.
LEMMA LandsNear ==
  ASSUME AllInOrder, NEW m \in Movies, NEW n \in Nat, n < Frames(m),
         NEW p \in SeekPositions(m, Timestamp(m, n))
  PROVE  n + 1 - p < Bailout
<1>1. Gapless(m) /\ m.hz >= FrameRate(m)
  BY DEF AllInOrder, InOrder
<1>2. PICK len \in Nat : DOMAIN m.packets = 1 .. len
  BY MovieAssumption
<1>3. PICK k \in Nat : k \in m.keys /\ k <= n /\ n - k < Bailout /\ n + 1 \in 1 .. len
  <2>1. n + 1 \in DOMAIN m.packets /\ \E k \in Nat : Start(m, n, k)
    BY DEF AllInOrder, InOrder
  <2> QED BY <1>2, <2>1 DEF Start
<1>4. k + 1 \in 1 .. len /\ (k + 1) - 1 = k
  BY <1>2, <1>3
<1>5. m.packets[k + 1] = k /\ Dts(m, k + 1) = Timestamp(m, k)
  <2>1. m.packets[k + 1] = (k + 1) - 1
    BY <1>1, <1>2, <1>4 DEF Gapless
  <2>2. Dts(m, k + 1) = Timestamp(m, (k + 1) - 1)
    BY <1>1, <1>2, <1>4, DtsInOrder
  <2> QED BY <1>4, <2>1, <2>2
<1>6. Timestamp(m, k) <= Timestamp(m, n)
  <2>1. Timestamp(m, k) \in Nat /\ Timestamp(m, n) \in Nat
    BY Rounded
  <2>2. k < n => Timestamp(m, k) < Timestamp(m, n)
    BY <1>1, TimesAreOrdered
  <2> QED BY <1>3, <2>1, <2>2
<1>7. k + 1 <= p
  BY <1>2, <1>3, <1>4, <1>5, <1>6 DEF SeekPositions
<1>8. p \in Nat
  BY <1>1, LandsOnKey
<1> QED BY <1>3, <1>7, <1>8, LimitAssumption

\* Without a seek the frame is near enough as well: tpf may be rounded up, but
\* by no more than half.
LEMMA ReadsNear ==
  ASSUME AllInOrder, SeekInv, asked # Nothing, ~NeedsSeek
  PROVE  asked + 1 - position < Bailout
<1>1. movie \in Movies /\ asked \in Nat /\ Gapless(movie) /\ movie.hz >= FrameRate(movie) /\ FineTimes
  BY LimitAssumption DEF SeekInv, FFInv, AllInOrder, InOrder, FineTimes
<1>2. /\ pFrame \in Nat /\ avprev = Timestamp(movie, pFrame) /\ pFrame < asked
      /\ position = pFrame + 2
  BY <1>1, ReadsOn DEF SeekInv
<1>3. PICK f \in Nat \ {0} : f = FrameRate(movie)
  BY <1>1, FrameRateType
<1>4. PICK h \in Nat \ {0} : h = movie.hz
  BY <1>1, MovieAssumption
<1>5. PICK W \in Nat : W = SeekWindow
  BY LimitAssumption
<1>6. PICK T \in Nat : /\ T = TicksPerFrame(movie) /\ 2 * (f * T) <= 2 * (1 * h) + f
  BY <1>1, <1>3, <1>4, Rounded DEF TicksPerFrame
<1>7. PICK t \in Nat : t = Target /\ 2 * (asked * h) < 2 * (f * t) + f
  BY <1>1, <1>3, <1>4, Rounded DEF Target
<1>8. PICK s \in Nat : s = avprev /\ 2 * (f * s) <= 2 * (pFrame * h) + f
  BY <1>1, <1>2, <1>3, <1>4, Rounded
<1>9. t <= s + W * T
  <2>1. ~(avprev + SeekWindow * TicksPerFrame(movie) < Target)
    BY DEF NeedsSeek
  <2>2. W * T \in Nat
    OBVIOUS
  <2> QED BY <1>5, <1>6, <1>7, <1>8, <2>1, <2>2
<1>10. f * t <= f * s + W * (f * T)
  <2>1. PICK x \in Nat : x = s + W * T
    OBVIOUS
  <2>2. t * f <= x * f
    BY <1>9, <2>1, ProductsAreOrdered
  <2>3. t * f = f * t /\ x * f = f * s + W * (f * T)
    BY <2>1
  <2> QED BY <2>2, <2>3
<1>11. 2 * (W * (f * T)) <= W * (3 * h)
  <2>1. PICK y \in Nat, z \in Nat : y = 2 * (f * T) /\ z = 3 * h
    OBVIOUS
  <2>2. y <= z
    BY <1>1, <1>3, <1>4, <1>6, <2>1
  <2>3. PICK d \in Nat : z = y + d
    BY <2>2
  <2>4. W * z = W * y + W * d /\ W * d >= 0 /\ W * y \in Int
    BY <2>3
  <2>5. W * y = 2 * (W * (f * T))
    BY <2>1
  <2> QED BY <2>1, <2>4, <2>5
<1>12. asked < pFrame + 2 * W + 1
  <2>1. SUFFICES ASSUME asked >= pFrame + 2 * W + 1
                 PROVE  FALSE
    BY <1>1, <1>2
  <2>2. PICK e \in Nat : asked = pFrame + 2 * W + 1 + e
    BY <1>1, <1>2, <2>1
  <2>3. asked * h = pFrame * h + 2 * (W * h) + h + e * h
    BY <2>2, <1>2
  <2>4. /\ pFrame * h \in Nat /\ W * h \in Nat /\ e * h \in Nat /\ W * (3 * h) = 3 * (W * h)
        /\ f * t \in Nat /\ f * s \in Nat /\ W * (f * T) \in Nat /\ h >= f
    BY <1>1, <1>2, <1>3, <1>4
  <2> QED BY <1>7, <1>8, <1>10, <1>11, <2>3, <2>4
<1> QED BY <1>1, <1>2, <1>5, <1>12, LimitAssumption DEF AllInOrder

AnswersObtainable ==
  asked # Nothing /\ asked' = Nothing /\ Obtainable(movie, asked) => picture' # BlackFrame

LEMMA SearchProgress ==
  ASSUME AllInOrder, SeekInv, searching, Searching
  PROVE  Progress' /\ AnswersObtainable
<1>1. FFInv /\ OnTrack /\ FineTimes /\ Gapless(movie)
  BY DEF SeekInv, FFInv, AllInOrder, InOrder, FineTimes
<1>2. /\ InRange /\ asked + 1 - position < bailout /\ bailout \in Int
      /\ position \in Nat \ {0} /\ position <= asked + 1
  BY <1>1, MovieAssumption DEF SeekInv, FFInv, Progress, OnTrack
<1>3. movie \in Movies /\ asked \in Nat /\ bailout > 0
  BY <1>1, <1>2, NextFrame
<1>4. ~EndOfFile
  <2>1. DOMAIN movie.packets = 1 .. Len(movie.packets) /\ Len(movie.packets) \in Nat
    BY <1>3, MovieAssumption
  <2>2. asked + 1 \in DOMAIN movie.packets
    BY <1>2, <1>3 DEF AllInOrder, InOrder, InRange
  <2> QED BY <1>2, <1>3, <2>1, <2>2 DEF EndOfFile
<1>5. IsVideo(movie, position) /\ Received(Fed) # {}
  BY <1>1, <1>4, NextFrame
<1>6. CASE SearchError
  BY <1>6 DEF SearchError, RenderedEmpty, Progress, AnswersObtainable, Obtainable
<1>7. ~SkipPacket /\ ~FeedOnly /\ ~GiveUp
  <2>1. ~SkipPacket
    BY <1>4, <1>5 DEF SkipPacket
  <2>2. ~FeedOnly
    BY <1>5 DEF FeedOnly
  <2>3. ~GiveUp
    BY <1>2, <1>3 DEF GiveUp
  <2> QED BY <2>1, <2>2, <2>3
<1>8. ASSUME NEW n, FrameEarly(n)
      PROVE  Progress' /\ AnswersObtainable
  <2>1. UNCHANGED <<movie, asked>> /\ bailout' = bailout - 1 /\ position' = position + 1
    BY <1>4, <1>8 DEF FrameEarly, Advance, Cost
  <2>2. asked # Nothing
    BY <1>1 DEF FFInv
  <2>3. InRange'
    BY <1>2, <2>1 DEF InRange
  <2> QED BY <1>2, <1>3, <2>1, <2>2, <2>3 DEF Progress, AnswersObtainable
<1>9. ASSUME NEW n, FrameFound(n)
      PROVE  Progress' /\ AnswersObtainable
  <2>1. n = asked
    BY <1>1, <1>9, NeverTooLate DEF FrameFound
  <2>2. picture' = <<movie, n>> /\ bailout' = 0 /\ searching' = FALSE
    BY <1>9 DEF FrameFound, Rendered
  <2>3. asked \in FrameNumbers
    BY <1>1 DEF FFInv
  <2>4. picture' # BlackFrame
    BY <1>3, <2>1, <2>2, <2>3, BlackAssumption
  <2> QED BY <2>2, <2>4 DEF Progress, AnswersObtainable
<1>10. ASSUME NEW n, FrameLateFirst(n) \/ FrameLate(n)
      PROVE  FALSE
  BY <1>1, <1>10, NeverTooLate DEF FrameLateFirst, FrameLate
<1> QED BY <1>6, <1>7, <1>8, <1>9, <1>10 DEF Searching

LEMMA SeekStep ==
  ASSUME AllInOrder, SeekInv, [FFNext]_ffVars
  PROVE  SeekInv' /\ [AnswersObtainable]_ffVars
<1>1. FFInv' /\ OnTrack'
  <2>1. FFInv /\ OnTrack /\ FineTimes
    BY DEF AllInOrder, InOrder, SeekInv, FineTimes
  <2> QED BY <2>1, FFStep, OnTrackStep DEF Implements
<1> SUFFICES Progress' /\ AnswersObtainable
  BY <1>1 DEF SeekInv
<1>2. CASE UNCHANGED ffVars
  BY <1>2 DEF SeekInv, Progress, AnswersObtainable, InRange, ffVars, stream, search
<1>3. ASSUME NEW m \in Movies, OpenMovie(m)
      PROVE  Progress' /\ AnswersObtainable
  BY <1>3 DEF OpenMovie, SeekInv, FFInv, Progress, AnswersObtainable, search
<1>4. CASE CloseMovie
  BY <1>4 DEF CloseMovie, SeekInv, FFInv, Progress, AnswersObtainable, search
<1>5. ASSUME NEW n \in FrameNumbers, Decode(n)
      PROVE  Progress' /\ AnswersObtainable
  BY <1>5 DEF Decode, SeekInv, FFInv, Progress, AnswersObtainable, search
<1>6. CASE SeekOutOfRange
  BY <1>6 DEF SeekOutOfRange, RenderedEmpty, InRange, Obtainable, Progress, AnswersObtainable
<1>7. CASE SeekSameFrame
  <2>1. bailout' = 0 /\ searching' = FALSE /\ picture' = <<movie, pFrame>>
    BY <1>7 DEF SeekSameFrame, Rendered
  <2>2. pFrame = asked
    BY <1>7, SameFrameIsAsked
       DEF SeekSameFrame, SeekInv, FFInv, AllInOrder, InOrder, FineTimes, Gapless
  <2>3. movie \in Movies /\ asked \in FrameNumbers
    BY <1>7 DEF SeekSameFrame, SeekInv, FFInv
  <2> QED BY <2>1, <2>2, <2>3, BlackAssumption DEF Progress, AnswersObtainable
<1>8. CASE SeekStart
  <2>1. movie \in Movies /\ asked \in Nat /\ asked < Frames(movie) /\ asked # Nothing
    BY <1>8, LimitAssumption DEF SeekInv, FFInv, SeekStart, InRange
  <2>2. UNCHANGED <<movie, asked>> /\ bailout' = Bailout /\ Bailout \in Int
    BY <1>8, LimitAssumption DEF SeekStart
  <2>3. asked + 1 - position' < Bailout
    <3>1. CASE NeedsSeek
      BY <1>8, <2>1, <3>1, LandsNear DEF SeekStart, SeekTo, Target
    <3>2. CASE ~NeedsSeek
      BY <1>8, <2>1, <3>2, ReadsNear DEF SeekStart
    <3> QED BY <3>1, <3>2
  <2>4. InRange'
    BY <2>1, <2>2 DEF InRange
  <2> QED BY <2>1, <2>2, <2>3, <2>4 DEF Progress, AnswersObtainable
<1>9. CASE searching /\ Searching
  BY <1>9, SearchProgress
<1> QED BY <1>2, <1>3, <1>4, <1>5, <1>6, <1>7, <1>8, <1>9 DEF FFNext

\* In a movie that has all frames in order, with a key-frame less than Bailout
\* frames before each of them, no request for a frame of it is answered with
\* black, however its time-stamps are rounded: the demuxer, the codec and avprev
\* are never left where reading on would miss the frame or run out of attempts.
THEOREM SeekingSucceeds ==
  ASSUME AllInOrder
  PROVE  FFSpec => SeekSucceeds
<1>1. FFInit => SeekInv
  BY FFInitially DEF FFInit, SeekInv, Progress
<1>2. SeekInv /\ [FFNext]_ffVars => SeekInv' /\ [AnswersObtainable]_ffVars
  BY SeekStep
<1>3. FFSpec => [][AnswersObtainable]_ffVars
  BY <1>1, <1>2, PTL DEF FFSpec
<1> QED BY <1>3 DEF SeekSucceeds, AnswersObtainable
=============================================================================
