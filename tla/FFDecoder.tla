----------------------------- MODULE FFDecoder ------------------------------
(***************************************************************************)
(* One video decoder (libharvid/ffdecoder.c), as decoder_ctrl.c uses it: a *)
(* movie is opened by a fresh object, one thread at a time has frames      *)
(* decoded into a buffer of the frame cache, and the movie is closed.      *)
(*                                                                         *)
(* The demuxer is a position in the movie's packets, the codec the set of  *)
(* frames it holds back for reordering; both survive from one request to   *)
(* the next, and with them avprev.  One iteration of the search loop is    *)
(* one action.  Memory, scaling, pixel formats and libav* before the       *)
(* send/receive interface are left out, and want_ignstart is never set.  A *)
(* movie that does not open leaves nothing to model: decoder_ctrl.c        *)
(* destroys the object (DecoderCtrl).                                      *)
(***************************************************************************)
EXTENDS Integers, Sequences, FiniteSets

CONSTANTS
  Movies,       \* records, see MovieAssumption
  FrameNumbers, \* the frames clients ask for
  SeekWindow,   \* frames read instead of seeking (32 in the code)
  Reseek,       \* frames the second seek goes back (25 in the code)
  Bailout,      \* iterations of the search loop (600 in the code)
  OtherStream,  \* a packet of another stream
  Nothing,      \* NULL
  BlackFrame

\* What the demuxer reports of the movie, and what is in it:
\*   rates     r_frame_rate, avg_frame_rate and 1 / time_base (0: unknown)
\*   hz        ticks of the time base per second
\*   nb, ticks nb_frames (0: unknown), duration in time-base ticks
\*   packets   frame numbers in decoding order
\*   keys      the frames that are key-frames
\*   delay     frames the codec holds back
\*   first     whether the video is stream 0
\*   cut       whether time-stamps are truncated, not rounded
\*   flaky     whether seeking, reading or decoding may fail
ASSUME MovieAssumption ==
  /\ \A m \in Movies :
       /\ m.rates \in [1 .. 3 -> Nat]
       /\ m.hz \in Nat \ {0}
       /\ m.nb \in Nat /\ m.ticks \in Nat
       /\ m.packets \in Seq(Nat \cup {OtherStream})
       /\ m.delay \in Nat
       /\ m.first \in BOOLEAN /\ m.cut \in BOOLEAN /\ m.flaky \in BOOLEAN
  /\ Nothing \notin Movies /\ Nothing \notin Nat
  /\ OtherStream \notin Nat
ASSUME LimitAssumption ==
  /\ FrameNumbers \subseteq Nat
  /\ SeekWindow \in Nat /\ Reseek \in Nat /\ Bailout \in Nat
ASSUME BlackAssumption == \A m \in Movies, n \in FrameNumbers : BlackFrame # <<m, n>>

VARIABLES
  movie,    \* ff->current_file
  avprev,   \* time-stamp of the frame in pFrame, or -1
  position, \* of the demuxer: the next packet
  codec,    \* the frames in it, where it started, whether it is drained
  pFrame,   \* the last decoded frame
  asked,    \* the frame number ff_render() is called with
  bailout, decoded,   \* locals of my_seek_frame()
  searching,          \* whether its loop runs
  picture   \* what the caller's buffer holds

stream == <<avprev, position, codec, pFrame>>
search == <<bailout, decoded, searching>>
ffVars == <<movie, stream, asked, search, picture>>

Flushed == [base |-> Nothing, inside |-> {}, drain |-> FALSE]

FFInit ==
  /\ movie = Nothing
  /\ avprev = -1 /\ position = 1 /\ codec = Flushed /\ pFrame = Nothing
  /\ asked = Nothing
  /\ bailout = 0 /\ decoded = 0 /\ searching = FALSE
  /\ picture = Nothing

-----------------------------------------------------------------------------
(***************************************************************************)
(* Frame rate and time-stamps                                              *)
(***************************************************************************)

\* ff_set_framerate(): the first rate that makes sense, else 25 fps.
FrameRate(m) ==
  LET sane == {i \in 1 .. 3 : m.rates[i] \in 1 .. 1000}
  IN IF sane = {} THEN 25
     ELSE m.rates[CHOOSE i \in sane : \A j \in sane : i <= j]

\* av_rescale_q(n, 1 / fps, time_base): to the nearest, halves up.
Timestamp(m, n) == (2 * n * m.hz + FrameRate(m)) \div (2 * FrameRate(m))

\* ff->tpf
TicksPerFrame(m) == Timestamp(m, 1)

\* ff->frames: as the container says, or from the duration.
Frames(m) == IF m.nb > 0 THEN m.nb ELSE (m.ticks * FrameRate(m)) \div m.hz

\* The time-stamp the file has for frame n.
Pts(m, n) ==
  IF m.cut THEN (n * m.hz) \div FrameRate(m) ELSE Timestamp(m, n)

-----------------------------------------------------------------------------
(***************************************************************************)
(* ff_open_movie() and ff_close_movie()                                    *)
(***************************************************************************)

OpenMovie(m) ==
  /\ movie = Nothing
  /\ movie' = m
  /\ avprev' = -1 /\ position' = 1 /\ codec' = Flushed /\ pFrame' = Nothing
  /\ UNCHANGED <<asked, search, picture>>

\* ff_destroy(): my_destroy() is only called when idle.
CloseMovie ==
  /\ movie # Nothing /\ asked = Nothing
  /\ movie' = Nothing
  /\ avprev' = -1 /\ position' = 1 /\ codec' = Flushed /\ pFrame' = Nothing
  /\ picture' = Nothing
  /\ UNCHANGED <<asked, search>>

-----------------------------------------------------------------------------
(***************************************************************************)
(* libavformat and libavcodec                                              *)
(***************************************************************************)

IsVideo(m, p) == m.packets[p] # OtherStream

\* Decoding time-stamps count the video packets and start early enough for
\* the codec's delay.
Dts(m, p) == Timestamp(m, Cardinality({q \in 1 .. p - 1 : IsVideo(m, q)}) - m.delay)

\* av_seek_frame(AVSEEK_FLAG_BACKWARD): the last key-frame's packet whose
\* decoding time-stamp is not after ts.
SeekPositions(m, ts) ==
  LET keys == {p \in DOMAIN m.packets : m.packets[p] \in m.keys /\ Dts(m, p) <= ts}
  IN IF keys = {} THEN {1} ELSE {p \in keys : \A q \in keys : q <= p}

EndOfFile == position > Len(movie.packets)

\* avcodec_send_packet(): decoding starts at a key-frame; frames shown before
\* it need pictures the codec does not have and are dropped.
Fed ==
  IF EndOfFile THEN [codec EXCEPT !.drain = TRUE]
  ELSE LET n == movie.packets[position]
       IN CASE codec.base = Nothing /\ n \in movie.keys ->
                 [codec EXCEPT !.base = n, !.inside = {n}]
            [] codec.base # Nothing /\ n > codec.base ->
                 [codec EXCEPT !.inside = @ \cup {n}]
            [] OTHER -> codec

\* avcodec_receive_frame(): the earliest frame once enough are inside.
Received(c) ==
  IF c.drain \/ Cardinality(c.inside) > movie.delay
    THEN {n \in c.inside : \A k \in c.inside : n <= k}
    ELSE {}

-----------------------------------------------------------------------------
(***************************************************************************)
(* my_decode(): ff_resize() to the caller's buffer and ff_render(), which  *)
(* is my_seek_frame() and scaling.                                         *)
(***************************************************************************)

Decode(n) ==
  /\ movie # Nothing /\ asked = Nothing
  /\ asked' = n
  /\ picture' = Nothing
  /\ UNCHANGED <<movie, stream, search>>

\* ff_render() returns 0, with the frame in pFrame scaled to the buffer ...
Rendered(n) ==
  /\ picture' = <<movie, n>>
  /\ asked' = Nothing
  /\ bailout' = 0 /\ decoded' = 0 /\ searching' = FALSE

\* ... or -1: render_empty_frame() paints the buffer black with a cross.
RenderedEmpty ==
  /\ picture' = BlackFrame
  /\ asked' = Nothing
  /\ bailout' = 0 /\ decoded' = 0 /\ searching' = FALSE

Target == Timestamp(movie, asked)
InRange == asked < Frames(movie)

SeekOutOfRange ==
  /\ asked # Nothing /\ ~searching
  /\ ~InRange
  /\ RenderedEmpty
  /\ UNCHANGED <<movie, stream>>

\* A mutant: "the previous frame or later" is taken for the same frame.
AlreadyDecodedLater == avprev >= Target

AlreadyDecoded == avprev = Target

SeekSameFrame ==
  /\ asked # Nothing /\ ~searching
  /\ InRange
  /\ AlreadyDecoded
  /\ Rendered(pFrame)
  /\ UNCHANGED <<movie, stream>>

\* A mutant: going backwards does not seek.
NeedsSeekForward == avprev < 0 \/ avprev + SeekWindow * TicksPerFrame(movie) < Target

NeedsSeek ==
  \/ avprev < 0
  \/ avprev >= Target
  \/ avprev + SeekWindow * TicksPerFrame(movie) < Target

SeekTo(ts) ==
  /\ position' \in SeekPositions(movie, ts)
  /\ codec' = Flushed

\* Seek unless the frame is close, and start the loop.
SeekStart ==
  /\ asked # Nothing /\ ~searching
  /\ InRange
  /\ ~AlreadyDecoded
  /\ IF NeedsSeek THEN SeekTo(Target) ELSE UNCHANGED <<position, codec>>
  /\ avprev' = -1
  /\ bailout' = Bailout /\ decoded' = 0 /\ searching' = TRUE
  /\ UNCHANGED <<movie, pFrame, asked, picture>>

\* Seeking, reading or decoding fails, or the frame has no time-stamp.
SearchError ==
  /\ searching
  /\ movie.flaky
  /\ avprev' = -1
  /\ RenderedEmpty
  /\ UNCHANGED <<movie, position, codec, pFrame>>

\* av_read_frame()
Advance == position' = IF EndOfFile THEN position ELSE position + 1

\* A mutant: only packets the codec gets are counted.
SkipCostNone == 0

\* A packet of another stream does not count, the end of the file does.
SkipCost == IF EndOfFile THEN 1 ELSE 0

\* A packet the codec does not get.  At the end of the file the packet is
\* blank, stream 0, so the codec of another stream is never drained.
SkipPacket ==
  /\ searching /\ bailout > 0
  /\ IF EndOfFile THEN ~movie.first ELSE ~IsVideo(movie, position)
  /\ Advance
  /\ bailout' = bailout - SkipCost
  /\ UNCHANGED <<movie, avprev, codec, pFrame, asked, decoded, searching, picture>>

\* The codec gets a packet, or (at the end of the file) is drained.
Feeds ==
  /\ searching /\ bailout > 0
  /\ IF EndOfFile THEN movie.first ELSE IsVideo(movie, position)

\* bailout is decremented for the end of the file, too.
Cost == IF EndOfFile THEN 2 ELSE 1

\* The codec returns nothing yet.
FeedOnly ==
  /\ Feeds
  /\ Received(Fed) = {}
  /\ codec' = Fed
  /\ Advance
  /\ bailout' = bailout - Cost
  /\ UNCHANGED <<movie, avprev, pFrame, asked, decoded, searching, picture>>

\* The codec returns frame n.
Receives(n) == Feeds /\ n \in Received(Fed)

\* One tick of tolerance for truncated time-stamps.
Prefuzz == IF TicksPerFrame(movie) > 10 THEN 1 ELSE 0
Reached(n) == Pts(movie, n) + Prefuzz >= Target

\* A mutant: any frame at or after the target will do.
MatchesLater(n) == TRUE

Matches(n) == Pts(movie, n) - Target < TicksPerFrame(movie)

\* A frame before the one wanted
FrameEarly(n) ==
  /\ Receives(n)
  /\ ~Reached(n)
  /\ codec' = [Fed EXCEPT !.inside = @ \ {n}]
  /\ Advance
  /\ pFrame' = n
  /\ bailout' = bailout - Cost
  /\ decoded' = decoded + 1
  /\ UNCHANGED <<movie, avprev, asked, searching, picture>>

FrameFound(n) ==
  /\ Receives(n)
  /\ Reached(n) /\ Matches(n)
  /\ codec' = [Fed EXCEPT !.inside = @ \ {n}]
  /\ Advance
  /\ pFrame' = n
  /\ avprev' = Pts(movie, n)
  /\ Rendered(n)
  /\ UNCHANGED movie

Larger(a, b) == IF a > b THEN a ELSE b

\* A mutant: the second seek goes no further back than the first.
ReseekTargetSame == Target

ReseekTarget == Larger(0, Target - TicksPerFrame(movie) * Reseek)

\* The first frame is already too late: seek again, further back.
FrameLateFirst(n) ==
  /\ Receives(n)
  /\ Reached(n) /\ ~Matches(n)
  /\ decoded = 0
  /\ SeekTo(ReseekTarget)
  /\ pFrame' = n
  /\ bailout' = bailout - Cost
  /\ decoded' = 1
  /\ UNCHANGED <<movie, avprev, asked, searching, picture>>

\* A later frame is too late: "Cannot reliably seek to target frame"
FrameLate(n) ==
  /\ Receives(n)
  /\ Reached(n) /\ ~Matches(n)
  /\ decoded > 0
  /\ codec' = [Fed EXCEPT !.inside = @ \ {n}]
  /\ Advance
  /\ pFrame' = n
  /\ RenderedEmpty
  /\ UNCHANGED <<movie, avprev>>

GiveUp ==
  /\ searching /\ bailout <= 0
  /\ RenderedEmpty
  /\ UNCHANGED <<movie, stream>>

-----------------------------------------------------------------------------
Searching ==
  \/ SearchError \/ SkipPacket \/ FeedOnly \/ GiveUp
  \/ \E n \in codec.inside \cup {movie.packets[p] : p \in {position} \cap DOMAIN movie.packets} :
       FrameEarly(n) \/ FrameFound(n) \/ FrameLateFirst(n) \/ FrameLate(n)

FFNext ==
  \/ \E m \in Movies : OpenMovie(m)
  \/ CloseMovie
  \/ \E n \in FrameNumbers : Decode(n)
  \/ SeekOutOfRange \/ SeekSameFrame \/ SeekStart
  \/ searching /\ Searching

FFSpec == FFInit /\ [][FFNext]_ffVars

\* A thread in the search loop goes on.
FFFairness == WF_ffVars(searching /\ Searching)

-----------------------------------------------------------------------------
FFTypeOK ==
  /\ movie \in Movies \cup {Nothing}
  /\ avprev \in Int /\ position \in Nat \ {0} /\ bailout \in Int
  /\ asked \in FrameNumbers \cup {Nothing}
  /\ decoded \in Nat /\ searching \in BOOLEAN

\* Every frame lasts a whole number of ticks: no time-stamp is rounded.
ExactTimes(m) == ~m.cut /\ m.hz % FrameRate(m) = 0

\* Every frame from 0 is in the file, in the order they are shown in.
Gapless(m) ==
  /\ ~m.cut /\ m.delay = 0
  /\ 0 \in m.keys
  /\ \A p \in DOMAIN m.packets : m.packets[p] = p - 1

Promise == INSTANCE FrameServer
  WITH Exact <- {m \in Movies : ExactTimes(m) \/ Gapless(m)}

\* Whatever it was asked before, wherever seeking lands, whatever the codec
\* still holds: the decoder serves the frame that was asked for, or black, if
\* the movie's time-stamps are exact or its frames all in order; of the other
\* movies it may serve the next frame instead, and nothing else.
FrameAccurate == Promise!Spec

\* What README.md says of every movie: "frame-accurate data".
AnswersExactly ==
  [][asked # Nothing /\ asked' = Nothing
       => picture' \in {<<movie, asked>>, BlackFrame}]_ffVars

\* A frame that is in a sound movie, and that the codec can return, is found:
\* by reading on, by one seek to a key-frame, or by the second seek.  (When the
\* last frame has a truncated time-stamp and is asked for twice, the decoder
\* reads on and misses it.)
Obtainable(m, n) ==
  /\ ~m.flaky
  /\ n < Frames(m)
  /\ \E p \in DOMAIN m.packets : m.packets[p] = n
  /\ m.first \/ n < Frames(m) - m.delay
  /\ m.cut => \E p \in DOMAIN m.packets : m.packets[p] = n + 1

SeekSucceeds ==
  [][asked # Nothing /\ asked' = Nothing /\ Obtainable(movie, asked)
       => picture' # BlackFrame]_ffVars

\* The search loop ends, whatever the movie is made of: at the end of the file
\* too, where no packet comes any more and the codec may not be drained.
SearchEnds == searching ~> ~searching
=============================================================================
