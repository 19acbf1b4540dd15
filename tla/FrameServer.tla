---------------------------- MODULE FrameServer -----------------------------
(***************************************************************************)
(* What a decoder promises to the frame cache (README.md: "frame-accurate  *)
(* data"): a movie is opened, frames are asked for one at a time, and an   *)
(* answer is the picture of the frame that was asked for, or the black     *)
(* frame of a failure.  Movies whose frames the decoder cannot tell apart  *)
(* for certain may be answered with the next frame.  How long the decoder  *)
(* searches, what it remembers between requests and what the file looks    *)
(* like inside do not show.                                                *)
(***************************************************************************)
EXTENDS Naturals

CONSTANTS
  Movies, FrameNumbers, Nothing, BlackFrame,
  Exact     \* the movies whose frames can be told apart

VARIABLES
  movie,    \* the open movie
  asked,    \* the frame that was asked for and not answered yet
  picture   \* what the caller's buffer holds

Init == movie = Nothing /\ asked = Nothing /\ picture = Nothing

Open(m) ==
  /\ movie = Nothing
  /\ movie' = m
  /\ UNCHANGED <<asked, picture>>

Ask(n) ==
  /\ movie # Nothing
  /\ asked = Nothing
  /\ asked' = n
  /\ picture' = Nothing
  /\ UNCHANGED movie

Answer ==
  /\ asked # Nothing
  /\ \/ picture' \in {<<movie, asked>>, BlackFrame}
     \/ movie \notin Exact /\ picture' = <<movie, asked + 1>>
  /\ asked' = Nothing
  /\ UNCHANGED movie

Close ==
  /\ movie # Nothing
  /\ asked = Nothing
  /\ movie' = Nothing
  /\ picture' = Nothing
  /\ UNCHANGED asked

Next ==
  \/ \E m \in Movies : Open(m)
  \/ \E n \in FrameNumbers : Ask(n)
  \/ Answer
  \/ Close

Spec == Init /\ [][Next]_<<movie, asked, picture>>
=============================================================================
