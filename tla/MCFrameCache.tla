---------------------------- MODULE MCFrameCache ----------------------------
(***************************************************************************)
(* Instances of FrameCache for TLC.  Lines are interchangeable addresses   *)
(* and threads interchangeable workers, so both are symmetric; symmetry is *)
(* only used by the runs without a liveness property.                      *)
(***************************************************************************)
EXTENDS FrameCache, TLC

Symmetric == Permutations(Threads) \cup Permutations(Lines)

NeverFails == {0}
MayFail == {0, -1, 503}
=============================================================================
