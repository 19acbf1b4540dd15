------------------------------ MODULE MCHarvid -------------------------------
(***************************************************************************)
(* One instance of the components that the connection threads call into:   *)
(* the image cache, a decoder, the request handlers with the ID map, the   *)
(* file index and the time codes.  A behaviour exercises one of them,      *)
(* "part", from its initial state; what they are to each other is written  *)
(* into their modules.                                                     *)
(***************************************************************************)
EXTENDS ImageCache, MCFFDecoder, RequestHandler, FileIndex, Timecode, TLC

VARIABLE part

\* Requests, by what is unusual about them.
Picture(f, n) ==
  [missing |-> "none", accept |-> <<>>, method |-> "GET", form |-> FALSE,
   path |-> "frame", file |-> f, frame |-> n, fmt |-> "png"]
Page(p) == [Picture(NoFile, NoFrame) EXCEPT !.path = p]
About(p, f) == [Page(p) EXCEPT !.file = f]
Types == <<[type |-> "text", blank |-> FALSE], [type |-> "image", blank |-> TRUE]>>
AnyType == [type |-> "any", blank |-> FALSE]
Odd ==
  {[Picture("a", 0) EXCEPT !.missing = "header"],
   [Picture("a", 0) EXCEPT !.accept = Types],
   [Picture("a", -1) EXCEPT !.accept = Append(Types, AnyType), !.method = "POST",
                            !.form = TRUE, !.path = "home", !.fmt = "raw"],
   [Page("status") EXCEPT !.method = "HEAD"],
   Picture("a", NoFrame), Picture("gone", 0), Picture("denied", 0),
   Picture("broken", 0), Picture("up", 0),
   About("info", "gone"), [About("info", "a") EXCEPT !.fmt = "json"],
   [About("index", "up") EXCEPT !.fmt = "json"], About("index", "gone"),
   About("index", "denied"), About("index", "a")}
  \cup {Page(p) : p \in {"frame", "home", "rc", "seekjs", "favicon", "logo", "index",
                         "adminflush", "adminpurge", "adminshutdown", "adminother"}}
MCRequestsOf ==
  "w1" :> {Picture("a", 0), About("seek", "b")} @@
  "w2" :> Odd \cup {Picture("a", 0), Picture("a", 1)}
Everything == [user |-> {"index", "webseek"}, admin |-> {"flush", "purge", "shutdown"}]
Little == [user |-> {"keepraw"}, admin |-> {}]
MCMasks == {Everything, Little}
MCMaxReads ==
  Everything :> ("w1" :> 2 @@ "w2" :> 1) @@ Little :> ("w1" :> 1 @@ "w2" :> 1)
MCOnDisk ==
  [f \in Files |-> CASE f \in {"a", "b"} -> "video" [] f = "gone" -> "missing"
                     [] f = "up" -> "illegal" [] OTHER -> f]

\* A tree with an unreadable and a nested directory, a hidden file, a file that
\* is gone when stat() comes to it, and one that is no video.
Node(d, k) == [in |-> d, kind |-> k, hidden |-> FALSE, stat |-> TRUE, opens |-> TRUE]
Tree ==
  <<Node(0, "dir"), Node(0, "video"), [Node(0, "dir") EXCEPT !.opens = FALSE],
    Node(1, "video"), Node(1, "dir"), Node(5, "video"),
    [Node(0, "video") EXCEPT !.hidden = TRUE],
    [Node(5, "video") EXCEPT !.stat = FALSE], Node(1, "other")>>
MCNodes == 0 .. Len(Tree)
MCEntry == [n \in MCNodes |-> IF n = 0 THEN Node(0, "dir") ELSE Tree[n]]

\* Around the minutes, ten minutes, an hour and a day of drop-frame time code.
MCDurations ==
  0 .. 10 \cup 1795 .. 1803 \cup 3594 .. 3600 \cup 17978 .. 17986 \cup
  19778 .. 19784 \cup 107890 .. 107894 \cup 2589405 .. 2589410
MCFrameRates == {[drop |-> TRUE, fps |-> 30], [drop |-> FALSE, fps |-> 25]}

-----------------------------------------------------------------------------
vars == <<part, icacheVars, ffVars, handlerVars, indexVars, timecodeVars>>

Init ==
  /\ part \in {"image cache", "decoder", "requests", "ids", "index", "time code"}
  /\ ImageCacheInit /\ FFInit /\ HandlerInit /\ IndexInit /\ TimecodeInit

Next ==
  /\ UNCHANGED part
  /\ \/ /\ part = "image cache" /\ ImageCacheNext
        /\ UNCHANGED <<ffVars, handlerVars, indexVars, timecodeVars>>
     \/ /\ part = "decoder" /\ FFNext
        /\ UNCHANGED <<icacheVars, handlerVars, indexVars, timecodeVars>>
     \/ /\ part = "requests" /\ HandlerNext
        /\ UNCHANGED <<icacheVars, ffVars, indexVars, timecodeVars>>
     \/ /\ part = "ids" /\ VidMapNext
        /\ UNCHANGED <<mask, running, reads, pc, job, rawCache, imageCache, history>>
        /\ UNCHANGED <<icacheVars, ffVars, indexVars, timecodeVars>>
     \/ /\ part = "index" /\ IndexNext
        /\ UNCHANGED <<icacheVars, ffVars, handlerVars, timecodeVars>>
     \/ /\ part = "time code" /\ TimecodeNext
        /\ UNCHANGED <<icacheVars, ffVars, handlerVars, indexVars>>

Spec == Init /\ [][Next]_vars /\ HandlerFairness /\ FFFairness
=============================================================================
