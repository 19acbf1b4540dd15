------------------------ MODULE RequestHandlerProofs -------------------------
(***************************************************************************)
(* Requests use the ID map as its own specification allows, each of them   *)
(* gets one reply, which is truthful until IDs are used again, and gives   *)
(* back what it took from the caches, for any number of connection         *)
(* threads, any requests and any permissions.                              *)
(***************************************************************************)
EXTENDS RequestHandler, FiniteSetTheorems, TLAPS

-----------------------------------------------------------------------------
(***************************************************************************)
(* The ID map by itself: it keeps its promise for any number of files, IDs *)
(* and entries, however registrations, releases and purges follow each     *)
(* other.                                                                  *)
(***************************************************************************)

\* The entries are countable, and every ID in the map is on record as given:
\* a new ID that was never given is then different from all of them.
VidMapInv ==
  /\ VidMapTypeOK
  /\ IsFiniteSet(vml)
  /\ \A d, e \in vml : d.fn = e.fn => d = e
  /\ Cardinality(vml) <= CacheSize
  /\ \A e \in vml : e.id \in given
  /\ ~reused => \A d, e \in vml : d.id = e.id => d = e

\* What the invariant says holds of any part of the entries, and so after
\* entries are dropped.
LEMMA VidMapShrinks ==
  ASSUME VidMapInv, vml' \subseteq vml, UNCHANGED <<monotonic, given, reused>>
  PROVE  VidMapInv'
<1>1. VidMapTypeOK'
  BY DEF VidMapInv, VidMapTypeOK
<1>2. IsFiniteSet(vml') /\ Cardinality(vml') <= Cardinality(vml)
  BY FS_Subset DEF VidMapInv
<1>3. Cardinality(vml') <= CacheSize
  BY <1>2, FS_CardinalityType, VidMapAssumption DEF VidMapInv
<1> QED BY <1>1, <1>2, <1>3 DEF VidMapInv

\* The counter stays an unsigned short other than 0.
LEMMA NextIdType == \A n \in 1 .. IdMax : NextId(n) \in 1 .. IdMax
BY VidMapAssumption DEF NextId

\* There is room for one more when the victim, if there has to be one, is gone.
LEMMA VictimMakesRoom ==
  ASSUME VidMapInv, NEW old \in Victims
  PROVE  IsFiniteSet(vml \ old) /\ Cardinality(vml \ old) < CacheSize
<1>1. CASE Cardinality(vml) >= CacheSize
  <2>1. PICK e \in vml : old = {e}
    BY <1>1 DEF Victims
  <2>2. IsFiniteSet(vml \ {e}) /\ Cardinality(vml \ {e}) = Cardinality(vml) - 1
    BY FS_RemoveElement DEF VidMapInv
  <2> QED BY <2>1, <2>2, <1>1, FS_CardinalityType, VidMapAssumption DEF VidMapInv
<1>2. CASE ~(Cardinality(vml) >= CacheSize)
  <2>1. old = {}
    BY <1>2 DEF Victims
  <2>2. vml \ old = vml
    BY <2>1
  <2>3. IsFiniteSet(vml) /\ Cardinality(vml) \in Nat
    BY FS_CardinalityType DEF VidMapInv
  <2>4. Cardinality(vml) < CacheSize
    BY <2>3, <1>2, VidMapAssumption
  <2> QED BY <2>2, <2>3, <2>4
<1> QED BY <1>1, <1>2

LEMMA AddEntryKeeps ==
  ASSUME VidMapInv, NEW fn \in Files, ~AddedMeanwhile(fn), AddEntry(fn)
  PROVE  VidMapInv'
<1> DEFINE new == [fn |-> fn, id |-> monotonic]
<1>1. PICK old \in Victims : vml' = (vml \ old) \cup {new}
  BY DEF AddEntry
<1>2. monotonic \in 1 .. IdMax /\ monotonic' \in 1 .. IdMax
  BY NextIdType DEF AddEntry, VidMapInv, VidMapTypeOK
<1>3. new \in [fn : Files, id : 1 .. IdMax]
  BY <1>2
<1>4. VidMapTypeOK'
  BY <1>1, <1>2, <1>3 DEF AddEntry, VidMapInv, VidMapTypeOK
<1>5. \A d \in vml : d.fn # fn
  BY DEF AddedMeanwhile, EntriesOf
<1>6. \A d, e \in vml' : d.fn = e.fn => d = e
  BY <1>1, <1>5 DEF VidMapInv
<1>7. IsFiniteSet(vml') /\ Cardinality(vml') <= CacheSize
  <2>1. IsFiniteSet(vml \ old) /\ Cardinality(vml \ old) < CacheSize
    BY VictimMakesRoom
  <2>2. new \notin vml
    BY <1>5
  <2>3. IsFiniteSet(vml') /\ Cardinality(vml') = Cardinality(vml \ old) + 1
    BY <1>1, <2>1, <2>2, FS_AddElement
  <2> QED BY <2>1, <2>3, FS_CardinalityType, VidMapAssumption
<1>8. \A e \in vml' : e.id \in given'
  BY <1>1 DEF AddEntry, VidMapInv
<1>9. ~reused' => \A d, e \in vml' : d.id = e.id => d = e
  <2>1. SUFFICES ASSUME ~reused'
                 PROVE  \A d, e \in vml' : d.id = e.id => d = e
    OBVIOUS
  <2>2. ~reused /\ monotonic \notin given
    BY <2>1 DEF AddEntry
  <2>3. \A d \in vml : d.id # monotonic
    BY <2>2 DEF VidMapInv
  <2> QED BY <1>1, <2>2, <2>3 DEF VidMapInv
<1> QED BY <1>4, <1>6, <1>7, <1>8, <1>9 DEF VidMapInv

LEMMA VidMapStep ==
  ASSUME VidMapInv, [VidMapNext]_vidVars
  PROVE  VidMapInv'
<1>1. CASE UNCHANGED vidVars
  BY <1>1, VidMapShrinks DEF vidVars
<1>2. ASSUME NEW fn \in Files, NEW i \in 0 .. IdMax, RegisterId(fn, i)
      PROVE  VidMapInv'
  BY <1>1, <1>2, AddEntryKeeps DEF RegisterId
<1>3. ASSUME NEW i \in 0 .. IdMax, ReleaseId(i)
      PROVE  VidMapInv'
  <2>1. vml' \subseteq vml
    BY <1>3 DEF ReleaseId
  <2> QED BY <1>3, <2>1, VidMapShrinks DEF ReleaseId
<1>4. CASE ClearVid
  BY <1>4, VidMapShrinks DEF ClearVid
<1> QED BY <1>1, <1>2, <1>3, <1>4 DEF VidMapNext

LEMMA VidMapInitially == VidMapInit => VidMapInv
<1> SUFFICES ASSUME VidMapInit PROVE VidMapInv
  OBVIOUS
<1>1. IsFiniteSet(vml) /\ Cardinality(vml) = 0
  BY FS_EmptySet DEF VidMapInit
<1>2. Cardinality(vml) <= CacheSize
  BY <1>1, VidMapAssumption
<1>3. 1 \in 1 .. IdMax
  BY VidMapAssumption
<1>4. VidMapTypeOK
  BY <1>3, Zenon DEF VidMapInit, VidMapTypeOK
<1> QED BY <1>1, <1>2, <1>4 DEF VidMapInit, VidMapInv

THEOREM VidMapInvariant == VidMapSpec => []VidMapInv
BY VidMapInitially, VidMapStep, PTL DEF VidMapSpec

\* The entries, the counter and the histories stay what they are declared as,
\* whatever get_id(), release_id() and clearvid() do.
THEOREM VidMapTypeCorrect == VidMapSpec => []VidMapTypeOK
<1>1. VidMapInv => VidMapTypeOK
  BY DEF VidMapInv
<1> QED BY <1>1, VidMapInvariant, PTL

\* One entry a file, never more than cache_size, never ID 0, and no ID for two
\* files before the counter has come round: get_id() under two locks, whatever
\* was evicted, released or purged in between.
THEOREM VidMapIsSound == VidMapSpec => []VidMapSound
<1>1. VidMapInv => VidMapSound
  BY DEF VidMapInv, VidMapTypeOK, VidMapSound
<1> QED BY <1>1, VidMapInvariant, PTL

-----------------------------------------------------------------------------
\* Where a request is before and after its reply's head is sent, and where it
\* has a line of a cache.
Unanswered ==
  {"idle", "dispatch", "clearimages", "clearids", "id", "register", "info",
   "image", "frame", "encode", "send"}
Answered == {"tx", "write", "add", "release", "close"}
WithLine == {"encode", "send", "tx", "write", "add", "release"}

\* What is true of one thread: its request is one it may read; it looks for an
\* ID only if a file was named; it has replied once it is past the head, and
\* not before; and it holds a line only between the two calls.
JobOK(w) ==
  /\ pc[w] # "idle" => req[w] \in RequestsOf[w]
  /\ pc[w] \in {"id", "register"} => req[w].file \in Files
  /\ pc[w] \in Unanswered => replies[w] = <<>>
  /\ pc[w] \in Answered => Len(replies[w]) = 1
  /\ pc[w] \notin WithLine => holds[w] = "none"

JobTypeOK ==
  /\ pc \in [Workers -> Unanswered \cup Answered]
  /\ vid \in [Workers -> 0 .. IdMax]
  /\ DOMAIN req = Workers
  /\ DOMAIN replies = Workers
  /\ holds \in [Workers -> {"raw", "black", "image", "none"}]

JobInv == JobTypeOK /\ \A w \in Workers : JobOK(w)

\* A thread's step leaves the locals of the others alone.
OthersKeep(w) ==
  \A u \in Workers \ {w} :
    /\ pc'[u] = pc[u] /\ req'[u] = req[u] /\ vid'[u] = vid[u]
    /\ holds'[u] = holds[u] /\ replies'[u] = replies[u]

LEMMA OthersStayOK ==
  ASSUME JobInv, NEW w \in Workers, OthersKeep(w), JobTypeOK', JobOK(w)'
  PROVE  JobInv'
<1>1. ASSUME NEW u \in Workers, u # w
      PROVE  JobOK(u)'
  BY <1>1 DEF JobInv, JobOK, OthersKeep
<1> QED BY <1>1 DEF JobInv

\* httperror() is one reply, and the end of the request.
LEMMA FailIsOneReply ==
  ASSUME JobInv, NEW w \in Workers, pc[w] \in Unanswered \ (WithLine \cup {"idle"}),
         NEW status, Fail(w, <<status>>), UNCHANGED <<req, vid, holds>>
  PROVE  JobInv'
<1> DEFINE more == [i \in DOMAIN <<status>> |-> <<(<<status>>)[i], "html">>]
<1>1. replies[w] = <<>>
  BY DEF JobInv, JobOK
<1>2. more = << <<status, "html">> >>
  OBVIOUS
<1>3. Len(<<>> \o more) = 1
  BY <1>2
<1>4. replies' = [replies EXCEPT ![w] = <<>> \o more]
  BY <1>1 DEF Fail
<1>5. pc' = [pc EXCEPT ![w] = "close"]
  BY DEF Fail, Goto
<1>6. JobTypeOK' /\ OthersKeep(w)
  BY <1>4, <1>5 DEF JobInv, JobTypeOK, OthersKeep, Answered
<1>7. JobOK(w)'
  <2>1. replies'[w] = <<>> \o more /\ pc'[w] = "close"
    BY <1>4, <1>5 DEF JobInv, JobTypeOK
  <2> QED BY <1>3, <2>1 DEF JobInv, JobOK, Unanswered, Answered, WithLine
<1> QED BY <1>6, <1>7, OthersStayOK

\* What may be wrong with a query gives one error, and a query without error
\* names a file that is there to be looked up.
LEMMA QueryErrorIsOne ==
  ASSUME NEW r, QueryAnswers(r) # <<>>
  PROVE  \E status : QueryAnswers(r) = <<status>>
<1>1. QueryErrors(r) = <<>> \/ QueryErrors(r) = <<404>> \/ QueryErrors(r) = <<403>>
  BY DEF QueryErrors
<1> QED BY <1>1 DEF QueryAnswers

LEMMA QueryNamesFile ==
  ASSUME NEW w \in Workers, NEW r \in RequestsOf[w], QueryAnswers(r) = <<>>
  PROVE  r.file \in Files
<1>1. r.file # NoFile
  BY DEF QueryAnswers, QueryErrors
<1> QED BY <1>1, HandlerAssumption

-----------------------------------------------------------------------------
(***************************************************************************)
(* Every action keeps JobInv.                                              *)
(***************************************************************************)

LEMMA ReadKeepsJobs == ASSUME JobInv, NEW w \in Workers, Read(w) PROVE JobInv'
<1>1. JobTypeOK' /\ OthersKeep(w)
  BY DEF JobInv, JobTypeOK, Read, Goto, OthersKeep, Unanswered
<1>2. JobOK(w)'
  BY DEF JobInv, JobTypeOK, JobOK, Read, At, Goto, Unanswered, Answered, WithLine
<1> QED BY <1>1, <1>2, OthersStayOK

\* A page and the end of its request.
LEMMA AnswerKeepsJobs ==
  ASSUME JobInv, NEW w \in Workers, pc[w] \in Unanswered \ (WithLine \cup {"idle"}),
         NEW ctype, Answer(w, 200, ctype), Goto(w, "close"), UNCHANGED RestOfJob
  PROVE  JobInv'
<1>1. replies[w] = <<>>
  BY DEF JobInv, JobOK
<1>2. Len(Append(<<>>, <<200, ctype>>)) = 1
  OBVIOUS
<1>3. replies' = [replies EXCEPT ![w] = Append(<<>>, <<200, ctype>>)]
  BY <1>1 DEF Answer
<1>4. JobTypeOK' /\ OthersKeep(w)
  BY <1>3 DEF JobInv, JobTypeOK, RestOfJob, Goto, OthersKeep, Answered
<1>5. JobOK(w)'
  <2>1. replies'[w] = Append(<<>>, <<200, ctype>>) /\ pc'[w] = "close"
    BY <1>3 DEF JobInv, JobTypeOK, Goto
  <2> QED BY <1>2, <2>1 DEF JobInv, JobOK, RestOfJob, Unanswered, Answered, WithLine
<1> QED BY <1>4, <1>5, OthersStayOK

\* The thread goes on without a reply, a line or a new ID.
LEMMA GotoKeepsJobs ==
  ASSUME JobInv, NEW w \in Workers, NEW s \in Unanswered \ (WithLine \cup {"idle"}),
         pc[w] \in Unanswered \ (WithLine \cup {"idle"}),
         s \in {"id", "register"} => req[w].file \in Files,
         Goto(w, s), UNCHANGED <<req, holds, replies>>,
         vid' \in [Workers -> 0 .. IdMax], \A u \in Workers \ {w} : vid'[u] = vid[u]
  PROVE  JobInv'
<1>1. JobTypeOK' /\ OthersKeep(w)
  BY DEF JobInv, JobTypeOK, Goto, OthersKeep
<1>2. JobOK(w)'
  BY DEF JobInv, JobTypeOK, JobOK, Goto, Unanswered, Answered, WithLine
<1> QED BY <1>1, <1>2, OthersStayOK

-----------------------------------------------------------------------------
(***************************************************************************)
(* Counting the lines that are held                                        *)
(***************************************************************************)

RawHolders(k) == {w \in Workers : holds[w] = "raw" /\ RawKey(w) = k}
HoldersOf(kind) == {w \in Workers : holds[w] = kind}

\* Every reference count is the number of threads that hold such a line.
PinInv ==
  /\ DOMAIN rawRef = RawKeys
  /\ \A k \in RawKeys : rawRef[k] = Cardinality(RawHolders(k))
  /\ blackRef = Cardinality(HoldersOf("black"))
  /\ imageRef = Cardinality(HoldersOf("image"))

LEMMA HoldersFinite ==
  \A S \in SUBSET Workers : IsFiniteSet(S) /\ Cardinality(S) \in Nat
BY HandlerAssumption, FS_Subset, FS_CardinalityType

LEMMA RawKeyType ==
  ASSUME JobInv, NEW w \in Workers, req[w] \in RequestsOf[w]
  PROVE  RawKey(w) \in RawKeys
<1>1. vid[w] \in 0 .. IdMax
  BY DEF JobInv, JobTypeOK
<1>2. Frame(w) \in FrameIds
  BY DEF Frame, FrameIds
<1> QED BY <1>1, <1>2 DEF RawKey, RawKeys

\* Steps that take and give back nothing, and keep what lines are held for.
LEMMA PinsUntouched ==
  ASSUME PinInv, UNCHANGED <<rawRef, blackRef, imageRef, holds>>,
         \A u \in Workers : holds[u] # "none" => vid'[u] = vid[u] /\ req'[u] = req[u]
  PROVE  PinInv'
<1>1. ASSUME NEW k \in RawKeys PROVE RawHolders(k)' = RawHolders(k)
  BY DEF RawHolders, RawKey, Frame
<1>2. ASSUME NEW kind PROVE HoldersOf(kind)' = HoldersOf(kind)
  BY DEF HoldersOf
<1> QED BY <1>1, <1>2 DEF PinInv, RawKeys

\* Thread w takes, or gives back, a line of one kind: its holders are one more
\* or one less, and those of the other kinds the same.
LEMMA HoldersGrow ==
  ASSUME JobInv, NEW w \in Workers, holds[w] = "none", NEW kind \in {"raw", "black", "image"},
         holds' = [holds EXCEPT ![w] = kind], UNCHANGED <<req, vid>>
  PROVE  /\ \A k : RawHolders(k)' = IF kind = "raw" /\ k = RawKey(w)
                                      THEN RawHolders(k) \cup {w} ELSE RawHolders(k)
         /\ \A other \in {"black", "image"} :
              HoldersOf(other)' = IF other = kind THEN HoldersOf(other) \cup {w}
                                  ELSE HoldersOf(other)
         /\ \A k : w \notin RawHolders(k)
         /\ \A other \in {"black", "image"} : w \notin HoldersOf(other)
<1>1. holds'[w] = kind /\ \A u \in Workers \ {w} : holds'[u] = holds[u]
  BY DEF JobInv, JobTypeOK
<1>2. \A u \in Workers : RawKey(u)' = RawKey(u)
  BY DEF RawKey, Frame
<1> QED BY <1>1, <1>2 DEF RawHolders, HoldersOf

LEMMA HoldersShrink ==
  ASSUME JobInv, NEW w \in Workers, NEW kind \in {"raw", "black", "image"}, holds[w] = kind,
         holds' = [holds EXCEPT ![w] = "none"], UNCHANGED <<req, vid>>
  PROVE  /\ \A k : RawHolders(k)' = IF kind = "raw" /\ k = RawKey(w)
                                      THEN RawHolders(k) \ {w} ELSE RawHolders(k)
         /\ \A other \in {"black", "image"} :
              HoldersOf(other)' = IF other = kind THEN HoldersOf(other) \ {w}
                                  ELSE HoldersOf(other)
         /\ kind = "raw" => w \in RawHolders(RawKey(w))
         /\ kind # "raw" => w \in HoldersOf(kind)
<1>1. holds'[w] = "none" /\ \A u \in Workers \ {w} : holds'[u] = holds[u]
  BY DEF JobInv, JobTypeOK
<1>2. \A u \in Workers : RawKey(u)' = RawKey(u)
  BY DEF RawKey, Frame
<1> QED BY <1>1, <1>2 DEF RawHolders, HoldersOf

\* One thread more, one thread less.
LEMMA OneMore ==
  ASSUME NEW S \in SUBSET Workers, NEW w \in Workers
  PROVE  /\ w \notin S => Cardinality(S \cup {w}) = Cardinality(S) + 1
         /\ w \in S => Cardinality(S \ {w}) = Cardinality(S) - 1
BY HoldersFinite, FS_AddElement, FS_RemoveElement

LEMMA RawTaken ==
  ASSUME JobInv, PinInv, NEW w \in Workers, holds[w] = "none", req[w] \in RequestsOf[w],
         holds' = [holds EXCEPT ![w] = "raw"], UNCHANGED <<req, vid, blackRef, imageRef>>,
         rawRef' = [rawRef EXCEPT ![RawKey(w)] = @ + 1]
  PROVE  PinInv'
<1>1. RawKey(w) \in RawKeys
  BY RawKeyType
<1>2. \A k \in RawKeys : RawHolders(k) \in SUBSET Workers
  BY DEF RawHolders
<1>3. ASSUME NEW k \in RawKeys
      PROVE  rawRef'[k] = Cardinality(RawHolders(k)')
  <2>1. CASE k = RawKey(w)
    <3>1. RawHolders(k)' = RawHolders(k) \cup {w}
      BY <2>1, HoldersGrow
    <3>2. Cardinality(RawHolders(k) \cup {w}) = Cardinality(RawHolders(k)) + 1
      BY <1>2, <2>1, HoldersGrow, OneMore
    <3>3. rawRef'[k] = rawRef[k] + 1
      BY <1>1, <2>1 DEF PinInv
    <3> QED BY <3>1, <3>2, <3>3 DEF PinInv
  <2>2. CASE k # RawKey(w)
    <3>1. RawHolders(k)' = RawHolders(k)
      BY <2>2, HoldersGrow
    <3> QED BY <3>1, <2>2 DEF PinInv
  <2> QED BY <2>1, <2>2
<1>4. HoldersOf("black")' = HoldersOf("black") /\ HoldersOf("image")' = HoldersOf("image")
  BY HoldersGrow
<1> QED BY <1>3, <1>4 DEF PinInv, RawKeys

LEMMA RawReturned ==
  ASSUME JobInv, PinInv, NEW w \in Workers, holds[w] = "raw", req[w] \in RequestsOf[w],
         holds' = [holds EXCEPT ![w] = "none"], UNCHANGED <<req, vid, blackRef, imageRef>>,
         rawRef' = [rawRef EXCEPT ![RawKey(w)] = @ - 1]
  PROVE  PinInv'
<1>1. RawKey(w) \in RawKeys
  BY RawKeyType
<1>2. \A k \in RawKeys : RawHolders(k) \in SUBSET Workers
  BY DEF RawHolders
<1>3. ASSUME NEW k \in RawKeys
      PROVE  rawRef'[k] = Cardinality(RawHolders(k)')
  <2>1. CASE k = RawKey(w)
    <3>1. RawHolders(k)' = RawHolders(k) \ {w}
      BY <2>1, HoldersShrink
    <3>2. Cardinality(RawHolders(k) \ {w}) = Cardinality(RawHolders(k)) - 1
      BY <1>2, <2>1, HoldersShrink, OneMore
    <3>3. rawRef'[k] = rawRef[k] - 1
      BY <1>1, <2>1 DEF PinInv
    <3> QED BY <3>1, <3>2, <3>3 DEF PinInv
  <2>2. CASE k # RawKey(w)
    <3>1. RawHolders(k)' = RawHolders(k)
      BY <2>2, HoldersShrink
    <3> QED BY <3>1, <2>2 DEF PinInv
  <2> QED BY <2>1, <2>2
<1>4. HoldersOf("black")' = HoldersOf("black") /\ HoldersOf("image")' = HoldersOf("image")
  BY HoldersShrink
<1> QED BY <1>3, <1>4 DEF PinInv, RawKeys

\* The same for the lines of failed decodes and for images.
LEMMA OtherTaken ==
  ASSUME JobInv, PinInv, NEW w \in Workers, holds[w] = "none", NEW kind \in {"black", "image"},
         holds' = [holds EXCEPT ![w] = kind], UNCHANGED <<req, vid, rawRef>>,
         blackRef' = IF kind = "black" THEN blackRef + 1 ELSE blackRef,
         imageRef' = IF kind = "image" THEN imageRef + 1 ELSE imageRef
  PROVE  PinInv'
<1>1. \A other \in {"black", "image"} : HoldersOf(other) \in SUBSET Workers
  BY DEF HoldersOf
<1>2. \A k \in RawKeys : RawHolders(k)' = RawHolders(k)
  BY HoldersGrow
<1>3. /\ blackRef' = Cardinality(HoldersOf("black")')
      /\ imageRef' = Cardinality(HoldersOf("image")')
  <2>1. Cardinality(HoldersOf(kind) \cup {w}) = Cardinality(HoldersOf(kind)) + 1
    BY <1>1, HoldersGrow, OneMore
  <2>2. \A other \in {"black", "image"} :
          HoldersOf(other)' = IF other = kind THEN HoldersOf(other) \cup {w}
                              ELSE HoldersOf(other)
    BY HoldersGrow
  <2>3. CASE kind = "black"
    BY <2>1, <2>2, <2>3 DEF PinInv
  <2>4. CASE kind = "image"
    BY <2>1, <2>2, <2>4 DEF PinInv
  <2> QED BY <2>3, <2>4
<1> QED BY <1>2, <1>3 DEF PinInv, RawKeys

LEMMA OtherReturned ==
  ASSUME JobInv, PinInv, NEW w \in Workers, NEW kind \in {"black", "image"}, holds[w] = kind,
         holds' = [holds EXCEPT ![w] = "none"], UNCHANGED <<req, vid, rawRef>>,
         blackRef' = IF kind = "black" THEN blackRef - 1 ELSE blackRef,
         imageRef' = IF kind = "image" THEN imageRef - 1 ELSE imageRef
  PROVE  PinInv'
<1>1. \A other \in {"black", "image"} : HoldersOf(other) \in SUBSET Workers
  BY DEF HoldersOf
<1>2. \A k \in RawKeys : RawHolders(k)' = RawHolders(k)
  BY HoldersShrink
<1>3. /\ blackRef' = Cardinality(HoldersOf("black")')
      /\ imageRef' = Cardinality(HoldersOf("image")')
  <2>1. Cardinality(HoldersOf(kind) \ {w}) = Cardinality(HoldersOf(kind)) - 1
    BY <1>1, HoldersShrink, OneMore
  <2>2. \A other \in {"black", "image"} :
          HoldersOf(other)' = IF other = kind THEN HoldersOf(other) \ {w}
                              ELSE HoldersOf(other)
    BY HoldersShrink
  <2>3. CASE kind = "black"
    BY <2>1, <2>2, <2>3 DEF PinInv
  <2>4. CASE kind = "image"
    BY <2>1, <2>2, <2>4 DEF PinInv
  <2> QED BY <2>3, <2>4
<1> QED BY <1>2, <1>3 DEF PinInv, RawKeys

-----------------------------------------------------------------------------
(***************************************************************************)
(* The actions.  A thread that has no line yet can take and lose nothing.  *)
(***************************************************************************)

Kept == JobInv' /\ PinInv'

LEMMA ReadKeeps == ASSUME JobInv, PinInv, NEW w \in Workers, Read(w) PROVE Kept
<1>1. \A u \in Workers : holds[u] # "none" => vid'[u] = vid[u] /\ req'[u] = req[u]
  BY DEF JobInv, JobTypeOK, JobOK, Read, At, WithLine
<1>2. PinInv'
  BY <1>1, PinsUntouched DEF Read, rawCache, imageCache
<1> QED BY <1>2, ReadKeepsJobs DEF Kept

\* Replies without a cache line.
LEMMA RepliesKeep ==
  ASSUME JobInv, PinInv, NEW w \in Workers,
         Refuse(w) \/ ServePage(w) \/ ServeIndex(w) \/ Shutdown(w) \/ ClearIds(w)
           \/ InfoFails(w) \/ ServeInfo(w) \/ NoRaw(w)
  PROVE  Kept
<1>1. /\ pc[w] \in Unanswered \ (WithLine \cup {"idle"})
      /\ UNCHANGED <<req, vid, holds, rawRef, blackRef, imageRef>>
  BY DEF Refuse, ServePage, ServeIndex, Shutdown, ClearIds, InfoFails, ServeInfo, NoRaw,
         Routed, Permitted, Opens, At, Unanswered, WithLine,
         Shared, RestOfJob, rawCache, imageCache
<1>2. \/ \E status : Fail(w, <<status>>)
      \/ /\ \E ctype : Answer(w, 200, ctype)
         /\ Goto(w, "close") /\ UNCHANGED RestOfJob
  <2>1. CASE Refuse(w)
    BY <2>1 DEF Refuse
  <2>2. CASE ServePage(w) \/ Shutdown(w) \/ ClearIds(w)
    BY <2>2 DEF ServePage, Shutdown, ClearIds
  <2>3. CASE ServeIndex(w)
    <3>1. CASE req[w].file # NoFile
      <4>1. PICK status \in {400, 403, 404} : Fail(w, <<status>>)
        BY <2>3, <3>1 DEF ServeIndex
      <4> QED BY <4>1
    <3>2. CASE req[w].file = NoFile
      BY <2>3, <3>2 DEF ServeIndex
    <3> QED BY <3>1, <3>2
  <2>4. CASE InfoFails(w)
    BY <2>4 DEF InfoFails
  <2>5. CASE ServeInfo(w)
    BY <2>5 DEF ServeInfo
  <2>6. CASE NoRaw(w)
    BY <2>6 DEF NoRaw
  <2> QED BY <2>1, <2>2, <2>3, <2>4, <2>5, <2>6
<1>3. JobInv'
  BY <1>1, <1>2, FailIsOneReply, AnswerKeepsJobs
<1>4. PinInv'
  BY <1>1, PinsUntouched
<1> QED BY <1>3, <1>4 DEF Kept

\* Steps on the way to a reply.
LEMMA WayKeeps ==
  ASSUME JobInv, PinInv, NEW w \in Workers, NEW s \in Unanswered \ (WithLine \cup {"idle"}),
         pc[w] \in Unanswered \ (WithLine \cup {"idle"}),
         s \in {"id", "register"} => req[w].file \in Files,
         Goto(w, s), UNCHANGED <<req, holds, replies, rawRef, blackRef, imageRef>>,
         vid' \in [Workers -> 0 .. IdMax], \A u \in Workers \ {w} : vid'[u] = vid[u]
  PROVE  Kept
<1>1. holds[w] = "none"
  BY DEF JobInv, JobOK
<1>2. PinInv'
  BY <1>1, PinsUntouched
<1> QED BY <1>2, GotoKeepsJobs DEF Kept

LEMMA ClearKeeps ==
  ASSUME JobInv, PinInv, NEW w \in Workers, ClearRaw(w) \/ ClearImages(w)
  PROVE  Kept
<1>1. CASE ClearRaw(w)
  <2>1. /\ pc[w] = "dispatch" /\ Goto(w, "clearimages")
        /\ UNCHANGED <<req, vid, holds, replies, rawRef, blackRef, imageRef>>
    BY <1>1 DEF ClearRaw, Permitted, Routed, At, job, imageCache
  <2> QED BY <2>1, WayKeeps DEF Unanswered, WithLine, JobInv, JobTypeOK
<1>2. CASE ClearImages(w)
  <2>1. /\ pc[w] = "clearimages"
        /\ UNCHANGED <<req, vid, holds, rawRef, blackRef, imageRef>>
    BY <1>2 DEF ClearImages, At, RestOfJob, rawCache
  <2>2. CASE Answer(w, 200, "html") /\ Goto(w, "close")
    <3>1. JobInv'
      BY <1>2, <2>1, <2>2, AnswerKeepsJobs DEF ClearImages, Unanswered, WithLine
    <3> QED BY <2>1, <3>1, PinsUntouched DEF Kept
  <2>3. CASE Goto(w, "clearids") /\ UNCHANGED replies
    BY <2>1, <2>3, WayKeeps DEF Unanswered, WithLine, JobInv, JobTypeOK
  <2> QED BY <1>2, <2>2, <2>3 DEF ClearImages
<1> QED BY <1>1, <1>2

LEMMA ParseQueryKeeps ==
  ASSUME JobInv, PinInv, NEW w \in Workers, ParseQuery(w) PROVE Kept
<1>1. /\ pc[w] = "dispatch"
      /\ UNCHANGED <<req, vid, holds, rawRef, blackRef, imageRef>>
  BY DEF ParseQuery, Routed, At, Shared, RestOfJob, rawCache, imageCache
<1>2. CASE QueryAnswers(req[w]) # <<>> /\ Fail(w, QueryAnswers(req[w]))
  <2>1. PICK status : QueryAnswers(req[w]) = <<status>>
    BY <1>2, QueryErrorIsOne
  <2>2. JobInv'
    BY <1>1, <1>2, <2>1, FailIsOneReply DEF Unanswered, WithLine
  <2> QED BY <1>1, <2>2, PinsUntouched DEF Kept
<1>3. CASE QueryAnswers(req[w]) = <<>> /\ Goto(w, "id") /\ UNCHANGED replies
  <2>1. req[w].file \in Files
    BY <1>1, <1>3, QueryNamesFile DEF JobInv, JobOK
  <2> QED BY <1>1, <1>3, <2>1, WayKeeps DEF Unanswered, WithLine, JobInv, JobTypeOK
<1> QED BY <1>2, <1>3 DEF ParseQuery

LEMMA IdsKeep ==
  ASSUME JobInv, PinInv, VidMapTypeOK, NEW w \in Workers, FindId(w) \/ RegisterFile(w)
  PROVE  Kept
<1>1. CASE FindId(w)
  <2>1. /\ pc[w] = "id" /\ req[w].file \in Files
        /\ UNCHANGED <<req, holds, replies, rawRef, blackRef, imageRef>>
    BY <1>1 DEF FindId, At, Shared, rawCache, imageCache, JobInv, JobOK
  <2>2. \A e \in EntriesOf(req[w].file) : e.id \in 0 .. IdMax
    BY VidMapAssumption DEF EntriesOf, VidMapTypeOK
  <2>3. vid' \in [Workers -> 0 .. IdMax] /\ \A u \in Workers \ {w} : vid'[u] = vid[u]
    BY <1>1, <2>2 DEF FindId, JobInv, JobTypeOK
  <2>4. Goto(w, "info") \/ Goto(w, "register")
    BY <1>1 DEF FindId
  <2> QED BY <2>1, <2>3, <2>4, WayKeeps DEF Unanswered, WithLine
<1>2. CASE RegisterFile(w)
  <2>1. /\ pc[w] = "register" /\ Goto(w, "info")
        /\ UNCHANGED <<req, holds, replies, rawRef, blackRef, imageRef>>
    BY <1>2 DEF RegisterFile, At, imageCache
  <2>2. vid' \in [Workers -> 0 .. IdMax] /\ \A u \in Workers \ {w} : vid'[u] = vid[u]
    BY <1>2 DEF RegisterFile, JobInv, JobTypeOK
  <2> QED BY <2>1, <2>2, WayKeeps DEF Unanswered, WithLine
<1> QED BY <1>1, <1>2

LEMMA GotInfoKeeps ==
  ASSUME JobInv, PinInv, NEW w \in Workers, GotInfo(w) PROVE Kept
<1>1. /\ pc[w] = "info"
      /\ Goto(w, "frame") \/ Goto(w, "image")
      /\ UNCHANGED <<req, vid, holds, replies, rawRef, blackRef, imageRef>>
  BY DEF GotInfo, Opens, At, Shared, job, rawCache, imageCache
<1> QED BY <1>1, WayKeeps DEF Unanswered, WithLine, JobInv, JobTypeOK

-----------------------------------------------------------------------------
\* A line is taken: the thread has not replied yet and holds one afterwards.
LEMMA TakingKeepsJobs ==
  ASSUME JobInv, NEW w \in Workers, pc[w] \in {"image", "frame"},
         NEW kind \in {"raw", "black", "image"}, NEW s \in {"encode", "send"},
         holds' = [holds EXCEPT ![w] = kind], Goto(w, s), UNCHANGED <<req, vid, replies>>
  PROVE  JobInv' /\ holds[w] = "none" /\ req[w] \in RequestsOf[w]
<1>1. JobTypeOK' /\ OthersKeep(w)
  BY DEF JobInv, JobTypeOK, Goto, OthersKeep, Unanswered
<1>2. JobOK(w)'
  BY DEF JobInv, JobTypeOK, JobOK, Goto, Unanswered, Answered, WithLine
<1> QED BY <1>1, <1>2, OthersStayOK DEF JobInv, JobOK, WithLine

LEMMA FindImageKeeps ==
  ASSUME JobInv, PinInv, NEW w \in Workers, FindImage(w) PROVE Kept
<1>1. pc[w] = "image" /\ UNCHANGED <<req, vid, replies, rawRef, blackRef>>
  BY DEF FindImage, At, rawCache
<1>2. CASE ImageKey(w) \in DOMAIN images
  <2>1. /\ holds' = [holds EXCEPT ![w] = "image"] /\ imageRef' = imageRef + 1
        /\ Goto(w, "send")
    BY <1>2 DEF FindImage
  <2> QED BY <1>1, <2>1, TakingKeepsJobs, OtherTaken DEF Kept
<1>3. CASE ImageKey(w) \notin DOMAIN images
  <2>1. Goto(w, "frame") /\ UNCHANGED <<holds, imageRef>>
    BY <1>3 DEF FindImage
  <2> QED BY <1>1, <2>1, WayKeeps DEF Unanswered, WithLine, JobInv, JobTypeOK
<1> QED BY <1>2, <1>3

LEMMA RawKeeps ==
  ASSUME JobInv, PinInv, NEW w \in Workers, FindRaw(w) \/ DecodeRaw(w)
  PROVE  Kept
<1>1. /\ pc[w] = "frame" /\ UNCHANGED <<req, vid, replies, blackRef, imageRef>>
      /\ rawRef' = [rawRef EXCEPT ![RawKey(w)] = @ + 1]
      /\ holds' = [holds EXCEPT ![w] = "raw"] /\ Goto(w, "encode")
  BY DEF FindRaw, DecodeRaw, TakeRaw, At, imageCache
<1> QED BY <1>1, TakingKeepsJobs, RawTaken DEF Kept

LEMMA DecodeFailsKeeps ==
  ASSUME JobInv, PinInv, NEW w \in Workers, DecodeFails(w) PROVE Kept
<1>1. /\ pc[w] = "frame" /\ UNCHANGED <<req, vid, replies, rawRef, imageRef>>
      /\ blackRef' = blackRef + 1
      /\ holds' = [holds EXCEPT ![w] = "black"] /\ Goto(w, "encode")
  BY DEF DecodeFails, TakeRaw, At, imageCache
<1> QED BY <1>1, TakingKeepsJobs, OtherTaken DEF Kept

-----------------------------------------------------------------------------
\* With a line, from step to step.
LEMMA LineKeeps ==
  ASSUME JobInv, PinInv, NEW w \in Workers, NEW s \in WithLine, pc[w] \in WithLine,
         pc[w] \in Answered <=> s \in Answered, Goto(w, s),
         UNCHANGED <<req, vid, holds, replies, rawRef, blackRef, imageRef>>
  PROVE  Kept
<1>1. JobTypeOK' /\ OthersKeep(w)
  BY DEF JobInv, JobTypeOK, Goto, OthersKeep, Unanswered, Answered, WithLine
<1>2. JobOK(w)'
  BY DEF JobInv, JobTypeOK, JobOK, Goto, Unanswered, Answered, WithLine
<1> QED BY <1>1, <1>2, OthersStayOK, PinsUntouched DEF Kept

\* The one reply on the way.
LEMMA LineReplies ==
  ASSUME JobInv, PinInv, NEW w \in Workers, NEW s \in WithLine \cap Answered,
         pc[w] \in WithLine \ Answered, NEW status, NEW ctype, Answer(w, status, ctype),
         Goto(w, s), UNCHANGED <<req, vid, holds, rawRef, blackRef, imageRef>>
  PROVE  Kept
<1>1. replies[w] = <<>>
  BY DEF JobInv, JobOK, WithLine, Answered, Unanswered
<1>2. Len(Append(<<>>, <<status, ctype>>)) = 1
  OBVIOUS
<1>3. replies' = [replies EXCEPT ![w] = Append(<<>>, <<status, ctype>>)]
  BY <1>1 DEF Answer
<1>4. JobTypeOK' /\ OthersKeep(w)
  BY <1>3 DEF JobInv, JobTypeOK, Goto, OthersKeep, Answered
<1>5. JobOK(w)'
  <2>1. replies'[w] = Append(<<>>, <<status, ctype>>) /\ pc'[w] = s
    BY <1>3 DEF JobInv, JobTypeOK, Goto
  <2> QED BY <1>2, <2>1 DEF JobInv, JobOK, Unanswered, Answered, WithLine
<1> QED BY <1>4, <1>5, OthersStayOK, PinsUntouched DEF Kept

LEMMA EncodeKeeps == ASSUME JobInv, PinInv, NEW w \in Workers, Encode(w) PROVE Kept
<1>1. /\ pc[w] = "encode"
      /\ UNCHANGED <<req, vid, holds, rawRef, blackRef, imageRef>>
  BY DEF Encode, At, Shared, rawCache, imageCache
<1>2. CASE Goto(w, "send") /\ UNCHANGED replies
  BY <1>1, <1>2, LineKeeps DEF WithLine, Answered
<1>3. CASE Answer(w, 500, "html") /\ Goto(w, AfterFormatError)
  BY <1>1, <1>3, LineReplies DEF AfterFormatError, WithLine, Answered
<1> QED BY <1>2, <1>3 DEF Encode

LEMMA SendHeadKeeps == ASSUME JobInv, PinInv, NEW w \in Workers, SendHead(w) PROVE Kept
<1>1. /\ pc[w] = "send" /\ Goto(w, "tx") /\ Answer(w, 200, req[w].fmt)
      /\ UNCHANGED <<req, vid, holds, rawRef, blackRef, imageRef>>
  BY DEF SendHead, At, Shared, rawCache, imageCache
<1> QED BY <1>1, LineReplies DEF WithLine, Answered

\* http_tx() and icache_add_buffer()
LEMMA TransmissionKeeps ==
  ASSUME JobInv, PinInv, NEW w \in Workers,
         CallWrite(w) \/ WriteReturns(w) \/ WriteFails(w) \/ SelectFails(w)
           \/ NotReady(w) \/ TimedOut(w) \/ AddImage(w)
  PROVE  Kept
<1>1. /\ pc[w] \in {"tx", "write", "add"}
      /\ UNCHANGED <<req, vid, holds, replies, rawRef, blackRef, imageRef>>
  BY DEF CallWrite, WriteReturns, WriteFails, SelectFails, NotReady, TimedOut, AddImage,
         At, Shared, job, rawCache, imageCache
<1>2. \/ \E s \in {"tx", "write", "add", "release"} : Goto(w, s)
      \/ UNCHANGED pc
  BY DEF CallWrite, WriteReturns, WriteFails, SelectFails, NotReady, TimedOut, AddImage,
         AfterTx
<1>3. \E s \in {"tx", "write", "add", "release"} : Goto(w, s)
  <2>1. CASE UNCHANGED pc
    BY <1>1, <2>1 DEF Goto, JobInv, JobTypeOK
  <2> QED BY <1>2, <2>1
<1> QED BY <1>1, <1>3, LineKeeps DEF WithLine, Answered

\* The line is given back.
LEMMA ReleaseKeeps == ASSUME JobInv, PinInv, NEW w \in Workers, Release(w) PROVE Kept
<1>1. /\ pc[w] = "release" /\ Goto(w, "close") /\ UNCHANGED <<req, vid, replies>>
      /\ holds' = [holds EXCEPT ![w] = "none"]
  BY DEF Release, At
<1>2. JobInv' /\ req[w] \in RequestsOf[w]
  <2>1. JobTypeOK' /\ OthersKeep(w)
    BY <1>1 DEF JobInv, JobTypeOK, Goto, OthersKeep, Answered
  <2>2. JobOK(w)'
    BY <1>1 DEF JobInv, JobTypeOK, JobOK, Goto, Unanswered, Answered, WithLine
  <2> QED BY <1>1, <2>1, <2>2, OthersStayOK DEF JobInv, JobOK
<1>3. CASE holds[w] = "raw"
  <2>1. /\ rawRef' = [rawRef EXCEPT ![RawKey(w)] = @ - 1]
        /\ UNCHANGED <<blackRef, imageRef>>
    BY <1>3 DEF Release
  <2> QED BY <1>1, <1>2, <1>3, <2>1, RawReturned DEF Kept
<1>4. CASE holds[w] = "black"
  <2>1. blackRef' = blackRef - 1 /\ UNCHANGED <<rawRef, imageRef>>
    BY <1>4 DEF Release
  <2> QED BY <1>1, <1>2, <1>4, <2>1, OtherReturned DEF Kept
<1>5. CASE holds[w] = "image"
  <2>1. imageRef' = imageRef - 1 /\ UNCHANGED <<rawRef, blackRef>>
    BY <1>5 DEF Release, rawCache
  <2> QED BY <1>1, <1>2, <1>5, <2>1, OtherReturned DEF Kept
<1> QED BY <1>3, <1>4, <1>5 DEF Release

LEMMA CloseKeeps == ASSUME JobInv, PinInv, NEW w \in Workers, Close(w) PROVE Kept
<1>1. /\ pc[w] = "close" /\ Goto(w, "idle")
      /\ UNCHANGED <<rawRef, blackRef, imageRef>>
  BY DEF Close, At, Shared, rawCache, imageCache
<1>2. holds[w] = "none"
  BY <1>1 DEF JobInv, JobOK, WithLine
<1>3. UNCHANGED holds
  BY <1>2 DEF Close, JobInv, JobTypeOK
<1>4. JobTypeOK' /\ OthersKeep(w)
  BY <1>1, VidMapAssumption DEF Close, JobInv, JobTypeOK, Goto, OthersKeep, Unanswered
<1>5. JobOK(w)'
  BY <1>1 DEF Close, JobInv, JobTypeOK, JobOK, Goto, Unanswered, Answered, WithLine
<1>6. PinInv'
  BY <1>1, <1>2, <1>3, PinsUntouched DEF Close
<1> QED BY <1>4, <1>5, <1>6, OthersStayOK DEF Kept

-----------------------------------------------------------------------------
\* A request changes the ID map by get_id(), release_id() or clearvid(), for a
\* file and an ID that exist, or not at all.
LEMMA HandlerKeepsIds ==
  ASSUME JobInv, [HandlerNext]_handlerVars
  PROVE  [VidMapNext]_vidVars
<1>1. CASE UNCHANGED handlerVars
  BY <1>1 DEF handlerVars
<1>2. ASSUME NEW w \in Workers, RegisterFile(w)
      PROVE  VidMapNext
  <2>1. req[w].file \in Files
    BY <1>2 DEF RegisterFile, At, JobInv, JobOK
  <2> QED BY <1>2, <2>1 DEF RegisterFile, VidMapNext
<1>3. ASSUME NEW w \in Workers, InfoFails(w) \/ NoRaw(w)
      PROVE  [VidMapNext]_vidVars
  <2>1. vid[w] \in 0 .. IdMax
    BY DEF JobInv, JobTypeOK
  <2>2. ReleaseId(vid[w]) \/ UNCHANGED vidVars
    BY <1>3 DEF InfoFails, NoRaw
  <2> QED BY <2>1, <2>2 DEF VidMapNext
<1>4. ASSUME NEW w \in Workers, ClearIds(w)
      PROVE  VidMapNext
  BY <1>4 DEF ClearIds, VidMapNext
<1>5. ASSUME NEW w \in Workers,
             \/ Read(w) \/ Refuse(w) \/ ServePage(w) \/ ServeIndex(w) \/ Shutdown(w)
             \/ ClearRaw(w) \/ ClearImages(w) \/ ParseQuery(w) \/ FindId(w) \/ ServeInfo(w)
             \/ GotInfo(w) \/ FindImage(w) \/ FindRaw(w) \/ DecodeRaw(w) \/ DecodeFails(w)
             \/ Encode(w) \/ SendHead(w) \/ NotReady(w) \/ TimedOut(w)
             \/ AddImage(w) \/ Release(w) \/ Close(w)
             \/ CallWrite(w) \/ WriteReturns(w) \/ WriteFails(w) \/ SelectFails(w)
      PROVE  UNCHANGED vidVars
  BY <1>5 DEF Read, Refuse, ServePage, ServeIndex, Shutdown, ClearRaw, ClearImages,
       ParseQuery, FindId, ServeInfo, GotInfo, FindImage, FindRaw, DecodeRaw, DecodeFails,
       Encode, SendHead, NotReady, TimedOut, AddImage, Release, Close, CallWrite,
       WriteReturns, WriteFails, SelectFails, Shared
<1> QED BY <1>1, <1>2, <1>3, <1>4, <1>5 DEF HandlerNext, Serve

HandlerInv == VidMapInv /\ JobInv /\ PinInv

LEMMA HandlerInitially == HandlerInit => HandlerInv
<1> SUFFICES ASSUME HandlerInit PROVE HandlerInv
  OBVIOUS
<1>1. VidMapInv
  BY VidMapInitially DEF HandlerInit
<1>2. JobTypeOK
  BY VidMapAssumption DEF HandlerInit, JobTypeOK, Unanswered
<1>3. \A w \in Workers : JobOK(w)
  BY DEF HandlerInit, JobOK, Unanswered, Answered
<1>4. PinInv
  <2>1. \A k \in RawKeys : RawHolders(k) = {}
    BY DEF HandlerInit, RawHolders
  <2>2. HoldersOf("black") = {} /\ HoldersOf("image") = {}
    BY DEF HandlerInit, HoldersOf
  <2> QED BY <2>1, <2>2, FS_EmptySet DEF HandlerInit, PinInv
<1> QED BY <1>1, <1>2, <1>3, <1>4 DEF HandlerInv, JobInv

LEMMA HandlerStep ==
  ASSUME HandlerInv, [HandlerNext]_handlerVars
  PROVE  HandlerInv'
<1>1. VidMapInv' /\ VidMapTypeOK
  BY HandlerKeepsIds, VidMapStep DEF HandlerInv, VidMapInv
<1>2. CASE UNCHANGED handlerVars
  <2>1. JobInv'
    BY <1>2 DEF HandlerInv, handlerVars, job, JobInv, JobTypeOK, JobOK
  <2>2. PinInv'
    BY <1>2, PinsUntouched DEF HandlerInv, handlerVars, job, rawCache, imageCache
  <2> QED BY <1>1, <2>1, <2>2 DEF HandlerInv
<1>3. ASSUME NEW w \in Workers,
             \/ Read(w) \/ Serve(w)
             \/ CallWrite(w) \/ WriteReturns(w) \/ WriteFails(w) \/ SelectFails(w)
      PROVE  Kept
  BY <1>1, <1>3, ReadKeeps, RepliesKeep, ClearKeeps, ParseQueryKeeps, IdsKeep, GotInfoKeeps,
     FindImageKeeps, RawKeeps, DecodeFailsKeeps, EncodeKeeps, SendHeadKeeps,
     TransmissionKeeps, ReleaseKeeps, CloseKeeps DEF HandlerInv, Serve
<1> QED BY <1>1, <1>2, <1>3 DEF HandlerNext, HandlerInv, Kept

THEOREM HandlerInvariant == HandlerSpec => []HandlerInv
BY HandlerInitially, HandlerStep, PTL DEF HandlerSpec

\* The request handlers implement the ID map's specification: the steps of any
\* number of requests are steps of get_id(), release_id() and clearvid().
THEOREM HandlerImplementsVidMap == HandlerSpec => VidMapSpec
<1>1. HandlerInit => VidMapInit
  BY DEF HandlerInit
<1>2. HandlerInv /\ [HandlerNext]_handlerVars => [VidMapNext]_vidVars
  BY HandlerKeepsIds DEF HandlerInv
<1> QED BY <1>1, <1>2, HandlerInvariant, PTL DEF HandlerSpec, VidMapSpec

\* What is proved of the map alone holds while requests are served.
THEOREM HandlerVidMapSound == HandlerSpec => []VidMapSound
BY HandlerImplementsVidMap, VidMapIsSound, PTL

\* No path of protocol_handler(), ics_http_handler() and the callbacks replies
\* twice, and none ends without a reply.
THEOREM HandlerRepliesOnce == HandlerSpec => []OneReply
<1>1. ASSUME JobInv PROVE OneReply
  <2>1. ASSUME NEW w \in Workers
        PROVE  Len(replies[w]) <= 1 /\ (pc[w] = "close" => Len(replies[w]) = 1)
    <3>1. CASE pc[w] \in Answered
      <4>1. Len(replies[w]) = 1
        BY <1>1, <3>1 DEF JobInv, JobOK
      <4> QED BY <4>1
    <3>2. CASE pc[w] \in Unanswered
      <4>1. replies[w] = <<>> /\ pc[w] # "close"
        BY <1>1, <3>2 DEF JobInv, JobOK, Unanswered
      <4>2. Len(replies[w]) = 0
        BY <4>1
      <4> QED BY <4>1, <4>2
    <3> QED BY <1>1, <3>1, <3>2 DEF JobInv, JobTypeOK
  <2> QED BY <2>1 DEF OneReply
<1>2. HandlerInv => OneReply
  BY <1>1 DEF HandlerInv
<1> QED BY <1>2, HandlerInvariant, PTL

\* On every path the reference to a cache line is given back once: the counts
\* are those of the threads between taking a line and returning it.
THEOREM HandlerReleasesPins == HandlerSpec => []PinsReleased
<1>1. ASSUME JobInv, PinInv PROVE PinsReleased
  <2>1. \A w \in Workers : holds[w] # "none" => pc[w] # "close"
    BY <1>1 DEF JobInv, JobOK, WithLine
  <2>2. \A k \in RawKeys :
          {w \in Workers : holds[w] = "raw" /\ RawKey(w) = k /\ pc[w] # "close"}
            = RawHolders(k)
    BY <2>1 DEF RawHolders
  <2>3. \A kind \in {"black", "image"} :
          {w \in Workers : holds[w] = kind /\ pc[w] # "close"} = HoldersOf(kind)
    BY <2>1 DEF HoldersOf
  <2> QED BY <1>1, <2>2, <2>3 DEF PinInv, PinsReleased
<1>2. HandlerInv => PinsReleased
  BY <1>1 DEF HandlerInv
<1> QED BY <1>2, HandlerInvariant, PTL

-----------------------------------------------------------------------------
(***************************************************************************)
(* Replies are truthful                                                    *)
(***************************************************************************)

\* p is frame n of the file with ID i, or black, if decoding that one failed.
Shows(p, i, n) ==
  p = <<named[i], n>> \/ (p = Black /\ <<named[i], n>> \in failed)

\* Where a request has an ID, a picture, and a picture in the format it wants.
Encoded == {"send", "tx", "write", "add"}
Pictured == Encoded \cup {"encode"}
Identified == Pictured \cup {"info", "image", "frame"}

\* A request's ID was given to its file last, its picture is the frame it
\* wants, and the header says how the picture is encoded.
JobTrue(w) ==
  /\ pc[w] \in Identified => vid[w] \in given /\ named[vid[w]] = req[w].file
  /\ pc[w] \in Pictured => Shows(body[w][1], vid[w], Frame(w))
  /\ pc[w] = "encode" => body[w][2] = "raw"
  /\ pc[w] \in Encoded => body[w][2] = req[w].fmt
  /\ pc[w] \in {"tx", "write"} => replies[w][1] = <<200, req[w].fmt>>

\* The ID map and the caches go by the file that an ID was given to last.
MapTrue == \A e \in vml : named[e.id] = e.fn
RawTrue == \A k \in DOMAIN raw : k[1] \in given /\ raw[k] = <<named[k[1]], k[2]>>
ImagesTrue ==
  \A k \in DOMAIN images :
    k[1] \in given /\ images[k][2] = k[3] /\ Shows(images[k][1], k[1], k[2])

\* All of this is true until an ID is given a second time: only then does what
\* an evicted entry left in the caches belong to another file.
TruthInv ==
  /\ DOMAIN body = Workers /\ DOMAIN named = 0 .. IdMax
  /\ ~reused => MapTrue /\ RawTrue /\ ImagesTrue /\ \A w \in Workers : JobTrue(w)

\* IDs that were given stay with their files, and failures are remembered.
Remembers ==
  /\ reused => reused'
  /\ given \subseteq given'
  /\ ~reused' => \A i \in given : named'[i] = named[i]
  /\ failed \subseteq failed'

\* What was true of a picture stays true.
LEMMA ShowsStays ==
  ASSUME Remembers, ~reused', NEW i \in given, NEW n, NEW p, Shows(p, i, n)
  PROVE  Shows(p, i, n)'
BY DEF Remembers, Shows, Black

\* A thread's step leaves what is true of the other threads alone.
LEMMA OthersStayTrue ==
  ASSUME TruthInv, Remembers, ~reused', NEW w \in Workers, OthersKeep(w),
         \A u \in Workers \ {w} : body'[u] = body[u],
         JobTrue(w)'
  PROVE  \A u \in Workers : JobTrue(u)'
<1> SUFFICES ASSUME NEW u \in Workers, u # w PROVE JobTrue(u)'
  OBVIOUS
<1>1. JobTrue(u)
  BY DEF TruthInv, Remembers
<1>2. /\ pc'[u] = pc[u] /\ req'[u] = req[u] /\ vid'[u] = vid[u]
      /\ replies'[u] = replies[u] /\ body'[u] = body[u] /\ Frame(u)' = Frame(u)
  BY DEF OthersKeep, Frame
<1>3. pc[u] \in Identified => vid[u] \in given' /\ named'[vid[u]] = req[u].file
  BY <1>1 DEF JobTrue, Remembers
<1>4. pc[u] \in Pictured => Shows(body[u][1], vid[u], Frame(u))'
  <2>1. SUFFICES ASSUME pc[u] \in Pictured PROVE Shows(body[u][1], vid[u], Frame(u))'
    OBVIOUS
  <2>2. vid[u] \in given /\ Shows(body[u][1], vid[u], Frame(u))
    BY <1>1, <2>1 DEF JobTrue, Identified
  <2> QED BY <1>2, <2>2, ShowsStays DEF Shows, Remembers, Black
<1> QED BY <1>1, <1>2, <1>3, <1>4 DEF JobTrue

\* The caches: a line that was there is still right, and a new one is.
LEMMA RawStaysTrue ==
  ASSUME TruthInv, Remembers, ~reused',
         \A k \in DOMAIN raw' :
           \/ k \in DOMAIN raw /\ raw'[k] = raw[k]
           \/ k[1] \in given /\ raw'[k] = <<named[k[1]], k[2]>>
  PROVE  RawTrue'
BY DEF TruthInv, Remembers, RawTrue

LEMMA ImagesStayTrue ==
  ASSUME TruthInv, Remembers, ~reused',
         \A k \in DOMAIN images' :
           \/ k \in DOMAIN images /\ images'[k] = images[k]
           \/ k[1] \in given /\ images'[k][2] = k[3] /\ Shows(images'[k][1], k[1], k[2])
  PROVE  ImagesTrue'
<1> SUFFICES ASSUME NEW k \in DOMAIN images'
             PROVE  k[1] \in given' /\ images'[k][2] = k[3] /\ Shows(images[k][1], k[1], k[2])'
  BY DEF ImagesTrue
<1>1. k[1] \in given /\ images'[k][2] = k[3] /\ Shows(images'[k][1], k[1], k[2])
  BY DEF TruthInv, Remembers, ImagesTrue
<1> QED BY <1>1 DEF Remembers, Shows, Black

-----------------------------------------------------------------------------
\* What a step leaves of the caches and the map, if it only drops entries.
Shrinks ==
  /\ vml' \subseteq vml
  /\ DOMAIN raw' \subseteq DOMAIN raw /\ \A k \in DOMAIN raw' : raw'[k] = raw[k]
  /\ DOMAIN images' \subseteq DOMAIN images
  /\ \A k \in DOMAIN images' : images'[k] = images[k]

\* The common case: no ID is given, and nothing new gets into a cache.
LEMMA TruthStays ==
  ASSUME TruthInv, VidMapTypeOK, NEW w \in Workers, OthersKeep(w),
         \A u \in Workers \ {w} : body'[u] = body[u], DOMAIN body' = Workers,
         UNCHANGED <<given, reused, named>>, failed \subseteq failed',
         Shrinks, ~reused => JobTrue(w)'
  PROVE  TruthInv'
<1>1. Remembers
  BY DEF Remembers
<1>2. ASSUME ~reused'
      PROVE  (MapTrue /\ RawTrue /\ ImagesTrue /\ \A u \in Workers : JobTrue(u))'
  <2>1. MapTrue'
    BY <1>2 DEF MapTrue, TruthInv, Shrinks
  <2>2. RawTrue'
    BY <1>1, <1>2, RawStaysTrue DEF Shrinks
  <2>3. ImagesTrue'
    BY <1>1, <1>2, ImagesStayTrue DEF Shrinks
  <2>4. \A u \in Workers : JobTrue(u)'
    BY <1>1, <1>2, OthersStayTrue
  <2> QED BY <2>1, <2>2, <2>3, <2>4
<1> QED BY <1>2 DEF TruthInv

\* Of a request that has no ID yet, or has its picture behind it, nothing is
\* said.
LEMMA NothingClaimed ==
  ASSUME NEW w \in Workers, pc'[w] \notin Identified
  PROVE  JobTrue(w)'
BY DEF JobTrue, Identified, Pictured, Encoded

LEMMA PagesTrue ==
  ASSUME TruthInv, VidMapTypeOK, JobInv, NEW w \in Workers,
         \/ Read(w) \/ Refuse(w) \/ ServePage(w) \/ ServeIndex(w) \/ Shutdown(w)
         \/ ParseQuery(w) \/ InfoFails(w) \/ ServeInfo(w) \/ NoRaw(w)
  PROVE  TruthInv'
<1>1. /\ UNCHANGED <<given, reused, rawCache, imageCache, history, vid, holds, body>>
      /\ vml' \subseteq vml
  BY DEF Read, Refuse, ServePage, ServeIndex, Shutdown, ParseQuery, InfoFails, ReleaseId,
         ServeInfo, NoRaw, Shared, RestOfJob, vidVars
<1>2. \/ Read(w)
      \/ /\ UNCHANGED req
         /\ \/ \E statuses : Fail(w, statuses)
            \/ Goto(w, "id") /\ UNCHANGED replies
            \/ (\E ctype : Answer(w, 200, ctype)) /\ Goto(w, "close")
  <2>1. CASE Read(w)
    BY <2>1
  <2>2. CASE Refuse(w) \/ NoRaw(w)
    <3>1. UNCHANGED req
      BY <2>2 DEF Refuse, NoRaw, RestOfJob
    <3>2. \E status : Fail(w, <<status>>)
      <4>1. CASE Refuse(w)
        BY <4>1 DEF Refuse
      <4>2. CASE NoRaw(w)
        BY <4>2 DEF NoRaw
      <4> QED BY <2>2, <4>1, <4>2
    <3> QED BY <3>1, <3>2
  <2>3. CASE ServePage(w) \/ Shutdown(w) \/ ServeInfo(w)
    BY <2>3 DEF ServePage, Shutdown, ServeInfo, RestOfJob
  <2>4. CASE ServeIndex(w)
    <3>1. UNCHANGED req
      BY <2>4 DEF ServeIndex, RestOfJob
    <3>2. CASE req[w].file # NoFile
      <4>1. PICK status \in {400, 403, 404} : Fail(w, <<status>>)
        BY <2>4, <3>2 DEF ServeIndex
      <4> QED BY <3>1, <4>1
    <3>3. CASE req[w].file = NoFile
      BY <2>4, <3>1, <3>3 DEF ServeIndex
    <3> QED BY <3>2, <3>3
  <2>5. CASE ParseQuery(w)
    BY <2>5 DEF ParseQuery, RestOfJob
  <2>6. CASE InfoFails(w)
    BY <2>6 DEF InfoFails, RestOfJob
  <2> QED BY <2>1, <2>2, <2>3, <2>4, <2>5, <2>6
<1>3. OthersKeep(w) /\ pc'[w] \in {"dispatch", "id", "close"}
  BY <1>1, <1>2 DEF Read, Fail, Goto, Answer, JobInv, JobTypeOK, OthersKeep
<1>4. Shrinks
  BY <1>1 DEF Shrinks, rawCache, imageCache
<1>5. JobTrue(w)'
  BY <1>3, NothingClaimed DEF Identified, Pictured, Encoded
<1> QED BY <1>1, <1>3, <1>4, <1>5, TruthStays DEF history, TruthInv

\* The caches and the map are cleared.
LEMMA ClearTrue ==
  ASSUME TruthInv, VidMapTypeOK, JobInv, NEW w \in Workers,
         ClearRaw(w) \/ ClearImages(w) \/ ClearIds(w)
  PROVE  TruthInv'
<1>1. OthersKeep(w) /\ UNCHANGED <<given, reused, history, body>>
  BY DEF ClearRaw, ClearImages, ClearIds, ClearVid, Goto, Answer, JobInv, JobTypeOK,
         OthersKeep, RestOfJob, job, vidVars
<1>2. pc'[w] \notin Identified
  BY DEF ClearRaw, ClearImages, ClearIds, Goto, JobInv, JobTypeOK, Identified, Pictured, Encoded
<1>3. Shrinks
  BY DEF ClearRaw, ClearImages, ClearIds, ClearVid, KeepRaw, Shrinks, vidVars, rawCache,
         imageCache
<1> QED BY <1>1, <1>2, <1>3, NothingClaimed, TruthStays DEF history, TruthInv

\* get_id() finds an entry.
LEMMA FindIdTrue ==
  ASSUME TruthInv, VidMapInv, JobInv, NEW w \in Workers, FindId(w)
  PROVE  TruthInv'
<1>1. OthersKeep(w) /\ UNCHANGED <<vidVars, rawCache, imageCache, history, body, req>>
  BY DEF FindId, Goto, JobInv, JobTypeOK, OthersKeep, Shared
<1>2. ASSUME ~reused PROVE JobTrue(w)'
  <2>1. CASE EntriesOf(req[w].file) = {}
    <3>1. pc'[w] = "register"
      BY <2>1 DEF FindId, Goto, JobInv, JobTypeOK
    <3> QED BY <3>1, NothingClaimed DEF Identified, Pictured, Encoded
  <2>2. ASSUME NEW e \in EntriesOf(req[w].file), vid' = [vid EXCEPT ![w] = e.id], Goto(w, "info")
        PROVE  JobTrue(w)'
    <3>1. e \in vml /\ e.fn = req[w].file
      BY <2>2 DEF EntriesOf
    <3>2. e.id \in given /\ named[e.id] = req[w].file
      BY <1>2, <3>1 DEF TruthInv, MapTrue, VidMapInv
    <3>3. pc'[w] = "info" /\ vid'[w] = e.id
      BY <2>2 DEF Goto, JobInv, JobTypeOK
    <3> QED BY <1>1, <3>2, <3>3 DEF JobTrue, Pictured, Encoded, vidVars, history
  <2> QED BY <2>1, <2>2 DEF FindId
<1>3. Shrinks
  BY <1>1 DEF Shrinks, vidVars, rawCache, imageCache
<1> QED BY <1>1, <1>2, <1>3, TruthStays DEF vidVars, history, TruthInv, VidMapInv

\* get_id() makes an entry. Its ID is new, or nothing is claimed any more.
LEMMA RegisterTrue ==
  ASSUME TruthInv, VidMapInv, JobInv, NEW w \in Workers, RegisterFile(w)
  PROVE  TruthInv'
<1> DEFINE f == req[w].file
<1>1. PICK i \in 0 .. IdMax :
        /\ RegisterId(f, i)
        /\ vid' = [vid EXCEPT ![w] = i]
        /\ named' = [named EXCEPT ![i] = f]
        /\ AddedMeanwhile(f) => UNCHANGED raw
        /\ ~AddedMeanwhile(f) => KeepRaw({k \in RawKeys : k[1] # i})
  BY DEF RegisterFile
<1>2. OthersKeep(w) /\ UNCHANGED <<images, failed, body, req>> /\ pc'[w] = "info" /\ vid'[w] = i
  BY <1>1 DEF RegisterFile, Goto, JobInv, JobTypeOK, OthersKeep, imageCache
<1>3. DOMAIN body' = Workers /\ DOMAIN named' = 0 .. IdMax /\ named'[i] = f
  BY <1>1, <1>2 DEF TruthInv
<1>4. ASSUME ~reused'
      PROVE  (MapTrue /\ RawTrue /\ ImagesTrue /\ \A u \in Workers : JobTrue(u))'
  <2>1. /\ ~reused
        /\ given \subseteq given' /\ i \in given'
        /\ i \notin given \/ named[i] = f
        /\ \A e \in vml' : e \in vml \/ e = [fn |-> f, id |-> i]
    <3>1. CASE AddedMeanwhile(f)
      <4>1. UNCHANGED vidVars /\ \E e \in vml : e.fn = f /\ i = e.id
        BY <1>1, <3>1 DEF RegisterId, EntriesOf
      <4> QED BY <1>4, <4>1 DEF vidVars, TruthInv, MapTrue, VidMapInv
    <3>2. CASE ~AddedMeanwhile(f)
      <4>1. i = monotonic /\ AddEntry(f)
        BY <1>1, <3>2 DEF RegisterId
      <4>2. ~reused /\ monotonic \notin given /\ given' = given \cup {monotonic}
        BY <1>4, <4>1 DEF AddEntry
      <4> QED BY <4>1, <4>2 DEF AddEntry
    <3> QED BY <3>1, <3>2
  <2>2. \A j \in given : named'[j] = named[j]
    BY <1>1, <2>1 DEF TruthInv, VidMapInv, VidMapTypeOK
  <2>3. Remembers
    BY <1>2, <1>4, <2>1, <2>2 DEF Remembers
  <2>4. MapTrue'
    <3>1. \A e \in vml : e.id \in given /\ named[e.id] = e.fn
      BY <2>1 DEF MapTrue, TruthInv, VidMapInv
    <3>2. ASSUME NEW e \in vml' PROVE named'[e.id] = e.fn
      <4>1. CASE e \in vml
        BY <2>2, <3>1, <4>1
      <4>2. CASE e = [fn |-> f, id |-> i]
        BY <1>3, <4>2
      <4> QED BY <2>1, <4>1, <4>2
    <3> QED BY <3>2 DEF MapTrue
  <2>5. RawTrue'
    <3>1. \A k \in DOMAIN raw' : k \in DOMAIN raw /\ raw'[k] = raw[k]
      BY <1>1 DEF KeepRaw
    <3> QED BY <1>4, <2>3, <3>1, RawStaysTrue
  <2>6. ImagesTrue'
    BY <1>2, <1>4, <2>3, ImagesStayTrue
  <2>7. JobTrue(w)'
    BY <1>2, <1>3, <2>1 DEF JobTrue, Pictured, Encoded
  <2>8. \A u \in Workers : JobTrue(u)'
    BY <1>2, <1>4, <2>3, <2>7, OthersStayTrue
  <2> QED BY <2>4, <2>5, <2>6, <2>8
<1> QED BY <1>3, <1>4 DEF TruthInv

\* The caches are asked: a hit was put there for the ID, the frame and the
\* format that are wanted.
LEMMA GotInfoTrue ==
  ASSUME TruthInv, VidMapTypeOK, JobInv, NEW w \in Workers, GotInfo(w)
  PROVE  TruthInv'
<1>1. pc[w] = "info" /\ pc'[w] \in {"frame", "image"} /\ OthersKeep(w)
  BY DEF GotInfo, Opens, At, Goto, JobInv, JobTypeOK, OthersKeep, job
<1>2. UNCHANGED <<vidVars, rawCache, imageCache, history, job>>
  BY DEF GotInfo, Shared
<1>3. Shrinks
  BY <1>2 DEF Shrinks, vidVars, rawCache, imageCache
<1>4. ASSUME ~reused PROVE JobTrue(w)'
  BY <1>1, <1>2, <1>4 DEF TruthInv, JobTrue, Identified, Pictured, Encoded, vidVars, history, job
<1> QED BY <1>1, <1>2, <1>3, <1>4, TruthStays DEF vidVars, history, job, TruthInv

LEMMA FindImageTrue ==
  ASSUME TruthInv, VidMapTypeOK, JobInv, NEW w \in Workers, FindImage(w)
  PROVE  TruthInv'
<1>1. pc[w] = "image" /\ UNCHANGED <<vidVars, raw, images, history, req, vid, replies>>
  BY DEF FindImage, At, rawCache
<1>2. /\ OthersKeep(w) /\ DOMAIN body' = Workers
      /\ \A u \in Workers \ {w} : body'[u] = body[u]
  BY <1>1 DEF FindImage, Goto, JobInv, JobTypeOK, OthersKeep, TruthInv
<1>3. Shrinks
  BY <1>1 DEF Shrinks, vidVars
<1>4. ASSUME ~reused PROVE JobTrue(w)'
  <2>1. vid[w] \in given /\ named[vid[w]] = req[w].file
    BY <1>1, <1>4 DEF TruthInv, JobTrue, Identified
  <2>2. CASE Goto(w, "frame")
    <3>1. pc'[w] = "frame"
      BY <2>2 DEF Goto, JobInv, JobTypeOK
    <3> QED BY <1>1, <2>1, <3>1 DEF JobTrue, Pictured, Encoded, vidVars, history
  <2>3. CASE ImageKey(w) \in DOMAIN images /\ Goto(w, "send")
               /\ body' = [body EXCEPT ![w] = images[ImageKey(w)]]
    <3>1. pc'[w] = "send" /\ body'[w] = images[ImageKey(w)]
      BY <2>3 DEF Goto, JobInv, JobTypeOK, TruthInv
    <3>2. images[ImageKey(w)][2] = req[w].fmt /\ Shows(images[ImageKey(w)][1], vid[w], Frame(w))
      BY <1>4, <2>3 DEF TruthInv, ImagesTrue, ImageKey
    <3>3. Shows(body[w][1], vid[w], Frame(w))'
      BY <1>1, <3>1, <3>2 DEF Shows, Black, Frame, history
    <3> QED BY <1>1, <2>1, <3>1, <3>2, <3>3 DEF JobTrue, vidVars, history
  <2> QED BY <2>2, <2>3 DEF FindImage
<1> QED BY <1>1, <1>2, <1>3, <1>4, TruthStays DEF vidVars, history, TruthInv

\* A line of the frame cache is taken with what it is to hold.
LEMMA TakenTrue ==
  ASSUME TruthInv, JobInv, NEW w \in Workers, pc[w] = "frame", ~reused',
         NEW kind, NEW p, TakeRaw(w, kind, p), Shows(p, vid[w], Frame(w))',
         UNCHANGED <<given, reused, named, req, vid>>
  PROVE  JobTrue(w)'
<1>1. vid[w] \in given /\ named[vid[w]] = req[w].file
  BY DEF TruthInv, JobTrue, Identified
<1>2. pc'[w] = "encode" /\ body'[w] = <<p, "raw">>
  BY DEF TakeRaw, Goto, JobInv, JobTypeOK, TruthInv
<1>3. Shows(body[w][1], vid[w], Frame(w))'
  BY <1>2 DEF Shows, Black
<1> QED BY <1>1, <1>2, <1>3 DEF JobTrue, Encoded

LEMMA TakeKeepsOthers ==
  ASSUME TruthInv, JobInv, NEW w \in Workers, NEW kind, NEW p, TakeRaw(w, kind, p),
         UNCHANGED <<req, vid, replies>>
  PROVE  /\ OthersKeep(w) /\ DOMAIN body' = Workers
         /\ \A u \in Workers \ {w} : body'[u] = body[u]
BY DEF TakeRaw, Goto, JobInv, JobTypeOK, OthersKeep, TruthInv

LEMMA FindRawTrue ==
  ASSUME TruthInv, VidMapTypeOK, JobInv, NEW w \in Workers, FindRaw(w)
  PROVE  TruthInv'
<1>1. /\ pc[w] = "frame" /\ RawKey(w) \in DOMAIN raw
      /\ TakeRaw(w, "raw", raw[RawKey(w)])
      /\ UNCHANGED <<vidVars, raw, images, history, req, vid, replies>>
  BY DEF FindRaw, At, imageCache
<1>2. Shrinks
  BY <1>1 DEF Shrinks, vidVars
<1>3. ASSUME ~reused PROVE JobTrue(w)'
  <2>1. PICK p : p = raw[RawKey(w)]
    OBVIOUS
  <2>2. p = <<named[vid[w]], Frame(w)>>
    BY <1>1, <1>3, <2>1 DEF TruthInv, RawTrue, RawKey
  <2>3. Shows(p, vid[w], Frame(w))'
    BY <1>1, <2>2 DEF Shows, Frame, history
  <2> QED BY <1>1, <1>3, <2>1, <2>3, TakenTrue DEF vidVars, history
<1> QED BY <1>1, <1>2, <1>3, TakeKeepsOthers, TruthStays DEF vidVars, history

\* The frame is decoded, from the file the ID was given to last, or fails to be.
LEMMA DecodeRawTrue ==
  ASSUME TruthInv, VidMapTypeOK, JobInv, NEW w \in Workers, DecodeRaw(w)
  PROVE  TruthInv'
<1>1. PICK p : p = <<named[vid[w]], Frame(w)>>
  OBVIOUS
<1>2. /\ pc[w] = "frame" /\ TakeRaw(w, "raw", p)
      /\ UNCHANGED <<vidVars, images, history, req, vid, replies>>
  BY <1>1 DEF DecodeRaw, At, imageCache
<1>3. \A k \in DOMAIN raw' :
        \/ k \in DOMAIN raw /\ raw'[k] = raw[k]
        \/ k = RawKey(w) /\ raw'[k] = p
  <2>1. PICK old : raw' = [k \in (DOMAIN raw \ old) \cup {RawKey(w)} |->
                             IF k = RawKey(w) THEN p ELSE raw[k]]
    <3>1. \/ raw' = [k \in (DOMAIN raw \ {}) \cup {RawKey(w)} |->
                       IF k = RawKey(w) THEN p ELSE raw[k]]
          \/ \E x : raw' = [k \in (DOMAIN raw \ {x}) \cup {RawKey(w)} |->
                              IF k = RawKey(w) THEN p ELSE raw[k]]
      <4>1. DOMAIN raw \ {} = DOMAIN raw
        OBVIOUS
      <4> QED BY <1>1, <4>1 DEF DecodeRaw
    <3> QED BY <3>1
  <2> QED BY <2>1
<1>4. Remembers
  BY <1>2 DEF Remembers, vidVars, history
<1>5. ASSUME ~reused'
      PROVE  (MapTrue /\ RawTrue /\ ImagesTrue /\ \A u \in Workers : JobTrue(u))'
  <2>1. ~reused /\ vid[w] \in given
    BY <1>2, <1>5 DEF vidVars, TruthInv, JobTrue, Identified
  <2>2. MapTrue'
    BY <1>2, <2>1 DEF MapTrue, TruthInv, vidVars, history
  <2>3. RawTrue'
    <3>1. RawKey(w)[1] = vid[w] /\ RawKey(w)[2] = Frame(w)
      BY DEF RawKey
    <3>2. \A k \in DOMAIN raw' :
            \/ k \in DOMAIN raw /\ raw'[k] = raw[k]
            \/ k[1] \in given /\ raw'[k] = <<named[k[1]], k[2]>>
      BY <1>1, <1>3, <2>1, <3>1
    <3> QED BY <1>4, <1>5, <3>2, RawStaysTrue
  <2>4. ImagesTrue'
    BY <1>2, <1>4, <1>5, ImagesStayTrue
  <2>5. JobTrue(w)'
    <3>1. Shows(p, vid[w], Frame(w))'
      BY <1>1, <1>2 DEF Shows, Frame, history
    <3> QED BY <1>2, <1>5, <3>1, TakenTrue DEF vidVars, history
  <2>6. \A u \in Workers : JobTrue(u)'
    BY <1>2, <1>4, <1>5, <2>5, OthersStayTrue, TakeKeepsOthers
  <2> QED BY <2>2, <2>3, <2>4, <2>6
<1>6. DOMAIN body' = Workers /\ DOMAIN named' = 0 .. IdMax
  BY <1>2, TakeKeepsOthers DEF TruthInv, history
<1> QED BY <1>5, <1>6 DEF TruthInv

LEMMA DecodeFailsTrue ==
  ASSUME TruthInv, VidMapTypeOK, JobInv, NEW w \in Workers, DecodeFails(w)
  PROVE  TruthInv'
<1>1. /\ pc[w] = "frame" /\ TakeRaw(w, "black", Black)
      /\ failed' = failed \cup {<<named[vid[w]], Frame(w)>>}
      /\ UNCHANGED <<vidVars, raw, images, named, req, vid, replies>>
  BY DEF DecodeFails, At, imageCache
<1>2. Shrinks
  BY <1>1 DEF Shrinks, vidVars
<1>3. ASSUME ~reused PROVE JobTrue(w)'
  <2>1. Shows(Black, vid[w], Frame(w))'
    BY <1>1 DEF Shows, Black, Frame
  <2> QED BY <1>1, <1>3, <2>1, TakenTrue DEF vidVars, Black
<1> QED BY <1>1, <1>2, <1>3, TakeKeepsOthers, TruthStays DEF vidVars, Black

\* The picture is encoded, and sent behind a header that says how.
LEMMA EncodeTrue ==
  ASSUME TruthInv, VidMapTypeOK, JobInv, NEW w \in Workers, Encode(w)
  PROVE  TruthInv'
<1>1. pc[w] = "encode" /\ UNCHANGED <<vidVars, raw, images, history, req, vid, holds>>
  BY DEF Encode, At, Shared, rawCache, imageCache
<1>2. /\ OthersKeep(w) /\ DOMAIN body' = Workers
      /\ \A u \in Workers \ {w} : body'[u] = body[u]
  BY <1>1 DEF Encode, Goto, Answer, JobInv, JobTypeOK, OthersKeep, TruthInv
<1>3. Shrinks
  BY <1>1 DEF Shrinks, vidVars
<1>4. ASSUME ~reused PROVE JobTrue(w)'
  <2>1. CASE Goto(w, AfterFormatError)
    <3>1. pc'[w] = "release"
      BY <2>1 DEF Goto, JobInv, JobTypeOK, AfterFormatError
    <3> QED BY <3>1, NothingClaimed DEF Identified, Pictured, Encoded
  <2>2. CASE /\ Goto(w, "send")
             /\ \/ req[w].fmt = "raw" /\ UNCHANGED body
                \/ body' = [body EXCEPT ![w] = <<@[1], req[w].fmt>>]
    <3>1. /\ vid[w] \in given /\ named[vid[w]] = req[w].file
          /\ Shows(body[w][1], vid[w], Frame(w)) /\ body[w][2] = "raw"
      BY <1>1, <1>4 DEF TruthInv, JobTrue, Identified, Pictured
    <3>2. pc'[w] = "send" /\ body'[w][1] = body[w][1] /\ body'[w][2] = req[w].fmt
      BY <2>2, <3>1 DEF Goto, JobInv, JobTypeOK, TruthInv
    <3>3. Shows(body[w][1], vid[w], Frame(w))'
      BY <1>1, <3>1, <3>2 DEF Shows, Black, Frame, history
    <3> QED BY <1>1, <3>1, <3>2, <3>3 DEF JobTrue, vidVars, history
  <2> QED BY <2>1, <2>2 DEF Encode
<1> QED BY <1>1, <1>2, <1>3, <1>4, TruthStays DEF vidVars, history, TruthInv

LEMMA SendHeadTrue ==
  ASSUME TruthInv, VidMapTypeOK, JobInv, NEW w \in Workers, SendHead(w)
  PROVE  TruthInv'
<1>1. /\ pc[w] = "send" /\ Goto(w, "tx") /\ Answer(w, 200, req[w].fmt)
      /\ UNCHANGED <<vidVars, raw, images, history, req, vid, holds, body>>
  BY DEF SendHead, At, Shared, rawCache, imageCache
<1>2. OthersKeep(w)
  BY <1>1 DEF Goto, Answer, JobInv, JobTypeOK, OthersKeep
<1>3. Shrinks
  BY <1>1 DEF Shrinks, vidVars
<1>4. ASSUME ~reused PROVE JobTrue(w)'
  <2>1. replies[w] = <<>>
    BY <1>1 DEF JobInv, JobOK, Unanswered
  <2>2. pc'[w] = "tx" /\ replies'[w][1] = <<200, req[w].fmt>>
    BY <1>1, <2>1 DEF Goto, Answer, JobInv, JobTypeOK
  <2>3. /\ vid[w] \in given /\ named[vid[w]] = req[w].file
        /\ Shows(body[w][1], vid[w], Frame(w)) /\ body[w][2] = req[w].fmt
    BY <1>1, <1>4 DEF TruthInv, JobTrue, Identified, Pictured, Encoded
  <2>4. Shows(body[w][1], vid[w], Frame(w))'
    BY <1>1, <2>3 DEF Shows, Black, Frame, history
  <2> QED BY <1>1, <2>2, <2>3, <2>4 DEF JobTrue, vidVars, history
<1> QED BY <1>1, <1>2, <1>3, <1>4, TruthStays DEF vidVars, history, TruthInv

\* http_tx() changes neither the picture nor the reply.
LEMMA TransmissionTrue ==
  ASSUME TruthInv, VidMapTypeOK, JobInv, NEW w \in Workers,
         CallWrite(w) \/ WriteReturns(w) \/ WriteFails(w) \/ SelectFails(w)
           \/ NotReady(w) \/ TimedOut(w)
  PROVE  TruthInv'
<1>1. /\ pc[w] \in {"tx", "write"}
      /\ UNCHANGED <<vidVars, raw, images, history, req, vid, holds, replies, body>>
  BY DEF CallWrite, WriteReturns, WriteFails, SelectFails, NotReady, TimedOut, At, Shared,
         job, rawCache, imageCache
<1>2. \/ \E s \in {"tx", "write", "add", "release"} : Goto(w, s)
      \/ UNCHANGED pc
  BY DEF CallWrite, WriteReturns, WriteFails, SelectFails, NotReady, TimedOut, AfterTx
<1>3. OthersKeep(w) /\ pc'[w] \in {"tx", "write", "add", "release"}
  BY <1>1, <1>2 DEF Goto, JobInv, JobTypeOK, OthersKeep
<1>4. Shrinks
  BY <1>1 DEF Shrinks, vidVars
<1>5. ASSUME ~reused PROVE JobTrue(w)'
  <2>1. /\ vid[w] \in given /\ named[vid[w]] = req[w].file
        /\ Shows(body[w][1], vid[w], Frame(w)) /\ body[w][2] = req[w].fmt
        /\ replies[w][1] = <<200, req[w].fmt>>
    BY <1>1, <1>5 DEF TruthInv, JobTrue, Identified, Pictured, Encoded
  <2>2. Shows(body[w][1], vid[w], Frame(w))'
    BY <1>1, <2>1 DEF Shows, Black, Frame, history
  <2> QED BY <1>1, <1>3, <2>1, <2>2 DEF JobTrue, vidVars, history
<1> QED BY <1>1, <1>3, <1>4, <1>5, TruthStays DEF vidVars, history, TruthInv

\* The image goes to the cache under the ID, the frame and the format that the
\* request had all along.
LEMMA AddImageTrue ==
  ASSUME TruthInv, VidMapTypeOK, JobInv, NEW w \in Workers, AddImage(w)
  PROVE  TruthInv'
<1>1. /\ pc[w] = "add" /\ Goto(w, "release")
      /\ UNCHANGED <<vidVars, raw, history, req, vid, holds, replies, body>>
  BY DEF AddImage, At, job
<1>2. OthersKeep(w) /\ pc'[w] = "release"
  BY <1>1 DEF Goto, JobInv, JobTypeOK, OthersKeep
<1>3. JobTrue(w)'
  BY <1>2, NothingClaimed DEF Identified, Pictured, Encoded
<1>4. Remembers
  BY <1>1 DEF Remembers, vidVars, history
<1>5. \A k \in DOMAIN images' :
        \/ k \in DOMAIN images /\ images'[k] = images[k]
        \/ k = ImageKey(w) /\ images'[k] = body[w]
  <2>1. CASE UNCHANGED images
    BY <2>1
  <2>2. ASSUME NEW old, images' = [k \in (DOMAIN images \ old) \cup {ImageKey(w)} |->
                                     IF k = ImageKey(w) THEN body[w] ELSE images[k]]
        PROVE  \A k \in DOMAIN images' :
                 \/ k \in DOMAIN images /\ images'[k] = images[k]
                 \/ k = ImageKey(w) /\ images'[k] = body[w]
    BY <2>2
  <2> QED BY <2>1, <2>2 DEF AddImage
<1>6. ASSUME ~reused'
      PROVE  (MapTrue /\ RawTrue /\ ImagesTrue /\ \A u \in Workers : JobTrue(u))'
  <2>1. /\ ~reused /\ vid[w] \in given
        /\ Shows(body[w][1], vid[w], Frame(w)) /\ body[w][2] = req[w].fmt
    BY <1>1, <1>6 DEF vidVars, TruthInv, JobTrue, Identified, Pictured, Encoded
  <2>2. MapTrue' /\ RawTrue'
    BY <1>1, <2>1 DEF MapTrue, RawTrue, TruthInv, vidVars, history
  <2>3. ImageKey(w)[1] = vid[w] /\ ImageKey(w)[2] = Frame(w) /\ ImageKey(w)[3] = req[w].fmt
    BY DEF ImageKey
  <2>4. ImagesTrue'
    <3>1. \A k \in DOMAIN images' :
            \/ k \in DOMAIN images /\ images'[k] = images[k]
            \/ k[1] \in given /\ images'[k][2] = k[3] /\ Shows(images'[k][1], k[1], k[2])
      BY <1>5, <2>1, <2>3
    <3> QED BY <1>4, <1>6, <3>1, ImagesStayTrue
  <2>5. \A u \in Workers : JobTrue(u)'
    BY <1>1, <1>2, <1>3, <1>4, <1>6, OthersStayTrue
  <2> QED BY <2>2, <2>4, <2>5
<1> QED BY <1>1, <1>6 DEF TruthInv, history

\* The line is given back, and the connection closed.
LEMMA EndTrue ==
  ASSUME TruthInv, VidMapTypeOK, JobInv, NEW w \in Workers, Release(w) \/ Close(w)
  PROVE  TruthInv'
<1>1. /\ UNCHANGED <<vidVars, images, history>>
      /\ DOMAIN raw' \subseteq DOMAIN raw /\ \A k \in DOMAIN raw' : raw'[k] = raw[k]
  BY DEF Release, Close, Shared, rawCache, imageCache
<1>2. pc'[w] \in {"close", "idle"}
  BY DEF Release, Close, Goto, JobInv, JobTypeOK
<1>3. /\ OthersKeep(w) /\ DOMAIN body' = Workers
      /\ \A u \in Workers \ {w} : body'[u] = body[u]
  BY DEF Release, Close, Goto, JobInv, JobTypeOK, OthersKeep, TruthInv
<1>4. Shrinks
  BY <1>1 DEF Shrinks, vidVars
<1>5. JobTrue(w)'
  BY <1>2, NothingClaimed DEF Identified, Pictured, Encoded
<1> QED BY <1>1, <1>3, <1>4, <1>5, TruthStays DEF vidVars, history

-----------------------------------------------------------------------------
LEMMA TruthInitially == HandlerInit => TruthInv
BY DEF HandlerInit, VidMapInit, TruthInv, MapTrue, RawTrue, ImagesTrue, JobTrue,
       Identified, Pictured, Encoded

LEMMA TruthStep ==
  ASSUME TruthInv, HandlerInv, [HandlerNext]_handlerVars
  PROVE  TruthInv'
<1>1. VidMapTypeOK /\ VidMapInv /\ JobInv
  BY DEF HandlerInv, VidMapInv
<1>2. CASE UNCHANGED handlerVars
  BY <1>2 DEF handlerVars, vidVars, job, rawCache, imageCache, history, TruthInv, MapTrue,
       RawTrue, ImagesTrue, JobTrue, Shows, Black, Frame
<1>3. ASSUME NEW w \in Workers,
             \/ Read(w) \/ Serve(w)
             \/ CallWrite(w) \/ WriteReturns(w) \/ WriteFails(w) \/ SelectFails(w)
      PROVE  TruthInv'
  BY <1>1, <1>3, PagesTrue, ClearTrue, FindIdTrue, RegisterTrue, GotInfoTrue, FindImageTrue,
     FindRawTrue, DecodeRawTrue, DecodeFailsTrue, EncodeTrue, SendHeadTrue,
     TransmissionTrue, AddImageTrue, EndTrue DEF Serve
<1> QED BY <1>2, <1>3 DEF HandlerNext

\* For any number of threads, files, cache sizes and purges: as long as no ID
\* was given twice, what hdl_decode_frame() sends with status 200 is the frame
\* and the file that was asked for, or the black picture of a frame that could
\* not be decoded, in the format of the header.
THEOREM HandlerIsTruthful == HandlerSpec => []ReplyTruthful
<1>1. ASSUME TruthInv PROVE ReplyTruthful
  <2>1. SUFFICES ASSUME NEW w \in Workers, pc[w] = "tx", ~reused
                 PROVE  /\ \/ body[w][1] = <<req[w].file, Frame(w)>>
                           \/ /\ body[w][1] = Black
                              /\ <<req[w].file, Frame(w)>> \in failed
                        /\ replies[w][1] = <<200, body[w][2]>>
    BY DEF ReplyTruthful
  <2>2. JobTrue(w)
    BY <1>1, <2>1 DEF TruthInv
  <2> QED BY <2>1, <2>2 DEF JobTrue, Identified, Pictured, Encoded, Shows
<1>2. HandlerSpec => []TruthInv
  BY HandlerInvariant, TruthInitially, TruthStep, PTL DEF HandlerSpec
<1> QED BY <1>1, <1>2, PTL
=============================================================================
