-------------------------- MODULE FrameCacheProofs --------------------------
(***************************************************************************)
(* Proofs about FrameCache, for any number of threads, lines and keys.     *)
(*                                                                         *)
(* The invariants that matter (RefcntExact, CacheBound, ErrorsNotCached,   *)
(* ValidMatchesKey) are not inductive by themselves: a line is only safe   *)
(* from eviction, clearing and freeing if the thread that works on it can  *)
(* be seen in the line's flags, which needs HeldLinked, and a hit is only  *)
(* safe if a line under decoding is not VALID, which needs DecodingOnly.   *)
(***************************************************************************)
EXTENDS FrameCache, FiniteSetTheorems, TLAPS

\* A line that a thread decodes into or serves is linked, hence allocated.
HeldLinked == \A t \in Threads : Busy(t) => ptr[t] \in vcache

\* A line that is being decoded into has no other flag.
DecodingOnly ==
  \A l \in vcache : "DECODING" \in flags[l] => flags[l] = {"DECODING"}

\* A thread that works on a request knows its key.
RequestKnown == \A t \in Threads : pc[t] # "idle" => req[t] \in Keys

IInv == TypeOK /\ HeldLinked /\ RefcntExact /\ DecodingOnly /\ RequestKnown

-----------------------------------------------------------------------------
\* The holders of a line are finitely many: Cardinality is meaningful.
LEMMA HoldersFinite ==
  ASSUME NEW l
  PROVE  /\ IsFiniteSet(Holders(l))
         /\ Cardinality(Holders(l)) \in Nat
         /\ Cardinality(Holders(l)) = 0 <=> Holders(l) = {}
<1>1. Holders(l) \in SUBSET Threads
  BY DEF Holders
<1>2. IsFiniteSet(Holders(l))
  BY <1>1, FS_Subset, ThreadsAssumption
<1>. QED
  BY <1>2, FS_CardinalityType, FS_EmptySet

\* Initially the table is empty and every thread is idle.
LEMMA InitIInv == Init => IInv
<1>. SUFFICES ASSUME Init PROVE IInv
  OBVIOUS
<1>1. TypeOK
  BY ConfigAssumption DEF Init, TypeOK, Flags
<1>2. HeldLinked /\ RequestKnown
  BY DEF Init, HeldLinked, RequestKnown, Busy, Decoding, Serving
<1>3. RefcntExact /\ DecodingOnly
  BY DEF Init, RefcntExact, DecodingOnly
<1>. QED
  BY <1>1, <1>2, <1>3 DEF IInv

-----------------------------------------------------------------------------
(***************************************************************************)
(* One lemma per kind of step.  A quiet step moves a thread that neither   *)
(* decodes nor serves, before and after it, and leaves the lines alone.    *)
(***************************************************************************)

Quiet(t) ==
  /\ UNCHANGED lines
  /\ ~Busy(t) /\ ~Busy(t)'
  /\ \A u \in Threads \ {t} : pc'[u] = pc[u] /\ ptr'[u] = ptr[u]

\* A quiet step changes no line and no set of holders or decoders.
LEMMA QuietStep ==
  ASSUME NEW t \in Threads, IInv, Quiet(t)
  PROVE  HeldLinked' /\ RefcntExact' /\ DecodingOnly'
<1>1. ASSUME NEW l
      PROVE  Holders(l)' = Holders(l) /\ Decoders(l)' = Decoders(l)
  BY DEF Quiet, Holders, Decoders, Busy, Serving, Decoding
<1>2. HeldLinked'
  BY DEF IInv, HeldLinked, Quiet, Busy, Serving, Decoding, lines
<1>3. RefcntExact'
  <2>. SUFFICES ASSUME NEW l \in vcache
                PROVE  RefcntExact!(l)'
    BY DEF RefcntExact, Quiet, lines
  <2>. QED
    BY <1>1 DEF RefcntExact, IInv, Quiet, lines
<1>4. DecodingOnly'
  BY DEF IInv, DecodingOnly, Quiet, lines
<1>. QED
  BY <1>2, <1>3, <1>4


\* Looking a frame up, missing it, waiting for a line: all quiet.
LEMMA LookupSteps ==
  ASSUME NEW t \in Threads, IInv,
         \/ \E k \in Keys : Request(t, k)
         \/ Find(t)
         \/ Recheck(t) /\ ~IsHit(ptr[t])
         \/ TouchFreed(t)
         \/ GetclRetry(t)
  PROVE  IInv'
<1>. USE DEF IInv
<1>1. CASE \E k \in Keys : Request(t, k)
  <2>1. TypeOK' /\ RequestKnown'
    BY <1>1 DEF TypeOK, RequestKnown, Request, Goto, lines
  <2>2. Quiet(t)
    BY <1>1 DEF TypeOK, Request, Goto, lines, Quiet, Busy, Serving, Decoding
  <2>. QED
    BY <2>1, <2>2, QuietStep
<1>2. CASE Find(t)
  <2>1. TypeOK' /\ RequestKnown'
    BY <1>2, ConfigAssumption
       DEF TypeOK, RequestKnown, Find, Miss, Matching, Goto, lines
  <2>2. Quiet(t)
    BY <1>2 DEF TypeOK, Find, Miss, Goto, lines, Quiet, Busy, Serving, Decoding
  <2>. QED
    BY <2>1, <2>2, QuietStep
<1>3. CASE Recheck(t) /\ ~IsHit(ptr[t])
  <2>1. TypeOK' /\ RequestKnown'
    BY <1>3, ConfigAssumption DEF TypeOK, RequestKnown, Recheck, Miss, Goto
  <2>2. Quiet(t)
    BY <1>3
       DEF TypeOK, Recheck, Miss, Goto, lines, Quiet, Busy, Serving, Decoding
  <2>. QED
    BY <2>1, <2>2, QuietStep
<1>4. CASE TouchFreed(t)
  <2>1. TypeOK' /\ RequestKnown'
    BY <1>4 DEF TypeOK, RequestKnown, TouchFreed, Goto, lines
  <2>2. Quiet(t)
    BY <1>4
       DEF TypeOK, TouchFreed, Goto, lines, Quiet, Busy, Serving, Decoding
  <2>. QED
    BY <2>1, <2>2, QuietStep
<1>5. CASE GetclRetry(t)
  <2>1. TypeOK' /\ RequestKnown'
    <3>1. CASE timeout[t] > 1
      BY <1>5, <3>1, ConfigAssumption
         DEF TypeOK, RequestKnown, GetclRetry, Return, lines
    <3>2. CASE timeout[t] <= 1
      BY <1>5, <3>2, ConfigAssumption
         DEF TypeOK, RequestKnown, GetclRetry, Return, Goto, lines
    <3>. QED
      BY <1>5, <3>1, <3>2 DEF GetclRetry
  <2>2. Quiet(t)
    BY <1>5
       DEF TypeOK, GetclRetry, Return, Goto, lines, Quiet, Busy, Serving, Decoding
  <2>. QED
    BY <2>1, <2>2, QuietStep
<1>. QED
  BY <1>1, <1>2, <1>3, <1>4, <1>5

-----------------------------------------------------------------------------
\* getcl() hands a line to a thread.  Whichever of the three ways it takes,
\* the line was nobody's before and is only this thread's afterwards.
LEMMA StartDecodeStep ==
  ASSUME NEW t \in Threads, NEW l \in Lines, IInv,
         pc[t] = "getcl",
         Holders(l) = {}, Decoders(l) = {},
         vcache' = vcache \cup {l},
         flags' = [flags EXCEPT ![l] = {"DECODING"}],
         \A m \in vcache : m # l => refcnt'[m] = refcnt[m],
         refcnt'[l] = 0,
         StartDecode(t, l)
  PROVE  HeldLinked' /\ RefcntExact' /\ DecodingOnly' /\ RequestKnown'
<1>. USE DEF IInv
<1>1. pc' = [pc EXCEPT ![t] = "decode"] /\ ptr' = [ptr EXCEPT ![t] = l] /\ req' = req
  BY DEF StartDecode, Goto
<1>2. HeldLinked'
  BY <1>1 DEF TypeOK, HeldLinked, Busy, Serving, Decoding
<1>3. \A m : Holders(m)' = Holders(m)
  BY <1>1 DEF TypeOK, Holders, Serving
<1>4. Decoders(l)' = {t} /\ \A m : m # l => Decoders(m)' = Decoders(m)
  BY <1>1 DEF TypeOK, Decoders, Decoding
<1>5. RefcntExact'
  <2>. SUFFICES ASSUME NEW m \in vcache'
                PROVE  RefcntExact!(m)'
    BY DEF RefcntExact
  <2>1. CASE m = l
    BY <2>1, <1>3, <1>4, FS_EmptySet DEF TypeOK
  <2>2. CASE m # l
    BY <2>2, <1>3, <1>4 DEF TypeOK, RefcntExact
  <2>. QED
    BY <2>1, <2>2
<1>6. DecodingOnly'
  BY DEF TypeOK, DecodingOnly
<1>7. RequestKnown'
  BY <1>1 DEF TypeOK, RequestKnown
<1>. QED
  BY <1>2, <1>5, <1>6, <1>7

\* A line outside the table, or without DECODING and INUSE, is nobody's.
LEMMA FreeLine ==
  ASSUME IInv, NEW l \in Lines, l \in (Lines \ vcache) \cup Evictable
  PROVE  Holders(l) = {} /\ Decoders(l) = {}
<1>. USE DEF IInv
<1>1. CASE l \notin vcache
  BY <1>1 DEF HeldLinked, Holders, Decoders, Busy
<1>2. CASE l \in Evictable
  BY <1>2 DEF Evictable, RefcntExact
<1>. QED
  BY <1>1, <1>2

LEMMA GetclSteps ==
  ASSUME NEW t \in Threads, IInv,
         GetclUnflagged(t) \/ GetclEvict(t) \/ GetclNew(t)
  PROVE  IInv'
<1>. USE DEF IInv
<1>1. CASE GetclUnflagged(t)
  <2>1. PICK l \in Unflagged : /\ flags' = [flags EXCEPT ![l] = {"DECODING"}]
                               /\ StartDecode(t, l)
    BY <1>1 DEF GetclUnflagged
  <2>2. l \in Lines /\ l \in vcache /\ l \in Evictable
    BY DEF Unflagged, Evictable, TypeOK
  <2>3. Holders(l) = {} /\ Decoders(l) = {}
    BY <2>2, FreeLine
  <2>4. refcnt[l] = 0
    BY <2>2, <2>3, FS_EmptySet DEF RefcntExact
  <2>5. TypeOK'
    BY <1>1, <2>1, <2>2, ConfigAssumption
       DEF TypeOK, GetclUnflagged, StartDecode, Goto, Flags
  <2>6. HeldLinked' /\ RefcntExact' /\ DecodingOnly' /\ RequestKnown'
    BY <1>1, <2>1, <2>2, <2>3, <2>4, StartDecodeStep DEF GetclUnflagged
  <2>. QED
    BY <2>5, <2>6
<1>2. CASE GetclEvict(t)
  <2>1. PICK l \in Evictable : Rekey(t, l) /\ StartDecode(t, l)
    BY <1>2 DEF GetclEvict
  <2>2. l \in Lines /\ l \in vcache
    BY DEF Evictable, TypeOK
  <2>3. Holders(l) = {} /\ Decoders(l) = {}
    BY <2>2, FreeLine
  <2>4. TypeOK'
    BY <1>2, <2>1, <2>2, ConfigAssumption
       DEF TypeOK, GetclEvict, Rekey, StartDecode, Goto, Flags
  <2>5. /\ pc[t] = "getcl"
        /\ vcache' = vcache \cup {l}
        /\ flags' = [flags EXCEPT ![l] = {"DECODING"}]
        /\ \A m \in vcache : m # l => refcnt'[m] = refcnt[m]
        /\ refcnt'[l] = 0
    <3>1. pc[t] = "getcl" /\ vcache' = vcache
      BY <1>2 DEF GetclEvict
    <3>2. vcache' = vcache \cup {l}
      BY <2>2, <3>1
    <3>. QED
      BY <3>1, <3>2, <2>1, <2>2 DEF Rekey, TypeOK
  <2>6. HeldLinked' /\ RefcntExact' /\ DecodingOnly' /\ RequestKnown'
    BY <2>1, <2>2, <2>3, <2>5, StartDecodeStep
  <2>. QED
    BY <2>4, <2>6
<1>3. CASE GetclNew(t)
  <2>1. PICK l \in Lines \ vcache :
          vcache' = vcache \cup {l} /\ Rekey(t, l) /\ StartDecode(t, l)
    BY <1>3 DEF GetclNew
  <2>2. Holders(l) = {} /\ Decoders(l) = {}
    BY FreeLine
  <2>3. TypeOK'
    BY <1>3, <2>1, ConfigAssumption
       DEF TypeOK, GetclNew, Rekey, StartDecode, Goto, Flags
  <2>4. /\ pc[t] = "getcl"
        /\ flags' = [flags EXCEPT ![l] = {"DECODING"}]
        /\ \A m \in vcache : m # l => refcnt'[m] = refcnt[m]
        /\ refcnt'[l] = 0
    BY <1>3, <2>1 DEF GetclNew, Rekey, TypeOK
  <2>5. HeldLinked' /\ RefcntExact' /\ DecodingOnly' /\ RequestKnown'
    BY <2>1, <2>2, <2>4, StartDecodeStep
  <2>. QED
    BY <2>3, <2>5
<1>. QED
  BY <1>1, <1>2, <1>3

-----------------------------------------------------------------------------
\* A thread that had no line, or was the only decoder of l, starts to serve l.
LEMMA AcquireStep ==
  ASSUME NEW t \in Threads, NEW l \in vcache, NEW f \in SUBSET Flags, IInv,
         ~Serving(t),
         Decoders(l) \subseteq {t},
         Decoding(t) => ptr[t] = l,
         "INUSE" \in f, "DECODING" \notin f,
         Acquire(l, f),
         pc' = [pc EXCEPT ![t] = "serve"],
         ptr' = [ptr EXCEPT ![t] = l],
         vcache' = vcache
  PROVE  HeldLinked' /\ RefcntExact' /\ DecodingOnly'
<1>. USE DEF IInv
<1>1. HeldLinked'
  BY DEF TypeOK, HeldLinked, Busy, Serving, Decoding
<1>2. Holders(l)' = Holders(l) \cup {t} /\ t \notin Holders(l)
  BY DEF TypeOK, Holders, Serving
<1>3. \A m \in vcache : m # l => Holders(m)' = Holders(m)
  BY DEF TypeOK, Holders, Serving
<1>4. Decoders(l)' = {}
  BY DEF TypeOK, Decoders, Decoding
<1>5. \A m \in vcache : m # l => Decoders(m)' = Decoders(m)
  BY DEF TypeOK, Decoders, Decoding
<1>6. Cardinality(Holders(l)') = Cardinality(Holders(l)) + 1
  BY <1>2, HoldersFinite, FS_AddElement
<1>7. RefcntExact'
  <2>. SUFFICES ASSUME NEW m \in vcache
                PROVE  RefcntExact!(m)'
    BY DEF RefcntExact
  <2>1. CASE m = l
    BY <2>1, <1>2, <1>4, <1>6 DEF TypeOK, RefcntExact, Acquire
  <2>2. CASE m # l
    BY <2>2, <1>3, <1>5 DEF TypeOK, RefcntExact, Acquire
  <2>. QED
    BY <2>1, <2>2
<1>8. DecodingOnly'
  BY DEF TypeOK, DecodingOnly, Acquire
<1>. QED
  BY <1>1, <1>7, <1>8

\* A hit: the line is VALID, so nobody decodes into it.
LEMMA HitStep ==
  ASSUME NEW t \in Threads, IInv, Recheck(t), IsHit(ptr[t])
  PROVE  IInv'
<1>. DEFINE l == ptr[t]
<1>1. /\ pc[t] = "recheck"
      /\ l \in vcache
      /\ "VALID" \in flags[l]
      /\ Acquire(l, flags[l] \cup {"INUSE"})
      /\ pc' = [pc EXCEPT ![t] = "serve"]
      /\ UNCHANGED <<vcache, key, data, req, ptr, timeout>>
  BY DEF Recheck, IsHit, Goto
<1>2. "DECODING" \notin flags[l] /\ Decoders(l) = {}
  BY <1>1 DEF IInv, DecodingOnly, RefcntExact
<1>3. flags[l] \cup {"INUSE"} \in SUBSET Flags
  BY <1>1 DEF IInv, TypeOK, Flags
<1>4. ptr' = [ptr EXCEPT ![t] = l]
  BY <1>1 DEF IInv, TypeOK
<1>5. HeldLinked' /\ RefcntExact' /\ DecodingOnly'
  BY <1>1, <1>2, <1>3, <1>4, AcquireStep DEF Serving, Decoding
<1>6. TypeOK' /\ RequestKnown'
  BY <1>1, <1>3 DEF IInv, TypeOK, RequestKnown, Acquire
<1>. QED
  BY <1>5, <1>6 DEF IInv

\* A decode that yields a picture, or a black frame.
LEMMA DecodedStep ==
  ASSUME NEW t \in Threads, IInv, DecodeOk(t) \/ DecodeError(t)
  PROVE  IInv'
<1>. DEFINE l == ptr[t]
<1>1. PICK f \in SUBSET Flags, d \in Keys \cup {Black} :
        /\ pc[t] = "decode"
        /\ "INUSE" \in f /\ "DECODING" \notin f
        /\ Acquire(l, f)
        /\ data' = [data EXCEPT ![l] = d]
        /\ pc' = [pc EXCEPT ![t] = "serve"]
        /\ UNCHANGED <<vcache, key, req, ptr, timeout>>
  <2>1. l \in vcache /\ flags[l] \in SUBSET Flags
    BY DEF IInv, HeldLinked, TypeOK, DecodeOk, DecodeError, Busy, Decoding
  <2>2. CASE DecodeOk(t)
    <3>1. req[t] \in Keys
      BY <2>2 DEF IInv, RequestKnown, DecodeOk
    <3>2. (flags[l] \ {"DECODING"}) \cup {"VALID", "INUSE"} \in SUBSET Flags
      BY <2>1 DEF Flags
    <3>. QED
      BY <2>2, <3>1, <3>2 DEF DecodeOk, Goto
  <2>3. CASE DecodeError(t)
    <3>1. ErrorFlags(l) \in SUBSET Flags
      BY <2>1 DEF ErrorFlags, Flags
    <3>2. "INUSE" \in ErrorFlags(l) /\ "DECODING" \notin ErrorFlags(l)
      BY DEF ErrorFlags
    <3>. QED
      BY <2>3, <3>1, <3>2 DEF DecodeError, Goto
  <2>. QED
    BY <2>2, <2>3
<1>2. l \in vcache /\ ptr' = [ptr EXCEPT ![t] = l]
  BY <1>1 DEF IInv, TypeOK, HeldLinked, Busy, Decoding
<1>3. Decoders(l) \subseteq {t}
  BY <1>1, <1>2 DEF IInv, RefcntExact, Decoders, Decoding
<1>4. ~Serving(t)
  BY <1>1 DEF Serving
<1>5. HeldLinked' /\ RefcntExact' /\ DecodingOnly'
  BY <1>1, <1>2, <1>3, <1>4, AcquireStep
<1>6. TypeOK' /\ RequestKnown'
  BY <1>1, <1>2 DEF IInv, TypeOK, RequestKnown, Acquire
<1>. QED
  BY <1>5, <1>6 DEF IInv

\* A decoder refused: the thread leaves the line without flags.
LEMMA RefusedStep ==
  ASSUME NEW t \in Threads, IInv, DecodeRefused(t)
  PROVE  IInv'
<1>. USE DEF IInv
<1>0. PICK l : l = ptr[t]
  OBVIOUS
<1>1. /\ pc[t] = "decode"
      /\ flags' = [flags EXCEPT ![l] = @ \ {"VALID", "DECODING"}]
      /\ pc' = [pc EXCEPT ![t] = "idle"]
      /\ ptr' = [ptr EXCEPT ![t] = None]
      /\ UNCHANGED <<vcache, key, refcnt, data>>
  BY <1>0 DEF DecodeRefused, Return, Goto
<1>2. l \in vcache /\ l \in Lines
  BY <1>0, <1>1 DEF TypeOK, HeldLinked, Busy, Decoding
<1>3. t \in Decoders(l) /\ Decoders(l) = {t}
  BY <1>0, <1>1, <1>2 DEF RefcntExact, Decoders, Decoding
<1>4. \A m : Holders(m)' = Holders(m)
  BY <1>1 DEF TypeOK, Holders, Serving
<1>5. Decoders(l)' = {}
  BY <1>1, <1>3 DEF TypeOK, Decoders, Decoding
<1>6. \A m : m # l => Decoders(m)' = Decoders(m)
  BY <1>0, <1>1 DEF TypeOK, Decoders, Decoding
<1>7. flags[l] = {"DECODING"} /\ Holders(l) = {} /\ flags'[l] = {}
  BY <1>1, <1>2, <1>3 DEF TypeOK, DecodingOnly, RefcntExact
<1>11. TypeOK' /\ RequestKnown'
  BY <1>0, <1>1, <1>2, ConfigAssumption
     DEF DecodeRefused, Return, Goto, TypeOK, RequestKnown
<1>8. HeldLinked'
  BY <1>1 DEF TypeOK, HeldLinked, Busy, Serving, Decoding
<1>9. RefcntExact'
  <2>. SUFFICES ASSUME NEW m \in vcache
                PROVE  RefcntExact!(m)'
    BY <1>1 DEF RefcntExact
  <2>1. CASE m = l
    BY <2>1, <1>1, <1>2, <1>4, <1>5, <1>7 DEF TypeOK, RefcntExact
  <2>2. CASE m # l
    BY <2>2, <1>1, <1>2, <1>4, <1>6 DEF TypeOK, RefcntExact
  <2>. QED
    BY <2>1, <2>2
<1>10. DecodingOnly'
  BY <1>1, <1>2 DEF TypeOK, DecodingOnly
<1>. QED
  BY <1>8, <1>9, <1>10, <1>11

\* vcache_invalidate_buffer() only adds a flag to a line that is in use.
LEMMA InvalidateStep ==
  ASSUME NEW t \in Threads, IInv, Invalidate(t)
  PROVE  IInv'
<1>. USE DEF IInv
<1>0. PICK l : l = ptr[t]
  OBVIOUS
<1>1. /\ pc[t] = "serve"
      /\ flags' = [flags EXCEPT ![l] = @ \cup {"RELEASE"}]
      /\ pc' = [pc EXCEPT ![t] = "release"]
      /\ UNCHANGED <<vcache, key, refcnt, data, req, ptr, timeout>>
  BY <1>0 DEF Invalidate, Goto
<1>2. l \in vcache /\ l \in Lines /\ t \in Holders(l)
  BY <1>0, <1>1 DEF TypeOK, HeldLinked, Busy, Serving, Holders
<1>3. \A m : Holders(m)' = Holders(m)
  BY <1>1 DEF TypeOK, Holders, Serving
<1>4. \A m : Decoders(m)' = Decoders(m)
  BY <1>1 DEF TypeOK, Decoders, Decoding
<1>5. "DECODING" \notin flags[l]
  BY <1>2 DEF RefcntExact
<1>6. TypeOK' /\ RequestKnown'
  <2>1. flags[l] \cup {"RELEASE"} \in SUBSET Flags
    BY <1>2 DEF TypeOK, Flags
  <2>. QED
    BY <1>1, <1>2, <2>1 DEF TypeOK, RequestKnown
<1>7. HeldLinked'
  BY <1>1 DEF TypeOK, HeldLinked, Busy, Serving, Decoding
<1>8. RefcntExact'
  BY <1>1, <1>2, <1>3, <1>4 DEF TypeOK, RefcntExact
<1>9. DecodingOnly'
  BY <1>1, <1>2, <1>5 DEF TypeOK, DecodingOnly
<1>. QED
  BY <1>6, <1>7, <1>8, <1>9

\* vcache_release_buffer(): the count goes down, and the line goes away only
\* when nobody is left.
LEMMA ReleaseStep ==
  ASSUME NEW t \in Threads, IInv, Release(t)
  PROVE  IInv'
<1>. USE DEF IInv
<1>0. PICK l, freed : l = ptr[t] /\ freed = FreedByRelease(ptr[t])
  OBVIOUS
<1>1. /\ Serving(t)
      /\ Free(freed)
      /\ flags' = [flags EXCEPT ![l] = IF freed # {} THEN {}
                                       ELSE InuseAfterRelease(l)]
      /\ refcnt' = [refcnt EXCEPT ![l] = @ - 1]
      /\ pc' = [pc EXCEPT ![t] = "idle"]
      /\ ptr' = [ptr EXCEPT ![t] = None]
      /\ req' = [req EXCEPT ![t] = None]
      /\ timeout' = [timeout EXCEPT ![t] = 0]
  BY <1>0 DEF Release, Return, Goto, Serving
<1>2. l \in vcache /\ l \in Lines /\ t \in Holders(l)
  BY <1>0, <1>1 DEF TypeOK, HeldLinked, Busy, Serving, Holders
<1>3. Holders(l)' = Holders(l) \ {t} /\ \A m : m # l => Holders(m)' = Holders(m)
  BY <1>0, <1>1 DEF TypeOK, Holders, Serving
<1>4. \A m : Decoders(m)' = Decoders(m)
  BY <1>1 DEF TypeOK, Decoders, Decoding, Serving
<1>5. /\ refcnt[l] = Cardinality(Holders(l))
      /\ Cardinality(Holders(l)') = refcnt[l] - 1
      /\ refcnt[l] - 1 \in Nat
      /\ Holders(l)' = {} <=> refcnt[l] = 1
  <2>1. refcnt[l] = Cardinality(Holders(l)) /\ refcnt[l] \in Nat /\ refcnt[l] # 0
    BY <1>2, HoldersFinite DEF RefcntExact
  <2>2. Cardinality(Holders(l)') = refcnt[l] - 1
    <3>1. t \in Holders(l) /\ IsFiniteSet(Holders(l))
      BY <1>2, HoldersFinite
    <3>2. Cardinality(Holders(l) \ {t}) = Cardinality(Holders(l)) - 1
      BY <3>1, FS_RemoveElement
    <3> QED BY <1>3, <2>1, <3>2
  <2>3. IsFiniteSet(Holders(l)')
    BY <1>3, HoldersFinite, FS_RemoveElement
  <2>. QED
    BY <2>1, <2>2, <2>3, FS_EmptySet
<1>6. freed \subseteq {l} /\ (freed # {} => refcnt[l] = 1)
  BY <1>0 DEF FreedByRelease
<1>7. /\ vcache' = vcache \ freed
      /\ \A m \in vcache : m # l => flags'[m] = flags[m] /\ refcnt'[m] = refcnt[m]
      /\ refcnt'[l] = refcnt[l] - 1
      /\ freed = {} => flags'[l] = InuseAfterRelease(l)
  BY <1>1, <1>2, <1>6 DEF TypeOK, Free
<1>8. Decoders(l) = {} /\ "DECODING" \notin flags[l] /\ "INUSE" \in flags[l]
  BY <1>2 DEF RefcntExact
<1>9. TypeOK' /\ RequestKnown'
  <2>1. InuseAfterRelease(l) \in SUBSET Flags
    BY <1>2 DEF TypeOK, InuseAfterRelease
  <2>2. flags' \in [Lines -> SUBSET Flags] /\ refcnt' \in [Lines -> Nat]
    BY <1>1, <1>2, <1>5, <2>1 DEF TypeOK
  <2>3. key' \in [Lines -> Keys \cup {None}] /\ vcache' \subseteq Lines
        /\ data' \in [Lines -> Keys \cup {None, Black}]
    BY <1>1 DEF TypeOK, Free
  <2>. QED
    BY <1>1, <2>2, <2>3, ConfigAssumption DEF TypeOK, RequestKnown
<1>10. HeldLinked'
  <2>. SUFFICES ASSUME NEW u \in Threads, Busy(u)'
                PROVE  ptr'[u] \in vcache'
    BY DEF HeldLinked
  <2>1. u # t /\ Busy(u) /\ ptr'[u] = ptr[u] /\ pc'[u] = pc[u]
    BY <1>1 DEF TypeOK, Busy, Serving, Decoding
  <2>2. ptr[u] \in vcache
    BY <2>1 DEF HeldLinked
  <2>3. ptr[u] = l => Holders(l)' # {}
    BY <2>1, <1>8 DEF Holders, Decoders, Busy, Serving, Decoding
  <2>. QED
    BY <2>1, <2>2, <2>3, <1>5, <1>6, <1>7
<1>11. RefcntExact'
  <2>. SUFFICES ASSUME NEW m \in vcache'
                PROVE  RefcntExact!(m)'
    BY DEF RefcntExact
  <2>1. CASE m = l
    <3>1. freed = {}
      BY <2>1, <1>6, <1>7
    <3>2. "DECODING" \notin flags'[l] /\ ("INUSE" \in flags'[l] <=> refcnt[l] # 1)
      BY <3>1, <1>7, <1>8 DEF InuseAfterRelease
    <3>. QED
      BY <2>1, <3>2, <1>4, <1>5, <1>7, <1>8
  <2>2. CASE m # l
    BY <2>2, <1>3, <1>4, <1>7 DEF RefcntExact
  <2>. QED
    BY <2>1, <2>2
<1>12. DecodingOnly'
  <2>. SUFFICES ASSUME NEW m \in vcache', "DECODING" \in flags'[m]
                PROVE  flags'[m] = {"DECODING"}
    BY DEF DecodingOnly
  <2>1. m # l
    BY <1>6, <1>7, <1>8 DEF InuseAfterRelease
  <2>. QED
    BY <2>1, <1>7 DEF DecodingOnly
<1>. QED
  BY <1>9, <1>10, <1>11, <1>12

\* vcache_clear() frees lines that are nobody's.
LEMMA ClearStep ==
  ASSUME NEW ids, IInv, Clear(ids)
  PROVE  IInv'
<1>. USE DEF IInv
<1>0. PICK S : S = Clearable(ids)
  OBVIOUS
<1>1. S \subseteq Evictable /\ S \subseteq vcache
  BY <1>0 DEF Clearable, Evictable
<1>2. /\ vcache' = vcache \ S
      /\ key' = [l \in Lines |-> IF l \in S THEN None ELSE key[l]]
      /\ data' = [l \in Lines |-> IF l \in S THEN None ELSE data[l]]
      /\ flags' = [l \in Lines |-> IF l \in S THEN {} ELSE flags[l]]
      /\ refcnt' = [l \in Lines |-> IF l \in S THEN 0 ELSE refcnt[l]]
      /\ UNCHANGED <<pc, req, ptr, timeout>>
  BY <1>0 DEF Clear, Free
<1>3. \A m : Holders(m)' = Holders(m) /\ Decoders(m)' = Decoders(m)
  BY <1>2 DEF Holders, Decoders, Serving, Decoding
<1>4. \A l \in S : Holders(l) = {} /\ Decoders(l) = {}
  BY <1>1, FreeLine DEF TypeOK
<1>5. TypeOK' /\ RequestKnown'
  BY <1>2 DEF TypeOK, RequestKnown
<1>6. HeldLinked'
  <2>. SUFFICES ASSUME NEW u \in Threads, Busy(u)
                PROVE  ptr[u] \in vcache \ S
    BY <1>2 DEF HeldLinked, Busy, Serving, Decoding
  <2>. QED
    BY <1>4 DEF HeldLinked, Holders, Decoders, Busy
<1>7. RefcntExact'
  BY <1>2, <1>3 DEF TypeOK, RefcntExact
<1>8. DecodingOnly'
  BY <1>2 DEF TypeOK, DecodingOnly
<1>. QED
  BY <1>5, <1>6, <1>7, <1>8

\* A stuttering step.
LEMMA StutterStep == IInv /\ UNCHANGED vars => IInv'
<1>. SUFFICES ASSUME IInv, UNCHANGED vars PROVE IInv'
  OBVIOUS
<1>1. \A m : Holders(m)' = Holders(m) /\ Decoders(m)' = Decoders(m)
  BY DEF vars, Holders, Decoders, Serving, Decoding
<1>2. TypeOK' /\ RequestKnown' /\ HeldLinked' /\ DecodingOnly'
  BY DEF IInv, vars, TypeOK, RequestKnown, HeldLinked, DecodingOnly, Busy,
         Serving, Decoding
<1>3. RefcntExact'
  BY <1>1 DEF IInv, vars, RefcntExact
<1>. QED
  BY <1>2, <1>3 DEF IInv

\* Every step preserves the inductive invariant.
LEMMA NextIInv == IInv /\ [Next]_vars => IInv'
<1>. SUFFICES ASSUME IInv, [Next]_vars PROVE IInv'
  OBVIOUS
<1>1. ASSUME NEW t \in Threads, Step(t) PROVE IInv'
  <2>1. CASE Recheck(t)
    BY <2>1, HitStep, LookupSteps
  <2>2. CASE Getcl(t)
    BY <2>2, GetclSteps, LookupSteps DEF Getcl
  <2>3. CASE Decode(t)
    BY <2>3, DecodedStep, RefusedStep DEF Decode
  <2>. QED
    BY <1>1, <2>1, <2>2, <2>3, LookupSteps, InvalidateStep, ReleaseStep DEF Step
<1>2. ASSUME NEW t \in Threads, NEW k \in Keys, Request(t, k) PROVE IInv'
  BY <1>2, LookupSteps
<1>3. ASSUME NEW ids, Clear(ids) PROVE IInv'
  BY <1>3, ClearStep
<1>4. CASE UNCHANGED vars
  BY <1>4, StutterStep
<1>. QED
  BY <1>1, <1>2, <1>3, <1>4 DEF Next

\* The inductive invariant holds throughout every behaviour.
THEOREM Inductive == Spec => []IInv
  BY InitIInv, NextIInv, PTL DEF Spec

\* Every variable of the model keeps its type.
THEOREM TypeCorrect == Spec => []TypeOK
<1>1. IInv => TypeOK
  BY DEF IInv
<1>. QED
  BY <1>1, Inductive, PTL

\* The reference counts and the flags of every cache-line are exact, and no
\* buffer is written while it is served, for any number of threads.
THEOREM ReferenceCounts == Spec => []RefcntExact
<1>1. IInv => RefcntExact
  BY DEF IInv
<1>. QED
  BY <1>1, Inductive, PTL

-----------------------------------------------------------------------------
\* A step changes the table by adding a line while it is not full, or by
\* removing lines.
LEMMA TableStep ==
  ASSUME IInv, [Next]_vars
  PROVE  \/ vcache' \subseteq vcache
         \/ ~Full /\ \E l \in Lines : vcache' = vcache \cup {l}
<1>1. ASSUME NEW t \in Threads, Step(t), ~GetclNew(t) PROVE vcache' \subseteq vcache
  <2>1. CASE Find(t) \/ Recheck(t) \/ TouchFreed(t)
    BY <2>1 DEF Find, Recheck, TouchFreed, lines
  <2>2. CASE Getcl(t)
    BY <1>1, <2>2 DEF Getcl, GetclUnflagged, GetclEvict, GetclRetry, lines
  <2>3. CASE Decode(t) \/ Invalidate(t)
    BY <2>3 DEF Decode, DecodeOk, DecodeError, DecodeRefused, Invalidate
  <2>4. CASE Release(t)
    BY <2>4 DEF Release, Free
  <2>. QED
    BY <1>1, <2>1, <2>2, <2>3, <2>4 DEF Step
<1>2. ASSUME NEW t \in Threads, GetclNew(t)
      PROVE  ~Full /\ \E l \in Lines : vcache' = vcache \cup {l}
  BY <1>2 DEF GetclNew
<1>3. ASSUME NEW t \in Threads, NEW k \in Keys, Request(t, k)
      PROVE  vcache' \subseteq vcache
  BY <1>3 DEF Request, lines
<1>4. ASSUME NEW ids, Clear(ids) PROVE vcache' \subseteq vcache
  BY <1>4 DEF Clear, Free
<1>5. CASE UNCHANGED vars
  BY <1>5 DEF vars
<1>. QED
  BY <1>1, <1>2, <1>3, <1>4, <1>5 DEF Next

\* The frame cache never exceeds cfg_cachesize, for any number of threads and
\* whatever fails: the count is tested and used under one write lock.
THEOREM Bounded == Spec => []CacheBound
<1>1. Init => CacheBound
  BY LinesAssumption, FS_EmptySet DEF Init, CacheBound
<1>2. IInv /\ CacheBound /\ [Next]_vars => CacheBound'
  <2>. SUFFICES ASSUME IInv, CacheBound, [Next]_vars PROVE CacheBound'
    OBVIOUS
  <2>1. IsFiniteSet(vcache) /\ Cardinality(vcache) \in Nat
    BY LinesAssumption, FS_Subset, FS_CardinalityType DEF IInv, TypeOK
  <2>2. CASE vcache' \subseteq vcache
    <3>1. Cardinality(vcache') <= Cardinality(vcache)
      BY <2>1, <2>2, FS_Subset
    <3>2. Cardinality(vcache') \in Nat
      BY <2>1, <2>2, FS_Subset, FS_CardinalityType
    <3>. QED
      BY <2>1, <3>1, <3>2, LinesAssumption DEF CacheBound
  <2>3. CASE ~Full /\ \E l \in Lines : vcache' = vcache \cup {l}
    <3>0. PICK l \in Lines : vcache' = vcache \cup {l}
      BY <2>3
    <3>1. Cardinality(vcache') <= Cardinality(vcache) + 1 /\ Cardinality(vcache') \in Nat
      <4>1. CASE l \in vcache
        <5>1. vcache' = vcache
          BY <3>0, <4>1
        <5> QED BY <2>1, <5>1
      <4>2. CASE l \notin vcache
        BY <2>1, <3>0, <4>2, FS_AddElement
      <4> QED BY <4>1, <4>2
    <3>. QED
      BY <2>1, <2>3, <3>1, LinesAssumption DEF CacheBound, Full
  <2>. QED
    BY <2>2, <2>3, TableStep
<1>. QED
  BY <1>1, <1>2, Inductive, PTL DEF Spec

-----------------------------------------------------------------------------
\* Only lines that are nobody's get another key; only those and lines under
\* decoding get another content.
LEMMA ContentStep ==
  ASSUME IInv, [Next]_vars, NEW l \in vcache, l \in vcache'
  PROVE  /\ key'[l] # key[l] => l \in Evictable
         /\ data'[l] # data[l] => l \in Evictable \/ Decoders(l) # {}
<1>. USE DEF IInv
<1>0. l \in Lines
  BY DEF TypeOK
<1>1. ASSUME NEW t \in Threads, Step(t)
      PROVE  /\ key'[l] # key[l] => l \in Evictable
             /\ data'[l] # data[l] => l \in Evictable \/ Decoders(l) # {}
  <2>1. CASE Find(t) \/ Recheck(t) \/ TouchFreed(t) \/ Invalidate(t)
    BY <2>1 DEF Find, Recheck, TouchFreed, Invalidate, lines
  <2>2. CASE GetclUnflagged(t) \/ GetclRetry(t) \/ DecodeRefused(t)
    BY <2>2 DEF GetclUnflagged, GetclRetry, DecodeRefused, lines
  <2>3. CASE GetclEvict(t)
    BY <2>3, <1>0 DEF GetclEvict, Rekey, TypeOK
  <2>4. CASE GetclNew(t)
    BY <2>4, <1>0 DEF GetclNew, Rekey, TypeOK
  <2>5. CASE DecodeOk(t) \/ DecodeError(t)
    <3>1. key' = key /\ (l # ptr[t] => data'[l] = data[l])
      BY <2>5, <1>0 DEF DecodeOk, DecodeError, TypeOK
    <3>2. l = ptr[t] => t \in Decoders(l)
      BY <2>5 DEF DecodeOk, DecodeError, Decoders, Decoding
    <3>. QED
      BY <3>1, <3>2
  <2>6. CASE Release(t)
    BY <2>6, <1>0 DEF Release, Free
  <2>. QED
    BY <1>1, <2>1, <2>2, <2>3, <2>4, <2>5, <2>6 DEF Step, Getcl, Decode
<1>2. ASSUME NEW t \in Threads, NEW k \in Keys, Request(t, k)
      PROVE  key' = key /\ data' = data
  BY <1>2 DEF Request, lines
<1>3. ASSUME NEW ids, Clear(ids)
      PROVE  key'[l] = key[l] /\ data'[l] = data[l]
  BY <1>3, <1>0 DEF Clear, Free
<1>4. CASE UNCHANGED vars
  BY <1>4 DEF vars
<1>. QED
  BY <1>1, <1>2, <1>3, <1>4 DEF Next

\* A thread that works on a line before and after a step works on the same.
LEMMA PointerStep ==
  ASSUME IInv, [Next]_vars, NEW u \in Threads, Busy(u), Busy(u)'
  PROVE  ptr'[u] = ptr[u]
<1>. USE DEF IInv, Busy, Serving, Decoding, TypeOK
<1>1. ASSUME NEW t \in Threads, Step(t) PROVE ptr'[u] = ptr[u]
  <2>1. CASE Find(t) \/ Recheck(t) \/ TouchFreed(t)
    BY <2>1 DEF Find, Recheck, TouchFreed, Miss, Goto
  <2>2. CASE Getcl(t)
    BY <2>2 DEF Getcl, GetclUnflagged, GetclEvict, GetclNew, GetclRetry,
                StartDecode, Return, Goto
  <2>3. CASE Decode(t) \/ Invalidate(t)
    BY <2>3 DEF Decode, DecodeOk, DecodeError, DecodeRefused, Invalidate, Return, Goto
  <2>4. CASE Release(t)
    BY <2>4 DEF Release, Return, Goto
  <2>. QED
    BY <1>1, <2>1, <2>2, <2>3, <2>4 DEF Step
<1>2. ASSUME NEW t \in Threads, NEW k \in Keys, Request(t, k)
      PROVE  ptr'[u] = ptr[u]
  BY <1>2 DEF Request, Goto
<1>3. ASSUME NEW ids, Clear(ids) PROVE ptr'[u] = ptr[u]
  BY <1>3 DEF Clear
<1>4. CASE UNCHANGED vars
  BY <1>4 DEF vars
<1>. QED
  BY <1>1, <1>2, <1>3, <1>4 DEF Next

\* A line that a thread works on stays as it is.
LEMMA HeldLineStays ==
  ASSUME IInv, IInv', [Next]_vars, NEW t \in Threads, Busy(t), Busy(t)'
  PROVE  /\ ptr'[t] = ptr[t]
         /\ ptr[t] \in vcache \cap vcache'
         /\ key'[ptr[t]] = key[ptr[t]]
         /\ Serving(t) => data'[ptr[t]] = data[ptr[t]]
<1>0. PICK l : l = ptr[t]
  OBVIOUS
<1>1. ptr'[t] = l
  BY <1>0, PointerStep
<1>2. l \in vcache /\ l \in vcache'
  BY <1>0, <1>1 DEF IInv, HeldLinked
<1>3. l \notin Evictable
  BY <1>0, <1>2, FreeLine DEF IInv, TypeOK, Holders, Decoders, Busy
<1>4. Serving(t) => Decoders(l) = {}
  BY <1>0, <1>2 DEF IInv, RefcntExact, Holders
<1>. QED
  BY <1>0, <1>1, <1>2, <1>3, <1>4, ContentStep

\* A line in use is neither freed nor re-keyed nor overwritten, for any number
\* of threads and whatever the others do.
THEOREM Pinned == Spec => ServedPinned
<1>2. IInv /\ IInv' /\ [Next]_vars =>
        [\A t \in Threads :
           Busy(t) /\ Busy(t)' =>
             /\ ptr'[t] = ptr[t]
             /\ ptr[t] \in vcache \cap vcache'
             /\ key'[ptr[t]] = key[ptr[t]]
             /\ Serving(t) => data'[ptr[t]] = data[ptr[t]]]_vars
  BY HeldLineStays
<1>. QED
  BY <1>2, Inductive, PTL DEF Spec, ServedPinned

-----------------------------------------------------------------------------
\* A line is VALID after a step because it was and has not been touched, or
\* because its frame was decoded successfully just now.
LEMMA ValidStep ==
  ASSUME IInv, [Next]_vars, NEW l \in vcache', "VALID" \in flags'[l]
  PROVE  \/ /\ l \in vcache /\ "VALID" \in flags[l]
            /\ key'[l] = key[l] /\ data'[l] = data[l]
         \/ \E t \in Threads : /\ Decoding(t) /\ ptr[t] = l
                               /\ key'[l] = key[l] /\ data'[l] = req[t]
<1>. DEFINE Kept == /\ l \in vcache /\ "VALID" \in flags[l]
                    /\ key'[l] = key[l] /\ data'[l] = data[l]
            New == \E t \in Threads : /\ Decoding(t) /\ ptr[t] = l
                                      /\ key'[l] = key[l] /\ data'[l] = req[t]
<1>. SUFFICES Kept \/ New
  OBVIOUS
<1>. USE DEF IInv, TypeOK
<1>0. l \in Lines
  <2>1. vcache' \subseteq Lines
    BY NextIInv
  <2>. QED
    BY <2>1
<1>1. ASSUME NEW t \in Threads, Step(t) PROVE Kept \/ New
  <2>1. CASE Find(t) \/ TouchFreed(t) \/ GetclRetry(t)
    BY <2>1 DEF Find, TouchFreed, GetclRetry, lines
  <2>2. CASE Recheck(t)
    BY <2>2, <1>0 DEF Recheck, Acquire
  <2>3. CASE Invalidate(t)
    BY <2>3, <1>0 DEF Invalidate
  <2>4. CASE GetclUnflagged(t)
    BY <2>4, <1>0 DEF GetclUnflagged
  <2>5. CASE GetclEvict(t)
    BY <2>5, <1>0 DEF GetclEvict, Rekey
  <2>6. CASE GetclNew(t)
    BY <2>6, <1>0 DEF GetclNew, Rekey
  <2>7. CASE DecodeOk(t)
    <3>1. CASE l = ptr[t]
      BY <2>7, <3>1, <1>0 DEF DecodeOk, Decoding
    <3>2. CASE l # ptr[t]
      BY <2>7, <3>2, <1>0 DEF DecodeOk, Acquire
    <3>. QED
      BY <3>1, <3>2
  <2>8. CASE DecodeError(t)
    <3>1. CASE l = ptr[t]
      BY <2>8, <3>1, <1>0 DEF DecodeError, Acquire, ErrorFlags
    <3>2. CASE l # ptr[t]
      BY <2>8, <3>2, <1>0 DEF DecodeError, Acquire
    <3>. QED
      BY <3>1, <3>2
  <2>9. CASE DecodeRefused(t)
    BY <2>9, <1>0 DEF DecodeRefused
  <2>10. CASE Release(t)
    <3>1. /\ l \in vcache /\ l \notin FreedByRelease(ptr[t])
          /\ key'[l] = key[l] /\ data'[l] = data[l]
      BY <2>10, <1>0 DEF Release, Free
    <3>2. CASE l = ptr[t]
      BY <2>10, <3>1, <3>2, <1>0
         DEF Release, InuseAfterRelease, FreedByRelease
    <3>3. CASE l # ptr[t]
      BY <2>10, <3>1, <3>3, <1>0 DEF Release
    <3>. QED
      BY <3>2, <3>3
  <2>. QED
    BY <1>1, <2>1, <2>2, <2>3, <2>4, <2>5, <2>6, <2>7, <2>8, <2>9, <2>10
       DEF Step, Getcl, Decode
<1>2. ASSUME NEW t \in Threads, NEW k \in Keys, Request(t, k) PROVE Kept
  BY <1>2 DEF Request, lines
<1>3. ASSUME NEW ids, Clear(ids) PROVE Kept
  BY <1>3, <1>0 DEF Clear, Free
<1>4. CASE UNCHANGED vars
  BY <1>4 DEF vars
<1>. QED
  BY <1>1, <1>2, <1>3, <1>4 DEF Next

\* Failed decodes are never offered for hits, whatever interleaving of reuse,
\* eviction and clearing follows them.
THEOREM NoErrorCached == Spec => []ErrorsNotCached
<1>1. Init => ErrorsNotCached
  BY DEF Init, ErrorsNotCached
<1>2. IInv /\ ErrorsNotCached /\ [Next]_vars => ErrorsNotCached'
  <2>. SUFFICES ASSUME IInv, ErrorsNotCached, [Next]_vars,
                       NEW l \in vcache', "VALID" \in flags'[l]
                PROVE  data'[l] \in Keys
    BY DEF ErrorsNotCached
  <2>1. CASE l \in vcache /\ "VALID" \in flags[l] /\ data'[l] = data[l]
    BY <2>1 DEF ErrorsNotCached
  <2>2. ASSUME NEW t \in Threads, Decoding(t), data'[l] = req[t]
        PROVE  data'[l] \in Keys
    BY <2>2 DEF IInv, RequestKnown, Decoding
  <2>. QED
    BY <2>1, <2>2, ValidStep
<1>. QED
  BY <1>1, <1>2, Inductive, PTL DEF Spec

-----------------------------------------------------------------------------
(***************************************************************************)
(* While no decode fails, a line is either being decoded into or VALID, so *)
(* getcl() never finds the flagless line that it would hand out under the  *)
(* key of an earlier request.                                              *)
(***************************************************************************)

LineState == \A l \in vcache : flags[l] \cap {"DECODING", "VALID"} # {}

DecodesItsKey == \A t \in Threads : Decoding(t) => key[ptr[t]] = req[t]

MatchInv == ValidMatchesKey /\ LineState /\ DecodesItsKey

\* No step leaves a line without DECODING and VALID.
LEMMA LineStateStep ==
  ASSUME DecodeResults = {0}, IInv, LineState, [Next]_vars
  PROVE  LineState'
<1>. USE DEF IInv, TypeOK
<1>. SUFFICES ASSUME NEW l \in vcache'
              PROVE  "DECODING" \in flags'[l] \/ "VALID" \in flags'[l]
  BY DEF LineState
<1>0. l \in Lines
  <2>1. vcache' \subseteq Lines
    BY NextIInv
  <2>. QED
    BY <2>1
<1>. DEFINE Goal == "DECODING" \in flags'[l] \/ "VALID" \in flags'[l]
            Before == "DECODING" \in flags[l] \/ "VALID" \in flags[l]
<1>a. l \in vcache => Before
  BY DEF LineState
<1>1. ASSUME NEW t \in Threads, Step(t) PROVE Goal
  <2>1. CASE Find(t) \/ TouchFreed(t) \/ GetclRetry(t)
    BY <2>1, <1>a DEF Find, TouchFreed, GetclRetry, lines
  <2>2. CASE Recheck(t) \/ Invalidate(t)
    BY <2>2, <1>0, <1>a DEF Recheck, Acquire, Invalidate
  <2>3. CASE GetclUnflagged(t)
    BY <2>3, <1>0, <1>a DEF GetclUnflagged
  <2>4. CASE GetclEvict(t) \/ GetclNew(t)
    BY <2>4, <1>0, <1>a DEF GetclEvict, GetclNew, Rekey
  <2>5. CASE DecodeOk(t)
    BY <2>5, <1>0, <1>a DEF DecodeOk, Acquire
  <2>6. CASE Release(t)
    <3>1. l \in vcache /\ l \notin FreedByRelease(ptr[t])
      BY <2>6 DEF Release, Free
    <3>2. CASE l = ptr[t]
      BY <2>6, <3>1, <3>2, <1>0, <1>a
         DEF Release, InuseAfterRelease, FreedByRelease
    <3>3. CASE l # ptr[t]
      BY <2>6, <3>1, <3>3, <1>0, <1>a DEF Release
    <3>. QED
      BY <3>2, <3>3
  <2>. QED
    BY <1>1, <2>1, <2>2, <2>3, <2>4, <2>5, <2>6
       DEF Step, Getcl, Decode, DecodeError, DecodeRefused
<1>2. ASSUME NEW t \in Threads, NEW k \in Keys, Request(t, k) PROVE Goal
  BY <1>2, <1>a DEF Request, lines
<1>3. ASSUME NEW ids, Clear(ids) PROVE Goal
  BY <1>3, <1>0, <1>a DEF Clear, Free
<1>4. CASE UNCHANGED vars
  BY <1>4, <1>a DEF vars
<1>. QED
  BY <1>1, <1>2, <1>3, <1>4 DEF Next

\* A thread that decodes after a step did so before, for the same key, or has
\* just been given a line with its key.
LEMMA DecodingStep ==
  ASSUME IInv, LineState, [Next]_vars, NEW u \in Threads, Decoding(u)'
  PROVE  \/ Decoding(u) /\ req'[u] = req[u]
         \/ key'[ptr'[u]] = req'[u]
<1>. USE DEF IInv, TypeOK, Decoding
<1>. DEFINE Goal == \/ Decoding(u) /\ req'[u] = req[u]
                    \/ key'[ptr'[u]] = req'[u]
<1>1. ASSUME NEW t \in Threads, Step(t) PROVE Goal
  <2>1. CASE Find(t) \/ Recheck(t) \/ TouchFreed(t)
    BY <2>1 DEF Find, Recheck, TouchFreed, Miss, Goto
  <2>2. CASE GetclRetry(t) \/ DecodeRefused(t) \/ Release(t)
    BY <2>2 DEF GetclRetry, DecodeRefused, Release, Return, Goto
  <2>3. CASE DecodeOk(t) \/ DecodeError(t) \/ Invalidate(t)
    BY <2>3 DEF DecodeOk, DecodeError, Invalidate, Goto
  <2>4. CASE GetclUnflagged(t)
    BY <2>4 DEF GetclUnflagged, Unflagged, LineState
  <2>5. CASE GetclEvict(t) \/ GetclNew(t)
    <3>1. PICK l \in Lines : Rekey(t, l) /\ StartDecode(t, l)
      BY <2>5 DEF GetclEvict, GetclNew, Evictable
    <3>2. CASE u = t
      BY <3>1, <3>2 DEF Rekey, StartDecode
    <3>3. CASE u # t
      BY <3>1, <3>3 DEF StartDecode, Goto
    <3>. QED
      BY <3>2, <3>3
  <2>. QED
    BY <1>1, <2>1, <2>2, <2>3, <2>4, <2>5 DEF Step, Getcl, Decode
<1>2. ASSUME NEW t \in Threads, NEW k \in Keys, Request(t, k) PROVE Goal
  BY <1>2 DEF Request, Goto
<1>3. ASSUME NEW ids, Clear(ids) PROVE Goal
  BY <1>3 DEF Clear
<1>4. CASE UNCHANGED vars
  BY <1>4 DEF vars
<1>. QED
  BY <1>1, <1>2, <1>3, <1>4 DEF Next

\* While no decode fails, every line is decoded into or VALID, and a VALID one
\* holds the frame of its key.
THEOREM MatchInductive ==
  ASSUME DecodeResults = {0}
  PROVE  Spec => []MatchInv
<1>1. Init => MatchInv
  BY DEF Init, MatchInv, ValidMatchesKey, LineState, DecodesItsKey, Decoding
<1>2. IInv /\ MatchInv /\ [Next]_vars => MatchInv'
  <2>. SUFFICES ASSUME IInv, MatchInv, [Next]_vars PROVE MatchInv'
    OBVIOUS
  <2>. USE DEF MatchInv
  <2>0. IInv'
    BY NextIInv
  <2>1. LineState'
    BY LineStateStep
  <2>2. DecodesItsKey'
    <3>. SUFFICES ASSUME NEW u \in Threads, Decoding(u)'
                  PROVE  key'[ptr'[u]] = req'[u]
      BY DEF DecodesItsKey
    <3>1. CASE Decoding(u) /\ req'[u] = req[u]
      <4>0. PICK l : l = ptr[u]
        OBVIOUS
      <4>1. ptr'[u] = l
        BY <3>1, <4>0, PointerStep DEF Busy
      <4>2. l \in vcache /\ l \in vcache'
        BY <2>0, <3>1, <4>0, <4>1 DEF IInv, HeldLinked, Busy
      <4>3. l \notin Evictable
        BY <3>1, <4>0, <4>2, FreeLine DEF IInv, TypeOK, Decoders
      <4>4. key'[l] = key[l]
        BY <4>2, <4>3, ContentStep
      <4>. QED
        BY <3>1, <4>0, <4>1, <4>4 DEF DecodesItsKey
    <3>. QED
      BY <3>1, DecodingStep
  <2>3. ValidMatchesKey'
    <3>. SUFFICES ASSUME NEW l \in vcache', "VALID" \in flags'[l]
                  PROVE  data'[l] = key'[l]
      BY DEF ValidMatchesKey
    <3>. QED
      BY ValidStep DEF ValidMatchesKey, DecodesItsKey
  <2>. QED
    BY <2>1, <2>2, <2>3
<1>. QED
  BY <1>1, <1>2, Inductive, PTL DEF Spec

\* While no decode fails, a cached frame is the frame its key names, for any
\* number of threads and whatever is evicted, invalidated or cleared.
THEOREM DataMatches ==
  ASSUME DecodeResults = {0}
  PROVE  Spec => []ValidMatchesKey
<1>1. MatchInv => ValidMatchesKey
  BY DEF MatchInv
<1>. QED
  BY <1>1, MatchInductive, PTL

-----------------------------------------------------------------------------
(***************************************************************************)
(* The refinement of CacheService, while no decode fails                   *)
(***************************************************************************)

IdleThreads == \A t \in Threads : pc[t] = "idle" => req[t] = None

ServiceInv == MatchInv /\ ErrorsNotCached /\ IdleThreads

\* A thread that waits for its picture seeks, one that serves has it.
SeekOrServe ==
  \A t \in Threads :
    /\ pc[t] \notin {"idle", "serve", "release"} => Service!Seeking(t)
    /\ Serving(t) => Given[t] = key[ptr[t]] /\ Given[t] \in Keys

LEMMA SeekersAndServers == IInv /\ ServiceInv => SeekOrServe
<1>. SUFFICES ASSUME IInv, ServiceInv, NEW t \in Threads
              PROVE  /\ pc[t] \notin {"idle", "serve", "release"} => Service!Seeking(t)
                     /\ Serving(t) => Given[t] = key[ptr[t]] /\ Given[t] \in Keys
  BY DEF SeekOrServe
<1>1. pc[t] \notin {"idle", "serve", "release"} => Service!Seeking(t)
  BY KeysAssumption DEF IInv, RequestKnown, Service!Seeking, Given, Serving
<1>2. ASSUME Serving(t)
      PROVE  Given[t] = key[ptr[t]] /\ Given[t] \in Keys
  <2>1. PICK l \in vcache : l = ptr[t]
    BY <1>2 DEF IInv, HeldLinked, Busy
  <2>2. t \in Holders(l)
    BY <1>2, <2>1 DEF Holders
  <2>3. "DECODING" \notin flags[l]
    BY <2>2 DEF IInv, RefcntExact
  <2>4. data[l] = key[l] /\ data[l] \in Keys
    BY <2>3 DEF ServiceInv, MatchInv, LineState, ValidMatchesKey, ErrorsNotCached
  <2> QED BY <1>2, <2>1, <2>4 DEF Given
<1> QED BY <1>1, <1>2

\* No line is linked or gets another key.
OnlyDrops == \A l \in vcache' : l \in vcache /\ key'[l] = key[l]

\* What a step of another thread does to thread v.
LEMMA OthersServed ==
  ASSUME IInv, IInv', ServiceInv, [Next]_vars, NEW v \in Threads,
         pc'[v] = pc[v], req'[v] = req[v], ptr'[v] = ptr[v]
  PROVE  /\ Given'[v] = Given[v]
         /\ Misled'[v] = Misled[v] \/ Service!Seeking(v)
         /\ OnlyDrops => (Misled'[v] => Misled[v])
         /\ key' = key /\ vcache' = vcache => Misled'[v] = Misled[v]
<1>1. CASE Serving(v)
  <2>1. Serving(v)' /\ Busy(v) /\ Busy(v)'
    BY <1>1 DEF Serving, Busy
  <2>2. key'[ptr[v]] = key[ptr[v]] /\ data'[ptr[v]] = data[ptr[v]]
    BY <1>1, <2>1, HeldLineStays
  <2>3. ptr[v] \in vcache /\ ptr'[v] \in vcache'
    BY <2>1 DEF IInv, HeldLinked
  <2> QED BY <1>1, <2>1, <2>2, <2>3 DEF Given, Misled
<1>2. CASE ~Serving(v) /\ pc[v] = "recheck"
  BY <1>2, SeekersAndServers DEF SeekOrServe, Given, Misled, Serving, OnlyDrops
<1>3. CASE ~Serving(v) /\ pc[v] # "recheck"
  BY <1>3 DEF Given, Misled, Serving
<1> QED BY <1>1, <1>2, <1>3

\* Thread t moves, and the others stay where they are.
Moves(t) ==
  \A v \in Threads \ {t} : pc'[v] = pc[v] /\ req'[v] = req[v] /\ ptr'[v] = ptr[v]

LEMMA EveryoneMoves ==
  ASSUME IInv, NEW t \in Threads, Step(t) \/ \E k \in Keys : Request(t, k)
  PROVE  Moves(t)
<1>. USE DEF IInv, TypeOK, Moves, Goto
<1>1. CASE \E k \in Keys : Request(t, k)
  BY <1>1 DEF Request
<1>2. CASE Find(t) \/ Recheck(t) \/ TouchFreed(t)
  BY <1>2 DEF Find, Recheck, TouchFreed, Miss
<1>3. CASE Getcl(t)
  BY <1>3 DEF Getcl, GetclUnflagged, GetclEvict, GetclNew, GetclRetry, StartDecode, Return
<1>4. CASE Decode(t) \/ Invalidate(t) \/ Release(t)
  BY <1>4 DEF Decode, DecodeOk, DecodeError, DecodeRefused, Invalidate, Release, Return
<1>. QED
  BY <1>1, <1>2, <1>3, <1>4 DEF Step

\* A thread goes on seeking: it looks for a line, or replaces one.
LEMMA WorkStep ==
  ASSUME IInv, IInv', ServiceInv, [Next]_vars, NEW t \in Threads, Moves(t),
         Service!Seeking(t), req' = req, ~Serving(t)', Misled'[t] => Misled[t]
  PROVE  Service!Work(t)
<1>1. Given' = Given
  <2>1. Given'[t] = Given[t]
    BY DEF Service!Seeking, Given
  <2>2. \A v \in Threads \ {t} : Given'[v] = Given[v]
    BY OthersServed DEF Moves
  <2> QED BY <2>1, <2>2 DEF Given
<1>2. Misled' \in [Threads -> BOOLEAN]
  BY DEF Misled
<1>3. \A v \in Threads \ {t} : Misled'[v] = Misled[v] \/ Service!Seeking(v)
  BY OthersServed DEF Moves
<1> QED BY <1>1, <1>2, <1>3 DEF Service!Work, Service!OthersMayBeMisled

\* A thread is given the frame it asked for, unless it was misled.
LEMMA GiveStep ==
  ASSUME IInv, IInv', ServiceInv, ServiceInv', [Next]_vars, NEW t \in Threads, Moves(t),
         Service!Seeking(t), req' = req, key' = key, vcache' = vcache,
         Serving(t)', Misled'[t] = Misled[t]
  PROVE  Service!Give(t)
<1>1. Given'[t] \in Keys /\ (Misled[t] \/ Given'[t] = req[t])
  <2>1. Given'[t] = key'[ptr'[t]] /\ Given'[t] \in Keys
    <3>1. (IInv /\ ServiceInv => SeekOrServe)'
      BY SeekersAndServers, PTL
    <3> QED BY <3>1 DEF SeekOrServe
  <2>2. Misled'[t] \/ key'[ptr'[t]] = req'[t]
    <3>1. ptr'[t] \in vcache'
      BY DEF IInv, HeldLinked, Busy
    <3> QED BY <3>1 DEF Misled
  <2> QED BY <2>1, <2>2
<1>2. \A v \in Threads \ {t} : Given'[v] = Given[v] /\ Misled'[v] = Misled[v]
  BY OthersServed DEF Moves
<1>3. Given' = [Given EXCEPT ![t] = Given'[t]]
  BY <1>2 DEF Given
<1>4. Misled' = Misled
  BY <1>2 DEF Misled
<1> QED BY <1>1, <1>3, <1>4 DEF Service!Give

\* A thread ends its request, served or not.
LEMMA ReturnStep ==
  ASSUME IInv, IInv', ServiceInv, [Next]_vars, NEW t \in Threads, Moves(t),
         pc[t] # "idle", Return(t), OnlyDrops
  PROVE  Service!Return(t)
<1>1. req[t] # None /\ req' = [req EXCEPT ![t] = None]
  BY KeysAssumption DEF IInv, RequestKnown, Return
<1>2. ~Serving(t)' /\ pc'[t] = "idle"
  BY DEF Return, Goto, IInv, TypeOK, Serving
<1>3. Given'[t] = None /\ ~Misled'[t]
  BY <1>2 DEF Given, Misled
<1>4. \A v \in Threads \ {t} : Given'[v] = Given[v] /\ (Misled'[v] => Misled[v])
  BY OthersServed DEF Moves
<1>5. \A v \in Threads : Given[v] \in Keys \cup {None}
  BY SeekersAndServers DEF SeekOrServe, Given
<1>6. Given' \in [Threads -> Keys \cup {None}] /\ Misled' \in [Threads -> BOOLEAN]
  <2>1. \A v \in Threads : Given'[v] \in Keys \cup {None}
    BY <1>3, <1>4, <1>5
  <2> QED BY <2>1 DEF Given, Misled
<1> QED BY <1>1, <1>3, <1>4, <1>6 DEF Service!Return, Service!NobodyIsMisled

\* Every step of a thread is a step of the service, or changes nothing that
\* shows.
LEMMA ServiceSteps ==
  ASSUME DecodeResults = {0}, IInv, IInv', ServiceInv, ServiceInv', [Next]_vars,
         NEW t \in Threads, Step(t)
  PROVE  \/ Service!Work(t) \/ Service!Give(t) \/ Service!Return(t)
         \/ UNCHANGED <<req, Given, Misled>>
<1>0. Moves(t)
  BY EveryoneMoves
<1>. USE DEF IInv, TypeOK, Goto
<1>1. CASE Find(t)
  <2>1. Service!Seeking(t) /\ req' = req
    BY <1>1, SeekersAndServers DEF SeekOrServe, Find
  <2>2. ~Serving(t)'
    BY <1>1 DEF Find, Miss, Serving
  <2>3. ~Misled'[t]
    BY <1>1 DEF Find, Miss, Matching, Misled, Serving, lines
  <2> QED BY <1>0, <2>1, <2>2, <2>3, WorkStep
<1>2. CASE Recheck(t)
  <2>1. Service!Seeking(t) /\ req' = req /\ key' = key /\ vcache' = vcache
    BY <1>2, SeekersAndServers DEF SeekOrServe, Recheck
  <2>2. CASE IsHit(ptr[t])
    <3>1. pc'[t] = "serve" /\ ptr' = ptr /\ pc[t] = "recheck"
      BY <1>2, <2>2 DEF Recheck
    <3>2. Serving(t)' /\ Misled'[t] = Misled[t]
      BY <2>1, <3>1 DEF Serving, Misled
    <3> QED BY <1>0, <2>1, <3>2, GiveStep
  <2>3. CASE ~IsHit(ptr[t])
    <3>1. pc'[t] = "getcl"
      BY <1>2, <2>3 DEF Recheck, Miss
    <3>2. ~Serving(t)' /\ ~Misled'[t]
      BY <3>1 DEF Serving, Misled
    <3> QED BY <1>0, <2>1, <3>2, WorkStep
  <2> QED BY <2>2, <2>3
<1>3. CASE TouchFreed(t)
  <2>1. Service!Seeking(t) /\ req' = req /\ pc'[t] = "wild"
    BY <1>3, SeekersAndServers DEF SeekOrServe, TouchFreed
  <2>2. ~Serving(t)' /\ ~Misled'[t]
    BY <2>1 DEF Serving, Misled
  <2> QED BY <1>0, <2>1, <2>2, WorkStep
<1>4. CASE GetclUnflagged(t) \/ GetclEvict(t) \/ GetclNew(t)
  <2>1. Service!Seeking(t) /\ req' = req /\ pc'[t] = "decode"
    BY <1>4, SeekersAndServers DEF SeekOrServe, GetclUnflagged, GetclEvict, GetclNew, StartDecode
  <2>2. ~Serving(t)' /\ ~Misled'[t]
    BY <2>1 DEF Serving, Misled
  <2> QED BY <1>0, <2>1, <2>2, WorkStep
<1>5. CASE GetclRetry(t)
  <2>1. Service!Seeking(t) /\ pc[t] = "getcl"
    BY <1>5, SeekersAndServers DEF SeekOrServe, GetclRetry
  <2>2. CASE Return(t)
    <3>1. OnlyDrops
      BY <1>5 DEF GetclRetry, lines, OnlyDrops
    <3> QED BY <1>0, <2>1, <2>2, <3>1, ReturnStep
  <2>3. CASE UNCHANGED <<pc, req, ptr>>
    <3>1. ~Serving(t)' /\ ~Misled'[t]
      BY <2>1, <2>3 DEF Serving, Misled
    <3> QED BY <1>0, <2>1, <2>3, <3>1, WorkStep
  <2> QED BY <1>5, <2>2, <2>3 DEF GetclRetry
<1>6. CASE DecodeOk(t)
  <2>1. /\ Service!Seeking(t) /\ req' = req /\ key' = key /\ ptr' = ptr
        /\ pc[t] = "decode" /\ pc'[t] = "serve" /\ vcache' = vcache
    BY <1>6, SeekersAndServers DEF SeekOrServe, DecodeOk
  <2>2. key[ptr[t]] = req[t]
    BY <2>1 DEF ServiceInv, MatchInv, DecodesItsKey, Decoding
  <2>3. Serving(t)' /\ Misled'[t] = Misled[t]
    BY <2>1, <2>2 DEF Serving, Misled
  <2> QED BY <1>0, <2>1, <2>3, GiveStep
<1>7. ~DecodeError(t) /\ ~DecodeRefused(t)
  BY DEF DecodeError, DecodeRefused
<1>8. CASE Invalidate(t)
  <2>1. /\ pc[t] = "serve" /\ pc'[t] = "release"
        /\ req' = req /\ ptr' = ptr /\ key' = key /\ data' = data /\ vcache' = vcache
    BY <1>8 DEF Invalidate
  <2>2. \A v \in Threads : (Serving(v)' <=> Serving(v)) /\ (pc'[v] = "recheck" <=> pc[v] = "recheck")
    BY <1>0, <2>1 DEF Moves, Serving
  <2> QED BY <2>1, <2>2 DEF Given, Misled
<1>9. CASE Release(t)
  <2>1. pc[t] # "idle" /\ Return(t)
    BY <1>9 DEF Release
  <2>2. OnlyDrops
    BY <1>9 DEF Release, Free, OnlyDrops
  <2> QED BY <1>0, <2>1, <2>2, ReturnStep
<1> QED BY <1>1, <1>2, <1>3, <1>4, <1>5, <1>6, <1>7, <1>8, <1>9 DEF Step, Getcl, Decode

\* A new request asks, and clearing takes nothing from those who are served.
LEMMA RequestAsks ==
  ASSUME IInv, IInv', ServiceInv, [Next]_vars, NEW t \in Threads, NEW k \in Keys, Request(t, k)
  PROVE  Service!Ask(t, k)
<1>1. Moves(t)
  BY EveryoneMoves
<1>2. pc[t] = "idle" /\ pc'[t] = "find" /\ req' = [req EXCEPT ![t] = k] /\ UNCHANGED <<key, data, vcache>>
  BY DEF Request, Goto, lines, IInv, TypeOK
<1>3. req[t] = None
  BY <1>2 DEF ServiceInv, IdleThreads
<1>4. \A v \in Threads \ {t} : Given'[v] = Given[v] /\ Misled'[v] = Misled[v]
  BY <1>1, <1>2, OthersServed DEF Moves
<1>5. Given'[t] = Given[t] /\ Misled'[t] = Misled[t]
  BY <1>2 DEF Given, Misled, Serving
<1>6. Given' = Given /\ Misled' = Misled
  BY <1>4, <1>5 DEF Given, Misled
<1> QED BY <1>2, <1>3, <1>6 DEF Service!Ask

LEMMA ClearDrops ==
  ASSUME IInv, IInv', ServiceInv, [Next]_vars, NEW ids, Clear(ids)
  PROVE  Service!Clear
<1>1. UNCHANGED <<pc, req, ptr>> /\ OnlyDrops
  BY DEF Clear, Free, OnlyDrops, IInv, TypeOK
<1>2. \A v \in Threads : Given'[v] = Given[v] /\ (Misled'[v] => Misled[v])
  BY <1>1, OthersServed
<1>3. \A v \in Threads : Given[v] \in Keys \cup {None}
  BY SeekersAndServers DEF SeekOrServe, Given
<1>4. Given' \in [Threads -> Keys \cup {None}] /\ Misled' \in [Threads -> BOOLEAN]
  <2>1. \A v \in Threads : Given'[v] \in Keys \cup {None}
    BY <1>2, <1>3
  <2> QED BY <2>1 DEF Given, Misled
<1> QED BY <1>1, <1>2, <1>4 DEF Service!Clear, Service!NobodyIsMisled

LEMMA IdleStep ==
  ASSUME IInv, IdleThreads, [Next]_vars
  PROVE  IdleThreads'
<1>. USE DEF IInv, TypeOK, IdleThreads, Goto
<1>1. ASSUME NEW t \in Threads, Step(t) PROVE IdleThreads'
  <2>1. CASE Find(t) \/ Recheck(t) \/ TouchFreed(t)
    BY <2>1 DEF Find, Recheck, TouchFreed, Miss
  <2>2. CASE Getcl(t)
    BY <2>2 DEF Getcl, GetclUnflagged, GetclEvict, GetclNew, GetclRetry, StartDecode, Return
  <2>3. CASE Decode(t) \/ Invalidate(t) \/ Release(t)
    BY <2>3 DEF Decode, DecodeOk, DecodeError, DecodeRefused, Invalidate, Release, Return
  <2> QED BY <1>1, <2>1, <2>2, <2>3 DEF Step
<1>2. ASSUME NEW t \in Threads, NEW k \in Keys, Request(t, k) PROVE IdleThreads'
  BY <1>2 DEF Request
<1>3. ASSUME NEW ids, Clear(ids) PROVE IdleThreads'
  BY <1>3 DEF Clear
<1>4. CASE UNCHANGED vars
  BY <1>4 DEF vars
<1> QED BY <1>1, <1>2, <1>3, <1>4 DEF Next

\* While no decode fails, the frame cache implements CacheService, for any
\* number of threads, with and without KEEPRAW and clearing: a request is
\* given the frame it asked for and keeps it, unless its line was replaced
\* between the two locks of fc_readcl().
THEOREM FrameCacheServes ==
  ASSUME DecodeResults = {0}
  PROVE  Spec => ServesAsAsked
<1>1. Init => Service!Init
  BY DEF Init, Service!Init, Given, Misled, Serving
<1>2. IInv /\ IInv' /\ ServiceInv /\ ServiceInv' /\ [Next]_vars
        => [Service!Next]_<<req, Given, Misled>>
  <2> SUFFICES ASSUME IInv, IInv', ServiceInv, ServiceInv', [Next]_vars
               PROVE  Service!Next \/ UNCHANGED <<req, Given, Misled>>
    OBVIOUS
  <2>1. ASSUME NEW t \in Threads, Step(t)
        PROVE  Service!Next \/ UNCHANGED <<req, Given, Misled>>
    BY <2>1, ServiceSteps DEF Service!Next
  <2>2. ASSUME NEW t \in Threads, NEW k \in Keys, Request(t, k)
        PROVE  Service!Next
    BY <2>2, RequestAsks DEF Service!Next
  <2>3. ASSUME NEW ids, Clear(ids)
        PROVE  Service!Next
    BY <2>3, ClearDrops DEF Service!Next
  <2>4. CASE UNCHANGED vars
    BY <2>4 DEF vars, Given, Misled, Serving
  <2> QED BY <2>1, <2>2, <2>3, <2>4 DEF Next
<1>3. Spec => []IdleThreads
  <2>1. Init => IdleThreads
    BY DEF Init, IdleThreads
  <2> QED BY <2>1, IdleStep, Inductive, PTL DEF Spec
<1>4. MatchInv /\ ErrorsNotCached /\ IdleThreads => ServiceInv
  BY DEF ServiceInv
<1> QED
  BY <1>1, <1>2, <1>3, <1>4, Inductive, MatchInductive, NoErrorCached, PTL
     DEF Spec, ServesAsAsked, Service!Spec

-----------------------------------------------------------------------------
(***************************************************************************)
(* With KEEPRAW and without vcache_clear() no line is ever freed, so the   *)
(* pointer a thread keeps from its lookup stays a pointer to a line.       *)
(***************************************************************************)

KeepInv ==
  /\ NoTouchFreed
  /\ \A t \in Threads : ptr[t] \in vcache \cup {None}
  /\ \A t \in Threads : pc[t] = "recheck" => ptr[t] # None
  /\ \A l \in vcache : "RELEASE" \notin flags[l]

\* In this configuration no thread ever follows a dangling pointer.
THEOREM NoDangling ==
  ASSUME KeepRaw, ~AllowClear
  PROVE  Spec => []NoTouchFreed
<1>1. Init => KeepInv
  BY DEF Init, KeepInv, NoTouchFreed, Defined
<1>2. IInv /\ KeepInv /\ [Next]_vars => KeepInv'
  <2>. SUFFICES ASSUME IInv, KeepInv, [Next]_vars PROVE KeepInv'
    OBVIOUS
  <2>. USE DEF IInv, TypeOK, KeepInv, NoTouchFreed, Defined
  <2>1. ASSUME NEW t \in Threads, Step(t) PROVE KeepInv'
    <3>1. CASE Find(t)
      BY <3>1, LinesAssumption DEF Find, Miss, Matching, Goto, lines
    <3>2. CASE Recheck(t)
      BY <3>2 DEF Recheck, Acquire, Miss, Goto
    <3>3. CASE TouchFreed(t)
      BY <3>3 DEF TouchFreed
    <3>4. CASE GetclUnflagged(t)
      <4>1. PICK l \in vcache : /\ flags' = [flags EXCEPT ![l] = {"DECODING"}]
                                /\ StartDecode(t, l)
        BY <3>4 DEF GetclUnflagged, Unflagged
      <4>2. vcache' = vcache
        BY <3>4 DEF GetclUnflagged
      <4>. QED
        BY <4>1, <4>2 DEF StartDecode, Goto
    <3>5. CASE GetclEvict(t) \/ GetclNew(t)
      <4>1. PICK l \in Lines : /\ vcache' = vcache \cup {l}
                               /\ flags' = [flags EXCEPT ![l] = {"DECODING"}]
                               /\ StartDecode(t, l)
        <5>1. CASE GetclEvict(t)
          <6>1. PICK l \in Evictable : Rekey(t, l) /\ StartDecode(t, l)
            BY <5>1 DEF GetclEvict
          <6>2. l \in Lines /\ vcache' = vcache \cup {l}
            BY <5>1, <6>1 DEF GetclEvict, Evictable
          <6>. QED
            BY <6>1, <6>2 DEF Rekey
        <5>2. CASE GetclNew(t)
          BY <5>2 DEF GetclNew, Rekey
        <5>. QED
          BY <3>5, <5>1, <5>2
      <4>. QED
        BY <4>1 DEF StartDecode, Goto
    <3>6. CASE GetclRetry(t)
      BY <3>6 DEF GetclRetry, Return, Goto, lines
    <3>7. CASE DecodeOk(t)
      BY <3>7 DEF DecodeOk, Acquire, Goto
    <3>8. CASE DecodeError(t)
      BY <3>8 DEF DecodeError, ErrorFlags, Acquire, Goto
    <3>9. CASE DecodeRefused(t)
      BY <3>9 DEF DecodeRefused, Return, Goto
    <3>10. CASE Invalidate(t)
      BY <3>10 DEF Invalidate
    <3>11. CASE Release(t)
      <4>1. Serving(t) /\ ptr[t] \in vcache
        BY <3>11 DEF Release, Serving, HeldLinked, Busy
      <4>2. FreedByRelease(ptr[t]) = {}
        BY <4>1 DEF FreedByRelease
      <4>3. vcache' = vcache
        BY <3>11, <4>2 DEF Release, Free
      <4>4. \A l \in vcache : flags'[l] \subseteq flags[l]
        BY <3>11, <4>1, <4>2 DEF Release, InuseAfterRelease
      <4>. QED
        BY <3>11, <4>3, <4>4 DEF Release, Return, Goto
    <3>. QED
      BY <2>1, <3>1, <3>2, <3>3, <3>4, <3>5, <3>6, <3>7, <3>8, <3>9, <3>10,
         <3>11 DEF Step, Getcl, Decode
  <2>2. ASSUME NEW t \in Threads, NEW k \in Keys, Request(t, k) PROVE KeepInv'
    BY <2>2 DEF Request, Goto, lines
  <2>3. ASSUME NEW ids, Clear(ids) PROVE KeepInv'
    BY <2>3 DEF Clear
  <2>4. CASE UNCHANGED vars
    BY <2>4 DEF vars
  <2>. QED
    BY <2>1, <2>2, <2>3, <2>4 DEF Next
<1>3. KeepInv => NoTouchFreed
  BY DEF KeepInv
<1>. QED
  BY <1>1, <1>2, <1>3, Inductive, PTL DEF Spec

=============================================================================
