----------------------------- MODULE FrameCache -----------------------------
(***************************************************************************)
(* The raw-frame cache of libharvid/frame_cache.c ("vcache"): a hash table *)
(* of decoded frames shared by all connection threads under one rwlock.    *)
(*                                                                         *)
(* Every critical section of the code is one action; a thread's local      *)
(* pointer survives from one section to the next, which is where the       *)
(* interesting interleavings are.  vcache is the set of cache-lines        *)
(* linked in the hash table: a line is linked exactly while its memory is  *)
(* allocated, so "not in vcache" also means "freed".  lru time-stamps have *)
(* a granularity of one second and are abstracted to "any eligible line".  *)
(* The hit/miss statistics are left out.                                   *)
(***************************************************************************)
EXTENDS Integers, FiniteSets

CONSTANTS
  Threads,        \* connection threads
  Lines,          \* addresses calloc() can return for a videocacheline
  Ids,            \* file IDs from the VidMap
  Frames,         \* the rest of the key: frame, w, h, fmt
  CacheSize,      \* cfg_cachesize
  Timeout,        \* attempts to get a cache-line (250 in the code)
  KeepRaw,        \* USR_KEEPRAW: frames stay after they have been encoded
  AllowClear,     \* whether vcache_clear() is called while requests run
  DecodeResults,  \* what dctrl_decode() may return
  None,           \* the NULL pointer, no key and no frame
  Black           \* the content of a buffer after a decode error

\* videocacheline.id .. videocacheline.frame: the hash key
Keys == Ids \X Frames

ASSUME ThreadsAssumption == IsFiniteSet(Threads)
ASSUME LinesAssumption ==
  /\ IsFiniteSet(Lines)
  /\ CacheSize \in Nat \ {0}
  /\ Cardinality(Lines) >= CacheSize
  /\ None \notin Lines
ASSUME ConfigAssumption ==
  /\ Timeout \in Nat \ {0}
  /\ KeepRaw \in BOOLEAN
  /\ AllowClear \in BOOLEAN
  /\ DecodeResults \subseteq {0, -1, 503}
ASSUME KeysAssumption == None \notin Keys /\ Black \notin Keys \cup {None}

VARIABLES
  vcache,   \* the linked cache-lines
  key,      \* key[l]: id, w, h, fmt, frame of line l
  flags,    \* flags[l]: the CLF_ bits that are set
  refcnt,   \* refcnt[l]: CLF_INUSE reference count
  data,     \* data[l]: the frame in the buffer b of line l
  pc,       \* where each thread is in vcache_get_buffer .. release
  req,      \* req[t]: the key thread t asks for
  ptr,      \* ptr[t]: its local pointer (hash head, then cache-line)
  timeout   \* timeout[t]: attempts left

vars == <<vcache, key, flags, refcnt, data, pc, req, ptr, timeout>>

lines == <<vcache, key, flags, refcnt, data>>

Flags == {"DECODING", "INUSE", "VALID", "RELEASE"}

Init ==
  /\ vcache = {}
  /\ key = [l \in Lines |-> None]
  /\ flags = [l \in Lines |-> {}]
  /\ refcnt = [l \in Lines |-> 0]
  /\ data = [l \in Lines |-> None]
  /\ pc = [t \in Threads |-> "idle"]
  /\ req = [t \in Threads |-> None]
  /\ ptr = [t \in Threads |-> None]
  /\ timeout = [t \in Threads |-> 0]

-----------------------------------------------------------------------------
(***************************************************************************)
(* testclwh(): the head of the hash table is read when the call's          *)
(* arguments are evaluated, before the read lock is taken.  uthash finds   *)
(* the table through the head line.                                        *)
(***************************************************************************)

Goto(t, l) == pc' = [pc EXCEPT ![t] = l]

\* The request ends and the thread's locals with it.
Return(t) ==
  /\ Goto(t, "idle")
  /\ req' = [req EXCEPT ![t] = None]
  /\ ptr' = [ptr EXCEPT ![t] = None]
  /\ timeout' = [timeout EXCEPT ![t] = 0]

\* vcache_get_buffer() is called for key k; cc->vcache is read.
Request(t, k) ==
  /\ pc[t] = "idle"
  /\ \/ vcache = {} /\ ptr' = [ptr EXCEPT ![t] = None]
     \/ \E l \in vcache : ptr' = [ptr EXCEPT ![t] = l]
  /\ req' = [req EXCEPT ![t] = k]
  /\ Goto(t, "find")
  /\ UNCHANGED <<lines, timeout>>

Miss(t) ==
  /\ Goto(t, "getcl")
  /\ ptr' = [ptr EXCEPT ![t] = None]
  /\ timeout' = [timeout EXCEPT ![t] = Timeout]

\* A mutant: the frame number is not part of the hash key.
MatchingFrameless(k) == {l \in vcache : key[l][1] = k[1]}

\* The lines HASH_FIND may return: two threads that miss the same key at the
\* same time both insert it, so there may be several.
Matching(k) == {l \in vcache : key[l] = k}

Find(t) ==
  /\ pc[t] = "find"
  /\ ptr[t] \in vcache \cup {None}
  /\ \/ /\ ptr[t] = None \/ Matching(req[t]) = {}
        /\ Miss(t)
     \/ /\ ptr[t] # None
        /\ \E l \in Matching(req[t]) : ptr' = [ptr EXCEPT ![t] = l]
        /\ Goto(t, "recheck")
        /\ UNCHANGED timeout
  /\ UNCHANGED <<lines, req>>

\* "check if it has been recently invalidated by another thread"
IsHit(l) == "VALID" \in flags[l]

\* A thread starts to serve line l, whose flags become f.
Acquire(l, f) ==
  /\ flags' = [flags EXCEPT ![l] = f]
  /\ refcnt' = [refcnt EXCEPT ![l] = @ + 1]

\* fc_readcl() re-checks the line it found under the write lock.
Recheck(t) ==
  /\ pc[t] = "recheck"
  /\ ptr[t] \in vcache
  /\ \/ /\ IsHit(ptr[t])
        /\ Acquire(ptr[t], flags[ptr[t]] \cup {"INUSE"})
        /\ Goto(t, "serve")
        /\ UNCHANGED <<ptr, timeout>>
     \/ /\ ~IsHit(ptr[t])
        /\ Miss(t)
        /\ UNCHANGED <<flags, refcnt>>
  /\ UNCHANGED <<vcache, key, data, req>>

\* The head or the line a thread kept a pointer to has been freed: what the
\* thread reads through it is undefined, and nothing is said of what follows.
TouchFreed(t) ==
  /\ pc[t] \in {"find", "recheck"}
  /\ ptr[t] \notin vcache \cup {None}
  /\ Goto(t, "wild")
  /\ UNCHANGED <<lines, req, ptr, timeout>>

-----------------------------------------------------------------------------
(***************************************************************************)
(* getcl(): a cache-line for a frame that has to be decoded.               *)
(***************************************************************************)

\* A mutant: off by one in the size check.
FullOffByOne == Cardinality(vcache) > CacheSize

Full == Cardinality(vcache) >= CacheSize

\* A line without any flag is returned as it is, key included.
Unflagged == {l \in vcache : flags[l] = {}}

\* A mutant: lines that are being served may be replaced.
EvictableInuse == {l \in vcache : "DECODING" \notin flags[l]}

\* The lines the lru scan considers.
Evictable == {l \in vcache : flags[l] \cap {"DECODING", "INUSE"} = {}}

\* A mutant: the flags of the replaced line survive.
RekeyKeepFlags(t, l) ==
  /\ key' = [key EXCEPT ![l] = req[t]]
  /\ flags' = [flags EXCEPT ![l] = @ \cup {"DECODING"}]
  /\ refcnt' = [refcnt EXCEPT ![l] = 0]
  /\ data' = [data EXCEPT ![l] = None]

\* (Re-)initialise line l for the key thread t asks for.
Rekey(t, l) ==
  /\ key' = [key EXCEPT ![l] = req[t]]
  /\ flags' = [flags EXCEPT ![l] = {"DECODING"}]
  /\ refcnt' = [refcnt EXCEPT ![l] = 0]
  /\ data' = [data EXCEPT ![l] = None]

StartDecode(t, l) ==
  /\ ptr' = [ptr EXCEPT ![t] = l]
  /\ timeout' = [timeout EXCEPT ![t] = 0]
  /\ Goto(t, "decode")
  /\ UNCHANGED req

GetclUnflagged(t) ==
  /\ pc[t] = "getcl"
  /\ Full
  /\ \E l \in Unflagged :
       /\ flags' = [flags EXCEPT ![l] = {"DECODING"}]
       /\ StartDecode(t, l)
  /\ UNCHANGED <<vcache, key, refcnt, data>>

GetclEvict(t) ==
  /\ pc[t] = "getcl"
  /\ Full
  /\ Unflagged = {}
  /\ \E l \in Evictable : Rekey(t, l) /\ StartDecode(t, l)
  /\ UNCHANGED vcache

GetclNew(t) ==
  /\ pc[t] = "getcl"
  /\ ~Full
  /\ \E l \in Lines \ vcache :
       /\ vcache' = vcache \cup {l}
       /\ Rekey(t, l)
       /\ StartDecode(t, l)

\* A mutant: the attempts are not counted.
RetryForever(t) ==
  /\ pc[t] = "getcl"
  /\ Full
  /\ Evictable = {}
  /\ UNCHANGED vars

\* "cache full - all cache-lines in use": sleep and retry, 503 in the end.
GetclRetry(t) ==
  /\ pc[t] = "getcl"
  /\ Full
  /\ Evictable = {}
  /\ \/ /\ timeout[t] > 1
        /\ timeout' = [timeout EXCEPT ![t] = @ - 1]
        /\ UNCHANGED <<pc, req, ptr>>
     \/ timeout[t] <= 1 /\ Return(t)
  /\ UNCHANGED lines

-----------------------------------------------------------------------------
(***************************************************************************)
(* fc_readcl() decodes into the buffer without the lock and then publishes *)
(* the result under the write lock.                                        *)
(***************************************************************************)

DecodeOk(t) ==
  /\ pc[t] = "decode"
  /\ 0 \in DecodeResults
  /\ data' = [data EXCEPT ![ptr[t]] = req[t]]
  /\ Acquire(ptr[t], (flags[ptr[t]] \ {"DECODING"}) \cup {"VALID", "INUSE"})
  /\ Goto(t, "serve")
  /\ UNCHANGED <<vcache, key, req, ptr, timeout>>

\* A mutant: the line of a failed decode becomes VALID.
ErrorFlagsValid(l) == (flags[l] \ {"DECODING"}) \cup {"VALID", "INUSE"}

ErrorFlags(l) == (flags[l] \ {"VALID", "DECODING"}) \cup {"INUSE"}

\* ds == -1: a black frame is served, the line is not VALID.
DecodeError(t) ==
  /\ pc[t] = "decode"
  /\ -1 \in DecodeResults
  /\ data' = [data EXCEPT ![ptr[t]] = Black]
  /\ Acquire(ptr[t], ErrorFlags(ptr[t]))
  /\ Goto(t, "serve")
  /\ UNCHANGED <<vcache, key, req, ptr, timeout>>

\* ds > 0: no decoder; the line stays in the table without any flag.
DecodeRefused(t) ==
  /\ pc[t] = "decode"
  /\ 503 \in DecodeResults
  /\ flags' = [flags EXCEPT ![ptr[t]] = @ \ {"VALID", "DECODING"}]
  /\ Return(t)
  /\ UNCHANGED <<vcache, key, refcnt, data>>

-----------------------------------------------------------------------------
(***************************************************************************)
(* The end of a request, and vcache_clear().                               *)
(***************************************************************************)

\* vcache_invalidate_buffer(): the encoded image was cached, so the raw frame
\* is not needed any more (never done with KEEPRAW or for raw images).
Invalidate(t) ==
  /\ pc[t] = "serve"
  /\ ~KeepRaw
  /\ flags' = [flags EXCEPT ![ptr[t]] = @ \cup {"RELEASE"}]
  /\ Goto(t, "release")
  /\ UNCHANGED <<vcache, key, refcnt, data, req, ptr, timeout>>

\* Take the lines of S out of the table and free() them.
Free(S) ==
  /\ vcache' = vcache \ S
  /\ key' = [l \in Lines |-> IF l \in S THEN None ELSE key[l]]
  /\ data' = [l \in Lines |-> IF l \in S THEN None ELSE data[l]]

\* A mutant: a released line is freed although others still serve it.
FreedByReleaseEarly(l) == IF "RELEASE" \in flags[l] THEN {l} ELSE {}

\* A mutant: the last holder frees the line whether it was invalidated or not.
FreedByReleaseAlways(l) == IF refcnt[l] = 1 THEN {l} ELSE {}

\* What vcache_release_buffer() frees.
FreedByRelease(l) ==
  IF refcnt[l] = 1 /\ "RELEASE" \in flags[l] THEN {l} ELSE {}

\* A mutant: INUSE is reset by the first of several holders.
InuseDroppedByFirst(l) == flags[l] \ {"INUSE"}

InuseAfterRelease(l) ==
  IF refcnt[l] = 1 THEN flags[l] \ {"INUSE"} ELSE flags[l]

\* vcache_release_buffer()
Release(t) ==
  LET l == ptr[t]
      freed == FreedByRelease(l)
  IN /\ pc[t] \in {"serve", "release"}
     /\ Free(freed)
     /\ flags' = [flags EXCEPT
                    ![l] = IF freed # {} THEN {} ELSE InuseAfterRelease(l)]
     /\ refcnt' = [refcnt EXCEPT ![l] = @ - 1]
     /\ Return(t)

\* The lines clearcache(f = 0) frees.
Clearable(ids) == {l \in Evictable : key[l][1] \in ids}

\* vcache_clear(): for one ID, or (id = -1) for all of them.
Clear(ids) ==
  /\ AllowClear
  /\ Free(Clearable(ids))
  /\ flags' = [l \in Lines |-> IF l \in Clearable(ids) THEN {} ELSE flags[l]]
  /\ refcnt' =
       [l \in Lines |-> IF l \in Clearable(ids) THEN 0 ELSE refcnt[l]]
  /\ UNCHANGED <<pc, req, ptr, timeout>>

-----------------------------------------------------------------------------
Getcl(t) ==
  GetclUnflagged(t) \/ GetclEvict(t) \/ GetclNew(t) \/ GetclRetry(t)

Decode(t) == DecodeOk(t) \/ DecodeError(t) \/ DecodeRefused(t)

\* What a thread does on its own once it has a request.
Step(t) ==
  \/ Find(t)
  \/ Recheck(t)
  \/ TouchFreed(t)
  \/ Getcl(t)
  \/ Decode(t)
  \/ Invalidate(t)
  \/ Release(t)

Defined == \A t \in Threads : pc[t] # "wild"

Next ==
  /\ Defined
  /\ \/ \E t \in Threads : Step(t)
     \/ \E t \in Threads, k \in Keys : Request(t, k)
     \/ \E ids \in {{i} : i \in Ids} \cup {Ids} : Clear(ids)

Spec == Init /\ [][Next]_vars

(***************************************************************************)
(* Each thread keeps running: lock sections are short and pthread rwlocks  *)
(* are eventually granted, the decoder returns, and a sleep ends.          *)
(***************************************************************************)
FairSpec == Spec /\ \A t \in Threads : WF_vars(Defined /\ Step(t))

-----------------------------------------------------------------------------
Decoding(t) == pc[t] = "decode"
Serving(t) == pc[t] \in {"serve", "release"}
Busy(t) == Decoding(t) \/ Serving(t)

Holders(l) == {t \in Threads : Serving(t) /\ ptr[t] = l}
Decoders(l) == {t \in Threads : Decoding(t) /\ ptr[t] = l}

TypeOK ==
  /\ vcache \subseteq Lines
  /\ key \in [Lines -> Keys \cup {None}]
  /\ flags \in [Lines -> SUBSET Flags]
  /\ refcnt \in [Lines -> Nat]
  /\ data \in [Lines -> Keys \cup {None, Black}]
  /\ pc \in [Threads -> {"idle", "find", "recheck", "getcl", "decode",
                         "serve", "release", "wild"}]
  /\ req \in [Threads -> Keys \cup {None}]
  /\ ptr \in [Threads -> Lines \cup {None}]
  /\ timeout \in [Threads -> 0 .. Timeout]

\* The table never holds more lines than configured (getcl checks the count
\* under the write lock), whatever threads insert, fail and clear.
CacheBound == Cardinality(vcache) <= CacheSize

\* refcnt counts exactly the requests that serve the line, INUSE is set while
\* there are any, DECODING while exactly one thread decodes into the line, and
\* then nobody serves it: nobody reads a buffer that is being written.
RefcntExact ==
  \A l \in vcache :
    /\ refcnt[l] = Cardinality(Holders(l))
    /\ "INUSE" \in flags[l] <=> Holders(l) # {}
    /\ "DECODING" \in flags[l] <=> Decoders(l) # {}
    /\ \A t, u \in Decoders(l) : t = u
    /\ Decoders(l) = {} \/ Holders(l) = {}

\* From the moment a thread has a line until it lets go of it the line is not
\* freed, not given another key, and (once decoded) its picture is not changed
\* by anyone: eviction, vcache_clear() and other releases leave it alone.
ServedPinned ==
  [][\A t \in Threads :
       Busy(t) /\ Busy(t)' =>
         /\ ptr'[t] = ptr[t]
         /\ ptr[t] \in vcache \cap vcache'
         /\ key'[ptr[t]] = key[ptr[t]]
         /\ Serving(t) => data'[ptr[t]] = data[ptr[t]]]_vars

\* "we don't cache decode-errors": no line offered for hits holds the picture
\* of a failed decode, however lines are reused afterwards.
ErrorsNotCached ==
  \A l \in vcache : "VALID" \in flags[l] => data[l] \in Keys

\* A line offered for hits holds the frame its key names.
ValidMatchesKey ==
  \A l \in vcache : "VALID" \in flags[l] => data[l] = key[l]

\* What the threads see: the picture a thread serves, and whether the line it
\* has found was given to another frame before it could take it.
Given == [t \in Threads |-> IF Serving(t) THEN data[ptr[t]] ELSE None]
Misled ==
  [t \in Threads |->
     /\ pc[t] = "recheck" \/ Serving(t)
     /\ ptr[t] \in vcache /\ key[ptr[t]] # req[t]]

Service == INSTANCE CacheService
  WITH Users <- Threads, Pictures <- Keys, Nothing <- None, Withdraws <- FALSE,
       asked <- req, given <- Given, misled <- Misled

\* The cache implements CacheService: a request is given the frame it asked
\* for and keeps it, unless its line was replaced between the two locks of
\* fc_readcl(); nobody takes a picture from a request.
ServesAsAsked == Service!Spec

\* No thread follows a pointer to a freed line.
NoTouchFreed == Defined

\* Every request is answered: with a picture or, when the attempts are used
\* up, with 503.
Answered == \A t \in Threads : pc[t] # "idle" ~> pc[t] = "idle"
=============================================================================
