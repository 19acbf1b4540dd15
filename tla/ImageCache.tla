----------------------------- MODULE ImageCache -----------------------------
(***************************************************************************)
(* The cache of encoded images of libharvid/image_cache.c ("icache"), as   *)
(* hdl_decode_frame() uses it: a thread looks an image up, sends it and    *)
(* releases it on a hit, and adds the image it encoded on a miss.          *)
(*                                                                         *)
(* The code looks up, and even evicts, under the READ lock.  Every stretch *)
(* between two lock operations is an action; the eviction is split in two, *)
(* the choice of a line and its removal, because several threads may be in *)
(* that section at once.  An action that takes the write lock needs that   *)
(* nobody is in it.  lru time-stamps have a granularity of a second and    *)
(* are abstracted to "any line the scan considers"; the hit/miss           *)
(* statistics and icache_resize(), called before the server starts, are    *)
(* left out.                                                               *)
(***************************************************************************)
EXTENDS Integers, FiniteSets

CONSTANTS
  Senders,     \* connection threads
  Images,      \* addresses calloc() can return for an ImageCacheLine
  ImageKeys,   \* id, w, h, fmt, fmt_opt, frame
  ImageSize,   \* cfg_cachesize
  NoImage,     \* the NULL pointer, no key
  FreedImage   \* a pointer to memory that was freed

ASSUME ImagesAssumption ==
  /\ IsFiniteSet(Senders) /\ Senders # {}
  /\ IsFiniteSet(Images)
  /\ ImageSize \in Nat \ {0}
  /\ NoImage \notin Images \cup ImageKeys
  /\ FreedImage \notin Images \cup {NoImage}

VARIABLES
  icache,    \* the lines linked in the hash table
  imgKey,    \* imgKey[l]: the key of line l
  imgFlags,  \* imgFlags[l]: its CLF_ bits
  imgRef,    \* imgRef[l]: its refcnt
  at,        \* where each thread is
  want,      \* want[t]: the key of the image thread t is to send
  cl,        \* cl[t]: its local cl
  evicted    \* evicted[t]: the line was evicted since t found it (history)

table == <<icache, imgKey, imgFlags, imgRef>>
icacheVars == <<table, at, want, cl, evicted>>

ImageCacheInit ==
  /\ icache = {}
  /\ imgKey = [l \in Images |-> NoImage]
  /\ imgFlags = [l \in Images |-> {}]
  /\ imgRef = [l \in Images |-> 0]
  /\ at = [t \in Senders |-> "idle"]
  /\ want = [t \in Senders |-> NoImage]
  /\ cl = [t \in Senders |-> NoImage]
  /\ evicted = [t \in Senders |-> FALSE]

-----------------------------------------------------------------------------
\* Threads inside the read-locked section of icache_add_buffer().
Evicting == {t \in Senders : at[t] = "evict"}

\* pthread_rwlock_wrlock() is granted.
WriteLock == Evicting = {}

\* Lines being filled or about to be linked: not in the table, not free.
Private == {cl[t] : t \in {u \in Senders : at[u] \in {"fill", "link"}}}

\* Thread t goes on to s with the line (or pointer) l.
Continue(t, s, l) ==
  /\ at' = [at EXCEPT ![t] = s]
  /\ cl' = [cl EXCEPT ![t] = l]
  /\ UNCHANGED want

Finished(t) ==
  /\ at' = [at EXCEPT ![t] = "idle"]
  /\ cl' = [cl EXCEPT ![t] = NoImage]
  /\ want' = [want EXCEPT ![t] = NoImage]
  /\ evicted' = [evicted EXCEPT ![t] = FALSE]

\* icache_get_buffer(): HASH_FIND under the read lock.
LookupImage(t, k) ==
  LET found == {l \in icache : imgKey[l] = k}
  IN /\ at[t] = "idle"
     /\ want' = [want EXCEPT ![t] = k]
     /\ \/ /\ \E l \in found : cl' = [cl EXCEPT ![t] = l]
           /\ at' = [at EXCEPT ![t] = "recheck"]
        \/ /\ found = {}
           /\ at' = [at EXCEPT ![t] = "encode"]
           /\ UNCHANGED cl
     /\ UNCHANGED <<table, evicted>>

StillValid(l) == "VALID" \in imgFlags[l]

\* A mutant: a second request for a line does not count.
CountOnce(l) == 1

CountReference(l) == imgRef[l] + 1

\* icache_get_buffer(): only CLF_VALID is looked at again, not the key.
RecheckImage(t) ==
  /\ at[t] = "recheck"
  /\ cl[t] \in Images
  /\ WriteLock
  /\ \/ /\ StillValid(cl[t])
        /\ imgRef' = [imgRef EXCEPT ![cl[t]] = CountReference(cl[t])]
        /\ imgFlags' = [imgFlags EXCEPT ![cl[t]] = @ \cup {"INUSE"}]
        /\ Continue(t, "send", cl[t])
        /\ UNCHANGED evicted
     \/ /\ ~StillValid(cl[t])
        /\ Continue(t, "encode", NoImage)
        /\ evicted' = [evicted EXCEPT ![t] = FALSE]
        /\ UNCHANGED <<imgFlags, imgRef>>
  /\ UNCHANGED <<icache, imgKey>>

\* icache_release_buffer()
ReleaseImage(t) ==
  /\ at[t] = "send"
  /\ cl[t] \in Images
  /\ WriteLock
  /\ imgRef' = [imgRef EXCEPT ![cl[t]] = @ - 1]
  /\ imgFlags' = [imgFlags EXCEPT
                    ![cl[t]] = IF imgRef[cl[t]] > 1 THEN @ ELSE @ \ {"INUSE"}]
  /\ Finished(t)
  /\ UNCHANGED <<icache, imgKey>>

-----------------------------------------------------------------------------
(***************************************************************************)
(* icache_add_buffer()                                                     *)
(***************************************************************************)

\* A mutant: off by one in the size check.
TableFullLate == Cardinality(icache) > ImageSize

TableFull == Cardinality(icache) >= ImageSize

\* A mutant: the lru scan ignores CLF_INUSE.
AnyLine == icache

\* The lines the lru scan considers.
Unused == {l \in icache : "INUSE" \notin imgFlags[l]}

\* The read lock is taken and the least recently used line chosen.
ChooseVictim(t) ==
  /\ at[t] = "encode"
  /\ TableFull
  /\ \E l \in Unused : Continue(t, "evict", l)
  /\ UNCHANGED <<table, evicted>>

\* A mutant: the memset() is forgotten.
CleanNothing(S) == UNCHANGED <<imgKey, imgFlags, imgRef>>

\* memset() of the lines of S; freed lines are kept in this state, too.
Clean(S) ==
  /\ imgKey' = [l \in Images |-> IF l \in S THEN NoImage ELSE imgKey[l]]
  /\ imgFlags' = [l \in Images |-> IF l \in S THEN {} ELSE imgFlags[l]]
  /\ imgRef' = [l \in Images |-> IF l \in S THEN 0 ELSE imgRef[l]]

\* HASH_DEL, memset, and the read lock is released.
Evict(t) ==
  /\ at[t] = "evict"
  /\ cl[t] \in icache
  /\ icache' = icache \ {cl[t]}
  /\ Clean({cl[t]})
  /\ Continue(t, "fill", cl[t])
  /\ evicted' = [u \in Senders |-> evicted[u] \/ (u # t /\ cl[u] = cl[t])]

\* There is room, or every line is being sent (the loop ends with cl == NULL).
AllocateImage(t) ==
  /\ at[t] = "encode"
  /\ ~TableFull \/ Unused = {}
  /\ \E l \in Images \ (icache \cup Private) : Continue(t, "fill", l)
  /\ UNCHANGED <<table, evicted>>

\* The line is filled in without a lock.
FillImage(t) ==
  /\ at[t] = "fill"
  /\ imgKey' = [imgKey EXCEPT ![cl[t]] = want[t]]
  /\ imgFlags' = [imgFlags EXCEPT ![cl[t]] = {"VALID"}]
  /\ Continue(t, "link", cl[t])
  /\ UNCHANGED <<icache, imgRef, evicted>>

\* A mutant: nobody looks whether the image is there by now.
DuplicateIgnored(t) == FALSE

\* "added almost simultaneously by other thread"
Duplicate(t) == \E l \in icache : imgKey[l] = want[t]

\* Every other pointer to a line that was free()d dangles.
Dangle(t, freed) ==
  cl' = [u \in Senders |-> IF u = t THEN NoImage
                           ELSE IF cl[u] \in freed THEN FreedImage ELSE cl[u]]

\* HASH_ADD, or free() and -1 if the key is there by now.
LinkImage(t) ==
  /\ at[t] = "link"
  /\ WriteLock
  /\ \/ /\ Duplicate(t)
        /\ Clean({cl[t]})
        /\ Dangle(t, {cl[t]})
        /\ UNCHANGED icache
     \/ /\ ~Duplicate(t)
        /\ icache' = icache \cup {cl[t]}
        /\ Dangle(t, {})
        /\ UNCHANGED <<imgKey, imgFlags, imgRef>>
  /\ at' = [at EXCEPT ![t] = "idle"]
  /\ want' = [want EXCEPT ![t] = NoImage]
  /\ evicted' = [evicted EXCEPT ![t] = FALSE]

\* ic_flush_cache(): every line is freed, in use or not.
FlushImages ==
  /\ WriteLock
  /\ icache' = {}
  /\ Clean(icache)
  /\ cl' = [t \in Senders |-> IF cl[t] \in icache THEN FreedImage ELSE cl[t]]
  /\ UNCHANGED <<at, want, evicted>>

\* Freed memory is used, or two threads change the hash table at once: what
\* happens is undefined, and nothing is said of what follows.
UndefinedImage(t) ==
  /\ \/ cl[t] = FreedImage
     \/ at[t] = "evict" /\ (cl[t] \notin icache \/ Evicting # {t})
  /\ at' = [at EXCEPT ![t] = "undefined"]
  /\ UNCHANGED <<table, want, cl, evicted>>

-----------------------------------------------------------------------------
ImagesDefined == \A t \in Senders : at[t] # "undefined"

ImageCacheNext ==
  /\ ImagesDefined
  /\ \/ \E t \in Senders, k \in ImageKeys : LookupImage(t, k)
     \/ \E t \in Senders : RecheckImage(t)
     \/ \E t \in Senders : ReleaseImage(t)
     \/ \E t \in Senders : ChooseVictim(t)
     \/ \E t \in Senders : Evict(t)
     \/ \E t \in Senders : AllocateImage(t)
     \/ \E t \in Senders : FillImage(t)
     \/ \E t \in Senders : LinkImage(t)
     \/ \E t \in Senders : UndefinedImage(t)
     \/ FlushImages

ImageCacheSpec == ImageCacheInit /\ [][ImageCacheNext]_icacheVars

-----------------------------------------------------------------------------
SendersOf(l) == {t \in Senders : at[t] = "send" /\ cl[t] = l}

ImageTypeOK ==
  /\ icache \subseteq Images
  /\ imgKey \in [Images -> ImageKeys \cup {NoImage}]
  /\ imgFlags \in [Images -> SUBSET {"VALID", "INUSE"}]
  /\ imgRef \in [Images -> Nat]
  /\ at \in [Senders -> {"idle", "recheck", "send", "encode", "evict", "fill",
                         "link", "undefined"}]
  /\ want \in [Senders -> ImageKeys \cup {NoImage}]
  /\ cl \in [Senders -> Images \cup {NoImage, FreedImage}]
  /\ evicted \in [Senders -> BOOLEAN]

\* Although the size is checked under the read lock, long before the line is
\* linked, and a full table of images in use is exceeded on purpose, the cache
\* outgrows cfg_cachesize by at most one line per further thread.
ImageBound ==
  ImagesDefined =>
    Cardinality(icache \cup Private) <= ImageSize + Cardinality(Senders) - 1

\* refcnt counts the requests that send the image and CLF_INUSE says whether
\* there are any, for lines in the table and lines on their way in or out.
ImageRefcnt ==
  ImagesDefined =>
    \A l \in icache \cup Private :
      /\ imgRef[l] = Cardinality(SendersOf(l))
      /\ "INUSE" \in imgFlags[l] <=> SendersOf(l) # {}

\* While a thread sends an image its line is neither evicted nor given another
\* key nor freed by another thread that adds images, unless the line had been
\* evicted already when the thread took it; only a flush takes it away.
SentImageStays ==
  [][\A t \in Senders :
       (at[t] = "send" /\ at'[t] = "send" /\ ~evicted[t]) =>
         \/ cl'[t] = cl[t] /\ cl[t] \in icache' /\ imgKey'[cl[t]] = want[t]
         \/ icache' = {} /\ cl'[t] = FreedImage
         \/ cl'[t] = FreedImage /\ cl[t] = FreedImage]_icacheVars

\* A hit is the image that was asked for, and no two lines hold one image,
\* although several threads encode and add the same one.  icache_get_buffer()
\* does not compare the key again once it has the write lock, so this needs
\* that no other thread evicted the line in between.
HitIsRequested ==
  ImagesDefined =>
    /\ \A t \in Senders :
         at[t] = "send" /\ cl[t] \in Images /\ ~evicted[t] =>
           imgKey[cl[t]] = want[t]
    /\ \A l, m \in icache : imgKey[l] = imgKey[m] => l = m

\* What the threads see: the image that a thread sends, while it has it.
ImageGiven ==
  [t \in Senders |-> IF at[t] = "send" /\ cl[t] \in Images THEN imgKey[cl[t]] ELSE NoImage]

ImageService == INSTANCE CacheService
  WITH Users <- Senders, Pictures <- ImageKeys, Nothing <- NoImage, Withdraws <- TRUE,
       asked <- want, given <- ImageGiven, misled <- evicted

\* The cache implements CacheService: a request is given the image it asked
\* for and keeps it until it is done, unless its line was evicted between the
\* two locks of icache_get_buffer(), or the cache is flushed.
ImagesAsAsked == ImageService!Spec
=============================================================================
