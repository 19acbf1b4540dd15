---------------------------- MODULE DecoderCtrl -----------------------------
(***************************************************************************)
(* The decoder pool of libharvid/decoder_ctrl.c: a list of video objects   *)
(* (JVOBJECT) shared by all connection threads, the "busy" window that     *)
(* keeps a purge out while threads look for a decoder, and the purge.      *)
(*                                                                         *)
(* A client runs dctrl_decode() or dctrl_get_info*(), an admin runs        *)
(* dctrl_cache_clear(); one action per critical section or unlocked read.  *)
(* A file is named by its ID; the VidMap is the set of registered IDs.     *)
(* lru, frame proximity and list order are abstracted to "any eligible     *)
(* object", except that an lru of 0 is older than any limit (fresh).       *)
(***************************************************************************)
EXTENDS Integers, FiniteSets

CONSTANTS
  Clients,       \* threads that ask for decoders
  Admins,        \* threads that purge the caches
  Objects,       \* addresses of JVOBJECTs
  Root,          \* jvd->jvo, the head of the list: never freed
  Ids,           \* file IDs
  Fmts,          \* pixel formats
  DefaultFmt,    \* DEFAULT_PIX_FMT
  NoFmt,         \* AV_PIX_FMT_NONE
  Requests,      \* what clients ask for
  MaxObjects,    \* jvd->max_objects
  EagerObjects,  \* objects allocated before one is recycled (4 in the code)
  Timeout,       \* attempts to get an object (40 in the code)
  None           \* NULL, no owner, no ID, no file

Threads == Clients \cup Admins

\* dctrl_decode(), and dctrl_get_info() and dctrl_get_info_scale()
Decode == [op : {"decode"}, id : Ids, fmt : Fmts]
Info == [op : {"info"}, id : Ids, fmt : Fmts \cup {NoFmt}]

ASSUME ThreadsAssumption ==
  /\ IsFiniteSet(Clients) /\ IsFiniteSet(Admins)
  /\ Clients # {}
  /\ Clients \cap Admins = {}
ASSUME ObjectsAssumption ==
  /\ IsFiniteSet(Objects)
  /\ Root \in Objects
  /\ MaxObjects \in Nat \ {0}
  /\ EagerObjects \in Nat
  /\ Timeout \in Nat \ {0}
ASSUME NamesAssumption ==
  /\ DefaultFmt \in Fmts
  /\ NoFmt \notin Fmts
  /\ Requests \subseteq Decode \cup Info
  /\ None \notin Objects \cup Ids \cup Threads

VARIABLES
  jvo,        \* the linked objects
  flags,      \* flags[o]: the VOF_ bits that are set
  id, fmt,    \* id[o], fmt[o]
  fresh,      \* the objects whose lru is not 0
  refcnt,     \* refcnt[o]: infolock_refcnt
  file,       \* file[o]: the file o->decoder has open
  index,      \* index[o]: the key o is hashed under (jvi and jvf)
  lock,       \* lock[o]: the owner of o->lock between two actions
  vml,        \* the registered IDs
  lock_vml,   \* the writer of lock_vml between two actions
  lock_busy,  \* the owner of lock_busy between two actions
  busycnt,    \* jvd->busycnt
  purge,      \* jvd->purge_in_progress
  pc,         \* where each thread is
  req,        \* req[t]: what client t asks for
  ptr,        \* ptr[t]: its local "jvo"
  tries,      \* tries[t]: its local "timeout"
  room,       \* room[t]: cnt_total < max_objects in its getjvo()
  target      \* target[t]: the ID an admin's clearjvo() is limited to

object == <<jvo, flags, id, fmt, fresh, refcnt, file, index, lock>>
shared == <<vml, lock_vml, lock_busy, busycnt, purge>>
local == <<pc, req, ptr, tries, room, target>>
vars == <<object, shared, local>>

Flags == {"USED", "OPEN", "VALID", "PENDING", "INFO"}
InUse == {"USED", "PENDING", "INFO"}

Init ==
  /\ jvo = {Root}
  /\ flags = [o \in Objects |-> {}]
  /\ id = [o \in Objects |-> None]
  /\ fmt = [o \in Objects |-> NoFmt]
  /\ fresh = {}
  /\ refcnt = [o \in Objects |-> 0]
  /\ file = [o \in Objects |-> None]
  /\ index = [o \in Objects |-> None]
  /\ lock = [o \in Objects |-> None]
  /\ vml = {}
  /\ lock_vml = None
  /\ lock_busy = None
  /\ busycnt = 0
  /\ purge = 0
  /\ pc = [t \in Threads |-> "idle"]
  /\ req = [t \in Threads |-> None]
  /\ ptr = [t \in Threads |-> None]
  /\ tries = [t \in Threads |-> 0]
  /\ room = [t \in Threads |-> FALSE]
  /\ target = [t \in Threads |-> None]

Goto(t, l) == pc' = [pc EXCEPT ![t] = l]
Point(t, o) == ptr' = [ptr EXCEPT ![t] = o]

Unlocked(o) == lock[o] = None

-----------------------------------------------------------------------------
(***************************************************************************)
(* Entering and leaving the busy window.                                   *)
(***************************************************************************)

\* dctrl_get_id() registers the file, then the file's decoder is asked for.
Request(t, r) ==
  /\ pc[t] = "idle"
  /\ lock_vml = None
  /\ vml' = vml \cup {r.id}
  /\ req' = [req EXCEPT ![t] = r]
  /\ Goto(t, "enter")
  /\ UNCHANGED <<object, lock_vml, lock_busy, busycnt, purge, ptr, tries, room, target>>

\* BUSYADD polls purge_in_progress without a lock ...
Enter(t) ==
  /\ pc[t] = "enter"
  /\ purge = 0
  /\ Goto(t, "busyadd")
  /\ UNCHANGED <<object, shared, req, ptr, tries, room, target>>

\* A mutant: the counter is changed without lock_busy.
BusyLockIgnored == TRUE

BusyLockFree == lock_busy = None

\* ... and then counts itself under lock_busy.
BusyAdd(t) ==
  /\ pc[t] = "busyadd"
  /\ BusyLockFree
  /\ busycnt' = busycnt + 1
  /\ Goto(t, IF req[t].op = "info" THEN "lookup" ELSE "test")
  /\ tries' = [tries EXCEPT ![t] = Timeout]
  /\ UNCHANGED <<object, vml, lock_vml, lock_busy, purge, req, ptr, room, target>>

Reset(t) ==
  /\ req' = [req EXCEPT ![t] = None]
  /\ Point(t, None)

\* BUSYDEC, with a decoder ("leave") or without ("fail").
BusyDec(t) ==
  /\ pc[t] \in {"leave", "fail"}
  /\ lock_busy = None
  /\ busycnt' = busycnt - 1
  /\ tries' = [tries EXCEPT ![t] = 0]
  /\ \/ pc[t] = "leave" /\ Goto(t, "use") /\ UNCHANGED <<req, ptr>>
     \/ pc[t] = "fail" /\ Goto(t, "idle") /\ Reset(t)
  /\ UNCHANGED <<object, vml, lock_vml, lock_busy, purge, room, target>>

-----------------------------------------------------------------------------
(***************************************************************************)
(* Looking for an object: the index hash, testjvd().                       *)
(***************************************************************************)

\* HASH_FIND in jvi (by ID) or jvf (by ID and format): the stored key decides
\* about the bucket, the object's fields are compared.
Indexed(r) ==
  {o \in Objects :
     /\ index[o] # None
     /\ index[o].id = r.id
     /\ id[o] = r.id
     /\ r.fmt # NoFmt => index[o].fmt = r.fmt /\ fmt[o] = r.fmt}

Lookup(t) ==
  /\ pc[t] = "lookup"
  /\ \/ Indexed(req[t]) = {} /\ Goto(t, "test") /\ UNCHANGED ptr
     \/ \E o \in Indexed(req[t]) : Point(t, o) /\ Goto(t, "infolock")
  /\ UNCHANGED <<object, shared, req, tries, room, target>>

\* infolock_refcnt++, VOF_INFO
TakeInfo(t, f) ==
  /\ flags' = [flags EXCEPT ![ptr[t]] = f \cup {"INFO"}]
  /\ refcnt' = [refcnt EXCEPT ![ptr[t]] = @ + 1]
  /\ Goto(t, "leave")

\* "non-blocking info lookups"
InfoLock(t) ==
  /\ pc[t] = "infolock"
  /\ Unlocked(ptr[t])
  /\ IF flags[ptr[t]] \cap {"OPEN", "VALID", "PENDING"} = {"OPEN", "VALID"}
       THEN TakeInfo(t, flags[ptr[t]])
       ELSE Goto(t, "lock") /\ UNCHANGED <<flags, refcnt>>
  /\ UNCHANGED <<jvo, id, fmt, fresh, file, index, lock, shared, req, ptr,
                 tries, room, target>>

Idle(o) == flags[o] \cap InUse = {}

\* A mutant: the pixel format is not compared.
SameFormatAny(o, f) == TRUE

SameFormat(o, f) == f = NoFmt \/ fmt[o] \in {f, NoFmt}

Candidates(r) ==
  {o \in jvo : "VALID" \in flags[o] /\ id[o] = r.id /\ SameFormat(o, r.fmt) /\ Idle(o)}

\* Open decoders before closed ones.
Preferred(S) ==
  LET open == {o \in S : "OPEN" \in flags[o]} IN IF open # {} THEN open ELSE S

\* testjvd(): nothing is locked.
Test(t) ==
  /\ pc[t] = "test"
  /\ \/ /\ Candidates(req[t]) = {}
        /\ Goto(t, "gc")
        /\ UNCHANGED ptr
     \/ \E o \in Preferred(Candidates(req[t])) : Point(t, o) /\ Goto(t, "lock")
  /\ UNCHANGED <<object, shared, req, tries, room, target>>

-----------------------------------------------------------------------------
(***************************************************************************)
(* getjvo() and new_video_object(): an object for a new decoder.           *)
(***************************************************************************)

\* A mutant: the decoder is not closed.
ClearedStillOpen(S) ==
  /\ flags' = [o \in Objects |-> IF o \in S THEN flags[o] \ {"VALID"} ELSE flags[o]]
  /\ id' = [o \in Objects |-> IF o \in S THEN None ELSE id[o]]
  /\ fresh' = fresh \ S
  /\ index' = [o \in Objects |-> IF o \in S THEN None ELSE index[o]]
  /\ UNCHANGED <<fmt, file>>

\* The fields of cleared objects: closed, not indexed, no ID.  (The code keeps
\* fmt if no decoder was open; it is not read before the next Claim.)
Cleared(S) ==
  /\ flags' = [o \in Objects |-> IF o \in S THEN {} ELSE flags[o]]
  /\ id' = [o \in Objects |-> IF o \in S THEN None ELSE id[o]]
  /\ fmt' = [o \in Objects |-> IF o \in S THEN NoFmt ELSE fmt[o]]
  /\ fresh' = fresh \ S
  /\ file' = [o \in Objects |-> IF o \in S THEN None ELSE file[o]]
  /\ index' = [o \in Objects |-> IF o \in S THEN None ELSE index[o]]

\* clearjvo(f = 1, age = 600): objects never used since they were allocated or
\* recycled are older than that, others may be.
CollectGarbage(t) ==
  LET idle == {o \in jvo : Idle(o)} IN
  /\ pc[t] = "gc"
  /\ \E S \in SUBSET idle :
       /\ idle \ fresh \subseteq S
       /\ \A o \in S : Unlocked(o)
       /\ Cleared(S)
  /\ Goto(t, "scan")
  /\ UNCHANGED <<jvo, refcnt, lock, shared, req, ptr, tries, room, target>>

\* A mutant: off by one in the size check.
HasRoomOffByOne == Cardinality(jvo) <= MaxObjects

HasRoom == Cardinality(jvo) < MaxObjects

\* new_video_object() returns NULL: next attempt, or 503.
NoObject(t) ==
  /\ tries' = [tries EXCEPT ![t] = @ - 1]
  /\ Goto(t, IF tries[t] > 1 THEN "test" ELSE "fail")
  /\ Point(t, None)

ScanUnused(t) ==
  /\ pc[t] = "scan"
  /\ \E o \in jvo : flags[o] = {} /\ Point(t, o)
  /\ Goto(t, "trylock")
  /\ UNCHANGED <<object, shared, req, tries, room, target>>

\* No object is without flags: append one, recycle one, or give up.
ScanUsed(t) ==
  LET idle == {o \in jvo : Idle(o)} IN
  /\ pc[t] = "scan"
  /\ \A o \in jvo : flags[o] # {}
  /\ \/ /\ HasRoom /\ (Cardinality(jvo) < EagerObjects \/ idle = {})
        /\ Goto(t, "append")
        /\ UNCHANGED <<ptr, tries, room>>
     \/ /\ ~(HasRoom /\ Cardinality(jvo) < EagerObjects)
        /\ \E o \in idle : Point(t, o)
        /\ Goto(t, "recycle")
        /\ room' = [room EXCEPT ![t] = HasRoom]
        /\ UNCHANGED tries
     \/ ~HasRoom /\ idle = {} /\ NoObject(t) /\ UNCHANGED room
  /\ UNCHANGED <<object, shared, req, target>>

\* newjvo(): the count was taken before the list is locked.
Append(t) ==
  /\ pc[t] = "append"
  /\ \E o \in Objects \ jvo : jvo' = jvo \cup {o} /\ Point(t, o)
  /\ Goto(t, "trylock")
  /\ UNCHANGED <<flags, id, fmt, fresh, refcnt, file, index, lock, shared, req,
                 tries, room, target>>

\* trylock the object chosen for recycling, look again ...
Recycle(t) ==
  /\ pc[t] = "recycle"
  /\ \/ /\ Unlocked(ptr[t]) /\ Idle(ptr[t])
        /\ lock' = [lock EXCEPT ![ptr[t]] = t]
        /\ Goto(t, "recycling")
        /\ UNCHANGED <<ptr, tries>>
     \/ /\ ~(Unlocked(ptr[t]) /\ Idle(ptr[t]))
        /\ \/ room[t] /\ Goto(t, "append") /\ Point(t, None) /\ UNCHANGED tries
           \/ ~room[t] /\ NoObject(t)
        /\ UNCHANGED lock
  /\ room' = [room EXCEPT ![t] = FALSE]
  /\ UNCHANGED <<jvo, flags, id, fmt, fresh, refcnt, file, index, shared, req, target>>

Release(o) == lock' = [lock EXCEPT ![o] = None]

\* ... close its decoder, take it out of the index and clear it.
Recycled(t) ==
  /\ pc[t] = "recycling"
  /\ Cleared({ptr[t]})
  /\ Release(ptr[t])
  /\ Goto(t, "trylock")
  /\ UNCHANGED <<jvo, refcnt, shared, req, ptr, tries, room, target>>

\* new_video_object() trylocks the object.  Whether or not that succeeds and
\* whatever the flags are, "continue" ends the do-while loop: jvo is not NULL.
TryLock(t) ==
  /\ pc[t] = "trylock"
  /\ lock' = IF Unlocked(ptr[t]) /\ flags[ptr[t]] = {}
               THEN [lock EXCEPT ![ptr[t]] = t] ELSE lock
  /\ Goto(t, "claim")
  /\ UNCHANGED <<jvo, flags, id, fmt, fresh, refcnt, file, index, shared, req,
                 ptr, tries, room, target>>

Concrete(f) == IF f = NoFmt THEN DefaultFmt ELSE f

\* A mutant: every object is indexed, not only the first of its ID.
IndexAll(t) == [id |-> req[t].id, fmt |-> Concrete(req[t].fmt)]

\* The first object of an ID is linked in the index.
IndexKey(t) ==
  IF \E o \in Objects :
       /\ index[o] # None
       /\ index[o].id = req[t].id
       /\ id[o] = req[t].id \/ o = ptr[t]
    THEN index[ptr[t]]
    ELSE [id |-> req[t].id, fmt |-> Concrete(req[t].fmt)]

\* The object gets the ID; the mutex is unlocked even by a thread that does
\* not own it, and is free afterwards.
Claim(t) ==
  /\ pc[t] = "claim"
  /\ id' = [id EXCEPT ![ptr[t]] = req[t].id]
  /\ fmt' = [fmt EXCEPT ![ptr[t]] = Concrete(req[t].fmt)]
  /\ flags' = [flags EXCEPT ![ptr[t]] = @ \cup {"VALID"}]
  /\ index' = [index EXCEPT ![ptr[t]] = IndexKey(t)]
  /\ Release(ptr[t])
  /\ Goto(t, "lock")
  /\ UNCHANGED <<jvo, fresh, refcnt, file, shared, req, ptr, tries, room, target>>

-----------------------------------------------------------------------------
(***************************************************************************)
(* dctrl_get_decoder() with an object: open it, take it, or try again.     *)
(***************************************************************************)

\* What a request needs of the flags f to take the object.
Usable(t, f) ==
  IF req[t].op = "info"
    THEN {"OPEN", "VALID"} \subseteq f
    ELSE f \cap {"USED", "OPEN", "VALID"} = {"OPEN", "VALID"}

\* The object's flags are f and its lock is held: take it for info or for
\* decoding, or unlock it and try the same object again.
Take(t, f) ==
  \/ /\ Usable(t, f)
     /\ req[t].op = "info"
     /\ TakeInfo(t, f)
  \/ /\ Usable(t, f)
     /\ req[t].op = "decode"
     /\ flags' = [flags EXCEPT ![ptr[t]] = f \cup {"USED"}]
     /\ Goto(t, "leave")
     /\ UNCHANGED refcnt
  \/ /\ ~Usable(t, f)
     /\ flags' = [flags EXCEPT ![ptr[t]] = f]
     /\ Goto(t, "lock")
     /\ UNCHANGED refcnt

\* Another thread is opening a file with this object: look for another one.
LockPending(t) ==
  /\ pc[t] = "lock"
  /\ Unlocked(ptr[t])
  /\ "PENDING" \in flags[ptr[t]]
  /\ Point(t, None)
  /\ tries' = [tries EXCEPT ![t] = Timeout]
  /\ Goto(t, "test")
  /\ UNCHANGED <<object, shared, req, room, target>>

LockClosed(t) ==
  /\ pc[t] = "lock"
  /\ Unlocked(ptr[t])
  /\ flags[ptr[t]] = {"VALID"}
  /\ flags' = [flags EXCEPT ![ptr[t]] = @ \cup {"PENDING"}]
  /\ fresh' = fresh \cup {ptr[t]}
  /\ Goto(t, "open")
  /\ UNCHANGED <<jvo, id, fmt, refcnt, file, index, lock, shared, req, ptr,
                 tries, room, target>>

LockOther(t) ==
  /\ pc[t] = "lock"
  /\ Unlocked(ptr[t])
  /\ "PENDING" \notin flags[ptr[t]]
  /\ flags[ptr[t]] # {"VALID"}
  /\ Take(t, flags[ptr[t]])
  /\ UNCHANGED <<jvo, id, fmt, fresh, file, index, lock, shared, req, ptr,
                 tries, room, target>>

\* get_fn() of the object's current ID, under the read lock of the VidMap;
\* my_open_movie() fails without a file name.
GetFn(t) ==
  /\ pc[t] = "open"
  /\ lock_vml = None
  /\ file' = [file EXCEPT ![ptr[t]] = IF id[ptr[t]] \in vml THEN id[ptr[t]] ELSE None]
  /\ req' = [req EXCEPT ![t].fmt = Concrete(@)]
  /\ Goto(t, "opening")
  /\ UNCHANGED <<jvo, flags, id, fmt, fresh, refcnt, index, lock, shared, ptr,
                 tries, room, target>>

OpenOk(t) ==
  /\ pc[t] = "opening"
  /\ file[ptr[t]] # None
  /\ Unlocked(ptr[t])
  /\ fmt' = [fmt EXCEPT ![ptr[t]] = req[t].fmt]
  /\ Take(t, (flags[ptr[t]] \ {"PENDING"}) \cup {"OPEN"})
  /\ UNCHANGED <<jvo, id, fresh, file, index, lock, shared, req, ptr, tries, room, target>>

OpenFails(t) ==
  /\ pc[t] = "opening"
  /\ Unlocked(ptr[t])
  /\ file' = [file EXCEPT ![ptr[t]] = None]
  /\ flags' = [flags EXCEPT ![ptr[t]] = @ \ {"PENDING"}]
  /\ Goto(t, "release_id")
  /\ UNCHANGED <<jvo, id, fmt, fresh, refcnt, index, lock, shared, req, ptr,
                 tries, room, target>>

\* release_id(): "mark ID as invalid"; the request fails with 500.
ReleaseId(t) ==
  /\ pc[t] = "release_id"
  /\ lock_vml = None
  /\ vml' = vml \ {id[ptr[t]]}
  /\ Goto(t, "fail")
  /\ UNCHANGED <<object, lock_vml, lock_busy, busycnt, purge, req, ptr, tries,
                 room, target>>

\* dctrl_release_decoder() after decoding, dctrl_release_infolock() after
\* reading the file's properties.
Done(t) ==
  /\ pc[t] = "use"
  /\ Unlocked(ptr[t])
  /\ \/ /\ req[t].op = "decode"
        /\ flags' = [flags EXCEPT ![ptr[t]] = @ \ {"USED"}]
        /\ UNCHANGED refcnt
     \/ /\ req[t].op = "info"
        /\ refcnt' = [refcnt EXCEPT ![ptr[t]] = @ - 1]
        /\ flags' = [flags EXCEPT
                       ![ptr[t]] = IF refcnt[ptr[t]] <= 1 THEN @ \ {"INFO"} ELSE @]
  /\ Goto(t, "idle")
  /\ Reset(t)
  /\ UNCHANGED <<jvo, id, fmt, fresh, file, index, lock, shared, tries, room, target>>

-----------------------------------------------------------------------------
(***************************************************************************)
(* dctrl_cache_clear(): clearjvo(f = 2) of everything, then clearvid(),    *)
(* which holds lock_vml and calls clearjvo(f = 3) for each file.           *)
(***************************************************************************)

\* purge_in_progress++ under lock_busy
PurgeBegin(t) ==
  /\ lock_busy = None
  /\ purge' = purge + 1
  /\ Goto(t, "purgewait")
  /\ UNCHANGED <<object, vml, lock_vml, lock_busy, busycnt, req, ptr, tries, room, target>>

\* The admin request: clearjvo(f = 2)
PurgeCaches(t) == pc[t] = "idle" /\ PurgeBegin(t)

\* clearjvo(f = 3) of one file
PurgeFile(t) == pc[t] = "purge" /\ PurgeBegin(t)

\* while (busycnt > 0) sleep without lock_busy; the walk keeps it.
PurgeWait(t) ==
  /\ pc[t] = "purgewait"
  /\ lock_busy = None
  /\ busycnt = 0
  /\ lock_busy' = t
  /\ Goto(t, "walk")
  /\ UNCHANGED <<object, vml, lock_vml, busycnt, purge, req, ptr, tries, room, target>>

\* clearjvo(f = 2) skips objects in use, clearjvo(f = 3) waits for them.
Selected(t) ==
  IF target[t] = None
    THEN {o \in jvo : Idle(o)}
    ELSE {o \in jvo : id[o] = target[t]}

\* A mutant: objects in use are freed as well.
FreeableAll(t) == jvo

Freeable(t) == Selected(t)

\* A mutant: the head of the list is freed, too.
KeptWithoutHead(S) == jvo \ S

\* The head of the list stays.
Kept(S) == (jvo \ S) \cup {Root}

\* The walk over the list.
PurgeWalk(t) ==
  LET S == Freeable(t) IN
  /\ pc[t] = "walk"
  /\ \A o \in Selected(t) : Idle(o)
  /\ Cleared(S)
  /\ jvo' = Kept(S)
  /\ purge' = purge - 1
  /\ lock_busy' = None
  /\ Goto(t, IF target[t] = None THEN "clearvid" ELSE "nextvid")
  /\ UNCHANGED <<refcnt, lock, vml, lock_vml, busycnt, req, ptr, tries, room, target>>

ClearVid(t) ==
  /\ pc[t] = "clearvid"
  /\ lock_vml = None
  /\ lock_vml' = t
  /\ Goto(t, "nextvid")
  /\ UNCHANGED <<object, vml, lock_busy, busycnt, purge, req, ptr, tries, room, target>>

NextVid(t) ==
  /\ pc[t] = "nextvid"
  /\ \/ \E i \in vml :
          /\ vml' = vml \ {i}
          /\ target' = [target EXCEPT ![t] = i]
          /\ Goto(t, "purge")
          /\ UNCHANGED lock_vml
     \/ /\ vml = {}
        /\ lock_vml' = None
        /\ target' = [target EXCEPT ![t] = None]
        /\ Goto(t, "idle")
        /\ UNCHANGED vml
  /\ UNCHANGED <<object, lock_busy, busycnt, purge, req, ptr, tries, room>>

-----------------------------------------------------------------------------
Client(t) ==
  \/ Enter(t) \/ BusyAdd(t) \/ BusyDec(t)
  \/ Lookup(t) \/ InfoLock(t) \/ Test(t)
  \/ CollectGarbage(t) \/ ScanUnused(t) \/ ScanUsed(t) \/ Append(t)
  \/ Recycle(t) \/ Recycled(t) \/ TryLock(t) \/ Claim(t)
  \/ LockPending(t) \/ LockClosed(t) \/ LockOther(t)
  \/ GetFn(t) \/ OpenOk(t) \/ OpenFails(t) \/ ReleaseId(t)
  \/ Done(t)

Admin(t) ==
  \/ PurgeFile(t) \/ PurgeWait(t) \/ PurgeWalk(t) \/ ClearVid(t) \/ NextVid(t)

Next ==
  \/ \E t \in Clients : Client(t)
  \/ \E t \in Admins : Admin(t)
  \/ \E t \in Clients, r \in Requests : Request(t, r)
  \/ \E t \in Admins : PurgeCaches(t)

Spec == Init /\ [][Next]_vars

(***************************************************************************)
(* Threads keep running, locks that are free again and again are granted   *)
(* and files open or fail to open in finite time.                          *)
(***************************************************************************)
FairSpec ==
  /\ Spec
  /\ \A t \in Clients : WF_vars(Client(t)) /\ SF_vars(Enter(t)) /\ SF_vars(BusyAdd(t))
  /\ \A t \in Admins : SF_vars(Admin(t))
-----------------------------------------------------------------------------
\* The threads between BUSYADD and BUSYDEC.
Busy(t) == pc[t] \notin {"idle", "enter", "busyadd", "use"}
InfoHolders(o) ==
  {t \in Clients : pc[t] \in {"leave", "use"} /\ ptr[t] = o /\ req[t].op = "info"}
Decoders(o) ==
  {t \in Clients : pc[t] \in {"leave", "use"} /\ ptr[t] = o /\ req[t].op = "decode"}

TypeOK ==
  /\ jvo \subseteq Objects
  /\ Root \in jvo
  /\ flags \in [Objects -> SUBSET Flags]
  /\ id \in [Objects -> Ids \cup {None}]
  /\ fmt \in [Objects -> Fmts \cup {NoFmt}]
  /\ fresh \subseteq Objects
  /\ refcnt \in [Objects -> Nat]
  /\ file \in [Objects -> Ids \cup {None}]
  /\ index \in [Objects -> [id : Ids, fmt : Fmts] \cup {None}]
  /\ lock \in [Objects -> Clients \cup {None}]
  /\ vml \subseteq Ids
  /\ lock_vml \in Admins \cup {None}
  /\ lock_busy \in Admins \cup {None}
  /\ busycnt \in Nat
  /\ purge \in Nat
  /\ pc \in [Threads ->
               {"idle", "enter", "busyadd", "lookup", "infolock", "test", "gc",
                "scan", "append", "recycle", "recycling", "trylock",
                "claim", "lock", "open", "opening", "release_id", "leave",
                "fail", "use", "purge", "purgewait", "walk", "clearvid",
                "nextvid"}]
  /\ req \in [Threads -> Decode \cup Info \cup {None}]
  /\ ptr \in [Threads -> Objects \cup {None}]
  /\ tries \in [Threads -> 0 .. Timeout]
  /\ room \in [Threads -> BOOLEAN]
  /\ target \in [Threads -> Ids \cup {None}]

\* "prevent cache purge/cleanup while decoders are active": while a purge
\* walks over the list and frees objects, no thread is between BUSYADD and
\* BUSYDEC, although BUSYADD looks at purge_in_progress without the lock.
PurgeExclusive ==
  /\ busycnt = Cardinality({t \in Clients : Busy(t)})
  /\ \A a \in Admins : pc[a] = "walk" =>
       /\ \A t \in Clients : ~Busy(t)
       /\ \A b \in Admins : pc[b] = "walk" => b = a

\* Threads that find the list too short at the same time each append an
\* object: max_objects is exceeded by one object per other thread at most.
PoolBound == Cardinality(jvo) <= MaxObjects + Cardinality(Clients) - 1

\* A purge never frees an object a thread still points to, nor one that is
\* in the index.
NoDanglingObject ==
  /\ \A t \in Clients : ptr[t] \in jvo \cup {None}
  /\ \A o \in Objects : index[o] # None => o \in jvo

\* "decoder is a valid pointer for the file/ID": an open object has open the
\* file its ID names.
OpenMatchesId ==
  \A o \in jvo : "OPEN" \in flags[o] => file[o] = id[o]

\* The decoder a request ends up with has the requested file open, in the
\* requested format, and the request is accounted for in the object's flags:
\* USED by one decoding thread, INFO with a reference per info request.
DecoderForRequest ==
  /\ \A t \in Clients : pc[t] = "use" =>
       /\ {"OPEN", "VALID"} \subseteq flags[ptr[t]]
       /\ file[ptr[t]] = req[t].id
       /\ req[t].fmt # NoFmt => fmt[ptr[t]] = req[t].fmt
  /\ \A o \in jvo :
       /\ "USED" \in flags[o] <=> Decoders(o) # {}
       /\ \A t, u \in Decoders(o) : t = u
       /\ refcnt[o] = Cardinality(InfoHolders(o))
       /\ "INFO" \in flags[o] <=> refcnt[o] > 0

\* The index has one object per file, and it carries the ID it is found by.
IndexSound ==
  \A o, p \in Objects : index[o] # None /\ index[p] # None =>
    /\ index[o].id = id[o]
    /\ index[o].id = index[p].id => o = p

\* dctrl_cache_clear(), the admin command purge_cache, ends.
PurgeCompletes == \A t \in Admins : pc[t] # "idle" ~> pc[t] = "idle"
=============================================================================
