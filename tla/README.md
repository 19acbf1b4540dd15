# A TLA+ model of harvid

harvid is an HTTP server that decodes video files and serves single frames as
images. This directory holds TLA+ modules that model its concurrent core, TLC
configurations that check them on small instances, and TLAPS proofs that hold
for every instance. `PROJECT.json` lists the runs, the mutants that each
property must detect, the source lines behind every definition, the findings
and the hazards.

    tlc -workers 2 -config FrameCache_full.cfg MCFrameCache
    tlapm FrameCacheProofs.tla

## The system

One process, one thread per TCP connection, one request per connection.

| part | source | state | operations |
|---|---|---|---|
| TCP daemon | `src/socket_server.c` | `ICI *d`: run, num_clients, max_clients, lock, age; per connection `CONN`: run, timeout_cnt | main loop, accept, start_child, connection thread, signal, shutdown |
| HTTP protocol | `src/httprotocol.c` | the connection's buffer | read and parse one request, send replies, `http_tx` with partial writes |
| ICS query handler | `src/ics_handler.c` | none | path check, query parameters, dispatch, admin commands (flush_cache, purge_cache, shutdown) |
| request handler | `src/harvid.c` | the global handles `vc`, `ic`, `dc` | hdl_decode_frame, hdl_server_info, cache clearing, start-up and exit |
| file ID map | `libharvid/decoder_ctrl.c` (VidMap) | file name <-> 16 bit ID, lru, monotonic counter | get_id, get_fn, release_id, clearvid |
| decoder pool | `libharvid/decoder_ctrl.c` | list of JVOBJECTs with flags, ID, format, decoder; index hash; busycnt, purge_in_progress; five locks | dctrl_decode, dctrl_get_info, dctrl_get_info_scale, dctrl_cache_clear |
| frame cache | `libharvid/frame_cache.c` | hash of cache-lines with key, flags, refcnt, buffer; one rwlock | get_buffer, invalidate, release, clear, resize |
| image cache | `libharvid/image_cache.c` | hash of encoded images with key, flags, refcnt; one rwlock | get, add, release, clear |
| ffmpeg wrapper | `libharvid/ffdecoder.c` | one decoder's file, buffer, position | open, seek, render, close |
| timecode | `libharvid/timecode.c` | none | frame numbers to SMPTE labels |
| file index | `src/fileindex.c` | the listing of one request | recursive directory walk, sent in parts |
| image encoder, HTML pages, log, utilities | `src/*.c` | none | pure functions and system calls |

A request enters through the connection thread, which calls the protocol
handler, the ICS handler and then `hdl_decode_frame`. That function asks the
file ID map for the file's ID, the decoder pool for the picture size, the image
cache for an encoded image and, on a miss, the frame cache for a raw frame. The
frame cache calls the decoder pool to decode. Afterwards the encoded image is
added to the image cache, and the raw frame is marked for release (unless
KEEPRAW is set). The caches and the pool are shared by all threads; nothing is
persistent, so there is no crash recovery to model.

What is hard here:

* a thread keeps a pointer across an unlock and uses it later (frame cache,
  image cache, `get_fn`, `testjvd`);
* counters are read without the lock that guards them (`num_clients`,
  `purge_in_progress`, the length of the decoder list);
* a decode fails halfway, and the half-initialised line or object stays;
* the admin commands purge caches in a running server;
* the daemon shuts down while connection threads are still active;
* a reply is written in pieces to a client that may stop reading, while the
  thread pins a line of a cache;
* a decoder keeps its demuxer position, its codec and the last time-stamp from
  one request to the next, so what a request gets depends on all before it;
* drop-frame time code and time-stamps are integer divisions with special cases
  at minutes, ten minutes and the last frame.

What makes each part correct:

* frame cache: a hit returns the frame that was asked for, a line in use is
  neither freed nor overwritten, reference counts are exact, the size is
  bounded, every request is answered;
* decoder pool: the decoder handed out has the requested file open in the
  requested format, one thread at a time decodes with it, purges exclude
  threads that look for decoders, the pool is bounded;
* file ID map: one ID per file, one file per ID, IDs of cached frames are not
  reused;
* image cache: one line per key, a hit is the image that was asked for, a line
  in use is not freed, counts are exact, the size is bounded;
* request handler: one status line per request, which tells the truth about
  what follows; whatever a request takes from a cache it gives back on every
  path; every request ends;
* decoder: the frame that was asked for or black, and only where time-stamps are
  rounded perhaps the next one; frames that exist are found; a search ends;
* file index: every wanted file is listed once, none twice;
* time codes: no label that does not exist, and none far from its frame;
* daemon: the count of clients is exact, the limit holds, connections end,
  a shutdown completes, nothing is freed that a thread still uses.

## Modules

| module | models | checked with | proved in |
|---|---|---|---|
| `CacheService` | what a cache promises to a request (abstract) | through `FrameCache`, `ImageCache` | `FrameCacheProofs`, `ImageCacheProofs` |
| `FrameCache` | frame cache, any number of request threads; implements `CacheService` | `MCFrameCache` | `FrameCacheProofs` |
| `DecoderCtrl` | decoder pool, busy window, purge | `MCDecoderCtrl` | `DecoderCtrlProofs` |
| `SocketServer` | daemon, connection threads, shutdown | `MCSocketServer` | `SocketServerProofs` |
| `VidMap` | file names and IDs | `MCHarvid` | `RequestHandlerProofs` |
| `RequestHandler` | protocol, query handler and callbacks; extends `VidMap` | `MCHarvid` | `RequestHandlerProofs` |
| `ImageCache` | cache of encoded images; implements `CacheService` | `MCHarvid` | `ImageCacheProofs` |
| `FrameServer` | what a decoder promises (abstract) | through `FFDecoder` | `FFDecoderProofs` |
| `FFDecoder` | one ffmpeg decoder, implements `FrameServer` | `MCHarvid`, `MCFFDecoder` | `FFDecoderProofs` |
| `FileIndex` | directory listing | `MCHarvid` | `FileIndexProofs` |
| `Timecode` | SMPTE labels | `MCHarvid` | `TimecodeProofs` |

In all of them an action is one critical section, or one unlocked access that
another thread can interleave with. Locks that are held across several actions
are variables (`lock`, `lock_busy`, `lock_vml`); a lock that is taken and
released within one action is not. Operators marked "A mutant" are deliberately
wrong variants of the definition that follows them; nothing refers to them in
the specification.

### CacheService

A request asks for a picture (`Ask`), goes on looking (`Work`), is given one
(`Give`) and returns it (`Return`); an administrator may clear the cache
(`Clear`). There are no lines, keys, flags, counts or locks. The one thing that
shows through is `misled`: both caches find a line under one lock and take it
under another without looking at the key again, so a request whose line was
recycled in between may be given another picture. Only a request that looks for
a line itself (`Work`) can mislead another one, and only one that is still
looking; no step misleads the request that takes it. `Withdraws` says whether
clearing takes pictures from requests: the flush of the image cache does, that
of the frame cache does not.

`FrameCache` and `ImageCache` instantiate it (`Service`, `ImageService`) with
`given` mapped to what the line in a thread's hands holds (`Given`,
`ImageGiven`) and `misled` to whether that line's key is another one (`Misled`)
or was evicted (`evicted`). `ServesAsAsked == Service!Spec` and
`ImagesAsAsked == ImageService!Spec` are checked as properties.

### FrameCache

`vcache` is the set of linked lines; `key`, `flags`, `refcnt` and `data` are the
fields of a line, `pc`, `req`, `ptr` and `timeout` the locals of a thread in
`vcache_get_buffer` .. `vcache_release_buffer`.

| action | code |
|---|---|
| `Request` | the call, which reads the hash head before the lock is taken |
| `Find`, `Recheck` | `testclwh` under the read lock, then the re-check under the write lock |
| `GetclUnflagged`, `GetclEvict`, `GetclNew`, `GetclRetry` | the four outcomes of `getcl` and the retry loop around it |
| `DecodeOk`, `DecodeError`, `DecodeRefused` | the three results of `dctrl_decode` |
| `Invalidate`, `Release` | the end of `hdl_decode_frame` |
| `Clear` | `vcache_clear` for one ID or for all |
| `TouchFreed` | a thread follows a pointer to a freed line; the model stops there because what follows is undefined |

`lru` has a granularity of one second, so eviction takes any eligible line. The
hash head is any linked line. Statistics are left out. `vcache_resize` and
`vcache_destroy` run only at start-up and exit and are not modelled.

### DecoderCtrl

Clients run `dctrl_decode` or `dctrl_get_info*`, admins run
`dctrl_cache_clear`. `jvo` is the set of linked objects; `index` stands for the
two hashes `jvi` and `jvf`, which are always changed together. A file is
identified with its ID, and `vml` is the set of registered IDs.

| action | code |
|---|---|
| `Enter`, `BusyAdd`, `BusyDec` | the macros BUSYADD and BUSYDEC |
| `Lookup`, `InfoLock` | the index lookup of info requests |
| `Test` | `testjvd`, without locks |
| `CollectGarbage`, `ScanUnused`, `ScanUsed`, `Append`, `Recycle`, `Recycled` | `getjvo`, `newjvo` |
| `TryLock`, `Claim` | `new_video_object`, including what its `continue` really does |
| `LockPending`, `LockClosed`, `LockOther`, `GetFn`, `OpenOk`, `OpenFails`, `ReleaseId` | the loop of `dctrl_get_decoder` |
| `Done` | `dctrl_release_decoder`, `dctrl_release_infolock` |
| `PurgeCaches`, `PurgeFile`, `PurgeWait`, `PurgeWalk` | `clearjvo` with f = 2 and f = 3 |
| `ClearVid`, `NextVid` | `clearvid` |

Abstractions: `lru`, frame proximity and list order become "any eligible
object", except that an object whose lru is 0 (allocated or recycled, never
opened) is always old enough for the garbage collection (`fresh`). The scans of
the list without locks are one action each. `jvo->flags |= VOF_VALID` without
the lock in `Claim` is atomic in the model, although in C it is a data race that
may lose another thread's update; no property that is claimed for several
clients depends on flags. A mutex unlocked by a thread that does not own it is
free afterwards. The walk of a purge is one action: no thread can start to use
an object during it, and releases commute with it. `clearjvo` keeps an object's
`fmt` if no decoder was open; the model clears it, since nobody reads it before
the next claim.

### SocketServer

`main` is the main thread, `handler[c]` the thread of connection `c`. Seconds
are steps. What a request does is reduced to how it ends (`RequestDone`,
`RequestShutdown`, `RequestAgain`, `RequestBreak`). Taking and releasing the
lock at the end of a connection are two actions (`HandlerUncount`,
`HandlerUnlock`), because the shutdown reads `num_clients` without the lock.

### VidMap

`vml` is the set of entries, each a record of `fn` and `id`; the code keeps two
hashes of the same entries. `AddEntry` is the half of `get_id()` under the write
lock, with its second look, the eviction of one entry when the map is full, and
the counter, which skips 0 when it wraps. `ReleaseId` and `ClearVid` are the
functions of these names. `given` and `reused` are history: IDs are unique until
the counter has come round, and what depends on that says so.

### RequestHandler

One action per call into a cache, the map or the pool, so that any number of
connection threads (`Workers`) interleave between the calls.

| action | code |
|---|---|
| `Read`, `Refuse` | `protocol_handler`: the head, its missing parts, the Accept header |
| `ServePage`, `ServeIndex`, `Shutdown`, `ClearRaw`, `ClearImages`, `ClearIds` | `ics_http_handler`: routes, permissions, admin commands (a purge clears three tables one after the other) |
| `ParseQuery` | `parse_http_query`, with the pages that answer twice when told to |
| `FindId`, `RegisterFile` | `dctrl_get_id`: read lock, then write lock |
| `InfoFails`, `ServeInfo`, `GotInfo` | `dctrl_get_info*` for `/info`, `/seek` and pictures |
| `FindImage`, `FindRaw`, `DecodeRaw`, `DecodeFails`, `NoRaw`, `Encode` | `hdl_decode_frame` up to the encoded image |
| `SendHead`, `CallWrite`, `WriteReturns`, `WriteFails`, `SelectFails`, `NotReady`, `TimedOut` | `http_tx`: `select()`, short writes, the patience that restarts with progress |
| `AddImage`, `Release`, `Close` | the end of `hdl_decode_frame` and of the connection |

The two caches are abstract here: maps from keys to pictures with pins, bounded,
that lose unpinned lines at any time their own code may evict. `FrameCache` and
`ImageCache` show what the real ones add. `named` (the file an ID was last given
to) and `failed` are history.

### ImageCache

Lookup and eviction run under the read lock, so `ChooseVictim` and `Evict` are
two actions that two threads may both be between. `WriteLock` is free when
nobody is there. After a flush has freed a line that is being sent, or two
threads have unlinked the same line, the thread is `"undefined"`; properties
speak of the states before that, and `ImagesDefined` names them.

### FFDecoder and FrameServer

A movie is a record: the rates the demuxer reports, the time base, the packets
in decoding order, key-frames, the codec's delay and what fails. The demuxer is
a position, the codec the set of frames it holds back. One iteration of the loop
in `my_seek_frame` is one action (`SkipPacket`, `FeedOnly`, `FrameEarly`,
`FrameFound`, `FrameLateFirst`, `FrameLate`, `SearchError`, `GiveUp`). Seeking
lands on the last key-frame whose decoding time-stamp is not after the target; in
an open group of pictures that may be a frame shown after the one asked for.
Memory is left out, and a movie that does not open leaves nothing to model:
`DecoderCtrl` has what happens to the object then.

`FrameServer` forgets everything but movie, question and answer. Its constant
`Exact` names the movies for which an answer is the frame asked for or black; the
others may be answered with the next frame, and nothing else. `Promise` instantiates
it with the movies whose frames last a whole number of ticks (`ExactTimes`) or that
have every frame in the order shown, with rounded time-stamps (`Gapless`).
`FrameAccurate == Promise!Spec` is checked as a property. `AnswersExactly` is what
the README of harvid says of every movie; run `late` violates it.

### FileIndex, Timecode

`FileIndex` is the recursion of `parse_dir` with an explicit stack (`calls`), one
directory entry per step in any order, and the buffer that is sent whenever a
sub-directory is done. What a listing should name (`Wanted`) is defined apart from
that recursion, as the entries of the least set of directories that is closed
under descending (`Descended`). `Timecode` converts one frame number at a time.
Drop-frame conversion goes through doubles in the code, which may come out one
frame low; the model allows both results (`Floored`).

### MCHarvid

One instance of the five components above. They share no variables but those
`RequestHandler` takes from `VidMap`; `part` picks the component that a behaviour
exercises. What crosses their borders is written into the modules: the handler's
abstract caches, the decoder's abstract promise, the index as one of the
handler's replies.

## Runs

| run | instance | shows |
|---|---|---|
| `framecache_full` | 3 threads, 2 lines of 3 addresses, 2 keys, failing decodes, invalidation, clearing | `CacheBound`, `RefcntExact`, `ErrorsNotCached`, `ServedPinned` |
| `framecache_keepraw` | 3 threads, 2 lines, 2 keys, KEEPRAW, no failures | `ValidMatchesKey`, `NoTouchFreed`, every request is `Answered`, and `ServesAsAsked`: the cache implements `CacheService` |
| `framecache_reuse` | 1 thread, failing decodes | violates `ValidMatchesKey` |
| `framecache_freed` | 2 threads, default configuration | violates `NoTouchFreed` |
| `decoder_pool` | 2 clients, 1 admin, limit 2 | `PurgeExclusive`, `PoolBound` |
| `decoder_single` | 1 client, 2 admins, limit 3, 2 files, 2 formats | `NoDanglingObject`, `OpenMatchesId`, `DecoderForRequest`, `IndexSound` |
| `decoder_wrongfile` | 2 clients | violates `OpenMatchesId` |
| `decoder_purge` | 1 client, 1 admin | violates `PurgeCompletes` |
| `server` | 3 clients for 2 places | `ClientsCounted`, `ConnectionLimit`, `ShutdownCompletes`, `ConnectionEnds` |
| `server_shutdown` | 1 client | violates `DaemonOutlivesHandlers` |
| `requests` | `MCHarvid`: 2 request threads, 6 files, 3 IDs, 2 entries; 2 image threads; 10 movies; a tree of 9 entries; 54 durations | `VidMapSound`, `OneReply`, `PinsReleased`, `ReplyTruthful`, `RequestEnds`; `ImageBound`, `ImageRefcnt`, `HitIsRequested`, `SentImageStays`, `ImagesAsAsked`; `FrameAccurate`, `SeekSucceeds`, `SearchEnds`; `IndexComplete`; `LabelSound` |
| `late` | reordered frames with time-stamps rounded to milliseconds | violates `AnswersExactly` |

Bounds. Three threads on two lines reach every combination of a line that is
decoded, shared by two requests, invalidated and evicted, with a third thread
that waits; `framecache_full` has a third address, so that a list longer than
`CacheSize` could be built. `Timeout` (250 and 40 attempts in the code) only counts attempts;
2 is enough to see a retry and the final failure. `MaxObjects = 2` with two
clients and four addresses reaches a list that is too long by one (three
objects); a fourth object would be a violation, and it has an address.
`EagerObjects` is 4 in the code; with 2 the single-client run both appends and
recycles. Two connections allowed and three clients reach the limit from both
sides; `ShutdownTries = 2` makes the shutdown give up within reach of TLC, and
31, the value in the code, is used where a counterexample must not depend on it.

In `requests` the numbers of the code are scaled down. The ID counter wraps at 3
instead of 65535 with a map of 2. The part of `MCHarvid` that runs `VidMap` alone
(`"ids"`) goes on until IDs are used again; in the requests the threads read too
little for that (`MCMaxReads`: one server configuration is given more than the
others, to keep those small), so that `ReplyTruthful`, which ends at reuse, is
judged on all their states. A body is written in 2 pieces and a client may be slow for
`WriteTimeout` = 1 turn (50 in the code): progress restores the patience, lack of it
ends the request. One line in either cache makes every request compete for it. Two
image threads on three addresses, two keys and size 1 reach the double eviction and
the list that is too long by one. The tree has an unreadable directory with readable
siblings, two levels, a hidden and a vanished file. Durations surround the first
minute, the tenth, an hour and a day.

Movies have 5 to 7 frames with a key-frame every third or fifth. `SeekWindow` 4 (32
in the code), `Reseek` 3 (25) and `Bailout` 12 (600) are in the order of the code's
numbers, and far enough apart for a request to read on, seek or seek again; `Bailout`
is reached at the end of a file. Every kind of movie is there with exact time-stamps
and, in milliseconds at 24 frames per second, with rounded ones (`Millis`, `Late`,
`Lost`) and truncated ones (`Cut`, `CutGop`): in order, reordered and delayed behind
an open group of pictures, and with a frame missing.

Symmetry is used for threads, addresses and files in runs without liveness.

Deadlock is not checked where the system may stop: the daemon ends; the frame
cache model stops at undefined behaviour; purge and client can block each other.

Fairness. `FrameCache`: each thread keeps running (locks are held briefly, the
decoder returns, sleeps end). `SocketServer`: weak fairness for the main thread
and each connection thread; strong fairness for getting the mutex and for a
request ending; no fairness for clients that connect or for signals.
`DecoderCtrl`: weak fairness for clients, strong fairness for getting past the
purge and for `lock_busy`; the counterexample holds under all of it.
`RequestHandler`: weak fairness for what a thread does by itself, except where it
waits for something the code does not promise. It is not assumed that a client
becomes ready or a connection breaks. It is not assumed that a write() of `http_tx`
returns: the accepted socket stays blocking (`setnonblock` is commented out at
`socket_server.c:319`) and has no send timeout, so `WRITE_TIMEOUT` only bounds the
waits in `select()`. Nor is it assumed that a purge gets through `clearvid`, or that
another thread gets past the lock it holds meanwhile (`Waits`): run `decoder_purge`
shows it hang. `RequestEnds` says that a thread comes back for the next request unless
it stays in one of these two places. A page or an error is a few hundred bytes, and is
sent in the step that decides on it.
`FFDecoder`: a thread in the search loop goes on (`FFFairness`); which of its actions
is taken is up to the movie.

## Findings

1. `frame_cache.c:76`: after a decode error the line stays without flags; when
   the cache is full `getcl` returns it before the key is set, and the next
   frame is cached under the wrong key. One thread suffices.
2. `frame_cache.c:199`: the line found under the read lock can be freed by
   another request before it is re-checked under the write lock. It can also be
   recycled for another frame and be valid again: the key is not compared a second
   time, and the request is given that frame. `CacheService` calls it misled.
3. `decoder_ctrl.c:556` and `:560`: `continue` in `do { } while (!jvo)` leaves
   the loop, so two threads claim the same object: the second file is served
   from the first file's decoder.
4. `decoder_ctrl.c:447`: `clearvid` waits for busy threads with `lock_vml` held,
   and busy threads need `lock_vml`: a purge in a running server can hang.
5. `socket_server.c:417`: the shutdown sees `num_clients = 0` without the lock
   and frees the daemon under the thread that still has to unlock its mutex.
6. `ffdecoder.c:678`: a frame that is less than `tpf` late is accepted, but where
   frames do not last a whole number of ticks `tpf` may be larger than their
   distance. At 24 frames and 1000 ticks per second, frame 5 of an open group of
   pictures is 41 ticks after frame 4 and `tpf` is 42: a fresh decoder asked for
   frame 4 lands on 5, cannot decode what is before it, and answers with 5. With
   truncated time-stamps there is another way (`:605`, `:676`, `:679`): a time-stamp
   that is one tick early is accepted and remembered, differs from the one asked for
   when the same frame is asked for again, and the decoder reads on to the next
   frame (`Movies <- {Cut}`), or, at the last one, answers black. It is never more
   than one frame off, and not at all if the time-stamps are exact or rounded with
   all frames in order (`DecoderIsFrameAccurate`).

Differences between code and comments that were met on the way and have no run of
their own:

* `ics_handler.c`: the 400 replies of `/seek` and `/info` for a missing file are
  not reachable, since such a query has been answered with 404 before; a query
  with only a frame number is a 404, too.
* `ics_handler.c:349-382`: an index request that is refused leaks `dp`.
* `decoder_ctrl.c:78` says the wrap-around of IDs is handled; `get_id` invalidates
  nothing in the image cache (`ReplyTruthful` ends where an ID is used again).
* `harvid.c:819`: the black picture of a failed decode is encoded and cached as an
  image, and is a hit from then on (`ReplyTruthful` allows black after a failure).
* `harvid.c:247`: `-F '!seek'` switches WEBSEEK on.
* `httprotocol.c:309`: a blank after a comma in an Accept header leads to 415.
* `fileindex.c:83-86`: the link to the info page of a file lacks a separator.
* `ffdecoder.c:496`, `:506`: a movie without a decoder, or whose decoder does not open,
  leaks the codec context.
* `ffdecoder.c`: the codec is drained at the end of the file only if the video is
  the first stream, so that the last frames of others are never returned
  (`Obtainable` excludes them).

## Proofs

Assumptions on the constants are named `ASSUME`s in the modules (finite sets,
positive limits, distinct names); TLC evaluates them on every run.

`FrameCacheProofs`. The inductive invariant joins `TypeOK` with a description
of each thread's locals (a thread that decodes or serves points to a linked
line, a thread that waits has attempts left) and with `RefcntExact`; the size
bound needs nothing else. `RefcntExact` is not inductive alone: that a release
finds a positive count, and that a recycled line has no holder, follow from the
thread locals. From it: `TypeCorrect`, `ReferenceCounts`, `Bounded`,
`NoErrorCached`, and the action property `Pinned`. Two theorems carry the
premise under which they are true: `DataMatches` (no decode fails) and
`NoDangling` (KEEPRAW and no clearing).

`FrameCacheServes` is the refinement of `CacheService`, under the premise of
`DataMatches` but with clearing and with or without KEEPRAW. `ServiceInv` adds to the
invariants above that idle threads have no request. Then a thread that serves has a
line of the table whose data are those of its key (`SeekersAndServers`), which no
step of another thread changes (`HeldLineStays`), and every action is mapped to one of
the service: a lookup, an eviction and a failed re-check to `Work`, a hit and a
decode to `Give`, a release and a time-out to `Return`.

`DecoderCtrlProofs`. `XInv`: the admin that walks owns `lock_busy`, and while it
is owned `busycnt`, which is the number of clients in the window, is 0. This is
what makes the unlocked test in BUSYADD harmless: `PurgeIsExclusive`. `QInv`:
linked objects plus the clients that already decided to append stay below
`MaxObjects + |Clients|`, which is inductive where `PoolBound` is not:
`PoolIsBounded`. `TypeInv` (`DecoderTypeCorrect`): that `refcnt` and `purge` stay
natural numbers needs that they are exact - a reference per info request that
holds the object, a count per purge under way - and that needs what a thread's
locals are at each place, which is also what makes `tries - 1` safe. `SingleInv`, under
the premise `OneClient`: the flags of an object say who holds it and for what, an
object marked open has its ID's file open, and the object on its way to the client
is for what it asked for. A purge spares it, for outside the window it is either not
the client's or marked USED or INFO. From it, for any number of purges, objects and
files, the four properties of `decoder_single`: `NothingDangles`, `OpenObjectsMatch`,
`DecoderIsForRequest`, `IndexIsSound`. Finding 3 is why the premise is there.

`SocketServerProofs`. `ClientsCounted` is inductive with the types. The limit
also needs that there is still room between the unlocked test and the
increment (`RoomKept`), which holds because only the main thread increments:
`ClientsExact`, `LimitKept`.

`RequestHandlerProofs`. `VidMapInv` adds to `VidMapSound` that every ID in the map is on
record as given: a new one that was never given differs from all of them.
Every step of the handler is a step of `VidMapSpec` or
leaves its variables alone (`HandlerImplementsVidMap`), so `VidMapSound` carries
over. `HandlerInv` joins `VidMapInv` with what each place of a request implies
(`JobInv`: at most one status line, only where it may be sent) and with the exact
pins (`PinInv`): `HandlerRepliesOnce`, `HandlerReleasesPins`. `TruthInv` says what
the ID, the picture and the cache lines of a request stand for, by the history of
the IDs; it holds while no ID has been used again, since each step may only add
to that history: `HandlerIsTruthful`. The theorem takes the caches to hold what
their keys say. `framecache_reuse` shows that a full frame cache breaks this
after a failed decode, `DataMatches` that it cannot happen while decoding succeeds.

`FFDecoderProofs`. `FFInv`: `avprev` is -1 or the time-stamp of the frame that
`pFrame` holds, and the codec holds only frames of the movie; for a movie whose frames
are all in order the search has not passed the frame asked for, either (`OnTrack`).
`DecoderIsFrameAccurate` takes a time base with at least one tick per frame, so that
time-stamps of frames, rounded or truncated, are in their order (`TimesAreOrdered`).
`WithinOneFrame` is the arithmetic: a time-stamp that is accepted, one tick early or
less than `tpf` late, belongs to the frame asked for or the next one. With exact
time-stamps it names the frame (`FoundIsAsked`, `SameFrameIsAsked`); with rounded ones
and all frames in order the frame asked for comes first (`OnTrackStep`). Every step
then maps to a step or a stutter of `FrameServer`. Run `late` is why the others are
excepted.

`SeekingSucceeds` is about movies that are `InOrder`: every frame from 0 in the order
shown, time-stamps exact or rounded, nothing held back by the codec, a key-frame less
than `Bailout` frames before each frame; `Plain` and `Millis` in `MCFFDecoder` are such
movies. It takes `2 * SeekWindow < Bailout` (32 and 600 in the code): `tpf` may be
rounded up by half, so that the frames passed within `SeekWindow * tpf` ticks may be
up to twice as many. `Progress`: between two requests the demuxer is one packet
behind the frame in `pFrame`; in a search it has not passed the frame asked for, has
attempts left for all packets up to it, and the codec gets a key-frame next or is in
the middle of a group. `LandsOnKey` shows this for a seek, `ReadsOn` for going on
without one, and `NeverTooLate` that neither the second seek nor giving up is reached.
Movies with reordered, delayed or missing frames are left to TLC.

`ImageCacheProofs`. The invariant is conditional on `ImagesDefined`: lines on
their way in belong to one thread (`Owners`), a chosen line stays unused
(`Victims`), counts are exact, keys are unique. The bound counts the threads that
have decided to add, as in `DecoderCtrlProofs`. Four theorems, one per property, and
`ImageCacheServes`, the refinement of `CacheService`, without a premise: `WantsOK` adds
that a thread at work has a request and that a line that may be taken has a key, and
`SentElsewhere` that a line that is sent is neither one that another thread fills in
nor one it is about to evict. What follows undefined behaviour is silence.

`FileIndexProofs`. `IndexComplete` speaks of the end of a walk; `IndexInv` says at
every step what has been listed and what is ahead. `Ahead` is what the directories
on the stack still have to read, and all that is reached from there. What is wanted
and not ahead has been listed, once, and counted, unless a write was cut short
(`ListedOK`); the directories on the stack are distinct, and none of them is ahead
(`StackOK`). The crucial lemma is `OneLess`: taking an entry and putting those of the
directory it names in its place takes this entry, and no other, out of what is
ahead. Nothing leads back to it, because the entries of a tree can be numbered so
that each comes after its directory (`DeeperIsLater`). `Wanted` is a least fixed
point rather than a recursive function for the sake of this proof: its induction rule
(`LedToIsLeast`) is part of its definition.
`ListingIsComplete` holds for every finite tree and every failure of opendir, stat
and write in it.

`TimecodeProofs`. `LabelSound` for every natural number and rate, from lemmas about
division by 17982 and 1798: the correction passes over exactly the unused labels.

Only model-checked: the liveness properties (`Answered`, `ShutdownCompletes`,
`ConnectionEnds`, `RequestEnds`, `SearchEnds`) and `PurgeCompletes`, because liveness under fairness
and ENABLED are out of the prover's reach; `SeekSucceeds` for movies that are not
`InOrder`, where it depends on the proportions of the search bounds; and the other
findings, whose counterexamples TLC gives.

## Not modelled

* Memory: what is allocated and freed, such as the image buffers and the resources of
  a decoder that does not open.
* Scaling, pixel formats and aspect ratio, JPEG quality and sizes as parts of cache
  keys: data that is passed through, fixed in the model.
* The encoders for JPEG, PNG and PPM: external libraries, modelled as success or
  the error of an unknown format.
* HTML pages, info texts, URL escaping and the wording of replies: formatting.
* Command line, privileges, chroot, pid files and the log: run once, before the
  threads exist.
* `vcache_resize`, `icache_resize`, the `*_destroy` functions and `dctrl_destroy`:
  called before the server starts and after it has ended, by one thread.
* The pointer that `get_fn` returns after the lock is released: what a string that is
  freed while it is read contains has no successor state worth a property.
* ffmpeg, libjpeg, libpng, uthash and snprintf: external or vendored; what the code
  relies on appears as sets, functions and results.

## Plan

What is left, in this order:

1. The two abstract caches of `RequestHandler` as users of `CacheService`, with its
   misled requests, so that `HandlerIsTruthful` names the exception instead of taking
   the caches to hold what their keys say; and `SeekingSucceeds` for movies whose codec
   holds frames back.
2. `DecoderCtrl` and `FFDecoder` composed: an object recycled while the wrong file is
   open in it.
3. `get_fn`'s pointer as a reference to an entry of `VidMap`, with the states in which
   it dangles.
4. The resize and destroy functions, with a request still running at exit.
