--------------------------- MODULE RequestHandler ---------------------------
(***************************************************************************)
(* A request from its raw text to the last byte of the reply:              *)
(* httprotocol.c (protocol_handler(), http_tx()), ics_handler.c (queries   *)
(* and routes) and the callbacks of harvid.c, with several connection      *)
(* threads that share the ID map (VidMap) and the two caches.              *)
(*                                                                         *)
(* The frame cache and the image cache are what their own modules show     *)
(* them to be: key-addressed, bounded, with lines pinned while in use.     *)
(* Every call into a cache, the ID map or the decoder pool is one step, so *)
(* that requests interleave between the calls.  Pages are their status and *)
(* content type.  The geometry is fixed, one size per file.                *)
(***************************************************************************)
EXTENDS VidMap, Sequences

CONSTANTS
  Workers,      \* connection threads
  RequestsOf,   \* RequestsOf[w]: the requests thread w may read, records of
                \*   missing   the part of the head that is missing, or "none"
                \*   accept    the list in the Accept header, <<>>: no header
                \*   method, form (an url-encoded body follows)
                \*   path, file, frame, fmt   what the URL says
  MaxReads,     \* MaxReads[m][w]: a bound of the model on w's requests
  OnDisk,       \* OnDisk[f]: "illegal", "missing", "denied", "broken", "video"
  Masks,        \* records of user (cfg_usermask) and admin (cfg_adminmask)
  RawLines,     \* lines of the frame cache
  ImageLines,   \* lines of the image cache
  BodyChunks,   \* pieces a body may be written in
  WriteTimeout, \* WRITE_TIMEOUT (50 in the code)
  NoFile,       \* a query without "file="
  NoFrame,      \* a query without "frame="
  NoRequest, NoBody

ASSUME HandlerAssumption ==
  /\ IsFiniteSet(Workers)
  /\ \A w \in Workers : \A r \in RequestsOf[w] : r.file \in Files \cup {NoFile}
  /\ DOMAIN OnDisk = Files
  /\ RawLines \in Nat \ {0} /\ ImageLines \in Nat \ {0}
  /\ BodyChunks \in Nat \ {0} /\ WriteTimeout \in Nat \ {0}

VARIABLES
  mask,     \* the one the server was started with
  running,  \* d->run
  reads,    \* number of requests read (bounded)
  pc,       \* where each thread is
  req,      \* the request it serves
  vid,      \* the file's ID
  body,     \* the picture and its encoding, once there is one
  holds,    \* its cache line: "raw", "black" (a failed decode's), "image", "none"
  replies,  \* the status lines it sent, with content type
  left,     \* pieces of the body still to be sent
  patience, \* http_tx()'s timeout
  raw,      \* frame cache: key -> picture
  rawRef,   \* rawRef[k]: refcnt of a line that was handed out
  blackRef, \* references to lines of failed decodes
  doomed,   \* keys of lines with CLF_RELEASE
  images,   \* image cache: key -> picture and encoding
  imageRef, \* number of image lines handed out and not given back
  named,    \* the file each ID was last given to (history)
  failed    \* the frames that a decoder failed on (history)

job == <<req, vid, body, holds, replies, left, patience>>
rawCache == <<raw, rawRef, blackRef, doomed>>
imageCache == <<images, imageRef>>
history == <<named, failed>>
handlerVars == <<vidVars, mask, running, reads, pc, job, rawCache, imageCache, history>>

FrameIds == {r.frame : r \in UNION {RequestsOf[w] : w \in Workers}} \cup {0}
RawKeys == (0 .. IdMax) \X FrameIds
Black == <<NoFile, NoFrame>>

HandlerInit ==
  /\ VidMapInit
  /\ mask \in Masks
  /\ running = TRUE
  /\ reads = [w \in Workers |-> 0]
  /\ pc = [w \in Workers |-> "idle"]
  /\ req = [w \in Workers |-> NoRequest]
  /\ vid = [w \in Workers |-> 0]
  /\ body = [w \in Workers |-> NoBody]
  /\ holds = [w \in Workers |-> "none"]
  /\ replies = [w \in Workers |-> <<>>]
  /\ left = [w \in Workers |-> 0]
  /\ patience = [w \in Workers |-> 0]
  /\ raw = <<>> /\ rawRef = [k \in RawKeys |-> 0]
  /\ blackRef = 0 /\ doomed = {}
  /\ images = <<>> /\ imageRef = 0
  /\ named = [i \in 0 .. IdMax |-> NoFile]
  /\ failed = {}

-----------------------------------------------------------------------------
(***************************************************************************)
(* protocol_handler(): what is refused before the request is looked at     *)
(***************************************************************************)

\* compare_accept(): leading blanks are skipped in the first element only.
Accepted(r) ==
  \/ r.accept = <<>>
  \/ \E i \in DOMAIN r.accept :
       r.accept[i].type \in {"image", "any"} /\ (i = 1 \/ ~r.accept[i].blank)

\* A posted form is a query like any other.
Method(r) == IF r.method = "POST" /\ r.form THEN "GET" ELSE r.method

Refused(r) ==
  CASE r.missing # "none" -> {400}
    [] r.missing = "none" /\ ~Accepted(r) -> {415}
    [] OTHER -> {}

(***************************************************************************)
(* ics_http_handler(): the routes, parse_http_query(): the query           *)
(***************************************************************************)

\* Without -F seek its two routes are queries for a frame, and so is "/" with
\* a query.
Route(r) ==
  CASE Method(r) # "GET" -> "unknown"
    [] Method(r) = "GET" /\ r.path \in {"seek", "seekjs"} ->
         IF "webseek" \in mask.user THEN r.path ELSE "frame"
    [] Method(r) = "GET" /\ r.path = "home" ->
         IF r.file = NoFile /\ r.frame = NoFrame THEN "home" ELSE "frame"
    [] OTHER -> r.path

TextType(fmt) ==
  IF fmt \in {"plain", "json", "csv"} THEN fmt ELSE "html"

\* The pages that need neither a file nor a permission, and their types.
Pages == {"status", "favicon", "logo", "seekjs", "rc", "version", "admincheck", "home"}

PageType(r) ==
  CASE Route(r) = "favicon" -> "icon"
    [] Route(r) = "logo" -> "jpeg"
    [] Route(r) = "seekjs" -> "javascript"
    [] Route(r) \in {"rc", "version"} -> TextType(r.fmt)
    [] OTHER -> "html"

\* The status of a reply to a request that needs a permission it has not.
Forbidden(r) ==
  \/ Route(r) = "index" /\ "index" \notin mask.user
  \/ Route(r) = "adminflush" /\ "flush" \notin mask.admin
  \/ Route(r) = "adminpurge" /\ "purge" \notin mask.admin
  \/ Route(r) = "adminshutdown" /\ "shutdown" \notin mask.admin

\* parse_http_query() has answered itself, and its caller does nothing.
QueryErrors(r) ==
  CASE r.file = NoFile -> <<404>>
    [] r.file # NoFile /\ OnDisk[r.file] \in {"illegal", "missing"} -> <<404>>
    [] r.file # NoFile /\ OnDisk[r.file] = "denied" -> <<403>>
    [] OTHER -> <<>>

\* A mutant: "rv < 0" is not told from "too few parameters".
QueryAnswersTwice(r) ==
  IF QueryErrors(r) # <<>> THEN QueryErrors(r) \o <<400>>
  ELSE IF Route(r) = "frame" /\ r.frame = NoFrame THEN <<400>> ELSE <<>>

\* What is answered to a query before any file is opened.
QueryAnswers(r) ==
  IF QueryErrors(r) # <<>> THEN QueryErrors(r)
  ELSE IF Route(r) = "frame" /\ r.frame = NoFrame THEN <<400>> ELSE <<>>

-----------------------------------------------------------------------------
At(w, s) == pc[w] = s
Goto(w, s) == pc' = [pc EXCEPT ![w] = s]

Answer(w, status, ctype) ==
  replies' = [replies EXCEPT ![w] = Append(@, <<status, ctype>>)]

\* httperror() and the end of the handler
Fail(w, statuses) ==
  /\ replies' = [replies EXCEPT
                   ![w] = @ \o [i \in DOMAIN statuses |-> <<statuses[i], "html">>]]
  /\ Goto(w, "close")

RestOfJob == <<req, vid, body, holds, left, patience>>
Shared == <<vidVars, mask, running, reads, rawCache, imageCache, history>>

Read(w) ==
  /\ At(w, "idle") /\ running
  /\ reads[w] < MaxReads[mask][w] /\ reads' = [reads EXCEPT ![w] = @ + 1]
  /\ \E r \in RequestsOf[w] : req' = [req EXCEPT ![w] = r]
  /\ Goto(w, "dispatch")
  /\ UNCHANGED <<vidVars, mask, running, rawCache, imageCache, history,
                 vid, body, holds, replies, left, patience>>

\* The request is refused, unknown or not permitted.
Refuse(w) ==
  /\ At(w, "dispatch")
  /\ \/ \E status \in Refused(req[w]) : Fail(w, <<status>>)
     \/ /\ Refused(req[w]) = {}
        /\ \/ Route(req[w]) = "unknown" /\ Fail(w, <<500>>)
           \/ Route(req[w]) = "adminother" /\ Fail(w, <<400>>)
           \/ Forbidden(req[w]) /\ Fail(w, <<403>>)
  /\ UNCHANGED <<Shared, RestOfJob>>

Routed(w, s) == At(w, "dispatch") /\ Refused(req[w]) = {} /\ Route(req[w]) = s
Permitted(w, s) == Routed(w, s) /\ ~Forbidden(req[w])

ServePage(w) ==
  /\ \E s \in Pages : Routed(w, s)
  /\ Answer(w, 200, PageType(req[w]))
  /\ Goto(w, "close")
  /\ UNCHANGED <<Shared, RestOfJob>>

\* /index/: the directory is checked, the listing is FileIndex.
ServeIndex(w) ==
  /\ Permitted(w, "index")
  /\ LET f == req[w].file
     IN \/ f # NoFile /\ OnDisk[f] = "illegal" /\ Fail(w, <<400>>)
        \/ f # NoFile /\ OnDisk[f] = "missing" /\ Fail(w, <<404>>)
        \/ f # NoFile /\ OnDisk[f] = "denied" /\ Fail(w, <<403>>)
        \/ f # NoFile /\ OnDisk[f] \in {"broken", "video"} /\ Fail(w, <<404>>)
        \/ f = NoFile /\ Answer(w, 200, TextType(req[w].fmt)) /\ Goto(w, "close")
  /\ UNCHANGED <<Shared, RestOfJob>>

Shutdown(w) ==
  /\ Permitted(w, "adminshutdown")
  /\ Answer(w, 200, "html")
  /\ running' = FALSE
  /\ Goto(w, "close")
  /\ UNCHANGED <<vidVars, mask, reads, rawCache, imageCache, history, RestOfJob>>

\* Only lines that nobody uses are dropped.
KeepRaw(keys) ==
  raw' = [k \in {x \in DOMAIN raw : x \in keys \/ rawRef[x] > 0} |-> raw[k]]

\* hdl_clear_cache(), hdl_purge_cache(): vcache_clear() ...
ClearRaw(w) ==
  /\ Permitted(w, "adminflush") \/ Permitted(w, "adminpurge")
  /\ KeepRaw({})
  /\ Goto(w, "clearimages")
  /\ UNCHANGED <<vidVars, mask, running, reads, rawRef, blackRef, doomed, imageCache, history, job>>

\* ... icache_clear() ...
ClearImages(w) ==
  /\ At(w, "clearimages")
  /\ images' = <<>>
  /\ IF Route(req[w]) = "adminflush"
       THEN Answer(w, 200, "html") /\ Goto(w, "close")
       ELSE Goto(w, "clearids") /\ UNCHANGED replies
  /\ UNCHANGED <<vidVars, mask, running, reads, rawCache, imageRef, history, RestOfJob>>

\* ... and dctrl_cache_clear(), whose decoders DecoderCtrl is about.
ClearIds(w) ==
  /\ At(w, "clearids")
  /\ ClearVid
  /\ KeepRaw({k \in RawKeys : \A e \in vml : e.id # k[1]})
  /\ Answer(w, 200, "html")
  /\ Goto(w, "close")
  /\ UNCHANGED <<mask, running, reads, rawRef, blackRef, doomed, imageCache, history, RestOfJob>>

ParseQuery(w) ==
  /\ \E s \in {"frame", "info", "seek"} : Routed(w, s)
  /\ \/ QueryAnswers(req[w]) # <<>> /\ Fail(w, QueryAnswers(req[w]))
     \/ QueryAnswers(req[w]) = <<>> /\ Goto(w, "id") /\ UNCHANGED replies
  /\ UNCHANGED <<Shared, RestOfJob>>

-----------------------------------------------------------------------------
(***************************************************************************)
(* hdl_decode_frame(), hdl_file_info(), hdl_file_seek()                    *)
(***************************************************************************)

\* dctrl_get_id(): the look under the read lock
FindId(w) ==
  /\ At(w, "id")
  /\ \/ \E e \in EntriesOf(req[w].file) :
          vid' = [vid EXCEPT ![w] = e.id] /\ Goto(w, "info")
     \/ EntriesOf(req[w].file) = {} /\ Goto(w, "register") /\ UNCHANGED vid
  /\ UNCHANGED <<Shared, req, body, holds, replies, left, patience>>

\* ... and under the write lock; a new ID has its frames dropped.
RegisterFile(w) ==
  /\ At(w, "register")
  /\ \E i \in 0 .. IdMax :
       /\ RegisterId(req[w].file, i)
       /\ vid' = [vid EXCEPT ![w] = i]
       /\ named' = [named EXCEPT ![i] = req[w].file]
       /\ IF AddedMeanwhile(req[w].file) THEN UNCHANGED raw
          ELSE KeepRaw({k \in RawKeys : k[1] # i})
  /\ Goto(w, "info")
  /\ UNCHANGED <<mask, running, reads, rawRef, blackRef, doomed, imageCache, failed,
                 req, body, holds, replies, left, patience>>

\* dctrl_get_info(), dctrl_get_info_scale(): no decoder is free, or the file
\* cannot be opened and its ID is released, or it has no picture.
InfoFails(w) ==
  /\ At(w, "info")
  /\ \/ Fail(w, <<503>>) /\ UNCHANGED vidVars
     \/ Fail(w, <<500>>) /\ (ReleaseId(vid[w]) \/ UNCHANGED vidVars)
  /\ UNCHANGED <<mask, running, reads, rawCache, imageCache, history, RestOfJob>>

Opens(w) == At(w, "info") /\ OnDisk[named[vid[w]]] = "video"

ServeInfo(w) ==
  /\ Opens(w)
  /\ Route(req[w]) \in {"info", "seek"}
  /\ Answer(w, 200, IF Route(req[w]) = "seek" THEN "html" ELSE TextType(req[w].fmt))
  /\ Goto(w, "close")
  /\ UNCHANGED <<Shared, RestOfJob>>

GotInfo(w) ==
  /\ Opens(w)
  /\ Route(req[w]) = "frame"
  /\ Goto(w, IF req[w].fmt = "raw" THEN "frame" ELSE "image")
  /\ UNCHANGED <<Shared, job>>

\* Negative frame numbers are the first frame.
Frame(w) == IF req[w].frame < 0 THEN 0 ELSE req[w].frame

\* A mutant: the image cache is asked without the frame number.
ImageKeyFrameless(w) == <<vid[w], 0, req[w].fmt>>

ImageKey(w) == <<vid[w], Frame(w), req[w].fmt>>

RawKey(w) == <<vid[w], Frame(w)>>

\* icache_get_buffer()
FindImage(w) ==
  /\ At(w, "image")
  /\ \/ /\ ImageKey(w) \in DOMAIN images
        /\ body' = [body EXCEPT ![w] = images[ImageKey(w)]]
        /\ holds' = [holds EXCEPT ![w] = "image"]
        /\ imageRef' = imageRef + 1
        /\ Goto(w, "send")
     \/ /\ ImageKey(w) \notin DOMAIN images
        /\ Goto(w, "frame")
        /\ UNCHANGED <<body, holds, imageRef>>
  /\ UNCHANGED <<vidVars, mask, running, reads, rawCache, images, history,
                 req, vid, replies, left, patience>>

\* Thread w is given a line of the frame cache with picture p.
TakeRaw(w, kind, p) ==
  /\ body' = [body EXCEPT ![w] = <<p, "raw">>]
  /\ holds' = [holds EXCEPT ![w] = kind]
  /\ Goto(w, "encode")

\* vcache_get_buffer(): a hit
FindRaw(w) ==
  /\ At(w, "frame")
  /\ RawKey(w) \in DOMAIN raw
  /\ rawRef' = [rawRef EXCEPT ![RawKey(w)] = @ + 1]
  /\ TakeRaw(w, "raw", raw[RawKey(w)])
  /\ UNCHANGED <<vidVars, mask, running, reads, raw, blackRef, doomed, imageCache, history,
                 req, vid, replies, left, patience>>

Idle(S) == {k \in S : rawRef[k] = 0}

\* vcache_get_buffer(): the frame is decoded into a free line
DecodeRaw(w) ==
  /\ At(w, "frame")
  /\ RawKey(w) \notin DOMAIN raw
  /\ LET p == <<named[vid[w]], Frame(w)>>
     IN /\ \/ /\ Cardinality(DOMAIN raw) < RawLines
              /\ raw' = [k \in DOMAIN raw \cup {RawKey(w)} |->
                           IF k = RawKey(w) THEN p ELSE raw[k]]
           \/ /\ Cardinality(DOMAIN raw) >= RawLines
              /\ \E old \in Idle(DOMAIN raw) :
                   raw' = [k \in (DOMAIN raw \ {old}) \cup {RawKey(w)} |->
                             IF k = RawKey(w) THEN p ELSE raw[k]]
        /\ rawRef' = [rawRef EXCEPT ![RawKey(w)] = @ + 1]
        /\ TakeRaw(w, "raw", p)
  /\ UNCHANGED <<vidVars, mask, running, reads, blackRef, doomed, imageCache, history,
                 req, vid, replies, left, patience>>

\* vcache_get_buffer(): the decoder fails; the line with the black picture is
\* handed out, but not valid.
DecodeFails(w) ==
  /\ At(w, "frame")
  /\ RawKey(w) \notin DOMAIN raw
  /\ failed' = failed \cup {<<named[vid[w]], Frame(w)>>}
  /\ blackRef' = blackRef + 1
  /\ TakeRaw(w, "black", Black)
  /\ UNCHANGED <<vidVars, mask, running, reads, raw, rawRef, doomed, imageCache, named,
                 req, vid, replies, left, patience>>

\* vcache_get_buffer(): no line or no decoder is free, or the file cannot be
\* opened again and its ID is released.
NoRaw(w) ==
  /\ At(w, "frame")
  /\ RawKey(w) \notin DOMAIN raw
  /\ \/ Fail(w, <<503>>) /\ UNCHANGED vidVars
     \/ Fail(w, <<500>>) /\ ReleaseId(vid[w])
  /\ UNCHANGED <<mask, running, reads, rawCache, imageCache, history, RestOfJob>>

\* A mutant: an early return after the error.
AfterFormatErrorReturn == "close"

\* The line is given back after an error, too.
AfterFormatError == "release"

\* format_image()
Encode(w) ==
  /\ At(w, "encode")
  /\ \/ req[w].fmt = "raw" /\ Goto(w, "send") /\ UNCHANGED <<body, replies>>
     \/ /\ req[w].fmt \in {"jpeg", "png", "ppm"}
        /\ body' = [body EXCEPT ![w] = <<@[1], req[w].fmt>>]
        /\ Goto(w, "send")
        /\ UNCHANGED replies
     \/ /\ req[w].fmt # "raw"
        /\ Answer(w, 500, "html")
        /\ Goto(w, AfterFormatError)
        /\ UNCHANGED body
  /\ UNCHANGED <<Shared, req, vid, holds, left, patience>>

-----------------------------------------------------------------------------
(***************************************************************************)
(* http_tx()                                                               *)
(***************************************************************************)

SendHead(w) ==
  /\ At(w, "send")
  /\ Answer(w, 200, req[w].fmt)
  /\ left' = [left EXCEPT ![w] = BodyChunks]
  /\ patience' = [patience EXCEPT ![w] = WriteTimeout]
  /\ Goto(w, "tx")
  /\ UNCHANGED <<Shared, req, vid, body, holds>>

AfterTx(w) ==
  Goto(w, IF holds[w] # "image" /\ req[w].fmt # "raw" THEN "add" ELSE "release")

\* select() says that the socket is ready: write() is called.
CallWrite(w) ==
  /\ At(w, "tx") /\ patience[w] > 0
  /\ Goto(w, "write")
  /\ UNCHANGED <<Shared, job>>

\* The socket blocks, so write() returns when the client has taken everything,
\* or less if it is interrupted: that renews the patience.
WriteReturns(w) ==
  /\ At(w, "write")
  /\ \E n \in 1 .. left[w] :
       /\ left' = [left EXCEPT ![w] = @ - n]
       /\ IF n = left[w]
            THEN AfterTx(w) /\ UNCHANGED patience
            ELSE patience' = [patience EXCEPT ![w] = WriteTimeout] /\ Goto(w, "tx")
  /\ UNCHANGED <<Shared, req, vid, body, holds, replies>>

\* The connection breaks: select() or write() fails.
SelectFails(w) ==
  /\ At(w, "tx") /\ patience[w] > 0
  /\ AfterTx(w)
  /\ UNCHANGED <<Shared, job>>

WriteFails(w) ==
  /\ At(w, "write")
  /\ AfterTx(w)
  /\ UNCHANGED <<Shared, job>>

\* A mutant: waiting for the client costs no patience.
PatienceKept(p) == p

PatienceLeft(p) == p - 1

\* select() times out.
NotReady(w) ==
  /\ At(w, "tx") /\ patience[w] > 0
  /\ patience' = [patience EXCEPT ![w] = PatienceLeft(@)]
  /\ UNCHANGED <<Shared, pc, req, vid, body, holds, replies, left>>

\* The loop ends: the client has been waited for long enough.
TimedOut(w) ==
  /\ At(w, "tx") /\ patience[w] = 0
  /\ AfterTx(w)
  /\ UNCHANGED <<Shared, job>>

-----------------------------------------------------------------------------
\* icache_add_buffer(): -1 if another thread added the image meanwhile;
\* otherwise the raw frame is to be deleted unless -F keepraw.
AddImage(w) ==
  /\ At(w, "add")
  /\ \/ ImageKey(w) \in DOMAIN images /\ UNCHANGED <<images, doomed>>
     \/ /\ ImageKey(w) \notin DOMAIN images
        /\ \E old \in IF Cardinality(DOMAIN images) < ImageLines THEN {{}}
                      ELSE {{k} : k \in DOMAIN images} :
             images' = [k \in (DOMAIN images \ old) \cup {ImageKey(w)} |->
                          IF k = ImageKey(w) THEN body[w] ELSE images[k]]
        /\ doomed' = IF "keepraw" \in mask.user \/ holds[w] = "black" THEN doomed
                     ELSE doomed \cup {RawKey(w)}
  /\ Goto(w, "release")
  /\ UNCHANGED <<vidVars, mask, running, reads, raw, rawRef, blackRef, imageRef, history, job>>

\* vcache_release_buffer() or icache_release_buffer()
Release(w) ==
  /\ At(w, "release")
  /\ \/ /\ holds[w] = "raw"
        /\ rawRef' = [rawRef EXCEPT ![RawKey(w)] = @ - 1]
        /\ LET gone == IF rawRef[RawKey(w)] = 1 THEN doomed \cap {RawKey(w)} ELSE {}
           IN /\ raw' = [k \in DOMAIN raw \ gone |-> raw[k]]
              /\ doomed' = doomed \ gone
        /\ UNCHANGED <<blackRef, imageRef>>
     \/ /\ holds[w] = "black"
        /\ blackRef' = blackRef - 1
        /\ UNCHANGED <<raw, rawRef, doomed, imageRef>>
     \/ /\ holds[w] = "image"
        /\ imageRef' = imageRef - 1
        /\ UNCHANGED rawCache
  /\ holds' = [holds EXCEPT ![w] = "none"]
  /\ Goto(w, "close")
  /\ UNCHANGED <<vidVars, mask, running, reads, images, history,
                 req, vid, body, replies, left, patience>>

\* c->run = 0, and the connection is closed.
Close(w) ==
  /\ At(w, "close")
  /\ Goto(w, "idle")
  /\ req' = [req EXCEPT ![w] = NoRequest]
  /\ vid' = [vid EXCEPT ![w] = 0]
  /\ body' = [body EXCEPT ![w] = NoBody]
  /\ holds' = [holds EXCEPT ![w] = "none"]
  /\ replies' = [replies EXCEPT ![w] = <<>>]
  /\ left' = [left EXCEPT ![w] = 0]
  /\ patience' = [patience EXCEPT ![w] = 0]
  /\ UNCHANGED Shared

-----------------------------------------------------------------------------
\* What a thread does by itself with a request it has read.
Serve(w) ==
  \/ Refuse(w) \/ ServePage(w) \/ ServeIndex(w) \/ Shutdown(w)
  \/ ClearRaw(w) \/ ClearImages(w) \/ ClearIds(w) \/ ParseQuery(w)
  \/ FindId(w) \/ RegisterFile(w) \/ InfoFails(w) \/ ServeInfo(w) \/ GotInfo(w)
  \/ FindImage(w) \/ FindRaw(w) \/ DecodeRaw(w) \/ DecodeFails(w) \/ NoRaw(w)
  \/ Encode(w) \/ SendHead(w) \/ NotReady(w) \/ TimedOut(w)
  \/ AddImage(w) \/ Release(w) \/ Close(w)

HandlerNext ==
  \E w \in Workers :
    \/ Read(w) \/ Serve(w)
    \/ CallWrite(w) \/ WriteReturns(w) \/ WriteFails(w) \/ SelectFails(w)

\* The purge of the decoders may not return (DecoderCtrl), and meanwhile keeps
\* the ID map locked: a thread waits in it, or for it.
Waits(w) ==
  \/ At(w, "clearids")
  \/ /\ \E u \in Workers : At(u, "clearids")
     /\ \/ pc[w] \in {"id", "register", "info"} \/ Routed(w, "status")
        \/ At(w, "frame") /\ RawKey(w) \notin DOMAIN raw

\* Elsewhere a thread runs on by itself.  Nothing makes a client ready, and
\* nothing in the code makes a write() return.
HandlerFairness ==
  \A w \in Workers : WF_handlerVars(Serve(w) /\ ~Waits(w))

HandlerSpec == HandlerInit /\ [][HandlerNext]_handlerVars /\ HandlerFairness

-----------------------------------------------------------------------------
\* Every request gets one reply: no handler falls through to a second one
\* after an error, and none ends without a word.
OneReply ==
  \A w \in Workers :
    /\ Len(replies[w]) <= 1
    /\ pc[w] = "close" => Len(replies[w]) = 1

\* A line of a cache is held exactly by the threads between the call that
\* handed it out and the one that gives it back, on every path: a reference
\* that is not given back keeps the line from ever being reused.
PinsReleased ==
  /\ \A k \in RawKeys :
       rawRef[k] = Cardinality({w \in Workers :
                     holds[w] = "raw" /\ RawKey(w) = k /\ pc[w] # "close"})
  /\ blackRef = Cardinality({w \in Workers : holds[w] = "black" /\ pc[w] # "close"})
  /\ imageRef = Cardinality({w \in Workers : holds[w] = "image" /\ pc[w] # "close"})

\* Until IDs are used again, a picture that is sent with status 200 is the
\* frame asked for, of the file asked for, in the format the header says -
\* although the file may have been evicted, purged and registered again while
\* the request ran - or black, if decoding that very frame has failed before.
\* The caches are taken to hold what their keys say (see FrameCache).
ReplyTruthful ==
  \A w \in Workers :
    pc[w] = "tx" /\ ~reused =>
      LET asks == <<req[w].file, Frame(w)>>
      IN /\ body[w][1] = asks \/ (body[w][1] = Black /\ asks \in failed)
         /\ replies[w][1] = <<200, body[w][2]>>

\* A thread always comes back for the next request, also if the client is
\* never ready (after WriteTimeout turns without progress http_tx() gives up),
\* unless it stays in a write() or behind a purge that does not end.
RequestEnds ==
  \A w \in Workers :
    []<>(pc[w] = "idle") \/ <>[](pc[w] = "write" \/ Waits(w))
=============================================================================
