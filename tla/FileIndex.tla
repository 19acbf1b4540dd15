----------------------------- MODULE FileIndex -------------------------------
(***************************************************************************)
(* The listing of a directory (src/fileindex.c): hdl_index_dir() and the   *)
(* recursion of parse_dir(), one directory entry per step, with the buffer *)
(* that is sent whenever a sub-directory is done.  readdir() returns the   *)
(* entries in any order.  The four formats differ in the wording and in    *)
(* what stands before and after the entries; what is printed is a sequence *)
(* of items.  The tree does not change, and symbolic links, which stat()   *)
(* follows, do not lead back to a directory above.                         *)
(***************************************************************************)
EXTENDS Integers, Sequences, FiniteSets

CONSTANTS
  Nodes,     \* numbers of directory entries, the root being 0
  Entry,     \* Entry[n]: in (its directory), kind ("dir", "video", "other"),
             \*   hidden (the name starts with a dot), stat (stat() works),
             \*   opens (opendir() works)
  StartDirs, \* directories whose index is asked for
  IndexOptions,  \* of {"flat"}
  IndexFormats,  \* of {"html", "json", "csv", "plain"}
  Preamble, Up, Foot \* items that are not entries

ASSUME TreeAssumption ==
  /\ Nodes \subseteq Nat /\ 0 \in Nodes /\ IsFiniteSet(Nodes)
  /\ StartDirs \subseteq Nodes
  /\ \A n \in Nodes \ {0} : Entry[n].in \in Nodes /\ Entry[n].in < n
  /\ {Preamble, Up, Foot} \cap Nodes = {}

VARIABLES
  phase,   \* of hdl_index_dir(): "idle", "walk", "send", "end", "done"
  dir, fmt, opt,  \* its arguments
  calls,   \* the calls of parse_dir(), innermost last: d, todo
  sm,      \* the buffer
  num,     \* entries printed
  received,  \* what the client got
  cut      \* whether a write was short or failed (history)

listing == <<dir, fmt, opt>>
indexVars == <<phase, listing, calls, sm, num, received, cut>>

IndexInit ==
  /\ phase = "idle" /\ dir = 0 /\ fmt = "html" /\ opt = {}
  /\ calls = <<>> /\ sm = <<>> /\ num = 0 /\ received = <<>> /\ cut = FALSE

-----------------------------------------------------------------------------
InDir(d) == {n \in Nodes \ {0} : Entry[n].in = d}

\* A call of parse_dir() that got past opendir().
Call(d) == [d |-> d, todo |-> InDir(d)]

Heading(f, d) ==
  CASE f = "html" -> IF d = 0 THEN <<Preamble>> ELSE <<Preamble, Up>>
    [] f = "json" -> <<Preamble>>
    [] OTHER -> <<>>

StartIndex(d, f, o) ==
  /\ phase = "idle"
  /\ dir' = d /\ fmt' = f /\ opt' = o
  /\ sm' = Heading(f, d)
  /\ IF Entry[d].opens
       THEN phase' = "walk" /\ calls' = <<Call(d)>>
       ELSE phase' = "end" /\ calls' = <<>>
  /\ UNCHANGED <<num, received, cut>>

Top == calls[Len(calls)]
Caller == SubSeq(calls, 1, Len(calls) - 1)

\* The entry n is the next one readdir() returns.
NextEntry(n) == phase = "walk" /\ n \in Top.todo
Taken(n) == Append(Caller, [Top EXCEPT !.todo = @ \ {n}])

Seen(n) == ~Entry[n].hidden /\ Entry[n].stat

\* Dot files, what stat() fails for, and files that are no videos by name
SkipEntry(n) ==
  /\ NextEntry(n)
  /\ ~Seen(n) \/ Entry[n].kind = "other"
  /\ calls' = Taken(n)
  /\ UNCHANGED <<phase, listing, sm, num, received, cut>>

\* A video, or a directory that is not descended into
PrintEntry(n) ==
  /\ NextEntry(n) /\ Seen(n)
  /\ Entry[n].kind = "video" \/ (Entry[n].kind = "dir" /\ "flat" \notin opt)
  /\ calls' = Taken(n)
  /\ sm' = Append(sm, n)
  /\ num' = num + 1
  /\ UNCHANGED <<phase, listing, received, cut>>

\* A mutant: a directory that cannot be opened ends the listing of its parent.
AfterUnopenedBreaks(n) == Append(Caller, [Top EXCEPT !.todo = {}])

\* "opendir failed -- continue"
AfterUnopened(n) == Taken(n)

\* A flat index descends, and sends what it has when it is back.
Descend(n) ==
  /\ NextEntry(n) /\ Seen(n)
  /\ Entry[n].kind = "dir" /\ "flat" \in opt
  /\ \/ Entry[n].opens /\ calls' = Append(Taken(n), Call(n)) /\ UNCHANGED phase
     \/ ~Entry[n].opens /\ calls' = AfterUnopened(n) /\ phase' = "send"
  /\ UNCHANGED <<listing, sm, num, received, cut>>

\* closedir(): back to the directory above, or to hdl_index_dir()
LeaveDir ==
  /\ phase = "walk" /\ Top.todo = {}
  /\ calls' = Caller
  /\ phase' = IF Caller = <<>> THEN "end" ELSE "send"
  /\ UNCHANGED <<listing, sm, num, received, cut>>

\* CSEND(): the client gets all, or a part of it ...
SendAll == received' = received \o sm /\ UNCHANGED cut
SendPart ==
  /\ \E k \in 0 .. Len(sm) - 1 : received' = received \o SubSeq(sm, 1, k)
  /\ cut' = TRUE

SendBuffer ==
  /\ phase = "send"
  /\ \/ sm # <<>> /\ (SendAll \/ SendPart)
     \/ sm = <<>> /\ UNCHANGED <<received, cut>>
  /\ sm' = <<>>
  /\ phase' = "walk"
  /\ UNCHANGED <<listing, calls, num>>

\* ... or nothing: -2 ends every call of parse_dir().
AbortIndex ==
  /\ phase = "send" /\ sm # <<>>
  /\ phase' = "end"
  /\ calls' = <<>>
  /\ cut' = TRUE
  /\ UNCHANGED <<listing, sm, num, received>>

Ending(f) == IF f = "csv" THEN <<>> ELSE <<Foot>>

\* The rest, with its last line, is sent; nobody looks at the result.
EndIndex ==
  /\ phase = "end"
  /\ LET rest == sm \o Ending(fmt)
     IN \/ received' = received \o rest /\ UNCHANGED cut
        \/ /\ \E k \in 0 .. Len(rest) - 1 :
                received' = received \o SubSeq(rest, 1, k)
           /\ cut' = TRUE
  /\ sm' = <<>>
  /\ phase' = "done"
  /\ UNCHANGED <<listing, calls, num>>

IndexNext ==
  \/ \E d \in StartDirs, f \in IndexFormats, o \in IndexOptions : StartIndex(d, f, o)
  \/ \E n \in Nodes : SkipEntry(n) \/ PrintEntry(n) \/ Descend(n)
  \/ LeaveDir \/ SendBuffer \/ AbortIndex \/ EndIndex

IndexSpec == IndexInit /\ [][IndexNext]_indexVars

-----------------------------------------------------------------------------
Printable(n, o) ==
  Seen(n) /\ (Entry[n].kind = "video" \/ (Entry[n].kind = "dir" /\ "flat" \notin o))

\* The directories that an index descends into.
Descendable(o) ==
  {n \in Nodes \ {0} :
     "flat" \in o /\ Entry[n].kind = "dir" /\ Seen(n) /\ Entry[n].opens}

\* Those of them that it gets to from the entries of S.
Descended(S, o) ==
  {n \in Descendable(o) :
     \A T \in SUBSET Descendable(o) :
       (\A m \in Descendable(o) : m \in S \/ Entry[m].in \in T => m \in T) => n \in T}

\* The entries of S and those of the directories it gets to from there.
LedTo(S, o) == S \cup {n \in Nodes \ {0} : Entry[n].in \in Descended(S, o)}

\* What the index of d is to list.
Wanted(d, o) ==
  IF Entry[d].opens THEN {n \in LedTo(InDir(d), o) : Printable(n, o)} ELSE {}

Occurrences(n) == Cardinality({i \in DOMAIN received : received[i] = n})

\* The client gets every entry once, whatever directories in between cannot be
\* read and however often the buffer was sent on the way, and the total is
\* right; if a write was cut short it still gets nothing twice.
IndexComplete ==
  phase = "done" =>
    /\ \A n \in Nodes : Occurrences(n) <= 1
    /\ ~cut =>
         /\ {n \in Nodes : Occurrences(n) = 1} = Wanted(dir, opt)
         /\ num = Cardinality(Wanted(dir, opt))
         /\ fmt # "csv" => received[Len(received)] = Foot
=============================================================================
