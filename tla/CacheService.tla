---------------------------- MODULE CacheService ----------------------------
(***************************************************************************)
(* What a cache promises to a request (frame_cache.h, image_cache.h): a    *)
(* request asks for one picture; if it is given one, it is the one it      *)
(* asked for, and it keeps it until it returns it.                         *)
(*                                                                         *)
(* Both caches find a line under one lock and take it under another one,   *)
(* without a second look at the key.  A request whose line has been given  *)
(* to another picture in between is "misled".  Only others who look for a  *)
(* line themselves can mislead a request; one that is not misled gets what *)
(* it asked for, whatever is evicted, invalidated and cleared around it.   *)
(***************************************************************************)
CONSTANTS
  Users,      \* requests
  Pictures,   \* what they ask for
  Nothing,
  Withdraws   \* whether clearing the cache takes pictures from requests

VARIABLES
  asked,    \* asked[u]: the picture u asked for and has not done with
  given,    \* given[u]: the picture u has been given
  misled    \* misled[u]: the line u has found holds another picture

Init ==
  /\ asked = [u \in Users |-> Nothing]
  /\ given = [u \in Users |-> Nothing]
  /\ misled = [u \in Users |-> FALSE]

\* Requests that have not been given anything yet
Seeking(v) == asked[v] # Nothing /\ given[v] = Nothing

\* u takes a line for its own picture, which others who seek have found.
OthersMayBeMisled(u) ==
  /\ misled' \in [Users -> BOOLEAN]
  /\ \A v \in Users \ {u} : misled'[v] = misled[v] \/ Seeking(v)
  /\ misled'[u] => misled[u]

\* Lines are only dropped.
NobodyIsMisled ==
  /\ misled' \in [Users -> BOOLEAN]
  /\ \A v \in Users : misled'[v] => misled[v]

Ask(u, p) ==
  /\ asked[u] = Nothing
  /\ asked' = [asked EXCEPT ![u] = p]
  /\ UNCHANGED <<given, misled>>

\* u goes on: looks again, evicts a line, decodes.
Work(u) ==
  /\ Seeking(u)
  /\ OthersMayBeMisled(u)
  /\ UNCHANGED <<asked, given>>

Give(u) ==
  /\ Seeking(u)
  /\ \E p \in Pictures :
       /\ misled[u] \/ p = asked[u]
       /\ given' = [given EXCEPT ![u] = p]
  /\ UNCHANGED <<asked, misled>>

\* u is done, with a picture or without, and its line may be dropped; those
\* who were misled to that line lose what they have been given.
Return(u) ==
  /\ asked[u] # Nothing
  /\ asked' = [asked EXCEPT ![u] = Nothing]
  /\ given' \in [Users -> Pictures \cup {Nothing}]
  /\ given'[u] = Nothing
  /\ \A v \in Users \ {u} :
       given'[v] = given[v] \/ (misled[v] /\ given'[v] = Nothing)
  /\ NobodyIsMisled
  /\ ~misled'[u]

\* The administrator clears the cache.
Clear ==
  /\ given' \in [Users -> Pictures \cup {Nothing}]
  /\ \A v \in Users :
       given'[v] = given[v] \/ (Withdraws /\ given'[v] = Nothing)
  /\ NobodyIsMisled
  /\ UNCHANGED asked

Next ==
  \/ \E u \in Users, p \in Pictures : Ask(u, p)
  \/ \E u \in Users : Work(u) \/ Give(u) \/ Return(u)
  \/ Clear

Spec == Init /\ [][Next]_<<asked, given, misled>>
=============================================================================
