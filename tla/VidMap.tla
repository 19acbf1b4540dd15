------------------------------- MODULE VidMap --------------------------------
(***************************************************************************)
(* The map from file names to the 16 bit IDs that decoders and caches use  *)
(* (libharvid/decoder_ctrl.c: vml, vmr, get_id(), release_id(),            *)
(* clearvid()).  vml and vmr hold the same entries, indexed by name and by *)
(* ID.  Each action is one stretch under the write lock; get_id()'s first  *)
(* look, under the read lock, changes nothing but the lru time-stamp,      *)
(* which is abstracted: any entry may be the least recently used one.      *)
(***************************************************************************)
EXTENDS Integers, FiniteSets

CONSTANTS
  Files,     \* file names
  IdMax,     \* the largest unsigned short (65535 in the code)
  CacheSize  \* cache_size

ASSUME VidMapAssumption ==
  /\ IdMax \in Nat \ {0}
  /\ CacheSize \in Nat \ {0}

VARIABLES
  vml,       \* the entries, records of fn and id
  monotonic, \* the next ID
  given,     \* the IDs that were given to a file (history)
  reused     \* whether one was given again (history)

vidVars == <<vml, monotonic, given, reused>>

VidMapInit == vml = {} /\ monotonic = 1 /\ given = {} /\ reused = FALSE

-----------------------------------------------------------------------------
\* HASH_FIND_STR
EntriesOf(fn) == {e \in vml : e.fn = fn}

\* A mutant: get_id() does not look again under the write lock.
AddedMeanwhileIgnored(fn) == FALSE

AddedMeanwhile(fn) == EntriesOf(fn) # {}

\* A mutant: an ID is not passed over when the counter wraps around to 0.
NextIdZero(n) == IF n = IdMax THEN 0 ELSE n + 1

\* monotonic++, 0 is skipped
NextId(n) == IF n = IdMax THEN 1 ELSE n + 1

\* The entries that may have to go for a new one.
Victims == IF Cardinality(vml) >= CacheSize THEN {{e} : e \in vml} ELSE {{}}

\* get_id() creates an entry.
AddEntry(fn) ==
  /\ \E old \in Victims :
       vml' = (vml \ old) \cup {[fn |-> fn, id |-> monotonic]}
  /\ monotonic' = NextId(monotonic)
  /\ given' = given \cup {monotonic}
  /\ reused' = (reused \/ monotonic \in given)

\* get_id() from the write lock on: i is the ID it returns.
RegisterId(fn, i) ==
  \/ /\ AddedMeanwhile(fn)
     /\ \E e \in EntriesOf(fn) : i = e.id
     /\ UNCHANGED vidVars
  \/ /\ ~AddedMeanwhile(fn)
     /\ i = monotonic
     /\ AddEntry(fn)

\* release_id(): an entry with this ID is dropped, if there is one.
ReleaseId(i) ==
  LET found == {e \in vml : e.id = i}
  IN /\ \/ \E e \in found : vml' = vml \ {e}
        \/ found = {} /\ UNCHANGED vml
     /\ UNCHANGED <<monotonic, given, reused>>

\* clearvid()
ClearVid == vml' = {} /\ UNCHANGED <<monotonic, given, reused>>

VidMapNext ==
  \/ \E fn \in Files, i \in 0 .. IdMax : RegisterId(fn, i)
  \/ \E i \in 0 .. IdMax : ReleaseId(i)
  \/ ClearVid

VidMapSpec == VidMapInit /\ [][VidMapNext]_vidVars

-----------------------------------------------------------------------------
VidMapTypeOK ==
  /\ vml \subseteq [fn : Files, id : 1 .. IdMax]
  /\ monotonic \in 1 .. IdMax
  /\ given \subseteq 1 .. IdMax
  /\ reused \in BOOLEAN

\* Two requests for a new file give it one entry; the map keeps to its size;
\* ID 0, of the decoder object the server starts with, is never given to a
\* file; and until the counter has come round to an ID for the second time no
\* two files share one, whatever was evicted, released or purged in between.
VidMapSound ==
  /\ \A d, e \in vml : d.fn = e.fn => d = e
  /\ Cardinality(vml) <= CacheSize
  /\ \A e \in vml : e.id # 0
  /\ ~reused => \A d, e \in vml : d.id = e.id => d = e
=============================================================================
