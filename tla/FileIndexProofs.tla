--------------------------- MODULE FileIndexProofs ---------------------------
(***************************************************************************)
(* The listing of a directory is complete and repeats nothing, for any     *)
(* tree, whatever order readdir() returns the entries in, whichever        *)
(* directories cannot be read, and however often the buffer is sent.       *)
(*                                                                         *)
(* What is still to be listed is what the entries lead to that the pending *)
(* calls of parse_dir() have not yet returned.  The argument is that each  *)
(* step takes exactly one entry out of that set, which needs that nothing  *)
(* in it leads back to a directory that is being read.                     *)
(***************************************************************************)
EXTENDS FileIndex, FiniteSetTheorems, SequenceTheorems, TLAPS

-----------------------------------------------------------------------------
(***************************************************************************)
(* What entries lead to                                                    *)
(***************************************************************************)

Entries == Nodes \ {0}

Descends(n, o) == n \in Descendable(o)

\* What n leads to by itself
Inside(n, o) == IF Descends(n, o) THEN InDir(n) ELSE {}

LEMMA DirsOfEntries ==
  ASSUME NEW o, NEW n \in Entries
  PROVE  /\ Entry[n].in \in Nodes /\ Entry[n].in < n /\ n > 0
         /\ \A d : n \in InDir(d) <=> Entry[n].in = d
BY TreeAssumption DEF Entries, InDir

LEMMA LedToIsClosed ==
  ASSUME NEW o, NEW S \in SUBSET Entries
  PROVE  /\ S \subseteq LedTo(S, o) /\ LedTo(S, o) \subseteq Entries
         /\ \A n \in LedTo(S, o) : Inside(n, o) \subseteq LedTo(S, o)
<1>1. S \subseteq LedTo(S, o) /\ LedTo(S, o) \subseteq Entries
  BY DEF LedTo, Entries
<1>2. ASSUME NEW n \in LedTo(S, o), NEW m \in Inside(n, o)
      PROVE  m \in LedTo(S, o)
  <2>1. n \in Descendable(o) /\ m \in Entries /\ Entry[m].in = n
    BY <1>2 DEF Inside, Descends, InDir, Entries
  <2>2. n \in Descended(S, o)
    BY <1>2, <2>1 DEF LedTo, Descended
  <2> QED BY <2>1, <2>2 DEF LedTo, Entries
<1> QED BY <1>1, <1>2

LEMMA LedToIsLeast ==
  ASSUME NEW o, NEW S \in SUBSET Entries, NEW T, S \subseteq T,
         \A n \in T : Inside(n, o) \subseteq T
  PROVE  LedTo(S, o) \subseteq T
<1> DEFINE D == {n \in Descendable(o) : n \in T}
<1>1. D \in SUBSET Descendable(o)
  OBVIOUS
<1>2. ASSUME NEW m \in Descendable(o), m \in S \/ Entry[m].in \in D
      PROVE  m \in D
  BY <1>2 DEF Inside, Descends, InDir, Descendable
<1>3. Descended(S, o) \subseteq D
  BY <1>1, <1>2 DEF Descended
<1>4. ASSUME NEW n \in Nodes \ {0}, Entry[n].in \in D
      PROVE  n \in T
  BY <1>4 DEF Inside, Descends, InDir
<1> QED BY <1>3, <1>4 DEF LedTo

\* More entries lead to more.
LEMMA LedToGrows ==
  ASSUME NEW o, NEW S \in SUBSET Entries, NEW T \in SUBSET Entries, S \subseteq T
  PROVE  LedTo(S, o) \subseteq LedTo(T, o)
BY LedToIsClosed, LedToIsLeast

LEMMA NothingLedTo ==
  ASSUME NEW o
  PROVE  LedTo({}, o) = {}
BY LedToIsLeast

\* Taking an entry n and putting what is in it in its place takes n, and only
\* n, out of what is led to: nothing leads to n again.
LEMMA OneLess ==
  ASSUME NEW o, NEW S \in SUBSET Entries, NEW n \in S, Entry[n].in \notin LedTo(S, o)
  PROVE  LedTo((S \ {n}) \cup Inside(n, o), o) = LedTo(S, o) \ {n}
<1> DEFINE R == (S \ {n}) \cup Inside(n, o)
           U == LedTo(S, o)
<1>1. R \in SUBSET Entries
  BY DEF Inside, InDir, Entries
<1>2. /\ S \subseteq U /\ U \subseteq Entries /\ n \in U
      /\ \A m \in U : Inside(m, o) \subseteq U
  BY LedToIsClosed
<1>3. \A m \in U : n \notin Inside(m, o)
  BY <1>2 DEF Inside, InDir
<1>4. LedTo(R, o) \subseteq U \ {n}
  <2>1. R \subseteq U \ {n}
    BY <1>2, <1>3
  <2>2. \A m \in U \ {n} : Inside(m, o) \subseteq U \ {n}
    BY <1>2, <1>3
  <2> HIDE DEF R, U
  <2> QED BY <1>1, <2>1, <2>2, LedToIsLeast
<1>5. U \subseteq {n} \cup LedTo(R, o)
  <2> DEFINE T == {n} \cup LedTo(R, o)
  <2>1. /\ R \subseteq LedTo(R, o)
        /\ \A m \in LedTo(R, o) : Inside(m, o) \subseteq LedTo(R, o)
    BY <1>1, LedToIsClosed
  <2>2. S \subseteq T /\ \A m \in T : Inside(m, o) \subseteq T
    BY <2>1
  <2> HIDE DEF T
  <2>3. U \subseteq T
    BY <2>2, LedToIsLeast
  <2> QED BY <2>3 DEF T
<1> QED BY <1>4, <1>5

\* A directory is not below itself.
LEMMA DeeperIsLater ==
  ASSUME NEW o, NEW d \in Nodes
  PROVE  \A n \in LedTo(InDir(d), o) : d < n
<1> DEFINE T == {n \in Entries : d < n}
<1>1. InDir(d) \in SUBSET Entries /\ InDir(d) \subseteq T
  BY DirsOfEntries DEF InDir, Entries
<1>2. ASSUME NEW n \in T, NEW m \in Inside(n, o)
      PROVE  m \in T
  <2>1. m \in Entries /\ Entry[m].in = n
    BY <1>2 DEF Inside, InDir, Entries
  <2>2. n < m
    BY <2>1, DirsOfEntries
  <2>3. n \in Nat /\ m \in Nat /\ d \in Nat /\ d < n
    BY <1>2, <2>1, TreeAssumption DEF Entries
  <2> QED BY <2>1, <2>2, <2>3
<1> HIDE DEF T
<1>3. LedTo(InDir(d), o) \subseteq T
  BY <1>1, <1>2, LedToIsLeast
<1> QED BY <1>3 DEF T
-----------------------------------------------------------------------------
(***************************************************************************)
(* The invariant                                                           *)
(***************************************************************************)

CallSet == [d : Nodes, todo : SUBSET Entries]

Items == Nodes \cup {Preamble, Up, Foot}

IndexTypeOK ==
  /\ phase \in {"idle", "walk", "send", "end", "done"}
  /\ dir \in Nodes
  /\ calls \in Seq(CallSet)
  /\ sm \in Seq(Items) /\ received \in Seq(Items)
  /\ num \in Nat /\ cut \in BOOLEAN

\* What the calls q of parse_dir() have not been returned yet, and all that it
\* leads to.
TodoOf(q) == UNION {q[i].todo : i \in 1 .. Len(q)}
Todo == TodoOf(calls)
Ahead == LedTo(Todo, opt)

\* Each call is for another directory, which none of the calls comes to again.
StackOK ==
  /\ phase \in {"walk", "send"} <=> calls # <<>>
  /\ \A i \in 1 .. Len(calls) :
       /\ calls[i].todo \subseteq InDir(calls[i].d)
       /\ calls[i].d \notin Ahead
  /\ \A i, j \in 1 .. Len(calls) : calls[i].d = calls[j].d => i = j

\* What was sent and what is to be sent
Out == received \o sm
ItemsOf(q) == {q[i] : i \in 1 .. Len(q)}
Listed == ItemsOf(Out)

NoRepeats(q) ==
  \A i, j \in 1 .. Len(q) : q[i] = q[j] /\ q[i] \in Nodes => i = j

\* Nothing is listed that lies ahead; without a short write all else is, and
\* counted.
ListedOK ==
  /\ NoRepeats(Out)
  /\ Listed \cap Nodes \subseteq Wanted(dir, opt) \ Ahead
  /\ calls # <<>> => Entry[dir].opens /\ Ahead \subseteq LedTo(InDir(dir), opt)
  /\ ~cut => /\ Wanted(dir, opt) \ Ahead \subseteq Listed
             /\ num = Cardinality(Wanted(dir, opt) \ Ahead)

Finished ==
  phase = "done" =>
    /\ sm = <<>>
    /\ ~cut /\ fmt # "csv" => received # <<>> /\ received[Len(received)] = Foot

IndexInv ==
  /\ IndexTypeOK
  /\ phase = "idle" => calls = <<>> /\ sm = <<>> /\ received = <<>> /\ num = 0 /\ cut = FALSE
  /\ phase # "idle" => StackOK /\ ListedOK /\ Finished
-----------------------------------------------------------------------------
(***************************************************************************)
(* Lists that grow by one item or lose their end                           *)
(***************************************************************************)

LEMMA Longer ==
  ASSUME NEW q \in Seq(Items), NEW n \in Items
  PROVE  /\ Append(q, n) \in Seq(Items)
         /\ ItemsOf(Append(q, n)) = ItemsOf(q) \cup {n}
         /\ NoRepeats(q) /\ (n \in Nodes => n \notin ItemsOf(q)) => NoRepeats(Append(q, n))
<1>1. /\ Append(q, n) \in Seq(Items) /\ Len(Append(q, n)) = Len(q) + 1 /\ Len(q) \in Nat
      /\ \A i \in 1 .. Len(q) : Append(q, n)[i] = q[i]
      /\ Append(q, n)[Len(q) + 1] = n
  BY AppendProperties
<1>2. 1 .. Len(Append(q, n)) = (1 .. Len(q)) \cup {Len(q) + 1}
  BY <1>1
<1>3. ItemsOf(Append(q, n)) = ItemsOf(q) \cup {n}
  BY <1>1, <1>2 DEF ItemsOf
<1>4. ASSUME NoRepeats(q), n \in Nodes => n \notin ItemsOf(q)
      PROVE  NoRepeats(Append(q, n))
  BY <1>1, <1>2, <1>4 DEF NoRepeats, ItemsOf
<1> QED BY <1>1, <1>3, <1>4

LEMMA Shorter ==
  ASSUME NEW q \in Seq(Items), NEW p \in Seq(Items), Len(p) <= Len(q),
         \A i \in 1 .. Len(p) : p[i] = q[i]
  PROVE  /\ NoRepeats(q) => NoRepeats(p)
         /\ ItemsOf(p) \subseteq ItemsOf(q)
<1>1. 1 .. Len(p) \subseteq 1 .. Len(q)
  OBVIOUS
<1> QED BY <1>1 DEF NoRepeats, ItemsOf

\* What is received after a write of the first k items of the list t
LEMMA PartReceived ==
  ASSUME NEW r \in Seq(Items), NEW t \in Seq(Items), NEW k \in 0 .. Len(t)
  PROVE  /\ r \o SubSeq(t, 1, k) \in Seq(Items)
         /\ Len(r \o SubSeq(t, 1, k)) <= Len(r \o t)
         /\ \A i \in 1 .. Len(r \o SubSeq(t, 1, k)) : (r \o SubSeq(t, 1, k))[i] = (r \o t)[i]
<1> DEFINE p == SubSeq(t, 1, k)
<1>1. /\ p \in Seq(Items) /\ Len(p) = k /\ \A i \in 1 .. k : p[i] = t[i]
  BY SubSeqProperties
<1> HIDE DEF p
<1>2. /\ r \o p \in Seq(Items) /\ Len(r \o p) = Len(r) + k
      /\ \A i \in 1 .. Len(r) + k : (r \o p)[i] = IF i <= Len(r) THEN r[i] ELSE p[i - Len(r)]
  BY <1>1, ConcatProperties
<1>3. /\ Len(r \o t) = Len(r) + Len(t)
      /\ \A i \in 1 .. Len(r) + Len(t) :
           (r \o t)[i] = IF i <= Len(r) THEN r[i] ELSE t[i - Len(r)]
  BY ConcatProperties
<1>4. ASSUME NEW i \in 1 .. Len(r \o p)
      PROVE  (r \o p)[i] = (r \o t)[i]
  <2>1. i \in 1 .. Len(r) + k /\ i \in 1 .. Len(r) + Len(t)
    BY <1>2
  <2>2. ~(i <= Len(r)) => i - Len(r) \in 1 .. k
    BY <2>1
  <2> QED BY <1>1, <1>2, <1>3, <2>1, <2>2
<1>5. Len(r \o p) <= Len(r \o t)
  BY <1>2, <1>3
<1> QED BY <1>2, <1>4, <1>5 DEF p

-----------------------------------------------------------------------------
(***************************************************************************)
(* The stack of calls                                                      *)
(***************************************************************************)

\* The pending calls, one by one
LEMMA CallsOK ==
  ASSUME NEW q \in Seq(CallSet)
  PROVE  /\ Len(q) \in Nat /\ (q # <<>> => Len(q) \in Nat \ {0})
         /\ \A i \in 1 .. Len(q) : /\ q[i] \in CallSet
                                   /\ q[i].d \in Nodes /\ q[i].todo \in SUBSET Entries
<1>1. \A i \in 1 .. Len(q) : q[i] \in CallSet
  BY ElementOfSeq
<1>2. \A c \in CallSet : c.d \in Nodes /\ c.todo \in SUBSET Entries
  BY DEF CallSet
<1>3. Len(q) \in Nat /\ (q # <<>> => Len(q) \in Nat \ {0})
  BY EmptySeq
<1> QED BY <1>1, <1>2, <1>3

LEMMA InTodo ==
  ASSUME NEW q
  PROVE  \A m : m \in TodoOf(q) <=> \E i \in 1 .. Len(q) : m \in q[i].todo
BY DEF TodoOf

LEMMA NothingTodo == TodoOf(<<>>) = {}
BY InTodo

LEMMA TodoOK ==
  ASSUME IndexTypeOK
  PROVE  /\ Todo \in SUBSET Entries
         /\ Todo \subseteq Ahead /\ Ahead \subseteq Entries
         /\ calls = <<>> => Todo = {} /\ Ahead = {}
<1>1. Todo \in SUBSET Entries
  BY CallsOK, InTodo DEF Todo, IndexTypeOK
<1>2. calls = <<>> => Todo = {}
  BY InTodo DEF Todo
<1> QED BY <1>1, <1>2, LedToIsClosed, NothingLedTo DEF Ahead

\* readdir() takes n from the innermost call, and changes nothing else.
LEMMA OneTaken ==
  ASSUME calls \in Seq(CallSet), calls # <<>>, NEW n
  PROVE  /\ Len(calls) \in Nat \ {0} /\ Caller \in Seq(CallSet) /\ Len(Caller) = Len(calls) - 1
         /\ \A i \in 1 .. Len(calls) - 1 : Caller[i] = calls[i]
         /\ Taken(n) \in Seq(CallSet) /\ Len(Taken(n)) = Len(calls)
         /\ \A i \in 1 .. Len(calls) :
              /\ Taken(n)[i].d = calls[i].d
              /\ Taken(n)[i].todo =
                   IF i = Len(calls) THEN calls[i].todo \ {n} ELSE calls[i].todo
<1>1. Len(calls) \in Nat \ {0}
  BY CallsOK
<1>2. /\ Caller \in Seq(CallSet) /\ Len(Caller) = Len(calls) - 1
      /\ \A i \in 1 .. Len(calls) - 1 : Caller[i] = calls[i]
  <2>1. \A i \in 1 .. Len(calls) - 1 : calls[i] \in CallSet
    BY <1>1, CallsOK
  <2> DEFINE h == Len(calls) - 1
  <2>2. h \in Int /\ h - 1 + 1 = h /\ h >= 0 /\ 1 \in Int
    BY <1>1
  <2> HIDE DEF h
  <2>3. /\ SubSeq(calls, 1, h) \in Seq(CallSet)
        /\ Len(SubSeq(calls, 1, h)) = IF 1 <= h THEN h - 1 + 1 ELSE 0
        /\ \A i \in 1 .. h - 1 + 1 : SubSeq(calls, 1, h)[i] = calls[1 + i - 1]
    <3>1. \A i \in 1 .. h : calls[i] \in CallSet
      BY <2>1 DEF h
    <3> QED BY <2>2, <3>1, SubSeqProperties
  <2>4. \A i \in 1 .. h : 1 + i - 1 = i
    BY <2>2
  <2>5. Len(SubSeq(calls, 1, h)) = h /\ \A i \in 1 .. h : SubSeq(calls, 1, h)[i] = calls[i]
    BY <2>2, <2>3, <2>4
  <2> QED BY <2>3, <2>5 DEF Caller, h
<1> DEFINE last == [Top EXCEPT !.todo = @ \ {n}]
<1>3. /\ Top = calls[Len(calls)] /\ Top \in CallSet
  BY <1>1, CallsOK DEF Top
<1>4. /\ last \in CallSet
      /\ last.d = calls[Len(calls)].d /\ last.todo = calls[Len(calls)].todo \ {n}
  BY <1>3 DEF CallSet
<1> HIDE DEF last
<1>5. /\ Append(Caller, last) \in Seq(CallSet) /\ Len(Append(Caller, last)) = Len(calls)
      /\ \A i \in 1 .. Len(calls) - 1 : Append(Caller, last)[i] = calls[i]
      /\ Append(Caller, last)[Len(calls)] = last
  BY <1>1, <1>2, <1>4, AppendProperties
<1>6. Taken(n) = Append(Caller, last)
  BY DEF Taken, last
<1>7. \A i \in 1 .. Len(calls) : i = Len(calls) \/ i \in 1 .. Len(calls) - 1
  BY <1>1
<1> HIDE DEF Caller
<1> QED BY <1>1, <1>2, <1>4, <1>5, <1>6, <1>7
\* An entry n that readdir() returns is dealt with, or descended into: it is
\* no longer ahead, and nothing else changes.
LEMMA TakeEntry ==
  ASSUME IndexTypeOK, StackOK, NEW n \in Nodes, NextEntry(n), UNCHANGED opt,
         calls' = IF Descends(n, opt) THEN Append(Taken(n), Call(n)) ELSE Taken(n),
         phase' \in {"walk", "send"}
  PROVE  /\ calls' \in Seq(CallSet) /\ calls' # <<>> /\ StackOK'
         /\ n \in Ahead /\ Ahead' = Ahead \ {n}
<1>1. calls \in Seq(CallSet) /\ calls # <<>>
  BY DEF IndexTypeOK, StackOK, NextEntry
<1>2. /\ Len(calls) \in Nat \ {0} /\ Taken(n) \in Seq(CallSet) /\ Len(Taken(n)) = Len(calls)
      /\ \A i \in 1 .. Len(calls) :
           /\ Taken(n)[i].d = calls[i].d
           /\ Taken(n)[i].todo = IF i = Len(calls) THEN calls[i].todo \ {n} ELSE calls[i].todo
  BY <1>1, OneTaken
<1> DEFINE k == Len(calls)
           t == Taken(n)
<1> HIDE DEF t
<1>3. k \in 1 .. k /\ n \in calls[k].todo
  BY <1>2 DEF NextEntry, Top
<1>4. n \in Todo /\ n \in Entries /\ n \in InDir(calls[k].d)
  <2>1. n \in Todo
    BY <1>3, InTodo DEF Todo
  <2> QED BY <1>3, <2>1, TodoOK DEF StackOK
<1>5. Entry[n].in = calls[k].d /\ Entry[n].in \notin Ahead
  BY <1>3, <1>4, DirsOfEntries DEF StackOK
\* n is in no other call's directory
<1>6. \A i \in 1 .. k : n \in calls[i].todo => i = k
  <2>1. ASSUME NEW i \in 1 .. k, n \in calls[i].todo
        PROVE  i = k
    <3>1. n \in InDir(calls[i].d)
      BY <2>1 DEF StackOK
    <3> QED BY <1>3, <1>4, <1>5, <3>1, DirsOfEntries DEF StackOK
  <2> QED BY <2>1
<1>7. TodoOf(t) = Todo \ {n}
  <2>1. \A i \in 1 .. k : t[i].todo = calls[i].todo \ {n}
    BY <1>2, <1>6 DEF t
  <2>2. Len(t) = k
    BY <1>2 DEF t
  <2> QED BY <2>1, <2>2, InTodo DEF Todo
<1>8. LedTo((Todo \ {n}) \cup Inside(n, opt), opt) = Ahead \ {n}
  BY <1>4, <1>5, TodoOK, OneLess DEF Ahead
<1>9. n \in Ahead
  BY <1>4, TodoOK
<1>10. CASE Descends(n, opt)
  <2> DEFINE c == Call(n)
             q == Append(t, c)
  <2>1. c \in CallSet /\ c.d = n /\ c.todo = InDir(n)
    BY DEF Call, InDir, Entries, CallSet
  <2> HIDE DEF c
  <2>2. /\ q \in Seq(CallSet) /\ Len(q) = k + 1 /\ q[k + 1] = c /\ q # <<>>
        /\ \A i \in 1 .. k : q[i] = t[i]
    BY <1>2, <2>1, AppendProperties DEF t
  <2>3. calls' = q
    BY <1>10 DEF t, c
  <2>4. 1 .. Len(q) = (1 .. k) \cup {k + 1}
    BY <1>2, <2>2
  <2> HIDE DEF q
  <2>5. Todo' = (Todo \ {n}) \cup Inside(n, opt)
    <3>1. Len(t) = k /\ \A i \in 1 .. k : q[i].todo = t[i].todo
      BY <1>2, <2>2 DEF t
    <3>2. q[k + 1].todo = InDir(n)
      BY <2>1, <2>2
    <3>3. TodoOf(q) = TodoOf(t) \cup InDir(n)
      <4>1. \A m : m \in TodoOf(q) <=> \E i \in (1 .. k) \cup {k + 1} : m \in q[i].todo
        BY <2>4, InTodo
      <4>2. \A m : m \in TodoOf(q) <=> (\E i \in 1 .. k : m \in t[i].todo) \/ m \in InDir(n)
        BY <3>1, <3>2, <4>1
      <4>3. \A m : m \in TodoOf(t) <=> \E i \in 1 .. k : m \in t[i].todo
        BY <3>1, InTodo
      <4> QED BY <4>2, <4>3
    <3>4. Todo' = TodoOf(q)
      BY <2>3 DEF Todo, TodoOf
    <3> QED BY <1>7, <1>10, <3>3, <3>4 DEF Inside
  <2>6. Ahead' = Ahead \ {n}
    BY <1>8, <2>5 DEF Ahead
  <2>7. ASSUME NEW i \in 1 .. Len(q)
        PROVE  q[i].todo \subseteq InDir(q[i].d) /\ q[i].d \notin Ahead'
    <3>1. CASE i \in 1 .. k
      BY <1>2, <2>2, <2>6, <3>1 DEF StackOK, t
    <3>2. CASE i = k + 1
      BY <2>1, <2>2, <2>6, <3>2
    <3> QED BY <2>4, <3>1, <3>2
  <2>8. ASSUME NEW i \in 1 .. Len(q), NEW j \in 1 .. Len(q), q[i].d = q[j].d
        PROVE  i = j
    <3>1. \A h \in 1 .. k : q[h].d = calls[h].d /\ q[h].d # n
      <4>1. \A h \in 1 .. k : q[h] = t[h] /\ t[h].d = calls[h].d
        BY <1>2, <2>2 DEF t
      <4>2. \A h \in 1 .. k : calls[h].d # n
        BY <1>9 DEF StackOK
      <4> QED BY <4>1, <4>2
    <3>2. q[k + 1].d = n
      BY <2>1, <2>2
    <3> QED BY <2>4, <2>8, <3>1, <3>2 DEF StackOK
  <2>9. phase' \in {"walk", "send"} /\ calls' # <<>>
    BY <2>2, <2>3
  <2> QED BY <1>9, <2>2, <2>3, <2>6, <2>7, <2>8, <2>9 DEF StackOK
<1>11. CASE ~Descends(n, opt)
  <2>1. calls' = t
    BY <1>11 DEF t
  <2>2. Todo' = (Todo \ {n}) \cup Inside(n, opt)
    <3>1. Todo' = TodoOf(t)
      BY <2>1 DEF Todo, TodoOf
    <3> QED BY <1>7, <1>11, <3>1 DEF Inside
  <2>3. Ahead' = Ahead \ {n}
    BY <1>8, <2>2 DEF Ahead
  <2>4. t # <<>>
    BY <1>2, EmptySeq DEF t
  <2>5. \A i \in 1 .. k : t[i].todo \subseteq InDir(t[i].d) /\ t[i].d \notin Ahead'
    BY <1>2, <2>3 DEF StackOK, t
  <2>6. \A i, j \in 1 .. k : t[i].d = t[j].d => i = j
    BY <1>2 DEF StackOK, t
  <2> QED BY <1>2, <1>9, <2>1, <2>3, <2>4, <2>5, <2>6 DEF StackOK, t
<1> QED BY <1>10, <1>11

\* closedir(): nothing was left in the innermost directory.
LEMMA CallEnds ==
  ASSUME IndexTypeOK, StackOK, LeaveDir
  PROVE  /\ calls' \in Seq(CallSet) /\ StackOK' /\ Ahead' = Ahead
<1>1. calls \in Seq(CallSet) /\ calls # <<>> /\ calls' = Caller /\ opt' = opt
  BY DEF IndexTypeOK, StackOK, LeaveDir, listing
<1>2. /\ Len(calls) \in Nat \ {0} /\ Caller \in Seq(CallSet) /\ Len(Caller) = Len(calls) - 1
      /\ \A i \in 1 .. Len(calls) - 1 : Caller[i] = calls[i]
  BY <1>1, OneTaken
<1>3. calls[Len(calls)].todo = {}
  BY DEF LeaveDir, Top
<1> DEFINE k == Len(calls)
           c == Caller
<1>4. 1 .. k = (1 .. Len(c)) \cup {k}
  BY <1>2
<1> HIDE DEF c
<1>5. TodoOf(c) = Todo
  <2>1. \A i \in 1 .. Len(c) : c[i].todo = calls[i].todo
    BY <1>2 DEF c
  <2> QED BY <1>3, <1>4, <2>1, InTodo DEF Todo
<1>6. Todo' = Todo /\ Ahead' = Ahead
  <2>1. Todo' = TodoOf(c)
    BY <1>1 DEF Todo, TodoOf, c
  <2> QED BY <1>1, <1>5, <2>1 DEF Ahead
<1>7. phase' \in {"walk", "send"} <=> c # <<>>
  BY DEF LeaveDir, c
<1>8. \A i \in 1 .. Len(c) : i \in 1 .. k /\ c[i] = calls[i]
  BY <1>2, <1>4 DEF c
<1> QED BY <1>1, <1>2, <1>6, <1>7, <1>8 DEF StackOK, c
-----------------------------------------------------------------------------
(***************************************************************************)
(* The steps                                                               *)
(***************************************************************************)

LEMMA WantedOK ==
  ASSUME NEW d \in Nodes, NEW o
  PROVE  /\ Wanted(d, o) \subseteq Entries /\ IsFiniteSet(Wanted(d, o))
         /\ Entry[d].opens =>
              \A n \in LedTo(InDir(d), o) : n \in Wanted(d, o) <=> Printable(n, o)
<1>1. InDir(d) \in SUBSET Entries
  BY DEF InDir, Entries
<1>2. Wanted(d, o) \subseteq Entries
  BY <1>1, LedToIsClosed DEF Wanted
<1>3. Wanted(d, o) \in SUBSET Nodes
  BY <1>2 DEF Entries
<1>4. IsFiniteSet(Wanted(d, o))
  BY <1>3, FS_Subset, TreeAssumption
<1> QED BY <1>2, <1>4 DEF Wanted

LEMMA OutOK ==
  ASSUME IndexTypeOK
  PROVE  Out \in Seq(Items)
BY ConcatProperties DEF IndexTypeOK, Out

\* Entries that are not to be listed are passed by.
LEMMA PassEntry ==
  ASSUME IndexTypeOK, StackOK, ListedOK, NEW n \in Nodes, NextEntry(n),
         UNCHANGED <<listing, sm, num, received, cut>>,
         calls' = IF Descends(n, opt) THEN Append(Taken(n), Call(n)) ELSE Taken(n),
         phase' \in {"walk", "send"}, ~Printable(n, opt)
  PROVE  IndexInv'
<1>1. UNCHANGED <<dir, fmt, opt>>
  BY DEF listing
<1>2. calls' \in Seq(CallSet) /\ calls' # <<>> /\ StackOK' /\ n \in Ahead /\ Ahead' = Ahead \ {n}
  BY <1>1, TakeEntry
<1>3. calls # <<>> /\ Entry[dir].opens /\ Ahead \subseteq LedTo(InDir(dir), opt)
  BY DEF StackOK, NextEntry, ListedOK
<1>4. n \notin Wanted(dir, opt)
  BY <1>2, <1>3, WantedOK DEF IndexTypeOK
<1>5. Wanted(dir, opt)' = Wanted(dir, opt) /\ Wanted(dir, opt)' \ Ahead' = Wanted(dir, opt) \ Ahead
  BY <1>1, <1>2, <1>4
<1>6. Out' = Out /\ Listed' = Listed
  BY DEF Out, Listed
<1>7. ListedOK'
  BY <1>1, <1>2, <1>3, <1>5, <1>6 DEF ListedOK
<1>8. IndexTypeOK'
  BY <1>1, <1>2 DEF IndexTypeOK
<1> QED BY <1>2, <1>7, <1>8 DEF IndexInv, Finished

LEMMA SkipKeeps ==
  ASSUME IndexTypeOK, StackOK, ListedOK, NEW n \in Nodes, SkipEntry(n)
  PROVE  IndexInv'
<1>1. ~Printable(n, opt) /\ ~Descends(n, opt)
  BY DEF SkipEntry, Printable, Descends, Descendable
<1>2. phase' \in {"walk", "send"}
  BY DEF SkipEntry, NextEntry
<1> QED BY <1>1, <1>2, PassEntry DEF SkipEntry

LEMMA DescendKeeps ==
  ASSUME IndexTypeOK, StackOK, ListedOK, NEW n \in Nodes, Descend(n)
  PROVE  IndexInv'
<1>1. ~Printable(n, opt)
  BY DEF Descend, Printable
<1>2. n \in Nodes \ {0}
  <2>1. n \in Todo
    <3>1. calls # <<>> /\ n \in calls[Len(calls)].todo
      BY DEF Descend, NextEntry, Top, StackOK
    <3>2. Len(calls) \in 1 .. Len(calls)
      BY <3>1, CallsOK DEF IndexTypeOK
    <3> QED BY <3>1, <3>2, InTodo DEF Todo
  <2> QED BY <2>1, TodoOK DEF Entries
<1>3. Descends(n, opt) <=> Entry[n].opens
  BY <1>2 DEF Descend, Descends, Descendable
<1>4. /\ calls' = IF Descends(n, opt) THEN Append(Taken(n), Call(n)) ELSE Taken(n)
      /\ phase' \in {"walk", "send"}
  BY <1>3 DEF Descend, NextEntry, AfterUnopened
<1> QED BY <1>1, <1>4, PassEntry DEF Descend

\* PrintEntry: one more of the entries that are wanted is listed and counted.
LEMMA PrintKeeps ==
  ASSUME IndexTypeOK, StackOK, ListedOK, NEW n \in Nodes, PrintEntry(n)
  PROVE  IndexInv'
<1>1. UNCHANGED <<dir, fmt, opt>> /\ UNCHANGED <<phase, received, cut>>
  BY DEF PrintEntry, listing
<1>2. Printable(n, opt) /\ ~Descends(n, opt)
  BY DEF PrintEntry, Printable, Descends, Descendable
<1>3. phase = "walk" /\ NextEntry(n) /\ calls' = Taken(n)
  BY DEF PrintEntry, NextEntry
<1>4. calls' \in Seq(CallSet) /\ calls' # <<>> /\ StackOK' /\ n \in Ahead /\ Ahead' = Ahead \ {n}
  BY <1>1, <1>2, <1>3, TakeEntry
<1>5. calls # <<>> /\ Entry[dir].opens /\ Ahead \subseteq LedTo(InDir(dir), opt)
  BY <1>3 DEF StackOK, ListedOK
<1> DEFINE W == Wanted(dir, opt)
<1>6. n \in W /\ IsFiniteSet(W)
  BY <1>2, <1>4, <1>5, WantedOK DEF IndexTypeOK
<1>7. W' = W
  BY <1>1
<1> HIDE DEF W
<1>8. W \ Ahead' = (W \ Ahead) \cup {n} /\ n \notin W \ Ahead
  BY <1>4, <1>6
<1>9. IsFiniteSet(W \ Ahead)
  BY <1>6, FS_Subset
<1>10. Cardinality(W \ Ahead') = Cardinality(W \ Ahead) + 1
  BY <1>8, <1>9, FS_AddElement
<1>11. n \in Items
  BY DEF Items
<1>12. Out' = Append(Out, n)
  <2>1. sm' = sm \o <<n>> /\ <<n>> \in Seq(Items)
    BY <1>11, AppendIsConcat DEF PrintEntry, IndexTypeOK
  <2>2. received \o (sm \o <<n>>) = (received \o sm) \o <<n>>
    BY <2>1, ConcatAssociative DEF IndexTypeOK
  <2> QED BY <1>1, <1>11, <2>1, <2>2, OutOK, AppendIsConcat DEF Out
<1>13. n \notin Listed
  BY <1>4 DEF ListedOK
<1>14. NoRepeats(Out') /\ Listed' = Listed \cup {n}
  BY <1>11, <1>12, <1>13, OutOK, Longer DEF Listed, ListedOK
<1>15. ListedOK'
  <2>1. Listed' \cap Nodes \subseteq W \ Ahead'
    BY <1>8, <1>14 DEF ListedOK, W
  <2>2. Ahead' \subseteq LedTo(InDir(dir), opt)
    BY <1>4, <1>5
  <2>3. ~cut => /\ W \ Ahead' \subseteq Listed'
                /\ num' = Cardinality(W \ Ahead')
    BY <1>8, <1>10, <1>14 DEF ListedOK, W, PrintEntry
  <2> QED BY <1>1, <1>5, <1>7, <1>14, <2>1, <2>2, <2>3 DEF ListedOK, W
<1>16. IndexTypeOK'
  BY <1>1, <1>4, <1>11, AppendProperties DEF PrintEntry, IndexTypeOK
<1> QED BY <1>1, <1>3, <1>4, <1>15, <1>16 DEF IndexInv, Finished

LEMMA LeaveKeeps ==
  ASSUME IndexTypeOK, StackOK, ListedOK, LeaveDir
  PROVE  IndexInv'
<1>1. UNCHANGED <<dir, fmt, opt>> /\ UNCHANGED <<sm, num, received, cut>>
  BY DEF LeaveDir, listing
<1>2. calls' \in Seq(CallSet) /\ StackOK' /\ Ahead' = Ahead
  BY CallEnds
<1>3. calls # <<>> /\ phase' \in {"end", "send"}
  BY DEF LeaveDir, StackOK
<1>4. Out' = Out /\ Listed' = Listed
  BY <1>1 DEF Out, Listed
<1>5. ListedOK'
  BY <1>1, <1>2, <1>3, <1>4 DEF ListedOK
<1>6. IndexTypeOK'
  BY <1>1, <1>2, <1>3 DEF IndexTypeOK
<1> QED BY <1>2, <1>3, <1>5, <1>6 DEF IndexInv, Finished
\* All of a list t is received, or the first k items.
LEMMA WriteOK ==
  ASSUME IndexTypeOK, NEW t \in Seq(Items), sm' = <<>>,
         \/ received' = received \o t
         \/ \E k \in 0 .. Len(t) - 1 : received' = received \o SubSeq(t, 1, k)
  PROVE  /\ received' \in Seq(Items) /\ Out' = received'
         /\ NoRepeats(received \o t) => NoRepeats(Out')
         /\ Listed' \subseteq ItemsOf(received \o t)
         /\ received' = received \o t => Listed' = ItemsOf(received \o t)
<1>1. received \o t \in Seq(Items)
  BY ConcatProperties DEF IndexTypeOK
<1>2. CASE received' = received \o t
  <2>1. Out' = received'
    BY <1>1, <1>2, ConcatEmptySeq DEF Out
  <2> QED BY <1>1, <1>2, <2>1 DEF Listed
<1>3. CASE \E k \in 0 .. Len(t) - 1 : received' = received \o SubSeq(t, 1, k)
  <2>0. \A k \in 0 .. Len(t) - 1 : k \in 0 .. Len(t)
    BY LenProperties
  <2>1. PICK k \in 0 .. Len(t) : received' = received \o SubSeq(t, 1, k)
    BY <1>3, <2>0
  <2>2. /\ received' \in Seq(Items) /\ Len(received') <= Len(received \o t)
        /\ \A i \in 1 .. Len(received') : received'[i] = (received \o t)[i]
    BY <2>1, PartReceived DEF IndexTypeOK
  <2>3. Out' = received'
    BY <2>2, ConcatEmptySeq DEF Out
  <2>4. /\ NoRepeats(received \o t) => NoRepeats(received')
        /\ ItemsOf(received') \subseteq ItemsOf(received \o t)
    BY <1>1, <2>2, Shorter
  <2>5. received' = received \o t => ItemsOf(received') = ItemsOf(received \o t)
    OBVIOUS
  <2> QED BY <2>2, <2>3, <2>4, <2>5 DEF Listed
<1> QED BY <1>2, <1>3

LEMMA SendKeeps ==
  ASSUME IndexTypeOK, StackOK, ListedOK, SendBuffer
  PROVE  IndexInv'
<1>1. /\ UNCHANGED <<dir, fmt, opt>> /\ UNCHANGED <<calls, num>> /\ sm' = <<>>
      /\ phase = "send" /\ phase' = "walk"
  BY DEF SendBuffer, listing
<1>2. Todo' = Todo /\ Ahead' = Ahead
  BY <1>1 DEF Todo, Ahead
<1>3. CASE sm = <<>>
  <2>1. UNCHANGED <<received, cut>> /\ Out' = Out /\ Listed' = Listed
    BY <1>1, <1>3 DEF SendBuffer, Out, Listed
  <2> QED BY <1>1, <1>2, <2>1 DEF IndexInv, IndexTypeOK, StackOK, ListedOK, Finished
<1>4. CASE sm # <<>>
  <2>1. /\ \/ received' = received \o sm
           \/ \E k \in 0 .. Len(sm) - 1 : received' = received \o SubSeq(sm, 1, k)
        /\ ~cut' => received' = received \o sm /\ ~cut
        /\ cut' \in BOOLEAN
    BY <1>4 DEF SendBuffer, SendAll, SendPart, IndexTypeOK
  <2>2. /\ received' \in Seq(Items) /\ Out' = received'
        /\ NoRepeats(Out) => NoRepeats(Out')
        /\ Listed' \subseteq Listed
        /\ received' = received \o sm => Listed' = Listed
    BY <1>1, <2>1, WriteOK DEF IndexTypeOK, Out, Listed
  <2>3. ListedOK'
    BY <1>1, <1>2, <2>1, <2>2 DEF ListedOK
  <2>4. IndexTypeOK'
    BY <1>1, <2>1, <2>2, EmptySeq DEF IndexTypeOK
  <2>5. StackOK'
    BY <1>1, <1>2 DEF StackOK
  <2> QED BY <1>1, <2>3, <2>4, <2>5 DEF IndexInv, Finished
<1> QED BY <1>3, <1>4

LEMMA AbortKeeps ==
  ASSUME IndexTypeOK, StackOK, ListedOK, AbortIndex
  PROVE  IndexInv'
<1>1. /\ UNCHANGED <<dir, fmt, opt>> /\ UNCHANGED <<sm, num, received>>
      /\ phase' = "end" /\ calls' = <<>> /\ cut'
  BY DEF AbortIndex, listing
<1>2. IndexTypeOK'
  BY <1>1, EmptySeq DEF IndexTypeOK
<1>3. Ahead' = {}
  <2>1. Todo' = {}
    BY <1>1, NothingTodo DEF Todo, TodoOf
  <2> QED BY <2>1, NothingLedTo DEF Ahead
<1>4. Out' = Out /\ Listed' = Listed
  BY <1>1 DEF Out, Listed
<1>5. ListedOK'
  BY <1>1, <1>3, <1>4 DEF ListedOK
<1>6. StackOK'
  BY <1>1 DEF StackOK
<1> QED BY <1>1, <1>2, <1>5, <1>6 DEF IndexInv, Finished

\* The last line is no entry.
LEMMA EndKeeps ==
  ASSUME IndexTypeOK, StackOK, ListedOK, EndIndex
  PROVE  IndexInv'
<1> DEFINE rest == sm \o Ending(fmt)
<1>1. /\ UNCHANGED <<dir, fmt, opt>> /\ UNCHANGED <<calls, num>> /\ sm' = <<>>
      /\ phase = "end" /\ phase' = "done" /\ calls = <<>>
  BY DEF EndIndex, listing, StackOK
<1>2. Todo' = Todo /\ Ahead' = Ahead
  BY <1>1 DEF Todo, Ahead
<1>3. /\ \/ received' = received \o rest
         \/ \E k \in 0 .. Len(rest) - 1 : received' = received \o SubSeq(rest, 1, k)
      /\ ~cut' => received' = received \o rest /\ ~cut
      /\ cut' \in BOOLEAN
  BY DEF EndIndex, IndexTypeOK
<1>4. Foot \in Items /\ Foot \notin Nodes
  BY TreeAssumption DEF Items
<1>5. /\ rest \in Seq(Items)
      /\ fmt = "csv" => received \o rest = Out
      /\ fmt # "csv" => received \o rest = Append(Out, Foot)
  <2>1. CASE fmt = "csv"
    BY <2>1, ConcatEmptySeq DEF Ending, IndexTypeOK, Out
  <2>2. CASE fmt # "csv"
    <3>1. <<Foot>> \in Seq(Items) /\ rest = sm \o <<Foot>>
      BY <1>4, <2>2 DEF Ending
    <3>2. received \o (sm \o <<Foot>>) = (received \o sm) \o <<Foot>>
      BY <3>1, ConcatAssociative DEF IndexTypeOK
    <3>3. Append(Out, Foot) = Out \o <<Foot>>
      BY <1>4, OutOK, AppendIsConcat
    <3>4. rest \in Seq(Items)
      BY <3>1, ConcatProperties DEF IndexTypeOK
    <3> HIDE DEF rest
    <3> QED BY <2>2, <3>1, <3>2, <3>3, <3>4 DEF Out
  <2> QED BY <2>1, <2>2
<1> HIDE DEF rest
<1>6. /\ NoRepeats(received \o rest)
      /\ ItemsOf(received \o rest) \cap Nodes = Listed \cap Nodes
      /\ Listed \subseteq ItemsOf(received \o rest)
  <2>1. CASE fmt = "csv"
    BY <1>5, <2>1 DEF ListedOK, Listed
  <2>2. CASE fmt # "csv"
    <3>1. /\ ItemsOf(Append(Out, Foot)) = ItemsOf(Out) \cup {Foot}
          /\ NoRepeats(Append(Out, Foot))
      BY <1>4, OutOK, Longer DEF ListedOK
    <3> QED BY <1>4, <1>5, <2>2, <3>1 DEF Listed
  <2> QED BY <2>1, <2>2
<1>7. /\ received' \in Seq(Items) /\ Out' = received' /\ NoRepeats(Out')
      /\ Listed' \subseteq ItemsOf(received \o rest)
      /\ received' = received \o rest => Listed' = ItemsOf(received \o rest)
  BY <1>1, <1>3, <1>5, <1>6, WriteOK
<1>8. IndexTypeOK'
  BY <1>1, <1>3, <1>7, EmptySeq DEF IndexTypeOK
<1>9. ListedOK'
  BY <1>1, <1>2, <1>3, <1>6, <1>7 DEF ListedOK
<1>10. StackOK'
  BY <1>1 DEF StackOK
<1>11. Finished'
  <2>1. ASSUME ~cut', fmt # "csv"
        PROVE  received' # <<>> /\ received'[Len(received')] = Foot
    <3>1. received' = Append(Out, Foot)
      BY <1>3, <1>5, <2>1
    <3> QED BY <1>4, <3>1, OutOK, AppendProperties
  <2> QED BY <1>1, <2>1 DEF Finished
<1> QED BY <1>1, <1>8, <1>9, <1>10, <1>11 DEF IndexInv

\* Nothing is listed before the first entry is read.
LEMMA StartKeeps ==
  ASSUME IndexInv, NEW d \in StartDirs, NEW f \in IndexFormats, NEW o \in IndexOptions,
         StartIndex(d, f, o)
  PROVE  IndexInv'
<1>1. /\ phase = "idle" /\ dir' = d /\ fmt' = f /\ opt' = o /\ sm' = Heading(f, d)
      /\ UNCHANGED <<num, received, cut>>
      /\ received = <<>> /\ num = 0 /\ cut = FALSE
  BY DEF StartIndex, IndexInv
<1>2. d \in Nodes /\ InDir(d) \in SUBSET Entries
  BY TreeAssumption DEF InDir, Entries
<1>3. /\ Preamble \in Items \ Nodes /\ Up \in Items \ Nodes
  BY TreeAssumption DEF Items
<1>4. sm' \in Seq(Items \ Nodes)
  <2> DEFINE X == Items \ Nodes
  <2>1. Preamble \in X /\ Up \in X
    BY <1>3
  <2> HIDE DEF X
  <2>2. <<>> \in Seq(X) /\ <<Preamble>> \in Seq(X) /\ <<Preamble, Up>> \in Seq(X)
    BY <2>1
  <2>3. Heading(f, d) \in {<<>>, <<Preamble>>, <<Preamble, Up>>}
    BY DEF Heading
  <2> QED BY <1>1, <2>2, <2>3 DEF X
<1>5. sm' \in Seq(Items) /\ Out' = sm'
  BY <1>1, <1>4, ConcatEmptySeq DEF Out
<1>6. NoRepeats(Out') /\ Listed' \cap Nodes = {}
  BY <1>4, <1>5 DEF NoRepeats, Listed, ItemsOf
<1>7. CASE Entry[d].opens
  <2> DEFINE c == Call(d)
  <2>1. c \in CallSet /\ c.d = d /\ c.todo = InDir(d)
    BY <1>2 DEF Call, CallSet
  <2> HIDE DEF c
  <2>2. phase' = "walk" /\ calls' = <<c>>
    BY <1>7 DEF StartIndex, c
  <2>3. calls' \in Seq(CallSet) /\ calls' # <<>> /\ Len(calls') = 1 /\ calls'[1] = c
    BY <2>1, <2>2
  <2>4. Todo' = InDir(d) /\ Ahead' = LedTo(InDir(d), o)
    <3> DEFINE q == <<c>>
    <3>0. Len(q) = 1 /\ q[1] = c /\ 1 .. Len(q) = {1}
      OBVIOUS
    <3> HIDE DEF q
    <3>1. TodoOf(q) = InDir(d)
      BY <2>1, <3>0, InTodo
    <3>2. Todo' = TodoOf(q)
      BY <2>2 DEF Todo, TodoOf, q
    <3> QED BY <1>1, <3>1, <3>2 DEF Ahead
  <2>5. d \notin Ahead'
    BY <1>2, <2>4, DeeperIsLater, TreeAssumption
  <2>6. StackOK'
    BY <2>1, <2>2, <2>3, <2>5 DEF StackOK
  <2>7. Wanted(d, o) \subseteq Ahead'
    BY <1>7, <2>4 DEF Wanted
  <2>8. Cardinality({}) = 0
    BY FS_EmptySet
  <2>9. Wanted(d, o) \ Ahead' = {}
    BY <2>7
  <2>10. ListedOK'
    BY <1>1, <1>6, <1>7, <2>4, <2>8, <2>9 DEF ListedOK
  <2>11. IndexTypeOK'
    BY <1>1, <1>2, <1>5, <2>2, <2>3, EmptySeq DEF IndexTypeOK
  <2> QED BY <2>2, <2>6, <2>10, <2>11 DEF IndexInv, Finished
<1>8. CASE ~Entry[d].opens
  <2>1. phase' = "end" /\ calls' = <<>>
    BY <1>8 DEF StartIndex
  <2>2. Wanted(d, o) = {}
    BY <1>8 DEF Wanted
  <2>3. Cardinality({}) = 0
    BY FS_EmptySet
  <2>4. Wanted(d, o) \ Ahead' = {}
    BY <2>2
  <2>5. ListedOK'
    BY <1>1, <1>6, <2>1, <2>3, <2>4 DEF ListedOK
  <2>6. IndexTypeOK'
    BY <1>1, <1>2, <1>5, <2>1, EmptySeq DEF IndexTypeOK
  <2>7. StackOK'
    BY <2>1 DEF StackOK
  <2> QED BY <2>1, <2>5, <2>6, <2>7 DEF IndexInv, Finished
<1> QED BY <1>7, <1>8

LEMMA IndexStep ==
  ASSUME IndexInv, [IndexNext]_indexVars
  PROVE  IndexInv'
<1>1. CASE UNCHANGED indexVars
  <2>1. UNCHANGED <<phase, dir, fmt, opt, calls, sm>> /\ UNCHANGED <<num, received, cut>>
    BY <1>1 DEF indexVars, listing
  <2> QED BY <2>1 DEF IndexInv, IndexTypeOK, StackOK, ListedOK, Finished, Todo, Ahead, Out, Listed
<1>2. CASE IndexNext
  <2>1. CASE phase = "idle"
    BY <1>2, <2>1, StartKeeps
    DEF IndexNext, SkipEntry, PrintEntry, Descend, NextEntry, LeaveDir, SendBuffer, AbortIndex, EndIndex
  <2>2. CASE phase # "idle"
    <3>1. IndexTypeOK /\ StackOK /\ ListedOK
      BY <2>2 DEF IndexInv
    <3> QED BY <1>2, <2>2, <3>1, SkipKeeps, PrintKeeps, DescendKeeps, LeaveKeeps, SendKeeps,
               AbortKeeps, EndKeeps DEF IndexNext, StartIndex
  <2> QED BY <2>1, <2>2
<1> QED BY <1>1, <1>2

THEOREM IndexInvariant == IndexSpec => []IndexInv
<1>1. IndexInit => IndexInv
  BY TreeAssumption, EmptySeq DEF IndexInit, IndexInv, IndexTypeOK
<1> QED BY <1>1, IndexStep, PTL DEF IndexSpec

LEMMA OccursOnce ==
  ASSUME IndexTypeOK, NoRepeats(received), NEW n \in Nodes
  PROVE  /\ Occurrences(n) <= 1
         /\ Occurrences(n) = 1 <=> n \in ItemsOf(received)
<1> DEFINE P == {i \in DOMAIN received : received[i] = n}
<1>1. DOMAIN received = 1 .. Len(received)
  BY DEF IndexTypeOK
<1>2. CASE n \in ItemsOf(received)
  <2>1. PICK i \in 1 .. Len(received) : received[i] = n
    BY <1>2 DEF ItemsOf
  <2>2. P = {i}
    BY <1>1, <2>1 DEF NoRepeats
  <2>3. Cardinality({i}) = 1
    BY FS_Singleton
  <2>4. Occurrences(n) = 1
    BY <2>2, <2>3 DEF Occurrences
  <2> QED BY <1>2, <2>4
<1>3. CASE n \notin ItemsOf(received)
  <2>1. P = {}
    BY <1>1, <1>3 DEF ItemsOf
  <2>2. Cardinality({}) = 0
    BY FS_EmptySet
  <2> QED BY <1>3, <2>1, <2>2 DEF Occurrences
<1> QED BY <1>2, <1>3

\* Whatever the tree and however it is read: the listing names every entry that
\* it should name, once, and the count is right; a listing that was cut short
\* names nothing twice (hdl_index_dir(), parse_dir()).
THEOREM ListingIsComplete == IndexSpec => []IndexComplete
<1>1. ASSUME IndexInv, phase = "done"
      PROVE  /\ \A n \in Nodes : Occurrences(n) <= 1
             /\ ~cut =>
                  /\ {n \in Nodes : Occurrences(n) = 1} = Wanted(dir, opt)
                  /\ num = Cardinality(Wanted(dir, opt))
                  /\ fmt # "csv" => received[Len(received)] = Foot
  <2>1. /\ IndexTypeOK /\ StackOK /\ ListedOK /\ Finished
        /\ sm = <<>> /\ calls = <<>>
    BY <1>1 DEF IndexInv, StackOK, Finished
  <2>2. Out = received
    BY <2>1, ConcatEmptySeq DEF Out, IndexTypeOK
  <2>3. Ahead = {}
    BY <2>1, TodoOK
  <2>4. \A n \in Nodes : Occurrences(n) <= 1 /\ (Occurrences(n) = 1 <=> n \in Listed)
    BY <2>1, <2>2, OccursOnce DEF ListedOK, Listed
  <2>5. ~cut => \A n \in Nodes : n \in Listed <=> n \in Wanted(dir, opt)
    BY <2>1, <2>3 DEF ListedOK
  <2>6. Wanted(dir, opt) \subseteq Nodes
    BY <2>1, WantedOK DEF IndexTypeOK, Entries
  <2>7. ~cut => num = Cardinality(Wanted(dir, opt))
    BY <2>1, <2>3 DEF ListedOK
  <2> QED BY <1>1, <2>1, <2>4, <2>5, <2>6, <2>7 DEF Finished
<1>2. IndexInv => IndexComplete
  BY <1>1 DEF IndexComplete
<1> QED BY <1>2, IndexInvariant, PTL
=============================================================================
