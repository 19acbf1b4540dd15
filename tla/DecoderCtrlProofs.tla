------------------------- MODULE DecoderCtrlProofs --------------------------
(***************************************************************************)
(* Proofs about DecoderCtrl, for any number of clients, admins and         *)
(* objects.  Four inductive invariants:                                    *)
(*                                                                         *)
(*  - XInv: lock_busy belongs to the admin that walks over the list, and   *)
(*    while it does nobody is counted in busycnt;                          *)
(*  - QInv: the objects that are linked plus the ones that threads have    *)
(*    already decided to append stay within the bound;                     *)
(*  - TypeInv: types, with the counters exact and the locals of a request  *)
(*    set where its steps use them;                                        *)
(*  - SingleInv, for one client at a time: what is in an object, who has   *)
(*    it and what the client asked for agree.                              *)
(***************************************************************************)
EXTENDS DecoderCtrl, FiniteSetTheorems, TLAPS

Outside == {"idle", "enter", "busyadd", "use"}
Window ==
  {"lookup", "infolock", "test", "gc", "scan", "append", "recycle",
   "recycling", "trylock", "claim", "lock", "open", "opening", "release_id",
   "leave", "fail"}
Purging == {"purge", "purgewait", "walk", "clearvid", "nextvid"}

BusyClients == {t \in Clients : pc[t] \in Window}

\* Where the threads are: admins never enter the window.
PcOK ==
  /\ pc \in [Threads -> Outside \cup Window \cup Purging]
  /\ \A t \in Clients : pc[t] \in Outside \cup Window

XInv ==
  /\ PcOK
  /\ lock_busy \in Admins \cup {None}
  /\ busycnt = Cardinality(BusyClients)
  /\ \A a \in Admins : pc[a] = "walk" <=> lock_busy = a
  /\ lock_busy # None => busycnt = 0

\* The clients that are going to append an object.
Appending ==
  {t \in Clients : pc[t] = "append" \/ (pc[t] = "recycle" /\ room[t] = TRUE)}

RoomOK == room \in [Threads -> BOOLEAN]

QInv ==
  /\ RoomOK
  /\ jvo \subseteq Objects
  /\ Root \in jvo
  /\ Cardinality(jvo) + Cardinality(Appending)
       <= MaxObjects + Cardinality(Clients) - 1

\* The clients that are busy, and that append, are finitely many.
LEMMA ClientSets ==
  /\ IsFiniteSet(BusyClients) /\ Cardinality(BusyClients) \in Nat
  /\ Cardinality(BusyClients) = 0 <=> BusyClients = {}
  /\ IsFiniteSet(Appending) /\ Cardinality(Appending) \in Nat
  /\ Cardinality(Appending) <= Cardinality(Clients)
  /\ Cardinality(Clients) \in Nat \ {0}
<1>1. BusyClients \in SUBSET Clients /\ Appending \in SUBSET Clients
  BY DEF BusyClients, Appending
<1>2. IsFiniteSet(Clients) /\ Clients # {}
  BY ThreadsAssumption
<1>3. IsFiniteSet(BusyClients) /\ IsFiniteSet(Appending)
  BY <1>1, <1>2, FS_Subset
<1>4. Cardinality(Appending) <= Cardinality(Clients)
  BY <1>1, <1>2, FS_Subset
<1>. QED
  BY <1>2, <1>3, <1>4, FS_CardinalityType, FS_EmptySet

-----------------------------------------------------------------------------
\* Nobody is busy at first.
LEMMA InitXInv == Init => XInv
<1>. SUFFICES ASSUME Init PROVE XInv
  OBVIOUS
<1>1. pc \in [Threads -> Outside \cup Window \cup Purging]
      /\ \A t \in Threads : pc[t] = "idle"
  BY DEF Init, Outside
<1>2. BusyClients = {}
  BY <1>1 DEF BusyClients, Window, Threads
<1>3. busycnt = Cardinality(BusyClients)
  BY <1>2, FS_EmptySet DEF Init
<1>4. PcOK
  BY <1>1 DEF PcOK, Outside, Threads
<1>5. \A a \in Admins : pc[a] # "walk" /\ a # None
  BY <1>1, NamesAssumption DEF Threads
<1>. QED
  BY <1>3, <1>4, <1>5 DEF Init, XInv

\* A step within the window or within the rest of the code, of a thread that
\* is not walking and does not start to.
LEMMA SameSide ==
  ASSUME XInv, NEW t \in Threads, NEW l \in Outside \cup Window \cup Purging,
         pc' = [pc EXCEPT ![t] = l],
         UNCHANGED <<busycnt, lock_busy>>,
         t \in Clients => /\ l \in Outside \cup Window
                          /\ pc[t] \in Window <=> l \in Window,
         t \in Admins => pc[t] # "walk" /\ l # "walk"
  PROVE  XInv'
<1>1. PcOK'
  BY DEF XInv, PcOK, Threads
<1>2. BusyClients' = BusyClients
  BY DEF XInv, PcOK, BusyClients, Threads
<1>3. \A a \in Admins : pc'[a] = "walk" <=> pc[a] = "walk"
  BY DEF XInv, PcOK, Threads
<1>. QED
  BY <1>1, <1>2, <1>3 DEF XInv

\* Every step of a client keeps XInv.
LEMMA ClientXInv ==
  ASSUME XInv, NEW t \in Clients, Client(t)
  PROVE  XInv'
<1>. t \in Threads /\ t \notin Admins
  BY ThreadsAssumption DEF Threads
<1>. DEFINE Moves(L) ==
       \E l \in L : pc' = [pc EXCEPT ![t] = l]
<1>within. ASSUME pc[t] \in Window, Moves(Window), UNCHANGED <<busycnt, lock_busy>>
           PROVE  XInv'
  <2>. PICK l \in Window : pc' = [pc EXCEPT ![t] = l]
    BY <1>within
  <2>. QED
    BY <1>within, SameSide
<1>1. CASE Enter(t)
  <2>1. "busyadd" \in Outside /\ pc[t] \notin Window /\ "busyadd" \notin Window
    BY <1>1 DEF Enter, Outside, Window
  <2>. QED
    BY <1>1, <2>1, SameSide DEF Enter, Goto, shared
<1>2. CASE BusyAdd(t)
  <2>. PICK l \in {"lookup", "test"} : pc' = [pc EXCEPT ![t] = l]
    BY <1>2 DEF BusyAdd, Goto
  <2>1. l \in Window /\ pc[t] \notin Window /\ l # "walk"
    BY <1>2 DEF BusyAdd, Window
  <2>2. PcOK'
    BY <2>1 DEF XInv, PcOK, Threads
  <2>3. BusyClients' = BusyClients \cup {t} /\ t \notin BusyClients
    BY <2>1 DEF XInv, PcOK, BusyClients, Threads
  <2>4. busycnt' = Cardinality(BusyClients')
    BY <1>2, <2>3, ClientSets, FS_AddElement DEF BusyAdd, XInv
  <2>5. \A a \in Admins : pc'[a] = pc[a]
    BY DEF XInv, PcOK, Threads
  <2>. QED
    BY <1>2, <2>2, <2>4, <2>5 DEF BusyAdd, BusyLockFree, XInv
<1>3. CASE BusyDec(t)
  <2>. PICK l \in {"use", "idle"} : pc' = [pc EXCEPT ![t] = l]
    BY <1>3 DEF BusyDec, Goto
  <2>1. l \in Outside /\ l \notin Window /\ pc[t] \in Window
    BY <1>3 DEF BusyDec, Window, Outside
  <2>2. PcOK'
    BY <2>1 DEF XInv, PcOK, Threads
  <2>3. BusyClients' = BusyClients \ {t} /\ t \in BusyClients
    BY <2>1 DEF XInv, PcOK, BusyClients, Threads
  <2>4. busycnt' = Cardinality(BusyClients')
    BY <1>3, <2>3, ClientSets, FS_RemoveElement DEF BusyDec, XInv
  <2>5. \A a \in Admins : pc'[a] = pc[a]
    BY DEF XInv, PcOK, Threads
  <2>. QED
    BY <1>3, <2>2, <2>4, <2>5 DEF BusyDec, XInv
<1>4. CASE Lookup(t)
  BY <1>4, <1>within DEF Lookup, Goto, shared, Window
<1>5. CASE InfoLock(t)
  BY <1>5, <1>within DEF InfoLock, TakeInfo, Goto, shared, Window
<1>6. CASE Test(t)
  BY <1>6, <1>within DEF Test, Goto, shared, Window
<1>7. CASE CollectGarbage(t)
  BY <1>7, <1>within DEF CollectGarbage, Goto, shared, Window
<1>8. CASE ScanUnused(t)
  BY <1>8, <1>within DEF ScanUnused, Goto, shared, Window
<1>9. CASE ScanUsed(t)
  BY <1>9, <1>within DEF ScanUsed, NoObject, Goto, shared, Window
<1>10. CASE Append(t)
  BY <1>10, <1>within DEF Append, Goto, shared, Window
<1>11. CASE Recycle(t)
  BY <1>11, <1>within DEF Recycle, NoObject, Goto, shared, Window
<1>12. CASE Recycled(t)
  BY <1>12, <1>within DEF Recycled, Goto, shared, Window
<1>13. CASE TryLock(t)
  BY <1>13, <1>within DEF TryLock, Goto, shared, Window
<1>14. CASE Claim(t)
  BY <1>14, <1>within DEF Claim, Goto, shared, Window
<1>15. CASE LockPending(t)
  BY <1>15, <1>within DEF LockPending, Goto, shared, Window
<1>16. CASE LockClosed(t)
  BY <1>16, <1>within DEF LockClosed, Goto, shared, Window
<1>17. CASE LockOther(t)
  BY <1>17, <1>within DEF LockOther, Take, TakeInfo, Goto, shared, Window
<1>18. CASE GetFn(t)
  BY <1>18, <1>within DEF GetFn, Goto, shared, Window
<1>19. CASE OpenOk(t)
  BY <1>19, <1>within DEF OpenOk, Take, TakeInfo, Goto, shared, Window
<1>20. CASE OpenFails(t)
  BY <1>20, <1>within DEF OpenFails, Goto, shared, Window
<1>21. CASE ReleaseId(t)
  BY <1>21, <1>within DEF ReleaseId, Goto, Window
<1>22. CASE Done(t)
  <2>1. "idle" \in Outside /\ pc[t] \notin Window /\ "idle" \notin Window
    BY <1>22 DEF Done, Outside, Window
  <2>. QED
    BY <1>22, <2>1, SameSide DEF Done, Goto, shared
<1>. QED
  BY <1>1, <1>2, <1>3, <1>4, <1>5, <1>6, <1>7, <1>8, <1>9, <1>10, <1>11,
     <1>12, <1>13, <1>14, <1>15, <1>16, <1>17, <1>18, <1>19, <1>20, <1>21,
     <1>22 DEF Client

\* Every step of an admin keeps XInv: the walk starts when nobody is busy.
LEMMA AdminXInv ==
  ASSUME XInv, NEW t \in Admins, Admin(t) \/ PurgeCaches(t)
  PROVE  XInv'
<1>. t \in Threads /\ t \notin Clients /\ t # None
  BY ThreadsAssumption, NamesAssumption DEF Threads
<1>1. CASE PurgeCaches(t) \/ PurgeFile(t)
  <2>1. "purgewait" \in Purging /\ pc[t] # "walk"
    BY <1>1 DEF PurgeCaches, PurgeFile, Purging
  <2>. QED
    BY <1>1, <2>1, SameSide DEF PurgeCaches, PurgeFile, PurgeBegin, Goto
<1>2. CASE PurgeWait(t)
  <2>1. PcOK' /\ BusyClients' = BusyClients
    BY <1>2 DEF PurgeWait, Goto, XInv, PcOK, BusyClients, Threads, Purging
  <2>2. \A a \in Admins : pc'[a] = "walk" <=> a = t
    BY <1>2, NamesAssumption DEF PurgeWait, Goto, XInv, PcOK, Threads
  <2>. QED
    BY <1>2, <2>1, <2>2 DEF PurgeWait, XInv
<1>3. CASE PurgeWalk(t)
  <2>. PICK l \in {"clearvid", "nextvid"} : pc' = [pc EXCEPT ![t] = l]
    BY <1>3 DEF PurgeWalk, Goto
  <2>1. PcOK' /\ BusyClients' = BusyClients
    BY DEF XInv, PcOK, BusyClients, Threads, Purging
  <2>2. \A a \in Admins : pc'[a] # "walk" /\ a # None
    BY <1>3, NamesAssumption DEF PurgeWalk, XInv, PcOK, Threads
  <2>. QED
    BY <1>3, <2>1, <2>2 DEF PurgeWalk, XInv
<1>4. CASE ClearVid(t)
  <2>1. "nextvid" \in Purging /\ pc[t] # "walk"
    BY <1>4 DEF ClearVid, Purging
  <2>. QED
    BY <1>4, <2>1, SameSide DEF ClearVid, Goto
<1>5. CASE NextVid(t)
  <2>. PICK l \in {"purge", "idle"} : pc' = [pc EXCEPT ![t] = l]
    BY <1>5 DEF NextVid, Goto
  <2>1. l \in Outside \cup Purging /\ pc[t] # "walk" /\ l # "walk"
    BY <1>5 DEF NextVid, Purging, Outside
  <2>. QED
    BY <1>5, <2>1, SameSide DEF NextVid
<1>. QED
  BY <1>1, <1>2, <1>3, <1>4, <1>5 DEF Admin

\* XInv holds in every reachable state.
THEOREM ExclusionInductive == Spec => []XInv
<1>1. Init => XInv
  BY InitXInv
<1>2. XInv /\ [Next]_vars => XInv'
  <2>. SUFFICES ASSUME XInv, [Next]_vars PROVE XInv'
    OBVIOUS
  <2>1. ASSUME NEW t \in Clients, Client(t) PROVE XInv'
    BY <2>1, ClientXInv
  <2>2. ASSUME NEW t \in Admins, Admin(t) \/ PurgeCaches(t) PROVE XInv'
    BY <2>2, AdminXInv
  <2>3. ASSUME NEW t \in Clients, NEW r \in Requests, Request(t, r) PROVE XInv'
    <3>1. t \in Threads /\ t \notin Admins
      BY ThreadsAssumption DEF Threads
    <3>2. "enter" \in Outside /\ pc[t] \notin Window /\ "enter" \notin Window
      BY <2>3 DEF Request, Outside, Window
    <3>. QED
      BY <2>3, <3>1, <3>2, SameSide DEF Request, Goto
  <2>4. CASE UNCHANGED vars
    BY <2>4 DEF vars, shared, local, XInv, PcOK, BusyClients
  <2>. QED
    BY <2>1, <2>2, <2>3, <2>4 DEF Next
<1>. QED
  BY <1>1, <1>2, PTL DEF Spec

\* While clearjvo() frees objects no thread is between BUSYADD and BUSYDEC,
\* although BUSYADD tests purge_in_progress without holding lock_busy.
THEOREM PurgeIsExclusive == Spec => []PurgeExclusive
<1>1. XInv => PurgeExclusive
  <2>. SUFFICES ASSUME XInv PROVE PurgeExclusive
    OBVIOUS
  <2>1. \A t \in Clients : Busy(t) <=> pc[t] \in Window
    BY DEF XInv, PcOK, Busy, Window, Outside
  <2>2. BusyClients = {t \in Clients : Busy(t)}
    BY <2>1 DEF BusyClients
  <2>3. ASSUME NEW a \in Admins, pc[a] = "walk"
        PROVE  /\ \A t \in Clients : ~Busy(t)
               /\ \A b \in Admins : pc[b] = "walk" => b = a
    <3>1. lock_busy = a /\ a # None
      BY <2>3, NamesAssumption DEF XInv, Threads
    <3>2. BusyClients = {}
      BY <3>1, ClientSets DEF XInv
    <3>. QED
      BY <3>1, <3>2, <2>2 DEF XInv
  <2>. QED
    BY <2>2, <2>3 DEF XInv, PurgeExclusive
<1>. QED
  BY <1>1, ExclusionInductive, PTL

-----------------------------------------------------------------------------
\* The linked objects are finitely many, and the head is one of them.
LEMMA Linked ==
  ASSUME QInv
  PROVE  IsFiniteSet(jvo) /\ Cardinality(jvo) \in Nat
  BY ObjectsAssumption, FS_Subset, FS_CardinalityType DEF QInv

\* One object is linked at first, and nobody appends.
LEMMA InitQInv == Init => QInv
<1>. SUFFICES ASSUME Init PROVE QInv
  OBVIOUS
<1>1. Appending = {}
  BY DEF Init, Appending, Threads
<1>2. Cardinality(Appending) = 0 /\ Cardinality(jvo) = 1
  BY <1>1, FS_EmptySet, FS_Singleton DEF Init
<1>. QED
  BY <1>2, ClientSets, ObjectsAssumption DEF Init, QInv, RoomOK

\* A step that links no object and after which no other thread appends.
LEMMA NoneMore ==
  ASSUME QInv, RoomOK', jvo' \subseteq jvo, Root \in jvo',
         Appending' \subseteq Appending
  PROVE  QInv'
<1>1. IsFiniteSet(Appending) /\ Cardinality(Appending) \in Nat
      /\ Cardinality(Clients) \in Nat
  BY ClientSets
<1>2. Cardinality(Appending') <= Cardinality(Appending)
      /\ Cardinality(Appending') \in Nat
  BY <1>1, FS_Subset, FS_CardinalityType
<1>3. Cardinality(jvo') <= Cardinality(jvo) /\ Cardinality(jvo') \in Nat
      /\ Cardinality(jvo) \in Nat
  BY Linked, FS_Subset, FS_CardinalityType
<1>. QED
  BY <1>1, <1>2, <1>3, ObjectsAssumption DEF QInv

\* A thread that saw room in the list may decide to append: every client may
\* have decided so on the same list.
LEMMA RoomSeen ==
  ASSUME QInv, RoomOK', HasRoom, jvo' = jvo
  PROVE  QInv'
<1>1. Appending' \in SUBSET Clients
  BY DEF Appending
<1>2. IsFiniteSet(Clients) /\ Cardinality(Clients) \in Nat
  BY ThreadsAssumption, FS_CardinalityType
<1>3. Cardinality(Appending') <= Cardinality(Clients)
      /\ Cardinality(Appending') \in Nat
  BY <1>1, <1>2, FS_Subset, FS_CardinalityType
<1>. QED
  BY <1>2, <1>3, Linked, ObjectsAssumption DEF QInv, HasRoom

\* A thread that goes on to something other than appending.
LEMMA GoesElsewhere ==
  ASSUME XInv, QInv, NEW t \in Threads, NEW l, l \notin {"append", "recycle"},
         pc' = [pc EXCEPT ![t] = l],
         RoomOK', \A u \in Clients : u # t => room'[u] = room[u],
         jvo' \subseteq jvo, Root \in jvo'
  PROVE  QInv'
<1>1. Appending' \subseteq Appending
  BY DEF XInv, PcOK, Appending, Threads
<1>. QED
  BY <1>1, NoneMore

\* Every step of a client keeps QInv.
LEMMA ClientQInv ==
  ASSUME XInv, QInv, NEW t \in Clients, Client(t)
  PROVE  QInv'
<1>. t \in Threads
  BY DEF Threads
<1>rest. ASSUME NEW l, l \notin {"append", "recycle"},
                pc' = [pc EXCEPT ![t] = l], room' = room, jvo' = jvo
         PROVE  QInv'
  BY <1>rest, GoesElsewhere DEF QInv, RoomOK
<1>1. CASE Enter(t)
  BY <1>1, <1>rest DEF Enter, Goto, object
<1>2. CASE BusyAdd(t)
  BY <1>2, <1>rest DEF BusyAdd, Goto, object
<1>3. CASE BusyDec(t)
  BY <1>3, <1>rest DEF BusyDec, Goto, object
<1>4. CASE Lookup(t)
  BY <1>4, <1>rest DEF Lookup, Goto, object
<1>5. CASE InfoLock(t)
  BY <1>5, <1>rest DEF InfoLock, TakeInfo, Goto
<1>6. CASE Test(t)
  BY <1>6, <1>rest DEF Test, Goto, object
<1>7. CASE CollectGarbage(t)
  BY <1>7, <1>rest DEF CollectGarbage, Goto
<1>8. CASE ScanUnused(t)
  BY <1>8, <1>rest DEF ScanUnused, Goto, object
<1>9. CASE ScanUsed(t)
  <2>. PICK b \in BOOLEAN : b <=> HasRoom
    OBVIOUS
  <2>b. b = HasRoom
    BY Linked, ObjectsAssumption DEF HasRoom
  <2>0. RoomOK'
    BY <1>9, <2>b DEF ScanUsed, QInv, RoomOK
  <2>1. CASE HasRoom
    BY <1>9, <2>0, <2>1, RoomSeen DEF ScanUsed, object
  <2>2. CASE ~HasRoom /\ pc' = [pc EXCEPT ![t] = "recycle"]
             /\ room' = [room EXCEPT ![t] = HasRoom]
    <3>1. Appending' \subseteq Appending
      BY <2>2, <2>b DEF XInv, QInv, RoomOK, PcOK, Appending, Threads
    <3>. QED
      BY <1>9, <2>0, <3>1, NoneMore DEF ScanUsed, object, QInv
  <2>3. CASE ~HasRoom /\ NoObject(t) /\ UNCHANGED room
    <3>. PICK l \in {"test", "fail"} : pc' = [pc EXCEPT ![t] = l]
      BY <2>3 DEF NoObject, Goto
    <3>. QED
      BY <1>9, <2>3, <1>rest DEF ScanUsed, object
  <2>. QED
    BY <1>9, <2>1, <2>2, <2>3 DEF ScanUsed, Goto
<1>10. CASE Append(t)
  <2>1. t \in Appending
    BY <1>10 DEF Append, Appending
  <2>2. Appending' = Appending \ {t}
    BY <1>10 DEF Append, Goto, XInv, PcOK, Appending, Threads
  <2>3. Cardinality(Appending') = Cardinality(Appending) - 1
    BY <2>1, <2>2, ClientSets, FS_RemoveElement
  <2>r. RoomOK'
    BY <1>10 DEF Append, QInv, RoomOK
  <2>4. PICK o \in Objects \ jvo : jvo' = jvo \cup {o}
    BY <1>10 DEF Append
  <2>5. Cardinality(jvo') = Cardinality(jvo) + 1
    BY <2>4, Linked, FS_AddElement
  <2>. QED
    BY <2>r, <2>3, <2>4, <2>5, Linked, ClientSets, ObjectsAssumption DEF QInv
<1>11. CASE Recycle(t)
  <2>0. room' = [room EXCEPT ![t] = FALSE] /\ jvo' = jvo /\ pc[t] = "recycle"
    BY <1>11 DEF Recycle
  <2>r. RoomOK' /\ room[t] \in BOOLEAN
    BY <2>0 DEF QInv, RoomOK
  <2>1. CASE room[t] /\ Goto(t, "append")
    <3>1. Appending' \subseteq Appending
      BY <2>0, <2>1, <2>r DEF Goto, XInv, QInv, RoomOK, PcOK, Appending, Threads
    <3>. QED
      BY <2>0, <2>r, <3>1, NoneMore DEF QInv
  <2>2. CASE Goto(t, "recycling") \/ NoObject(t)
    <3>. PICK l \in {"recycling", "test", "fail"} : pc' = [pc EXCEPT ![t] = l]
      BY <2>2 DEF NoObject, Goto
    <3>. QED
      BY <2>0, <2>r, GoesElsewhere DEF QInv, RoomOK, Threads
  <2>. QED
    BY <1>11, <2>r, <2>1, <2>2 DEF Recycle
<1>12. CASE Recycled(t)
  BY <1>12, <1>rest DEF Recycled, Goto
<1>13. CASE TryLock(t)
  BY <1>13, <1>rest DEF TryLock, Goto
<1>14. CASE Claim(t)
  BY <1>14, <1>rest DEF Claim, Goto
<1>15. CASE LockPending(t)
  BY <1>15, <1>rest DEF LockPending, Goto, object
<1>16. CASE LockClosed(t)
  BY <1>16, <1>rest DEF LockClosed, Goto
<1>17. CASE LockOther(t)
  BY <1>17, <1>rest DEF LockOther, Take, TakeInfo, Goto
<1>18. CASE GetFn(t)
  BY <1>18, <1>rest DEF GetFn, Goto
<1>19. CASE OpenOk(t)
  BY <1>19, <1>rest DEF OpenOk, Take, TakeInfo, Goto
<1>20. CASE OpenFails(t)
  BY <1>20, <1>rest DEF OpenFails, Goto
<1>21. CASE ReleaseId(t)
  BY <1>21, <1>rest DEF ReleaseId, Goto, object
<1>22. CASE Done(t)
  BY <1>22, <1>rest DEF Done, Goto
<1>. QED
  BY <1>1, <1>2, <1>3, <1>4, <1>5, <1>6, <1>7, <1>8, <1>9, <1>10, <1>11,
     <1>12, <1>13, <1>14, <1>15, <1>16, <1>17, <1>18, <1>19, <1>20, <1>21,
     <1>22 DEF Client

\* Every step of an admin keeps QInv: purges only unlink objects.
LEMMA AdminQInv ==
  ASSUME XInv, QInv, NEW t \in Admins, Admin(t) \/ PurgeCaches(t)
  PROVE  QInv'
<1>. t \in Threads
  BY DEF Threads
<1>1. CASE PurgeCaches(t) \/ PurgeFile(t)
  BY <1>1, GoesElsewhere DEF PurgeCaches, PurgeFile, PurgeBegin, Goto, object, QInv, RoomOK
<1>2. CASE PurgeWait(t)
  BY <1>2, GoesElsewhere DEF PurgeWait, Goto, object, QInv, RoomOK
<1>3. CASE PurgeWalk(t)
  <2>1. jvo' \subseteq jvo /\ Root \in jvo' /\ room' = room /\ RoomOK'
    BY <1>3 DEF PurgeWalk, Kept, QInv, RoomOK
  <2>. PICK l \in {"clearvid", "nextvid"} : pc' = [pc EXCEPT ![t] = l]
    BY <1>3 DEF PurgeWalk, Goto
  <2>. QED
    BY <2>1, GoesElsewhere
<1>4. CASE ClearVid(t)
  BY <1>4, GoesElsewhere DEF ClearVid, Goto, object, QInv, RoomOK
<1>5. CASE NextVid(t)
  <2>. PICK l \in {"purge", "idle"} : pc' = [pc EXCEPT ![t] = l]
    BY <1>5 DEF NextVid, Goto
  <2>. QED
    BY <1>5, GoesElsewhere DEF NextVid, object, QInv, RoomOK
<1>. QED
  BY <1>1, <1>2, <1>3, <1>4, <1>5 DEF Admin

\* QInv holds in every reachable state.
THEOREM PoolInductive == Spec => []QInv
<1>1. Init => QInv
  BY InitQInv
<1>2. XInv /\ QInv /\ [Next]_vars => QInv'
  <2>. SUFFICES ASSUME XInv, QInv, [Next]_vars PROVE QInv'
    OBVIOUS
  <2>1. ASSUME NEW t \in Clients, Client(t) PROVE QInv'
    BY <2>1, ClientQInv
  <2>2. ASSUME NEW t \in Admins, Admin(t) \/ PurgeCaches(t) PROVE QInv'
    BY <2>2, AdminQInv
  <2>3. ASSUME NEW t \in Clients, NEW r \in Requests, Request(t, r) PROVE QInv'
    BY <2>3, GoesElsewhere DEF Request, Goto, object, QInv, RoomOK, Threads
  <2>4. CASE UNCHANGED vars
    BY <2>4 DEF vars, object, local, QInv, RoomOK, Appending
  <2>. QED
    BY <2>1, <2>2, <2>3, <2>4 DEF Next
<1>. QED
  BY <1>1, <1>2, ExclusionInductive, PTL DEF Spec

\* max_objects is exceeded by at most one object per concurrent client but
\* one, whatever the clients, the garbage collection and the purges do.
THEOREM PoolIsBounded == Spec => []PoolBound
<1>1. QInv => PoolBound
  BY ClientSets, Linked, ObjectsAssumption DEF QInv, PoolBound
<1>. QED
  BY <1>1, PoolInductive, PTL

-----------------------------------------------------------------------------
(***************************************************************************)
(* Types. That the counters stay natural numbers needs that they are exact *)
(* - infolock_refcnt counts the info requests that hold the object,        *)
(* purge_in_progress the purges - and that a thread's locals are set where *)
(* they are used.                                                          *)
(***************************************************************************)

\* Where a client has an object, and where it has attempts left.
Pointing ==
  {"infolock", "recycle", "recycling", "trylock", "claim", "lock", "open", "opening",
   "release_id", "leave", "use"}
Trying == Window \ {"leave", "fail", "release_id"}

ClientOK(t) ==
  /\ pc[t] \in Pointing => ptr[t] \in Objects
  /\ pc[t] # "idle" => req[t] \in Decode \cup Info
  /\ pc[t] \in {"lookup", "infolock"} => req[t].op = "info"
  /\ pc[t] \in Trying => tries[t] \in 1 .. Timeout

LocalsOK ==
  /\ pc \in [Threads -> Outside \cup Window \cup Purging]
  /\ req \in [Threads -> Decode \cup Info \cup {None}]
  /\ ptr \in [Threads -> Objects \cup {None}]
  /\ tries \in [Threads -> 0 .. Timeout]
  /\ room \in [Threads -> BOOLEAN]
  /\ target \in [Threads -> Ids \cup {None}]
  /\ \A t \in Clients : ClientOK(t)
  /\ \A a \in Admins : pc[a] \in {"idle"} \cup Purging

ObjectsOK ==
  /\ jvo \subseteq Objects /\ Root \in jvo
  /\ flags \in [Objects -> SUBSET Flags]
  /\ id \in [Objects -> Ids \cup {None}]
  /\ fmt \in [Objects -> Fmts \cup {NoFmt}]
  /\ fresh \subseteq Objects
  /\ file \in [Objects -> Ids \cup {None}]
  /\ index \in [Objects -> [id : Ids, fmt : Fmts] \cup {None}]
  /\ lock \in [Objects -> Clients \cup {None}]
  /\ vml \subseteq Ids
  /\ lock_vml \in Admins \cup {None}

\* The counters.
RefsInv ==
  /\ refcnt \in [Objects -> Nat]
  /\ \A o \in Objects : refcnt[o] = Cardinality(InfoHolders(o))

Purges == {a \in Admins : pc[a] \in {"purgewait", "walk"}}
PurgesInv == purge = Cardinality(Purges)

LEMMA CounterSets ==
  /\ \A o : IsFiniteSet(InfoHolders(o)) /\ Cardinality(InfoHolders(o)) \in Nat
  /\ IsFiniteSet(Purges) /\ Cardinality(Purges) \in Nat
<1>1. IsFiniteSet(Clients) /\ IsFiniteSet(Admins)
  BY ThreadsAssumption
<1>2. Purges \in SUBSET Admins /\ \A o : InfoHolders(o) \in SUBSET Clients
  BY DEF Purges, InfoHolders
<1>3. IsFiniteSet(Purges) /\ \A o : IsFiniteSet(InfoHolders(o))
  BY <1>1, <1>2, FS_Subset
<1> QED BY <1>3, FS_CardinalityType

-----------------------------------------------------------------------------
\* infolock_refcnt: nobody comes or goes ...
LEMMA RefsUntouched ==
  ASSUME RefsInv, refcnt' = refcnt, \A o \in Objects : InfoHolders(o)' = InfoHolders(o)
  PROVE  RefsInv'
BY DEF RefsInv

\* ... because the thread that moves is not one that holds an object for info,
LEMMA RefsElsewhere ==
  ASSUME RefsInv, LocalsOK, refcnt' = refcnt, NEW t \in Threads,
         pc[t] \notin {"leave", "use"} \/ req[t].op # "info",
         pc'[t] \notin {"leave", "use"} \/ req'[t].op # "info",
         \A u \in Threads \ {t} : pc'[u] = pc[u] /\ req'[u] = req[u] /\ ptr'[u] = ptr[u]
  PROVE  RefsInv'
<1>1. \A o \in Objects : InfoHolders(o)' = InfoHolders(o)
  BY DEF InfoHolders, Threads
<1> QED BY <1>1, RefsUntouched

\* ... or a request takes its object for info.
LEMMA RefsTaken ==
  ASSUME RefsInv, LocalsOK, NEW t \in Clients, pc[t] \in {"infolock", "lock", "opening"},
         req[t].op = "info", refcnt' = [refcnt EXCEPT ![ptr[t]] = @ + 1],
         pc' = [pc EXCEPT ![t] = "leave"], UNCHANGED <<req, ptr>>
  PROVE  RefsInv'
<1>1. PICK o \in Objects : o = ptr[t]
  BY DEF LocalsOK, ClientOK, Pointing
<1>2. InfoHolders(o)' = InfoHolders(o) \cup {t} /\ t \notin InfoHolders(o)
  BY <1>1 DEF InfoHolders, LocalsOK, Threads
<1>3. \A p \in Objects \ {o} : InfoHolders(p)' = InfoHolders(p)
  BY <1>1 DEF InfoHolders, LocalsOK, Threads
<1>4. Cardinality(InfoHolders(o)') = Cardinality(InfoHolders(o)) + 1
  BY <1>2, CounterSets, FS_AddElement
<1>5. /\ refcnt' \in [Objects -> Nat]
      /\ refcnt'[o] = refcnt[o] + 1
      /\ \A p \in Objects \ {o} : refcnt'[p] = refcnt[p]
  BY <1>1 DEF RefsInv
<1> QED BY <1>1, <1>3, <1>4, <1>5 DEF RefsInv

LEMMA RefsReturned ==
  ASSUME RefsInv, LocalsOK, NEW t \in Clients, pc[t] = "use",
         req[t].op = "info", refcnt' = [refcnt EXCEPT ![ptr[t]] = @ - 1],
         pc' = [pc EXCEPT ![t] = "idle"],
         \A u \in Clients \ {t} : req'[u] = req[u] /\ ptr'[u] = ptr[u]
  PROVE  RefsInv'
<1>1. PICK o \in Objects : o = ptr[t]
  BY DEF LocalsOK, ClientOK, Pointing
<1>2. InfoHolders(o)' = InfoHolders(o) \ {t} /\ t \in InfoHolders(o)
  BY <1>1 DEF InfoHolders, LocalsOK, Threads
<1>3. \A p \in Objects \ {o} : InfoHolders(p)' = InfoHolders(p)
  BY <1>1 DEF InfoHolders, LocalsOK, Threads
<1>4. Cardinality(InfoHolders(o)') = Cardinality(InfoHolders(o)) - 1
  BY <1>2, CounterSets, FS_RemoveElement
<1>5. Cardinality(InfoHolders(o)') \in Nat
  <2>1. IsFiniteSet(InfoHolders(o) \ {t})
    BY CounterSets, FS_RemoveElement
  <2> QED BY <1>2, <2>1, FS_CardinalityType
<1>6. /\ refcnt' \in [Objects -> Nat]
      /\ refcnt'[o] = refcnt[o] - 1
      /\ \A p \in Objects \ {o} : refcnt'[p] = refcnt[p]
  BY <1>1, <1>4, <1>5 DEF RefsInv
<1> QED BY <1>1, <1>3, <1>4, <1>6 DEF RefsInv

\* No action but InfoLock, LockOther, OpenOk and Done counts.
LEMMA ClientRefs ==
  ASSUME RefsInv, LocalsOK, NEW t \in Clients, Client(t)
  PROVE  RefsInv'
<1>0. t \in Threads /\ ClientOK(t)
  BY DEF Threads, LocalsOK
<1>away. ASSUME refcnt' = refcnt, NEW l, l \notin {"leave", "use"}, pc[t] \notin {"leave", "use"},
                pc' = [pc EXCEPT ![t] = l],
                \A u \in Threads \ {t} : req'[u] = req[u] /\ ptr'[u] = ptr[u]
         PROVE  RefsInv'
  BY <1>away, <1>0, RefsElsewhere DEF LocalsOK
<1>take. ASSUME pc[t] \in {"infolock", "lock", "opening"}, UNCHANGED <<req, ptr>>,
                NEW f, Take(t, f)
         PROVE  RefsInv'
  <2>1. CASE req[t].op = "info" /\ TakeInfo(t, f)
    BY <1>take, <2>1, RefsTaken DEF TakeInfo, Goto
  <2>2. CASE req[t].op # "info" /\ Goto(t, "leave") /\ UNCHANGED refcnt
    BY <1>0, <1>take, <2>2, RefsElsewhere DEF Goto, LocalsOK
  <2>3. CASE Goto(t, "lock") /\ UNCHANGED refcnt
    BY <1>take, <2>3, <1>away DEF Goto
  <2> QED BY <1>take, <2>1, <2>2, <2>3 DEF Take
<1>1. CASE Enter(t) \/ BusyAdd(t) \/ Lookup(t) \/ Test(t)
  BY <1>1, <1>away DEF Enter, BusyAdd, Lookup, Test, Goto, Point, object, LocalsOK
<1>2. CASE BusyDec(t)
  <2>1. CASE pc[t] = "leave" /\ Goto(t, "use") /\ UNCHANGED <<req, ptr>>
    <3>1. \A o \in Objects : InfoHolders(o)' = InfoHolders(o)
      BY <1>0, <2>1 DEF InfoHolders, Goto, LocalsOK
    <3> QED BY <1>2, <3>1, RefsUntouched DEF BusyDec, object
  <2>2. CASE pc[t] = "fail" /\ Goto(t, "idle") /\ Reset(t)
    BY <1>2, <2>2, <1>away DEF BusyDec, Goto, Reset, Point, object, LocalsOK
  <2> QED BY <1>2, <2>1, <2>2 DEF BusyDec
<1>3. CASE CollectGarbage(t) \/ ScanUnused(t) \/ ScanUsed(t) \/ Append(t)
  BY <1>3, <1>away DEF CollectGarbage, ScanUnused, ScanUsed, NoObject, Append, Goto, Point,
     object, LocalsOK
<1>4. CASE Recycle(t) \/ Recycled(t) \/ TryLock(t) \/ Claim(t)
  BY <1>4, <1>away DEF Recycle, NoObject, Recycled, TryLock, Claim, Goto, Point, LocalsOK
<1>5. CASE LockPending(t) \/ LockClosed(t) \/ GetFn(t) \/ OpenFails(t) \/ ReleaseId(t)
  BY <1>5, <1>away DEF LockPending, LockClosed, GetFn, OpenFails, ReleaseId, Goto, Point,
     object, LocalsOK
<1>6. CASE InfoLock(t)
  <2>1. CASE TakeInfo(t, flags[ptr[t]])
    BY <1>0, <1>6, <2>1, RefsTaken DEF InfoLock, TakeInfo, Goto, ClientOK
  <2>2. CASE Goto(t, "lock") /\ UNCHANGED refcnt
    BY <1>6, <2>2, <1>away DEF InfoLock, Goto
  <2> QED BY <1>6, <2>1, <2>2 DEF InfoLock
<1>7. CASE LockOther(t)
  BY <1>7, <1>take DEF LockOther
<1>8. CASE OpenOk(t)
  BY <1>8, <1>take DEF OpenOk
<1>9. CASE Done(t)
  <2>1. \A u \in Threads \ {t} : req'[u] = req[u] /\ ptr'[u] = ptr[u]
    BY <1>9 DEF Done, Reset, Point, LocalsOK
  <2>2. CASE req[t].op = "info"
    BY <1>9, <2>1, <2>2, RefsReturned DEF Done, Goto, Threads
  <2>3. CASE req[t].op # "info"
    BY <1>0, <1>9, <2>1, <2>3, RefsElsewhere DEF Done, Goto, LocalsOK
  <2> QED BY <2>2, <2>3
<1> QED BY <1>1, <1>2, <1>3, <1>4, <1>5, <1>6, <1>7, <1>8, <1>9 DEF Client

\* Admins hold no objects.
LEMMA AdminRefs ==
  ASSUME RefsInv, LocalsOK, NEW t \in Admins, Admin(t) \/ PurgeCaches(t)
  PROVE  RefsInv'
<1>1. t \notin Clients
  BY ThreadsAssumption
<1>2. UNCHANGED <<refcnt, req, ptr>> /\ \E l : pc' = [pc EXCEPT ![t] = l]
  BY DEF Admin, PurgeCaches, PurgeFile, PurgeBegin, PurgeWait, PurgeWalk, ClearVid, NextVid,
         Goto, object
<1>3. \A o \in Objects : InfoHolders(o)' = InfoHolders(o)
  BY <1>1, <1>2 DEF InfoHolders, LocalsOK
<1> QED BY <1>2, <1>3, RefsUntouched

-----------------------------------------------------------------------------
\* purge_in_progress: incremented and decremented once by each purge.
LEMMA AdminPurges ==
  ASSUME PurgesInv, LocalsOK, NEW t \in Admins, Admin(t) \/ PurgeCaches(t)
  PROVE  PurgesInv'
<1>0. t \in Threads
  BY DEF Threads
<1>1. CASE PurgeBegin(t) /\ pc[t] \in {"idle", "purge"}
  <2>1. Purges' = Purges \cup {t} /\ t \notin Purges
    BY <1>0, <1>1 DEF PurgeBegin, Goto, Purges, LocalsOK, Threads
  <2> QED BY <1>1, <2>1, CounterSets, FS_AddElement DEF PurgeBegin, PurgesInv
<1>2. CASE PurgeWait(t)
  <2>1. Purges' = Purges
    BY <1>0, <1>2 DEF PurgeWait, Goto, Purges, LocalsOK, Threads
  <2> QED BY <1>2, <2>1 DEF PurgeWait, PurgesInv
<1>3. CASE PurgeWalk(t)
  <2>1. Purges' = Purges \ {t} /\ t \in Purges
    BY <1>0, <1>3 DEF PurgeWalk, Goto, Purges, LocalsOK, Threads
  <2> QED BY <1>3, <2>1, CounterSets, FS_RemoveElement DEF PurgeWalk, PurgesInv
<1>4. CASE ClearVid(t) \/ NextVid(t)
  <2>1. Purges' = Purges
    BY <1>0, <1>4 DEF ClearVid, NextVid, Goto, Purges, LocalsOK, Threads
  <2> QED BY <1>4, <2>1 DEF ClearVid, NextVid, PurgesInv
<1> QED BY <1>1, <1>2, <1>3, <1>4 DEF Admin, PurgeCaches, PurgeFile

LEMMA ClientPurges ==
  ASSUME PurgesInv, LocalsOK, NEW t \in Clients,
         Client(t) \/ \E r \in Requests : Request(t, r)
  PROVE  PurgesInv'
<1>1. t \notin Admins
  BY ThreadsAssumption
<1>2. purge' = purge /\ \E l : pc' = [pc EXCEPT ![t] = l]
  BY DEF Client, Request, Enter, BusyAdd, BusyDec, Lookup, InfoLock, TakeInfo, Test,
         CollectGarbage, ScanUnused, ScanUsed, NoObject, Append, Recycle, Recycled, TryLock,
         Claim, LockPending, LockClosed, LockOther, Take, GetFn, OpenOk, OpenFails,
         ReleaseId, Done, Goto, shared
<1>3. Purges' = Purges
  BY <1>1, <1>2 DEF Purges, LocalsOK
<1> QED BY <1>2, <1>3 DEF PurgesInv

-----------------------------------------------------------------------------
\* A client goes on to a place where what it needs is set.
LEMMA ClientMoves ==
  ASSUME LocalsOK, NEW t \in Clients, NEW l \in Outside \cup Window,
         pc' = [pc EXCEPT ![t] = l],
         req' \in [Threads -> Decode \cup Info \cup {None}],
         ptr' \in [Threads -> Objects \cup {None}],
         tries' \in [Threads -> 0 .. Timeout],
         room' \in [Threads -> BOOLEAN], target' = target,
         \A u \in Threads \ {t} : req'[u] = req[u] /\ ptr'[u] = ptr[u] /\ tries'[u] = tries[u],
         ClientOK(t)'
  PROVE  LocalsOK'
<1>1. t \in Threads /\ t \notin Admins
  BY ThreadsAssumption DEF Threads
<1>2. pc' \in [Threads -> Outside \cup Window \cup Purging]
  BY DEF LocalsOK
<1>3. \A u \in Threads \ {t} : pc'[u] = pc[u]
  BY DEF LocalsOK
<1>4. \A u \in Clients : ClientOK(u)'
  BY <1>3 DEF LocalsOK, ClientOK, Threads
<1>5. \A a \in Admins : pc'[a] = pc[a]
  BY <1>1, <1>3 DEF Threads
<1> QED BY <1>2, <1>4, <1>5 DEF LocalsOK

\* The common case: only the place and the pointer change.
LEMMA ClientGoes ==
  ASSUME LocalsOK, NEW t \in Clients, NEW l \in Outside \cup Window,
         pc' = [pc EXCEPT ![t] = l], UNCHANGED <<req, tries, target>>,
         room' \in [Threads -> BOOLEAN],
         ptr' = ptr \/ \E o \in Objects \cup {None} : ptr' = [ptr EXCEPT ![t] = o],
         pc[t] # "idle", l # "lookup",
         l = "infolock" => req[t].op = "info",
         l \in Pointing => ptr'[t] \in Objects,
         l \in Trying => pc[t] \in Trying
  PROVE  LocalsOK'
<1>1. t \in Threads /\ pc'[t] = l
  BY DEF LocalsOK, Threads
<1>2. ClientOK(t)'
  BY <1>1 DEF LocalsOK, ClientOK
<1>3. /\ ptr' \in [Threads -> Objects \cup {None}]
      /\ \A u \in Threads \ {t} : ptr'[u] = ptr[u]
  BY DEF LocalsOK
<1> QED BY <1>2, <1>3, ClientMoves DEF LocalsOK

LEMMA ClientLocals ==
  ASSUME LocalsOK, ObjectsOK, NEW t \in Clients, Client(t)
  PROVE  LocalsOK'
<1>0. t \in Threads /\ ClientOK(t)
  BY DEF Threads, LocalsOK
<1>r. \A r \in Decode \cup Info : r.op \in {"decode", "info"}
  BY DEF Decode, Info
<1>tries. 0 \in 0 .. Timeout /\ Timeout \in 0 .. Timeout /\ Timeout \in 1 .. Timeout
  BY ObjectsAssumption
<1>points. pc[t] \in Pointing => ptr[t] \in Objects
  BY <1>0 DEF ClientOK
<1>1. CASE Enter(t)
  BY <1>1, ClientGoes DEF Enter, Goto, LocalsOK, Outside, Pointing, Trying, Window
<1>2. CASE BusyAdd(t)
  <2>1. PICK l \in {"lookup", "test"} :
          pc' = [pc EXCEPT ![t] = l] /\ (l = "lookup" => req[t].op = "info")
    BY <1>2 DEF BusyAdd, Goto
  <2>2. /\ tries' = [tries EXCEPT ![t] = Timeout]
        /\ UNCHANGED <<req, ptr, room, target>> /\ pc[t] = "busyadd"
    BY <1>2 DEF BusyAdd
  <2>3. ClientOK(t)'
    BY <1>0, <1>tries, <2>1, <2>2 DEF LocalsOK, ClientOK, Pointing
  <2>4. tries' \in [Threads -> 0 .. Timeout]
    BY <1>tries, <2>2 DEF LocalsOK
  <2>5. l \in Outside \cup Window
    BY <2>1 DEF Window
  <2> QED BY <2>1, <2>2, <2>3, <2>4, <2>5, ClientMoves DEF LocalsOK
<1>3. CASE BusyDec(t)
  <2>1. /\ tries' \in [Threads -> 0 .. Timeout]
        /\ \A u \in Threads \ {t} : tries'[u] = tries[u]
    <3>1. tries' = [tries EXCEPT ![t] = 0]
      BY <1>3 DEF BusyDec
    <3> QED BY <1>tries, <3>1 DEF LocalsOK
  <2>2. CASE pc[t] = "leave" /\ Goto(t, "use") /\ UNCHANGED <<req, ptr>>
    <3>1. ClientOK(t)'
      BY <1>0, <2>2 DEF Goto, LocalsOK, ClientOK, Pointing, Trying, Window
    <3> QED BY <1>3, <2>1, <2>2, <3>1, ClientMoves DEF BusyDec, Goto, LocalsOK, Outside
  <2>3. CASE pc[t] = "fail" /\ Goto(t, "idle") /\ Reset(t)
    <3>1. ClientOK(t)'
      BY <1>0, <2>3 DEF Goto, LocalsOK, ClientOK, Pointing, Trying, Window
    <3>2. /\ req' \in [Threads -> Decode \cup Info \cup {None}]
          /\ ptr' \in [Threads -> Objects \cup {None}]
          /\ \A u \in Threads \ {t} : req'[u] = req[u] /\ ptr'[u] = ptr[u]
      BY <2>3 DEF Reset, Point, LocalsOK
    <3> QED BY <1>3, <2>1, <2>3, <3>1, <3>2, ClientMoves DEF BusyDec, Goto, LocalsOK, Outside
  <2> QED BY <1>3, <2>2, <2>3 DEF BusyDec
<1>noobj. ASSUME NoObject(t), pc[t] \in Trying, UNCHANGED <<req, target>>,
                 room' \in [Threads -> BOOLEAN]
          PROVE  LocalsOK'
  <2>1. tries[t] \in 1 .. Timeout /\ tries[t] - 1 \in 0 .. Timeout
    BY <1>0, <1>noobj, ObjectsAssumption DEF ClientOK
  <2>2. PICK l \in {"test", "fail"} :
          pc' = [pc EXCEPT ![t] = l] /\ (l = "test" => tries[t] - 1 \in 1 .. Timeout)
    <3>1. CASE tries[t] > 1
      <4>1. tries[t] - 1 \in 1 .. Timeout
        BY <2>1, <3>1, ObjectsAssumption
      <4> QED BY <1>noobj, <3>1, <4>1 DEF NoObject, Goto
    <3>2. CASE ~(tries[t] > 1)
      BY <1>noobj, <3>2 DEF NoObject, Goto
    <3> QED BY <3>1, <3>2
  <2>3. tries' = [tries EXCEPT ![t] = tries[t] - 1] /\ ptr' = [ptr EXCEPT ![t] = None]
    BY <1>noobj DEF NoObject, Point
  <2>4. /\ tries' \in [Threads -> 0 .. Timeout]
        /\ ptr' \in [Threads -> Objects \cup {None}]
        /\ \A u \in Threads \ {t} : ptr'[u] = ptr[u] /\ tries'[u] = tries[u]
    BY <2>1, <2>3 DEF LocalsOK
  <2>5. pc[t] # "idle"
    BY <1>noobj DEF Trying, Window
  <2>6. ClientOK(t)'
    BY <1>0, <1>noobj, <2>2, <2>3, <2>5 DEF LocalsOK, ClientOK, Pointing, Trying
  <2>7. l \in Outside \cup Window
    BY <2>2 DEF Window
  <2> QED BY <1>noobj, <2>2, <2>4, <2>6, <2>7, ClientMoves DEF LocalsOK
<1>4. CASE Lookup(t)
  <2>1. req[t].op = "info"
    BY <1>0, <1>4 DEF Lookup, ClientOK
  <2>2. CASE Goto(t, "test") /\ UNCHANGED ptr
    BY <1>4, <2>2, ClientGoes DEF Lookup, Goto, LocalsOK, Pointing, Trying, Window
  <2>3. ASSUME NEW o \in Objects, Point(t, o), Goto(t, "infolock") PROVE LocalsOK'
    BY <1>0, <1>4, <2>1, <2>3, ClientGoes DEF Lookup, Goto, Point, LocalsOK, Trying, Window
  <2> QED BY <1>4, <2>2, <2>3 DEF Lookup, Indexed
<1>5. CASE InfoLock(t)
  <2>1. PICK l \in {"leave", "lock"} : pc' = [pc EXCEPT ![t] = l]
    BY <1>5 DEF InfoLock, TakeInfo, Goto
  <2> QED BY <1>5, <1>points, <2>1, ClientGoes DEF InfoLock, LocalsOK, Pointing, Trying, Window
<1>6. CASE Test(t)
  <2>1. CASE Goto(t, "gc") /\ UNCHANGED ptr
    BY <1>6, <2>1, ClientGoes DEF Test, Goto, LocalsOK, Pointing, Trying, Window
  <2>2. ASSUME NEW o \in Objects, Point(t, o), Goto(t, "lock") PROVE LocalsOK'
    BY <1>0, <1>6, <2>2, ClientGoes DEF Test, Goto, Point, LocalsOK, Trying, Window
  <2>3. Preferred(Candidates(req[t])) \subseteq Objects
    BY DEF Preferred, Candidates, ObjectsOK
  <2> QED BY <1>6, <2>1, <2>2, <2>3 DEF Test
<1>7. CASE CollectGarbage(t)
  BY <1>7, ClientGoes DEF CollectGarbage, Goto, LocalsOK, Pointing, Trying, Window
<1>8. CASE ScanUnused(t)
  <2>1. PICK o \in Objects : ptr' = [ptr EXCEPT ![t] = o]
    BY <1>8 DEF ScanUnused, Point, ObjectsOK
  <2> QED BY <1>0, <1>8, <2>1, ClientGoes DEF ScanUnused, Goto, LocalsOK, Trying, Window
<1>9. CASE ScanUsed(t)
  <2>0. HasRoom \in BOOLEAN
    BY DEF HasRoom
  <2>1. CASE Goto(t, "append") /\ UNCHANGED <<ptr, tries, room>>
    BY <1>9, <2>1, ClientGoes DEF ScanUsed, Goto, LocalsOK, Pointing, Trying, Window
  <2>2. ASSUME NEW o \in Objects, Point(t, o), Goto(t, "recycle"), UNCHANGED tries,
               room' = [room EXCEPT ![t] = HasRoom]
        PROVE  LocalsOK'
    <3>1. room' \in [Threads -> BOOLEAN]
      BY <2>0, <2>2 DEF LocalsOK
    <3> QED BY <1>0, <1>9, <2>2, <3>1, ClientGoes
            DEF ScanUsed, Goto, Point, LocalsOK, Trying, Window
  <2>3. CASE NoObject(t) /\ UNCHANGED room
    BY <1>9, <2>3, <1>noobj DEF ScanUsed, LocalsOK, Trying, Window
  <2> QED BY <1>9, <2>1, <2>2, <2>3 DEF ScanUsed, ObjectsOK
<1>10. CASE Append(t)
  <2>1. PICK o \in Objects : ptr' = [ptr EXCEPT ![t] = o]
    BY <1>10 DEF Append, Point
  <2> QED BY <1>0, <1>10, <2>1, ClientGoes DEF Append, Goto, LocalsOK, Trying, Window
<1>11. CASE Recycle(t)
  <2>0. room' \in [Threads -> BOOLEAN]
    BY <1>11 DEF Recycle, LocalsOK
  <2>1. CASE Goto(t, "recycling") /\ UNCHANGED <<ptr, tries>>
    BY <1>11, <1>points, <2>0, <2>1, ClientGoes
    DEF Recycle, Goto, LocalsOK, Pointing, Trying, Window
  <2>2. CASE Goto(t, "append") /\ Point(t, None) /\ UNCHANGED tries
    BY <1>11, <2>0, <2>2, ClientGoes
    DEF Recycle, Goto, Point, LocalsOK, Pointing, Trying, Window
  <2>3. CASE NoObject(t)
    BY <1>11, <2>0, <2>3, <1>noobj DEF Recycle, Trying, Window
  <2> QED BY <1>11, <2>1, <2>2, <2>3 DEF Recycle
<1>12. CASE Recycled(t) \/ TryLock(t) \/ Claim(t)
  <2>1. PICK l \in {"trylock", "claim", "lock"} : pc' = [pc EXCEPT ![t] = l]
    BY <1>12 DEF Recycled, TryLock, Claim, Goto
  <2> QED BY <1>12, <1>points, <2>1, ClientGoes
          DEF Recycled, TryLock, Claim, LocalsOK, Pointing, Trying, Window
<1>13. CASE LockPending(t)
  <2>1. /\ pc' = [pc EXCEPT ![t] = "test"] /\ ptr' = [ptr EXCEPT ![t] = None]
        /\ tries' = [tries EXCEPT ![t] = Timeout]
        /\ UNCHANGED <<req, room, target>> /\ pc[t] = "lock"
    BY <1>13 DEF LockPending, Goto, Point
  <2>2. /\ tries' \in [Threads -> 0 .. Timeout]
        /\ ptr' \in [Threads -> Objects \cup {None}]
        /\ \A u \in Threads \ {t} : ptr'[u] = ptr[u] /\ tries'[u] = tries[u]
    BY <1>tries, <2>1 DEF LocalsOK
  <2>3. ClientOK(t)'
    BY <1>0, <1>tries, <2>1 DEF LocalsOK, ClientOK, Pointing
  <2> QED BY <2>1, <2>2, <2>3, ClientMoves DEF LocalsOK, Window
<1>14. CASE LockClosed(t)
  BY <1>14, <1>points, ClientGoes DEF LockClosed, Goto, LocalsOK, Pointing, Trying, Window
<1>15. CASE LockOther(t)
  <2>1. PICK l \in {"leave", "lock"} : pc' = [pc EXCEPT ![t] = l]
    BY <1>15 DEF LockOther, Take, TakeInfo, Goto
  <2> QED BY <1>15, <1>points, <2>1, ClientGoes
          DEF LockOther, LocalsOK, Pointing, Trying, Window
<1>16. CASE GetFn(t)
  <2>1. /\ pc' = [pc EXCEPT ![t] = "opening"] /\ pc[t] = "open"
        /\ req' = [req EXCEPT ![t].fmt = Concrete(@)]
        /\ UNCHANGED <<ptr, tries, room, target>>
    BY <1>16 DEF GetFn, Goto
  <2>2. ASSUME NEW r \in Decode \cup Info
        PROVE  [r EXCEPT !.fmt = Concrete(@)] \in Decode \cup Info
    BY NamesAssumption DEF Decode, Info, Concrete
  <2>3. req[t] \in Decode \cup Info
    BY <1>0, <2>1 DEF ClientOK
  <2>4. /\ req' \in [Threads -> Decode \cup Info \cup {None}]
        /\ req'[t] \in Decode \cup Info
        /\ \A u \in Threads \ {t} : req'[u] = req[u]
    BY <1>0, <2>1, <2>2, <2>3 DEF LocalsOK
  <2>5. ClientOK(t)'
    BY <1>0, <2>1, <2>4 DEF LocalsOK, ClientOK, Pointing, Trying, Window
  <2> QED BY <2>1, <2>4, <2>5, ClientMoves DEF LocalsOK, Window
<1>17. CASE OpenOk(t)
  <2>1. PICK l \in {"leave", "lock"} : pc' = [pc EXCEPT ![t] = l]
    BY <1>17 DEF OpenOk, Take, TakeInfo, Goto
  <2> QED BY <1>17, <1>points, <2>1, ClientGoes DEF OpenOk, LocalsOK, Pointing, Trying, Window
<1>18. CASE OpenFails(t) \/ ReleaseId(t)
  <2>1. PICK l \in {"release_id", "fail"} : pc' = [pc EXCEPT ![t] = l]
    BY <1>18 DEF OpenFails, ReleaseId, Goto
  <2> QED BY <1>18, <1>points, <2>1, ClientGoes
          DEF OpenFails, ReleaseId, LocalsOK, Pointing, Trying, Window
<1>19. CASE Done(t)
  <2>1. /\ req' \in [Threads -> Decode \cup Info \cup {None}]
        /\ ptr' \in [Threads -> Objects \cup {None}]
        /\ \A u \in Threads \ {t} : req'[u] = req[u] /\ ptr'[u] = ptr[u]
    BY <1>19 DEF Done, Reset, Point, LocalsOK
  <2>2. ClientOK(t)'
    BY <1>0, <1>19 DEF Done, Goto, LocalsOK, ClientOK, Pointing, Trying, Window
  <2> QED BY <1>19, <2>1, <2>2, ClientMoves DEF Done, Goto, LocalsOK, Outside
<1> QED BY <1>1, <1>2, <1>3, <1>4, <1>5, <1>6, <1>7, <1>8, <1>9, <1>10, <1>11, <1>12, <1>13,
           <1>14, <1>15, <1>16, <1>17, <1>18, <1>19 DEF Client

\* An admin that purges.
LEMMA AdminLocals ==
  ASSUME LocalsOK, ObjectsOK, NEW t \in Admins, Admin(t) \/ PurgeCaches(t)
  PROVE  LocalsOK'
<1>0. t \in Threads /\ t \notin Clients
  BY ThreadsAssumption DEF Threads
<1>goes. ASSUME NEW l \in {"idle"} \cup Purging, pc' = [pc EXCEPT ![t] = l],
                UNCHANGED <<req, ptr, tries, room>>,
                target' \in [Threads -> Ids \cup {None}]
         PROVE  LocalsOK'
  <2>1. pc' \in [Threads -> Outside \cup Window \cup Purging]
    BY <1>goes DEF LocalsOK, Outside
  <2>2. \A u \in Threads \ {t} : pc'[u] = pc[u]
    BY <1>goes DEF LocalsOK
  <2>3. \A u \in Clients : ClientOK(u)'
    BY <1>0, <1>goes, <2>2 DEF LocalsOK, ClientOK, Threads
  <2>4. \A a \in Admins : pc'[a] \in {"idle"} \cup Purging
    BY <1>0, <1>goes, <2>2 DEF LocalsOK, Threads
  <2> QED BY <1>goes, <2>1, <2>3, <2>4 DEF LocalsOK
<1>1. CASE PurgeBegin(t)
  BY <1>1, <1>goes DEF PurgeBegin, Goto, LocalsOK, Purging
<1>2. CASE PurgeWait(t) \/ ClearVid(t)
  BY <1>2, <1>goes DEF PurgeWait, ClearVid, Goto, LocalsOK, Purging
<1>3. CASE PurgeWalk(t)
  <2>1. PICK l \in {"clearvid", "nextvid"} : pc' = [pc EXCEPT ![t] = l]
    BY <1>3 DEF PurgeWalk, Goto
  <2> QED BY <1>3, <2>1, <1>goes DEF PurgeWalk, LocalsOK, Purging
<1>4. CASE NextVid(t)
  <2>1. PICK l \in {"purge", "idle"}, i \in Ids \cup {None} :
          pc' = [pc EXCEPT ![t] = l] /\ target' = [target EXCEPT ![t] = i]
    BY <1>4 DEF NextVid, Goto, ObjectsOK
  <2>2. target' \in [Threads -> Ids \cup {None}]
    BY <2>1 DEF LocalsOK
  <2> QED BY <1>4, <2>1, <2>2, <1>goes DEF NextVid, Purging
<1> QED BY <1>1, <1>2, <1>3, <1>4 DEF Admin, PurgeCaches, PurgeFile

-----------------------------------------------------------------------------
\* Clearing objects keeps the types of their fields.
LEMMA ClearedObjects ==
  ASSUME ObjectsOK, NEW S, Cleared(S), jvo' \subseteq Objects, Root \in jvo',
         lock' \in [Objects -> Clients \cup {None}], UNCHANGED <<vml, lock_vml>>
  PROVE  ObjectsOK'
<1>1. fresh' \subseteq Objects
  BY DEF ObjectsOK, Cleared
<1>2. flags' \in [Objects -> SUBSET Flags]
  BY DEF ObjectsOK, Cleared
<1>3. id' \in [Objects -> Ids \cup {None}] /\ fmt' \in [Objects -> Fmts \cup {NoFmt}]
  BY DEF ObjectsOK, Cleared
<1>4. /\ file' \in [Objects -> Ids \cup {None}]
      /\ index' \in [Objects -> [id : Ids, fmt : Fmts] \cup {None}]
  BY DEF ObjectsOK, Cleared
<1> QED BY <1>1, <1>2, <1>3, <1>4 DEF ObjectsOK

\* Taking an object, or leaving it, keeps its flags flags.
LEMMA TakenFlags ==
  ASSUME ObjectsOK, NEW t \in Clients, ptr[t] \in Objects, NEW f \in SUBSET Flags, Take(t, f)
  PROVE  flags' \in [Objects -> SUBSET Flags]
<1>1. f \cup {"INFO"} \in SUBSET Flags /\ f \cup {"USED"} \in SUBSET Flags
  BY DEF Flags
<1>2. PICK g \in SUBSET Flags : flags' = [flags EXCEPT ![ptr[t]] = g]
  BY <1>1 DEF Take, TakeInfo
<1> QED BY <1>2 DEF ObjectsOK

LEMMA ClientObjects ==
  ASSUME LocalsOK, ObjectsOK, NEW t \in Clients, Client(t)
  PROVE  ObjectsOK'
<1>0. t \in Threads /\ ClientOK(t)
  BY DEF Threads, LocalsOK
<1>p. pc[t] \in Pointing => ptr[t] \in Objects
  BY <1>0 DEF ClientOK
<1>r. pc[t] # "idle" => req[t].id \in Ids /\ req[t].fmt \in Fmts \cup {NoFmt}
  BY <1>0 DEF ClientOK, Decode, Info
<1>c. \A f \in Fmts \cup {NoFmt} : Concrete(f) \in Fmts
  BY NamesAssumption DEF Concrete
<1>1. CASE UNCHANGED <<jvo, flags, id, fmt, fresh, file, index, lock, vml, lock_vml>>
  BY <1>1 DEF ObjectsOK
<1>2. CASE Enter(t) \/ BusyAdd(t) \/ BusyDec(t) \/ Lookup(t) \/ Test(t)
           \/ ScanUnused(t) \/ ScanUsed(t) \/ LockPending(t)
  BY <1>2, <1>1 DEF Enter, BusyAdd, BusyDec, Lookup, Test, ScanUnused, ScanUsed,
                    LockPending, object, shared
<1>3. CASE InfoLock(t)
  <2>1. ptr[t] \in Objects
    BY <1>3, <1>p DEF InfoLock, Pointing
  <2>2. CASE TakeInfo(t, flags[ptr[t]])
    <3>1. flags[ptr[t]] \cup {"INFO"} \in SUBSET Flags
      BY <2>1 DEF ObjectsOK, Flags
    <3>2. flags' \in [Objects -> SUBSET Flags]
      BY <2>2, <3>1 DEF TakeInfo, ObjectsOK
    <3> QED BY <1>3, <3>2 DEF InfoLock, ObjectsOK, shared
  <2>3. CASE UNCHANGED flags
    BY <1>3, <2>3, <1>1 DEF InfoLock, shared
  <2> QED BY <1>3, <2>2, <2>3 DEF InfoLock
<1>4. CASE CollectGarbage(t)
  <2>1. PICK S : Cleared(S)
    BY <1>4 DEF CollectGarbage
  <2> QED BY <1>4, <2>1, ClearedObjects DEF CollectGarbage, ObjectsOK, shared
<1>5. CASE Append(t)
  BY <1>5 DEF Append, ObjectsOK, shared
<1>6. CASE Recycle(t)
  <2>1. lock' \in [Objects -> Clients \cup {None}]
    BY <1>6, <1>p DEF Recycle, ObjectsOK
  <2> QED BY <1>6, <2>1 DEF Recycle, ObjectsOK, shared
<1>7. CASE Recycled(t)
  <2>1. lock' \in [Objects -> Clients \cup {None}]
    BY <1>7 DEF Recycled, Release, ObjectsOK
  <2> QED BY <1>7, <2>1, ClearedObjects DEF Recycled, ObjectsOK, shared
<1>8. CASE TryLock(t)
  <2>1. lock' \in [Objects -> Clients \cup {None}]
    BY <1>8 DEF TryLock, ObjectsOK
  <2> QED BY <1>8, <2>1 DEF TryLock, ObjectsOK, shared
<1>9. CASE Claim(t)
  <2>1. ptr[t] \in Objects /\ req[t].id \in Ids /\ Concrete(req[t].fmt) \in Fmts
    BY <1>9, <1>p, <1>r, <1>c DEF Claim, Pointing
  <2>2. IndexKey(t) \in [id : Ids, fmt : Fmts] \cup {None}
    BY <2>1 DEF IndexKey, ObjectsOK
  <2>3. id' \in [Objects -> Ids \cup {None}] /\ fmt' \in [Objects -> Fmts \cup {NoFmt}]
    BY <1>9, <2>1 DEF Claim, ObjectsOK
  <2>4. index' \in [Objects -> [id : Ids, fmt : Fmts] \cup {None}]
    BY <1>9, <2>2 DEF Claim, ObjectsOK
  <2>5. flags' \in [Objects -> SUBSET Flags]
    <3>1. flags[ptr[t]] \cup {"VALID"} \in SUBSET Flags
      BY <2>1 DEF ObjectsOK, Flags
    <3> QED BY <1>9, <3>1 DEF Claim, ObjectsOK
  <2>6. lock' \in [Objects -> Clients \cup {None}]
    BY <1>9 DEF Claim, Release, ObjectsOK
  <2> QED BY <1>9, <2>3, <2>4, <2>5, <2>6 DEF Claim, ObjectsOK, shared
<1>10. CASE LockClosed(t)
  <2>1. ptr[t] \in Objects
    BY <1>10, <1>p DEF LockClosed, Pointing
  <2>2. flags[ptr[t]] \cup {"PENDING"} \in SUBSET Flags
    BY <2>1 DEF ObjectsOK, Flags
  <2>3. flags' \in [Objects -> SUBSET Flags]
    BY <1>10, <2>2 DEF LockClosed, ObjectsOK
  <2> QED BY <1>10, <2>1, <2>3 DEF LockClosed, ObjectsOK, shared
<1>11. CASE LockOther(t)
  <2>1. ptr[t] \in Objects
    BY <1>11, <1>p DEF LockOther, Pointing
  <2>2. flags[ptr[t]] \in SUBSET Flags
    BY <2>1 DEF ObjectsOK
  <2>3. flags' \in [Objects -> SUBSET Flags]
    BY <1>11, <2>1, <2>2, TakenFlags DEF LockOther
  <2> QED BY <1>11, <2>3 DEF LockOther, ObjectsOK, shared
<1>12. CASE GetFn(t)
  <2>1. file' \in [Objects -> Ids \cup {None}]
    BY <1>12 DEF GetFn, ObjectsOK
  <2> QED BY <1>12, <2>1 DEF GetFn, ObjectsOK, shared
<1>13. CASE OpenOk(t)
  <2>1. ptr[t] \in Objects /\ req[t].fmt \in Fmts \cup {NoFmt}
    BY <1>13, <1>p, <1>r DEF OpenOk, Pointing
  <2>2. (flags[ptr[t]] \ {"PENDING"}) \cup {"OPEN"} \in SUBSET Flags
    BY <2>1 DEF ObjectsOK, Flags
  <2>3. flags' \in [Objects -> SUBSET Flags]
    BY <1>13, <2>1, <2>2, TakenFlags DEF OpenOk
  <2>4. fmt' \in [Objects -> Fmts \cup {NoFmt}]
    BY <1>13, <2>1 DEF OpenOk, ObjectsOK
  <2> QED BY <1>13, <2>3, <2>4 DEF OpenOk, ObjectsOK, shared
<1>14. CASE OpenFails(t)
  <2>1. ptr[t] \in Objects
    BY <1>14, <1>p DEF OpenFails, Pointing
  <2>2. file' \in [Objects -> Ids \cup {None}] /\ flags' \in [Objects -> SUBSET Flags]
    BY <1>14, <2>1 DEF OpenFails, ObjectsOK
  <2> QED BY <1>14, <2>2 DEF OpenFails, ObjectsOK, shared
<1>15. CASE ReleaseId(t)
  BY <1>15 DEF ReleaseId, ObjectsOK, object
<1>16. CASE Done(t)
  <2>1. ptr[t] \in Objects
    BY <1>16, <1>p DEF Done, Pointing
  <2>2. PICK g \in SUBSET Flags : flags' = [flags EXCEPT ![ptr[t]] = g]
    <3>1. flags[ptr[t]] \in SUBSET Flags
      BY <2>1 DEF ObjectsOK
    <3> QED BY <1>16, <3>1 DEF Done
  <2>3. flags' \in [Objects -> SUBSET Flags]
    BY <2>2 DEF ObjectsOK
  <2> QED BY <1>16, <2>3 DEF Done, ObjectsOK, shared
<1> QED BY <1>2, <1>3, <1>4, <1>5, <1>6, <1>7, <1>8, <1>9, <1>10, <1>11, <1>12, <1>13,
           <1>14, <1>15, <1>16 DEF Client

LEMMA AdminObjects ==
  ASSUME LocalsOK, ObjectsOK, NEW t \in Admins, Admin(t) \/ PurgeCaches(t)
  PROVE  ObjectsOK'
<1>1. CASE PurgeBegin(t) \/ PurgeWait(t)
  BY <1>1 DEF PurgeBegin, PurgeWait, ObjectsOK, object
<1>2. CASE PurgeWalk(t)
  <2>1. jvo' \subseteq Objects /\ Root \in jvo'
    BY <1>2, ObjectsAssumption DEF PurgeWalk, Kept, ObjectsOK
  <2> QED BY <1>2, <2>1, ClearedObjects DEF PurgeWalk, ObjectsOK
<1>3. CASE ClearVid(t)
  BY <1>3 DEF ClearVid, ObjectsOK, object
<1>4. CASE NextVid(t)
  BY <1>4 DEF NextVid, ObjectsOK, object
<1> QED BY <1>1, <1>2, <1>3, <1>4 DEF Admin, PurgeCaches, PurgeFile

-----------------------------------------------------------------------------
\* A new request.
LEMMA RequestTypes ==
  ASSUME LocalsOK, ObjectsOK, RefsInv, NEW t \in Clients, NEW r \in Requests, Request(t, r)
  PROVE  LocalsOK' /\ ObjectsOK' /\ RefsInv'
<1>0. t \in Threads /\ r \in Decode \cup Info
  BY NamesAssumption DEF Threads
<1>1. r.id \in Ids
  BY <1>0 DEF Decode, Info
<1>2. /\ pc' = [pc EXCEPT ![t] = "enter"] /\ pc[t] = "idle"
      /\ req' = [req EXCEPT ![t] = r] /\ vml' = vml \cup {r.id}
      /\ UNCHANGED <<object, lock_vml, ptr, tries, room, target>>
  BY DEF Request, Goto
<1>3. /\ req' \in [Threads -> Decode \cup Info \cup {None}]
      /\ req'[t] = r /\ pc'[t] = "enter"
      /\ \A u \in Threads \ {t} : req'[u] = req[u] /\ pc'[u] = pc[u]
  BY <1>0, <1>2 DEF LocalsOK
<1>4. ClientOK(t)'
  BY <1>0, <1>3 DEF ClientOK, Pointing, Trying, Window
<1>5. LocalsOK'
  BY <1>2, <1>3, <1>4, ClientMoves DEF LocalsOK, Outside
<1>6. ObjectsOK'
  BY <1>1, <1>2 DEF ObjectsOK, object
<1>7. RefsInv'
  BY <1>0, <1>2, <1>3, RefsElsewhere DEF object
<1> QED BY <1>5, <1>6, <1>7

TypeInv == LocalsOK /\ ObjectsOK /\ RefsInv /\ PurgesInv

LEMMA InitTypes == Init => TypeInv
<1> SUFFICES ASSUME Init PROVE TypeInv
  OBVIOUS
<1>1. \A t \in Threads : pc[t] = "idle"
  BY DEF Init
<1>2. LocalsOK
  BY <1>1, ObjectsAssumption
  DEF Init, LocalsOK, ClientOK, Outside, Pointing, Trying, Window, Threads
<1>3. ObjectsOK
  BY ObjectsAssumption DEF Init, ObjectsOK
<1>4. \A o \in Objects : InfoHolders(o) = {}
  BY <1>1 DEF InfoHolders, Threads
<1>5. Purges = {}
  BY <1>1 DEF Purges, Threads
<1>6. RefsInv /\ PurgesInv
  BY <1>4, <1>5, FS_EmptySet DEF Init, RefsInv, PurgesInv
<1> QED BY <1>2, <1>3, <1>6 DEF TypeInv

\* Every step keeps TypeInv.
LEMMA TypeStep == TypeInv /\ [Next]_vars => TypeInv'
<1> SUFFICES ASSUME TypeInv, [Next]_vars PROVE TypeInv'
  OBVIOUS
<1>0. LocalsOK /\ ObjectsOK /\ RefsInv /\ PurgesInv
  BY DEF TypeInv
<1>1. ASSUME NEW t \in Clients, Client(t) PROVE TypeInv'
  BY <1>0, <1>1, ClientLocals, ClientObjects, ClientRefs, ClientPurges DEF TypeInv
<1>2. ASSUME NEW t \in Admins, Admin(t) \/ PurgeCaches(t) PROVE TypeInv'
  BY <1>0, <1>2, AdminLocals, AdminObjects, AdminRefs, AdminPurges DEF TypeInv
<1>3. ASSUME NEW t \in Clients, NEW r \in Requests, Request(t, r) PROVE TypeInv'
  BY <1>0, <1>3, RequestTypes, ClientPurges DEF TypeInv
<1>4. CASE UNCHANGED vars
  BY <1>0, <1>4 DEF vars, object, shared, local, TypeInv, LocalsOK, ClientOK, ObjectsOK,
     RefsInv, InfoHolders, PurgesInv, Purges
<1> QED BY <1>1, <1>2, <1>3, <1>4 DEF Next

\* TypeInv holds in every reachable state.
THEOREM TypesInductive == Spec => []TypeInv
<1>1. Init => TypeInv
  BY InitTypes
<1>2. TypeInv /\ [Next]_vars => TypeInv'
  BY TypeStep
<1> QED BY <1>1, <1>2, PTL DEF Spec

\* Every variable keeps its type in every reachable state: the counters never
\* drop below zero, a decoder is looked for only with attempts left, and what
\* the steps of a request use is set.
THEOREM DecoderTypeCorrect == Spec => []TypeOK
<1>1. XInv /\ TypeInv => TypeOK
  <2> SUFFICES ASSUME XInv, TypeInv PROVE TypeOK
    OBVIOUS
  <2>1. busycnt \in Nat /\ purge \in Nat
    BY ClientSets, CounterSets DEF XInv, TypeInv, PurgesInv
  <2>2. lock_busy \in Admins \cup {None}
    BY DEF XInv
  <2>3. pc \in [Threads ->
               {"idle", "enter", "busyadd", "lookup", "infolock", "test", "gc",
                "scan", "append", "recycle", "recycling", "trylock",
                "claim", "lock", "open", "opening", "release_id", "leave",
                "fail", "use", "purge", "purgewait", "walk", "clearvid",
                "nextvid"}]
    BY DEF TypeInv, LocalsOK, Outside, Window, Purging
  <2> QED BY <2>1, <2>2, <2>3 DEF TypeInv, LocalsOK, ObjectsOK, RefsInv, TypeOK
<1> QED BY <1>1, TypesInductive, ExclusionInductive, PTL

-----------------------------------------------------------------------------
(***************************************************************************)
(* One client at a time, whatever the purges do: what it is given is what  *)
(* it asked for.  Two clients may claim the same object (OpenMatchesId     *)
(* fails for them), so that the premise is needed.                         *)
(***************************************************************************)
OneClient == \A t, u \in Clients : t = u

\* Client t has been given object o.
Holds(t, o, op) == pc[t] \in {"leave", "use"} /\ ptr[t] = o /\ req[t].op = op

\* An object that is not linked, or that nobody has claimed, is clean; the
\* flags of the others tell what is open in them and what they are held for.
ObjectOK(o, t) ==
  /\ o \notin jvo => flags[o] = {}
  /\ flags[o] # {} => "VALID" \in flags[o]
  /\ "VALID" \in flags[o] => fmt[o] # NoFmt
  /\ "VALID" \notin flags[o] => index[o] = None
  /\ "OPEN" \in flags[o] => file[o] = id[o]
  /\ "USED" \in flags[o] <=> Holds(t, o, "decode")
  /\ "INFO" \in flags[o] <=> Holds(t, o, "info")

\* What client t's object is on its way from the list to the client.
ServedOK(t) ==
  /\ ptr[t] \in jvo \cup {None}
  /\ pc[t] \in {"idle", "enter", "busyadd"} => ptr[t] = None
  /\ pc[t] = "recycling" => Idle(ptr[t])
  /\ pc[t] \in {"trylock", "claim"} => flags[ptr[t]] = {}
  /\ pc[t] \in {"infolock", "lock", "open", "opening", "leave", "use"} => id[ptr[t]] = req[t].id
  /\ pc[t] \in {"infolock", "lock", "leave", "use"} =>
       req[t].fmt = NoFmt \/ fmt[ptr[t]] = req[t].fmt
  /\ pc[t] \in {"open", "opening"} => flags[ptr[t]] = {"VALID", "PENDING"}
  /\ pc[t] = "opening" => file[ptr[t]] \in {id[ptr[t]], None} /\ req[t].fmt # NoFmt
  /\ pc[t] \in {"leave", "use"} => {"OPEN", "VALID"} \subseteq flags[ptr[t]]

Single(t) ==
  /\ \A o \in Objects : ObjectOK(o, t)
  /\ IndexSound
  /\ ServedOK(t)

SingleInv == \A t \in Clients : Single(t)

\* The common case: no object changes, and none is given or given back.
LEMMA ObjectsRest ==
  ASSUME NEW t \in Clients, Single(t), UNCHANGED <<jvo, flags, id, fmt, file, index>>,
         \A o \in Objects, op \in {"decode", "info"} : Holds(t, o, op)' <=> Holds(t, o, op),
         ServedOK(t)'
  PROVE  Single(t)'
<1>1. \A o \in Objects : ObjectOK(o, t)'
  BY DEF Single, ObjectOK
<1>2. IndexSound'
  BY DEF Single, IndexSound
<1> QED BY <1>1, <1>2 DEF Single

\* One object changes.
LEMMA ObjectChanges ==
  ASSUME NEW t \in Clients, Single(t), NEW o \in Objects,
         \A p \in Objects \ {o} :
           /\ p \in jvo' <=> p \in jvo
           /\ flags'[p] = flags[p] /\ id'[p] = id[p] /\ fmt'[p] = fmt[p]
           /\ file'[p] = file[p] /\ index'[p] = index[p]
           /\ \A op \in {"decode", "info"} : Holds(t, p, op)' <=> Holds(t, p, op),
         ObjectOK(o, t)', IndexSound', ServedOK(t)'
  PROVE  Single(t)'
<1>1. ASSUME NEW p \in Objects, p # o
      PROVE  ObjectOK(p, t)'
  <2>1. ObjectOK(p, t)
    BY DEF Single
  <2> QED BY <1>1, <2>1 DEF ObjectOK
<1> QED BY <1>1 DEF Single

\* Its index entry and its ID do not.
LEMMA IndexStays ==
  ASSUME IndexSound, UNCHANGED <<id, index>>
  PROVE  IndexSound'
BY DEF IndexSound

\* Objects that nobody holds are cleared.
LEMMA ClearedSingle ==
  ASSUME ObjectsOK, NEW t \in Clients, Single(t), NEW S \in SUBSET Objects, Cleared(S),
         \A o \in S : Idle(o),
         \A o \in Objects \ S : o \in jvo' <=> o \in jvo,
         \A o \in Objects, op \in {"decode", "info"} : Holds(t, o, op)' <=> Holds(t, o, op),
         ServedOK(t)'
  PROVE  Single(t)'
<1>1. ASSUME NEW o \in Objects, o \in S PROVE ObjectOK(o, t)'
  <2>1. ObjectOK(o, t) /\ Idle(o)
    BY <1>1 DEF Single
  <2>2. flags'[o] = {} /\ index'[o] = None
    BY <1>1 DEF Cleared
  <2> QED BY <2>1, <2>2 DEF ObjectOK, Idle, InUse
<1>2. ASSUME NEW o \in Objects, o \notin S PROVE ObjectOK(o, t)'
  <2>1. ObjectOK(o, t)
    BY DEF Single
  <2>2. /\ flags'[o] = flags[o] /\ id'[o] = id[o] /\ fmt'[o] = fmt[o]
        /\ file'[o] = file[o] /\ index'[o] = index[o]
    BY <1>2 DEF Cleared
  <2> QED BY <1>2, <2>1, <2>2 DEF ObjectOK
<1>3. IndexSound'
  <2>1. /\ \A o \in S : index'[o] = None
        /\ \A o \in Objects \ S : index'[o] = index[o] /\ id'[o] = id[o]
    BY DEF Cleared
  <2> QED BY <2>1 DEF Single, IndexSound
<1> QED BY <1>1, <1>2, <1>3 DEF Single

\* The only client holds an object for info at most once.
LEMMA OneHolder ==
  ASSUME OneClient, RefsInv, NEW o \in Objects
  PROVE  refcnt[o] \in Nat /\ refcnt[o] <= 1
<1>1. PICK t \in Clients : TRUE
  BY ThreadsAssumption
<1>2. InfoHolders(o) \in SUBSET {t}
  BY <1>1 DEF OneClient, InfoHolders
<1>3. IsFiniteSet({t}) /\ Cardinality({t}) = 1
  BY FS_Singleton
<1>4. Cardinality(InfoHolders(o)) <= 1
  BY <1>2, <1>3, FS_Subset
<1> QED BY <1>4 DEF RefsInv

\* The steps that look for an object: none changes.
LEMMA LookingSingle ==
  ASSUME LocalsOK, ObjectsOK, NEW t \in Clients, Single(t),
         \/ Enter(t) \/ BusyAdd(t) \/ BusyDec(t) \/ Lookup(t) \/ Test(t)
         \/ ScanUnused(t) \/ ScanUsed(t) \/ LockPending(t) \/ ReleaseId(t)
  PROVE  Single(t)'
<1>0. t \in Threads /\ ClientOK(t) /\ ServedOK(t)
  BY DEF Threads, LocalsOK, Single
<1>n. None \notin Objects
  BY NamesAssumption
<1>same. UNCHANGED <<jvo, flags, id, fmt, file, index>>
  BY DEF Enter, BusyAdd, BusyDec, Lookup, Test, ScanUnused, ScanUsed, LockPending,
         ReleaseId, object
<1>moves. ASSUME NEW l, l \notin {"leave", "use"}, pc[t] \notin {"leave", "use"},
                 pc' = [pc EXCEPT ![t] = l], pc'[t] = l => ServedOK(t)'
          PROVE  Single(t)'
  <2>1. pc'[t] = l
    BY <1>0, <1>moves DEF LocalsOK
  <2>2. \A o \in Objects, op \in {"decode", "info"} : Holds(t, o, op)' <=> Holds(t, o, op)
    BY <1>moves, <2>1 DEF Holds
  <2> QED BY <1>same, <1>moves, <2>1, <2>2, ObjectsRest
<1>free. ASSUME NEW l \in {"idle", "busyadd", "lookup", "test", "gc", "fail", "append"},
                pc'[t] = l, ptr'[t] = None
         PROVE  ServedOK(t)'
  BY <1>free DEF ServedOK
<1>free2. ASSUME NEW l \in {"lookup", "test", "gc", "fail", "append", "recycle"},
                pc'[t] = l, ptr'[t] \in jvo \cup {None}
         PROVE  ServedOK(t)'
  BY <1>same, <1>free2 DEF ServedOK
<1>1. CASE Enter(t)
  BY <1>0, <1>1, <1>moves, <1>free DEF Enter, Goto, ServedOK
<1>2. CASE BusyAdd(t)
  <2>1. PICK l \in {"lookup", "test"} : pc' = [pc EXCEPT ![t] = l]
    BY <1>2 DEF BusyAdd, Goto
  <2> QED BY <1>0, <1>2, <2>1, <1>moves, <1>free2 DEF BusyAdd, ServedOK
<1>3. CASE BusyDec(t)
  <2>1. CASE pc[t] = "fail" /\ Goto(t, "idle") /\ Reset(t)
    <3>1. ptr'[t] = None
      BY <1>0, <2>1 DEF Reset, Point, LocalsOK
    <3> QED BY <2>1, <3>1, <1>moves, <1>free DEF Goto
  <2>2. CASE pc[t] = "leave" /\ Goto(t, "use") /\ UNCHANGED <<req, ptr>>
    <3>1. pc'[t] = "use"
      BY <1>0, <2>2 DEF Goto, LocalsOK
    <3>2. \A o \in Objects, op \in {"decode", "info"} : Holds(t, o, op)' <=> Holds(t, o, op)
      BY <2>2, <3>1 DEF Holds
    <3>3. ServedOK(t)'
      BY <1>0, <1>same, <2>2, <3>1 DEF ServedOK
    <3> QED BY <1>same, <3>2, <3>3, ObjectsRest
  <2> QED BY <1>3, <2>1, <2>2 DEF BusyDec
<1>4. CASE Lookup(t)
  <2>1. CASE Goto(t, "test") /\ UNCHANGED ptr
    BY <1>0, <1>4, <2>1, <1>moves, <1>free2 DEF Lookup, Goto, ServedOK
  <2>2. ASSUME NEW o \in Indexed(req[t]), Point(t, o), Goto(t, "infolock")
        PROVE  Single(t)'
    <3>1. o \in Objects /\ ptr'[t] = o /\ pc'[t] = "infolock" /\ req'[t] = req[t]
      BY <1>0, <1>4, <2>2 DEF Lookup, Indexed, Point, Goto, LocalsOK
    <3>2. ObjectOK(o, t)
      BY <3>1 DEF Single
    <3>3. o \in jvo
      BY <2>2, <3>1, <3>2 DEF ObjectOK, Indexed
    <3>4. ServedOK(t)'
      BY <1>same, <2>2, <3>1, <3>3 DEF ServedOK, Indexed
    <3> QED BY <1>4, <2>2, <3>4, <1>moves DEF Lookup, Goto
  <2> QED BY <1>4, <2>1, <2>2 DEF Lookup
<1>5. CASE Test(t)
  <2>1. CASE Goto(t, "gc") /\ UNCHANGED ptr
    BY <1>0, <1>5, <2>1, <1>moves, <1>free2 DEF Test, Goto, ServedOK
  <2>2. ASSUME NEW o \in Preferred(Candidates(req[t])), Point(t, o), Goto(t, "lock")
        PROVE  Single(t)'
    <3>1. o \in Candidates(req[t])
      BY <2>2 DEF Preferred
    <3>2. o \in Objects /\ o \in jvo /\ ptr'[t] = o /\ pc'[t] = "lock" /\ req'[t] = req[t]
      BY <1>0, <1>5, <2>2, <3>1 DEF Test, Candidates, Point, Goto, LocalsOK, ObjectsOK
    <3>3. ObjectOK(o, t)
      BY <3>2 DEF Single
    <3>4. id[o] = req[t].id /\ (req[t].fmt = NoFmt \/ fmt[o] = req[t].fmt)
      BY <3>1, <3>3 DEF Candidates, SameFormat, ObjectOK
    <3>5. ServedOK(t)'
      BY <1>same, <3>2, <3>4 DEF ServedOK
    <3> QED BY <1>5, <2>2, <3>5, <1>moves DEF Test, Goto
  <2> QED BY <1>5, <2>1, <2>2 DEF Test
<1>6. CASE ScanUnused(t)
  <2>1. PICK o \in jvo : flags[o] = {} /\ ptr' = [ptr EXCEPT ![t] = o]
    BY <1>6 DEF ScanUnused, Point
  <2>2. ptr'[t] = o
    BY <1>0, <2>1 DEF LocalsOK
  <2>3. pc'[t] = "trylock" => ServedOK(t)'
    BY <1>same, <2>1, <2>2 DEF ServedOK
  <2> QED BY <1>6, <2>3, <1>moves DEF ScanUnused, Goto
<1>noobj. ASSUME NoObject(t), pc[t] \notin {"leave", "use"}
          PROVE  Single(t)'
  <2>1. PICK l \in {"test", "fail"} : pc' = [pc EXCEPT ![t] = l]
    BY <1>noobj DEF NoObject, Goto
  <2>2. ptr'[t] = None
    BY <1>0, <1>noobj DEF NoObject, Point, LocalsOK
  <2> QED BY <1>noobj, <2>1, <2>2, <1>moves, <1>free
<1>7. CASE ScanUsed(t)
  <2>1. CASE Goto(t, "append") /\ UNCHANGED ptr
    BY <1>0, <1>7, <2>1, <1>moves, <1>free2 DEF ScanUsed, Goto, ServedOK
  <2>2. ASSUME NEW o \in jvo, Point(t, o), Goto(t, "recycle")
        PROVE  Single(t)'
    <3>1. ptr'[t] = o
      BY <1>0, <2>2 DEF Point, LocalsOK
    <3> QED BY <1>7, <2>2, <3>1, <1>moves, <1>free2 DEF ScanUsed, Goto
  <2>3. CASE NoObject(t)
    BY <1>7, <2>3, <1>noobj DEF ScanUsed
  <2> QED BY <1>7, <2>1, <2>2, <2>3 DEF ScanUsed
<1>8. CASE LockPending(t)
  <2>1. ptr'[t] = None
    BY <1>0, <1>8 DEF LockPending, Point, LocalsOK
  <2> QED BY <1>8, <2>1, <1>moves, <1>free DEF LockPending, Goto
<1>9. CASE ReleaseId(t)
  BY <1>0, <1>9, <1>moves, <1>free2 DEF ReleaseId, Goto, ServedOK
<1> QED BY <1>1, <1>2, <1>3, <1>4, <1>5, <1>6, <1>7, <1>8, <1>9

\* The steps that prepare an object.
LEMMA PreparingSingle ==
  ASSUME LocalsOK, ObjectsOK, NEW t \in Clients, Single(t),
         CollectGarbage(t) \/ Append(t) \/ Recycle(t) \/ Recycled(t) \/ TryLock(t) \/ Claim(t)
  PROVE  Single(t)'
<1>0. t \in Threads /\ ClientOK(t) /\ ServedOK(t) /\ None \notin Objects
  BY NamesAssumption DEF Threads, LocalsOK, Single
<1>p. pc[t] \in Pointing => ptr[t] \in Objects /\ ptr[t] \in jvo
  BY <1>0 DEF ClientOK, ServedOK
<1>moves. ASSUME NEW l, l \notin {"leave", "use"}, pc[t] \notin {"leave", "use"},
                 pc' = [pc EXCEPT ![t] = l]
          PROVE  /\ pc'[t] = l
                 /\ \A o \in Objects, op \in {"decode", "info"} :
                      ~Holds(t, o, op) /\ ~Holds(t, o, op)'
  BY <1>0, <1>moves DEF LocalsOK, Holds
<1>1. CASE CollectGarbage(t)
  <2>1. PICK S \in SUBSET {o \in jvo : Idle(o)} : Cleared(S)
    BY <1>1 DEF CollectGarbage
  <2>2. /\ pc'[t] = "scan" /\ ptr' = ptr /\ jvo' = jvo
        /\ \A o \in Objects, op \in {"decode", "info"} : Holds(t, o, op)' <=> Holds(t, o, op)
    BY <1>1, <1>moves DEF CollectGarbage, Goto
  <2>3. ServedOK(t)'
    BY <1>0, <2>2 DEF ServedOK
  <2>4. S \in SUBSET Objects
    BY DEF ObjectsOK
  <2> QED BY <2>1, <2>2, <2>3, <2>4, ClearedSingle
<1>2. CASE Append(t)
  <2>1. PICK o \in Objects \ jvo : jvo' = jvo \cup {o} /\ ptr' = [ptr EXCEPT ![t] = o]
    BY <1>2 DEF Append, Point
  <2>2. /\ pc'[t] = "trylock" /\ ptr'[t] = o
        /\ \A p \in Objects, op \in {"decode", "info"} : ~Holds(t, p, op) /\ ~Holds(t, p, op)'
    BY <1>0, <1>2, <2>1, <1>moves DEF Append, Goto, LocalsOK
  <2>3. UNCHANGED <<flags, id, fmt, file, index>>
    BY <1>2 DEF Append
  <2>4. ObjectOK(o, t) /\ flags[o] = {}
    BY <2>1 DEF Single, ObjectOK
  <2>5. ObjectOK(o, t)'
    BY <2>1, <2>2, <2>3, <2>4 DEF ObjectOK
  <2>6. ServedOK(t)'
    BY <2>1, <2>2, <2>3, <2>4 DEF ServedOK
  <2>7. IndexSound'
    BY <2>3, IndexStays DEF Single
  <2> QED BY <2>1, <2>2, <2>3, <2>5, <2>6, <2>7, ObjectChanges
<1>3. CASE Recycle(t)
  <2>1. UNCHANGED <<jvo, flags, id, fmt, file, index>>
    BY <1>3 DEF Recycle
  <2>2. PICK l \in {"recycling", "append", "test", "fail"} :
          /\ pc' = [pc EXCEPT ![t] = l]
          /\ l = "recycling" => Idle(ptr[t]) /\ ptr' = ptr
          /\ l # "recycling" => ptr' = [ptr EXCEPT ![t] = None]
    <3>1. CASE Idle(ptr[t]) /\ Goto(t, "recycling") /\ UNCHANGED ptr
      BY <3>1 DEF Goto
    <3>2. CASE Goto(t, "append") /\ Point(t, None)
      BY <3>2 DEF Goto, Point
    <3>3. CASE NoObject(t)
      BY <3>3 DEF NoObject, Goto, Point
    <3> QED BY <1>3, <3>1, <3>2, <3>3 DEF Recycle
  <2>3. /\ pc'[t] = l
        /\ \A p \in Objects, op \in {"decode", "info"} : Holds(t, p, op)' <=> Holds(t, p, op)
    BY <1>3, <2>2, <1>moves DEF Recycle
  <2>4. ServedOK(t)'
    <3>1. CASE l = "recycling"
      BY <1>0, <2>1, <2>2, <2>3, <3>1 DEF ServedOK, Idle
    <3>2. CASE l # "recycling"
      <4>1. ptr'[t] = None
        BY <1>0, <2>2, <3>2 DEF LocalsOK
      <4> QED BY <2>2, <2>3, <3>2, <4>1 DEF ServedOK
    <3> QED BY <3>1, <3>2
  <2> QED BY <2>1, <2>3, <2>4, ObjectsRest
<1>4. CASE Recycled(t)
  <2>1. ptr[t] \in Objects /\ ptr[t] \in jvo /\ Idle(ptr[t]) /\ Cleared({ptr[t]})
    BY <1>0, <1>4, <1>p DEF Recycled, Pointing, ServedOK
  <2>2. /\ pc'[t] = "trylock" /\ ptr' = ptr /\ jvo' = jvo
        /\ \A o \in Objects, op \in {"decode", "info"} : Holds(t, o, op)' <=> Holds(t, o, op)
    BY <1>4, <1>moves DEF Recycled, Goto
  <2>3. flags'[ptr[t]] = {}
    BY <2>1 DEF Cleared
  <2>4. ServedOK(t)'
    BY <2>1, <2>2, <2>3 DEF ServedOK
  <2>5. {ptr[t]} \in SUBSET Objects /\ \A o \in {ptr[t]} : Idle(o)
    BY <2>1
  <2> QED BY <2>1, <2>2, <2>4, <2>5, ClearedSingle
<1>5. CASE TryLock(t)
  <2>1. UNCHANGED <<jvo, flags, id, fmt, file, index, ptr, req>>
    BY <1>5 DEF TryLock
  <2>2. /\ pc'[t] = "claim" /\ pc[t] = "trylock"
        /\ \A o \in Objects, op \in {"decode", "info"} : Holds(t, o, op)' <=> Holds(t, o, op)
    BY <1>5, <1>moves DEF TryLock, Goto
  <2>3. ServedOK(t)'
    BY <1>0, <2>1, <2>2 DEF ServedOK
  <2> QED BY <2>1, <2>2, <2>3, ObjectsRest
<1>6. CASE Claim(t)
  <2>1. PICK o \in Objects : o = ptr[t] /\ o \in jvo
    BY <1>6, <1>p DEF Claim, Pointing
  <2>2. flags[o] = {} /\ ObjectOK(o, t) /\ index[o] = None
    BY <1>0, <1>6, <2>1 DEF Claim, ServedOK, Single, ObjectOK
  <2>3. /\ UNCHANGED <<jvo, file, req, ptr>>
        /\ id' = [id EXCEPT ![o] = req[t].id]
        /\ fmt' = [fmt EXCEPT ![o] = Concrete(req[t].fmt)]
        /\ flags' = [flags EXCEPT ![o] = @ \cup {"VALID"}]
        /\ index' = [index EXCEPT ![o] = IndexKey(t)]
    BY <1>6, <2>1 DEF Claim
  <2>4. /\ id'[o] = req[t].id /\ fmt'[o] = Concrete(req[t].fmt) /\ flags'[o] = {"VALID"}
        /\ index'[o] = IndexKey(t)
        /\ \A p \in Objects \ {o} : /\ flags'[p] = flags[p] /\ id'[p] = id[p]
                                    /\ fmt'[p] = fmt[p] /\ index'[p] = index[p]
    BY <2>2, <2>3 DEF ObjectsOK
  <2>5. /\ pc'[t] = "lock"
        /\ \A p \in Objects, op \in {"decode", "info"} : ~Holds(t, p, op) /\ ~Holds(t, p, op)'
    BY <1>6, <1>moves DEF Claim, Goto
  <2>6. Concrete(req[t].fmt) # NoFmt /\ (req[t].fmt = NoFmt \/ Concrete(req[t].fmt) = req[t].fmt)
    BY NamesAssumption DEF Concrete
  <2>7. ObjectOK(o, t)'
    BY <2>1, <2>3, <2>4, <2>5, <2>6 DEF ObjectOK
  <2>8. ServedOK(t)'
    BY <2>1, <2>3, <2>4, <2>5, <2>6 DEF ServedOK
  <2>9. IndexSound'
    <3>1. CASE \E p \in Objects : index[p] # None /\ index[p].id = req[t].id
                                  /\ (id[p] = req[t].id \/ p = ptr[t])
      <4>1. index'[o] = None
        BY <2>1, <2>2, <2>4, <3>1 DEF IndexKey
      <4> QED BY <2>4, <4>1 DEF Single, IndexSound
    <3>2. CASE ~\E p \in Objects : index[p] # None /\ index[p].id = req[t].id
                                   /\ (id[p] = req[t].id \/ p = ptr[t])
      <4>1. index'[o].id = req[t].id /\ id'[o] = req[t].id
        BY <2>4, <3>2 DEF IndexKey
      <4>2. \A p \in Objects \ {o} : index[p] # None => index[p].id = id[p]
        BY DEF Single, IndexSound
      <4>3. \A p \in Objects \ {o} : index'[p] # None => index'[p].id # req[t].id
        BY <2>4, <3>2, <4>2
      <4>4. \A p, q \in Objects \ {o} : index'[p] # None /\ index'[q] # None =>
              index'[p].id = id'[p] /\ (index'[p].id = index'[q].id => p = q)
        BY <2>4 DEF Single, IndexSound
      <4> QED BY <4>1, <4>3, <4>4 DEF IndexSound
    <3> QED BY <3>1, <3>2
  <2> QED BY <2>1, <2>3, <2>4, <2>5, <2>7, <2>8, <2>9, ObjectChanges
<1> QED BY <1>1, <1>2, <1>3, <1>4, <1>5, <1>6

\* An object is taken, for decoding or for info, or it is tried again.
LEMMA TakenSingle ==
  ASSUME LocalsOK, ObjectsOK, NEW t \in Clients, Single(t),
         pc[t] \in {"infolock", "lock", "opening"}, NEW f \in SUBSET Flags,
         Take(t, f), UNCHANGED <<jvo, id, file, index, req, ptr>>,
         \A p \in Objects \ {ptr[t]} : fmt'[p] = fmt[p],
         "VALID" \in f, f \cap {"USED", "INFO"} = {},
         fmt'[ptr[t]] # NoFmt, req[t].fmt = NoFmt \/ fmt'[ptr[t]] = req[t].fmt,
         "OPEN" \in f => file[ptr[t]] = id[ptr[t]]
  PROVE  Single(t)'
<1>0. t \in Threads /\ ClientOK(t) /\ ServedOK(t)
  BY DEF Threads, LocalsOK, Single
<1>1. PICK o \in Objects : o = ptr[t] /\ o \in jvo /\ req[t] \in Decode \cup Info
  BY <1>0, NamesAssumption DEF ClientOK, ServedOK, Pointing
<1>2. req[t].op \in {"decode", "info"} /\ id[o] = req[t].id
  BY <1>0, <1>1 DEF Decode, Info, ServedOK
<1>3. ObjectOK(o, t) /\ \A p \in Objects, op \in {"decode", "info"} : ~Holds(t, p, op)
  BY <1>1 DEF Single, Holds
<1>taken. ASSUME NEW g \in {"USED", "INFO"}, req[t].op = (IF g = "USED" THEN "decode" ELSE "info"),
                 {"OPEN", "VALID"} \subseteq f,
                 flags' = [flags EXCEPT ![o] = f \cup {g}], Goto(t, "leave")
          PROVE  Single(t)'
  <2>1. /\ pc'[t] = "leave" /\ flags'[o] = f \cup {g}
        /\ \A p \in Objects \ {o} : flags'[p] = flags[p]
    BY <1>0, <1>taken DEF Goto, LocalsOK, ObjectsOK
  <2>2. /\ \A p \in Objects \ {o}, op \in {"decode", "info"} : ~Holds(t, p, op)'
        /\ Holds(t, o, "decode")' <=> g = "USED"
        /\ Holds(t, o, "info")' <=> g = "INFO"
    BY <1>1, <1>taken, <2>1 DEF Holds
  <2>3. ObjectOK(o, t)'
    BY <1>1, <1>3, <1>taken, <2>1, <2>2 DEF ObjectOK
  <2>4. ServedOK(t)'
    BY <1>1, <1>2, <1>taken, <2>1 DEF ServedOK
  <2>5. IndexSound'
    BY IndexStays DEF Single
  <2> QED BY <1>1, <1>3, <2>1, <2>2, <2>3, <2>4, <2>5, ObjectChanges
<1>4. CASE Usable(t, f) /\ req[t].op = "info" /\ TakeInfo(t, f)
  <2>1. {"OPEN", "VALID"} \subseteq f
    BY <1>4 DEF Usable
  <2> QED BY <1>1, <1>4, <2>1, <1>taken DEF TakeInfo
<1>5. CASE Usable(t, f) /\ req[t].op = "decode" /\ Goto(t, "leave")
           /\ flags' = [flags EXCEPT ![ptr[t]] = f \cup {"USED"}]
  <2>1. {"OPEN", "VALID"} \subseteq f
    BY <1>5 DEF Usable
  <2> QED BY <1>1, <1>5, <2>1, <1>taken
<1>6. CASE flags' = [flags EXCEPT ![ptr[t]] = f] /\ Goto(t, "lock")
  <2>1. /\ pc'[t] = "lock" /\ flags'[o] = f
        /\ \A p \in Objects \ {o} : flags'[p] = flags[p]
    BY <1>0, <1>1, <1>6 DEF Goto, LocalsOK, ObjectsOK
  <2>2. \A p \in Objects, op \in {"decode", "info"} : ~Holds(t, p, op)'
    BY <2>1 DEF Holds
  <2>3. ObjectOK(o, t)'
    BY <1>1, <1>3, <2>1, <2>2 DEF ObjectOK
  <2>4. ServedOK(t)'
    BY <1>1, <1>2, <2>1 DEF ServedOK
  <2>5. IndexSound'
    BY IndexStays DEF Single
  <2> QED BY <1>1, <1>3, <2>1, <2>2, <2>3, <2>4, <2>5, ObjectChanges
<1> QED BY <1>4, <1>5, <1>6 DEF Take

\* The steps that open and take an object, and give it back.
LEMMA TakingSingle ==
  ASSUME OneClient, RefsInv, LocalsOK, ObjectsOK, NEW t \in Clients, Single(t),
         \/ InfoLock(t) \/ LockClosed(t) \/ LockOther(t) \/ GetFn(t) \/ OpenOk(t)
         \/ OpenFails(t) \/ Done(t)
  PROVE  Single(t)'
<1>0. t \in Threads /\ ClientOK(t) /\ ServedOK(t)
  BY DEF Threads, LocalsOK, Single
<1>1. PICK o \in Objects : o = ptr[t] /\ o \in jvo
  BY <1>0, NamesAssumption
  DEF InfoLock, LockClosed, LockOther, GetFn, OpenOk, OpenFails, Done,
      ClientOK, ServedOK, Pointing
<1>2. /\ ObjectOK(o, t) /\ flags[o] \in SUBSET Flags /\ IndexSound
      /\ req[t] \in Decode \cup Info /\ req[t].op \in {"decode", "info"}
      /\ req[t].fmt \in Fmts \cup {NoFmt}
  <2>1. pc[t] # "idle"
    BY DEF InfoLock, LockClosed, LockOther, GetFn, OpenOk, OpenFails, Done
  <2> QED BY <1>0, <1>1, <2>1 DEF Single, ObjectsOK, ClientOK, Decode, Info
<1>none. ASSUME pc[t] \notin {"leave", "use"}
         PROVE  flags[o] \cap {"USED", "INFO"} = {}
  BY <1>2, <1>none DEF ObjectOK, Holds
<1>3. CASE InfoLock(t)
  <2>1. CASE TakeInfo(t, flags[o]) /\ flags[o] \cap {"OPEN", "VALID", "PENDING"} = {"OPEN", "VALID"}
    <3>1. Take(t, flags[o])
      BY <1>0, <1>1, <1>3, <2>1 DEF InfoLock, ClientOK, Take, Usable
    <3>2. "VALID" \in flags[o] /\ "OPEN" \in flags[o]
      BY <2>1
    <3>3. fmt[o] # NoFmt /\ file[o] = id[o] /\ (req[t].fmt = NoFmt \/ fmt[o] = req[t].fmt)
      BY <1>0, <1>1, <1>2, <1>3, <3>2 DEF InfoLock, ServedOK, ObjectOK
    <3> QED BY <1>1, <1>2, <1>3, <1>none, <3>1, <3>2, <3>3, TakenSingle DEF InfoLock
  <2>2. CASE Goto(t, "lock") /\ UNCHANGED flags
    <3>1. pc'[t] = "lock" /\ pc[t] = "infolock" /\ UNCHANGED <<jvo, flags, id, fmt, file, index, req, ptr>>
      BY <1>0, <1>3, <2>2 DEF InfoLock, Goto, LocalsOK
    <3>2. \A p \in Objects, op \in {"decode", "info"} : Holds(t, p, op)' <=> Holds(t, p, op)
      BY <3>1 DEF Holds
    <3>3. ServedOK(t)'
      BY <1>0, <3>1 DEF ServedOK
    <3> QED BY <3>1, <3>2, <3>3, ObjectsRest
  <2> QED BY <1>1, <1>3, <2>1, <2>2 DEF InfoLock
<1>4. CASE LockClosed(t)
  <2>1. /\ UNCHANGED <<jvo, id, fmt, file, index, req, ptr>> /\ flags[o] = {"VALID"}
        /\ pc[t] = "lock" /\ pc'[t] = "open" /\ flags'[o] = {"VALID", "PENDING"}
        /\ \A p \in Objects \ {o} : flags'[p] = flags[p]
    BY <1>0, <1>1, <1>4 DEF LockClosed, Goto, LocalsOK, ObjectsOK
  <2>2. \A p \in Objects, op \in {"decode", "info"} : ~Holds(t, p, op) /\ ~Holds(t, p, op)'
    BY <2>1 DEF Holds
  <2>3. ObjectOK(o, t)'
    BY <1>1, <1>2, <2>1, <2>2 DEF ObjectOK
  <2>4. ServedOK(t)'
    BY <1>0, <1>1, <2>1 DEF ServedOK
  <2>5. IndexSound'
    BY <1>2, <2>1, IndexStays
  <2> QED BY <2>1, <2>2, <2>3, <2>4, <2>5, ObjectChanges
<1>5. CASE LockOther(t)
  <2>1. /\ UNCHANGED <<jvo, id, fmt, file, index, req, ptr>> /\ pc[t] = "lock"
        /\ Take(t, flags[o]) /\ (req[t].fmt = NoFmt \/ fmt[o] = req[t].fmt)
    BY <1>0, <1>1, <1>5 DEF LockOther, ServedOK
  <2>2. CASE flags[o] # {}
    <3>1. "VALID" \in flags[o] /\ fmt[o] # NoFmt /\ ("OPEN" \in flags[o] => file[o] = id[o])
      BY <1>2, <2>2 DEF ObjectOK
    <3> QED BY <1>1, <1>2, <1>none, <2>1, <3>1, TakenSingle
  <2>3. CASE flags[o] = {}
    <3>1. ~Usable(t, flags[o])
      BY <2>3 DEF Usable
    <3>2. flags' = [flags EXCEPT ![o] = flags[o]] /\ Goto(t, "lock")
      BY <1>1, <2>1, <3>1 DEF Take
    <3>3. UNCHANGED flags /\ pc'[t] = "lock"
      BY <1>0, <3>2 DEF Goto, LocalsOK, ObjectsOK
    <3>4. \A p \in Objects, op \in {"decode", "info"} : Holds(t, p, op)' <=> Holds(t, p, op)
      BY <2>1, <3>3 DEF Holds
    <3>5. ServedOK(t)'
      BY <1>0, <2>1, <3>3 DEF ServedOK
    <3> QED BY <2>1, <3>3, <3>4, <3>5, ObjectsRest
  <2> QED BY <2>2, <2>3
<1>6. CASE GetFn(t)
  <2>1. /\ UNCHANGED <<jvo, flags, id, fmt, index, ptr>> /\ pc[t] = "open"
        /\ pc'[t] = "opening" /\ file'[o] \in {id[o], None}
        /\ req'[t].id = req[t].id /\ req'[t].fmt = Concrete(req[t].fmt)
        /\ \A p \in Objects \ {o} : file'[p] = file[p]
    <3>1. /\ UNCHANGED <<jvo, flags, id, fmt, index, ptr>> /\ pc[t] = "open"
          /\ file' = [file EXCEPT ![o] = IF id[o] \in vml THEN id[o] ELSE None]
          /\ req' = [req EXCEPT ![t] = [req[t] EXCEPT !.fmt = Concrete(req[t].fmt)]]
      BY <1>1, <1>6 DEF GetFn
    <3>2. file'[o] \in {id[o], None} /\ \A p \in Objects \ {o} : file'[p] = file[p]
      BY <3>1 DEF ObjectsOK
    <3>3. req'[t] = [req[t] EXCEPT !.fmt = Concrete(req[t].fmt)]
      BY <1>0, <3>1 DEF LocalsOK
    <3>4. req'[t].id = req[t].id /\ req'[t].fmt = Concrete(req[t].fmt)
      BY <1>2, <3>3 DEF Decode, Info
    <3>5. pc'[t] = "opening"
      BY <1>0, <1>6 DEF GetFn, Goto, LocalsOK
    <3> QED BY <3>1, <3>2, <3>4, <3>5
  <2>2. \A p \in Objects, op \in {"decode", "info"} : ~Holds(t, p, op) /\ ~Holds(t, p, op)'
    BY <2>1 DEF Holds
  <2>3. Concrete(req[t].fmt) # NoFmt
    BY NamesAssumption DEF Concrete
  <2>4. flags[o] = {"VALID", "PENDING"} /\ id[o] = req[t].id
    BY <1>0, <1>1, <2>1 DEF ServedOK
  <2>5. ObjectOK(o, t)'
    BY <1>1, <1>2, <2>1, <2>2, <2>4 DEF ObjectOK
  <2>6. ServedOK(t)'
    BY <1>1, <2>1, <2>3, <2>4 DEF ServedOK
  <2>7. IndexSound'
    BY <1>2, <2>1, IndexStays
  <2> QED BY <2>1, <2>2, <2>5, <2>6, <2>7, ObjectChanges
<1>7. CASE OpenOk(t)
  <2>1. /\ UNCHANGED <<jvo, id, file, index, req, ptr>> /\ pc[t] = "opening"
        /\ Take(t, (flags[o] \ {"PENDING"}) \cup {"OPEN"}) /\ file[o] # None
        /\ fmt' = [fmt EXCEPT ![o] = req[t].fmt]
    BY <1>1, <1>7 DEF OpenOk
  <2>2. /\ flags[o] = {"VALID", "PENDING"} /\ file[o] = id[o] /\ req[t].fmt # NoFmt
    BY <1>0, <1>1, <2>1 DEF ServedOK
  <2>3. (flags[o] \ {"PENDING"}) \cup {"OPEN"} = {"VALID", "OPEN"}
    BY <2>2
  <2>4. {"VALID", "OPEN"} \in SUBSET Flags /\ {"VALID", "OPEN"} \cap {"USED", "INFO"} = {}
    BY DEF Flags
  <2>5. fmt'[o] = req[t].fmt /\ \A p \in Objects \ {o} : fmt'[p] = fmt[p]
    BY <2>1 DEF ObjectsOK
  <2> QED BY <1>1, <2>1, <2>2, <2>3, <2>4, <2>5, TakenSingle
<1>8. CASE OpenFails(t)
  <2>1. /\ UNCHANGED <<jvo, id, fmt, index, req, ptr>> /\ pc[t] = "opening"
        /\ pc'[t] = "release_id" /\ flags'[o] = flags[o] \ {"PENDING"}
        /\ \A p \in Objects \ {o} : flags'[p] = flags[p] /\ file'[p] = file[p]
    BY <1>0, <1>1, <1>8 DEF OpenFails, Goto, LocalsOK, ObjectsOK
  <2>2. \A p \in Objects, op \in {"decode", "info"} : ~Holds(t, p, op) /\ ~Holds(t, p, op)'
    BY <2>1 DEF Holds
  <2>3. flags'[o] = {"VALID"}
    BY <1>0, <1>1, <2>1 DEF ServedOK
  <2>4. ObjectOK(o, t)'
    BY <1>0, <1>1, <1>2, <2>1, <2>2, <2>3 DEF ObjectOK, ServedOK
  <2>5. ServedOK(t)'
    BY <1>1, <2>1 DEF ServedOK
  <2>6. IndexSound'
    BY <1>2, <2>1, IndexStays
  <2> QED BY <2>1, <2>2, <2>4, <2>5, <2>6, ObjectChanges
<1>9. CASE Done(t)
  <2>1. /\ UNCHANGED <<jvo, id, fmt, file, index>> /\ pc[t] = "use"
        /\ pc'[t] = "idle" /\ ptr'[t] = None
    BY <1>0, <1>9 DEF Done, Goto, Reset, Point, LocalsOK
  <2>2. /\ \A p \in Objects, op \in {"decode", "info"} : ~Holds(t, p, op)'
        /\ \A p \in Objects \ {o}, op \in {"decode", "info"} : ~Holds(t, p, op)
        /\ \A op \in {"decode", "info"} : Holds(t, o, op) <=> req[t].op = op
    BY <1>1, <2>1 DEF Holds
  <2>3. PICK g \in {"USED", "INFO"} :
          /\ flags' = [flags EXCEPT ![o] = @ \ {g}]
          /\ req[t].op = (IF g = "USED" THEN "decode" ELSE "info")
    <3>1. CASE req[t].op = "decode"
      BY <1>1, <1>9, <3>1 DEF Done
    <3>2. CASE req[t].op = "info"
      <4>1. refcnt[o] <= 1
        BY OneHolder
      <4> QED BY <1>1, <1>9, <3>2, <4>1 DEF Done
    <3> QED BY <1>2, <3>1, <3>2
  <2>4. flags'[o] = flags[o] \ {g} /\ \A p \in Objects \ {o} : flags'[p] = flags[p]
    BY <2>3 DEF ObjectsOK
  <2>5. ObjectOK(o, t)'
    <3>1. "VALID" \in flags[o] /\ {"USED", "INFO"} \cap flags[o] = {g}
      BY <1>0, <1>1, <1>2, <2>1, <2>2, <2>3 DEF ServedOK, ObjectOK
    <3>2. "VALID" \in flags'[o] /\ {"USED", "INFO"} \cap flags'[o] = {}
      BY <2>4, <3>1
    <3> QED BY <1>1, <1>2, <2>1, <2>2, <2>4, <3>2 DEF ObjectOK
  <2>6. ServedOK(t)'
    BY <2>1 DEF ServedOK
  <2>7. IndexSound'
    BY <1>2, <2>1, IndexStays
  <2> QED BY <2>1, <2>2, <2>4, <2>5, <2>6, <2>7, ObjectChanges
<1> QED BY <1>3, <1>4, <1>5, <1>6, <1>7, <1>8, <1>9

\* A purge frees no object that the client points to.
LEMMA AdminSingle ==
  ASSUME XInv, LocalsOK, ObjectsOK, NEW t \in Clients, Single(t),
         NEW a \in Admins, Admin(a) \/ PurgeCaches(a)
  PROVE  Single(t)'
<1>0. t \in Threads /\ a \in Threads /\ a # t /\ ClientOK(t) /\ ServedOK(t)
  BY ThreadsAssumption DEF Threads, LocalsOK, Single
<1>1. pc'[t] = pc[t] /\ req' = req /\ ptr' = ptr
  <2>1. UNCHANGED <<req, ptr>> /\ \E l : pc' = [pc EXCEPT ![a] = l]
    BY DEF Admin, PurgeCaches, PurgeFile, PurgeBegin, PurgeWait, PurgeWalk, ClearVid, NextVid,
           Goto
  <2> QED BY <1>0, <2>1 DEF LocalsOK
<1>2. \A o \in Objects, op \in {"decode", "info"} : Holds(t, o, op)' <=> Holds(t, o, op)
  BY <1>1 DEF Holds
<1>3. CASE UNCHANGED object
  <2>1. ServedOK(t)'
    BY <1>0, <1>1, <1>3 DEF ServedOK, Idle, object
  <2> QED BY <1>2, <1>3, <2>1, ObjectsRest DEF object
<1>4. CASE PurgeWalk(a)
  <2>1. PICK S \in SUBSET Objects :
          /\ Cleared(S) /\ jvo' = (jvo \ S) \cup {Root} /\ \A o \in S : Idle(o)
    <3>1. /\ Cleared(Freeable(a)) /\ jvo' = (jvo \ Freeable(a)) \cup {Root}
          /\ \A o \in Freeable(a) : Idle(o)
      BY <1>4 DEF PurgeWalk, Kept, Freeable
    <3>2. Freeable(a) \in SUBSET Objects
      BY DEF Freeable, Selected, ObjectsOK
    <3> QED BY <3>1, <3>2
  <2>2. pc[t] \in Outside
    <3>1. lock_busy = a /\ a # None
      BY <1>4, NamesAssumption DEF PurgeWalk, XInv, Threads
    <3>2. BusyClients = {}
      BY <3>1, ClientSets DEF XInv
    <3> QED BY <3>2 DEF XInv, PcOK, BusyClients
  <2>3. CASE pc[t] \in {"idle", "enter", "busyadd"}
    <3>1. ServedOK(t)'
      BY <1>0, <1>1, <2>3 DEF ServedOK
    <3>2. \A o \in Objects \ S : o \in jvo' <=> o \in jvo
      BY <2>1 DEF ObjectsOK
    <3> QED BY <1>2, <2>1, <3>1, <3>2, ClearedSingle
  <2>4. CASE pc[t] = "use"
    <3>1. PICK o \in Objects : o = ptr[t] /\ o \in jvo
      BY <1>0, <2>4, NamesAssumption DEF ClientOK, ServedOK, Pointing
    <3>2. req[t].op \in {"decode", "info"}
      BY <1>0, <2>4 DEF ClientOK, Decode, Info
    <3>3. "USED" \in flags[o] \/ "INFO" \in flags[o]
      BY <2>4, <3>1, <3>2 DEF Single, ObjectOK, Holds
    <3>4. o \notin S
      BY <2>1, <3>3 DEF Idle, InUse
    <3>5. /\ o \in jvo' /\ flags'[o] = flags[o] /\ id'[o] = id[o] /\ fmt'[o] = fmt[o]
      BY <2>1, <3>1, <3>4 DEF Cleared
    <3>6. ServedOK(t)'
      BY <1>0, <1>1, <2>4, <3>1, <3>5 DEF ServedOK
    <3>7. \A p \in Objects \ S : p \in jvo' <=> p \in jvo
      BY <2>1 DEF ObjectsOK
    <3> QED BY <1>2, <2>1, <3>6, <3>7, ClearedSingle
  <2> QED BY <2>2, <2>3, <2>4 DEF Outside
<1> QED BY <1>3, <1>4 DEF Admin, PurgeCaches, PurgeFile, PurgeBegin, PurgeWait, ClearVid, NextVid

\* A request starts without an object.
LEMMA RequestSingle ==
  ASSUME LocalsOK, NEW t \in Clients, Single(t), NEW r \in Requests, Request(t, r)
  PROVE  Single(t)'
<1>1. t \in Threads /\ ServedOK(t)
  BY DEF Threads, Single
<1>2. /\ pc[t] = "idle" /\ pc'[t] = "enter" /\ ptr' = ptr
      /\ UNCHANGED <<jvo, flags, id, fmt, file, index>>
  BY <1>1 DEF Request, Goto, LocalsOK, object
<1>3. \A o \in Objects, op \in {"decode", "info"} : Holds(t, o, op)' <=> Holds(t, o, op)
  BY <1>2 DEF Holds
<1>4. ServedOK(t)'
  BY <1>1, <1>2 DEF ServedOK
<1> QED BY <1>2, <1>3, <1>4, ObjectsRest

\* What one client at a time is given is what it asked for, in every state.
THEOREM SingleInductive ==
  ASSUME OneClient
  PROVE  Spec => []SingleInv
<1>1. Init => SingleInv
  <2> SUFFICES ASSUME Init, NEW t \in Clients PROVE Single(t)
    BY DEF SingleInv
  <2>1. pc[t] = "idle" /\ ptr[t] = None
    BY DEF Init, Threads
  <2>2. \A o \in Objects : ObjectOK(o, t)
    BY <2>1 DEF Init, ObjectOK, Holds
  <2>3. IndexSound
    BY DEF Init, IndexSound
  <2>4. ServedOK(t)
    BY <2>1 DEF ServedOK
  <2> QED BY <2>2, <2>3, <2>4 DEF Single
<1>2. XInv /\ TypeInv /\ SingleInv /\ [Next]_vars => SingleInv'
  <2> SUFFICES ASSUME XInv, TypeInv, SingleInv, [Next]_vars, NEW t \in Clients
               PROVE  Single(t)'
    BY DEF SingleInv
  <2>0. LocalsOK /\ ObjectsOK /\ RefsInv /\ Single(t)
    BY DEF TypeInv, SingleInv
  <2>1. ASSUME NEW u \in Clients, Client(u) PROVE Single(t)'
    <3>1. u = t
      BY DEF OneClient
    <3> QED BY <2>0, <2>1, <3>1, LookingSingle, PreparingSingle, TakingSingle DEF Client
  <2>2. ASSUME NEW a \in Admins, Admin(a) \/ PurgeCaches(a) PROVE Single(t)'
    BY <2>0, <2>2, AdminSingle
  <2>3. ASSUME NEW u \in Clients, NEW r \in Requests, Request(u, r) PROVE Single(t)'
    <3>1. u = t
      BY DEF OneClient
    <3> QED BY <2>0, <2>3, <3>1, RequestSingle
  <2>4. CASE UNCHANGED vars
    <3>1. UNCHANGED <<jvo, flags, id, fmt, file, index, pc, ptr, req>>
      BY <2>4 DEF vars, object, local
    <3>2. \A o \in Objects, op \in {"decode", "info"} : Holds(t, o, op)' <=> Holds(t, o, op)
      BY <3>1 DEF Holds
    <3>3. ServedOK(t)'
      BY <2>0, <3>1 DEF Single, ServedOK, Idle
    <3> QED BY <2>0, <3>1, <3>2, <3>3, ObjectsRest
  <2> QED BY <2>1, <2>2, <2>3, <2>4 DEF Next
<1> QED BY <1>1, <1>2, ExclusionInductive, TypesInductive, PTL DEF Spec

\* No purge, recycling or garbage collection frees an object that the client
\* points to, or leaves it in the index.
THEOREM NothingDangles ==
  ASSUME OneClient
  PROVE  Spec => []NoDanglingObject
<1>1. TypeInv /\ SingleInv => NoDanglingObject
  <2> SUFFICES ASSUME TypeInv, SingleInv PROVE NoDanglingObject
    OBVIOUS
  <2>1. PICK t \in Clients : Single(t)
    BY ThreadsAssumption DEF SingleInv
  <2>2. \A o \in Objects : index[o] # None => o \in jvo
    BY <2>1 DEF Single, ObjectOK
  <2>3. \A u \in Clients : ptr[u] \in jvo \cup {None}
    BY DEF SingleInv, Single, ServedOK
  <2> QED BY <2>2, <2>3 DEF NoDanglingObject
<1> QED BY <1>1, SingleInductive, TypesInductive, PTL

\* An open object has open the file that its ID names, although it may have
\* been claimed, recycled and cleared in between.
THEOREM OpenObjectsMatch ==
  ASSUME OneClient
  PROVE  Spec => []OpenMatchesId
<1>1. TypeInv /\ SingleInv => OpenMatchesId
  BY ThreadsAssumption DEF TypeInv, ObjectsOK, SingleInv, Single, ObjectOK, OpenMatchesId
<1> QED BY <1>1, SingleInductive, TypesInductive, PTL

\* The decoder is the one that was asked for, and flags and reference count
\* say who has it.
THEOREM DecoderIsForRequest ==
  ASSUME OneClient
  PROVE  Spec => []DecoderForRequest
<1>1. TypeInv /\ SingleInv => DecoderForRequest
  <2> SUFFICES ASSUME TypeInv, SingleInv PROVE DecoderForRequest
    OBVIOUS
  <2>0. LocalsOK /\ ObjectsOK /\ RefsInv
    BY DEF TypeInv
  <2>1. ASSUME NEW t \in Clients, pc[t] = "use"
        PROVE  /\ {"OPEN", "VALID"} \subseteq flags[ptr[t]]
               /\ file[ptr[t]] = req[t].id
               /\ req[t].fmt # NoFmt => fmt[ptr[t]] = req[t].fmt
    <3>1. ServedOK(t) /\ ptr[t] \in Objects
      BY <2>0, <2>1 DEF SingleInv, Single, LocalsOK, ClientOK, Pointing
    <3>2. ObjectOK(ptr[t], t)
      BY <3>1 DEF SingleInv, Single
    <3> QED BY <2>1, <3>1, <3>2 DEF ServedOK, ObjectOK
  <2>2. ASSUME NEW o \in jvo
        PROVE  /\ "USED" \in flags[o] <=> Decoders(o) # {}
               /\ \A t, u \in Decoders(o) : t = u
               /\ refcnt[o] = Cardinality(InfoHolders(o))
               /\ "INFO" \in flags[o] <=> refcnt[o] > 0
    <3>1. PICK t \in Clients : \A u \in Clients : u = t
      BY ThreadsAssumption DEF OneClient
    <3>2. o \in Objects /\ ObjectOK(o, t)
      BY <2>0, <3>1 DEF ObjectsOK, SingleInv, Single
    <3>3. /\ Holds(t, o, "decode") <=> Decoders(o) # {}
          /\ Holds(t, o, "info") <=> InfoHolders(o) # {}
      BY <3>1 DEF Holds, Decoders, InfoHolders
    <3>4. refcnt[o] = Cardinality(InfoHolders(o)) /\ refcnt[o] \in Nat
      BY <2>0, <3>2 DEF RefsInv
    <3>5. InfoHolders(o) # {} <=> refcnt[o] > 0
      BY <3>4, CounterSets, FS_EmptySet
    <3>6. \A u, v \in Decoders(o) : u = v
      BY DEF OneClient, Decoders
    <3> QED BY <3>2, <3>3, <3>4, <3>5, <3>6 DEF ObjectOK
  <2> QED BY <2>1, <2>2 DEF DecoderForRequest
<1> QED BY <1>1, SingleInductive, TypesInductive, PTL

\* One object of a file is in the index, under the ID it carries.
THEOREM IndexIsSound ==
  ASSUME OneClient
  PROVE  Spec => []IndexSound
<1>1. SingleInv => IndexSound
  BY ThreadsAssumption DEF SingleInv, Single
<1> QED BY <1>1, SingleInductive, PTL
=============================================================================
