------------------------- MODULE SocketServerProofs -------------------------
(***************************************************************************)
(* Proofs about SocketServer, for any number of connections and any limit. *)
(*                                                                         *)
(* The limit is not inductive by itself: between the unlocked test in      *)
(* accept_connection() and the increment in start_child() the bound has to *)
(* survive, which it does because only the main thread increments          *)
(* (RoomKept).                                                             *)
(***************************************************************************)
EXTENDS SocketServer, FiniteSetTheorems, TLAPS

\* Once a connection was accepted there is room for it until it is counted.
RoomKept == main = "count" => num_clients < MaxConnections

SInv == TypeOK /\ ClientsCounted /\ ConnectionLimit /\ RoomKept

\* The counted connections are finitely many.
LEMMA CountedFinite ==
  /\ IsFiniteSet(Counted)
  /\ Cardinality(Counted) \in Nat
  /\ Cardinality(Counted) = 0 <=> Counted = {}
<1>1. Counted \in SUBSET Conns
  BY DEF Counted
<1>2. IsFiniteSet(Counted)
  BY <1>1, FS_Subset, ConnsAssumption
<1>. QED
  BY <1>2, FS_CardinalityType, FS_EmptySet

\* At first nobody is connected.
LEMMA InitSInv == Init => SInv
<1>. SUFFICES ASSUME Init PROVE SInv
  OBVIOUS
<1>1. Counted = {}
  BY DEF Init, Counted
<1>2. TypeOK
  <2>1. tries \in 1 .. ShutdownTries /\ 0 \in 0 .. ConTimeout
    BY LimitAssumption DEF Init
  <2>2. timeout_cnt \in [Conns -> 0 .. ConTimeout]
    BY <2>1 DEF Init
  <2>. QED
    BY <2>1, <2>2 DEF Init, TypeOK
<1>3. ClientsCounted
  BY <1>1, FS_EmptySet DEF Init, ClientsCounted
<1>4. ConnectionLimit /\ RoomKept
  BY LimitAssumption DEF Init, ConnectionLimit, RoomKept
<1>. QED
  BY <1>2, <1>3, <1>4 DEF SInv

\* A connection that joins the counted ones.
LEMMA Joins ==
  ASSUME SInv, NEW c \in Conns, c \notin Counted,
         Counted' = Counted \cup {c}, num_clients' = num_clients + 1
  PROVE  ClientsCounted'
  BY CountedFinite, FS_AddElement DEF SInv, ClientsCounted

\* A connection that leaves the counted ones; the count was positive.
LEMMA Leaves ==
  ASSUME SInv, NEW c \in Conns, c \in Counted,
         Counted' = Counted \ {c}, num_clients' = num_clients - 1
  PROVE  ClientsCounted' /\ num_clients' \in Nat /\ num_clients' < num_clients
<1>1. num_clients = Cardinality(Counted) /\ num_clients \in Nat /\ num_clients # 0
  BY CountedFinite DEF SInv, ClientsCounted
<1>2. Cardinality(Counted') = Cardinality(Counted) - 1
  BY CountedFinite, FS_RemoveElement
<1>. QED
  BY <1>1, <1>2 DEF ClientsCounted

\* The steps of the main thread.
LEMMA MainStep == ASSUME SInv, Main PROVE SInv'
<1>. USE DEF SInv, TypeOK, daemon, conns
<1>1. CASE LoopTest \/ SelectError \/ IdleTick \/ Refuse \/ DrainWait \/ DrainEnd
  <2>1. Counted' = Counted /\ num_clients' = num_clients /\ max_clients' = max_clients
    BY <1>1 DEF Counted, LoopTest, SelectError, IdleTick, Refuse, DrainWait, DrainEnd
  <2>2. main' # "count"
    BY <1>1 DEF LoopTest, SelectError, IdleTick, Refuse, DrainWait, DrainEnd
  <2>3. TypeOK'
    <3>1. CASE LoopTest \/ SelectError \/ Refuse \/ DrainEnd
      BY <3>1 DEF LoopTest, SelectError, Refuse, DrainEnd
    <3>2. CASE IdleTick
      BY <3>2, LimitAssumption DEF IdleTick
    <3>3. CASE DrainWait
      BY <3>3, LimitAssumption DEF DrainWait
    <3>. QED
      BY <1>1, <3>1, <3>2, <3>3
  <2>. QED
    BY <2>1, <2>2, <2>3 DEF ClientsCounted, ConnectionLimit, RoomKept
<1>2. ASSUME NEW c \in Conns, Accept(c) PROVE SInv'
  <2>1. Counted' = Counted
    BY <1>2 DEF Counted, Accept
  <2>2. TypeOK'
    BY <1>2 DEF Accept
  <2>. QED
    BY <1>2, <2>1, <2>2
       DEF Accept, HasRoom, ClientsCounted, ConnectionLimit, RoomKept
<1>3. ASSUME NEW c \in Conns, Count(c) PROVE SInv'
  <2>1. c \notin Counted /\ Counted' = Counted \cup {c}
    BY <1>3 DEF Counted, Count
  <2>2. TypeOK'
    BY <1>3 DEF Count, HighWater
  <2>3. ClientsCounted'
    BY <1>3, <2>1, Joins DEF Count
  <2>4. ConnectionLimit' /\ RoomKept'
    BY <1>3, LimitAssumption DEF Count, HighWater, ConnectionLimit, RoomKept
  <2>. QED
    BY <2>2, <2>3, <2>4
<1>4. ASSUME NEW c \in Conns, Create(c) PROVE SInv'
  <2>1. Counted' = Counted
    BY <1>4 DEF Counted, Create
  <2>2. TypeOK'
    BY <1>4, LimitAssumption DEF Create
  <2>. QED
    BY <1>4, <2>1, <2>2 DEF Create, ClientsCounted, ConnectionLimit, RoomKept
<1>5. ASSUME NEW c \in Conns, CreateFails(c) PROVE SInv'
  <2>1. c \in Counted /\ Counted' = Counted \ {c}
    BY <1>5 DEF Counted, CreateFails
  <2>2. ClientsCounted' /\ num_clients' \in Nat /\ num_clients' < num_clients
    BY <1>5, <2>1, Leaves DEF CreateFails, Uncounted
  <2>3. TypeOK'
    BY <1>5, <2>2 DEF CreateFails
  <2>. QED
    BY <1>5, <2>2, <2>3, LimitAssumption DEF CreateFails, ConnectionLimit, RoomKept
<1>. QED
  BY <1>1, <1>2, <1>3, <1>4, <1>5 DEF Main

\* The steps of a connection thread.
LEMMA HandlerStep == ASSUME SInv, NEW c \in Conns, Handler(c) PROVE SInv'
<1>. USE DEF SInv, TypeOK, daemon
<1>1. CASE HandlerUncount(c)
  <2>1. c \in Counted /\ Counted' = Counted \ {c}
    BY <1>1 DEF Counted, HandlerUncount, Goto
  <2>2. ClientsCounted' /\ num_clients' \in Nat /\ num_clients' < num_clients
    BY <1>1, <2>1, Leaves DEF HandlerUncount
  <2>3. TypeOK'
    BY <1>1, <2>2 DEF HandlerUncount, Goto
  <2>. QED
    BY <1>1, <2>2, <2>3, LimitAssumption DEF HandlerUncount, ConnectionLimit, RoomKept
<1>2. CASE ~HandlerUncount(c)
  <2>1. TypeOK'
    <3>1. CASE HandlerTimeout(c)
      BY <3>1, LimitAssumption
         DEF HandlerTimeout, QuietForTooLong, QuietTime, Goto
    <3>2. CASE HandlerTest(c) \/ HandlerReady(c) \/ RequestAgain(c) \/ HandlerBreak(c)
      BY <3>2 DEF HandlerTest, HandlerReady, RequestAgain, HandlerBreak, Goto
    <3>3. CASE Finish(c)
      BY <3>3 DEF Finish, RequestDone, RequestShutdown, RequestBreak, Goto
    <3>4. CASE HandlerUnlock(c)
      BY <3>4, LimitAssumption DEF HandlerUnlock, Goto
    <3>. QED
      BY <1>2, <3>1, <3>2, <3>3, <3>4 DEF Handler
  <2>2. Counted' = Counted
    <3>1. CASE HandlerTimeout(c)
      BY <3>1 DEF Counted, HandlerTimeout, Goto
    <3>2. CASE HandlerTest(c) \/ HandlerReady(c) \/ RequestAgain(c) \/ HandlerBreak(c)
      BY <3>2 DEF Counted, HandlerTest, HandlerReady, RequestAgain, HandlerBreak, Goto
    <3>3. CASE Finish(c)
      BY <3>3 DEF Counted, Finish, RequestDone, RequestShutdown, RequestBreak, Goto
    <3>4. CASE HandlerUnlock(c)
      BY <3>4 DEF Counted, HandlerUnlock, Goto
    <3>. QED
      BY <1>2, <3>1, <3>2, <3>3, <3>4 DEF Handler
  <2>3. UNCHANGED <<num_clients, max_clients, main>>
    BY <1>2
       DEF Handler, HandlerTest, HandlerTimeout, HandlerReady, Finish, RequestDone,
           RequestShutdown, RequestBreak, RequestAgain, HandlerBreak, HandlerUnlock
  <2>. QED
    BY <2>1, <2>2, <2>3 DEF ClientsCounted, ConnectionLimit, RoomKept
<1>. QED
  BY <1>1, <1>2

\* Every step preserves the inductive invariant.
LEMMA NextSInv == SInv /\ [Next]_vars => SInv'
<1>. SUFFICES ASSUME SInv, [Next]_vars PROVE SInv'
  OBVIOUS
<1>1. CASE Signal
  BY <1>1 DEF Signal, SInv, TypeOK, conns, Counted, ClientsCounted,
              ConnectionLimit, RoomKept
<1>2. CASE UNCHANGED vars
  BY <1>2 DEF vars, daemon, conns, SInv, TypeOK, Counted, ClientsCounted,
              ConnectionLimit, RoomKept
<1>. QED
  BY <1>1, <1>2, MainStep, HandlerStep DEF Next

\* The invariant holds throughout every behaviour of the daemon.
THEOREM ServerInductive == Spec => []SInv
  BY InitSInv, NextSInv, PTL DEF Spec

\* Every variable of the daemon keeps its type.
THEOREM ServerTypeCorrect == Spec => []TypeOK
<1>1. SInv => TypeOK
  BY DEF SInv
<1>. QED
  BY <1>1, ServerInductive, PTL

\* num_clients is exact on every path, for any number of connections.
THEOREM ClientsExact == Spec => []ClientsCounted
<1>1. SInv => ClientsCounted
  BY DEF SInv
<1>. QED
  BY <1>1, ServerInductive, PTL

\* The unlocked test in accept_connection() suffices to keep the limit.
THEOREM LimitKept == Spec => []ConnectionLimit
<1>1. SInv => ConnectionLimit
  BY DEF SInv
<1>. QED
  BY <1>1, ServerInductive, PTL
=============================================================================
