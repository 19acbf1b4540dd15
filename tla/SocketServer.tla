---------------------------- MODULE SocketServer ----------------------------
(***************************************************************************)
(* The TCP daemon of src/socket_server.c: the main loop that accepts       *)
(* connections, one detached thread per connection, the shared daemon      *)
(* handle ICI *d, and the shutdown.                                        *)
(*                                                                         *)
(* The accept check and the shutdown loop read num_clients without the     *)
(* lock; the threads change it under the lock.  The lock of a closing      *)
(* connection is therefore taken and released in separate actions.  What   *)
(* a request does is protocol_handler()'s business: here it takes time and *)
(* ends in one of the ways its callers can tell apart.  Seconds are steps. *)
(***************************************************************************)
EXTENDS Integers, FiniteSets

CONSTANTS
  Conns,           \* addresses of CONN objects
  MaxConnections,  \* MAXCONNECTIONS
  ConTimeout,      \* CON_TIMEOUT, in steps of SLEEP_STEP
  IdleTimeout,     \* d->timeout, 0: none
  ShutdownTries,   \* the shutdown's local "timeout" (31 in the code)
  SelectFails,     \* whether the main loop's select() may fail
  Nobody           \* no owner of d->lock

ASSUME ConnsAssumption == IsFiniteSet(Conns) /\ Nobody \notin Conns
ASSUME LimitAssumption ==
  /\ MaxConnections \in Nat \ {0}
  /\ ConTimeout \in Nat
  /\ IdleTimeout \in Nat
  /\ ShutdownTries \in Nat \ {0}
  /\ SelectFails \in BOOLEAN

VARIABLES
  main,             \* where the main thread is
  run,              \* d->run
  global_shutdown,  \* set by the signal handler or the idle timeout
  num_clients,      \* d->num_clients
  max_clients,      \* d->max_clients
  lock,             \* the owner of d->lock
  age,              \* d->age
  tries,            \* seconds left to wait for connections to close
  handler,          \* handler[c]: where the thread of connection c is
  crun,             \* crun[c]: c->run
  timeout_cnt       \* timeout_cnt[c]: c->timeout_cnt

daemon == <<run, global_shutdown, num_clients, max_clients, age>>
conns == <<handler, crun, timeout_cnt>>
vars == <<main, daemon, lock, tries, conns>>

Init ==
  /\ main = "test"
  /\ run = TRUE
  /\ global_shutdown = FALSE
  /\ num_clients = 0
  /\ max_clients = 0
  /\ lock = Nobody
  /\ age = 0
  /\ tries = ShutdownTries
  /\ handler = [c \in Conns |-> "none"]
  /\ crun = [c \in Conns |-> FALSE]
  /\ timeout_cnt = [c \in Conns |-> 0]

-----------------------------------------------------------------------------
(***************************************************************************)
(* The main thread.                                                        *)
(***************************************************************************)

\* A mutant: the main loop does not look at the signal handler's flag.
KeepRunningDespiteSignal == run

KeepRunning == run /\ ~global_shutdown

\* while (d->run && !global_shutdown)
LoopTest ==
  /\ main = "test"
  /\ main' = IF KeepRunning THEN "select" ELSE "drain"
  /\ UNCHANGED <<daemon, lock, tries, conns>>

\* select() fails with something other than EINTR: straight to daemon_end.
SelectError ==
  /\ main = "select"
  /\ SelectFails
  /\ main' = "end"
  /\ run' = FALSE
  /\ UNCHANGED <<global_shutdown, num_clients, max_clients, age, lock, tries, conns>>

\* Nobody connects for a second.
IdleTick ==
  /\ main = "select"
  /\ age' = age + 1
  /\ global_shutdown' = (global_shutdown \/ (IdleTimeout > 0 /\ age + 1 > IdleTimeout))
  /\ main' = "test"
  /\ UNCHANGED <<run, num_clients, max_clients, lock, tries, conns>>

\* A mutant: one connection too many is let in.
HasRoomOffByOne == num_clients <= MaxConnections

\* accept_connection() reads the count without the lock.
HasRoom == num_clients < MaxConnections

\* Too many connections, or accept() fails.
Refuse ==
  /\ main = "select"
  /\ main' = "test"
  /\ UNCHANGED <<daemon, lock, tries, conns>>

Accept(c) ==
  /\ main = "select"
  /\ HasRoom
  /\ handler[c] = "none"
  /\ handler' = [handler EXCEPT ![c] = "accepted"]
  /\ main' = "count"
  /\ UNCHANGED <<daemon, lock, tries, crun, timeout_cnt>>

\* A mutant: the high-water mark is compared before the new client counts.
HighWaterBefore == IF num_clients > max_clients THEN num_clients ELSE max_clients

\* max_clients after one more client.
HighWater ==
  IF num_clients + 1 > max_clients THEN num_clients + 1 ELSE max_clients

\* start_child() counts the connection under the lock.
Count(c) ==
  /\ main = "count"
  /\ handler[c] = "accepted"
  /\ lock = Nobody
  /\ num_clients' = num_clients + 1
  /\ max_clients' = HighWater
  /\ handler' = [handler EXCEPT ![c] = "counted"]
  /\ crun' = [crun EXCEPT ![c] = TRUE]
  /\ main' = "create"
  /\ UNCHANGED <<run, global_shutdown, age, lock, tries, timeout_cnt>>

\* create_client() starts the thread.
Create(c) ==
  /\ main = "create"
  /\ handler[c] = "counted"
  /\ handler' = [handler EXCEPT ![c] = "test"]
  /\ timeout_cnt' = [timeout_cnt EXCEPT ![c] = 0]
  /\ age' = 0
  /\ main' = "test"
  /\ UNCHANGED <<run, global_shutdown, num_clients, max_clients, lock, tries, crun>>

\* A mutant: the client of a thread that did not start stays counted.
UncountedForgotten == num_clients

\* The count after the thread could not be created.
Uncounted == num_clients - 1

\* pthread_create() fails: the connection is closed and counted off.
CreateFails(c) ==
  /\ main = "create"
  /\ handler[c] = "counted"
  /\ lock = Nobody
  /\ num_clients' = Uncounted
  /\ handler' = [handler EXCEPT ![c] = "none"]
  /\ crun' = [crun EXCEPT ![c] = FALSE]
  /\ age' = 0
  /\ main' = "test"
  /\ UNCHANGED <<run, global_shutdown, max_clients, lock, tries, timeout_cnt>>

\* "wait until all connections are closed", up to 30 seconds.
DrainWait ==
  /\ main = "drain"
  /\ num_clients > 0
  /\ tries > 1
  /\ tries' = tries - 1
  /\ UNCHANGED <<main, daemon, lock, conns>>

\* daemon_end: d->run = 0, the lock is destroyed and d is freed.
DrainEnd ==
  /\ main = "drain"
  /\ num_clients = 0 \/ tries = 1
  /\ main' = "end"
  /\ run' = FALSE
  /\ UNCHANGED <<global_shutdown, num_clients, max_clients, age, lock, tries, conns>>

\* SIGINT or SIGHUP; the handler is installed until the main loop ends.
Signal ==
  /\ main \notin {"drain", "end"}
  /\ ~global_shutdown
  /\ global_shutdown' = TRUE
  /\ UNCHANGED <<main, run, num_clients, max_clients, age, lock, tries, conns>>

Main ==
  \/ LoopTest
  \/ SelectError
  \/ IdleTick
  \/ Refuse
  \/ \E c \in Conns : Accept(c) \/ Count(c) \/ Create(c) \/ CreateFails(c)
  \/ DrainWait
  \/ DrainEnd

-----------------------------------------------------------------------------
(***************************************************************************)
(* socket_handler(): the thread of one connection.                         *)
(***************************************************************************)

Goto(c, l) == handler' = [handler EXCEPT ![c] = l]

\* d has been freed: a thread that would use it is not followed any further.
Freed == main = "end"

\* while (c->run && c->d->run)
HandlerTest(c) ==
  /\ handler[c] = "test" /\ ~Freed
  /\ Goto(c, IF crun[c] /\ run THEN "select" ELSE "close")
  /\ UNCHANGED <<main, daemon, lock, tries, crun, timeout_cnt>>

\* A mutant: the time that has just passed is not taken into account.
QuietForTooLongLate(c) == timeout_cnt[c] > ConTimeout

QuietForTooLong(c) == timeout_cnt[c] + 1 > ConTimeout

\* A mutant: the quiet time does not add up.
QuietTimeReset(c) == 0

QuietTime(c) == timeout_cnt[c] + 1

\* Nothing to read for SLEEP_STEP seconds.
HandlerTimeout(c) ==
  /\ handler[c] = "select"
  /\ IF QuietForTooLong(c)
       THEN Goto(c, "close") /\ UNCHANGED timeout_cnt
       ELSE Goto(c, "test") /\ timeout_cnt' = [timeout_cnt EXCEPT ![c] = QuietTime(c)]
  /\ UNCHANGED <<main, daemon, lock, tries, crun>>

\* There is input: protocol_handler() is called with c->d->userdata.
HandlerReady(c) ==
  /\ handler[c] = "select" /\ ~Freed
  /\ Goto(c, "request")
  /\ UNCHANGED <<main, daemon, lock, tries, crun, timeout_cnt>>

\* The request was answered; c->run = 0.
RequestDone(c) ==
  /\ handler[c] = "request"
  /\ crun' = [crun EXCEPT ![c] = FALSE]
  /\ Goto(c, "test")
  /\ UNCHANGED <<main, daemon, lock, tries, timeout_cnt>>

\* /admin/shutdown: d->run = 0 as well.
RequestShutdown(c) ==
  /\ handler[c] = "request" /\ ~Freed
  /\ crun' = [crun EXCEPT ![c] = FALSE]
  /\ run' = FALSE
  /\ Goto(c, "test")
  /\ UNCHANGED <<main, global_shutdown, num_clients, max_clients, age, lock, tries,
                 timeout_cnt>>

\* read() was interrupted: try again.
RequestAgain(c) ==
  /\ handler[c] = "request"
  /\ Goto(c, "test")
  /\ UNCHANGED <<main, daemon, lock, tries, crun, timeout_cnt>>

\* read() fails, or the peer has closed the connection.
RequestBreak(c) ==
  /\ handler[c] = "request"
  /\ Goto(c, "close")
  /\ UNCHANGED <<main, daemon, lock, tries, crun, timeout_cnt>>

\* The connection's select() fails.
HandlerBreak(c) ==
  /\ handler[c] = "select"
  /\ Goto(c, "close")
  /\ UNCHANGED <<main, daemon, lock, tries, crun, timeout_cnt>>

\* close(), then num_clients-- under the lock ...
HandlerUncount(c) ==
  /\ handler[c] = "close" /\ ~Freed
  /\ lock = Nobody
  /\ lock' = c
  /\ num_clients' = num_clients - 1
  /\ Goto(c, "unlock")
  /\ UNCHANGED <<main, run, global_shutdown, max_clients, age, tries, crun, timeout_cnt>>

\* ... and the lock is released and c is freed.
HandlerUnlock(c) ==
  /\ handler[c] = "unlock" /\ ~Freed
  /\ lock' = Nobody
  /\ Goto(c, "none")
  /\ crun' = [crun EXCEPT ![c] = FALSE]
  /\ timeout_cnt' = [timeout_cnt EXCEPT ![c] = 0]
  /\ UNCHANGED <<main, daemon, tries>>

Finish(c) == RequestDone(c) \/ RequestShutdown(c) \/ RequestBreak(c)

Handler(c) ==
  \/ HandlerTest(c)
  \/ HandlerTimeout(c)
  \/ HandlerReady(c)
  \/ Finish(c)
  \/ RequestAgain(c)
  \/ HandlerBreak(c)
  \/ HandlerUncount(c)
  \/ HandlerUnlock(c)

Next ==
  \/ Main
  \/ Signal
  \/ \E c \in Conns : Handler(c)

Spec == Init /\ [][Next]_vars

(***************************************************************************)
(* The main thread and every connection thread keep running.  A mutex is   *)
(* not withheld forever from a thread that waits for it, and a read() is   *)
(* not interrupted forever.  Nobody has to connect, and no signal has to   *)
(* come.                                                                   *)
(***************************************************************************)
FairSpec ==
  /\ Spec
  /\ WF_vars(Main)
  /\ \A c \in Conns : /\ WF_vars(Handler(c))
                      /\ SF_vars(Finish(c))
                      /\ SF_vars(HandlerUncount(c))

-----------------------------------------------------------------------------
\* The connections num_clients stands for.
Counted ==
  {c \in Conns : handler[c] \in {"counted", "test", "select", "request", "close"}}

TypeOK ==
  /\ main \in {"test", "select", "count", "create", "drain", "end"}
  /\ run \in BOOLEAN
  /\ global_shutdown \in BOOLEAN
  /\ num_clients \in Nat
  /\ max_clients \in Nat
  /\ lock \in Conns \cup {Nobody}
  /\ age \in Nat
  /\ tries \in 1 .. ShutdownTries
  /\ handler \in [Conns -> {"none", "accepted", "counted", "test", "select",
                            "request", "close", "unlock"}]
  /\ crun \in [Conns -> BOOLEAN]
  /\ timeout_cnt \in [Conns -> 0 .. ConTimeout]

\* num_clients is the number of connections that are open or being set up, on
\* every path: served, timed out, broken, or never started.
ClientsCounted == num_clients = Cardinality(Counted)

\* The limit holds although accept_connection() tests it without the lock
\* ("? not needed") and threads leave in between; max_clients records the
\* highest count, so it stays within the limit too.
ConnectionLimit == num_clients <= max_clients /\ max_clients <= MaxConnections

\* Once a shutdown is requested, by a signal, an idle timeout or the admin
\* command, the daemon ends even if clients stay connected.
ShutdownCompletes == (global_shutdown \/ ~run) ~> main = "end"

\* A connection does not live forever: it is served, breaks or times out and
\* is counted off, unless the daemon ends first.
ConnectionEnds ==
  \A c \in Conns : handler[c] # "none" ~> (handler[c] = "none" \/ main = "end")

\* "wait until all connections are closed": the daemon handle is not freed
\* while a connection thread still uses it.
DaemonOutlivesHandlers ==
  main = "end" => \A c \in Conns : handler[c] = "none"
=============================================================================
