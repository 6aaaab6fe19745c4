----------------------------- MODULE MitmProxy ------------------------------
(***************************************************************************)
(* The capturing proxy of app/gzh/src/proxy.cpp: an accept thread, one     *)
(* detached thread per connection, and stop(), which must not return while *)
(* any of them can still touch the proxy it is about to destroy.  Time and *)
(* bytes are left out: a connection is where its thread stands.            *)
(***************************************************************************)
EXTENDS Naturals, FiniteSets

CONSTANT Conn       \* connections a process may receive

ASSUME ConnAssumption == IsFiniteSet(Conn)

VARIABLES
  running,          \* Impl::running
  listening,        \* listen_fd is open
  acceptor,         \* the accept thread: where its loop stands
  inflight,         \* Impl::inflight
  conn,             \* where each connection stands
  client_fds, upstream_fds,     \* the sockets stop() may shut down
  cut,              \* connections whose client socket stop() shut down
  stop              \* where stop() stands

proxyVars == <<running, listening, acceptor, inflight, conn,
               client_fds, upstream_fds, cut, stop>>

AcceptorAt == {"off", "check", "accept", "got", "done"}
StopAt == {"idle", "closing", "joining", "sweeping", "waiting", "stopped"}

(* Waiting in the kernel's queue or in the accept thread's hands.          *)
Unserved == {"none", "backlog", "got", "gone"}
(* Phases of a thread whose client socket is open, by its position.        *)
InServe == {"reading", "connecting", "splice", "relay", "upclose"}
ClientOpen == {"got", "spawned", "leave", "close"} \cup InServe
UpstreamOpen == {"relay", "upclose"}
Threaded == {"spawned", "leave", "close", "uncount"} \cup InServe

Live == {c \in Conn : conn[c] \in Threaded}

ProxyTypeOK ==
  /\ running \in BOOLEAN /\ listening \in BOOLEAN
  /\ acceptor \in AcceptorAt /\ stop \in StopAt
  /\ inflight \in Nat
  /\ conn \in [Conn -> Unserved \cup Threaded]
  /\ client_fds \subseteq Conn /\ upstream_fds \subseteq Conn /\ cut \subseteq Conn

(* No proxy: before start(), and once the process is gone.                 *)
ProxyInit ==
  /\ running = FALSE /\ listening = FALSE
  /\ acceptor = "off" /\ stop = "idle"
  /\ inflight = 0
  /\ conn = [c \in Conn |-> "none"]
  /\ client_fds = {} /\ upstream_fds = {} /\ cut = {}

ProxyGone ==
  /\ running' = FALSE /\ listening' = FALSE
  /\ acceptor' = "off" /\ stop' = "idle"
  /\ inflight' = 0
  /\ conn' = [c \in Conn |-> "none"]
  /\ client_fds' = {} /\ upstream_fds' = {} /\ cut' = {}

(* start(): bind, listen, the accept thread begins.                        *)
Start ==
  /\ listening' = TRUE /\ running' = TRUE
  /\ acceptor' = "check"
  /\ UNCHANGED <<inflight, conn, client_fds, upstream_fds, cut, stop>>

Moves(c, from, to) == conn[c] = from /\ conn' = [conn EXCEPT ![c] = to]

-----------------------------------------------------------------------------
(* Clients and the kernel. *)

Dial(c) ==
  /\ listening
  /\ Moves(c, "none", "backlog")
  /\ UNCHANGED <<running, listening, acceptor, inflight, client_fds, upstream_fds, cut, stop>>

-----------------------------------------------------------------------------
(* The accept thread. *)

Check ==
  /\ acceptor = "check"
  /\ acceptor' = IF running THEN "accept" ELSE "done"
  /\ UNCHANGED <<running, listening, inflight, conn, client_fds, upstream_fds, cut, stop>>

Accept(c) ==
  /\ acceptor = "accept" /\ listening
  /\ Moves(c, "backlog", "got")
  /\ acceptor' = "got"
  /\ UNCHANGED <<running, listening, inflight, client_fds, upstream_fds, cut, stop>>

(* accept() on the socket stop() has shut down; running is already false.  *)
AcceptFails ==
  /\ acceptor = "accept" /\ ~listening
  /\ acceptor' = IF running THEN "check" ELSE "done"
  /\ UNCHANGED <<running, listening, inflight, conn, client_fds, upstream_fds, cut, stop>>

(* The connection is counted before its thread exists.                     *)
Spawn(c) ==
  /\ acceptor = "got"
  /\ Moves(c, "got", "spawned")
  /\ inflight' = inflight + 1
  /\ acceptor' = "check"
  /\ UNCHANGED <<running, listening, client_fds, upstream_fds, cut, stop>>

-----------------------------------------------------------------------------
(* A connection's thread. *)

Register(c) ==
  /\ Moves(c, "spawned", "reading")
  /\ client_fds' = client_fds \cup {c}
  /\ UNCHANGED <<running, listening, acceptor, inflight, upstream_fds, cut, stop>>

(* The request is read: a CONNECT, to a host that is intercepted or not.   *)
ReadRequest(c) ==
  /\ c \notin cut
  /\ Moves(c, "reading", "connecting")
  /\ UNCHANGED <<running, listening, acceptor, inflight, client_fds, upstream_fds, cut, stop>>

(* open_upstream: bounded by the socket's timeouts.                        *)
Splice(c) ==
  /\ Moves(c, "connecting", "splice")
  /\ UNCHANGED <<running, listening, acceptor, inflight, client_fds, upstream_fds, cut, stop>>

Intercept(c) ==
  /\ Moves(c, "connecting", "relay")
  /\ upstream_fds' = upstream_fds \cup {c}
  /\ UNCHANGED <<running, listening, acceptor, inflight, client_fds, cut, stop>>

NoUpstream(c) ==
  /\ Moves(c, "connecting", "leave")
  /\ UNCHANGED <<running, listening, acceptor, inflight, client_fds, upstream_fds, cut, stop>>

(* The exchange is over: the client or the site closed, a timeout (splice  *)
(* polls, the upstream socket has one; the client's has none), or stop()   *)
(* shut the client's socket down, which ends every read and write on it.   *)
Over(c) ==
  /\ \/ \E from \in {"reading", "splice"} : Moves(c, from, "leave") /\ UNCHANGED upstream_fds
     \/ Moves(c, "relay", "upclose") /\ upstream_fds' = upstream_fds \ {c}
  /\ UNCHANGED <<running, listening, acceptor, inflight, client_fds, cut, stop>>

CloseUpstream(c) ==
  /\ Moves(c, "upclose", "leave")
  /\ UNCHANGED <<running, listening, acceptor, inflight, client_fds, upstream_fds, cut, stop>>

(* Slip: the socket is closed but stays registered. *)
LeaveRegistered(c) ==
  /\ Moves(c, "leave", "uncount")
  /\ UNCHANGED <<running, listening, acceptor, inflight, client_fds, upstream_fds, cut, stop>>

Unregister(c) ==
  /\ Moves(c, "leave", "close")
  /\ client_fds' = client_fds \ {c}
  /\ UNCHANGED <<running, listening, acceptor, inflight, upstream_fds, cut, stop>>

Close(c) ==
  /\ Moves(c, "close", "uncount")
  /\ UNCHANGED <<running, listening, acceptor, inflight, client_fds, upstream_fds, cut, stop>>

(* fetch_sub is the last thing the thread does with the proxy.             *)
Uncount(c) ==
  /\ Moves(c, "uncount", "gone")
  /\ inflight' = inflight - 1
  /\ UNCHANGED <<running, listening, acceptor, client_fds, upstream_fds, cut, stop>>

-----------------------------------------------------------------------------
(* stop(). *)

StopRunning ==
  /\ stop = "idle" /\ running
  /\ running' = FALSE
  /\ stop' = "closing"
  /\ UNCHANGED <<listening, acceptor, inflight, conn, client_fds, upstream_fds, cut>>

(* Shut down and close the listening socket: the kernel resets its queue.  *)
CloseListen ==
  /\ stop = "closing"
  /\ listening' = FALSE
  /\ conn' = [c \in Conn |-> IF conn[c] = "backlog" THEN "gone" ELSE conn[c]]
  /\ stop' = "joining"
  /\ UNCHANGED <<running, acceptor, inflight, client_fds, upstream_fds, cut>>

(* Slip: the accept thread is left to itself. *)
Detach ==
  /\ stop = "joining"
  /\ stop' = "sweeping"
  /\ UNCHANGED <<running, listening, acceptor, inflight, conn, client_fds, upstream_fds, cut>>

Join ==
  /\ stop = "joining" /\ acceptor = "done"
  /\ stop' = "sweeping"
  /\ UNCHANGED <<running, listening, acceptor, inflight, conn, client_fds, upstream_fds, cut>>

(* Slip: only the upstream sockets are shut down. *)
SweepUpstream ==
  /\ stop = "sweeping"
  /\ stop' = "waiting"
  /\ UNCHANGED <<running, listening, acceptor, inflight, conn, client_fds, upstream_fds, cut>>

Sweep ==
  /\ stop = "sweeping"
  /\ cut' = client_fds
  /\ stop' = "waiting"
  /\ UNCHANGED <<running, listening, acceptor, inflight, conn, client_fds, upstream_fds>>

Stopped ==
  /\ stop = "waiting" /\ inflight = 0
  /\ stop' = "stopped"
  /\ UNCHANGED <<running, listening, acceptor, inflight, conn, client_fds, upstream_fds, cut>>

StopStep == StopRunning \/ CloseListen \/ Join \/ Sweep \/ Stopped

AcceptStep == Check \/ AcceptFails \/ \E c \in Conn : Accept(c) \/ Spawn(c)

(* What a connection's thread does without waiting for anybody for ever.   *)
ThreadStep(c) ==
  \/ Register(c) \/ Splice(c) \/ Intercept(c) \/ NoUpstream(c)
  \/ CloseUpstream(c) \/ Unregister(c) \/ Close(c) \/ Uncount(c)

ProxyStep ==
  \/ AcceptStep
  \/ \E c \in Conn : Dial(c) \/ ReadRequest(c) \/ Over(c) \/ ThreadStep(c)

(* The threads are scheduled; an exchange whose client socket was shut     *)
(* down ends.  Nothing makes a client close a connection of its own.       *)
ProxyFairness ==
  /\ WF_proxyVars(AcceptStep)
  /\ \A c \in Conn : WF_proxyVars(ThreadStep(c)) /\ WF_proxyVars(c \in cut /\ Over(c))

-----------------------------------------------------------------------------
(* Every socket stop() may shut down is open and belongs to the thread     *)
(* that registered it: a number left in client_fds or upstream_fds after   *)
(* close() may be somebody else's socket by the time of the sweep.         *)
RegisteredOpen ==
  /\ \A c \in client_fds : conn[c] \in ClientOpen
  /\ \A c \in upstream_fds : conn[c] \in UpstreamOpen

(* Once stop() has returned, and the proxy may be destroyed, no thread of  *)
(* it is alive and none can start.                                         *)
NoThreadLeft == stop = "stopped" => Live = {} /\ acceptor = "done" /\ ~listening
=============================================================================
