----------------------- MODULE CaptureSession_proofs -----------------------
(***************************************************************************)
(* TLAPS proofs about CaptureSession: the user's proxy setting can always  *)
(* be recovered, a process that returns or is signalled leaves it clean    *)
(* unless it is cut short in a restoration, the proxy stops only when      *)
(* unused, and stop() outlives every thread of the proxy, for any number   *)
(* of connections, kills and signals.                                      *)
(*                                                                         *)
(* The proxy's part is a count (Counting: inflight is the number of live   *)
(* threads), what the two sets of sockets hold exactly (Registered), and   *)
(* what each phase of stop() has made impossible (Stopping).  Of the main  *)
(* thread and the handler Control says which of them acts, and Kept what   *)
(* is still the user's where they stand; only Kept, and what follows from  *)
(* it, needs that no gsettings process outlives its moment (~Lingers).     *)
(***************************************************************************)
EXTENDS CaptureSession, FiniteSetTheorems, TLAPS

Counting == inflight = Cardinality(Live)

Registered ==
  /\ client_fds = {c \in Conn : conn[c] \in InServe \cup {"leave"}}
  /\ upstream_fds = {c \in Conn : conn[c] = "relay"}

Stopping ==
  /\ \A c \in Conn : conn[c] = "got" =>
       acceptor = "got" /\ \A d \in Conn : conn[d] = "got" => d = c
  /\ stop # "idle" => ~running
  /\ stop \in {"joining", "sweeping", "waiting", "stopped"} => ~listening
  /\ stop \in {"sweeping", "waiting", "stopped"} => acceptor = "done"
  /\ stop = "stopped" => Live = {}

ProxyInv == ProxyTypeOK /\ Counting /\ Registered /\ Stopping

-----------------------------------------------------------------------------
(* The proxy. *)

(* The threads of the proxy can be counted. *)
LEMMA LiveFinite == IsFiniteSet(Live) /\ Cardinality(Live) \in Nat
<1>1. IsFiniteSet(Conn) /\ Live \subseteq Conn
  BY ConnAssumption DEF Live
<1> QED
  BY <1>1, FS_Subset, FS_CardinalityType

(* A thread that moves on stays live. *)
LEMMA MoveKeepsLive ==
  ASSUME ProxyTypeOK, NEW c \in Conn, NEW from, NEW to, Moves(c, from, to),
         from \in Threaded <=> to \in Threaded
  PROVE  Live' = Live
BY DEF ProxyTypeOK, Moves, Live

(* Before start() there is nothing to count. *)
LEMMA NoProxyInv == ProxyInit => ProxyInv
<1> SUFFICES ASSUME ProxyInit PROVE ProxyInv
  OBVIOUS
<1>1. Live = {} /\ ProxyTypeOK /\ Registered
  BY DEF ProxyInit, Live, Threaded, InServe, ProxyTypeOK, AcceptorAt, StopAt, Unserved, Registered
<1>2. Counting
  BY <1>1, FS_EmptySet DEF Counting, ProxyInit
<1> QED
  BY <1>1, <1>2 DEF ProxyInit, ProxyInv, Stopping

(* Nor is there once the process is gone. *)
LEMMA ProxyGoneInv == ProxyGone => ProxyInv'
<1> SUFFICES ASSUME ProxyGone PROVE ProxyInv'
  OBVIOUS
<1>1. Live' = {} /\ ProxyTypeOK' /\ Registered'
  BY DEF ProxyGone, Live, Threaded, InServe, ProxyTypeOK, AcceptorAt, StopAt, Unserved, Registered
<1>2. Counting'
  BY <1>1, FS_EmptySet DEF Counting, ProxyGone
<1> QED
  BY <1>1, <1>2 DEF ProxyGone, ProxyInv, Stopping

(* start() begins with the loop of the accept thread alone. *)
LEMMA StartInv == ASSUME ProxyInv, Start, stop = "idle", acceptor = "off" PROVE ProxyInv'
<1>1. Live' = Live
  BY DEF Start, Live
<1> QED
  BY <1>1 DEF Start, ProxyInv, ProxyTypeOK, AcceptorAt, StopAt, Counting, Registered, Stopping

(* Steps that change neither the count nor a registration. *)
LEMMA PlainMove ==
  ASSUME ProxyInv, NEW c \in Conn, NEW from, NEW to, Moves(c, from, to),
         from \in Unserved \cup Threaded, to \in Unserved \cup Threaded,
         from \in Threaded <=> to \in Threaded,
         from \in InServe \cup {"leave"} <=> to \in InServe \cup {"leave"},
         from # "relay", to # "relay", from # "got", to # "got",
         UNCHANGED <<running, listening, acceptor, inflight, client_fds, upstream_fds, cut, stop>>
  PROVE  ProxyInv'
<1>1. Live' = Live
  BY MoveKeepsLive DEF ProxyInv
<1>2. conn \in [Conn -> Unserved \cup Threaded] /\ conn' = [conn EXCEPT ![c] = to] /\ conn[c] = from
  BY DEF ProxyInv, ProxyTypeOK, Moves
<1>3. ProxyTypeOK'
  BY <1>2 DEF ProxyInv, ProxyTypeOK
<1>4. Registered'
  BY <1>2 DEF ProxyInv, Registered
<1>5. Stopping'
  BY <1>1, <1>2 DEF ProxyInv, Stopping
<1> QED
  BY <1>1, <1>3, <1>4, <1>5 DEF ProxyInv, Counting

(* The accept thread holds one connection at most, and counts it. *)
LEMMA AcceptStepInv == ASSUME ProxyInv, AcceptStep PROVE ProxyInv'
<1> USE DEF AcceptorAt, StopAt, Unserved, Threaded, InServe
<1>1. CASE Check \/ AcceptFails
  <2>1. Live' = Live
    BY <1>1 DEF Check, AcceptFails, Live
  <2> QED
    BY <1>1, <2>1 DEF Check, AcceptFails, ProxyInv, ProxyTypeOK, Counting, Registered, Stopping
<1>2. ASSUME NEW c \in Conn, Accept(c) PROVE ProxyInv'
  <2>1. Live' = Live
    BY <1>2, MoveKeepsLive DEF Accept, ProxyInv
  <2>2. conn \in [Conn -> Unserved \cup Threaded] /\ conn' = [conn EXCEPT ![c] = "got"]
        /\ conn[c] = "backlog"
    BY <1>2 DEF Accept, Moves, ProxyInv, ProxyTypeOK
  <2>3. ProxyTypeOK'
    BY <1>2, <2>2 DEF Accept, ProxyInv, ProxyTypeOK
  <2>4. Registered'
    BY <1>2, <2>2 DEF Accept, ProxyInv, Registered
  <2>5. Stopping'
    BY <1>2, <2>1, <2>2 DEF Accept, ProxyInv, Stopping
  <2> QED
    BY <1>2, <2>1, <2>3, <2>4, <2>5 DEF Accept, ProxyInv, Counting
<1>3. ASSUME NEW c \in Conn, Spawn(c) PROVE ProxyInv'
  <2>1. conn \in [Conn -> Unserved \cup Threaded] /\ conn' = [conn EXCEPT ![c] = "spawned"]
        /\ conn[c] = "got"
    BY <1>3 DEF Spawn, Moves, ProxyInv, ProxyTypeOK
  <2>2. Live' = Live \cup {c} /\ c \notin Live
    BY <2>1 DEF Live
  <2>3. Cardinality(Live') = Cardinality(Live) + 1 /\ inflight' \in Nat /\ Counting'
    BY <1>3, <2>2, LiveFinite, FS_AddElement DEF Spawn, ProxyInv, Counting
  <2>4. ProxyTypeOK'
    BY <1>3, <2>1, <2>3 DEF Spawn, ProxyInv, ProxyTypeOK
  <2>5. Registered'
    BY <1>3, <2>1 DEF Spawn, ProxyInv, Registered
  <2>6. \A d \in Conn : conn'[d] # "got"
    BY <1>3, <2>1 DEF ProxyInv, Stopping
  <2>7. Stopping'
    BY <1>3, <2>6 DEF Spawn, ProxyInv, Stopping
  <2> QED
    BY <2>3, <2>4, <2>5, <2>7 DEF ProxyInv
<1> QED
  BY <1>1, <1>2, <1>3 DEF AcceptStep

(* A connection's thread registers, unregisters and uncounts itself. *)
LEMMA ThreadStepInv == ASSUME ProxyInv, NEW c \in Conn, ThreadStep(c) PROVE ProxyInv'
<1> USE DEF AcceptorAt, StopAt, Unserved, Threaded, InServe
<1>0. conn \in [Conn -> Unserved \cup Threaded]
  BY DEF ProxyInv, ProxyTypeOK
<1>1. CASE Register(c)
  <2>1. Live' = Live /\ conn' = [conn EXCEPT ![c] = "reading"] /\ conn[c] = "spawned"
    BY <1>1, MoveKeepsLive DEF Register, Moves, ProxyInv
  <2>2. ProxyTypeOK'
    BY <1>0, <1>1, <2>1 DEF Register, ProxyInv, ProxyTypeOK
  <2>3. Registered'
    BY <1>0, <1>1, <2>1 DEF Register, ProxyInv, Registered
  <2>4. Stopping'
    BY <1>0, <1>1, <2>1 DEF Register, ProxyInv, Stopping
  <2> QED
    BY <1>1, <2>1, <2>2, <2>3, <2>4 DEF Register, ProxyInv, Counting
<1>2. CASE Intercept(c)
  <2>1. Live' = Live /\ conn' = [conn EXCEPT ![c] = "relay"] /\ conn[c] = "connecting"
    BY <1>2, MoveKeepsLive DEF Intercept, Moves, ProxyInv
  <2>2. ProxyTypeOK'
    BY <1>0, <1>2, <2>1 DEF Intercept, ProxyInv, ProxyTypeOK
  <2>3. Registered'
    BY <1>0, <1>2, <2>1 DEF Intercept, ProxyInv, Registered
  <2>4. Stopping'
    BY <1>0, <1>2, <2>1 DEF Intercept, ProxyInv, Stopping
  <2> QED
    BY <1>2, <2>1, <2>2, <2>3, <2>4 DEF Intercept, ProxyInv, Counting
<1>3. CASE Unregister(c)
  <2>1. Live' = Live /\ conn' = [conn EXCEPT ![c] = "close"] /\ conn[c] = "leave"
    BY <1>3, MoveKeepsLive DEF Unregister, Moves, ProxyInv
  <2>2. ProxyTypeOK'
    BY <1>0, <1>3, <2>1 DEF Unregister, ProxyInv, ProxyTypeOK
  <2>3. Registered'
    BY <1>0, <1>3, <2>1 DEF Unregister, ProxyInv, Registered
  <2>4. Stopping'
    BY <1>0, <1>3, <2>1 DEF Unregister, ProxyInv, Stopping
  <2> QED
    BY <1>3, <2>1, <2>2, <2>3, <2>4 DEF Unregister, ProxyInv, Counting
<1>4. CASE Uncount(c)
  <2>1. conn' = [conn EXCEPT ![c] = "gone"] /\ conn[c] = "uncount"
    BY <1>4 DEF Uncount, Moves
  <2>2. Live' = Live \ {c} /\ c \in Live
    BY <1>0, <2>1 DEF Live
  <2>3. IsFiniteSet(Live') /\ Cardinality(Live') = Cardinality(Live) - 1
    BY <2>2, LiveFinite, FS_RemoveElement
  <2>4. inflight' \in Nat /\ Counting'
    BY <1>4, <2>3, FS_CardinalityType DEF Uncount, ProxyInv, Counting
  <2>5. ProxyTypeOK'
    BY <1>0, <1>4, <2>1, <2>4 DEF Uncount, ProxyInv, ProxyTypeOK
  <2>6. Registered'
    BY <1>0, <1>4, <2>1 DEF Uncount, ProxyInv, Registered
  <2>7. Stopping'
    BY <1>0, <1>4, <2>1, <2>2 DEF Uncount, ProxyInv, Stopping
  <2> QED
    BY <2>4, <2>5, <2>6, <2>7 DEF ProxyInv
<1>5. CASE Splice(c)
  BY <1>5, PlainMove DEF Splice
<1>6. CASE NoUpstream(c)
  BY <1>6, PlainMove DEF NoUpstream
<1>7. CASE CloseUpstream(c)
  BY <1>7, PlainMove DEF CloseUpstream
<1>8. CASE Close(c)
  BY <1>8, PlainMove DEF Close
<1> QED
  BY <1>1, <1>2, <1>3, <1>4, <1>5, <1>6, <1>7, <1>8 DEF ThreadStep

(* Whatever the clients and the threads do keeps the proxy's invariant. *)
LEMMA ProxyStepInv == ASSUME ProxyInv, ProxyStep PROVE ProxyInv'
<1> USE DEF AcceptorAt, StopAt, Unserved, Threaded, InServe
<1>0. conn \in [Conn -> Unserved \cup Threaded]
  BY DEF ProxyInv, ProxyTypeOK
<1>1. CASE AcceptStep
  BY <1>1, AcceptStepInv
<1>2. ASSUME NEW c \in Conn, ThreadStep(c) PROVE ProxyInv'
  BY <1>2, ThreadStepInv
<1>3. ASSUME NEW c \in Conn, Dial(c) PROVE ProxyInv'
  BY <1>3, PlainMove DEF Dial
<1>4. ASSUME NEW c \in Conn, ReadRequest(c) PROVE ProxyInv'
  BY <1>4, PlainMove DEF ReadRequest
<1>5. ASSUME NEW c \in Conn, Over(c) PROVE ProxyInv'
  <2>1. CASE \E from \in {"reading", "splice"} : Moves(c, from, "leave") /\ UNCHANGED upstream_fds
    <3>1. PICK from \in {"reading", "splice"} : Moves(c, from, "leave") /\ UNCHANGED upstream_fds
      BY <2>1
    <3> QED
      BY <1>5, <3>1, PlainMove DEF Over
  <2>2. CASE Moves(c, "relay", "upclose") /\ upstream_fds' = upstream_fds \ {c}
    <3>1. Live' = Live /\ conn' = [conn EXCEPT ![c] = "upclose"] /\ conn[c] = "relay"
      BY <2>2, MoveKeepsLive DEF Moves, ProxyInv
    <3>2. ProxyTypeOK'
      BY <1>0, <1>5, <2>2, <3>1 DEF Over, ProxyInv, ProxyTypeOK
    <3>3. Registered'
      BY <1>0, <1>5, <2>2, <3>1 DEF Over, ProxyInv, Registered
    <3>4. Stopping'
      BY <1>0, <1>5, <2>2, <3>1 DEF Over, ProxyInv, Stopping
    <3> QED
      BY <1>5, <3>1, <3>2, <3>3, <3>4 DEF Over, ProxyInv, Counting
  <2> QED
    BY <1>5, <2>1, <2>2 DEF Over
<1> QED
  BY <1>1, <1>2, <1>3, <1>4, <1>5 DEF ProxyStep

(* Each phase of stop() makes something impossible for good. *)
LEMMA StopStepInv == ASSUME ProxyInv, StopStep PROVE ProxyInv'
<1> USE DEF AcceptorAt, StopAt, Unserved, Threaded, InServe
<1>0. conn \in [Conn -> Unserved \cup Threaded]
  BY DEF ProxyInv, ProxyTypeOK
<1>1. CASE CloseListen
  <2>1. Live' = Live
    BY <1>0, <1>1 DEF CloseListen, Live
  <2>2. ProxyTypeOK'
    BY <1>0, <1>1 DEF CloseListen, ProxyInv, ProxyTypeOK
  <2>3. Registered'
    BY <1>0, <1>1 DEF CloseListen, ProxyInv, Registered
  <2>4. Stopping'
    BY <1>0, <1>1 DEF CloseListen, ProxyInv, Stopping
  <2> QED
    BY <1>1, <2>1, <2>2, <2>3, <2>4 DEF CloseListen, ProxyInv, Counting
<1>2. CASE StopRunning \/ Join \/ Sweep
  <2>1. Live' = Live
    BY <1>2 DEF StopRunning, Join, Sweep, Live
  <2>2. ProxyTypeOK'
    BY <1>2 DEF StopRunning, Join, Sweep, ProxyInv, ProxyTypeOK
  <2>3. Registered'
    BY <1>2 DEF StopRunning, Join, Sweep, ProxyInv, Registered
  <2>4. Stopping'
    <3>1. CASE StopRunning
      BY <2>1, <3>1 DEF StopRunning, ProxyInv, Stopping
    <3>2. CASE Join
      BY <2>1, <3>2 DEF Join, ProxyInv, Stopping
    <3>3. CASE Sweep
      BY <2>1, <3>3 DEF Sweep, ProxyInv, Stopping
    <3> QED
      BY <1>2, <3>1, <3>2, <3>3
  <2> QED
    BY <1>2, <2>1, <2>2, <2>3, <2>4 DEF StopRunning, Join, Sweep, ProxyInv, Counting
<1>3. CASE Stopped
  <2>1. Live' = Live /\ Live = {}
    BY <1>3, LiveFinite, FS_EmptySet DEF Stopped, Live, ProxyInv, Counting
  <2> QED
    BY <1>3, <2>1 DEF Stopped, ProxyInv, ProxyTypeOK, Counting, Registered, Stopping
<1> QED
  BY <1>1, <1>2, <1>3 DEF StopStep

-----------------------------------------------------------------------------
(* The main thread and the handler. *)

(* Who writes the setting: the main thread, or, once it is armed, the      *)
(* handler in its place; and the proxy stops in one place only.            *)
Control ==
  /\ pc \in {"off", "heal", "first"} => stop = "idle" /\ acceptor = "off"
  /\ stop # "idle" => pc = "stop"
  /\ pc # "off" /\ armed => pc \in {"take", "select"} /\ handler = 0
  /\ handler # 0 => pc \in {"take", "select"} /\ ~armed
  /\ pc \in {"take", "select"} => armed \/ handler # 0

(* What is the user's, and where.  Keys are written in order: in the middle *)
(* of a restoration those below the next one are back.                     *)
Kept ==
  /\ file = "whole" => backup = AsUser
  /\ pc = "off" => system = AsUser \/ file = "whole"
  /\ pc \in {"first", "truncate", "backup", "arm", "stop"} => system = AsUser
  /\ pc \in {"heal", "truncate", "backup", "arm", "take", "select", "restore"} => saved = AsUser
  /\ pc \in {"first", "truncate", "stop"} => file = "none"
  /\ pc \in {"heal", "arm", "take", "select", "restore"} => file = "whole"
  /\ pc \in {"heal", "restore"} => \A j \in Keys : j < k => system[j] = "user"
  /\ \A j \in Keys : j < handler => system[j] = "user"

IInv == TypeOK /\ ProxyInv /\ Control

-----------------------------------------------------------------------------
(* Who acts: types and control. *)

(* The first state: no backup, no process. *)
LEMMA InitInv == Init => IInv
<1> SUFFICES ASSUME Init PROVE IInv
  OBVIOUS
<1>1. ProxyInv
  BY NoProxyInv DEF Init
<1>2. TypeOK
  <2>1. AsUser \in [Keys -> Values]
    BY DEF AsUser, Values
  <2>2. 0 \in 0 .. MaxKills /\ 0 \in 0 .. MaxUnheeded /\ 1 \in 1 .. MODE + 1 /\ 0 \in 0 .. MODE + 1
    BY CaptureAssumption DEF MODE
  <2> QED
    BY <1>1, <2>1, <2>2 DEF Init, TypeOK, ProxyInv, MainAt
<1>3. Control
  BY DEF Init, Control, ProxyInit
<1> QED
  BY <1>1, <1>2, <1>3 DEF IInv

(* The main thread's steps that leave the proxy alone. *)
LEMMA MainInv ==
  ASSUME IInv, Boot \/ DeletedByHand \/ OpenBackup \/ WriteBackup \/ Arm \/ TakeKey \/ Select
  PROVE  IInv'
<1>0. UNCHANGED proxyVars
  BY DEF Boot, DeletedByHand, OpenBackup, WriteBackup, Arm, TakeKey, Select
<1>1. ProxyInv'
  BY <1>0 DEF IInv, ProxyInv, ProxyTypeOK, Counting, Registered, Stopping, Live, proxyVars
<1>2. TypeOK'
  <2> USE <1>1 DEF IInv, TypeOK, ProxyInv, MainAt, Main, faults
  <2>0. 1 \in 1 .. MODE + 1
    BY DEF MODE
  <2>1. CASE Boot
    BY <2>0, <2>1 DEF Boot
  <2>2. CASE DeletedByHand
    BY <2>2 DEF DeletedByHand
  <2>3. CASE OpenBackup
    BY <2>3 DEF OpenBackup
  <2>4. CASE WriteBackup
    BY <2>4 DEF WriteBackup
  <2>5. CASE Arm
    BY <2>0, <2>5 DEF Arm
  <2>6. CASE TakeKey
    <3>1. system' \in [Keys -> Values] /\ k' \in 1 .. MODE + 1
      BY <2>6 DEF TakeKey, Keys, Values, MODE
    <3> QED
      BY <2>6, <3>1 DEF TakeKey
  <2>7. CASE Select
    BY <2>0, <2>7 DEF Select
  <2> QED
    BY <2>1, <2>2, <2>3, <2>4, <2>5, <2>6, <2>7
<1>3. Control'
  BY <1>0 DEF IInv, Control, Boot, DeletedByHand, OpenBackup, WriteBackup, Arm, TakeKey, Select,
              Main, proxyVars
<1> QED
  BY <1>1, <1>2, <1>3 DEF IInv

(* A restoration, at the end or at the next start, goes key by key. *)
LEMMA RestoreInv == ASSUME IInv, Heal \/ Restore PROVE IInv'
<1>0. UNCHANGED proxyVars
  BY DEF Heal, Restore, WriteBack, Clear
<1>1. ProxyInv'
  BY <1>0 DEF IInv, ProxyInv, ProxyTypeOK, Counting, Registered, Stopping, Live, proxyVars
<1>2. ASSUME NEW at \in {"heal", "restore"}, WriteBack(at) PROVE TypeOK' /\ Control'
  <2>1. system' \in [Keys -> Values] /\ k' \in 1 .. MODE + 1
    BY <1>2 DEF IInv, TypeOK, WriteBack, Keys, MODE
  <2> QED
    BY <1>1, <1>2, <2>1 DEF IInv, TypeOK, ProxyInv, Control, WriteBack, Main, proxyVars, faults
<1>3. ASSUME NEW at \in {"heal", "restore"}, NEW to \in {"first", "stop"},
             at = "heal" <=> to = "first", Clear(at, to)
      PROVE  TypeOK' /\ Control'
  BY <1>1, <1>3 DEF IInv, TypeOK, ProxyInv, Control, Clear, Main, MainAt, proxyVars, faults
<1> QED
  BY <1>1, <1>2, <1>3 DEF IInv, Heal, Restore

(* The handler takes over in the middle of anything that is armed. *)
LEMMA SignalInv == ASSUME IInv, Signal \/ HandlerKey PROVE IInv'
<1>0. UNCHANGED proxyVars
  BY DEF Signal, HandlerKey
<1>1. ProxyInv'
  BY <1>0 DEF IInv, ProxyInv, ProxyTypeOK, Counting, Registered, Stopping, Live, proxyVars
<1>2. CASE Signal
  <2>1. 1 \in 0 .. MODE + 1 /\ 1 # 0
    BY DEF MODE
  <2>2. TypeOK'
    BY <1>1, <1>2, <2>1 DEF IInv, TypeOK, ProxyInv, Signal, faults
  <2>3. Control'
    BY <1>2, <2>1 DEF IInv, Control, Signal, Alive, proxyVars
  <2> QED
    BY <1>1, <2>2, <2>3 DEF IInv
<1>3. CASE HandlerKey
  <2>1. WrittenLast(handler) \subseteq Values
    BY <1>3 DEF HandlerKey, WrittenLast, IInv, TypeOK, Values
  <2>2. system' \in [Keys -> Values]
    BY <1>3, <2>1 DEF HandlerKey, IInv, TypeOK
  <2>3. handler \in Keys /\ handler # 0 /\ handler' \in 0 .. MODE + 1 /\ handler' # 0
    BY <1>3 DEF HandlerKey, Keys, MODE
  <2>4. TypeOK'
    BY <1>1, <1>3, <2>2, <2>3 DEF IInv, TypeOK, ProxyInv, HandlerKey, faults
  <2>5. Control'
    BY <1>3, <2>3 DEF IInv, Control, HandlerKey, proxyVars
  <2> QED
    BY <1>1, <2>4, <2>5 DEF IInv
<1> QED
  BY <1>2, <1>3

(* The end of the process, however it comes. *)
LEMMA EndInv == ASSUME IInv, Exit \/ HandlerEnds \/ Unheeded \/ Kill PROVE IInv'
<1>0. Die /\ UNCHANGED <<system, backup, k, saved, armed>>
  BY DEF Exit, HandlerEnds, Unheeded, Kill
<1>1. ProxyInv'
  BY <1>0, ProxyGoneInv DEF Die
<1>2. 0 \in 0 .. MODE + 1
  BY DEF MODE
<1>3. kills' \in 0 .. MaxKills /\ unheeded' \in 0 .. MaxUnheeded
  BY CaptureAssumption DEF Exit, HandlerEnds, Unheeded, Kill, faults, IInv, TypeOK
<1>4. file' \in {"none", "corrupt", "whole"}
  BY DEF Exit, HandlerEnds, Unheeded, Kill, IInv, TypeOK
<1>5. TypeOK'
  BY <1>0, <1>1, <1>2, <1>3, <1>4 DEF IInv, TypeOK, ProxyInv, Die, MainAt
<1>6. Control'
  BY <1>0 DEF Control, Die, ProxyGone
<1> QED
  BY <1>1, <1>5, <1>6 DEF IInv

(* The proxy is started when there is none, and stopped at one place. *)
LEMMA ProxySideInv ==
  ASSUME IInv, Begin \/ StopProxy \/ (ProxyStep /\ UNCHANGED <<mainVars, faults>>)
  PROVE  IInv'
<1>1. CASE Begin
  <2>1. ProxyInv'
    BY <1>1, StartInv DEF Begin, Main, IInv, Control
  <2> QED
    BY <1>1, <2>1 DEF IInv, TypeOK, ProxyInv, Control, Begin, Main, MainAt, Start, faults
<1>2. CASE StopProxy
  <2>1. ProxyInv'
    BY <1>2, StopStepInv DEF StopProxy, IInv
  <2> QED
    BY <1>2, <2>1 DEF IInv, TypeOK, ProxyInv, Control, StopProxy, Main, mainVars, faults
<1>3. CASE ProxyStep /\ UNCHANGED <<mainVars, faults>>
  <2>1. ProxyInv'
    BY <1>3, ProxyStepInv DEF IInv
  <2>2. TypeOK'
    BY <1>3, <2>1 DEF IInv, TypeOK, ProxyInv, mainVars, faults
  <2>3. stop' = stop /\ (acceptor = "off" => acceptor' = "off")
    BY <1>3 DEF ProxyStep, AcceptStep, ThreadStep, Check, AcceptFails, Accept, Spawn, Dial,
                ReadRequest, Over, Register, Splice, Intercept, NoUpstream, CloseUpstream,
                Unregister, Close, Uncount
  <2>4. Control'
    BY <1>3, <2>3 DEF IInv, Control, mainVars
  <2> QED
    BY <2>1, <2>2, <2>4 DEF IInv
<1> QED
  BY <1>1, <1>2, <1>3

(* Every step keeps types and control. *)
LEMMA NextInv == ASSUME IInv, [Next]_vars PROVE IInv'
<1>1. CASE Next
  BY <1>1, MainInv, RestoreInv, SignalInv, EndInv, ProxySideInv DEF Next, MainStep, HandlerStep
<1>2. CASE UNCHANGED vars
  BY <1>2 DEF vars, mainVars, faults, proxyVars, IInv, TypeOK, ProxyInv, ProxyTypeOK, Counting,
              Registered, Stopping, Live, Control
<1> QED
  BY <1>1, <1>2

-----------------------------------------------------------------------------
(* What is the user's, if no gsettings process outlives its moment. *)

(* A setting all of whose keys are the user's is the user's. *)
LEMMA AllBack ==
  ASSUME system \in [Keys -> Values], \A j \in Keys : system[j] = "user"
  PROVE  system = AsUser
BY DEF AsUser, Values

(* Wherever the process ends, the setting is in force or in the backup. *)
LEMMA NeverLost == TypeOK /\ Kept => Recoverable
BY DEF TypeOK, MainAt, Kept, Recoverable

(* The handler restores everything before it removes the backup. *)
LEMMA HandlerDone == ASSUME TypeOK, Kept, handler = MODE + 1 PROVE system = AsUser
<1>1. \A j \in Keys : system[j] = "user"
  BY DEF Kept, MODE, Keys
<1> QED
  BY <1>1, AllBack DEF TypeOK

(* At first everything is the user's. *)
LEMMA InitKept == Init => Kept
BY DEF Init, Kept, AsUser, Keys

(* Until something is taken over the setting is left alone, and it is taken *)
(* over only with a whole backup.                                          *)
LEMMA MainKept ==
  ASSUME IInv, Kept,
         Boot \/ DeletedByHand \/ Begin \/ OpenBackup \/ WriteBackup \/ Arm \/ TakeKey \/ Select
  PROVE  Kept'
<1> USE DEF IInv, TypeOK, Control, Kept, Main
<1>1. CASE Boot
  <2>1. \A j \in Keys : ~ (j < 1)
    BY DEF Keys
  <2> QED
    BY <1>1, <2>1 DEF Boot
<1>2. CASE DeletedByHand
  BY <1>2 DEF DeletedByHand
<1>3. CASE Begin
  BY <1>3 DEF Begin
<1>4. CASE OpenBackup
  BY <1>4 DEF OpenBackup
<1>5. CASE WriteBackup
  BY <1>5 DEF WriteBackup
<1>6. CASE Arm
  BY <1>6 DEF Arm
<1>7. CASE TakeKey
  <2>1. \A j \in Keys : ~ (j < 0)
    BY DEF Keys
  <2> QED
    BY <1>7, <2>1 DEF TakeKey
<1>8. CASE Select
  <2>1. \A j \in Keys : ~ (j < 1)
    BY DEF Keys
  <2> QED
    BY <1>8, <2>1 DEF Select
<1> QED
  BY <1>1, <1>2, <1>3, <1>4, <1>5, <1>6, <1>7, <1>8

(* The backup goes when every key is back. *)
LEMMA RestoreKept == ASSUME IInv, Kept, Heal \/ Restore PROVE Kept'
<1>1. ASSUME NEW at \in {"heal", "restore"}, WriteBack(at) PROVE Kept'
  <2>1. saved[k] = "user" /\ pc = at /\ handler = 0 /\ k \in Keys
    BY <1>1 DEF Kept, WriteBack, Main, AsUser
  <2>2. \A j \in Keys : j < k' => system'[j] = "user"
    BY <1>1, <2>1 DEF IInv, TypeOK, Kept, WriteBack, Keys
  <2>3. \A j \in Keys : ~ (j < handler')
    BY <1>1, <2>1 DEF WriteBack, Keys
  <2> QED
    BY <1>1, <2>1, <2>2, <2>3 DEF Kept, WriteBack
<1>2. ASSUME NEW at \in {"heal", "restore"}, NEW to \in {"first", "stop"}, Clear(at, to)
      PROVE  Kept'
  <2>1. k = MODE + 1 /\ pc = at
    BY <1>2 DEF IInv, TypeOK, Clear, Main, Keys, MODE
  <2>2. system = AsUser
    BY <2>1, AllBack DEF IInv, TypeOK, Kept, Keys, MODE
  <2> QED
    BY <1>2, <2>1, <2>2 DEF Kept, Clear, Main
<1> QED
  BY <1>1, <1>2 DEF Heal, Restore

(* The handler writes what was saved, and nothing is written after it. *)
LEMMA SignalKept == ASSUME ~Lingers, IInv, Kept, Signal \/ HandlerKey PROVE Kept'
<1>1. CASE Signal
  <2>1. pc' = pc /\ pc \in {"take", "select"} /\ handler' = 1
    BY <1>1 DEF IInv, Control, Signal, Alive
  <2>2. \A j \in Keys : ~ (j < handler')
    BY <2>1 DEF Keys
  <2> QED
    BY <1>1, <2>1, <2>2 DEF Kept, Signal
<1>2. CASE HandlerKey
  <2>1. pc' = pc /\ pc \in {"take", "select"} /\ saved[handler] = "user"
    BY <1>2 DEF IInv, Control, Kept, HandlerKey, AsUser, Keys
  <2>2. WrittenLast(handler) = {"user"}
    BY <2>1 DEF WrittenLast
  <2>3. system' = [system EXCEPT ![handler] = "user"]
    BY <1>2, <2>2 DEF HandlerKey
  <2>4. \A j \in Keys : j < handler' => system'[j] = "user"
    BY <1>2, <2>3 DEF IInv, TypeOK, Kept, HandlerKey, Keys
  <2> QED
    BY <1>2, <2>1, <2>4 DEF Kept, HandlerKey
<1> QED
  BY <1>1, <1>2

(* However the process ends, what it leaves can be recovered. *)
LEMMA EndKept == ASSUME IInv, Kept, Exit \/ HandlerEnds \/ Unheeded \/ Kill PROVE Kept'
<1>1. pc' = "off" /\ handler' = 0 /\ UNCHANGED <<system, backup>>
  BY DEF Exit, HandlerEnds, Unheeded, Kill, Die
<1>2. file' = file \/ (file' = "none" /\ system = AsUser)
  BY HandlerDone DEF Exit, HandlerEnds, Unheeded, Kill, IInv
<1>3. system' = AsUser \/ file' = "whole"
  BY <1>1, <1>2, NeverLost DEF IInv, Recoverable
<1>4. \A j \in Keys : ~ (j < handler')
  BY <1>1 DEF Keys
<1> QED
  BY <1>1, <1>2, <1>3, <1>4 DEF Kept

(* Every step keeps what is the user's. *)
LEMMA NextKept == ASSUME ~Lingers, IInv, Kept, [Next]_vars PROVE Kept'
<1>1. CASE StopProxy \/ (ProxyStep /\ UNCHANGED <<mainVars, faults>>)
  BY <1>1 DEF StopProxy, mainVars, Kept
<1>2. CASE Next
  BY <1>1, <1>2, MainKept, RestoreKept, SignalKept, EndKept DEF Next, MainStep, HandlerStep
<1>3. CASE UNCHANGED vars
  BY <1>3 DEF vars, mainVars, Kept
<1> QED
  BY <1>2, <1>3

-----------------------------------------------------------------------------
(* IInv holds in every reachable state: who owns which socket, that the    *)
(* proxy is started when no thread of an older one is left, and that only  *)
(* one of main thread and handler writes the setting.                      *)
THEOREM Invariance == Spec => []IInv
BY InitInv, NextInv, PTL DEF Spec

(* Every state is well typed; inflight, a counter threads decrement, stays *)
(* a natural number.                                                       *)
THEOREM TypeCorrect == Spec => []TypeOK
<1>1. IInv => TypeOK
  BY DEF IInv
<1> QED
  BY <1>1, Invariance, PTL

(* The sets stop() sweeps hold open sockets only.                          *)
THEOREM SweptSocketsOpen == Spec => []RegisteredOpen
<1>1. IInv => RegisteredOpen
  BY DEF IInv, ProxyInv, Registered, RegisteredOpen, ClientOpen, UpstreamOpen, InServe
<1> QED
  BY <1>1, Invariance, PTL

(* When stop() has returned no thread of the proxy is left or can come.    *)
THEOREM StopOutlivesThreads == Spec => []NoThreadLeft
<1>1. IInv => NoThreadLeft
  BY DEF IInv, ProxyInv, Stopping, NoThreadLeft
<1> QED
  BY <1>1, Invariance, PTL

(* At each place of main thread and handler Kept says which of setting,    *)
(* variable and backup are the user's, and which keys are back.            *)
THEOREM KeptInvariance == ASSUME ~Lingers PROVE Spec => [](IInv /\ Kept)
<1>1. IInv /\ Kept /\ [Next]_vars => Kept'
  BY NextKept
<1>2. Init => Kept
  BY InitKept
<1> QED
  BY <1>1, <1>2, Invariance, PTL DEF Spec

(* At every instant of every run the user's proxy setting is in force or   *)
(* whole in proxy-backup.json.                                             *)
THEOREM SettingRecoverable == ASSUME ~Lingers PROVE Spec => []Recoverable
<1>1. IInv /\ Kept => Recoverable
  BY NeverLost DEF IInv
<1> QED
  BY <1>1, KeptInvariance, PTL

(* capture_session stops the proxy only after the setting is restored.     *)
THEOREM StoppedUnused == ASSUME ~Lingers PROVE Spec => []StopsUnused
<1>1. IInv /\ Kept => StopsUnused
  BY DEF IInv, Control, Kept, StopsUnused
<1> QED
  BY <1>1, KeptInvariance, PTL

(* Unless a signal interrupts the writing of the backup or a restoration,  *)
(* a process that is not killed leaves the setting as it found it and no   *)
(* backup: returning, by a signal before the backup, in the takeover,      *)
(* while the user selects, or while the proxy stops.                       *)
THEOREM CleanExit == ASSUME ~Lingers PROVE Spec => LeavesClean
<1>1. ASSUME IInv, Kept, Next, Ends, unheeded' # unheeded => ~Restoring /\ ~BackingUp
      PROVE  system = AsUser /\ file' = "none"
  <2>1. Exit \/ HandlerEnds \/ Unheeded
    BY <1>1 DEF Next, MainStep, HandlerStep, Heal, Restore, WriteBack, Clear, Begin, OpenBackup,
       WriteBackup, Arm, TakeKey, StopProxy, Select, Signal, HandlerKey, Kill, Boot, DeletedByHand,
       Main, mainVars, Ends, Alive, IInv, TypeOK
  <2>2. CASE Exit
    BY <1>1, <2>2 DEF Exit, Main, Kept
  <2>3. CASE HandlerEnds
    BY <1>1, <2>3, HandlerDone DEF HandlerEnds, IInv
  <2>4. CASE Unheeded
    <3>1. ~armed /\ Alive /\ ~Restoring /\ ~BackingUp /\ file' = file
      BY <1>1, <2>4 DEF Unheeded, IInv, TypeOK
    <3>2. pc \in {"first", "truncate", "stop"}
      BY <1>1, <3>1 DEF IInv, TypeOK, Control, MainAt, Alive, Restoring, BackingUp
    <3> QED
      BY <1>1, <3>1, <3>2 DEF Kept
  <2> QED
    BY <2>1, <2>2, <2>3, <2>4
<1>2. IInv /\ Kept /\ [Next]_vars
        => [Ends /\ (unheeded' # unheeded => ~Restoring /\ ~BackingUp)
              => system = AsUser /\ file' = "none"]_vars
  BY <1>1
<1> QED
  BY <1>2, KeptInvariance, PTL DEF Spec, LeavesClean
=============================================================================
