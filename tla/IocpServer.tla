------------------------------ MODULE IocpServer ------------------------------
(***************************************************************************)
(* The I/O engine of ServerApp: the worker threads of                      *)
(* server::worker_thread, the completion port they drain, the overlapped   *)
(* AcceptEx / WSARecv operations they keep outstanding, the table          *)
(* m_activeConnections and the mutex m_usersMutex that guards it.          *)
(*                                                                         *)
(* A socket handle stands for the session object that owns it: a session   *)
(* closes its handle only in its destructor, so two live sessions never    *)
(* share one.  What a message handler does to the users and the rooms is   *)
(* left to ChatServer, which extends this module.                          *)
(*                                                                         *)
(* The completions of IO_SEND change nothing but the operation they free   *)
(* and are not modelled here.                                              *)
(***************************************************************************)
EXTENDS Naturals

CONSTANTS
  Workers,   \* the threads started by server::start
  Sockets,   \* the handle values WSASocket may return
  None,      \* no worker, no socket, no entry
  Faults     \* the failures of the environment that may happen

\* "reset":       a peer may abort its connection (RST)
\* "acceptex":    AcceptEx may fail at once
\* "getpeername": getpeername may fail on a connection that has ended
\* "port_reuse":  the address of a reset connection may be used again while
\*                its session is still in m_activeConnections
FaultKinds == {"reset", "acceptex", "getpeername", "port_reuse"}

\* hardware_concurrency() may return 0; every claim about progress needs a
\* worker, the safety claims do not.
ASSUME IoAssumption ==
  /\ None \notin Workers \cup Sockets
  /\ Faults \subseteq FaultKinds

VARIABLES
  up,       \* FALSE once an exception or a bad access has ended the process
  pc,       \* where each worker is in worker_thread
  sock,     \* v_over->m_sockClient of the completion a worker handles
  mutex,    \* the worker holding m_usersMutex
  port,     \* completions queued at m_hIocp
  handle,   \* life of each handle value
  recvs,    \* outstanding WSARecv calls on each socket
  peer,     \* the remote end of each connection
  active    \* the keys of m_activeConnections

ioVars == <<up, pc, sock, mutex, port, handle, recvs, peer, active>>

AcceptPcs     == {"accept", "accept_cs", "first_recv", "post_accept"}
ReceivePcs    == {"recv", "dispatch", "post_recv"}
DisconnectPcs == {"lookup", "erase", "erase_cs"}
PCs           == {"wait"} \cup AcceptPcs \cup ReceivePcs \cup DisconnectPcs

Packet == [ev : {"IO_ACCEPT", "IO_RECV"}, sock : Sockets, bytes : {0, 1}]
AcceptPacket(s)  == [ev |-> "IO_ACCEPT", sock |-> s, bytes |-> 0]
RecvPacket(s, n) == [ev |-> "IO_RECV",   sock |-> s, bytes |-> n]

IoTypeOK ==
  /\ up \in BOOLEAN
  /\ pc \in [Workers -> PCs]
  /\ sock \in [Workers -> Sockets \cup {None}]
  /\ mutex \in Workers \cup {None}
  /\ port \in SUBSET Packet
  /\ handle \in [Sockets -> {"free", "listening", "connected"}]
  /\ recvs \in [Sockets -> Nat]
  /\ peer \in [Sockets -> {"none", "up", "closed", "reset"}]
  /\ active \in SUBSET Sockets

\* server::start posts the first AcceptEx before it creates the workers.
IoInit ==
  /\ up = TRUE
  /\ pc = [w \in Workers |-> "wait"]
  /\ sock = [w \in Workers |-> None]
  /\ mutex = None
  /\ port = {}
  /\ \E s \in Sockets :
       handle = [t \in Sockets |-> IF t = s THEN "listening" ELSE "free"]
  /\ recvs = [s \in Sockets |-> 0]
  /\ peer = [s \in Sockets |-> "none"]
  /\ active = {}

-----------------------------------------------------------------------------
(* The network and the kernel. *)

\* A client connects and the pending AcceptEx completes.  Bound: a second
\* handle value is left for the AcceptEx that post_accept issues next.
Connect(s) ==
  /\ up
  /\ handle[s] = "listening"
  /\ \E t \in Sockets : handle[t] = "free"
  /\ handle' = [handle EXCEPT ![s] = "connected"]
  /\ peer' = [peer EXCEPT ![s] = "up"]
  /\ port' = port \cup {AcceptPacket(s)}
  /\ UNCHANGED <<up, pc, sock, mutex, recvs, active>>

\* The peer ends its connection in order (FIN): bytes it sent can still arrive.
PeerClose(s) ==
  /\ up
  /\ peer[s] = "up"
  /\ peer' = [peer EXCEPT ![s] = "closed"]
  /\ UNCHANGED <<up, pc, sock, mutex, port, handle, recvs, active>>

\* The connection is reset: bytes not yet received are lost.
PeerReset(s) ==
  /\ up
  /\ "reset" \in Faults
  /\ peer[s] \in {"up", "closed"}
  /\ peer' = [peer EXCEPT ![s] = "reset"]
  /\ UNCHANGED <<up, pc, sock, mutex, port, handle, recvs, active>>

CompleteRecv(s, n) ==
  /\ up
  /\ recvs[s] > 0
  /\ recvs' = [recvs EXCEPT ![s] = @ - 1]
  /\ port' = port \cup {RecvPacket(s, n)}
  /\ UNCHANGED <<up, pc, sock, mutex, handle, peer, active>>

RecvData(s) == peer[s] \in {"up", "closed"}    /\ CompleteRecv(s, 1)
RecvEnd(s)  == peer[s] \in {"closed", "reset"} /\ CompleteRecv(s, 0)

-----------------------------------------------------------------------------
(* The worker threads. *)

Goto(w, label) == pc' = [pc EXCEPT ![w] = label]

\* The iteration is over: v_over is deleted and the loop starts again.
NextIteration(w) ==
  /\ Goto(w, "wait")
  /\ sock' = [sock EXCEPT ![w] = None]

\* An exception that leaves worker_thread, or an access through a null
\* pointer, ends the process.
Crash == up' = FALSE /\ UNCHANGED <<pc, sock, mutex, port, handle, recvs, peer, active>>

Lock(w)   == mutex = None /\ mutex' = w
Unlock(w) == mutex = w /\ mutex' = None

\* Mistake: no test of bytesTransferred.
DequeueIgnoringLength(w, p) ==
  /\ up
  /\ pc[w] = "wait"
  /\ p \in port
  /\ port' = port \ {p}
  /\ sock' = [sock EXCEPT ![w] = p.sock]
  /\ Goto(w, IF p.ev = "IO_ACCEPT" THEN "accept" ELSE "recv")
  /\ UNCHANGED <<up, mutex, handle, recvs, peer, active>>

\* GetQueuedCompletionStatus and the switch on m_event.
Dequeue(w, p) ==
  /\ up
  /\ pc[w] = "wait"
  /\ p \in port
  /\ port' = port \ {p}
  /\ sock' = [sock EXCEPT ![w] = p.sock]
  /\ Goto(w, IF p.ev = "IO_ACCEPT" THEN "accept"
             ELSE IF p.bytes > 0 THEN "recv" ELSE "lookup")
  /\ UNCHANGED <<up, mutex, handle, recvs, peer, active>>

\* IO_ACCEPT: emplace the new session with m_usersMutex held ...
AcceptSession(w) ==
  /\ up
  /\ pc[w] = "accept"
  /\ Lock(w)
  /\ active' = active \cup {sock[w]}
  /\ Goto(w, "accept_cs")
  /\ UNCHANGED <<up, sock, port, handle, recvs, peer>>

\* Mistake: the mutex is locked by hand and never unlocked.
AcceptKeepsLock(w) ==
  /\ up
  /\ pc[w] = "accept_cs"
  /\ Goto(w, "first_recv")
  /\ UNCHANGED <<up, sock, mutex, port, handle, recvs, peer, active>>

\* ... release it, and associate the socket with the port.
AcceptUnlock(w) ==
  /\ up
  /\ pc[w] = "accept_cs"
  /\ Unlock(w)
  /\ Goto(w, "first_recv")
  /\ UNCHANGED <<up, sock, port, handle, recvs, peer, active>>

\* Mistake: the IO_ACCEPT case ends without post_accept.
PostRecvOnly(w) ==
  /\ up
  /\ pc[w] \in {"first_recv", "post_recv"}
  /\ NextIteration(w)
  /\ recvs' = [recvs EXCEPT ![sock[w]] = @ + 1]
  /\ UNCHANGED <<up, mutex, port, handle, peer, active>>

\* post_recv succeeds: WSARecv is pending.
PostRecv(w) ==
  /\ up
  /\ \/ /\ pc[w] = "first_recv"
        /\ Goto(w, "post_accept")
        /\ UNCHANGED sock
     \/ /\ pc[w] = "post_recv"
        /\ NextIteration(w)
  /\ recvs' = [recvs EXCEPT ![sock[w]] = @ + 1]
  /\ UNCHANGED <<up, mutex, port, handle, peer, active>>

\* post_recv throws: WSARecv fails at once on a connection that was reset.
PostRecvThrows(w) ==
  /\ up
  /\ pc[w] \in {"first_recv", "post_recv"}
  /\ peer[sock[w]] = "reset"
  /\ Crash

\* post_accept: a new handle, and the next AcceptEx on it.
PostAccept(w) ==
  /\ up
  /\ pc[w] = "post_accept"
  /\ \E t \in Sockets :
       /\ handle[t] = "free"
       /\ handle' = [handle EXCEPT ![t] = "listening"]
  /\ NextIteration(w)
  /\ UNCHANGED <<up, mutex, port, recvs, peer, active>>

PostAcceptThrows(w) ==
  /\ up
  /\ pc[w] = "post_accept"
  /\ "acceptex" \in Faults
  /\ Crash

\* Mistake: the next WSARecv is posted before this one is handled, too.
RecvLockReadsAhead(w) ==
  /\ up
  /\ pc[w] = "recv"
  /\ Lock(w)
  /\ recvs' = [recvs EXCEPT ![sock[w]] = @ + 1]
  /\ Goto(w, "dispatch")
  /\ UNCHANGED <<up, sock, port, handle, peer, active>>

\* IO_RECV with bytes: look the session up with the mutex held.  A socket
\* missing from the table would give receive_from_buffer a null session.
RecvLock(w) ==
  /\ up
  /\ pc[w] = "recv"
  /\ Lock(w)
  /\ up' = (sock[w] \in active)
  /\ Goto(w, "dispatch")
  /\ UNCHANGED <<sock, port, handle, recvs, peer, active>>

\* A handler called from receive_from_buffer follows a null user.
HandlerCrash(w) ==
  /\ up
  /\ pc[w] = "dispatch"
  /\ Crash

\* Mistake: the IO_RECV case ends without post_recv.
RecvUnlockOnly(w) ==
  /\ up
  /\ pc[w] = "dispatch"
  /\ Unlock(w)
  /\ NextIteration(w)
  /\ UNCHANGED <<up, port, handle, recvs, peer, active>>

RecvUnlock(w) ==
  /\ up
  /\ pc[w] = "dispatch"
  /\ Unlock(w)
  /\ Goto(w, "post_recv")
  /\ UNCHANGED <<up, sock, port, handle, recvs, peer, active>>

\* handle_dis_connect reads m_activeConnections before it takes the mutex.  A
\* missing entry would give it a null session.
DisconnectLookup(w) ==
  /\ up
  /\ pc[w] = "lookup"
  /\ up' = (sock[w] \in active)
  /\ Goto(w, "erase")
  /\ UNCHANGED <<sock, mutex, port, handle, recvs, peer, active>>

\* A worker inside the part of a critical section that changes the table.
UpdatingTable(v) == pc[v] \in {"accept_cs", "erase_cs"}

\* The unlocked read overlaps an insertion or an erasure of another worker:
\* it may still find the entry (DisconnectLookup), or go astray in a table
\* that is being rehashed or relinked.
LookupRaces(w) ==
  /\ up
  /\ pc[w] = "lookup"
  /\ \E v \in Workers \ {w} : UpdatingTable(v)
  /\ Crash

\* Both branches of handle_dis_connect erase the connection: it is only
\* called with bytes_transferred = 0.
DisconnectErase(w) ==
  /\ up
  /\ pc[w] = "erase"
  /\ Lock(w)
  /\ active' = active \ {sock[w]}
  /\ Goto(w, "erase_cs")
  /\ UNCHANGED <<up, sock, port, handle, recvs, peer>>

\* Mistake: no continue after handle_dis_connect.
DisconnectFallsThrough(w, last) ==
  /\ up
  /\ pc[w] = "erase_cs"
  /\ Unlock(w)
  /\ handle' = IF last THEN [handle EXCEPT ![sock[w]] = "free"] ELSE handle
  /\ peer' = IF last THEN [peer EXCEPT ![sock[w]] = "none"] ELSE peer
  /\ Goto(w, "post_recv")
  /\ UNCHANGED <<up, sock, port, recvs, active>>

\* The mutex is released and the local shared_ptr dropped.  If it was the
\* last one, ~session closes the handle.
DisconnectExit(w, last) ==
  /\ up
  /\ pc[w] = "erase_cs"
  /\ Unlock(w)
  /\ handle' = IF last THEN [handle EXCEPT ![sock[w]] = "free"] ELSE handle
  /\ peer' = IF last THEN [peer EXCEPT ![sock[w]] = "none"] ELSE peer
  /\ NextIteration(w)
  /\ UNCHANGED <<up, port, recvs, active>>

-----------------------------------------------------------------------------

Network ==
  \E s \in Sockets :
    Connect(s) \/ PeerClose(s) \/ PeerReset(s) \/ RecvData(s) \/ RecvEnd(s)

Worker(w) ==
  \/ \E p \in port : Dequeue(w, p)
  \/ AcceptSession(w) \/ AcceptUnlock(w)
  \/ PostRecv(w) \/ PostRecvThrows(w)
  \/ PostAccept(w) \/ PostAcceptThrows(w)
  \/ RecvLock(w) \/ HandlerCrash(w) \/ RecvUnlock(w)
  \/ DisconnectLookup(w) \/ LookupRaces(w)
  \/ DisconnectErase(w)
  \/ \E last \in BOOLEAN : DisconnectExit(w, last)

IoNext == Network \/ \E w \in Workers : Worker(w)

IoSpec == IoInit /\ [][IoNext]_ioVars

-----------------------------------------------------------------------------
(* Fairness.  A worker that holds what it needs keeps running (weak);      *)
(* m_usersMutex is not denied to one worker forever, the port hands out    *)
(* its completions in the order they came, and the bytes in flight from a  *)
(* peer that has gone are finitely many (strong: other steps may keep      *)
(* disabling the one that is waited for).                                  *)

Acquire(w) == AcceptSession(w) \/ RecvLock(w) \/ DisconnectErase(w)

Continue(w) ==
  \/ AcceptUnlock(w) \/ RecvUnlock(w) \/ HandlerCrash(w)
  \/ PostRecv(w) \/ PostRecvThrows(w) \/ PostAccept(w) \/ PostAcceptThrows(w)
  \/ DisconnectLookup(w) \/ LookupRaces(w)
  \/ \E last \in BOOLEAN : DisconnectExit(w, last)

DequeueFor(s) == \E w \in Workers, p \in port : p.sock = s /\ Dequeue(w, p)

IoFairness ==
  /\ \A w \in Workers : WF_ioVars(Continue(w)) /\ SF_ioVars(Acquire(w))
  /\ \A s \in Sockets : SF_ioVars(DequeueFor(s)) /\ SF_ioVars(RecvEnd(s))

FairIoSpec == IoSpec /\ IoFairness

-----------------------------------------------------------------------------
(* Properties. *)

\* Worker w is handling the completion of s and has not posted the next one.
Owns(w, s) == sock[w] = s /\ pc[w] \notin {"wait", "post_accept"}

\* A connection has one operation at a time: a WSARecv in the kernel, its
\* completion in the port, or one worker handling it.  This is what keeps the
\* bytes of a client in order (two workers never parse one stream), keeps
\* m_btBuf from being read by one worker and filled for another, and keeps a
\* disconnection from being handled twice.
OneOwner ==
  \A s \in Sockets :
    /\ recvs[s] <= 1
    /\ \A p, q \in port : p.sock = s /\ q.sock = s => p = q
    /\ \A p \in port : p.sock = s => recvs[s] = 0
    /\ \A w \in Workers : Owns(w, s) =>
         /\ recvs[s] = 0
         /\ \A p \in port : p.sock # s
         /\ \A v \in Workers : Owns(v, s) => v = w

\* Whatever is read for a socket, there is a session to give it to:
\* m_activeConnections[socket] never creates a null session in worker_thread
\* or in handle_dis_connect, and never finds that of a closed handle.
RecvOwnsSession ==
  /\ \A s \in Sockets : recvs[s] > 0 => s \in active
  /\ \A p \in port : p.ev = "IO_RECV" => p.sock \in active
  /\ \A w \in Workers :
       pc[w] \in ReceivePcs \cup {"first_recv", "lookup", "erase"} => sock[w] \in active
  /\ \A s \in active : handle[s] = "connected"

\* No connection is lost: while a session is in m_activeConnections something
\* is under way that will hear of its next bytes or of its end.
NoOrphanSession ==
  \A s \in active :
    \/ recvs[s] = 1
    \/ \E p \in port : p.sock = s /\ p.ev = "IO_RECV"
    \/ \E w \in Workers : Owns(w, s)

Accepting(w) == pc[w] \in AcceptPcs

\* The server always has exactly one AcceptEx on the way: pending in the
\* kernel, completed in the port, or at a worker that will post the next one.
\* None would turn every later client away; two would be a leak.
AcceptChain ==
  /\ \A s, t \in Sockets : handle[s] = "listening" /\ handle[t] = "listening" => s = t
  /\ \A p, q \in port : p.ev = "IO_ACCEPT" /\ q.ev = "IO_ACCEPT" => p = q
  /\ \A w, v \in Workers : Accepting(w) /\ Accepting(v) => w = v
  /\ \A s \in Sockets : handle[s] = "listening" =>
       /\ \A p \in port : p.ev = "IO_RECV"
       /\ \A w \in Workers : ~Accepting(w)
  /\ \A p \in port : p.ev = "IO_ACCEPT" => \A w \in Workers : ~Accepting(w)
  /\ \/ \E s \in Sockets : handle[s] = "listening"
     \/ \E p \in port : p.ev = "IO_ACCEPT"
     \/ \E w \in Workers : Accepting(w)

\* Nobody loses a session while the other end is still there: what a worker
\* erases is the session of the very connection whose end it was told of
\* (server.cpp:263), though the handle is all it has to find it by, and handles
\* are given out again.
OnlyGoneForgotten ==
  [][\A s \in active \ active' : peer[s] \in {"closed", "reset"}]_ioVars

\* m_activeConnections is an unordered_map: no worker may read it while
\* another one inserts into it or erases from it ("用户表操作锁",
\* server.hpp:101).
LookupsAreGuarded ==
  \A w, v \in Workers : pc[w] = "lookup" /\ v # w => ~UpdatingTable(v)

\* A client that connected gets a session, and the server listens again,
\* unless the process ends.
AcceptProgress ==
  \A s \in Sockets :
    AcceptPacket(s) \in port ~> ~up \/ (\E t \in Sockets : handle[t] = "listening")

\* A connection whose peer has gone leaves m_activeConnections, unless the
\* process ends first.
DisconnectForgets ==
  \A s \in Sockets : s \in active /\ peer[s] \in {"closed", "reset"} ~> ~up \/ s \notin active

\* A session is read from again and again as long as it is there: no worker
\* keeps a connection to itself, however the workers contend for the mutex.
ReadAgain ==
  \A s \in Sockets : s \in active ~> ~up \/ s \notin active \/ recvs[s] = 1

-----------------------------------------------------------------------------
(* The inductive invariant. *)

\* m_usersMutex is held by the worker that is between a lock_guard and the
\* end of its scope, and by no other.
MutexInv ==
  \A w \in Workers : mutex = w <=> pc[w] \in {"accept_cs", "dispatch", "erase_cs"}

\* A worker holds a completion exactly while it is handling one.
HoldsCompletion == \A w \in Workers : sock[w] = None <=> pc[w] = "wait"

\* Between its AcceptEx and its emplace a connection has no session yet;
\* after its erase it has none any more.
Arrivals ==
  /\ \A p \in port : p.ev = "IO_ACCEPT" =>
       handle[p.sock] = "connected" /\ p.sock \notin active
  /\ \A w \in Workers : pc[w] = "accept" =>
       handle[sock[w]] = "connected" /\ sock[w] \notin active
  /\ \A w \in Workers : pc[w] = "accept_cs" => sock[w] \in active
  /\ \A w \in Workers : pc[w] = "erase_cs" =>
       handle[sock[w]] = "connected" /\ sock[w] \notin active

\* Who is on the way to the erasure of a session was sent there by the end of
\* its connection, which no later connection has come after.
EndsAreTrue ==
  /\ \A p \in port : p.ev = "IO_RECV" /\ p.bytes = 0 => peer[p.sock] \in {"closed", "reset"}
  /\ \A w \in Workers : pc[w] \in {"lookup", "erase"} => peer[sock[w]] \in {"closed", "reset"}

IoInv ==
  /\ MutexInv
  /\ HoldsCompletion
  /\ Arrivals
  /\ OneOwner
  /\ RecvOwnsSession
  /\ NoOrphanSession
  /\ AcceptChain
=============================================================================
