--------------------------- MODULE ChatServerProofs ---------------------------
(***************************************************************************)
(* Proofs about the server for any workers, handles, faults, names and      *)
(* rooms.  First the I/O engine: its types, and the inductive invariant     *)
(* IoInv, from which the single owner of every connection, the presence of  *)
(* its session and the accept chain follow.  Then the chat service: it      *)
(* implements the engine, so every theorem of the engine holds of it; its   *)
(* types; and, when addresses are not used again too early and getpeername  *)
(* does not fail, the consistency of its user tables.                       *)
(***************************************************************************)
EXTENDS ChatServer, TLAPS

-----------------------------------------------------------------------------
(* The I/O engine. *)

\* The types are inductive only with HoldsCompletion: what AcceptSession adds
\* to m_activeConnections is a handle because the worker holds a completion.
Typed == IoTypeOK /\ HoldsCompletion

\* Every step of the engine keeps the types.
LEMMA TypedStep == Typed /\ [IoNext]_ioVars => Typed'
<1> SUFFICES ASSUME Typed, [IoNext]_ioVars PROVE Typed'
  OBVIOUS
<1> USE IoAssumption DEF Typed, HoldsCompletion, IoTypeOK, PCs, AcceptPcs, ReceivePcs, DisconnectPcs, Packet
<1>1. CASE UNCHANGED ioVars
  BY <1>1 DEF ioVars
<1>2. CASE Network
  <2>1. PICK s \in Sockets :
          Connect(s) \/ PeerClose(s) \/ PeerReset(s) \/ RecvData(s) \/ RecvEnd(s)
    BY <1>2 DEF Network
  <2>2. CASE Connect(s) BY <2>2 DEF Connect, AcceptPacket
  <2>3. CASE PeerClose(s) BY <2>3 DEF PeerClose
  <2>4. CASE PeerReset(s) BY <2>4 DEF PeerReset
  <2>5. CASE RecvData(s) BY <2>5 DEF RecvData, CompleteRecv, RecvPacket
  <2>6. CASE RecvEnd(s) BY <2>6 DEF RecvEnd, CompleteRecv, RecvPacket
  <2> QED BY <2>1, <2>2, <2>3, <2>4, <2>5, <2>6
<1>3. ASSUME NEW w \in Workers, Worker(w) PROVE Typed'
  <2> USE DEF Goto, NextIteration, Lock, Unlock, Crash
  <2>1. ASSUME NEW p \in port, Dequeue(w, p) PROVE Typed'
    BY <2>1 DEF Dequeue
  <2>2. CASE AcceptSession(w) BY <2>2 DEF AcceptSession
  <2>3. CASE AcceptUnlock(w) BY <2>3 DEF AcceptUnlock
  <2>4. CASE PostRecv(w) BY <2>4 DEF PostRecv
  <2>5. CASE PostRecvThrows(w) BY <2>5 DEF PostRecvThrows
  <2>6. CASE PostAccept(w) BY <2>6 DEF PostAccept
  <2>7. CASE PostAcceptThrows(w) BY <2>7 DEF PostAcceptThrows
  <2>8. CASE RecvLock(w) BY <2>8 DEF RecvLock
  <2>9. CASE HandlerCrash(w) BY <2>9 DEF HandlerCrash
  <2>10. CASE RecvUnlock(w) BY <2>10 DEF RecvUnlock
  <2>11. CASE DisconnectLookup(w) BY <2>11 DEF DisconnectLookup
  <2>12. CASE LookupRaces(w) BY <2>12 DEF LookupRaces
  <2>13. CASE DisconnectErase(w) BY <2>13 DEF DisconnectErase
  <2>14. ASSUME NEW last \in BOOLEAN, DisconnectExit(w, last) PROVE Typed'
    BY <2>14 DEF DisconnectExit
  <2> QED
    BY <1>3, <2>1, <2>2, <2>3, <2>4, <2>5, <2>6, <2>7, <2>8, <2>9, <2>10,
       <2>11, <2>12, <2>13, <2>14 DEF Worker
<1> QED BY <1>1, <1>2, <1>3 DEF IoNext

\* Every variable of the engine keeps its type.
THEOREM IoTypeCorrect == IoSpec => []IoTypeOK
<1>1. IoInit => Typed
  BY IoAssumption DEF IoInit, IoTypeOK, PCs, Typed, HoldsCompletion
<1>2. Typed => IoTypeOK
  BY DEF Typed
<1> QED BY <1>1, <1>2, TypedStep, PTL DEF IoSpec
-----------------------------------------------------------------------------
(* The inductive invariant, one lemma per group of actions.  Nothing in    *)
(* IoInv reads up or peer, so a crash of the process and the ways a peer   *)
(* goes away leave it alone.                                               *)

\* What the network does keeps the invariant: a completion takes the place of
\* the operation it completes.
LEMMA NetworkStep == Typed /\ IoInv /\ Network => IoInv'
<1> SUFFICES ASSUME Typed, IoInv, NEW s \in Sockets,
                    Connect(s) \/ PeerClose(s) \/ PeerReset(s) \/ RecvData(s) \/ RecvEnd(s)
             PROVE  IoInv'
  BY DEF Network
<1> USE IoAssumption DEF Typed, IoTypeOK, Packet, IoInv, Owns, Accepting
<1>1. CASE Connect(s)
  <2> USE <1>1 DEF Connect, AcceptPacket
  <2>1. MutexInv' /\ HoldsCompletion' /\ Arrivals'
    BY DEF MutexInv, HoldsCompletion, Arrivals, RecvOwnsSession
  <2>2. OneOwner' /\ RecvOwnsSession'
    BY DEF OneOwner, RecvOwnsSession, Arrivals, HoldsCompletion, ReceivePcs,
           PCs, AcceptPcs, DisconnectPcs
  <2>3. NoOrphanSession'
    BY DEF NoOrphanSession
  <2>4. AcceptChain'
    <3>1. AcceptPacket(s) \in port' /\ AcceptPacket(s).ev = "IO_ACCEPT"
      OBVIOUS
    <3>2. \A t \in Sockets : handle'[t] # "listening"
      BY DEF AcceptChain
    <3> QED BY <3>1, <3>2 DEF AcceptChain
  <2> QED BY <2>1, <2>2, <2>3, <2>4
<1>2. CASE PeerClose(s) \/ PeerReset(s)
  BY <1>2 DEF PeerClose, PeerReset, MutexInv, HoldsCompletion, Arrivals, OneOwner,
              RecvOwnsSession, NoOrphanSession, AcceptChain
<1>3. ASSUME NEW n \in {0, 1}, CompleteRecv(s, n) PROVE IoInv'
  <2> USE <1>3 DEF CompleteRecv, RecvPacket
  <2>1. MutexInv' /\ HoldsCompletion' /\ Arrivals' /\ RecvOwnsSession' /\ AcceptChain'
    BY DEF MutexInv, HoldsCompletion, Arrivals, RecvOwnsSession, AcceptChain
  <2>2. OneOwner'
    BY DEF OneOwner
  <2>3. NoOrphanSession'
    <3> SUFFICES ASSUME NEW t \in active'
                 PROVE  \/ recvs'[t] = 1
                        \/ \E p \in port' : p.sock = t /\ p.ev = "IO_RECV"
                        \/ \E w \in Workers : Owns(w, t)'
      BY DEF NoOrphanSession
    <3>1. CASE t = s
      <4>1. RecvPacket(s, n) \in port' /\ RecvPacket(s, n).sock = s
              /\ RecvPacket(s, n).ev = "IO_RECV"
        OBVIOUS
      <4> QED BY <3>1, <4>1
    <3>2. CASE t # s
      <4>1. recvs'[t] = recvs[t] /\ port \subseteq port' /\ t \in active
        BY <3>2
      <4> QED BY <4>1 DEF NoOrphanSession
    <3> QED BY <3>1, <3>2
  <2> QED BY <2>1, <2>2, <2>3
<1> QED BY <1>1, <1>2, <1>3 DEF RecvData, RecvEnd

\* Taking a completion from the port moves its connection to the worker.
LEMMA DequeueStep ==
  ASSUME Typed, IoInv, NEW w \in Workers,
         \E p \in port : Dequeue(w, p)
  PROVE  IoInv'
<1> USE IoAssumption DEF Typed, IoTypeOK, Packet, IoInv, Owns, Accepting,
      Goto, NextIteration, Lock, Unlock, PCs, AcceptPcs, ReceivePcs, DisconnectPcs
<1>1. ASSUME NEW p \in port, Dequeue(w, p) PROVE IoInv'
  <2> USE <1>1 DEF Dequeue
  <2>1. MutexInv' /\ HoldsCompletion' /\ Arrivals'
    BY DEF MutexInv, HoldsCompletion, Arrivals, OneOwner, RecvOwnsSession, AcceptChain
  <2>2. OneOwner'
    BY DEF HoldsCompletion, OneOwner, RecvOwnsSession, Arrivals
  <2>3. RecvOwnsSession' /\ NoOrphanSession'
    BY DEF HoldsCompletion, Arrivals, OneOwner, RecvOwnsSession, NoOrphanSession
  <2>4. AcceptChain'
    BY DEF AcceptChain, Arrivals, HoldsCompletion
  <2> QED BY <2>1, <2>2, <2>3, <2>4
<1> QED BY <1>1

\* The IO_ACCEPT case: the connection gets its session before its first
\* WSARecv, and the worker keeps the accept chain until it posts the next
\* AcceptEx.
LEMMA AcceptSteps ==
  ASSUME Typed, IoInv, NEW w \in Workers,
         AcceptSession(w) \/ AcceptUnlock(w) \/ PostRecv(w) \/ PostAccept(w)
  PROVE  IoInv'
<1> USE IoAssumption DEF Typed, IoTypeOK, Packet, IoInv, Owns, Accepting,
      Goto, NextIteration, Lock, Unlock, PCs, AcceptPcs, ReceivePcs, DisconnectPcs
<1>1. CASE AcceptSession(w)
  <2> USE <1>1 DEF AcceptSession
  <2>1. MutexInv' /\ HoldsCompletion' /\ Arrivals'
    BY DEF MutexInv, HoldsCompletion, Arrivals, OneOwner, RecvOwnsSession, AcceptChain
  <2>2. OneOwner'
    BY DEF HoldsCompletion, OneOwner, RecvOwnsSession, Arrivals
  <2>3. RecvOwnsSession' /\ NoOrphanSession'
    BY DEF HoldsCompletion, Arrivals, OneOwner, RecvOwnsSession, NoOrphanSession
  <2>4. AcceptChain'
    BY DEF AcceptChain, Arrivals, HoldsCompletion
  <2> QED BY <2>1, <2>2, <2>3, <2>4
<1>2. CASE AcceptUnlock(w)
  <2> USE <1>2 DEF AcceptUnlock
  <2>1. MutexInv' /\ HoldsCompletion' /\ Arrivals'
    BY DEF MutexInv, HoldsCompletion, Arrivals, OneOwner, RecvOwnsSession, AcceptChain
  <2>2. OneOwner'
    BY DEF HoldsCompletion, OneOwner, RecvOwnsSession, Arrivals
  <2>3. RecvOwnsSession' /\ NoOrphanSession'
    BY DEF HoldsCompletion, Arrivals, OneOwner, RecvOwnsSession, NoOrphanSession
  <2>4. AcceptChain'
    BY DEF AcceptChain, Arrivals, HoldsCompletion
  <2> QED BY <2>1, <2>2, <2>3, <2>4
<1>3. CASE PostRecv(w)
  <2> USE <1>3 DEF PostRecv
  <2>1. MutexInv' /\ HoldsCompletion' /\ Arrivals'
    BY DEF MutexInv, HoldsCompletion, Arrivals, OneOwner, RecvOwnsSession, AcceptChain
  <2>2. OneOwner'
    BY DEF HoldsCompletion, OneOwner, RecvOwnsSession, Arrivals
  <2>3. RecvOwnsSession' /\ NoOrphanSession'
    BY DEF HoldsCompletion, Arrivals, OneOwner, RecvOwnsSession, NoOrphanSession
  <2>4. AcceptChain'
    BY DEF AcceptChain, Arrivals, HoldsCompletion
  <2> QED BY <2>1, <2>2, <2>3, <2>4
<1>4. CASE PostAccept(w)
  <2> USE <1>4 DEF PostAccept
  <2>1. MutexInv' /\ HoldsCompletion' /\ Arrivals'
    BY DEF MutexInv, HoldsCompletion, Arrivals, OneOwner, RecvOwnsSession, AcceptChain
  <2>2. OneOwner'
    BY DEF HoldsCompletion, OneOwner, RecvOwnsSession, Arrivals
  <2>3. RecvOwnsSession' /\ NoOrphanSession'
    BY DEF HoldsCompletion, Arrivals, OneOwner, RecvOwnsSession, NoOrphanSession
  <2>4. AcceptChain'
    BY DEF AcceptChain, Arrivals, HoldsCompletion
  <2> QED BY <2>1, <2>2, <2>3, <2>4
<1> QED BY <1>1, <1>2, <1>3, <1>4

\* The IO_RECV case with bytes: the worker keeps the connection until it
\* posts the next WSARecv.
LEMMA ReceiveSteps ==
  ASSUME Typed, IoInv, NEW w \in Workers,
         RecvLock(w) \/ RecvUnlock(w)
  PROVE  IoInv'
<1> USE IoAssumption DEF Typed, IoTypeOK, Packet, IoInv, Owns, Accepting,
      Goto, NextIteration, Lock, Unlock, PCs, AcceptPcs, ReceivePcs, DisconnectPcs
<1>1. CASE RecvLock(w)
  <2> USE <1>1 DEF RecvLock
  <2>1. MutexInv' /\ HoldsCompletion' /\ Arrivals'
    BY DEF MutexInv, HoldsCompletion, Arrivals, OneOwner, RecvOwnsSession, AcceptChain
  <2>2. OneOwner'
    BY DEF HoldsCompletion, OneOwner, RecvOwnsSession, Arrivals
  <2>3. RecvOwnsSession' /\ NoOrphanSession'
    BY DEF HoldsCompletion, Arrivals, OneOwner, RecvOwnsSession, NoOrphanSession
  <2>4. AcceptChain'
    BY DEF AcceptChain, Arrivals, HoldsCompletion
  <2> QED BY <2>1, <2>2, <2>3, <2>4
<1>2. CASE RecvUnlock(w)
  <2> USE <1>2 DEF RecvUnlock
  <2>1. MutexInv' /\ HoldsCompletion' /\ Arrivals'
    BY DEF MutexInv, HoldsCompletion, Arrivals, OneOwner, RecvOwnsSession, AcceptChain
  <2>2. OneOwner'
    BY DEF HoldsCompletion, OneOwner, RecvOwnsSession, Arrivals
  <2>3. RecvOwnsSession' /\ NoOrphanSession'
    BY DEF HoldsCompletion, Arrivals, OneOwner, RecvOwnsSession, NoOrphanSession
  <2>4. AcceptChain'
    BY DEF AcceptChain, Arrivals, HoldsCompletion
  <2> QED BY <2>1, <2>2, <2>3, <2>4
<1> QED BY <1>1, <1>2

\* The IO_RECV case without bytes: the session leaves the table, and nothing
\* is under way on its handle when that is closed.
LEMMA DisconnectSteps ==
  ASSUME Typed, IoInv, NEW w \in Workers,
         DisconnectLookup(w) \/ DisconnectErase(w) \/ \E last \in BOOLEAN : DisconnectExit(w, last)
  PROVE  IoInv'
<1> USE IoAssumption DEF Typed, IoTypeOK, Packet, IoInv, Owns, Accepting,
      Goto, NextIteration, Lock, Unlock, PCs, AcceptPcs, ReceivePcs, DisconnectPcs
<1>1. CASE DisconnectLookup(w)
  <2> USE <1>1 DEF DisconnectLookup
  <2>1. MutexInv' /\ HoldsCompletion' /\ Arrivals'
    BY DEF MutexInv, HoldsCompletion, Arrivals, OneOwner, RecvOwnsSession, AcceptChain
  <2>2. OneOwner'
    BY DEF HoldsCompletion, OneOwner, RecvOwnsSession, Arrivals
  <2>3. RecvOwnsSession' /\ NoOrphanSession'
    BY DEF HoldsCompletion, Arrivals, OneOwner, RecvOwnsSession, NoOrphanSession
  <2>4. AcceptChain'
    BY DEF AcceptChain, Arrivals, HoldsCompletion
  <2> QED BY <2>1, <2>2, <2>3, <2>4
<1>2. CASE DisconnectErase(w)
  <2> USE <1>2 DEF DisconnectErase
  <2>1. MutexInv' /\ HoldsCompletion' /\ Arrivals'
    BY DEF MutexInv, HoldsCompletion, Arrivals, OneOwner, RecvOwnsSession, AcceptChain
  <2>2. OneOwner'
    BY DEF HoldsCompletion, OneOwner, RecvOwnsSession, Arrivals
  <2>3. RecvOwnsSession' /\ NoOrphanSession'
    BY DEF HoldsCompletion, Arrivals, OneOwner, RecvOwnsSession, NoOrphanSession
  <2>4. AcceptChain'
    BY DEF AcceptChain, Arrivals, HoldsCompletion
  <2> QED BY <2>1, <2>2, <2>3, <2>4
<1>3. ASSUME NEW last \in BOOLEAN, DisconnectExit(w, last) PROVE IoInv'
  <2> USE <1>3 DEF DisconnectExit
  <2>1. MutexInv' /\ HoldsCompletion' /\ Arrivals'
    BY DEF MutexInv, HoldsCompletion, Arrivals, OneOwner, RecvOwnsSession, AcceptChain
  <2>2. OneOwner'
    BY DEF HoldsCompletion, OneOwner, RecvOwnsSession, Arrivals
  <2>3. RecvOwnsSession' /\ NoOrphanSession'
    BY DEF HoldsCompletion, Arrivals, OneOwner, RecvOwnsSession, NoOrphanSession
  <2>4. AcceptChain'
    BY DEF AcceptChain, Arrivals, HoldsCompletion
  <2> QED BY <2>1, <2>2, <2>3, <2>4
<1> QED BY <1>1, <1>2, <1>3

\* A step that ends the process changes up and nothing else.
LEMMA CrashStep == IoInv /\ Crash => IoInv'
BY DEF Crash, IoInv, MutexInv, HoldsCompletion, Arrivals, OneOwner, Owns,
       RecvOwnsSession, NoOrphanSession, AcceptChain, Accepting

\* Every step of the engine keeps the invariant.
LEMMA IoInvStep == Typed /\ IoInv /\ [IoNext]_ioVars => IoInv'
<1> SUFFICES ASSUME Typed, IoInv, [IoNext]_ioVars PROVE IoInv'
  OBVIOUS
<1>1. CASE UNCHANGED ioVars
  BY <1>1 DEF ioVars, IoInv, MutexInv, HoldsCompletion, Arrivals, OneOwner, Owns,
              RecvOwnsSession, NoOrphanSession, AcceptChain, Accepting
<1>2. CASE Network
  BY <1>2, NetworkStep
<1>3. ASSUME NEW w \in Workers, Worker(w) PROVE IoInv'
  <2>1. CASE PostRecvThrows(w) \/ PostAcceptThrows(w) \/ HandlerCrash(w) \/ LookupRaces(w)
    BY <2>1, CrashStep DEF PostRecvThrows, PostAcceptThrows, HandlerCrash, LookupRaces
  <2> QED BY <1>3, <2>1, DequeueStep, AcceptSteps, ReceiveSteps, DisconnectSteps DEF Worker
<1> QED BY <1>1, <1>2, <1>3 DEF IoNext

\* IoInv is an invariant of the engine.
LEMMA IoInvariant == IoSpec => [](Typed /\ IoInv)
<1>1. IoInit => Typed /\ IoInv
  BY IoAssumption DEF IoInit, Typed, IoTypeOK, PCs, IoInv, MutexInv, HoldsCompletion, Arrivals,
     OneOwner, Owns, RecvOwnsSession, ReceivePcs, NoOrphanSession, AcceptChain, Accepting, AcceptPcs
<1> QED BY <1>1, TypedStep, IoInvStep, PTL DEF IoSpec

\* The mutex, the table, the connections and the accept chain stay in step with
\* where the workers are: the invariant the others are parts of.
THEOREM EngineInvariant == IoSpec => []IoInv
BY IoInvariant, PTL

\* However many workers drain the port, a connection is in one place only.
THEOREM SingleOwner == IoSpec => []OneOwner
BY IoInvariant, PTL DEF IoInv

\* Bytes never reach worker_thread for a socket without a session.
THEOREM SessionPresent == IoSpec => []RecvOwnsSession
BY IoInvariant, PTL DEF IoInv

\* A session in the table is always waiting for, or being served, its next bytes.
THEOREM NoSessionLost == IoSpec => []NoOrphanSession
BY IoInvariant, PTL DEF IoInv

\* Exactly one AcceptEx is on the way, whatever happens to the connections.
THEOREM AcceptChainKept == IoSpec => []AcceptChain
BY IoInvariant, PTL DEF IoInv

\* Every step of the engine keeps the ends true: the handle of a connection is
\* closed when nobody else is on the way to its erasure.
LEMMA EndsStep ==
  ASSUME Typed, IoInv, EndsAreTrue, [IoNext]_ioVars
  PROVE  EndsAreTrue'
<1> USE IoAssumption
    DEF Typed, IoTypeOK, Packet, IoInv, HoldsCompletion, RecvOwnsSession, OneOwner, Owns, EndsAreTrue,
        PCs, AcceptPcs, ReceivePcs, DisconnectPcs, Goto, NextIteration, Lock, Unlock
<1>1. CASE UNCHANGED ioVars
  BY <1>1 DEF ioVars
<1>2. CASE Network
  BY <1>2 DEF Network, Connect, PeerClose, PeerReset, RecvData, RecvEnd, CompleteRecv,
              AcceptPacket, RecvPacket
<1>3. ASSUME NEW w \in Workers, Worker(w) PROVE EndsAreTrue'
  <2>1. ASSUME NEW p \in port, Dequeue(w, p) PROVE EndsAreTrue'
    BY <2>1 DEF Dequeue
  <2>2. CASE AcceptSession(w) \/ AcceptUnlock(w) \/ PostRecv(w) \/ PostAccept(w)
    BY <2>2 DEF AcceptSession, AcceptUnlock, PostRecv, PostAccept
  <2>3. CASE RecvLock(w) \/ RecvUnlock(w) \/ DisconnectLookup(w) \/ DisconnectErase(w)
    BY <2>3 DEF RecvLock, RecvUnlock, DisconnectLookup, DisconnectErase
  <2>4. CASE Crash
    BY <2>4 DEF Crash
  <2>5. ASSUME NEW last \in BOOLEAN, DisconnectExit(w, last) PROVE EndsAreTrue'
    BY <2>5 DEF DisconnectExit
  <2> QED
    BY <1>3, <2>1, <2>2, <2>3, <2>4, <2>5
    DEF Worker, PostRecvThrows, PostAcceptThrows, HandlerCrash, LookupRaces
<1> QED BY <1>1, <1>2, <1>3 DEF IoNext

\* However handles are given out again, a session is erased only when the peer
\* of its own connection has gone.
THEOREM GoneBeforeForgotten == IoSpec => OnlyGoneForgotten
<1>1. IoInit => EndsAreTrue
  BY DEF IoInit, EndsAreTrue
<1>2. Typed /\ EndsAreTrue /\ [IoNext]_ioVars =>
        [\A s \in active \ active' : peer[s] \in {"closed", "reset"}]_ioVars
  <2> SUFFICES ASSUME Typed, EndsAreTrue, IoNext, NEW s \in active \ active'
               PROVE  peer[s] \in {"closed", "reset"}
    OBVIOUS
  <2>1. \E w \in Workers : DisconnectErase(w)
    BY DEF IoNext, Network, Connect, PeerClose, PeerReset, RecvData, RecvEnd, CompleteRecv, Worker,
       Dequeue, AcceptSession, AcceptUnlock, PostRecv, PostRecvThrows, PostAccept, PostAcceptThrows,
       RecvLock, HandlerCrash, RecvUnlock, DisconnectLookup, LookupRaces, DisconnectExit, Crash
  <2> QED BY <2>1 DEF DisconnectErase, EndsAreTrue
<1> QED BY <1>1, <1>2, IoInvariant, EndsStep, PTL DEF IoSpec, OnlyGoneForgotten

-----------------------------------------------------------------------------
(* The chat service. *)

\* A handler and the end of a dispatch leave the engine to its own steps.
LEMMA ChatStepIsIoStep == [ChatNext]_vars => [IoNext]_ioVars
<1> SUFFICES ASSUME [ChatNext]_vars PROVE [IoNext]_ioVars
  OBVIOUS
<1>1. CASE UNCHANGED vars
  BY <1>1 DEF vars
<1>2. CASE ChatNetwork
  BY <1>2 DEF ChatNetwork, ClientConnects, IoNext, Network
<1>3. ASSUME NEW w \in Workers, ChatWorker(w) PROVE [IoNext]_ioVars
  <2>1. CASE EngineStep(w)
    BY <2>1 DEF EngineStep, IoNext, Worker
  <2>2. CASE Handler(w)
    BY <2>2 DEF Handler, Login, GetList, SendPrivate, SendRoom, CreateRoom, EnterRoom, LeaveRoom
  <2>3. CASE NullUser(w)
    BY <2>3 DEF NullUser, IoNext, Worker
  <2>4. CASE EndDispatch(w)
    BY <2>4 DEF EndDispatch, IoNext, Worker
  <2>5. CASE EraseUser(w)
    BY <2>5 DEF EraseUser, IoNext, Worker
  <2>6. CASE EndSession(w)
    <3>1. PICK last \in BOOLEAN : DisconnectExit(w, last)
      BY <2>6 DEF EndSession
    <3> QED BY <3>1 DEF IoNext, Worker
  <2> QED BY <1>3, <2>1, <2>2, <2>3, <2>4, <2>5, <2>6 DEF ChatWorker
<1> QED BY <1>1, <1>2, <1>3 DEF ChatNext

\* The chat service implements the I/O engine: no handler accepts, reads,
\* disconnects or locks on its own.
THEOREM ChatImplementsIo == ChatSpec => IoSpec
<1>1. ChatInit => IoInit
  BY DEF ChatInit
<1> QED BY <1>1, ChatStepIsIoStep, PTL DEF ChatSpec, IoSpec

\* What the engine guarantees holds of the chat service.
LEMMA ChatEngine == ChatSpec => [](Typed /\ IoInv)
BY ChatImplementsIo, IoInvariant, PTL

-----------------------------------------------------------------------------
(* The types, names and rooms, whatever fails. *)

\* No step breaks ChatInv.  A handler runs for a session in the table, by
\* RecvOwnsSession; the erased session has no name and its handle is closed
\* only when no room holds it.
LEMMA ChatInvStep ==
  ASSUME Typed, IoInv, ChatInv,
         [ChatNext]_vars
  PROVE  ChatInv'
<1> USE IoAssumption, ChatAssumption
    DEF Typed, IoTypeOK, Packet, IoInv, HoldsCompletion, Arrivals, OneOwner,
        RecvOwnsSession, Owns, PCs, AcceptPcs, ReceivePcs, DisconnectPcs,
        Goto, NextIteration, Lock, Unlock, SessionHeld, ChatInv, ChatTypeOK
<1>1. CASE UNCHANGED vars
  BY <1>1 DEF vars, ioVars, chatVars, EndpointKnown, NamesOfSessions,
          MembersConnected
<1>2. ASSUME NEW s \in Sockets, ClientConnects(s) PROVE ChatInv'
  <2>1. ChatTypeOK' /\ EndpointKnown'
    BY <1>2 DEF ClientConnects, Connect, AddressFree, AcceptPacket, EndpointKnown
  <2>2. NamesOfSessions'
    BY <1>2 DEF ClientConnects, Connect, AddressFree, AcceptPacket,
           NamesOfSessions
  <2>3. MembersConnected'
    BY <1>2 DEF ClientConnects, Connect, AddressFree, AcceptPacket, EndpointKnown,
           NamesOfSessions, MembersConnected
  <2> QED BY <2>1, <2>2, <2>3
<1>3. ASSUME NEW s \in Sockets, PeerClose(s) \/ PeerReset(s) \/ RecvData(s) \/ RecvEnd(s),
            UNCHANGED chatVars
     PROVE  ChatInv'
  BY <1>3 DEF PeerClose, PeerReset, RecvData, RecvEnd, CompleteRecv, RecvPacket,
           chatVars, EndpointKnown, NamesOfSessions, MembersConnected
<1>4. ASSUME NEW w \in Workers, ChatWorker(w) PROVE ChatInv'
  <2>1. ASSUME NEW p \in port, Dequeue(w, p), UNCHANGED chatVars PROVE ChatInv'
    BY <2>1 DEF Dequeue, chatVars, EndpointKnown, NamesOfSessions,
             MembersConnected
  <2>2. ASSUME AcceptSession(w), UNCHANGED chatVars PROVE ChatInv'
    BY <2>2 DEF AcceptSession, chatVars, EndpointKnown, NamesOfSessions,
             MembersConnected
  <2>3. ASSUME AcceptUnlock(w) \/ PostRecv(w) \/ PostAccept(w),
              UNCHANGED chatVars
       PROVE  ChatInv'
    BY <2>3 DEF AcceptUnlock, PostRecv, PostAccept, chatVars, EndpointKnown,
             NamesOfSessions, MembersConnected
  <2>4. ASSUME RecvLock(w) \/ DisconnectLookup(w),
              UNCHANGED chatVars
       PROVE  ChatInv'
    BY <2>4 DEF RecvLock, DisconnectLookup, chatVars, EndpointKnown,
             NamesOfSessions, MembersConnected
  <2>5. ASSUME Crash, UNCHANGED chatVars PROVE ChatInv'
    BY <2>5 DEF Crash, chatVars, EndpointKnown, NamesOfSessions,
             MembersConnected
  <2>6. ASSUME NEW u \in Usernames, Login(w, u) PROVE ChatInv'
    <3>1. ChatTypeOK' /\ EndpointKnown'
      BY <2>6 DEF Login, RemoteEndpoint, Handling, Key, ioVars, EndpointKnown
    <3>2. NamesOfSessions'
      BY <2>6 DEF Login, RemoteEndpoint, Handling, Key, ioVars, NamesOfSessions
    <3>3. MembersConnected'
      BY <2>6 DEF Login, RemoteEndpoint, Handling, Key, ioVars, EndpointKnown,
             NamesOfSessions, MembersConnected
    <3> QED BY <3>1, <3>2, <3>3
  <2>7. ASSUME GetList(w) \/ (\E k \in Key : SendPrivate(w, k)) 
                \/ (\E r \in Rooms : SendRoom(w, r))
       PROVE  ChatInv'
    BY <2>7 DEF GetList, SendPrivate, SendRoom, Posted, Handling, ioVars,
             EndpointKnown, NamesOfSessions, MembersConnected
  <2>8. ASSUME NEW r \in Rooms, CreateRoom(w, r) PROVE ChatInv'
    BY <2>8 DEF CreateRoom, Handling, ioVars, EndpointKnown, NamesOfSessions,
             MembersConnected
  <2>9. ASSUME NEW r \in Rooms, EnterRoom(w, r) PROVE ChatInv'
    <3>1. ChatTypeOK' /\ EndpointKnown'
      BY <2>9 DEF EnterRoom, UserOf, Handling, ioVars, EndpointKnown
    <3>2. NamesOfSessions'
      BY <2>9 DEF EnterRoom, UserOf, Handling, ioVars, NamesOfSessions
    <3>3. MembersConnected'
      BY <2>9 DEF EnterRoom, UserOf, Handling, ioVars, EndpointKnown,
             NamesOfSessions, MembersConnected
    <3> QED BY <3>1, <3>2, <3>3
  <2>10. ASSUME NEW r \in Rooms, LeaveRoom(w, r) PROVE ChatInv'
    <3>1. ChatTypeOK' /\ EndpointKnown'
      BY <2>10 DEF LeaveRoom, UserOf, Handling, ioVars, EndpointKnown
    <3>2. NamesOfSessions'
      BY <2>10 DEF LeaveRoom, UserOf, Handling, ioVars, NamesOfSessions
    <3>3. MembersConnected'
      BY <2>10 DEF LeaveRoom, UserOf, Handling, ioVars, EndpointKnown,
             NamesOfSessions, MembersConnected
    <3> QED BY <3>1, <3>2, <3>3
  <2>11. CASE EndDispatch(w)
    BY <2>11 DEF EndDispatch, RecvUnlock, EndpointKnown, NamesOfSessions,
             MembersConnected
  <2>12. CASE EraseUser(w)
    <3>1. ChatTypeOK' /\ EndpointKnown'
      BY <2>12 DEF EraseUser, DisconnectErase, EndpointKnown
    <3>2. NamesOfSessions'
      BY <2>12 DEF EraseUser, DisconnectErase, NamesOfSessions
    <3>3. MembersConnected'
      BY <2>12 DEF EraseUser, DisconnectErase, EndpointKnown, NamesOfSessions,
             MembersConnected
    <3> QED BY <3>1, <3>2, <3>3
  <2>13. CASE EndSession(w)
    <3>1. ChatTypeOK' /\ EndpointKnown'
      BY <2>13 DEF EndSession, DisconnectExit, EndpointKnown
    <3>2. NamesOfSessions'
      BY <2>13 DEF EndSession, DisconnectExit, NamesOfSessions
    <3>3. MembersConnected'
      BY <2>13 DEF EndSession, DisconnectExit, EndpointKnown, NamesOfSessions,
             MembersConnected
    <3> QED BY <3>1, <3>2, <3>3
  <2>14. CASE NullUser(w)
    BY <2>14, <2>5 DEF NullUser, HandlerCrash
  <2>15. CASE EngineStep(w)
    BY <2>15, <2>1, <2>2, <2>3, <2>4, <2>5
    DEF EngineStep, PostRecvThrows, PostAcceptThrows, LookupRaces
  <2> QED
    BY <1>4, <2>1, <2>2, <2>3, <2>4, <2>5, <2>6, <2>7, <2>8, <2>9, <2>10, <2>11,
       <2>12, <2>13, <2>14, <2>15
    DEF ChatWorker, Handler
<1> QED BY <1>1, <1>2, <1>3, <1>4 DEF ChatNext, ChatNetwork

\* ChatInv is an invariant.
LEMMA ChatInvariant == ChatSpec => []ChatInv
<1>1. ChatInit => ChatInv
  BY IoAssumption, ChatAssumption
  DEF ChatInit, IoInit, ChatInv, ChatTypeOK, EndpointKnown, NamesOfSessions, MembersConnected, Key
<1> QED BY <1>1, ChatInvStep, ChatEngine, PTL DEF ChatSpec

\* Every variable of the chat service keeps its type: a null user is never
\* stored, under any faults.
THEOREM ChatTypeCorrect == ChatSpec => []ChatTypeOK
BY ChatInvariant, PTL DEF ChatInv

\* A room only ever holds users whose handle is open.
THEOREM MembersStayConnected == ChatSpec => []MembersConnected
BY ChatInvariant, PTL DEF ChatInv

\* Every user in the list is online, even when names clash.
THEOREM UsersStayOnline == ChatSpec => []UsersOnline
<1>1. ChatInv => UsersOnline
  BY ChatAssumption DEF ChatInv, ChatTypeOK, NamesOfSessions, UsersOnline
<1> QED BY <1>1, ChatInvariant, PTL

-----------------------------------------------------------------------------
(* The user tables, when names cannot clash. *)

NoClash == Faults \cap {"port_reuse", "getpeername"} = {}

\* The engine does not take a session back into the table.
LEMMA ForgottenStays ==
  ASSUME Typed, IoInv, [IoNext]_ioVars, NEW s \in Sockets, Forgotten(s)
  PROVE  Forgotten(s)' \/ handle'[s] # "connected"
<1> USE IoAssumption
    DEF Typed, IoTypeOK, Packet, IoInv, HoldsCompletion, Forgotten, Fresh,
        PCs, AcceptPcs, ReceivePcs, DisconnectPcs, Goto, NextIteration, Lock, Unlock
<1>1. CASE UNCHANGED ioVars
  BY <1>1 DEF ioVars
<1>2. CASE Network
  BY <1>2 DEF Network, Connect, PeerClose, PeerReset, RecvData, RecvEnd, CompleteRecv,
              AcceptPacket, RecvPacket
<1>3. ASSUME NEW w \in Workers, Worker(w) PROVE Forgotten(s)' \/ handle'[s] # "connected"
  <2>1. ASSUME NEW p \in port, Dequeue(w, p) PROVE Forgotten(s)'
    BY <2>1 DEF Dequeue
  <2>2. CASE AcceptSession(w)
    BY <2>2 DEF AcceptSession
  <2>3. CASE AcceptUnlock(w) \/ PostRecv(w) \/ PostAccept(w)
    BY <2>3 DEF AcceptUnlock, PostRecv, PostAccept
  <2>4. CASE RecvLock(w) \/ RecvUnlock(w) \/ DisconnectLookup(w) \/ DisconnectErase(w)
    BY <2>4 DEF RecvLock, RecvUnlock, DisconnectLookup, DisconnectErase
  <2>5. CASE Crash
    BY <2>5 DEF Crash
  <2>6. ASSUME NEW last \in BOOLEAN, DisconnectExit(w, last)
        PROVE  Forgotten(s)' \/ handle'[s] # "connected"
    BY <2>6 DEF DisconnectExit
  <2> QED
    BY <1>3, <2>1, <2>2, <2>3, <2>4, <2>5, <2>6
    DEF Worker, PostRecvThrows, PostAcceptThrows, HandlerCrash, LookupRaces
<1> QED BY <1>1, <1>2, <1>3 DEF IoNext

\* A client that connects has an address for itself, and no other step gives an
\* address to anybody.
LEMMA DistinctStep ==
  ASSUME NoClash, Typed, IoInv, ChatInv, EndpointsDistinct, [ChatNext]_vars
  PROVE  EndpointsDistinct'
<1> SUFFICES ASSUME NEW s \in Sockets, NEW t \in Sockets,
                    endpoint'[s] = endpoint'[t], endpoint'[s] # None
             PROVE  s = t \/ Forgotten(s)' \/ Forgotten(t)'
  BY DEF EndpointsDistinct
<1>1. ChatInv'
  BY ChatInvStep
<1>2. handle'[s] = "connected" /\ handle'[t] = "connected"
  BY <1>1 DEF ChatInv, EndpointKnown
<1>3. \A x \in {s, t} : Forgotten(x) => Forgotten(x)'
  BY <1>2, ForgottenStays, ChatStepIsIoStep
<1>4. ASSUME NEW x \in Sockets, ClientConnects(x) PROVE s = t \/ Forgotten(s)' \/ Forgotten(t)'
  <2>1. PICK e \in Endpoints : AddressFree(e) /\ endpoint' = [endpoint EXCEPT ![x] = e]
    BY <1>4 DEF ClientConnects
  <2>2. \A y \in Sockets : endpoint[y] = e => Forgotten(y)
    BY <2>1 DEF AddressFree, NoClash
  <2>3. \A y \in Sockets : endpoint'[y] = IF y = x THEN e ELSE endpoint[y]
    BY <2>1 DEF ChatInv, ChatTypeOK
  <2>4. CASE s = x \/ t = x
    BY <1>3, <2>2, <2>3, <2>4
  <2>5. CASE s # x /\ t # x
    BY <1>3, <2>3, <2>5 DEF EndpointsDistinct
  <2> QED BY <2>4, <2>5
<1>5. CASE \A x \in {s, t} : endpoint'[x] = endpoint[x]
  BY <1>3, <1>5 DEF EndpointsDistinct
<1>6. CASE ~\E x \in Sockets : ClientConnects(x)
  <2>1. \A y \in Sockets : endpoint'[y] \in {endpoint[y], None}
    BY <1>6 DEF ChatInv, ChatTypeOK, ChatNext, ChatNetwork, ChatWorker, EngineStep, Handler, Login,
       GetList, SendPrivate, SendRoom, CreateRoom, EnterRoom, LeaveRoom, NullUser, EndDispatch,
       EraseUser, EndSession, vars, chatVars
  <2> QED BY <1>5, <2>1
<1> QED BY <1>4, <1>6

\* No step breaks the tables: a login finds its key unused, since the address
\* in it is that of its own connection alone.
LEMMA RegistryStep ==
  ASSUME NoClash, Typed, IoInv, ChatInv, RegistryInv,
         [ChatNext]_vars
  PROVE  RegistryInv'
<1> USE IoAssumption, ChatAssumption
    DEF Typed, IoTypeOK, Packet, IoInv, HoldsCompletion, Arrivals, OneOwner,
        RecvOwnsSession, Owns, PCs, AcceptPcs, ReceivePcs, DisconnectPcs,
        Goto, NextIteration, Lock, Unlock, SessionHeld, ChatInv, ChatTypeOK,
        NamesOfSessions, EndpointKnown, NoClash
<1>1. ASSUME UNCHANGED vars PROVE RegistryConsistent'
  BY <1>1 DEF vars, ioVars, chatVars, RegistryInv, RegistryConsistent
<1>2. ASSUME NEW s \in Sockets, ClientConnects(s) PROVE RegistryConsistent'
  <2>1. PICK e \in Endpoints : endpoint' = [endpoint EXCEPT ![s] = e]
    BY <1>2 DEF ClientConnects
  <2>2. s \notin active /\ UNCHANGED <<active, socket2Name, loginUsers>>
    BY <1>2 DEF ClientConnects, Connect
  <2> QED BY <2>1, <2>2 DEF RegistryInv, RegistryConsistent
<1>3. ASSUME NEW s \in Sockets, PeerClose(s) \/ PeerReset(s) \/ RecvData(s) \/ RecvEnd(s),
            UNCHANGED chatVars
     PROVE  RegistryConsistent'
  BY <1>3 DEF PeerClose, PeerReset, RecvData, RecvEnd, CompleteRecv, RecvPacket,
           chatVars, RegistryInv, RegistryConsistent
<1>4. ASSUME NEW w \in Workers, ChatWorker(w) PROVE RegistryConsistent'
  <2>1. ASSUME NEW p \in port, Dequeue(w, p),
              UNCHANGED chatVars
       PROVE  RegistryConsistent'
    BY <2>1 DEF Dequeue, chatVars, RegistryInv, RegistryConsistent
  <2>2. ASSUME AcceptSession(w), UNCHANGED chatVars PROVE RegistryConsistent'
    BY <2>2 DEF AcceptSession, chatVars, RegistryInv, RegistryConsistent
  <2>3. ASSUME AcceptUnlock(w) \/ PostRecv(w) \/ PostAccept(w),
              UNCHANGED chatVars
       PROVE  RegistryConsistent'
    BY <2>3 DEF AcceptUnlock, PostRecv, PostAccept, chatVars, RegistryInv,
             RegistryConsistent
  <2>4. ASSUME RecvLock(w) \/ DisconnectLookup(w),
              UNCHANGED chatVars
       PROVE  RegistryConsistent'
    BY <2>4 DEF RecvLock, DisconnectLookup, chatVars, RegistryInv,
             RegistryConsistent
  <2>5. ASSUME Crash, UNCHANGED chatVars PROVE RegistryConsistent'
    BY <2>5 DEF Crash, chatVars, RegistryInv, RegistryConsistent
  <2>6. ASSUME NEW u \in Usernames, Login(w, u) PROVE RegistryConsistent'
    BY <2>6 DEF Login, RemoteEndpoint, Handling, Key, ioVars, RegistryInv,
             RegistryConsistent, EndpointsDistinct, Forgotten
  <2>7. ASSUME GetList(w) \/ (\E k \in Key : SendPrivate(w, k)) 
                \/ (\E r \in Rooms : SendRoom(w, r))
       PROVE  RegistryConsistent'
    BY <2>7 DEF GetList, SendPrivate, SendRoom, Posted, Handling, ioVars,
             RegistryInv, RegistryConsistent
  <2>8. ASSUME NEW r \in Rooms, CreateRoom(w, r) PROVE RegistryConsistent'
    BY <2>8 DEF CreateRoom, Handling, ioVars, RegistryInv, RegistryConsistent
  <2>9. ASSUME NEW r \in Rooms, EnterRoom(w, r) PROVE RegistryConsistent'
    BY <2>9 DEF EnterRoom, UserOf, Handling, ioVars, RegistryInv,
             RegistryConsistent
  <2>10. ASSUME NEW r \in Rooms, LeaveRoom(w, r) PROVE RegistryConsistent'
    BY <2>10 DEF LeaveRoom, UserOf, Handling, ioVars, RegistryInv,
             RegistryConsistent
  <2>11. CASE EndDispatch(w)
    BY <2>11 DEF EndDispatch, RecvUnlock, RegistryInv, RegistryConsistent
  <2>12. CASE EraseUser(w)
    BY <2>12 DEF EraseUser, DisconnectErase, RegistryInv, RegistryConsistent
  <2>13. CASE EndSession(w)
    BY <2>13 DEF EndSession, DisconnectExit, RegistryInv, RegistryConsistent
  <2>14. CASE NullUser(w)
    BY <2>14, <2>5 DEF NullUser, HandlerCrash
  <2>15. CASE EngineStep(w)
    BY <2>15, <2>1, <2>2, <2>3, <2>4, <2>5
    DEF EngineStep, PostRecvThrows, PostAcceptThrows, LookupRaces
  <2> QED
    BY <1>4, <2>1, <2>2, <2>3, <2>4, <2>5, <2>6, <2>7, <2>8, <2>9, <2>10, <2>11,
       <2>12, <2>13, <2>14, <2>15
    DEF ChatWorker, Handler
<1>5. EndpointsDistinct'
  BY DistinctStep DEF RegistryInv
<1> QED BY <1>1, <1>2, <1>3, <1>4, <1>5 DEF ChatNext, ChatNetwork, RegistryInv

\* RegistryInv is an invariant when names cannot clash.
LEMMA RegistryInvariant == ASSUME NoClash PROVE ChatSpec => []RegistryInv
<1>1. ChatInit => RegistryInv
  BY IoAssumption, ChatAssumption
  DEF ChatInit, RegistryInv, RegistryConsistent, EndpointsDistinct, Key
<1>2. Typed /\ IoInv /\ ChatInv /\ RegistryInv /\ [ChatNext]_vars => RegistryInv'
  BY NoClash, RegistryStep
<1> QED BY <1>1, <1>2, ChatEngine, ChatInvariant, PTL DEF ChatSpec

\* m_loginUsers and m_socket2Name stay each other's inverse, with true addresses.
THEOREM RegistryCorrect == ASSUME NoClash PROVE ChatSpec => []RegistryConsistent
BY RegistryInvariant, PTL DEF RegistryInv

\* A private message is posted to the connection at the chosen address alone.
THEOREM PrivateDeliveryCorrect == ASSUME NoClash PROVE ChatSpec => PrivateDelivery
<1>1. ChatInv /\ RegistryInv /\ [ChatNext]_vars =>
        [\A w \in Workers, k \in Key :
           SendPrivate(w, k) => \A t \in posted' : endpoint[t] = k[2] /\ t \in active]_vars
  BY ChatAssumption
  DEF ChatInv, ChatTypeOK, RegistryInv, RegistryConsistent, SendPrivate, Posted
<1> QED BY <1>1, ChatInvariant, RegistryInvariant, PTL DEF ChatSpec, PrivateDelivery

-----------------------------------------------------------------------------
(* The rooms, when names cannot clash. *)

\* No step lets a room and its clients disagree: the user a handler finds is
\* the sender's own, and a fresh connection starts outside every room.
LEMMA RoomStep ==
  ASSUME NoClash, Typed, IoInv, ChatInv, RegistryInv, RoomInv,
         [ChatNext]_vars
  PROVE  RoomInv'
<1> USE IoAssumption, ChatAssumption
    DEF Typed, IoTypeOK, Packet, IoInv, HoldsCompletion, Arrivals, OneOwner,
        RecvOwnsSession, Owns, PCs, AcceptPcs, ReceivePcs, DisconnectPcs,
        Goto, NextIteration, Lock, Unlock, SessionHeld, ChatInv, ChatTypeOK,
        NamesOfSessions, EndpointKnown, RegistryInv, RegistryConsistent
<1>1. CASE UNCHANGED vars
  BY <1>1 DEF vars, ioVars, chatVars, RoomInv, RoomViewAgrees, FreshOutside,
          Fresh
<1>2. ASSUME NEW s \in Sockets, ClientConnects(s) PROVE RoomInv'
  BY <1>2 DEF ClientConnects, Connect, AddressFree, AcceptPacket, RoomInv,
           RoomViewAgrees, FreshOutside, Fresh
<1>3. ASSUME NEW s \in Sockets, PeerClose(s) \/ PeerReset(s) \/ RecvData(s) \/ RecvEnd(s),
            UNCHANGED chatVars
     PROVE  RoomInv'
  BY <1>3 DEF PeerClose, PeerReset, RecvData, RecvEnd, CompleteRecv, RecvPacket,
           chatVars, RoomInv, RoomViewAgrees, FreshOutside, Fresh
<1>4. ASSUME NEW w \in Workers, ChatWorker(w) PROVE RoomInv'
  <2>1. ASSUME NEW p \in port, Dequeue(w, p), UNCHANGED chatVars PROVE RoomInv'
    BY <2>1 DEF Dequeue, chatVars, RoomInv, RoomViewAgrees, FreshOutside, Fresh
  <2>2. ASSUME AcceptSession(w), UNCHANGED chatVars PROVE RoomInv'
    BY <2>2 DEF AcceptSession, chatVars, RoomInv, RoomViewAgrees, FreshOutside,
             Fresh
  <2>3. ASSUME AcceptUnlock(w) \/ PostRecv(w) \/ PostAccept(w),
              UNCHANGED chatVars
       PROVE  RoomInv'
    BY <2>3 DEF AcceptUnlock, PostRecv, PostAccept, chatVars, RoomInv,
             RoomViewAgrees, FreshOutside, Fresh
  <2>4. ASSUME RecvLock(w) \/ DisconnectLookup(w),
              UNCHANGED chatVars
       PROVE  RoomInv'
    BY <2>4 DEF RecvLock, DisconnectLookup, chatVars, RoomInv, RoomViewAgrees,
             FreshOutside, Fresh
  <2>5. ASSUME Crash, UNCHANGED chatVars PROVE RoomInv'
    BY <2>5 DEF Crash, chatVars, RoomInv, RoomViewAgrees, FreshOutside, Fresh
  <2>6. ASSUME NEW u \in Usernames, Login(w, u) PROVE RoomInv'
    BY <2>6 DEF Login, RemoteEndpoint, Handling, Key, ioVars, RoomInv,
             RoomViewAgrees, FreshOutside, Fresh
  <2>7. ASSUME GetList(w) \/ (\E k \in Key : SendPrivate(w, k)) 
                \/ (\E r \in Rooms : SendRoom(w, r))
       PROVE  RoomInv'
    BY <2>7 DEF GetList, SendPrivate, SendRoom, Posted, Handling, ioVars,
             RoomInv, RoomViewAgrees, FreshOutside, Fresh
  <2>8. ASSUME NEW r \in Rooms, CreateRoom(w, r) PROVE RoomInv'
    BY <2>8 DEF CreateRoom, Handling, ioVars, RoomInv, RoomViewAgrees,
             FreshOutside, Fresh
  <2>9. ASSUME NEW r \in Rooms, EnterRoom(w, r) PROVE RoomInv'
    BY <2>9 DEF EnterRoom, UserOf, Handling, ioVars, RoomInv, RoomViewAgrees,
             FreshOutside, Fresh
  <2>10. ASSUME NEW r \in Rooms, LeaveRoom(w, r) PROVE RoomInv'
    BY <2>10 DEF LeaveRoom, UserOf, Handling, ioVars, RoomInv, RoomViewAgrees,
             FreshOutside, Fresh
  <2>11. CASE EndDispatch(w)
    BY <2>11 DEF EndDispatch, RecvUnlock, RoomInv, RoomViewAgrees, FreshOutside,
             Fresh
  <2>12. CASE EraseUser(w)
    BY <2>12 DEF EraseUser, DisconnectErase, RoomInv, RoomViewAgrees,
             FreshOutside, Fresh
  <2>13. CASE EndSession(w)
    BY <2>13 DEF EndSession, DisconnectExit, RoomInv, RoomViewAgrees,
             FreshOutside, Fresh
  <2>14. CASE NullUser(w)
    BY <2>14, <2>5 DEF NullUser, HandlerCrash
  <2>15. CASE EngineStep(w)
    BY <2>15, <2>1, <2>2, <2>3, <2>4, <2>5
    DEF EngineStep, PostRecvThrows, PostAcceptThrows, LookupRaces
  <2> QED
    BY <1>4, <2>1, <2>2, <2>3, <2>4, <2>5, <2>6, <2>7, <2>8, <2>9, <2>10, <2>11,
       <2>12, <2>13, <2>14, <2>15
    DEF ChatWorker, Handler
<1> QED BY <1>1, <1>2, <1>3, <1>4 DEF ChatNext, ChatNetwork

\* RoomInv is an invariant when names cannot clash.
LEMMA RoomInvariant == ASSUME NoClash PROVE ChatSpec => []RoomInv
<1>1. ChatInit => RoomInv
  BY IoAssumption, ChatAssumption
  DEF ChatInit, IoInit, RoomInv, RoomViewAgrees, FreshOutside, SessionHeld
<1>2. Typed /\ IoInv /\ ChatInv /\ RegistryInv /\ RoomInv /\ [ChatNext]_vars => RoomInv'
  BY NoClash, RoomStep
<1> QED BY <1>1, <1>2, ChatEngine, ChatInvariant, RegistryInvariant, PTL DEF ChatSpec

\* The members of a room that are online are those whose client is in it.
THEOREM RoomViewCorrect == ASSUME NoClash PROVE ChatSpec => []RoomViewAgrees
BY RoomInvariant, PTL DEF RoomInv

\* No room message is posted to a client that is online and not in the room.
THEOREM RoomIsolationCorrect == ASSUME NoClash PROVE ChatSpec => RoomIsolation
<1>1. ChatInv /\ RoomInv /\ [ChatNext]_vars =>
        [\A w \in Workers, r \in Rooms :
           SendRoom(w, r) => \A t \in posted' : t \in active => place[t] = r]_vars
  BY DEF ChatInv, ChatTypeOK, RoomInv, RoomViewAgrees, SendRoom, Posted
<1> QED BY <1>1, ChatInvariant, RoomInvariant, PTL DEF ChatSpec, RoomIsolation

-----------------------------------------------------------------------------
(* The directory, when names cannot clash. *)

DirectoryInv == Typed /\ IoInv /\ ChatInv /\ RegistryInv /\ RoomInv /\ PostedInDispatch

LEMMA PostedStep ==
  ASSUME PostedInDispatch, [ChatNext]_vars, Typed
  PROVE  PostedInDispatch'
<1> USE DEF Typed, IoTypeOK, PostedInDispatch
<1>1. CASE UNCHANGED vars \/ ChatNetwork
  <2>1. UNCHANGED <<pc, posted>>
    BY <1>1 DEF vars, ioVars, chatVars, ChatNetwork, ClientConnects, Connect, PeerClose,
             PeerReset, RecvData, RecvEnd, CompleteRecv
  <2> QED BY <2>1
<1>2. ASSUME NEW w \in Workers, ChatWorker(w) PROVE PostedInDispatch'
  <2>1. CASE Handler(w)
    <3>1. pc[w] = "dispatch" /\ UNCHANGED pc
      BY <2>1 DEF Handler, Login, GetList, SendPrivate, SendRoom, CreateRoom, EnterRoom,
               LeaveRoom, Handling, ioVars
    <3> QED BY <3>1
  <2>2. CASE EndDispatch(w)
    BY <2>2 DEF EndDispatch
  <2>3. CASE NullUser(w)
    BY <2>3 DEF NullUser, HandlerCrash, Crash, chatVars
  <2>4. CASE EngineStep(w) \/ EraseUser(w) \/ EndSession(w)
    <3>1. UNCHANGED posted
      BY <2>4 DEF EngineStep, EraseUser, EndSession, chatVars
    <3>2. \A v \in Workers : pc[v] = "dispatch" => pc'[v] = "dispatch"
      BY <2>4 DEF EngineStep, EraseUser, EndSession, Dequeue, AcceptSession, AcceptUnlock,
               PostRecv, PostRecvThrows, PostAccept, PostAcceptThrows, RecvLock,
               DisconnectLookup, LookupRaces, DisconnectErase, DisconnectExit, Crash,
               Goto, NextIteration
    <3> QED BY <3>1, <3>2
  <2> QED BY <1>2, <2>1, <2>2, <2>3, <2>4 DEF ChatWorker
<1> QED BY <1>1, <1>2 DEF ChatNext

LEMMA DirectoryInvariant == ASSUME NoClash PROVE ChatSpec => []DirectoryInv
<1>1. ChatInit => PostedInDispatch
  BY DEF ChatInit, PostedInDispatch
<1>2. PostedInDispatch /\ [ChatNext]_vars /\ Typed => PostedInDispatch'
  BY PostedStep
<1> QED
  BY <1>1, <1>2, ChatEngine, ChatInvariant, RegistryInvariant, RoomInvariant, PTL
  DEF ChatSpec, DirectoryInv

\* A session with a name is the user of that name, and nobody else's.
LEMMA NameIsUser ==
  ASSUME DirectoryInv, NEW s \in Sockets, socket2Name[s] # None
  PROVE  /\ socket2Name[s] \in Key /\ socket2Name[s] \in Online
         /\ loginUsers[socket2Name[s]] = s /\ UserOf(s) = s
         /\ s \in active /\ place[s] # "new"
         /\ \A t \in Sockets : socket2Name[t] = socket2Name[s] => t = s
         /\ \A S \in SUBSET Sockets : socket2Name[s] \in Named(S) <=> s \in S
<1> USE DEF DirectoryInv
<1>1. socket2Name[s] \in Key
  BY DEF ChatInv, ChatTypeOK
<1>2. loginUsers[socket2Name[s]] = s
  BY <1>1 DEF RegistryInv, RegistryConsistent
<1>3. s # None
  BY IoAssumption
<1>4. \A t \in Sockets : socket2Name[t] = socket2Name[s] => t = s
  BY <1>1, <1>2 DEF RegistryInv, RegistryConsistent
<1>5. \A S \in SUBSET Sockets : socket2Name[s] \in Named(S) <=> s \in S
  BY <1>4 DEF Named
<1>6. s \in active /\ place[s] # "new"
  BY DEF ChatInv, NamesOfSessions
<1> QED BY <1>1, <1>2, <1>3, <1>4, <1>5, <1>6 DEF Online, UserOf

\* The sender of a message behind the login, as the directory sees it.
LEMMA SenderIsUser ==
  ASSUME DirectoryInv, NEW w \in Workers, NEW s \in Sockets, NEW p, Handling(w, s, p), p # "new"
  PROVE  /\ s \in active /\ socket2Name[s] # None
         /\ p = "menu" => Directory!Outside(socket2Name[s])
         /\ p \in Rooms => socket2Name[s] \in InRoom[p]
<1> USE DEF DirectoryInv
<1>1. s \in active
  BY DEF Handling, IoInv, RecvOwnsSession, ReceivePcs
<1>2. socket2Name[s] # None
  BY <1>1 DEF Handling, RoomInv
<1>3. \A r \in Rooms : members[r] \in SUBSET Sockets
  BY DEF ChatInv, ChatTypeOK
<1>4. \A r \in Rooms : socket2Name[s] \in InRoom[r] <=> place[s] = r
  <2>1. \A r \in Rooms : socket2Name[s] \in InRoom[r] <=> s \in members[r]
    BY <1>2, <1>3, NameIsUser DEF InRoom
  <2> QED BY <1>1, <2>1 DEF RoomInv, RoomViewAgrees
<1>5. "menu" \notin Rooms
  BY ChatAssumption
<1> QED BY <1>1, <1>2, <1>4, <1>5, NameIsUser DEF Handling, Directory!Outside

LEMMA LoginRefines ==
  ASSUME NoClash, DirectoryInv, NEW w \in Workers, NEW u \in Usernames, Login(w, u)
  PROVE  Directory!Next
<1> USE DEF DirectoryInv
<1>1. PICK s \in Sockets :
        /\ Handling(w, s, "new")
        /\ \E e \in RemoteEndpoint(s) :
             /\ loginUsers' = [loginUsers EXCEPT ![<<u, e>>] = s]
             /\ socket2Name' = [socket2Name EXCEPT ![s] = <<u, e>>]
        /\ posted' = {} /\ UNCHANGED <<rooms, members>>
  BY DEF Login
<1> DEFINE k == <<u, endpoint[s]>>
<1>2. RemoteEndpoint(s) = {endpoint[s]}
  BY DEF NoClash, RemoteEndpoint
<1>3. handle[s] = "connected"
  BY <1>1 DEF Handling, IoInv, RecvOwnsSession, ReceivePcs
<1>4. endpoint[s] \in Endpoints /\ k \in Key
  BY <1>3 DEF ChatInv, ChatTypeOK, EndpointKnown, Key
<1>5. socket2Name[s] = None
  BY <1>1, NameIsUser DEF Handling
<1>6. k \notin Online
  <2> SUFFICES ASSUME loginUsers[k] # None PROVE FALSE
    BY DEF Online
  <2>1. loginUsers[k] \in Sockets
    BY <1>4 DEF ChatInv, ChatTypeOK
  <2>2. socket2Name[loginUsers[k]] = k
    BY <1>4, <2>1 DEF RegistryInv, RegistryConsistent
  <2>3. endpoint[loginUsers[k]] = endpoint[s]
    BY <1>4, <2>1, <2>2, ChatAssumption DEF RegistryInv, RegistryConsistent
  <2>4. loginUsers[k] = s
    <3>1. loginUsers[k] \in active
      BY <1>4, <2>1, <2>2, ChatAssumption DEF RegistryInv, RegistryConsistent
    <3>2. s \in active
      BY <1>1 DEF Handling, IoInv, RecvOwnsSession, ReceivePcs
    <3> QED BY <1>4, <2>1, <2>3, <3>1, <3>2, ChatAssumption DEF RegistryInv, EndpointsDistinct, Forgotten
  <2> QED BY <1>4, <1>5, <2>2, <2>4, ChatAssumption
<1>7. /\ loginUsers' = [loginUsers EXCEPT ![k] = s]
      /\ socket2Name' = [socket2Name EXCEPT ![s] = k]
  BY <1>1, <1>2
<1> HIDE DEF k
<1>8. loginUsers \in [Key -> Sockets \cup {None}] /\ socket2Name \in [Sockets -> Key \cup {None}]
      /\ members \in [Rooms -> SUBSET Sockets]
  BY DEF ChatInv, ChatTypeOK
<1>9. Online' = Online \cup {k}
  BY <1>4, <1>7, <1>8, IoAssumption DEF Online
<1>10. InRoom' = InRoom
  <2>1. \A r \in Rooms : s \notin members[r]
    <3>1. s \in active /\ "new" \notin Rooms /\ place[s] = "new"
      BY <1>1, ChatAssumption DEF Handling, IoInv, RecvOwnsSession, ReceivePcs
    <3> QED BY <3>1 DEF RoomInv, RoomViewAgrees
  <2>2. \A r \in Rooms : \A t \in members[r] : t \in Sockets /\ socket2Name'[t] = socket2Name[t]
    BY <1>7, <1>8, <2>1
  <2>3. members' = members
    BY <1>1
  <2>4. \A r \in Rooms : Named(members[r])' = Named(members[r])
    BY <2>2, <2>3 DEF Named
  <2> QED BY <2>4 DEF InRoom
<1>11. Heard' = {}
  BY <1>1 DEF Heard, Named
<1> QED BY <1>1, <1>4, <1>6, <1>9, <1>10, <1>11 DEF Directory!Next, Directory!Login

\* Requests and messages change nothing but who hears.
LEMMA MessageRefines ==
  ASSUME DirectoryInv, NEW w \in Workers,
         GetList(w) \/ (\E k \in Key : SendPrivate(w, k)) \/ (\E r \in Rooms : SendRoom(w, r))
  PROVE  Directory!Next
<1> USE DEF DirectoryInv
<1>1. UNCHANGED <<Online, rooms, InRoom>> /\ UNCHANGED socket2Name
  <2>1. UNCHANGED <<loginUsers, socket2Name, rooms, members>>
    BY DEF GetList, SendPrivate, SendRoom
  <2> QED BY <2>1 DEF Online, InRoom, Named
<1>2. CASE GetList(w)
  <2>1. PICK s \in Sockets : Handling(w, s, "menu") /\ posted' \subseteq {s}
    BY <1>2 DEF GetList, Posted
  <2>2. Directory!Outside(socket2Name[s]) /\ socket2Name[s] \in Key
    BY <2>1, SenderIsUser, NameIsUser
  <2>3. Heard' \subseteq {socket2Name[s]}
    BY <1>1, <2>1 DEF Heard, Named
  <2> QED BY <1>1, <2>2, <2>3 DEF Directory!Next, Directory!Ask
<1>3. ASSUME NEW k \in Key, SendPrivate(w, k) PROVE Directory!Next
  <2>1. PICK s \in Sockets : Handling(w, s, "menu") /\ posted' \subseteq {loginUsers[k]} \ {None}
    BY <1>3 DEF SendPrivate, Posted
  <2>2. Directory!Outside(socket2Name[s]) /\ socket2Name[s] \in Key
    BY <2>1, SenderIsUser, NameIsUser
  <2>3. \A t \in posted' : t \in Sockets /\ socket2Name[t] = k /\ k \in Online
    BY <2>1 DEF ChatInv, ChatTypeOK, RegistryInv, RegistryConsistent, Online
  <2>4. Heard' \subseteq {k} \cap Online
    BY <1>1, <2>3 DEF Heard, Named
  <2> QED BY <1>1, <2>2, <2>4 DEF Directory!Next, Directory!Tell
<1>4. ASSUME NEW r \in Rooms, SendRoom(w, r) PROVE Directory!Next
  <2>1. PICK s \in Sockets : Handling(w, s, r) /\ posted' \subseteq members[r]
    BY <1>4 DEF SendRoom, Posted
  <2>2. socket2Name[s] \in InRoom[r] /\ socket2Name[s] \in Key
    BY <2>1, SenderIsUser, NameIsUser, ChatAssumption
  <2>3. Heard' \subseteq InRoom[r]
    BY <1>1, <2>1 DEF Heard, InRoom, Named
  <2> QED BY <1>1, <2>2, <2>3 DEF Directory!Next, Directory!TellRoom
<1> QED BY <1>2, <1>3, <1>4

LEMMA RoomsRefine ==
  ASSUME DirectoryInv, NEW w \in Workers, NEW r \in Rooms,
         CreateRoom(w, r) \/ EnterRoom(w, r) \/ LeaveRoom(w, r)
  PROVE  Directory!Next
<1> USE DEF DirectoryInv
<1>1. UNCHANGED <<loginUsers, socket2Name>> /\ posted' = {}
  BY DEF CreateRoom, EnterRoom, LeaveRoom
<1>2. Online' = Online /\ Heard' = {}
  BY <1>1 DEF Online, Heard, Named
<1>4. members \in [Rooms -> SUBSET Sockets]
  BY DEF ChatInv, ChatTypeOK
<1>5. CASE CreateRoom(w, r)
  <2>1. PICK s \in Sockets : Handling(w, s, "menu")
    BY <1>5 DEF CreateRoom
  <2>2. Directory!Outside(socket2Name[s]) /\ socket2Name[s] \in Key
    BY <2>1, SenderIsUser, NameIsUser
  <2>3. InRoom' = InRoom /\ rooms' = rooms \cup {r}
    BY <1>1, <1>5 DEF CreateRoom, InRoom, Named
  <2> QED BY <1>2, <2>2, <2>3 DEF Directory!Next, Directory!Create
<1>6. CASE EnterRoom(w, r)
  <2>1. PICK s \in Sockets : /\ Handling(w, s, "menu") /\ r \in rooms
                             /\ members' = [members EXCEPT ![r] = @ \cup {UserOf(s)}]
                             /\ rooms' = rooms
    BY <1>6 DEF EnterRoom
  <2>2. /\ Directory!Outside(socket2Name[s]) /\ socket2Name[s] \in Key /\ UserOf(s) = s
        /\ socket2Name[s] # None
    BY <2>1, SenderIsUser, NameIsUser
  <2>3. members' = [members EXCEPT ![r] = @ \cup {s}]
    BY <2>1, <2>2
  <2>4. Named(members[r] \cup {s}) = Named(members[r]) \cup {socket2Name[s]}
    BY <2>2 DEF Named
  <2>5. InRoom' = [InRoom EXCEPT ![r] = @ \cup {socket2Name[s]}]
    <3>1. ASSUME NEW q \in Rooms
          PROVE  InRoom'[q] = IF q = r THEN InRoom[q] \cup {socket2Name[s]} ELSE InRoom[q]
      BY <1>1, <1>4, <2>3, <2>4 DEF InRoom, Named
    <3> QED BY <3>1 DEF InRoom
  <2> QED BY <1>2, <2>1, <2>2, <2>5 DEF Directory!Next, Directory!Enter
<1>7. CASE LeaveRoom(w, r)
  <2>1. PICK s \in Sockets : /\ Handling(w, s, r)
                             /\ members' = [members EXCEPT ![r] = @ \ {UserOf(s)}]
                             /\ rooms' = rooms
    BY <1>7 DEF LeaveRoom
  <2>2. /\ socket2Name[s] \in InRoom[r] /\ socket2Name[s] \in Key /\ UserOf(s) = s
        /\ socket2Name[s] # None
        /\ \A t \in Sockets : socket2Name[t] = socket2Name[s] => t = s
    BY <2>1, SenderIsUser, NameIsUser, ChatAssumption
  <2>3. members' = [members EXCEPT ![r] = @ \ {s}]
    BY <2>1, <2>2
  <2>4. Named(members[r] \ {s}) = Named(members[r]) \ {socket2Name[s]}
    BY <1>4, <2>2 DEF Named
  <2>5. InRoom' = [InRoom EXCEPT ![r] = @ \ {socket2Name[s]}]
    <3>1. ASSUME NEW q \in Rooms
          PROVE  InRoom'[q] = IF q = r THEN InRoom[q] \ {socket2Name[s]} ELSE InRoom[q]
      BY <1>1, <1>4, <2>3, <2>4 DEF InRoom, Named
    <3> QED BY <3>1 DEF InRoom
  <2> QED BY <1>2, <2>1, <2>2, <2>5 DEF Directory!Next, Directory!Leave
<1> QED BY <1>5, <1>6, <1>7

\* handle_dis_connect takes its own user away, from the list and from the rooms.
LEMMA EraseRefines ==
  ASSUME DirectoryInv, NEW w \in Workers, EraseUser(w)
  PROVE  [Directory!Next]_<<Online, rooms, InRoom, Heard>>
<1> USE DEF DirectoryInv
<1> DEFINE s == sock[w]
           k == socket2Name[s]
<1>1. /\ s \in Sockets /\ pc[w] = "erase" /\ mutex = None
      /\ loginUsers' = IF k = None THEN loginUsers ELSE [loginUsers EXCEPT ![k] = None]
      /\ socket2Name' = [socket2Name EXCEPT ![s] = None]
      /\ UNCHANGED <<rooms, members, posted>>
  BY DEF EraseUser, DisconnectErase, Lock, IoInv, HoldsCompletion, Typed, IoTypeOK
<1>2. posted = {}
  BY <1>1, IoAssumption DEF PostedInDispatch, IoInv, MutexInv
<1>3. Heard' = Heard
  BY <1>1, <1>2 DEF Heard, Named
<1> HIDE DEF s, k
<1>4. /\ members \in [Rooms -> SUBSET Sockets] /\ loginUsers \in [Key -> Sockets \cup {None}]
      /\ socket2Name \in [Sockets -> Key \cup {None}]
  BY DEF ChatInv, ChatTypeOK
<1>5. CASE k = None
  <2>1. loginUsers' = loginUsers /\ socket2Name' = socket2Name
    BY <1>1, <1>4, <1>5 DEF k
  <2> QED BY <1>1, <1>3, <2>1 DEF Online, InRoom, Named
<1>6. CASE k # None
  <2>1. /\ k \in Key /\ k \in Online
        /\ \A t \in Sockets : socket2Name[t] = k => t = s
    BY <1>1, <1>6, NameIsUser DEF k
  <2>2. Online' = Online \ {k}
    BY <1>1, <1>4, <1>6, <2>1 DEF Online
  <2>3. ASSUME NEW r \in Rooms PROVE Named(members[r])' = Named(members[r]) \ {k}
    <3>1. \A t \in members[r] : socket2Name'[t] = IF t = s THEN None ELSE socket2Name[t]
      BY <1>1, <1>4
    <3>2. \A t \in members[r] : t # s <=> socket2Name[t] # k
      BY <1>4, <2>1 DEF k
    <3> QED BY <1>1, <3>1, <3>2 DEF Named
  <2>4. InRoom' = [r \in Rooms |-> InRoom[r] \ {k}]
    BY <2>3 DEF InRoom
  <2> QED BY <1>1, <1>3, <2>1, <2>2, <2>4 DEF Directory!Next, Directory!Logout
<1> QED BY <1>5, <1>6

LEMMA DirectoryStep ==
  ASSUME NoClash, DirectoryInv, [ChatNext]_vars
  PROVE  [Directory!Next]_<<Online, rooms, InRoom, Heard>>
<1>1. ASSUME UNCHANGED <<loginUsers, socket2Name, rooms, members, posted>>
      PROVE  UNCHANGED <<Online, rooms, InRoom, Heard>>
  BY <1>1 DEF Online, InRoom, Heard, Named
<1>2. CASE UNCHANGED vars \/ ChatNetwork
  <2>1. UNCHANGED <<loginUsers, socket2Name, rooms, members, posted>>
    BY <1>2 DEF vars, chatVars, ChatNetwork, ClientConnects
  <2> QED BY <1>1, <2>1
<1>3. ASSUME NEW w \in Workers, ChatWorker(w)
      PROVE  [Directory!Next]_<<Online, rooms, InRoom, Heard>>
  <2>1. CASE Handler(w)
    BY <2>1, LoginRefines, MessageRefines, RoomsRefine DEF Handler
  <2>2. CASE EngineStep(w) \/ NullUser(w) \/ EndSession(w)
    <3>1. UNCHANGED <<loginUsers, socket2Name, rooms, members, posted>>
      BY <2>2 DEF EngineStep, NullUser, EndSession, chatVars
    <3> QED BY <1>1, <3>1
  <2>3. CASE EndDispatch(w)
    <3>1. UNCHANGED <<Online, rooms, InRoom>> /\ Heard' = {}
      BY <2>3 DEF EndDispatch, Online, InRoom, Heard, Named
    <3> QED BY <3>1 DEF Directory!Next, Directory!Quiet
  <2>4. CASE EraseUser(w)
    BY <2>4, EraseRefines
  <2> QED BY <1>3, <2>1, <2>2, <2>3, <2>4 DEF ChatWorker
<1> QED BY <1>2, <1>3 DEF ChatNext

\* Names are nobody else's, a disconnection takes one user from everywhere at
\* once, and messages stay with those they are for: the service implements
\* ChatDirectory.
THEOREM DirectoryImplemented == ASSUME NoClash PROVE ChatSpec => DirectorySpec
<1>1. ChatInit => Directory!Init
  <2> SUFFICES ASSUME ChatInit PROVE Directory!Init
    OBVIOUS
  <2>1. Online = {}
    BY DEF ChatInit, Online
  <2>2. Heard = {}
    BY DEF ChatInit, Heard, Named
  <2>3. InRoom = [r \in Rooms |-> {}]
    BY DEF ChatInit, InRoom, Named
  <2> QED BY <2>1, <2>2, <2>3 DEF ChatInit, Directory!Init
<1>2. DirectoryInv /\ [ChatNext]_vars => [Directory!Next]_<<Online, rooms, InRoom, Heard>>
  BY NoClash, DirectoryStep
<1> QED
  BY <1>1, <1>2, DirectoryInvariant, PTL
  DEF ChatSpec, DirectorySpec, Directory!Spec, Directory!vars
=============================================================================
