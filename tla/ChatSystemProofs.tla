--------------------------- MODULE ChatSystemProofs ---------------------------
(***************************************************************************)
(* Proofs about ChatSystem, for any number of workers, handles and rooms,   *)
(* any number of messages under way and whatever fails.  The system refines *)
(* ChatServer, so that the invariants proved there hold here; with them the *)
(* assumptions that the two sides make about each other are shown to hold.  *)
(***************************************************************************)
EXTENDS ChatSystem, ChatServerProofs, SequenceTheorems

\* The first message of a queue, and what is left.
LEMMA QueueParts ==
  ASSUME NEW S, NEW q \in Seq(S), q # <<>>
  PROVE  /\ Len(q) \in Nat \ {0} /\ Head(q) = q[1] /\ Head(q) \in S
         /\ Tail(q) \in Seq(S) /\ Len(Tail(q)) = Len(q) - 1
         /\ \A i \in 1 .. Len(q) - 1 : Tail(q)[i] = q[i + 1]
PROOF
  OBVIOUS

\* A queue with one more message at its end.
LEMMA QueueAppended ==
  ASSUME NEW S, NEW q \in Seq(S), NEW m \in S
  PROVE  /\ Append(q, m) \in Seq(S) /\ Len(Append(q, m)) = Len(q) + 1
         /\ \A i \in 1 .. Len(q) : Append(q, m)[i] = q[i]
         /\ Append(q, m)[Len(q) + 1] = m
PROOF
  OBVIOUS

LEMMA EmptyQueue ==
  ASSUME NEW S, NEW q \in Seq(S)
  PROVE  q = <<>> <=> Len(q) = 0
PROOF
  BY EmptySeq

\* What a message is named after.
LEMMA MessageNames ==
  ASSUME NEW m \in Messages
  PROVE  /\ m.type = "login" => m.name \in Usernames
         /\ m.type = "send_someone" => m.name \in Key
         /\ m.type \in {"create_room", "enter_room", "send_room", "leave_room"}
              => m.name \in Rooms
PROOF
  BY DEF Messages, Requests

-----------------------------------------------------------------------------
(* The system implements the chat service. *)

\* Every step of the system is one of ChatServer, or none of its business.
LEMMA SystemStepIsChatStep ==
  ASSUME SysTypeOK, [SysNext]_sysVars
  PROVE  [ChatNext]_vars
PROOF
  <1>1. CASE UNCHANGED sysVars
    BY <1>1 DEF sysVars
  <1>2. ASSUME NEW s \in Sockets, Connection(s) \/ Hangup(s) PROVE ChatNext
    BY <1>2 DEF Connection, Hangup, ChatNext, ChatNetwork
  <1>3. ASSUME NEW s \in Sockets, Client(s) PROVE UNCHANGED vars
    BY <1>3 DEF Client, SayLogin, AskUsers, AskRooms, BackToMenu, Receive, Take,
                SayPrivate, SayCreate, SayEnter, SayRoom, SayLeave, Say
  <1>4. ASSUME NEW w \in Workers, Engine(w) PROVE ChatNext
    BY <1>4 DEF Engine, ChatNext, ChatWorker
  <1>5. ASSUME NEW w \in Workers, NEW s \in Sockets, ServeNull(w, s) PROVE ChatNext
    BY <1>5 DEF ServeNull, ChatNext, ChatWorker
  <1>6. ASSUME NEW w \in Workers, NEW s \in Sockets, Serve(w, s) PROVE ChatNext
    <2> DEFINE m == Head(toServer[s])
    <2>1. m \in Messages
      <3>1. toServer[s] \in Seq(Messages) /\ toServer[s] # <<>>
        BY <1>6 DEF Serve, SysTypeOK
      <3> QED
        BY <3>1, QueueParts
    <2>2. Handles(w, m)
      BY <1>6 DEF Serve
    <2> HIDE DEF m
    <2>3. Handler(w)
      BY <2>1, <2>2, MessageNames DEF Handles, Handler
    <2> QED
      BY <2>3 DEF ChatNext, ChatWorker
  <1> QED
    BY <1>1, <1>2, <1>3, <1>4, <1>5, <1>6 DEF SysNext

\* The types of the queues, and what ChatServer's proofs know.
Known == SysTypeOK /\ Typed /\ IoInv /\ ChatInv

LEMMA SystemTypes ==
  ASSUME Known, [SysNext]_sysVars
  PROVE  SysTypeOK'
PROOF
  <1> USE DEF SysTypeOK, Known
  <1>1. CASE UNCHANGED sysVars
    BY <1>1 DEF sysVars, clientVars
  <1>2. ASSUME NEW s \in Sockets, Connection(s) \/ Hangup(s) PROVE SysTypeOK'
    <2>1. <<>> \in Seq(Messages) /\ <<>> \in Seq(Frames)
      OBVIOUS
    <2> DEFINE none == <<>>
    <2> HIDE DEF none
    <2>2. CASE Connection(s)
      <3>1. toServer' = toServer \/ toServer' = [toServer EXCEPT ![s] = none]
        BY <2>2 DEF Connection, none
      <3> QED
        BY <2>1, <2>2, <3>1 DEF Connection, none
    <2>3. CASE Hangup(s)
      <3>1. /\ toClient' = [toClient EXCEPT ![s] = none] /\ none \in Seq(Frames)
            /\ client' = [client EXCEPT ![s] = "login"]
            /\ room_list' = [room_list EXCEPT ![s] = {}]
            /\ toServer' = toServer
        BY <2>1, <2>3 DEF Hangup, none
      <3> QED
        BY <3>1
    <2> QED
      BY <1>2, <2>2, <2>3
  <1>3. ASSUME NEW s \in Sockets, Client(s) PROVE SysTypeOK'
    <2>1. ASSUME NEW type, NEW name, Message(type, name) \in Messages, Say(s, type, name)
          PROVE  toServer' \in [Sockets -> Seq(Messages)]
      BY <2>1, QueueAppended DEF Say
    <2>2. ASSUME NEW label \in {"login"} \cup Menu \cup Rooms, Goes(s, label)
          PROVE  /\ client' \in [Sockets -> {"login"} \cup Menu \cup Rooms]
                 /\ room_list' \in [Sockets -> SUBSET Rooms]
      BY <2>2 DEF Goes
    <2>3. CASE \E u \in Usernames : SayLogin(s, u)
      BY <2>3, <2>1, <2>2 DEF SayLogin, Say, Message, Messages, Menu
    <2>4. CASE AskUsers(s) \/ AskRooms(s)
      BY <2>4, <2>1, <2>2 DEF AskUsers, AskRooms, Say, Message, Messages, Menu, Requests
    <2>5. CASE BackToMenu(s)
      BY <2>5, <2>2 DEF BackToMenu, Menu
    <2>6. CASE Receive(s)
      <3>1. toClient[s] \in Seq(Frames) /\ toClient[s] # <<>>
        BY <2>6 DEF Receive, Take
      <3>2. Tail(toClient[s]) \in Seq(Frames) /\ Head(toClient[s]) \in Frames
        BY <3>1, QueueParts
      <3>3. Head(toClient[s]).list \in SUBSET Rooms
        BY <3>2 DEF Frames
      <3> QED
        BY <2>6, <3>2, <3>3 DEF Receive, Take, Woken, Menu
    <2>7. CASE \E k \in Key : SayPrivate(s, k)
      BY <2>7, <2>1 DEF SayPrivate, Say, Message, Messages
    <2>8. CASE \E r \in Rooms : SayCreate(s, r) \/ SayRoom(s, r)
      BY <2>8, <2>1 DEF SayCreate, SayRoom, Say, Message, Messages
    <2>9. CASE \E r \in Rooms : SayEnter(s, r) \/ SayLeave(s, r)
      BY <2>9, <2>1, <2>2 DEF SayEnter, SayLeave, Say, Message, Messages, Menu
    <2> QED
      BY <1>3, <2>3, <2>4, <2>5, <2>6, <2>7, <2>8, <2>9 DEF Client
  <1>4. ASSUME NEW w \in Workers, Engine(w) PROVE SysTypeOK'
    BY <1>4 DEF Engine, clientVars
  <1>5. ASSUME NEW w \in Workers, NEW s \in Sockets, ServeNull(w, s) PROVE SysTypeOK'
    BY <1>5 DEF ServeNull, clientVars
  <1>6. ASSUME NEW w \in Workers, NEW s \in Sockets, Serve(w, s) PROVE SysTypeOK'
    <2>1. toServer[s] \in Seq(Messages) /\ toServer[s] # <<>>
      BY <1>6 DEF Serve
    <2>2. toServer' \in [Sockets -> Seq(Messages)]
      BY <1>6, <2>1, QueueParts DEF Serve
    <2>3. Sends(Head(toServer[s])) \in Frames
      BY DEF Sends, Frame, Frames, Answers, ChatInv, ChatTypeOK
    <2>4. toClient' \in [Sockets -> Seq(Frames)]
      BY <1>6, <2>3, QueueAppended DEF Serve, Delivered
    <2> QED
      BY <1>6, <2>2, <2>4 DEF Serve
  <1> QED
    BY <1>1, <1>2, <1>3, <1>4, <1>5, <1>6 DEF SysNext

LEMMA KnownStep ==
  ASSUME Known, [SysNext]_sysVars
  PROVE  Known' /\ [ChatNext]_vars
PROOF
  <1>1. [ChatNext]_vars
    BY SystemStepIsChatStep DEF Known
  <1>2. [IoNext]_ioVars
    BY <1>1, ChatStepIsIoStep
  <1>3. Typed' /\ IoInv'
    BY <1>2, TypedStep, IoInvStep DEF Known
  <1>4. ChatInv'
    BY <1>1, ChatInvStep DEF Known
  <1> QED
    BY <1>1, <1>3, <1>4, SystemTypes DEF Known

LEMMA SystemInit == SysInit => Known
PROOF
  <1>1. SysInit => SysTypeOK
    BY DEF SysInit, SysTypeOK
  <1>2. ChatInit => Typed /\ IoInv
    BY IoAssumption
       DEF ChatInit, IoInit, Typed, IoTypeOK, PCs, IoInv, MutexInv,
           HoldsCompletion, Arrivals, OneOwner, Owns, RecvOwnsSession,
           ReceivePcs, NoOrphanSession, AcceptChain, Accepting, AcceptPcs
  <1>3. ChatInit => ChatInv
    BY IoAssumption, ChatAssumption
       DEF ChatInit, IoInit, ChatInv, ChatTypeOK, EndpointKnown,
           NamesOfSessions, MembersConnected, Key
  <1> QED
    BY <1>1, <1>2, <1>3 DEF SysInit, Known

LEMMA SystemKnown == SysSpec => []Known
PROOF
  BY SystemInit, KnownStep, PTL DEF SysSpec

\* The chat service does in the system what it does on its own: its theorems
\* hold of the whole system.
THEOREM SystemImplementsChat == SysSpec => ChatSpec
PROOF
  <1>1. SysInit => ChatInit
    BY DEF SysInit
  <1>2. Known /\ [SysNext]_sysVars => [ChatNext]_vars
    BY KnownStep
  <1> QED
    BY <1>1, <1>2, SystemKnown, PTL DEF SysSpec, ChatSpec

-----------------------------------------------------------------------------
(* What holds of connections at their beginning and at their end. *)

\* Nothing is left on a handle that will be given to the next client.
Unused ==
  \A s \in Sockets : handle[s] # "connected" =>
    peer[s] = "none" /\ place[s] = "new" /\ toServer[s] = <<>>

\* A client that has gone reads nothing, and says nothing.
Gone ==
  \A s \in Sockets : peer[s] # "up" => client[s] = "login" /\ toClient[s] = <<>>

\* A connection that the server hears the end of has ended, with nothing to
\* be read from it.
Over(s) == peer[s] \in {"closed", "reset"} /\ toServer[s] = <<>>

Ended ==
  /\ \A p \in port : p.ev = "IO_RECV" /\ p.bytes = 0 => Over(p.sock)
  /\ \A w \in Workers : pc[w] \in DisconnectPcs => Over(sock[w])

ConnInv == Unused /\ Gone /\ Ended

\* Whoever handles a completion of s, or has one queued, is the only one, and
\* the handle is open.
LEMMA OpenHandles ==
  ASSUME Known
  PROVE  /\ \A w \in Workers : pc[w] \in DisconnectPcs \cup ReceivePcs =>
              sock[w] \in Sockets /\ handle[sock[w]] = "connected"
         /\ \A p \in port : p.sock \in Sockets
         /\ \A p \in port : p.ev = "IO_RECV" => handle[p.sock] = "connected"
         /\ \A w, v \in Workers :
              pc[w] \in DisconnectPcs /\ pc[v] \in DisconnectPcs /\ sock[w] = sock[v] => w = v
         /\ \A w \in Workers, p \in port :
              pc[w] \in DisconnectPcs => p.sock # sock[w]
PROOF
  <1>1. /\ \A p \in port : p.sock \in Sockets
        /\ \A w \in Workers : pc[w] \in DisconnectPcs \cup ReceivePcs => sock[w] \in Sockets
    BY IoAssumption
       DEF Known, Typed, IoTypeOK, HoldsCompletion, Packet, DisconnectPcs, ReceivePcs
  <1>2. \A w \in Workers : pc[w] \in DisconnectPcs => Owns(w, sock[w])
    BY DEF Owns, DisconnectPcs
  <1>3. /\ \A w \in Workers : pc[w] \in DisconnectPcs \cup ReceivePcs =>
              handle[sock[w]] = "connected"
        /\ \A p \in port : p.ev = "IO_RECV" => handle[p.sock] = "connected"
    BY DEF Known, IoInv, RecvOwnsSession, Arrivals, DisconnectPcs, ReceivePcs
  <1>4. /\ \A w, v \in Workers :
              pc[w] \in DisconnectPcs /\ pc[v] \in DisconnectPcs /\ sock[w] = sock[v] => w = v
        /\ \A w \in Workers, p \in port :
              pc[w] \in DisconnectPcs => p.sock # sock[w]
    BY <1>1, <1>2 DEF Known, IoInv, OneOwner
  <1> QED
    BY <1>1, <1>3, <1>4

LEMMA ConnectionKeepsConn ==
  ASSUME Known, ConnInv, NEW s \in Sockets, Connection(s)
  PROVE  ConnInv'
PROOF
  <1> USE DEF ConnInv, Known, Typed, IoTypeOK, SysTypeOK
  <1>1. CASE ClientConnects(s) /\ UNCHANGED toServer
    <2>1. handle[s] = "listening" /\ peer' = [peer EXCEPT ![s] = "up"]
      BY <1>1 DEF ClientConnects, Connect
    <2>2. UNCHANGED <<toServer, toClient, client, place, pc, sock>>
      BY <1>1 DEF Connection, ClientConnects, Connect
    <2>3. /\ handle' = [handle EXCEPT ![s] = "connected"]
          /\ port' = port \cup {AcceptPacket(s)}
      BY <1>1 DEF ClientConnects, Connect
    <2>4. Unused' /\ Gone'
      BY <2>1, <2>2, <2>3 DEF Unused, Gone
    <2>5. Ended'
      BY <2>1, <2>2, <2>3, OpenHandles DEF Ended, Over, AcceptPacket, Packet
    <2> QED
      BY <2>4, <2>5
  <1>2. CASE RecvData(s) /\ UNCHANGED <<chatVars, toServer>>
    <2>1. /\ UNCHANGED <<toServer, toClient, client, place, pc, sock, peer, handle>>
          /\ port' = port \cup {RecvPacket(s, 1)}
      BY <1>2 DEF Connection, RecvData, CompleteRecv, chatVars
    <2> QED
      BY <2>1 DEF Unused, Gone, Ended, Over, RecvPacket
  <1>3. CASE RecvEnd(s) /\ toServer' = [toServer EXCEPT ![s] = <<>>] /\ UNCHANGED chatVars
    <2>1. /\ UNCHANGED <<toClient, client, place, pc, sock, peer, handle>>
          /\ port' = port \cup {RecvPacket(s, 0)}
          /\ peer[s] \in {"closed", "reset"}
      BY <1>3 DEF Connection, RecvEnd, CompleteRecv, chatVars
    <2>2. Unused' /\ Gone'
      BY <1>3, <2>1 DEF Unused, Gone
    <2>3. Ended'
      BY <1>3, <2>1 DEF Ended, Over, RecvPacket
    <2> QED
      BY <2>2, <2>3
  <1> QED
    BY <1>1, <1>2, <1>3 DEF Connection

LEMMA HangupKeepsConn ==
  ASSUME Known, ConnInv, NEW s \in Sockets, Hangup(s)
  PROVE  ConnInv'
PROOF
  <1> USE DEF ConnInv, Known, Typed, IoTypeOK, SysTypeOK
  <1>1. /\ UNCHANGED <<toServer, place, pc, sock, port, handle>>
        /\ peer[s] \in {"up", "closed"}
        /\ \/ peer' = [peer EXCEPT ![s] = "closed"]
           \/ peer' = [peer EXCEPT ![s] = "reset"]
        /\ toClient' = [toClient EXCEPT ![s] = <<>>]
        /\ client' = [client EXCEPT ![s] = "login"]
    BY DEF Hangup, PeerClose, PeerReset, chatVars
  <1>2. Unused' /\ Gone'
    BY <1>1 DEF Unused, Gone
  <1>3. Ended'
    BY <1>1, OpenHandles DEF Ended, Over
  <1> QED
    BY <1>2, <1>3

LEMMA ClientKeepsConn ==
  ASSUME Known, ConnInv, NEW s \in Sockets, Client(s)
  PROVE  ConnInv'
PROOF
  <1> USE DEF ConnInv, Known, SysTypeOK
  <1>1. peer[s] = "up" /\ UNCHANGED vars
    BY DEF Client, SayLogin, AskUsers, AskRooms, BackToMenu, Receive, Take,
           SayPrivate, SayCreate, SayEnter, SayRoom, SayLeave, Say, Running
  <1>2. \A t \in Sockets \ {s} :
          toServer'[t] = toServer[t] /\ toClient'[t] = toClient[t] /\ client'[t] = client[t]
    BY DEF Client, SayLogin, AskUsers, AskRooms, BackToMenu, Receive, Take,
           SayPrivate, SayCreate, SayEnter, SayRoom, SayLeave, Say, Goes
  <1>3. Unused' /\ Gone'
    BY <1>1, <1>2 DEF Unused, Gone, vars, ioVars, chatVars
  <1>4. Ended'
    <2>1. \A p \in port : p.sock \in Sockets
      BY DEF Typed, IoTypeOK, Packet
    <2>2. \A w \in Workers : pc[w] \in DisconnectPcs => sock[w] \in Sockets
      BY OpenHandles
    <2> QED
      BY <1>1, <1>2, <2>1, <2>2 DEF Ended, Over, vars, ioVars
  <1> QED
    BY <1>3, <1>4

LEMMA EngineKeepsConn ==
  ASSUME Known, ConnInv, NEW w \in Workers, Engine(w)
  PROVE  ConnInv'
PROOF
  <1> USE DEF ConnInv, Known, Typed, IoTypeOK, SysTypeOK
  <1>1. UNCHANGED <<client, toServer, toClient>>
    BY DEF Engine, clientVars
  <1>2. CASE \E p \in port : Dequeue(w, p) /\ UNCHANGED chatVars
    <2>1. PICK p \in port : Dequeue(w, p) /\ UNCHANGED chatVars
      BY <1>2
    <2>2. p.ev \in {"IO_ACCEPT", "IO_RECV"} /\ p.bytes \in {0, 1}
      BY DEF Packet
    <2>3. UNCHANGED <<peer, handle, place>>
      BY <2>1 DEF Dequeue, chatVars
    <2>4. Unused' /\ Gone'
      BY <1>1, <2>3 DEF Unused, Gone
    <2>5. Ended'
      BY <1>1, <2>1, <2>2, <2>3 DEF Ended, Over, Dequeue, Goto, DisconnectPcs
    <2> QED
      BY <2>4, <2>5
  <1>3. CASE /\ AcceptSession(w) \/ AcceptUnlock(w) \/ PostRecv(w) \/ PostRecvThrows(w)
                \/ PostAcceptThrows(w) \/ RecvLock(w) \/ LookupRaces(w) \/ RecvUnlock(w)
             /\ UNCHANGED place
    <2>1. UNCHANGED <<peer, handle, port>>
      BY <1>3 DEF AcceptSession, AcceptUnlock, PostRecv, PostRecvThrows,
                  PostAcceptThrows, RecvLock, LookupRaces, RecvUnlock, Crash
    <2>2. /\ \A v \in Workers \ {w} : pc'[v] = pc[v] /\ sock'[v] = sock[v]
          /\ pc'[w] \in DisconnectPcs => pc[w] \in DisconnectPcs /\ sock'[w] = sock[w]
      BY <1>3 DEF AcceptSession, AcceptUnlock, PostRecv, PostRecvThrows,
                  PostAcceptThrows, RecvLock, LookupRaces, RecvUnlock, Crash,
                  Goto, NextIteration, DisconnectPcs
    <2>3. Unused' /\ Gone'
      BY <1>1, <1>3, <2>1 DEF Unused, Gone
    <2>4. \A v \in Workers : pc'[v] \in DisconnectPcs =>
            pc[v] \in DisconnectPcs /\ sock'[v] = sock[v]
      BY <2>2
    <2>5. Ended'
      BY <1>1, <2>1, <2>4, OpenHandles DEF Ended, Over
    <2> QED
      BY <2>3, <2>5
  <1>4. CASE PostAccept(w) /\ UNCHANGED chatVars
    <2>1. PICK t \in Sockets : /\ handle[t] = "free"
                               /\ handle' = [handle EXCEPT ![t] = "listening"]
      BY <1>4 DEF PostAccept
    <2>2. UNCHANGED <<peer, port, place>>
      BY <1>4 DEF PostAccept, chatVars
    <2>3. Unused' /\ Gone'
      BY <1>1, <2>1, <2>2 DEF Unused, Gone
    <2>4. Ended'
      BY <1>1, <1>4, <2>2 DEF Ended, Over, PostAccept, NextIteration, Goto, DisconnectPcs
    <2> QED
      BY <2>3, <2>4
  <1>5. CASE (DisconnectLookup(w) \/ DisconnectErase(w)) /\ UNCHANGED place
    <2>1. UNCHANGED <<peer, handle, port, sock>> /\ pc[w] \in DisconnectPcs
      BY <1>5 DEF DisconnectLookup, DisconnectErase, DisconnectPcs
    <2>2. \A v \in Workers \ {w} : pc'[v] = pc[v]
      BY <1>5 DEF DisconnectLookup, DisconnectErase, Goto
    <2>3. Unused' /\ Gone'
      BY <1>1, <1>5, <2>1 DEF Unused, Gone
    <2>4. Ended'
      BY <1>1, <2>1, <2>2 DEF Ended, Over
    <2> QED
      BY <2>3, <2>4
  <1>6. CASE EndSession(w)
    <2> DEFINE s == sock[w]
               last == ~SessionHeld(s)
    <2>1. pc[w] = "erase_cs" /\ pc[w] \in DisconnectPcs
      BY <1>6 DEF EndSession, DisconnectExit, DisconnectPcs
    <2>2. s \in Sockets /\ handle[s] = "connected"
      BY <2>1, OpenHandles
    <2>3. peer[s] \in {"closed", "reset"} /\ toServer[s] = <<>>
      BY <2>1 DEF Ended, Over
    <2>4. /\ handle' = IF last THEN [handle EXCEPT ![s] = "free"] ELSE handle
          /\ peer' = IF last THEN [peer EXCEPT ![s] = "none"] ELSE peer
          /\ place' = [place EXCEPT ![s] = "new"]
          /\ port' = port
      BY <1>6 DEF EndSession, DisconnectExit
    <2>5. /\ \A v \in Workers \ {w} : pc'[v] = pc[v] /\ sock'[v] = sock[v]
          /\ pc'[w] = "wait"
      BY <1>6 DEF EndSession, DisconnectExit, NextIteration, Goto
    <2>6. /\ \A v \in Workers \ {w} : pc[v] \in DisconnectPcs => sock[v] # s
          /\ \A p \in port : p.sock # s
      BY <2>1, OpenHandles
    <2>7. place \in [Sockets -> {"new", "menu"} \cup Rooms]
      BY DEF ChatInv, ChatTypeOK
    <2> HIDE DEF s, last
    <2>8. Unused' /\ Gone'
      BY <1>1, <2>2, <2>3, <2>4, <2>7 DEF Unused, Gone
    <2>9. Ended'
      <3>1. \A t \in Sockets \ {s} : peer'[t] = peer[t]
        BY <2>4
      <3>2. \A v \in Workers : pc'[v] \in DisconnectPcs => Over(sock[v])' /\ v # w
        BY <1>1, <2>5, <2>6, <3>1, OpenHandles DEF Ended, Over, DisconnectPcs
      <3>3. \A p \in port : p.ev = "IO_RECV" /\ p.bytes = 0 => Over(p.sock)'
        BY <1>1, <2>6, <3>1, OpenHandles DEF Ended, Over
      <3> QED
        BY <2>4, <2>5, <3>2, <3>3 DEF Ended, Over
    <2> QED
      BY <2>8, <2>9
  <1> QED
    BY <1>2, <1>3, <1>4, <1>5, <1>6
       DEF Engine, EngineStep, EndDispatch, EraseUser, chatVars

\* What a handler may do: it moves its own client through the menu, adds rooms,
\* and posts.
LEMMA HandlerEffects ==
  ASSUME Known, NEW w \in Workers, NEW s \in Sockets, Serve(w, s)
  PROVE  /\ pc[w] = "dispatch" /\ sock[w] = s /\ handle[s] = "connected"
         /\ toServer[s] \in Seq(Messages) /\ toServer[s] # <<>>
         /\ Head(toServer[s]) \in Messages
         /\ toServer' = [toServer EXCEPT ![s] = Tail(@)]
         /\ UNCHANGED <<ioVars, client, room_list>>
         /\ rooms \subseteq rooms'
         /\ \A t \in Sockets \ {s} : place'[t] = place[t]
         /\ place[s] = Before(Head(toServer[s]))
         /\ place'[s] = Leads(Head(toServer[s]))
PROOF
  <1> DEFINE m == Head(toServer[s])
  <1>1. /\ pc[w] = "dispatch" /\ sock[w] = s
        /\ toServer' = [toServer EXCEPT ![s] = Tail(@)]
        /\ UNCHANGED <<client, room_list>>
        /\ Handles(w, m)
    BY DEF Serve
  <1>2. toServer[s] \in Seq(Messages) /\ toServer[s] # <<>>
    BY DEF Serve, Known, SysTypeOK
  <1>3. handle[s] = "connected"
    BY <1>1, OpenHandles DEF ReceivePcs
  <1>4. m \in Messages
    BY <1>2, QueueParts
  <1>5. place \in [Sockets -> {"new", "menu"} \cup Rooms]
    BY DEF Known, ChatInv, ChatTypeOK
  <1> HIDE DEF m
  <1>6. /\ UNCHANGED ioVars
        /\ rooms \subseteq rooms'
        /\ \A t \in Sockets \ {s} : place'[t] = place[t]
        /\ place[s] = Before(m)
        /\ place'[s] = Leads(m)
    BY <1>1, <1>5
       DEF Handles, Login, GetList, SendPrivate, CreateRoom, EnterRoom, SendRoom,
           LeaveRoom, Handling, Before, Leads, Requests
  <1> QED
    BY <1>1, <1>2, <1>3, <1>4, <1>6 DEF m

LEMMA ServeKeepsConn ==
  ASSUME Known, ConnInv, NEW w \in Workers, NEW s \in Sockets, Serve(w, s)
  PROVE  ConnInv'
PROOF
  <1>1. /\ pc[w] = "dispatch" /\ sock[w] = s /\ handle[s] = "connected"
        /\ toServer[s] # <<>>
        /\ toServer' = [toServer EXCEPT ![s] = Tail(@)]
        /\ UNCHANGED <<peer, handle, port, pc, sock, client>>
        /\ \A t \in Sockets \ {s} : place'[t] = place[t]
    BY HandlerEffects DEF ioVars
  <1>2. toServer \in [Sockets -> Seq(Messages)] /\ toClient \in [Sockets -> Seq(Frames)]
    BY DEF Known, SysTypeOK
  <1>3. \A t \in Sockets \ {s} : toServer'[t] = toServer[t]
    BY <1>1, <1>2
  <1>4. \A t \in Sockets : peer[t] # "up" => toClient'[t] = toClient[t]
    BY DEF Serve, Delivered, Receivers
  <1>5. Unused' /\ Gone'
    BY <1>1, <1>3, <1>4 DEF ConnInv, Unused, Gone
  <1>6. Ended'
    BY <1>1, <1>3, OpenHandles DEF ConnInv, Ended, Over
  <1> QED
    BY <1>5, <1>6 DEF ConnInv

LEMMA ConnStep ==
  ASSUME Known, ConnInv, [SysNext]_sysVars
  PROVE  ConnInv'
PROOF
  <1>1. CASE UNCHANGED sysVars
    BY <1>1 DEF sysVars, vars, ioVars, chatVars, clientVars, ConnInv, Unused, Gone,
                Ended, Over
  <1>2. ASSUME NEW w \in Workers, NEW s \in Sockets, ServeNull(w, s) PROVE ConnInv'
    BY <1>2 DEF ServeNull, NullUser, HandlerCrash, Crash, chatVars, clientVars,
                ConnInv, Unused, Gone, Ended, Over
  <1> QED
    BY <1>1, <1>2, ConnectionKeepsConn, HangupKeepsConn, ClientKeepsConn,
       EngineKeepsConn, ServeKeepsConn DEF SysNext

-----------------------------------------------------------------------------
(* The server is behind its clients by just the messages under way. *)

\* What PlaceFollows says of one connection, with the server at p and the
\* client at q.
Follows(p, sent, q) ==
  /\ p = IF sent = <<>> THEN q ELSE Before(sent[1])
  /\ \A i \in 1 .. Len(sent) :
       Leads(sent[i]) = IF i = Len(sent) THEN q ELSE Before(sent[i + 1])

RoomsExist(sent, names) ==
  \A i \in 1 .. Len(sent) : sent[i].type = "enter_room" => sent[i].name \in names

\* One more message, expected where the client was, leads to where it is.
LEMMA FollowsAppend ==
  ASSUME NEW sent \in Seq(Messages), NEW m \in Messages, NEW p, NEW names,
         Follows(p, sent, Before(m)), RoomsExist(sent, names),
         m.type = "enter_room" => m.name \in names
  PROVE  Follows(p, Append(sent, m), Leads(m)) /\ RoomsExist(Append(sent, m), names)
PROOF
  <1> DEFINE longer == Append(sent, m)
  <1>1. /\ Len(longer) = Len(sent) + 1 /\ Len(sent) \in Nat
        /\ \A i \in 1 .. Len(sent) : longer[i] = sent[i]
        /\ longer[Len(sent) + 1] = m
    BY QueueAppended
  <1>0. longer # <<>> /\ (sent = <<>> <=> Len(sent) = 0)
    <2>1. longer \in Seq(Messages)
      BY QueueAppended
    <2> QED
      BY <1>1, <2>1, EmptyQueue
  <1> HIDE DEF longer
  <1>2. p = Before(longer[1])
    BY <1>0, <1>1 DEF Follows
  <1>3. ASSUME NEW i \in 1 .. Len(longer)
        PROVE  Leads(longer[i]) = IF i = Len(longer) THEN Leads(m) ELSE Before(longer[i + 1])
    <2>1. CASE i = Len(sent) + 1
      BY <2>1, <1>1
    <2>2. CASE i = Len(sent)
      BY <2>2, <1>1 DEF Follows
    <2>3. CASE i \in 1 .. Len(sent) - 1
      <3>1. longer[i] = sent[i] /\ longer[i + 1] = sent[i + 1] /\ i # Len(longer)
        BY <2>3, <1>1
      <3> QED
        BY <2>3, <3>1, <1>1 DEF Follows
    <2> QED
      BY <1>1, <2>1, <2>2, <2>3
  <1>4. RoomsExist(longer, names)
    BY <1>1 DEF RoomsExist
  <1> QED
    BY <1>0, <1>1, <1>2, <1>3, <1>4 DEF Follows, longer

\* The first message is handled.
LEMMA FollowsTail ==
  ASSUME NEW sent \in Seq(Messages), sent # <<>>, NEW p, NEW q, NEW names,
         Follows(p, sent, q), RoomsExist(sent, names)
  PROVE  Follows(Leads(Head(sent)), Tail(sent), q) /\ RoomsExist(Tail(sent), names)
PROOF
  <1> DEFINE rest == Tail(sent)
  <1>1. /\ Len(sent) \in Nat \ {0} /\ Head(sent) = sent[1]
        /\ Len(rest) = Len(sent) - 1
        /\ \A i \in 1 .. Len(sent) - 1 : rest[i] = sent[i + 1]
    BY QueueParts
  <1>0. rest = <<>> <=> Len(rest) = 0
    <2>1. rest \in Seq(Messages)
      BY QueueParts
    <2> QED
      BY <2>1, EmptyQueue
  <1> HIDE DEF rest
  <1>2. Leads(Head(sent)) = IF rest = <<>> THEN q ELSE Before(rest[1])
    <2>1. Leads(sent[1]) = IF 1 = Len(sent) THEN q ELSE Before(sent[1 + 1])
      BY <1>1 DEF Follows
    <2> QED
      BY <1>0, <1>1, <2>1
  <1>3. ASSUME NEW i \in 1 .. Len(rest)
        PROVE  Leads(rest[i]) = IF i = Len(rest) THEN q ELSE Before(rest[i + 1])
    <2>1. i + 1 \in 1 .. Len(sent) /\ rest[i] = sent[i + 1]
      BY <1>1
    <2>2. i # Len(rest) => rest[i + 1] = sent[i + 1 + 1]
      BY <1>1
    <2> QED
      BY <1>1, <2>1, <2>2 DEF Follows
  <1>4. RoomsExist(rest, names)
    <2>1. \A i \in 1 .. Len(rest) : i + 1 \in 1 .. Len(sent) /\ rest[i] = sent[i + 1]
      BY <1>1
    <2> QED
      BY <2>1 DEF RoomsExist
  <1> QED
    BY <1>2, <1>3, <1>4 DEF Follows, rest

\* The lists that are shown to a user, and those under way, name rooms that
\* exist.
ListsExist ==
  \A s \in Sockets :
    /\ room_list[s] \subseteq rooms
    /\ \A i \in 1 .. Len(toClient[s]) : toClient[s][i].list \subseteq rooms

\* The steps that change nothing between a client that stays and the server.
Apart(s) ==
  /\ peer'[s] = "up" => peer[s] = "up"
  /\ peer'[s] = "up" => place'[s] = place[s]
  /\ toServer'[s] = toServer[s]
  /\ client'[s] = client[s]

LEMMA PlaceParts ==
  PlaceFollows <=> \A s \in Sockets : peer[s] = "up" =>
    Follows(place[s], toServer[s], PlaceOf(client[s])) /\ RoomsExist(toServer[s], rooms)
PROOF
  BY DEF PlaceFollows, Follows, RoomsExist

LEMMA PlacePartsNext ==
  PlaceFollows' <=> \A s \in Sockets : peer'[s] = "up" =>
    Follows(place'[s], toServer'[s], PlaceOf(client'[s])) /\ RoomsExist(toServer'[s], rooms')
PROOF
  BY DEF PlaceFollows, Follows, RoomsExist

LEMMA ApartKeepsPlace ==
  ASSUME PlaceFollows, NEW s \in Sockets, Apart(s), rooms \subseteq rooms', peer'[s] = "up"
  PROVE  Follows(place'[s], toServer'[s], PlaceOf(client'[s])) /\ RoomsExist(toServer'[s], rooms')
PROOF
  <1>1. Follows(place[s], toServer[s], PlaceOf(client[s])) /\ RoomsExist(toServer[s], rooms)
    BY PlaceParts DEF Apart
  <1>2. RoomsExist(toServer[s], rooms')
    BY <1>1 DEF RoomsExist
  <1> QED
    BY <1>1, <1>2 DEF Apart

\* What an engine step may do: it ends connections that are over.
LEMMA EngineApart ==
  ASSUME Known, ConnInv, NEW w \in Workers, Engine(w)
  PROVE  /\ \A s \in Sockets : Apart(s)
         /\ UNCHANGED <<rooms, room_list, toClient>>
PROOF
  <1> USE DEF Known, Typed, IoTypeOK
  <1>1. UNCHANGED clientVars
    BY DEF Engine
  <1>2. CASE EngineStep(w) \/ EndDispatch(w) \/ EraseUser(w)
    <2>1. UNCHANGED <<peer, place, rooms>>
      BY <1>2 DEF EngineStep, EndDispatch, EraseUser, Dequeue, AcceptSession, AcceptUnlock,
                  PostRecv, PostRecvThrows, PostAccept, PostAcceptThrows, RecvLock,
                  DisconnectLookup, LookupRaces, DisconnectErase, RecvUnlock, Crash, chatVars
    <2> QED
      BY <1>1, <2>1 DEF Apart, clientVars
  <1>3. CASE EndSession(w)
    <2>1. /\ pc[w] = "erase_cs" /\ place' = [place EXCEPT ![sock[w]] = "new"]
          /\ peer' = peer \/ peer' = [peer EXCEPT ![sock[w]] = "none"]
          /\ UNCHANGED rooms
      BY <1>3 DEF EndSession, DisconnectExit
    <2>2. peer[sock[w]] # "up"
      BY <2>1 DEF ConnInv, Ended, Over, DisconnectPcs
    <2>3. place \in [Sockets -> {"new", "menu"} \cup Rooms]
      BY DEF ChatInv, ChatTypeOK
    <2> QED
      BY <1>1, <2>1, <2>2, <2>3 DEF Apart, clientVars
  <1> QED
    BY <1>2, <1>3 DEF Engine

PlaceInv == PlaceFollows /\ ListsExist

LEMMA ConnectionKeepsPlace ==
  ASSUME Known, ConnInv, PlaceInv, NEW s \in Sockets, Connection(s) \/ Hangup(s)
  PROVE  PlaceInv'
PROOF
  <1> USE DEF PlaceInv, Known, Typed, IoTypeOK, SysTypeOK
  <1>1. UNCHANGED <<place, rooms>>
    BY DEF Connection, Hangup, ClientConnects, chatVars
  <1>2. \A t \in Sockets \ {s} : Apart(t)
    BY <1>1 DEF Apart, Connection, Hangup, ClientConnects, Connect, RecvData, RecvEnd,
                CompleteRecv, PeerClose, PeerReset
  <1>3. ASSUME ClientConnects(s) /\ UNCHANGED <<toServer, client>> PROVE PlaceFollows'
    <2>1. handle[s] = "listening"
      BY <1>3 DEF ClientConnects, Connect
    <2>2. place[s] = "new" /\ toServer[s] = <<>> /\ client[s] = "login"
      BY <2>1 DEF ConnInv, Unused, Gone
    <2>3. Follows(place'[s], toServer'[s], PlaceOf(client'[s])) /\ RoomsExist(toServer'[s], rooms')
      BY <1>1, <1>3, <2>2, EmptyQueue DEF Follows, RoomsExist, PlaceOf
    <2> QED
      BY <1>1, <1>2, <2>3, ApartKeepsPlace, PlacePartsNext
  <1>4. ASSUME RecvData(s) /\ UNCHANGED <<toServer, client>> PROVE PlaceFollows'
    <2>1. Apart(s)
      BY <1>1, <1>4 DEF Apart, RecvData, CompleteRecv
    <2> QED
      BY <1>1, <1>2, <2>1, ApartKeepsPlace, PlacePartsNext
  <1>5. ASSUME RecvEnd(s) \/ Hangup(s) PROVE PlaceFollows'
    <2>1. peer'[s] # "up"
      BY <1>5 DEF RecvEnd, CompleteRecv, Hangup, PeerClose, PeerReset
    <2> QED
      BY <1>1, <1>2, <2>1, ApartKeepsPlace, PlacePartsNext
  <1>6. PlaceFollows'
    BY <1>3, <1>4, <1>5 DEF Connection
  <1>7. ListsExist'
    <2>1. CASE Connection(s)
      BY <1>1, <2>1 DEF Connection, ListsExist
    <2>2. CASE Hangup(s)
      <3>1. /\ room_list' = [room_list EXCEPT ![s] = {}]
            /\ \A t \in Sockets \ {s} : toClient'[t] = toClient[t]
            /\ toClient'[s] = <<>>
        BY <2>2 DEF Hangup
      <3> QED
        BY <1>1, <3>1 DEF ListsExist
    <2> QED
      BY <2>1, <2>2
  <1> QED
    BY <1>6, <1>7

\* What main does: it sends the message that its place calls for, or moves
\* about in the menu.
LEMMA ClientEffects ==
  ASSUME SysTypeOK, NEW s \in Sockets, Client(s)
  PROVE  /\ peer[s] = "up" /\ UNCHANGED vars
         /\ \A t \in Sockets \ {s} : /\ toServer'[t] = toServer[t] /\ client'[t] = client[t]
                                     /\ toClient'[t] = toClient[t]
                                     /\ room_list'[t] = room_list[t]
         /\ \/ /\ toServer'[s] = toServer[s]
               /\ PlaceOf(client'[s]) = PlaceOf(client[s])
            \/ \E m \in Messages :
                 /\ toServer'[s] = Append(toServer[s], m)
                 /\ PlaceOf(client[s]) = Before(m)
                 /\ PlaceOf(client'[s]) = Leads(m)
                 /\ m.type = "enter_room" => m.name \in room_list[s]
PROOF
  <1> USE DEF SysTypeOK
  <1>1. peer[s] = "up" /\ UNCHANGED vars
    BY DEF Client, SayLogin, AskUsers, AskRooms, BackToMenu, Receive, Take,
           SayPrivate, SayCreate, SayEnter, SayRoom, SayLeave, Say, Running
  <1>2. \A t \in Sockets \ {s} : /\ toServer'[t] = toServer[t] /\ client'[t] = client[t]
                                 /\ toClient'[t] = toClient[t]
                                 /\ room_list'[t] = room_list[t]
    BY DEF Client, SayLogin, AskUsers, AskRooms, BackToMenu, Receive, Take,
           SayPrivate, SayCreate, SayEnter, SayRoom, SayLeave, Say, Goes
  <1>3. CASE BackToMenu(s) \/ Receive(s)
    BY <1>1, <1>2, <1>3, SystemAssumption
       DEF BackToMenu, Receive, Take, Goes, Running, Woken, PlaceOf, Menu
  <1>4. ASSUME NEW type, NEW name, Say(s, type, name), Message(type, name) \in Messages,
               PlaceOf(client[s]) = Before(Message(type, name)),
               PlaceOf(client'[s]) = Leads(Message(type, name)),
               type = "enter_room" => name \in room_list[s]
        PROVE  \E m \in Messages :
                 /\ toServer'[s] = Append(toServer[s], m)
                 /\ PlaceOf(client[s]) = Before(m)
                 /\ PlaceOf(client'[s]) = Leads(m)
                 /\ m.type = "enter_room" => m.name \in room_list[s]
    <2>1. toServer'[s] = Append(toServer[s], Message(type, name))
      BY <1>4 DEF Say
    <2>2. Message(type, name).type = type /\ Message(type, name).name = name
      BY DEF Message
    <2> QED
      BY <1>4, <2>1, <2>2
  <1>5. CASE \E u \in Usernames : SayLogin(s, u)
    <2>1. PICK u \in Usernames : SayLogin(s, u)
      BY <1>5
    <2>2. Message("login", u) \in Messages
      BY DEF Message, Messages
    <2>3. PlaceOf(client[s]) = "new" /\ PlaceOf(client'[s]) = "menu"
      BY <2>1 DEF SayLogin, Running, Goes, PlaceOf, Menu
    <2>4. Before(Message("login", u)) = "new" /\ Leads(Message("login", u)) = "menu"
      BY DEF Message, Before, Leads
    <2> QED
      BY <1>1, <1>2, <1>4, <2>1, <2>2, <2>3, <2>4 DEF SayLogin
  <1>6. CASE AskUsers(s) \/ AskRooms(s)
    <2>1. PICK type \in Requests : Say(s, type, None)
      BY <1>6 DEF AskUsers, AskRooms, Requests
    <2>2. Message(type, None) \in Messages
      BY DEF Message, Messages
    <2>3. PlaceOf(client[s]) = "menu" /\ PlaceOf(client'[s]) = "menu"
      BY <1>6 DEF AskUsers, AskRooms, Running, Goes, PlaceOf, Menu
    <2>4. Before(Message(type, None)) = "menu" /\ Leads(Message(type, None)) = "menu"
      BY DEF Message, Before, Leads, Requests
    <2> QED
      BY <1>1, <1>2, <1>4, <2>1, <2>2, <2>3, <2>4 DEF Requests
  <1>7. CASE \E k \in Key : SayPrivate(s, k)
    <2>1. PICK k \in Key : SayPrivate(s, k)
      BY <1>7
    <2>2. Message("send_someone", k) \in Messages
      BY DEF Message, Messages
    <2>3. PlaceOf(client[s]) = "menu" /\ PlaceOf(client'[s]) = "menu"
      BY <2>1 DEF SayPrivate, Running, PlaceOf, Menu
    <2>4. Before(Message("send_someone", k)) = "menu" /\ Leads(Message("send_someone", k)) = "menu"
      BY DEF Message, Before, Leads
    <2> QED
      BY <1>1, <1>2, <1>4, <2>1, <2>2, <2>3, <2>4 DEF SayPrivate
  <1>8. CASE \E r \in Rooms : SayCreate(s, r) \/ SayEnter(s, r) \/ SayRoom(s, r) \/ SayLeave(s, r)
    <2>1. PICK r \in Rooms : SayCreate(s, r) \/ SayEnter(s, r) \/ SayRoom(s, r) \/ SayLeave(s, r)
      BY <1>8
    <2>2. \A type \in {"create_room", "enter_room", "send_room", "leave_room"} :
            Message(type, r) \in Messages
      BY DEF Message, Messages
    <2>3. PlaceOf(r) = r
      BY SystemAssumption DEF PlaceOf
    <2>4. CASE SayCreate(s, r)
      <3>1. PlaceOf(client[s]) = "menu" /\ PlaceOf(client'[s]) = "menu"
        BY <2>4 DEF SayCreate, Running, PlaceOf, Menu
      <3>2. Before(Message("create_room", r)) = "menu" /\ Leads(Message("create_room", r)) = "menu"
        BY DEF Message, Before, Leads
      <3> QED
        BY <1>1, <1>2, <1>4, <2>2, <2>4, <3>1, <3>2 DEF SayCreate
    <2>5. CASE SayEnter(s, r)
      <3>1. /\ PlaceOf(client[s]) = "menu" /\ client'[s] = r /\ r \in room_list[s]
            /\ Say(s, "enter_room", r)
        BY <2>5 DEF SayEnter, Running, Goes, PlaceOf, Menu
      <3>2. Before(Message("enter_room", r)) = "menu" /\ Leads(Message("enter_room", r)) = r
        BY DEF Message, Before, Leads
      <3> QED
        BY <1>1, <1>2, <1>4, <2>2, <2>3, <3>1, <3>2
    <2>6. CASE SayRoom(s, r)
      <3>1. client[s] = r /\ client'[s] = r /\ Say(s, "send_room", r)
        BY <2>6 DEF SayRoom, Running
      <3>2. Before(Message("send_room", r)) = r /\ Leads(Message("send_room", r)) = r
        BY DEF Message, Before, Leads
      <3> QED
        BY <1>1, <1>2, <1>4, <2>2, <2>3, <3>1, <3>2
    <2>7. CASE SayLeave(s, r)
      <3>1. client[s] = r /\ PlaceOf(client'[s]) = "menu" /\ Say(s, "leave_room", r)
        BY <2>7 DEF SayLeave, Running, Goes, PlaceOf, Menu
      <3>2. Before(Message("leave_room", r)) = r /\ Leads(Message("leave_room", r)) = "menu"
        BY DEF Message, Before, Leads
      <3> QED
        BY <1>1, <1>2, <1>4, <2>2, <2>3, <3>1, <3>2
    <2> QED
      BY <2>1, <2>4, <2>5, <2>6, <2>7
  <1> QED
    BY <1>3, <1>5, <1>6, <1>7, <1>8 DEF Client

LEMMA ClientKeepsPlace ==
  ASSUME Known, PlaceInv, NEW s \in Sockets, Client(s)
  PROVE  PlaceInv'
PROOF
  <1> USE DEF PlaceInv, Known, SysTypeOK
  <1>1. UNCHANGED <<peer, place, rooms>> /\ peer[s] = "up"
    BY ClientEffects DEF vars, ioVars, chatVars
  <1>2. \A t \in Sockets \ {s} : Apart(t)
    BY <1>1, ClientEffects DEF Apart
  <1>3. Follows(place[s], toServer[s], PlaceOf(client[s])) /\ RoomsExist(toServer[s], rooms)
    BY <1>1, PlaceParts
  <1>4. Follows(place[s], toServer'[s], PlaceOf(client'[s])) /\ RoomsExist(toServer'[s], rooms)
    <2>1. CASE toServer'[s] = toServer[s] /\ PlaceOf(client'[s]) = PlaceOf(client[s])
      BY <1>3, <2>1
    <2>2. ASSUME NEW m \in Messages, toServer'[s] = Append(toServer[s], m),
                 PlaceOf(client[s]) = Before(m), PlaceOf(client'[s]) = Leads(m),
                 m.type = "enter_room" => m.name \in room_list[s]
          PROVE  Follows(place[s], toServer'[s], PlaceOf(client'[s]))
                 /\ RoomsExist(toServer'[s], rooms)
      <3>1. m.type = "enter_room" => m.name \in rooms
        BY <2>2 DEF ListsExist
      <3>2. toServer[s] \in Seq(Messages)
        OBVIOUS
      <3>3. Follows(place[s], toServer[s], Before(m)) /\ RoomsExist(toServer[s], rooms)
        BY <1>3, <2>2
      <3> QED
        BY <2>2, <3>1, <3>2, <3>3, FollowsAppend
    <2> QED
      BY <2>1, <2>2, ClientEffects
  <1>5. PlaceFollows'
    BY <1>1, <1>2, <1>4, ApartKeepsPlace, PlacePartsNext
  <1>6. room_list'[s] \subseteq rooms /\ \A i \in 1 .. Len(toClient'[s]) : toClient'[s][i].list \subseteq rooms
    <2>1. CASE Receive(s)
      <3>1. toClient[s] \in Seq(Frames) /\ toClient[s] # <<>>
        BY <2>1 DEF Receive, Take
      <3>2. /\ Head(toClient[s]) = toClient[s][1] /\ Len(toClient[s]) \in Nat \ {0}
            /\ Len(Tail(toClient[s])) = Len(toClient[s]) - 1
            /\ \A i \in 1 .. Len(toClient[s]) - 1 : Tail(toClient[s])[i] = toClient[s][i + 1]
        BY <3>1, QueueParts
      <3>3. /\ toClient'[s] = Tail(toClient[s])
            /\ room_list'[s] \in {room_list[s], Head(toClient[s]).list}
        BY <2>1 DEF Receive, Take
      <3>4. \A i \in 1 .. Len(toClient'[s]) : i + 1 \in 1 .. Len(toClient[s])
                                              /\ toClient'[s][i] = toClient[s][i + 1]
        BY <3>2, <3>3
      <3>5. 1 \in 1 .. Len(toClient[s])
        BY <3>2
      <3> QED
        BY <3>2, <3>3, <3>4, <3>5 DEF ListsExist
    <2>2. CASE ~Receive(s)
      <3>1. UNCHANGED toClient /\ room_list'[s] \in {room_list[s], {}}
        BY <2>2 DEF Client, SayLogin, AskUsers, AskRooms, BackToMenu,
                    SayPrivate, SayCreate, SayEnter, SayRoom, SayLeave, Say, Goes
      <3> QED
        BY <3>1 DEF ListsExist
    <2> QED
      BY <2>1, <2>2
  <1>7. ASSUME NEW t \in Sockets
        PROVE  /\ room_list'[t] \subseteq rooms
               /\ \A i \in 1 .. Len(toClient'[t]) : toClient'[t][i].list \subseteq rooms
    <2>1. CASE t # s
      <3>1. toClient'[t] = toClient[t] /\ room_list'[t] = room_list[t]
        BY <2>1, ClientEffects
      <3> QED
        BY <3>1 DEF ListsExist
    <2> QED
      BY <1>6, <2>1
  <1>8. ListsExist'
    BY <1>1, <1>7 DEF ListsExist
  <1> QED
    BY <1>5, <1>8

LEMMA ServeKeepsPlace ==
  ASSUME Known, PlaceInv, NEW w \in Workers, NEW s \in Sockets, Serve(w, s)
  PROVE  PlaceInv'
PROOF
  <1> USE DEF PlaceInv
  <1> DEFINE m == Head(toServer[s])
  <1>1. /\ UNCHANGED <<peer, client, room_list>>
        /\ rooms \subseteq rooms'
        /\ place'[s] = Leads(m)
        /\ toServer'[s] = Tail(toServer[s])
        /\ toServer[s] \in Seq(Messages) /\ toServer[s] # <<>>
    BY HandlerEffects DEF ioVars, Known, SysTypeOK
  <1>2. \A t \in Sockets \ {s} : Apart(t)
    BY HandlerEffects DEF Apart, ioVars, Known, SysTypeOK
  <1>3. ASSUME peer[s] = "up"
        PROVE  Follows(Leads(m), Tail(toServer[s]), PlaceOf(client[s]))
               /\ RoomsExist(Tail(toServer[s]), rooms')
    <2>1. Follows(place[s], toServer[s], PlaceOf(client[s])) /\ RoomsExist(toServer[s], rooms)
      BY <1>3, PlaceParts
    <2>2. Follows(Leads(m), Tail(toServer[s]), PlaceOf(client[s]))
          /\ RoomsExist(Tail(toServer[s]), rooms)
      BY <1>1, <2>1, FollowsTail
    <2> QED
      BY <1>1, <2>2 DEF RoomsExist
  <1>4. PlaceFollows'
    BY <1>1, <1>2, <1>3, ApartKeepsPlace, PlacePartsNext
  <1>5. Sends(m).list \subseteq rooms /\ Sends(m) \in Frames
    BY DEF Sends, Frame, Frames, Answers, Known, ChatInv, ChatTypeOK
  <1> HIDE DEF m
  <1>6. \A t \in Sockets : \/ toClient'[t] = toClient[t]
                           \/ toClient'[t] = Append(toClient[t], Sends(m))
    BY DEF Serve, Delivered, m
  <1>7. ASSUME NEW t \in Sockets
        PROVE  \A i \in 1 .. Len(toClient'[t]) : toClient'[t][i].list \subseteq rooms'
    <2>1. \A i \in 1 .. Len(toClient[t]) : toClient[t][i].list \subseteq rooms'
      BY <1>1 DEF ListsExist
    <2>2. CASE toClient'[t] = Append(toClient[t], Sends(m))
      <3>1. toClient[t] \in Seq(Frames)
        BY DEF Known, SysTypeOK
      <3>2. /\ Len(toClient'[t]) = Len(toClient[t]) + 1 /\ Len(toClient[t]) \in Nat
            /\ \A i \in 1 .. Len(toClient[t]) : toClient'[t][i] = toClient[t][i]
            /\ toClient'[t][Len(toClient[t]) + 1] = Sends(m)
        BY <1>5, <2>2, <3>1, QueueAppended
      <3> QED
        BY <1>1, <1>5, <2>1, <3>2
    <2> QED
      BY <1>6, <2>1, <2>2
  <1>8. ListsExist'
    BY <1>1, <1>7 DEF ListsExist
  <1> QED
    BY <1>4, <1>8

LEMMA PlaceStep ==
  ASSUME Known, ConnInv, PlaceInv, [SysNext]_sysVars
  PROVE  PlaceInv'
PROOF
  <1>1. ASSUME \A s \in Sockets : Apart(s), UNCHANGED <<rooms, room_list, toClient>>
        PROVE  PlaceInv'
    BY <1>1, ApartKeepsPlace, PlacePartsNext DEF PlaceInv, ListsExist
  <1>2. CASE UNCHANGED sysVars
    BY <1>1, <1>2 DEF Apart, sysVars, vars, ioVars, chatVars, clientVars
  <1>3. ASSUME NEW w \in Workers, Engine(w) PROVE PlaceInv'
    BY <1>1, <1>3, EngineApart
  <1>4. ASSUME NEW w \in Workers, NEW s \in Sockets, ServeNull(w, s) PROVE PlaceInv'
    BY <1>1, <1>4 DEF Apart, ServeNull, NullUser, HandlerCrash, Crash, chatVars, clientVars
  <1> QED
    BY <1>2, <1>3, <1>4, ConnectionKeepsPlace, ClientKeepsPlace, ServeKeepsPlace DEF SysNext

LEMMA PlaceInvariant == SysSpec => [](Known /\ ConnInv /\ PlaceInv)
PROOF
  <1>1. SysInit => ConnInv
    BY DEF SysInit, ChatInit, IoInit, ConnInv, Unused, Gone, Ended, DisconnectPcs
  <1>2. SysInit => PlaceInv
    BY DEF SysInit, ChatInit, IoInit, PlaceInv, PlaceFollows, ListsExist
  <1>3. Known /\ ConnInv /\ PlaceInv /\ [SysNext]_sysVars => (Known /\ ConnInv /\ PlaceInv)'
    BY KnownStep, ConnStep, PlaceStep
  <1> QED
    BY SystemInit, <1>1, <1>2, <1>3, PTL DEF SysSpec

\* What ChatServer assumes of its clients is true of the programs of ClientApp.
THEOREM PlaceCorrect == SysSpec => []PlaceFollows
PROOF
  BY PlaceInvariant, PTL DEF PlaceInv

-----------------------------------------------------------------------------
(* One request or one answer. *)

\* Whether a queue has messages of the types T, at most one, of the type k.
Has(q, T)    == \E i \in 1 .. Len(q) : q[i].type \in T
Lone(q, T)   == \A i, j \in 1 .. Len(q) : q[i].type \in T /\ q[j].type \in T => i = j
Is(q, T, k)  == \A i \in 1 .. Len(q) : q[i].type \in T => q[i].type = k

LEMMA AppendedTypes ==
  ASSUME NEW S, NEW q \in Seq(S), NEW m \in S, NEW T
  PROVE  /\ Has(Append(q, m), T) <=> Has(q, T) \/ m.type \in T
         /\ Lone(q, T) /\ ~(Has(q, T) /\ m.type \in T) => Lone(Append(q, m), T)
         /\ \A k : Is(q, T, k) /\ (m.type \in T => m.type = k) => Is(Append(q, m), T, k)
PROOF
  <1> DEFINE longer == Append(q, m)
  <1>1. /\ Len(longer) = Len(q) + 1 /\ Len(q) \in Nat
        /\ \A i \in 1 .. Len(q) : longer[i] = q[i]
        /\ longer[Len(q) + 1] = m
    BY QueueAppended
  <1> HIDE DEF longer
  <1>2. 1 .. Len(longer) = 1 .. Len(q) \cup {Len(q) + 1}
    BY <1>1
  <1>3. Has(longer, T) <=> Has(q, T) \/ m.type \in T
    BY <1>1, <1>2 DEF Has
  <1>4. ASSUME Lone(q, T), ~(Has(q, T) /\ m.type \in T) PROVE Lone(longer, T)
    BY <1>1, <1>2, <1>4 DEF Lone, Has
  <1>5. ASSUME NEW k, Is(q, T, k), m.type \in T => m.type = k PROVE Is(longer, T, k)
    BY <1>1, <1>2, <1>5 DEF Is
  <1> QED
    BY <1>3, <1>4, <1>5 DEF longer

LEMMA TailTypes ==
  ASSUME NEW S, NEW q \in Seq(S), q # <<>>, NEW T
  PROVE  /\ Has(q, T) <=> Has(Tail(q), T) \/ Head(q).type \in T
         /\ Lone(q, T) => Lone(Tail(q), T) /\ ~(Has(Tail(q), T) /\ Head(q).type \in T)
         /\ \A k : Is(q, T, k) => Is(Tail(q), T, k) /\ (Head(q).type \in T => Head(q).type = k)
PROOF
  <1> DEFINE rest == Tail(q)
  <1>1. /\ Len(q) \in Nat \ {0} /\ Head(q) = q[1]
        /\ Len(rest) = Len(q) - 1
        /\ \A i \in 1 .. Len(q) - 1 : rest[i] = q[i + 1]
    BY QueueParts
  <1> HIDE DEF rest
  <1>2. \A i \in 1 .. Len(rest) : i + 1 \in 1 .. Len(q) /\ rest[i] = q[i + 1] /\ i + 1 # 1
    BY <1>1
  <1>3. \A i \in 1 .. Len(q) : i # 1 => i - 1 \in 1 .. Len(rest) /\ rest[i - 1] = q[i]
    BY <1>1
  <1>4. 1 \in 1 .. Len(q)
    BY <1>1
  <1>5. Has(q, T) <=> Has(rest, T) \/ Head(q).type \in T
    BY <1>1, <1>2, <1>3, <1>4 DEF Has
  <1>6. ASSUME Lone(q, T) PROVE Lone(rest, T) /\ ~(Has(rest, T) /\ Head(q).type \in T)
    <2>1. ~(Has(rest, T) /\ Head(q).type \in T)
      BY <1>1, <1>2, <1>4, <1>6 DEF Lone, Has
    <2>2. ASSUME NEW i \in 1 .. Len(rest), NEW j \in 1 .. Len(rest),
                 rest[i].type \in T, rest[j].type \in T
          PROVE  i = j
      <3>1. i + 1 = j + 1
        BY <1>2, <1>6, <2>2 DEF Lone
      <3> QED
        BY <3>1
    <2> QED
      BY <2>1, <2>2 DEF Lone
  <1>7. ASSUME NEW k, Is(q, T, k)
        PROVE  Is(rest, T, k) /\ (Head(q).type \in T => Head(q).type = k)
    BY <1>1, <1>2, <1>4, <1>7 DEF Is
  <1> QED
    BY <1>5, <1>6, <1>7 DEF rest

Waiting == {"wait_users", "wait_rooms"}

\* What OneAnswer says of one connection.
Exchange(sent, got, label) ==
  /\ Lone(sent, Requests) /\ Lone(got, Answers)
  /\ ~(Has(sent, Requests) /\ Has(got, Answers))
  /\ label \in Waiting <=> Has(sent, Requests) \/ Has(got, Answers)
  /\ Is(sent, Requests, IF label = "wait_users" THEN "get_users_request" ELSE "get_rooms_request")
  /\ Is(got, Answers, IF label = "wait_users" THEN "get_users_response" ELSE "get_rooms_response")

LEMMA ExchangeParts ==
  ASSUME NEW sent, NEW got, NEW label
  PROVE  LET asked    == {i \in 1 .. Len(sent) : sent[i].type \in Requests}
             answered == {i \in 1 .. Len(got) : got[i].type \in Answers}
         IN Exchange(sent, got, label) <=>
              /\ \A i \in asked, j \in asked : i = j
              /\ \A i \in answered, j \in answered : i = j
              /\ asked = {} \/ answered = {}
              /\ label \in {"wait_users", "wait_rooms"} <=> asked \cup answered # {}
              /\ \A i \in asked : sent[i].type =
                   IF label = "wait_users" THEN "get_users_request" ELSE "get_rooms_request"
              /\ \A i \in answered : got[i].type =
                   IF label = "wait_users" THEN "get_users_response" ELSE "get_rooms_response"
PROOF
  <1> DEFINE asked    == {i \in 1 .. Len(sent) : sent[i].type \in Requests}
             answered == {i \in 1 .. Len(got) : got[i].type \in Answers}
  <1>1. /\ asked # {} <=> Has(sent, Requests)
        /\ answered # {} <=> Has(got, Answers)
    BY DEF Has
  <1>2. /\ (\A i \in asked, j \in asked : i = j) <=> Lone(sent, Requests)
        /\ (\A i \in answered, j \in answered : i = j) <=> Lone(got, Answers)
    BY DEF Lone
  <1>3. /\ \A k : (\A i \in asked : sent[i].type = k) <=> Is(sent, Requests, k)
        /\ \A k : (\A i \in answered : got[i].type = k) <=> Is(got, Answers, k)
    BY DEF Is
  <1>4. asked \cup answered # {} <=> asked # {} \/ answered # {}
    OBVIOUS
  <1> HIDE DEF asked, answered
  <1>5. Exchange(sent, got, label) <=>
              /\ \A i \in asked, j \in asked : i = j
              /\ \A i \in answered, j \in answered : i = j
              /\ asked = {} \/ answered = {}
              /\ label \in {"wait_users", "wait_rooms"} <=> asked \cup answered # {}
              /\ \A i \in asked : sent[i].type =
                   IF label = "wait_users" THEN "get_users_request" ELSE "get_rooms_request"
              /\ \A i \in answered : got[i].type =
                   IF label = "wait_users" THEN "get_users_response" ELSE "get_rooms_response"
    BY <1>1, <1>2, <1>3, <1>4 DEF Exchange, Waiting
  <1> QED
    BY <1>5 DEF asked, answered

LEMMA AnswerParts ==
  OneAnswer <=> \A s \in Sockets : peer[s] = "up" => Exchange(toServer[s], toClient[s], client[s])
PROOF
  BY ExchangeParts, Zenon DEF OneAnswer, Asked, Answered

LEMMA AnswerPartsNext ==
  OneAnswer' <=> \A s \in Sockets : peer'[s] = "up" => Exchange(toServer'[s], toClient'[s], client'[s])
PROOF
  BY ExchangeParts, Zenon DEF OneAnswer, Asked, Answered

LEMMA NoneIs ==
  ASSUME NEW q, NEW T, ~Has(q, T) PROVE Lone(q, T) /\ \A k : Is(q, T, k)
PROOF
  BY DEF Has, Lone, Is

\* The steps that change nothing of what is under way for a client that stays.
Quiet(s) ==
  /\ peer'[s] = "up" => peer[s] = "up"
  /\ toServer'[s] = toServer[s]
  /\ toClient'[s] = toClient[s]
  /\ client'[s] = client[s]

LEMMA QuietKeeps ==
  ASSUME OneAnswer, NEW s \in Sockets, Quiet(s), peer'[s] = "up"
  PROVE  Exchange(toServer'[s], toClient'[s], client'[s])
PROOF
  BY AnswerParts DEF Quiet

LEMMA ConnectionKeepsAnswer ==
  ASSUME Known, ConnInv, OneAnswer, NEW s \in Sockets, Connection(s) \/ Hangup(s)
  PROVE  OneAnswer'
PROOF
  <1> USE DEF Known, Typed, IoTypeOK, SysTypeOK
  <1>1. \A t \in Sockets \ {s} : Quiet(t)
    BY DEF Quiet, Connection, Hangup, ClientConnects, Connect, RecvData, RecvEnd,
           CompleteRecv, PeerClose, PeerReset
  <1>2. peer'[s] = "up" => Exchange(toServer'[s], toClient'[s], client'[s])
    <2>1. CASE ClientConnects(s) /\ UNCHANGED <<toServer, toClient, client>>
      <3>1. handle[s] = "listening"
        BY <2>1 DEF ClientConnects, Connect
      <3>2. toServer[s] = <<>> /\ toClient[s] = <<>> /\ client[s] = "login"
        BY <3>1 DEF ConnInv, Unused, Gone
      <3>3. ~Has(toServer[s], Requests) /\ ~Has(toClient[s], Answers)
        BY <3>2, EmptyQueue DEF Has
      <3> QED
        BY <2>1, <3>2, <3>3, NoneIs DEF Exchange, Waiting
    <2>2. CASE RecvData(s) /\ UNCHANGED <<toServer, toClient, client>>
      BY <2>2, QuietKeeps DEF Quiet, RecvData, CompleteRecv
    <2>3. CASE RecvEnd(s) \/ Hangup(s)
      BY <2>3 DEF RecvEnd, CompleteRecv, Hangup, PeerClose, PeerReset
    <2> QED
      BY <2>1, <2>2, <2>3 DEF Connection
  <1> QED
    BY <1>1, <1>2, QuietKeeps, AnswerPartsNext

LEMMA ClientKeepsAnswer ==
  ASSUME Known, OneAnswer, NEW s \in Sockets, Client(s)
  PROVE  OneAnswer'
PROOF
  <1> USE DEF Known, SysTypeOK
  <1>1. UNCHANGED peer /\ peer[s] = "up"
    BY ClientEffects DEF vars, ioVars
  <1>2. \A t \in Sockets \ {s} : Quiet(t)
    BY <1>1, ClientEffects DEF Quiet
  <1>3. Exchange(toServer[s], toClient[s], client[s])
    BY <1>1, AnswerParts
  <1>4. toServer[s] \in Seq(Messages) /\ toClient[s] \in Seq(Frames)
    OBVIOUS
  <1>5. ASSUME NEW m \in Messages, toServer'[s] = Append(toServer[s], m), UNCHANGED toClient,
               m.type \notin Requests, client[s] \notin Waiting, client'[s] \notin Waiting
        PROVE  Exchange(toServer'[s], toClient'[s], client'[s])
    <2>1. ~Has(toServer'[s], Requests) /\ ~Has(toClient'[s], Answers)
      BY <1>3, <1>4, <1>5, AppendedTypes DEF Exchange
    <2> QED
      BY <1>5, <2>1, NoneIs DEF Exchange
  <1>6. ASSUME AskUsers(s) \/ AskRooms(s)
        PROVE  Exchange(toServer'[s], toClient'[s], client'[s])
    <2>1. PICK type \in Requests :
            /\ toServer'[s] = Append(toServer[s], Message(type, None))
            /\ client'[s] \in Waiting
            /\ type = IF client'[s] = "wait_users" THEN "get_users_request" ELSE "get_rooms_request"
      BY <1>6 DEF AskUsers, AskRooms, Requests, Say, Goes, Waiting
    <2>2. client[s] \notin Waiting /\ UNCHANGED toClient
      BY <1>6 DEF AskUsers, AskRooms, Say, Running, Waiting
    <2>3. Message(type, None) \in Messages /\ Message(type, None).type = type
      BY DEF Message, Messages
    <2>4. ~Has(toServer[s], Requests) /\ ~Has(toClient[s], Answers)
      BY <1>3, <2>2 DEF Exchange
    <2> QED
      BY <1>4, <2>1, <2>2, <2>3, <2>4, AppendedTypes, NoneIs DEF Exchange
  <1>7. ASSUME BackToMenu(s)
        PROVE  Exchange(toServer'[s], toClient'[s], client'[s])
    <2>1. client[s] \notin Waiting /\ client'[s] \notin Waiting /\ UNCHANGED <<toServer, toClient>>
      BY <1>7 DEF BackToMenu, Running, Goes, Waiting
    <2>2. ~Has(toServer[s], Requests) /\ ~Has(toClient[s], Answers)
      BY <1>3, <2>1 DEF Exchange
    <2> QED
      BY <2>1, <2>2, NoneIs DEF Exchange
  <1>8. ASSUME Receive(s)
        PROVE  Exchange(toServer'[s], toClient'[s], client'[s])
    <2> DEFINE f == Head(toClient[s])
    <2>1. /\ toClient[s] # <<>> /\ toClient'[s] = Tail(toClient[s])
          /\ toServer' = toServer
          /\ client'[s] = IF f.type \in Answers THEN Woken(client[s]) ELSE client[s]
      BY <1>8 DEF Receive, Take
    <2> HIDE DEF f
    <2>2. /\ Has(toClient[s], Answers) <=> Has(toClient'[s], Answers) \/ f.type \in Answers
          /\ Lone(toClient'[s], Answers) /\ ~(Has(toClient'[s], Answers) /\ f.type \in Answers)
          /\ Is(toClient'[s], Answers, IF client[s] = "wait_users" THEN "get_users_response"
                                       ELSE "get_rooms_response")
      BY <1>3, <1>4, <2>1, TailTypes DEF Exchange, f
    <2>3. CASE f.type \in Answers
      <3>1. ~Has(toServer'[s], Requests) /\ ~Has(toClient'[s], Answers)
        BY <1>3, <2>1, <2>2, <2>3 DEF Exchange
      <3>2. client'[s] \notin Waiting
        BY <1>3, <2>1, <2>2, <2>3 DEF Exchange, Woken, Waiting
      <3> QED
        BY <3>1, <3>2, NoneIs DEF Exchange
    <2>4. CASE f.type \notin Answers
      BY <1>3, <2>1, <2>2, <2>4 DEF Exchange
    <2> QED
      BY <2>3, <2>4
  <1>9. ASSUME ~(AskUsers(s) \/ AskRooms(s) \/ BackToMenu(s) \/ Receive(s))
        PROVE  Exchange(toServer'[s], toClient'[s], client'[s])
    <2>1. ASSUME NEW type, NEW name, Say(s, type, name), Message(type, name) \in Messages,
                 type \notin Requests, client[s] \notin Waiting, client'[s] \notin Waiting
          PROVE  Exchange(toServer'[s], toClient'[s], client'[s])
      <3>1. toServer'[s] = Append(toServer[s], Message(type, name)) /\ UNCHANGED toClient
        BY <2>1 DEF Say
      <3>2. Message(type, name).type \notin Requests
        BY <2>1 DEF Message
      <3> QED
        BY <1>5, <2>1, <3>1, <3>2
    <2>2. ASSUME NEW u \in Usernames, SayLogin(s, u)
          PROVE  Exchange(toServer'[s], toClient'[s], client'[s])
      <3>1. Say(s, "login", u) /\ Message("login", u) \in Messages /\ "login" \notin Requests
        BY <2>2 DEF SayLogin, Message, Messages, Requests
      <3>2. client[s] \notin Waiting /\ client'[s] \notin Waiting
        BY <2>2 DEF SayLogin, Running, Goes, Waiting
      <3> QED
        BY <2>1, <3>1, <3>2
    <2>3. ASSUME NEW k \in Key, SayPrivate(s, k)
          PROVE  Exchange(toServer'[s], toClient'[s], client'[s])
      <3>1. Say(s, "send_someone", k) /\ Message("send_someone", k) \in Messages
            /\ "send_someone" \notin Requests
        BY <2>3 DEF SayPrivate, Message, Messages, Requests
      <3>2. client[s] \notin Waiting /\ client'[s] \notin Waiting
        BY <2>3 DEF SayPrivate, Running, Waiting
      <3> QED
        BY <2>1, <3>1, <3>2
    <2>4. ASSUME NEW r \in Rooms, SayCreate(s, r) \/ SayEnter(s, r) \/ SayRoom(s, r) \/ SayLeave(s, r)
          PROVE  Exchange(toServer'[s], toClient'[s], client'[s])
      <3>1. PICK type \in {"create_room", "enter_room", "send_room", "leave_room"} : Say(s, type, r)
        BY <2>4 DEF SayCreate, SayEnter, SayRoom, SayLeave
      <3>2. Message(type, r) \in Messages /\ type \notin Requests
        BY DEF Message, Messages, Requests
      <3>3. r \notin Waiting
        BY SystemAssumption DEF Waiting, Menu
      <3>4. client[s] \notin Waiting /\ client'[s] \notin Waiting
        BY <2>4, <3>3 DEF SayCreate, SayEnter, SayRoom, SayLeave, Running, Goes, Waiting
      <3> QED
        BY <2>1, <3>1, <3>2, <3>4
    <2> QED
      BY <1>9, <2>2, <2>3, <2>4 DEF Client
  <1> QED
    BY <1>1, <1>2, <1>6, <1>7, <1>8, <1>9, QuietKeeps, AnswerPartsNext

LEMMA ServeKeepsAnswer ==
  ASSUME Known, OneAnswer, NEW w \in Workers, NEW s \in Sockets, Serve(w, s)
  PROVE  OneAnswer'
PROOF
  <1> DEFINE m == Head(toServer[s])
  <1>1. /\ UNCHANGED <<peer, client>>
        /\ toServer[s] \in Seq(Messages) /\ toServer[s] # <<>> /\ m \in Messages
        /\ toServer'[s] = Tail(toServer[s])
        /\ \A t \in Sockets \ {s} : toServer'[t] = toServer[t]
        /\ sock[w] = s
    BY HandlerEffects DEF ioVars, Known, SysTypeOK
  <1>2. Handles(w, m) /\ Delivered(m)
    BY DEF Serve
  <1>3. Sends(m) \in Frames
    BY DEF Sends, Frame, Frames, Answers, Known, ChatInv, ChatTypeOK
  <1> HIDE DEF m
  <1>4. \A t \in Sockets : toClient'[t] = IF t \in posted' /\ peer[t] = "up"
                                          THEN Append(toClient[t], Sends(m)) ELSE toClient[t]
    BY <1>2 DEF Delivered, Receivers
  <1>5. \A t \in Sockets : toServer[t] \in Seq(Messages) /\ toClient[t] \in Seq(Frames)
    BY DEF Known, SysTypeOK
  <1>6. CASE m.type \in Requests
    <2>1. posted' \in Posted({s})
      BY <1>1, <1>2, <1>6 DEF Handles, GetList, Handling, Requests
    <2>2. posted' \subseteq {s} /\ (peer[s] = "up" => s \in posted')
      BY <2>1 DEF Posted
    <2>3. \A t \in Sockets \ {s} : Quiet(t)
      BY <1>1, <1>4, <2>2 DEF Quiet
    <2>4. ASSUME peer[s] = "up" PROVE Exchange(toServer'[s], toClient'[s], client[s])
      <3>1. Exchange(toServer[s], toClient[s], client[s])
        BY <2>4, AnswerParts
      <3>2. toClient'[s] = Append(toClient[s], Sends(m))
        BY <1>4, <2>2, <2>4
      <3>3. /\ Lone(toServer'[s], Requests)
            /\ Has(toServer[s], Requests) /\ ~Has(toServer'[s], Requests)
            /\ m.type = IF client[s] = "wait_users" THEN "get_users_request" ELSE "get_rooms_request"
        BY <1>1, <1>6, <3>1, TailTypes DEF Exchange, m
      <3>4. /\ Sends(m).type \in Answers
            /\ Sends(m).type = IF client[s] = "wait_users" THEN "get_users_response"
                               ELSE "get_rooms_response"
        BY <3>3 DEF Sends, Frame, Answers
      <3>5. ~Has(toClient[s], Answers) /\ client[s] \in Waiting
        BY <3>1, <3>3 DEF Exchange
      <3>6. /\ Has(toClient'[s], Answers) /\ Lone(toClient'[s], Answers)
            /\ Is(toClient'[s], Answers, IF client[s] = "wait_users" THEN "get_users_response"
                                         ELSE "get_rooms_response")
        BY <1>3, <1>5, <3>2, <3>4, <3>5, AppendedTypes, NoneIs
      <3> QED
        BY <3>3, <3>5, <3>6, NoneIs DEF Exchange
    <2> QED
      BY <1>1, <2>3, <2>4, QuietKeeps, AnswerPartsNext
  <1>7. CASE m.type \notin Requests
    <2>1. Sends(m).type \notin Answers
      BY <1>7 DEF Sends, Frame, Answers, Requests
    <2>2. ASSUME NEW t \in Sockets, peer[t] = "up"
          PROVE  Exchange(toServer'[t], toClient'[t], client[t])
      <3>1. Exchange(toServer[t], toClient[t], client[t])
        BY <2>2, AnswerParts
      <3>2. /\ Has(toClient'[t], Answers) <=> Has(toClient[t], Answers)
            /\ Lone(toClient'[t], Answers)
            /\ \A k : Is(toClient[t], Answers, k) => Is(toClient'[t], Answers, k)
        BY <1>3, <1>4, <1>5, <2>1, <3>1, AppendedTypes DEF Exchange
      <3>3. /\ Has(toServer'[t], Requests) <=> Has(toServer[t], Requests)
            /\ Lone(toServer'[t], Requests)
            /\ \A k : Is(toServer[t], Requests, k) => Is(toServer'[t], Requests, k)
        BY <1>1, <1>5, <1>7, <3>1, TailTypes DEF Exchange, m
      <3> QED
        BY <3>1, <3>2, <3>3 DEF Exchange
    <2> QED
      BY <1>1, <2>2, AnswerPartsNext
  <1> QED
    BY <1>6, <1>7

LEMMA AnswerStep ==
  ASSUME Known, ConnInv, OneAnswer, [SysNext]_sysVars
  PROVE  OneAnswer'
PROOF
  <1>1. ASSUME \A s \in Sockets : Quiet(s) PROVE OneAnswer'
    BY <1>1, QuietKeeps, AnswerPartsNext
  <1>2. CASE UNCHANGED sysVars
    BY <1>1, <1>2 DEF Quiet, sysVars, vars, ioVars, clientVars
  <1>3. ASSUME NEW w \in Workers, Engine(w) PROVE OneAnswer'
    <2>1. \A s \in Sockets : Apart(s)
      BY <1>3, EngineApart
    <2> QED
      BY <1>1, <1>3, <2>1, EngineApart DEF Apart, Quiet
  <1>4. ASSUME NEW w \in Workers, NEW s \in Sockets, ServeNull(w, s) PROVE OneAnswer'
    BY <1>1, <1>4 DEF Quiet, ServeNull, NullUser, HandlerCrash, Crash, clientVars
  <1> QED
    BY <1>2, <1>3, <1>4, ConnectionKeepsAnswer, ClientKeepsAnswer, ServeKeepsAnswer DEF SysNext

\* What ClientApp assumes of the server: one answer for one request, of the
\* kind that was asked for.
THEOREM AnswerCorrect == SysSpec => []OneAnswer
PROOF
  <1>1. SysInit => OneAnswer
    BY DEF SysInit, ChatInit, IoInit, OneAnswer
  <1>2. Known /\ ConnInv /\ OneAnswer /\ [SysNext]_sysVars => OneAnswer'
    BY AnswerStep
  <1> QED
    BY <1>1, <1>2, PlaceInvariant, PTL DEF SysSpec
=============================================================================
