------------------------------ MODULE ChatServer ------------------------------
(***************************************************************************)
(* The chat service on top of the I/O engine: the message handlers that    *)
(* server::register_message_handler installs, the maps m_socket2Name and   *)
(* m_loginUsers, and the rooms.  A worker runs handlers while it dispatches *)
(* the bytes of one WSARecv, with m_usersMutex held: none, one or several, *)
(* as the frames happen to be complete.                                    *)
(*                                                                         *)
(* A user object is created by the one login of a session and points to    *)
(* it: it is identified by its session's handle.  The clients are those of *)
(* ClientApp: one login, then the menu, where a room entered is left       *)
(* before anything else is done.                                           *)
(***************************************************************************)
EXTENDS IocpServer

CONSTANTS
  Usernames,   \* what clients type at "请输入用户名"
  Endpoints,   \* the "ip:port" of a client
  Unknown,     \* what get_remote_endpoint returns when getpeername fails
  Rooms        \* the room names clients type

\* m_loginUsers is keyed by the user name and the endpoint.
Key == Usernames \X (Endpoints \cup {Unknown})

ASSUME ChatAssumption ==
  /\ Unknown \notin Endpoints
  /\ None \notin Endpoints \cup {Unknown} \cup Key
  /\ Rooms \cap {"new", "menu"} = {}

VARIABLES
  endpoint,      \* the remote address of each connection
  socket2Name,   \* m_socket2Name; an absent and an empty name are one
  loginUsers,    \* m_loginUsers: the session of the user under each key
  rooms,         \* the keys of m_rooms
  members,       \* m_members of each room
  place,         \* where in ClientApp's menu the sender of the last message is
  posted         \* the sessions the last handler of the dispatch under way
                 \* posted a WSASend to

chatVars == <<endpoint, socket2Name, loginUsers, rooms, members, place, posted>>
vars     == <<ioVars, chatVars>>

ChatTypeOK ==
  /\ endpoint \in [Sockets -> Endpoints \cup {None}]
  /\ socket2Name \in [Sockets -> Key \cup {None}]
  /\ loginUsers \in [Key -> Sockets \cup {None}]
  /\ rooms \in SUBSET Rooms
  /\ members \in [Rooms -> SUBSET Sockets]
  /\ place \in [Sockets -> {"new", "menu"} \cup Rooms]
  /\ posted \in SUBSET Sockets

ChatInit ==
  /\ IoInit
  /\ endpoint = [s \in Sockets |-> None]
  /\ socket2Name = [s \in Sockets |-> None]
  /\ loginUsers = [k \in Key |-> None]
  /\ rooms = {}
  /\ members = [r \in Rooms |-> {}]
  /\ place = [s \in Sockets |-> "new"]
  /\ posted = {}

-----------------------------------------------------------------------------
(* The network. *)

\* The handle of s is unused, or its connection has no session yet.
Fresh(s) ==
  \/ handle[s] # "connected"
  \/ \E p \in port : p.ev = "IO_ACCEPT" /\ p.sock = s
  \/ \E w \in Workers : pc[w] = "accept" /\ sock[w] = s

\* The session of s has left the table: at most a room still has it.
Forgotten(s) == s \notin active /\ ~Fresh(s)

\* An address belongs to one connection at a time.  After a reset the kernel
\* has forgotten the connection, and its address can be used again although
\* the server still has the session: in a room only, or in the table as well.
AddressFree(e) ==
  \A s \in Sockets : endpoint[s] = e =>
    peer[s] = "reset" /\ ("port_reuse" \in Faults \/ Forgotten(s))

ClientConnects(s) ==
  /\ Connect(s)
  /\ \E e \in Endpoints : AddressFree(e) /\ endpoint' = [endpoint EXCEPT ![s] = e]
  /\ UNCHANGED <<socket2Name, loginUsers, rooms, members, place, posted>>

ChatNetwork ==
  \E s \in Sockets :
    \/ ClientConnects(s)
    \/ /\ PeerClose(s) \/ PeerReset(s) \/ RecvData(s) \/ RecvEnd(s)
       /\ UNCHANGED chatVars

-----------------------------------------------------------------------------
(* The message handlers.  They change nothing of the engine. *)

\* Worker w dispatches a message of the client of s, which is at p in its menu.
Handling(w, s, p) == up /\ pc[w] = "dispatch" /\ s = sock[w] /\ place[s] = p

\* WSASend may fail at once on a connection that was reset.  The exception
\* ends the handler, and safeInvoke swallows it: of the sessions to send to,
\* those that come later in the iteration get nothing.
Posted(targets) ==
  {targets} \cup
  {some \in SUBSET targets : \E f \in targets \ some : peer[f] = "reset"}

\* send_session->get_remote_endpoint().
RemoteEndpoint(s) ==
  {endpoint[s]} \cup
  (IF "getpeername" \in Faults /\ peer[s] = "reset" THEN {Unknown} ELSE {})

Login(w, u) ==
  \E s \in Sockets :
    /\ Handling(w, s, "new")
    /\ \E e \in RemoteEndpoint(s) :
         /\ loginUsers' = [loginUsers EXCEPT ![<<u, e>>] = s]
         /\ socket2Name' = [socket2Name EXCEPT ![s] = <<u, e>>]
    /\ place' = [place EXCEPT ![s] = "menu"]
    /\ posted' = {}
    /\ UNCHANGED <<ioVars, endpoint, rooms, members>>

\* get_users_request and get_rooms_request: the response goes to the asker.
GetList(w) ==
  \E s \in Sockets :
    /\ Handling(w, s, "menu")
    /\ posted' \in Posted({s})
    /\ UNCHANGED <<ioVars, endpoint, socket2Name, loginUsers, rooms, members, place>>

\* send_message to someone: the receiver was in a list of users, and may have
\* gone since.
SendPrivate(w, receiver) ==
  \E s \in Sockets :
    /\ Handling(w, s, "menu")
    /\ posted' \in Posted({loginUsers[receiver]} \ {None})
    /\ UNCHANGED <<ioVars, endpoint, socket2Name, loginUsers, rooms, members, place>>

\* Mistake: the message goes to every user that is online.
SendRoomToAll(w, r) ==
  \E s \in Sockets :
    /\ Handling(w, s, r)
    /\ posted' \in Posted(active)
    /\ UNCHANGED <<ioVars, endpoint, socket2Name, loginUsers, rooms, members, place>>

\* send_message to a room: every member, the sender among them.
SendRoom(w, r) ==
  \E s \in Sockets :
    /\ Handling(w, s, r)
    /\ posted' \in Posted(members[r])
    /\ UNCHANGED <<ioVars, endpoint, socket2Name, loginUsers, rooms, members, place>>

\* Mistake: m_rooms[name] = new_room replaces a room of that name.
ReplaceRoom(w, r) ==
  \E s \in Sockets :
    /\ Handling(w, s, "menu")
    /\ rooms' = rooms \cup {r}
    /\ members' = [members EXCEPT ![r] = {}]
    /\ posted' = {}
    /\ UNCHANGED <<ioVars, endpoint, socket2Name, loginUsers, place>>

\* emplace leaves a room of that name as it is.
CreateRoom(w, r) ==
  \E s \in Sockets :
    /\ Handling(w, s, "menu")
    /\ rooms' = rooms \cup {r}
    /\ posted' = {}
    /\ UNCHANGED <<ioVars, endpoint, socket2Name, loginUsers, members, place>>

\* m_loginUsers[m_socket2Name[socket]]; None is the null user that operator[]
\* makes up for a missing key.
UserOf(s) == IF socket2Name[s] = None THEN None ELSE loginUsers[socket2Name[s]]

\* Mistake: add_member stores the user it is given, a null one too.
EnterUnchecked(w, r) ==
  \E s \in Sockets :
    /\ Handling(w, s, "menu")
    /\ r \in rooms
    /\ members' = [members EXCEPT ![r] = @ \cup {UserOf(s)}]
    /\ place' = [place EXCEPT ![s] = r]
    /\ posted' = {}
    /\ UNCHANGED <<ioVars, endpoint, socket2Name, loginUsers, rooms>>

\* The client chose r from a list of rooms: get_room finds it, since no room
\* is ever deleted.
EnterRoom(w, r) ==
  \E s \in Sockets :
    /\ Handling(w, s, "menu")
    /\ r \in rooms
    /\ UserOf(s) # None
    /\ members' = [members EXCEPT ![r] = @ \cup {UserOf(s)}]
    /\ place' = [place EXCEPT ![s] = r]
    /\ posted' = {}
    /\ UNCHANGED <<ioVars, endpoint, socket2Name, loginUsers, rooms>>

\* Mistake: remove_member is called with a user made for the occasion, which
\* is no element of m_members.
LeaveNothing(w, r) ==
  \E s \in Sockets :
    /\ Handling(w, s, r)
    /\ place' = [place EXCEPT ![s] = "menu"]
    /\ posted' = {}
    /\ UNCHANGED <<ioVars, endpoint, socket2Name, loginUsers, rooms, members>>

\* Mistake: leaving the room erases the connection.
LeaveServer(w, r) ==
  \E s \in Sockets :
    /\ Handling(w, s, r)
    /\ active' = active \ {s}
    /\ members' = [members EXCEPT ![r] = @ \ {s}]
    /\ place' = [place EXCEPT ![s] = "menu"]
    /\ posted' = {}
    /\ UNCHANGED <<up, pc, sock, mutex, port, handle, recvs, peer,
                   endpoint, socket2Name, loginUsers, rooms>>

LeaveRoom(w, r) ==
  \E s \in Sockets :
    /\ Handling(w, s, r)
    /\ UserOf(s) # None
    /\ members' = [members EXCEPT ![r] = @ \ {UserOf(s)}]
    /\ place' = [place EXCEPT ![s] = "menu"]
    /\ posted' = {}
    /\ UNCHANGED <<ioVars, endpoint, socket2Name, loginUsers, rooms>>

\* add_member and remove_member ask a null user for its name.
NullUser(w) ==
  /\ \E s \in Sockets :
       /\ \/ Handling(w, s, "menu") /\ rooms # {}
          \/ \E r \in Rooms : Handling(w, s, r)
       /\ UserOf(s) = None
  /\ HandlerCrash(w)
  /\ UNCHANGED chatVars

\* receive_from_buffer returns.
EndDispatch(w) ==
  /\ RecvUnlock(w)
  /\ posted' = {}
  /\ UNCHANGED <<endpoint, socket2Name, loginUsers, rooms, members, place>>

Handler(w) ==
  \/ \E u \in Usernames : Login(w, u)
  \/ GetList(w)
  \/ \E k \in Key : SendPrivate(w, k)
  \/ \E r \in Rooms : SendRoom(w, r) \/ CreateRoom(w, r) \/ EnterRoom(w, r) \/ LeaveRoom(w, r)

-----------------------------------------------------------------------------
(* The end of a session. *)

\* Mistake: m_loginUsers keeps the user.
EraseNameOnly(w) ==
  /\ DisconnectErase(w)
  /\ socket2Name' = [socket2Name EXCEPT ![sock[w]] = None]
  /\ UNCHANGED <<endpoint, loginUsers, rooms, members, place, posted>>

\* handle_dis_connect erases the session, its user and its name; it does not
\* look at the rooms.
EraseUser(w) ==
  LET s == sock[w]
      k == socket2Name[s]
  IN /\ DisconnectErase(w)
     /\ loginUsers' = IF k = None THEN loginUsers ELSE [loginUsers EXCEPT ![k] = None]
     /\ socket2Name' = [socket2Name EXCEPT ![s] = None]
     /\ UNCHANGED <<endpoint, rooms, members, place, posted>>

\* The user of a room keeps its session alive.
SessionHeld(s) == \E r \in Rooms : s \in members[r]

\* Mistake: handle_dis_connect calls closesocket, whoever still has the session.
CloseAlways(w) ==
  /\ DisconnectExit(w, TRUE)
  /\ endpoint' = [endpoint EXCEPT ![sock[w]] = None]
  /\ place' = [place EXCEPT ![sock[w]] = "new"]
  /\ UNCHANGED <<socket2Name, loginUsers, rooms, members, posted>>

\* Mistake: ~session does not close the handle.
CloseNever(w) ==
  /\ DisconnectExit(w, FALSE)
  /\ place' = [place EXCEPT ![sock[w]] = "new"]
  /\ UNCHANGED <<endpoint, socket2Name, loginUsers, rooms, members, posted>>

EndSession(w) ==
  LET s == sock[w]
  IN /\ DisconnectExit(w, ~SessionHeld(s))
     /\ endpoint' = IF SessionHeld(s) THEN endpoint ELSE [endpoint EXCEPT ![s] = None]
     /\ place' = [place EXCEPT ![s] = "new"]
     /\ UNCHANGED <<socket2Name, loginUsers, rooms, members, posted>>

-----------------------------------------------------------------------------

\* The steps of a worker that leave the chat service alone.
EngineStep(w) ==
  /\ \/ \E p \in port : Dequeue(w, p)
     \/ AcceptSession(w) \/ AcceptUnlock(w)
     \/ PostRecv(w) \/ PostRecvThrows(w)
     \/ PostAccept(w) \/ PostAcceptThrows(w)
     \/ RecvLock(w)
     \/ DisconnectLookup(w) \/ LookupRaces(w)
  /\ UNCHANGED chatVars

ChatWorker(w) == EngineStep(w) \/ Handler(w) \/ NullUser(w) \/ EndDispatch(w)
                 \/ EraseUser(w) \/ EndSession(w)

ChatNext == ChatNetwork \/ \E w \in Workers : ChatWorker(w)

ChatSpec == ChatInit /\ [][ChatNext]_vars

\* The fairness of the engine: IoFairness with the steps of this module.
\* Handlers need none: a client may send nothing more.
ChatFairness ==
  /\ \A w \in Workers :
       /\ WF_vars(Continue(w) /\ (EngineStep(w) \/ EndDispatch(w) \/ EndSession(w)))
       /\ SF_vars(Acquire(w) /\ (EngineStep(w) \/ EraseUser(w)))
  /\ \A s \in Sockets :
       /\ SF_vars(DequeueFor(s) /\ UNCHANGED chatVars)
       /\ SF_vars(RecvEnd(s) /\ UNCHANGED chatVars)

FairChatSpec == ChatSpec /\ ChatFairness

-----------------------------------------------------------------------------
(* Properties. *)

\* m_loginUsers and m_socket2Name are each other's inverse, both speak of
\* sessions in m_activeConnections only, and a name tells the true address of
\* its connection.  So a key is the unique name of one online user
\* ("用户名（唯一标识）", server.hpp:115), the sender shown on a message is the
\* connection it came from, and disconnecting one client never removes another.
RegistryConsistent ==
  /\ \A s \in Sockets, k \in Key : loginUsers[k] = s <=> socket2Name[s] = k
  /\ \A s \in Sockets : socket2Name[s] # None =>
       s \in active /\ socket2Name[s][2] = endpoint[s]

\* The server's idea of who is in a room is the client's own: a member whose
\* session is in the table is at the prompt of that room, and conversely.
RoomViewAgrees ==
  \A s \in active, r \in Rooms : s \in members[r] <=> place[s] = r

\* Whoever is still in a room has an open handle: for_each_member never sends
\* to a handle that was closed, or that another client was given since.
MembersConnected ==
  \A r \in Rooms : \A s \in members[r] : handle[s] = "connected" /\ endpoint[s] # None

\* Every logged-in user's session is in m_activeConnections, whatever happens
\* to the names: overwriting an entry never drops the last reference to a
\* session that nobody reads from any more.
UsersOnline == \A k \in Key : loginUsers[k] # None => loginUsers[k] \in active

\* A private message is posted to the client at the address the sender chose,
\* or to nobody.
PrivateDelivery ==
  [][\A w \in Workers, k \in Key :
       SendPrivate(w, k) => \A t \in posted' : endpoint[t] = k[2] /\ t \in active]_vars

\* A room message is posted to nobody who is online and elsewhere.
RoomIsolation ==
  [][\A w \in Workers, r \in Rooms :
       SendRoom(w, r) => \A t \in posted' : t \in active => place[t] = r]_vars

\* The users a set of sessions stands for.
Named(sessions) == {socket2Name[s] : s \in sessions} \ {None}

Online == {k \in Key : loginUsers[k] # None}
InRoom == [r \in Rooms |-> Named(members[r])]
Heard  == Named(posted)

Directory == INSTANCE ChatDirectory WITH
  Users <- Key, online <- Online, in_room <- InRoom, heard <- Heard

\* The service keeps the promises of ChatDirectory: one name belongs to one
\* user who is online, a disconnection takes away one user, from the list and
\* the rooms in one step, a room is entered and left by its user's own message
\* alone - creating it again leaves the members in - and what is posted goes to
\* whom it is meant for.
DirectorySpec == Directory!Spec

\* A client that went away is forgotten, unless the process ends: its name and
\* its user go, and its handle is closed, so that WSASocket can hand it out
\* again - or a room still has its user, which keeps the session and the
\* handle for ever: handle_dis_connect does not look at the rooms.
GoneClientForgotten ==
  \A s \in Sockets :
    s \in active /\ peer[s] \in {"closed", "reset"}
      ~> ~up \/ (socket2Name[s] = None /\ (handle[s] = "free" \/ SessionHeld(s)))

\* "查找房间并发送消息给房间内的所有用户" (server.cpp:115): a room message is
\* posted to every member that is online.
BroadcastComplete ==
  [][\A w \in Workers, r \in Rooms :
       SendRoom(w, r) => \A t \in members[r] : t \in active /\ peer[t] = "up" => t \in posted']_vars

\* "连接重置" (server.cpp:294): a reset ends the connection it happened to, not
\* the server.
ServerSurvives == up

-----------------------------------------------------------------------------
(* The inductive invariants.  ChatInv holds whatever fails; the other two   *)
(* while no address is used again before the reset is handled and            *)
(* getpeername succeeds.                                                    *)

\* A connection has an address as long as its handle is open.
EndpointKnown == \A s \in Sockets : handle[s] = "connected" <=> endpoint[s] # None

\* A session has a name only after its login and only while it is in the
\* table, and a user is found under no other name than its session's own.
NamesOfSessions ==
  /\ \A s \in Sockets : socket2Name[s] # None => s \in active /\ place[s] # "new"
  /\ \A k \in Key : loginUsers[k] # None => socket2Name[loginUsers[k]] = k

ChatInv ==
  /\ ChatTypeOK
  /\ EndpointKnown
  /\ NamesOfSessions
  /\ MembersConnected

\* One address, one connection, but for those the server has done with.
EndpointsDistinct ==
  \A s, t \in Sockets : endpoint[s] = endpoint[t] /\ endpoint[s] # None =>
    s = t \/ Forgotten(s) \/ Forgotten(t)

RegistryInv == RegistryConsistent /\ EndpointsDistinct

\* Nothing of an earlier client is left where a new one will be.
FreshOutside == \A s \in Sockets : Fresh(s) => place[s] = "new" /\ ~SessionHeld(s)

RoomInv ==
  /\ RoomViewAgrees
  /\ FreshOutside
  /\ \A s \in active : place[s] # "new" => socket2Name[s] # None

\* Handlers post while their worker dispatches, with the mutex held.
PostedInDispatch == posted # {} => \E w \in Workers : pc[w] = "dispatch"
=============================================================================
