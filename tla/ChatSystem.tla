------------------------------ MODULE ChatSystem ------------------------------
(***************************************************************************)
(* The whole chat room: ChatServer, the programs of ClientApp at the other  *)
(* ends of its connections, and the messages under way in both directions.  *)
(* Frames arrive whole and in order (FrameChannel), a client's two threads  *)
(* wake each other as they should (ClientApp); what is left is whether the  *)
(* two sides go together: what ChatServer assumes of the messages, and what *)
(* ClientApp assumes of the answers.                                        *)
(*                                                                         *)
(* A client is named by the handle the server has for it.                   *)
(***************************************************************************)
EXTENDS ChatServer, Sequences

CONSTANTS
  Capacity,  \* Bound: messages under way to the server, on one connection
  Unread     \* Bound: frames under way to a client that is sent another message

VARIABLES
  client,     \* where main of the client is, in the room it has entered or not
  room_list,  \* the rooms main lets the user choose from
  toServer,   \* the messages on their way to the server
  toClient    \* the frames on their way to the client

clientVars == <<client, room_list, toServer, toClient>>
sysVars    == <<vars, clientVars>>

Message(type, name) == [type |-> type, name |-> name]
Frame(type, list)   == [type |-> type, list |-> list]

Requests == {"get_users_request", "get_rooms_request"}
Answers  == {"get_users_response", "get_rooms_response"}

Menu == {"menu", "wait_users", "users", "wait_rooms", "choose"}

\* The names of rooms are none of the labels.
ASSUME SystemAssumption == Rooms \cap ({"login"} \cup Menu) = {}

SysInit ==
  /\ ChatInit
  /\ client = [s \in Sockets |-> "login"]
  /\ room_list = [s \in Sockets |-> {}]
  /\ toServer = [s \in Sockets |-> <<>>]
  /\ toClient = [s \in Sockets |-> <<>>]

-----------------------------------------------------------------------------
(* The connections. *)

\* The bytes a client sent before it ended the connection still arrive; after
\* a reset the messages are lost that no receive has taken.
Connection(s) ==
  /\ \/ ClientConnects(s) /\ UNCHANGED toServer
     \/ RecvData(s) /\ toServer[s] # <<>> /\ UNCHANGED <<chatVars, toServer>>
     \/ /\ RecvEnd(s) /\ (toServer[s] = <<>> \/ peer[s] = "reset")
        /\ toServer' = [toServer EXCEPT ![s] = <<>>]
        /\ UNCHANGED chatVars
  /\ UNCHANGED <<client, room_list, toClient>>

\* The client ends.  Whoever connects next runs ClientApp from its beginning.
Hangup(s) ==
  /\ PeerClose(s) \/ PeerReset(s)
  /\ toClient' = [toClient EXCEPT ![s] = <<>>]
  /\ client' = [client EXCEPT ![s] = "login"]
  /\ room_list' = [room_list EXCEPT ![s] = {}]
  /\ UNCHANGED <<chatVars, toServer>>

-----------------------------------------------------------------------------
(* main of a client. *)

Running(s, places) == up /\ peer[s] = "up" /\ client[s] \in places

\* send_sync.
Say(s, type, name) ==
  /\ Len(toServer[s]) < Capacity
  /\ toServer' = [toServer EXCEPT ![s] = Append(@, Message(type, name))]
  /\ UNCHANGED <<vars, toClient>>

\* The list is looked at once more to leave the room by its name.
Goes(s, label) ==
  /\ client' = [client EXCEPT ![s] = label]
  /\ room_list' = IF client[s] = "choose" THEN [room_list EXCEPT ![s] = {}] ELSE room_list

SayLogin(s, u) ==
  Running(s, {"login"}) /\ Say(s, "login", u) /\ Goes(s, "menu")

AskUsers(s) ==
  Running(s, {"menu"}) /\ Say(s, "get_users_request", None) /\ Goes(s, "wait_users")

AskRooms(s) ==
  Running(s, {"menu"}) /\ Say(s, "get_rooms_request", None) /\ Goes(s, "wait_rooms")

\* A user of the list, who need not be there any more.
SayPrivate(s, k) ==
  /\ k[2] = Unknown => "getpeername" \in Faults
  /\ Running(s, {"users"})
  /\ Say(s, "send_someone", k)
  /\ UNCHANGED <<client, room_list>>

SayCreate(s, r) ==
  Running(s, {"menu"}) /\ Say(s, "create_room", r) /\ UNCHANGED <<client, room_list>>

\* Mistake: the name of the room is asked for, not its number.
SayAnyRoom(s, r) ==
  Running(s, {"choose"}) /\ Say(s, "enter_room", r) /\ Goes(s, r)

SayEnter(s, r) ==
  /\ Running(s, {"choose"})
  /\ r \in room_list[s]
  /\ Say(s, "enter_room", r)
  /\ Goes(s, r)

SayRoom(s, r) ==
  Running(s, {r}) /\ Say(s, "send_room", r) /\ UNCHANGED <<client, room_list>>

SayLeave(s, r) ==
  Running(s, {r}) /\ Say(s, "leave_room", r) /\ Goes(s, "menu")

BackToMenu(s) ==
  /\ Running(s, {"users", "choose"})
  /\ Goes(s, "menu")
  /\ UNCHANGED <<vars, toServer, toClient>>

Woken(label) == IF label = "wait_users" THEN "users"
               ELSE IF label = "wait_rooms" THEN "choose" ELSE label

\* The handlers of recv_thread for the frame that comes next.
Take(s) ==
  /\ up
  /\ peer[s] = "up"
  /\ toClient[s] # <<>>
  /\ toClient' = [toClient EXCEPT ![s] = Tail(@)]
  /\ room_list' = IF Head(toClient[s]).type = "get_rooms_response"
                  THEN [room_list EXCEPT ![s] = Head(toClient[s]).list]
                  ELSE room_list
  /\ UNCHANGED <<vars, toServer>>

\* Mistake: a message that is printed sets hEvent, too.
ReceiveAny(s) ==
  /\ Take(s)
  /\ client' = [client EXCEPT ![s] = Woken(@)]

\* A list ends the wait of main, a message is printed.
Receive(s) ==
  /\ Take(s)
  /\ client' = IF Head(toClient[s]).type \in Answers
               THEN [client EXCEPT ![s] = Woken(@)] ELSE client

Client(s) ==
  \/ \E u \in Usernames : SayLogin(s, u)
  \/ AskUsers(s) \/ AskRooms(s) \/ BackToMenu(s) \/ Receive(s)
  \/ \E k \in Key : SayPrivate(s, k)
  \/ \E r \in Rooms : SayCreate(s, r) \/ SayEnter(s, r) \/ SayRoom(s, r) \/ SayLeave(s, r)

-----------------------------------------------------------------------------
(* The server. *)

\* A handler of ChatServer, for the message m.
Handles(w, m) ==
  \/ m.type = "login"        /\ Login(w, m.name)
  \/ m.type \in Requests     /\ GetList(w)
  \/ m.type = "send_someone" /\ SendPrivate(w, m.name)
  \/ m.type = "create_room"  /\ CreateRoom(w, m.name)
  \/ m.type = "enter_room"   /\ EnterRoom(w, m.name)
  \/ m.type = "send_room"    /\ SendRoom(w, m.name)
  \/ m.type = "leave_room"   /\ LeaveRoom(w, m.name)

\* What the handler of m sends.  The names of a list of users are no matter
\* here.
Sends(m) ==
  IF m.type = "get_users_request" THEN Frame("get_users_response", {})
  ELSE IF m.type = "get_rooms_request" THEN Frame("get_rooms_response", rooms)
  ELSE Frame("message", {})

\* WSASend has succeeded, and the client is there to read.
Receivers(m) == {t \in posted' : peer[t] = "up"}

\* Every receiver gets the frame.
Delivered(m) ==
  /\ m.type \in {"send_someone", "send_room"} =>
       \A t \in Receivers(m) : Len(toClient[t]) < Unread
  /\ toClient' = [t \in Sockets |-> IF t \in Receivers(m)
                                    THEN Append(toClient[t], Sends(m))
                                    ELSE toClient[t]]

\* receive_from_buffer has the next message of s complete.
Serve(w, s) ==
  /\ pc[w] = "dispatch"
  /\ sock[w] = s
  /\ toServer[s] # <<>>
  /\ Handles(w, Head(toServer[s]))
  /\ Delivered(Head(toServer[s]))
  /\ toServer' = [toServer EXCEPT ![s] = Tail(@)]
  /\ UNCHANGED <<client, room_list>>

\* A null user is asked for its name.
ServeNull(w, s) ==
  /\ sock[w] = s
  /\ toServer[s] # <<>>
  /\ Head(toServer[s]).type \in {"enter_room", "leave_room"}
  /\ NullUser(w)
  /\ UNCHANGED clientVars

\* The steps of a worker outside its handlers.
Engine(w) ==
  /\ EngineStep(w) \/ EndDispatch(w) \/ EraseUser(w) \/ EndSession(w)
  /\ UNCHANGED clientVars

SysNext ==
  \/ \E s \in Sockets : Connection(s) \/ Hangup(s) \/ Client(s)
  \/ \E w \in Workers :
       \/ Engine(w)
       \/ \E s \in Sockets : Serve(w, s) \/ ServeNull(w, s)

SysSpec == SysInit /\ [][SysNext]_sysVars

-----------------------------------------------------------------------------
(* Properties. *)

Messages ==
  [type : {"login"}, name : Usernames]
    \cup [type : Requests, name : {None}]
    \cup [type : {"send_someone"}, name : Key]
    \cup [type : {"create_room", "enter_room", "send_room", "leave_room"}, name : Rooms]

Frames == [type : Answers \cup {"message"}, list : SUBSET Rooms]

SysTypeOK ==
  /\ client \in [Sockets -> {"login"} \cup Menu \cup Rooms]
  /\ room_list \in [Sockets -> SUBSET Rooms]
  /\ toServer \in [Sockets -> Seq(Messages)]
  /\ toClient \in [Sockets -> Seq(Frames)]

\* The place of ChatServer that a message is expected at, and the one it leads
\* to.
Before(m) ==
  IF m.type = "login" THEN "new"
  ELSE IF m.type \in {"send_room", "leave_room"} THEN m.name ELSE "menu"

Leads(m) == IF m.type \in {"enter_room", "send_room"} THEN m.name ELSE "menu"

PlaceOf(label) ==
  IF label = "login" THEN "new" ELSE IF label \in Menu THEN "menu" ELSE label

\* The server is behind its clients by just the messages under way, and every
\* one of them is a message its handler expects, for a room that exists: what
\* ChatServer assumes of its clients (place, and that get_room finds the room)
\* is true, whatever happens to other clients and to earlier connections with
\* the same handle.
PlaceFollows ==
  \A s \in Sockets : peer[s] = "up" =>
    LET sent == toServer[s]
    IN /\ place[s] = IF sent = <<>> THEN PlaceOf(client[s]) ELSE Before(sent[1])
       /\ \A i \in 1 .. Len(sent) :
            /\ Leads(sent[i]) = IF i = Len(sent) THEN PlaceOf(client[s])
                                ELSE Before(sent[i + 1])
            /\ sent[i].type = "enter_room" => sent[i].name \in rooms

Asked(s)    == {i \in 1 .. Len(toServer[s]) : toServer[s][i].type \in Requests}
Answered(s) == {i \in 1 .. Len(toClient[s]) : toClient[s][i].type \in Answers}

\* On a connection that stands a client that waits has one request or one
\* answer under way, of the kind it waits for, and one that does not wait has
\* none: what ClientApp assumes of the server.  WSASend may fail at once, but
\* never takes away an answer that somebody is there to read.
OneAnswer ==
  \A s \in Sockets : peer[s] = "up" =>
    /\ \A i \in Asked(s), j \in Asked(s) : i = j
    /\ \A i \in Answered(s), j \in Answered(s) : i = j
    /\ Asked(s) = {} \/ Answered(s) = {}
    /\ client[s] \in {"wait_users", "wait_rooms"} <=> Asked(s) \cup Answered(s) # {}
    /\ \A i \in Asked(s) : toServer[s][i].type =
         IF client[s] = "wait_users" THEN "get_users_request" ELSE "get_rooms_request"
    /\ \A i \in Answered(s) : toClient[s][i].type =
         IF client[s] = "wait_users" THEN "get_users_response" ELSE "get_rooms_response"
=============================================================================
