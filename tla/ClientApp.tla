------------------------------- MODULE ClientApp -------------------------------
(***************************************************************************)
(* ClientApp: the main thread with its menu, the receive thread, and what   *)
(* they share: user_list, room_list and the auto-reset event hEvent, which  *)
(* serves both lists.  The server is an environment that answers a request  *)
(* at most once and in order, and forwards messages whenever it likes.      *)
(*                                                                         *)
(* send_sync's result is ignored everywhere but at the login.  The frames   *)
(* of StreamParser are the messages here.                                   *)
(***************************************************************************)
EXTENDS Naturals, Sequences, FiniteSets

CONSTANTS
  Users,      \* the keys a server may list in user_list
  Rooms,      \* the names in room_list, and those a client may create
  None,       \* no name, no frame
  Capacity    \* bound: the messages a direction of the connection holds

ASSUME ClientAssumption ==
  /\ Rooms \cap {"new", "menu"} = {}
  /\ None \notin Users \cup Rooms
  /\ Capacity \in Nat

VARIABLES
  pc,            \* where main is
  room_number,   \* main's choice from room_list
  user_list,
  room_list,
  hEvent,        \* the event is signalled
  receiving,     \* recv_thread has not returned
  handling,      \* the frame a handler of recv_thread is working on
  connected,     \* the connection stands
  toServer,      \* the messages on their way to the server
  toClient       \* the frames on their way to recv_thread

mainVars == <<pc, room_number>>
recvVars == <<user_list, room_list, receiving, handling, toClient>>
vars     == <<mainVars, recvVars, hEvent, connected, toServer>>

\* What the keys of a map make: no name appears twice.
Lists(names) ==
  {l \in UNION {[1 .. n -> names] : n \in 0 .. Cardinality(names)} :
     \A i, j \in DOMAIN l : l[i] = l[j] => i = j}

Message(type, name) == [type |-> type, name |-> name]

UsersFrame(l) == [type |-> "get_users_response", list |-> l]
RoomsFrame(l) == [type |-> "get_rooms_response", list |-> l]
TextFrame     == [type |-> "message", list |-> <<>>]

Requests == {"get_users_request", "get_rooms_request"}
Messages ==
  [type : Requests \cup {"login", "send_someone", "create_room",
                         "enter_room", "send_room", "leave_room"},
   name : Users \cup Rooms \cup {None}]

Frames ==
  [type : {"get_users_response"}, list : Seq(Users)]
    \cup [type : {"get_rooms_response"}, list : Seq(Rooms)] \cup {TextFrame}

PCs == {"login", "menu", "wait_users", "users", "wait_rooms", "choose", "room", "exited"}

ClientTypeOK ==
  /\ pc \in PCs
  /\ room_number \in Nat
  /\ user_list \in Seq(Users)
  /\ room_list \in Seq(Rooms)
  /\ hEvent \in BOOLEAN
  /\ receiving \in BOOLEAN
  /\ handling \in Frames \cup {None}
  /\ connected \in BOOLEAN
  /\ toServer \in Seq(Messages)
  /\ toClient \in Seq(Frames)

\* main has connected, made the session and created recv_thread.
Init ==
  /\ pc = "login"
  /\ room_number = 0
  /\ user_list = <<>>
  /\ room_list = <<>>
  /\ hEvent = FALSE
  /\ receiving = TRUE
  /\ handling = None
  /\ connected = TRUE
  /\ toServer = <<>>
  /\ toClient = <<>>

-----------------------------------------------------------------------------
(* The main thread. *)

\* send_sync: it blocks while the connection holds all it can.  On a broken
\* connection the bytes are lost, and nobody looks at the result.
Send(type, name) ==
  /\ connected => Len(toServer) < Capacity
  /\ toServer' = IF connected THEN Append(toServer, Message(type, name)) ELSE toServer
  /\ UNCHANGED <<recvVars, connected>>

Login ==
  /\ pc = "login"
  /\ Send("login", None)
  /\ pc' = "menu"
  /\ UNCHANGED <<room_number, hEvent>>

\* The only send whose failure is noticed.
LoginFails ==
  /\ pc = "login"
  /\ ~connected
  /\ pc' = "exited"
  /\ UNCHANGED <<room_number, recvVars, hEvent, connected, toServer>>

AskUsers ==
  /\ pc = "menu"
  /\ Send("get_users_request", None)
  /\ pc' = "wait_users"
  /\ UNCHANGED <<room_number, hEvent>>

AskRooms ==
  /\ pc = "menu"
  /\ Send("get_rooms_request", None)
  /\ pc' = "wait_rooms"
  /\ UNCHANGED <<room_number, hEvent>>

\* Mistake: CreateEvent(NULL, TRUE, ...): the event is reset by nobody.
WakeKeepsEvent ==
  /\ hEvent
  /\ \/ pc = "wait_users" /\ pc' = "users"
     \/ pc = "wait_rooms" /\ pc' = "choose"
  /\ UNCHANGED <<room_number, recvVars, hEvent, connected, toServer>>

\* WaitForSingleObject returns and resets the event.
Wake ==
  /\ hEvent
  /\ hEvent' = FALSE
  /\ \/ pc = "wait_users" /\ pc' = "users"
     \/ pc = "wait_rooms" /\ pc' = "choose"
  /\ UNCHANGED <<room_number, recvVars, connected, toServer>>

\* A number out of range is asked for again, one in range is the receiver.
SendPrivate(number) ==
  /\ pc = "users"
  /\ number < Len(user_list)
  /\ Send("send_someone", user_list[number + 1])
  /\ UNCHANGED <<mainVars, hEvent>>

CreateRoom(r) ==
  /\ pc = "menu"
  /\ Send("create_room", r)
  /\ UNCHANGED <<mainVars, hEvent>>

EnterRoom(number) ==
  /\ pc = "choose"
  /\ number < Len(room_list)
  /\ Send("enter_room", room_list[number + 1])
  /\ room_number' = number
  /\ pc' = "room"
  /\ UNCHANGED hEvent

SendRoom ==
  /\ pc = "room"
  /\ Send("send_room", room_list[room_number + 1])
  /\ UNCHANGED <<mainVars, hEvent>>

\* Mistake: "q" ends the loop before the message is sent.
LeaveQuietly ==
  /\ pc = "room"
  /\ pc' = "menu"
  /\ UNCHANGED <<room_number, recvVars, hEvent, connected, toServer>>

LeaveRoom ==
  /\ pc = "room"
  /\ Send("leave_room", room_list[room_number + 1])
  /\ pc' = "menu"
  /\ UNCHANGED <<room_number, hEvent>>

\* "q" at the list of users, or a number out of range at that of rooms.
BackToMenu ==
  /\ pc \in {"users", "choose"}
  /\ pc' = "menu"
  /\ UNCHANGED <<room_number, recvVars, hEvent, connected, toServer>>

Main ==
  \/ Login \/ LoginFails \/ AskUsers \/ AskRooms \/ Wake
  \/ \E number \in 0 .. Len(user_list) : SendPrivate(number)
  \/ \E r \in Rooms : CreateRoom(r)
  \/ \E number \in 0 .. Len(room_list) : EnterRoom(number)
  \/ SendRoom \/ LeaveRoom \/ BackToMenu

-----------------------------------------------------------------------------
(* The receive thread. *)

\* recv returned a frame, and its handler starts.
Receive ==
  /\ receiving
  /\ handling = None
  /\ toClient # <<>>
  /\ handling' = Head(toClient)
  /\ toClient' = Tail(toClient)
  /\ UNCHANGED <<mainVars, user_list, room_list, receiving, hEvent, connected, toServer>>

\* Mistake: the handler of get_rooms_response sets no event.
HandleWithoutEvent ==
  /\ handling # None
  /\ user_list' = IF handling.type = "get_users_response" THEN handling.list ELSE user_list
  /\ room_list' = IF handling.type = "get_rooms_response" THEN handling.list ELSE room_list
  /\ hEvent' = (hEvent \/ handling.type = "get_users_response")
  /\ handling' = None
  /\ UNCHANGED <<mainVars, receiving, toClient, connected, toServer>>

\* Mistake: the handler of get_rooms_response stores the names as users.
HandleIntoUsers ==
  /\ handling # None
  /\ user_list' = IF handling.type # "message" THEN handling.list ELSE user_list
  /\ hEvent' = (hEvent \/ handling.type # "message")
  /\ handling' = None
  /\ UNCHANGED <<mainVars, room_list, receiving, toClient, connected, toServer>>

\* Mistake: a message of a user who may be new makes the users be forgotten, so
\* that they are asked for again.
HandleForgetsUsers ==
  /\ handling # None
  /\ user_list' = IF handling.type = "get_rooms_response" THEN user_list ELSE handling.list
  /\ room_list' = IF handling.type = "get_rooms_response" THEN handling.list ELSE room_list
  /\ hEvent' = (hEvent \/ handling.type # "message")
  /\ handling' = None
  /\ UNCHANGED <<mainVars, receiving, toClient, connected, toServer>>

\* The handler ends: a list is stored and the event set, or a message printed.
Handle ==
  /\ handling # None
  /\ user_list' = IF handling.type = "get_users_response" THEN handling.list ELSE user_list
  /\ room_list' = IF handling.type = "get_rooms_response" THEN handling.list ELSE room_list
  /\ hEvent' = (hEvent \/ handling.type # "message")
  /\ handling' = None
  /\ UNCHANGED <<mainVars, receiving, toClient, connected, toServer>>

\* recv returns 0 or an error: the thread ends.
RecvEnds ==
  /\ receiving
  /\ handling = None
  /\ ~connected
  /\ toClient = <<>>
  /\ receiving' = FALSE
  /\ UNCHANGED <<mainVars, user_list, room_list, handling, toClient, hEvent, connected, toServer>>

\* The thread ends with the process at the latest.
RecvThread == pc # "exited" /\ (Receive \/ Handle \/ RecvEnds)

-----------------------------------------------------------------------------
(* The server and the network. *)

\* The server takes a message and answers with a list, or not at all.
Serve ==
  /\ connected
  /\ toServer # <<>>
  /\ toServer' = Tail(toServer)
  /\ CASE Head(toServer).type = "get_users_request" ->
            \E l \in Lists(Users) : toClient' = Append(toClient, UsersFrame(l))
       [] Head(toServer).type = "get_rooms_request" ->
            \E l \in Lists(Rooms) : toClient' = Append(toClient, RoomsFrame(l))
       [] OTHER -> UNCHANGED toClient
  /\ UNCHANGED <<mainVars, user_list, room_list, receiving, handling, hEvent, connected>>

\* Somebody's message arrives.
Forward ==
  /\ connected
  /\ Len(toClient) < Capacity
  /\ toClient' = Append(toClient, TextFrame)
  /\ UNCHANGED <<mainVars, user_list, room_list, receiving, handling, hEvent, connected, toServer>>

\* The connection ends; of the frames under way, a reset loses the rest.
Break ==
  /\ connected
  /\ connected' = FALSE
  /\ toServer' = <<>>
  /\ \E n \in 0 .. Len(toClient) : toClient' = SubSeq(toClient, 1, n)
  /\ UNCHANGED <<mainVars, user_list, room_list, receiving, handling, hEvent>>

Server == Serve \/ Forward \/ Break

Next == Main \/ RecvThread \/ Server

Spec == Init /\ [][Next]_vars

\* Neither thread stops where it can go on, and the server answers.  The user
\* at the keyboard owes nothing.
FairSpec ==
  Spec /\ WF_vars(Wake) /\ WF_vars(RecvThread) /\ WF_vars(Serve)

-----------------------------------------------------------------------------
(* Properties. *)

\* The answers that main may be waiting for.
Awaited ==
  CASE pc = "wait_users" -> {"get_users_response"}
    [] pc = "wait_rooms" -> {"get_rooms_response"}
    [] OTHER             -> {}

IsAnswer(frame) == frame # None /\ frame.type # "message"

\* Whenever main is not waiting no request and no answer is under way and the
\* event is clear: the next wait cannot end with the answer to an earlier
\* request, although one event serves both lists.
NoStaleAnswer ==
  Awaited = {} =>
    /\ ~hEvent
    /\ ~IsAnswer(handling)
    /\ \A i \in 1 .. Len(toClient) : ~IsAnswer(toClient[i])
    /\ \A i \in 1 .. Len(toServer) : toServer[i].type \notin Requests

\* recv_thread changes a list only while main waits for that very list and has
\* not been told yet.  So the numbers main has shown stay those of the users and
\* rooms it shows them for, down to the room it leaves by its number, and the
\* answer for one list never replaces the other - without a lock on either.
ListsChangeInTheirWait ==
  [][/\ user_list' # user_list => pc = "wait_users" /\ ~hEvent
     /\ room_list' # room_list => pc = "wait_rooms" /\ ~hEvent]_vars

\* The place of the client in the protocol the server relies on.
Place ==
  CASE pc \in {"login", "exited"} -> "new"
    [] pc = "room"                -> room_list[room_number + 1]
    [] OTHER                      -> "menu"

Protocol == INSTANCE ClientProtocol WITH place <- Place

\* The client keeps to the protocol: it logs in once, and leaves the room it
\* entered, by the name it entered it, before it asks for anything else.
ProtocolSpec == Protocol!Spec

\* A wait for a list ends as long as the connection stands; WaitForSingleObject
\* has no timeout of its own.
WaitEnds == Awaited # {} ~> Awaited = {} \/ ~connected

-----------------------------------------------------------------------------
(* The inductive invariant. *)

Asks(m) == m.type \in Requests

AnswerTo == [type \in Requests |->
  IF type = "get_users_request" THEN "get_users_response" ELSE "get_rooms_response"]

\* What is under way is what main is waiting for ...
OnlyAwaited ==
  /\ \A i \in 1 .. Len(toServer) : Asks(toServer[i]) => AnswerTo[toServer[i].type] \in Awaited
  /\ \A i \in 1 .. Len(toClient) : IsAnswer(toClient[i]) => toClient[i].type \in Awaited
  /\ IsAnswer(handling) => handling.type \in Awaited
  /\ hEvent => Awaited # {}

\* ... and it is in one place: a request, an answer, a handler, or the event.
OnePlace ==
  /\ \A i, j \in 1 .. Len(toServer) : Asks(toServer[i]) /\ Asks(toServer[j]) => i = j
  /\ \A i, j \in 1 .. Len(toClient) : IsAnswer(toClient[i]) /\ IsAnswer(toClient[j]) => i = j
  /\ (hEvent \/ IsAnswer(handling) \/ \E i \in 1 .. Len(toClient) : IsAnswer(toClient[i])) =>
       \A j \in 1 .. Len(toServer) : ~Asks(toServer[j])
  /\ (hEvent \/ IsAnswer(handling)) => \A j \in 1 .. Len(toClient) : ~IsAnswer(toClient[j])
  /\ hEvent => ~IsAnswer(handling)

\* main is in a room that is in its list.
RoomChosen == pc = "room" => room_number < Len(room_list)

ClientInv == ClientTypeOK /\ OnlyAwaited /\ OnePlace /\ RoomChosen
=============================================================================
