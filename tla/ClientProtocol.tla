---------------------------- MODULE ClientProtocol ----------------------------
(***************************************************************************)
(* What the server may assume of a client of ClientApp: one login, then the *)
(* requests of the menu; a room that was entered is the only one it speaks  *)
(* to or leaves, and it is left before anything else is asked for.          *)
(* ChatServer makes this assumption (its variable place).                   *)
(***************************************************************************)
EXTENDS Sequences

CONSTANTS
  Users,   \* the user names a server may list
  Rooms,   \* the room names
  None     \* no name in a message

VARIABLES
  place,      \* "new", "menu" or the room the client is in
  connected,  \* the connection stands
  toServer    \* the messages on their way to the server

Message(type, name) == [type |-> type, name |-> name]

\* A message is sent, or lost with the connection.
Put(type, name) ==
  /\ toServer' = IF connected THEN Append(toServer, Message(type, name)) ELSE toServer
  /\ UNCHANGED connected

Init ==
  /\ place = "new"
  /\ connected = TRUE
  /\ toServer = <<>>

Login == place = "new" /\ place' = "menu" /\ Put("login", None)

Ask ==
  /\ place = "menu"
  /\ \/ Put("get_users_request", None)
     \/ Put("get_rooms_request", None)
  /\ UNCHANGED place

SendPrivate(u) == place = "menu" /\ Put("send_someone", u) /\ UNCHANGED place

CreateRoom(r) == place = "menu" /\ Put("create_room", r) /\ UNCHANGED place

EnterRoom(r) == place = "menu" /\ place' = r /\ Put("enter_room", r)

SendRoom(r) == place = r /\ Put("send_room", r) /\ UNCHANGED place

LeaveRoom(r) == place = r /\ place' = "menu" /\ Put("leave_room", r)

\* The server takes the next message.
Take == toServer # <<>> /\ toServer' = Tail(toServer) /\ UNCHANGED <<place, connected>>

\* The connection breaks.
Break == connected /\ connected' = FALSE /\ toServer' = <<>> /\ UNCHANGED place

Next ==
  \/ Login \/ Ask \/ Take \/ Break
  \/ \E u \in Users : SendPrivate(u)
  \/ \E r \in Rooms : CreateRoom(r) \/ EnterRoom(r) \/ SendRoom(r) \/ LeaveRoom(r)

Spec == Init /\ [][Next]_<<place, connected, toServer>>
=============================================================================
