----------------------------- MODULE ChatDirectory -----------------------------
(***************************************************************************)
(* What the server promises the people who use it, without sockets, threads *)
(* or tables: who is online, who is in which room, and who gets a message.  *)
(* A user is the name that the server shows to the others.                  *)
(***************************************************************************)
CONSTANTS Users, Rooms

VARIABLES
  online,    \* the users in the list of users
  rooms,     \* the rooms in the list of rooms
  in_room,   \* the online users in each room
  heard      \* the users the message handled last was posted to

vars == <<online, rooms, in_room, heard>>

Init ==
  /\ online = {}
  /\ rooms = {}
  /\ in_room = [r \in Rooms |-> {}]
  /\ heard = {}

Outside(u) == u \in online /\ \A r \in Rooms : u \notin in_room[r]

\* A name is nobody else's.
Login(u) ==
  /\ u \notin online
  /\ online' = online \cup {u}
  /\ heard' = {}
  /\ UNCHANGED <<rooms, in_room>>

\* One user goes, from wherever it was.
Logout(u) ==
  /\ u \in online
  /\ online' = online \ {u}
  /\ in_room' = [r \in Rooms |-> in_room[r] \ {u}]
  /\ UNCHANGED <<rooms, heard>>

\* The answer to a request goes to the one who asked.
Ask(u) ==
  /\ Outside(u)
  /\ heard' \subseteq {u}
  /\ UNCHANGED <<online, rooms, in_room>>

\* A private message, to a user who may be gone.
Tell(u, receiver) ==
  /\ Outside(u)
  /\ heard' \subseteq {receiver} \cap online
  /\ UNCHANGED <<online, rooms, in_room>>

Create(u, r) ==
  /\ Outside(u)
  /\ rooms' = rooms \cup {r}
  /\ heard' = {}
  /\ UNCHANGED <<online, in_room>>

Enter(u, r) ==
  /\ Outside(u)
  /\ r \in rooms
  /\ in_room' = [in_room EXCEPT ![r] = @ \cup {u}]
  /\ heard' = {}
  /\ UNCHANGED <<online, rooms>>

\* A message to a room stays in the room.
TellRoom(u, r) ==
  /\ u \in in_room[r]
  /\ heard' \subseteq in_room[r]
  /\ UNCHANGED <<online, rooms, in_room>>

Leave(u, r) ==
  /\ u \in in_room[r]
  /\ in_room' = [in_room EXCEPT ![r] = @ \ {u}]
  /\ heard' = {}
  /\ UNCHANGED <<online, rooms>>

Quiet ==
  /\ heard' = {}
  /\ UNCHANGED <<online, rooms, in_room>>

Next ==
  \/ Quiet
  \/ \E u \in Users :
       \/ Login(u) \/ Logout(u) \/ Ask(u)
       \/ \E receiver \in Users : Tell(u, receiver)
       \/ \E r \in Rooms : Create(u, r) \/ Enter(u, r) \/ TellRoom(u, r) \/ Leave(u, r)

Spec == Init /\ [][Next]_vars
=============================================================================
