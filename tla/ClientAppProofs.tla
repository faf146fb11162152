---------------------------- MODULE ClientAppProofs ----------------------------
(***************************************************************************)
(* Proofs about ClientApp for any names and any capacity of the connection: *)
(* what main waits for is in one place, so its lists are stable while it    *)
(* reads them, and it keeps to the protocol the server relies on.           *)
(***************************************************************************)
EXTENDS ClientApp, TLAPS

LEMMA TailFacts ==
  ASSUME NEW S, NEW q \in Seq(S), q # <<>>
  PROVE  /\ Tail(q) \in Seq(S) /\ Len(q) \in Nat /\ Len(Tail(q)) = Len(q) - 1
         /\ 1 \in 1 .. Len(q) /\ Head(q) = q[1] /\ q[1] \in S
         /\ \A i \in 1 .. Len(Tail(q)) : i + 1 \in 1 .. Len(q) /\ Tail(q)[i] = q[i + 1]
OBVIOUS

LEMMA AppendFacts ==
  ASSUME NEW S, NEW q \in Seq(S), NEW e \in S
  PROVE  /\ Append(q, e) \in Seq(S) /\ Len(q) \in Nat /\ Len(Append(q, e)) = Len(q) + 1
         /\ \A i \in 1 .. Len(q) : Append(q, e)[i] = q[i]
         /\ Append(q, e)[Len(q) + 1] = e
OBVIOUS

\* The lists a server sends are sequences.
LEMMA ListsAreSeqs ==
  ASSUME NEW S, NEW l \in Lists(S)
  PROVE  l \in Seq(S)
BY DEF Lists

LEMMA ClientInvInit ==
  ASSUME Init
  PROVE  ClientInv
<1>1. ClientTypeOK
  <2>1. toServer = <<>> /\ toClient = <<>> /\ user_list = <<>> /\ room_list = <<>>
    BY DEF Init
  <2>2. toServer \in Seq(Messages) /\ toClient \in Seq(Frames)
    BY <2>1
  <2>3. user_list \in Seq(Users) /\ room_list \in Seq(Rooms)
    BY <2>1
  <2> QED BY <2>2, <2>3 DEF Init, ClientTypeOK, PCs
<1>2. Len(toServer) = 0 /\ Len(toClient) = 0 /\ handling = None /\ ~hEvent /\ pc = "login"
  BY DEF Init
<1> QED BY <1>1, <1>2 DEF ClientInv, OnlyAwaited, OnePlace, RoomChosen, IsAnswer

\* What Send does to the messages under way.
LEMMA SendFacts ==
  ASSUME ClientTypeOK, NEW m \in Messages, Send(m.type, m.name)
  PROVE  /\ toServer' \in Seq(Messages)
         /\ UNCHANGED <<user_list, room_list, receiving, handling, toClient, connected>>
         /\ \/ toServer' = toServer
            \/ toServer' = Append(toServer, m)
<1>1. Message(m.type, m.name) = m
  BY DEF Message, Messages
<1>2. toServer' = toServer \/ toServer' = Append(toServer, m)
  BY <1>1 DEF Send
<1>3. toServer' \in Seq(Messages)
  BY <1>2, AppendFacts DEF ClientTypeOK
<1> QED BY <1>2, <1>3 DEF Send, recvVars

\* Sending what is no request leaves the invariant's sequences alone.
LEMMA SendNoRequest ==
  ASSUME ClientInv, NEW m \in Messages, Send(m.type, m.name), ~Asks(m),
         Awaited = {}, Awaited' = {}, UNCHANGED hEvent
  PROVE  OnlyAwaited' /\ OnePlace'
<1>1. /\ UNCHANGED <<handling, toClient>>
      /\ toServer' = toServer \/ toServer' = Append(toServer, m)
  BY SendFacts DEF ClientInv
<1>2. toServer \in Seq(Messages)
  BY DEF ClientInv, ClientTypeOK
<1>3. \A j \in 1 .. Len(toServer) : ~Asks(toServer[j])
  BY DEF ClientInv, OnlyAwaited
<1>4. \A j \in 1 .. Len(toServer') : ~Asks(toServer'[j])
  <2>1. CASE toServer' = toServer
    BY <1>3, <2>1
  <2>2. CASE toServer' = Append(toServer, m)
    BY <1>2, <1>3, <2>2, AppendFacts
  <2> QED BY <1>1, <2>1, <2>2
<1>5. /\ ~hEvent /\ ~IsAnswer(handling)
      /\ \A i \in 1 .. Len(toClient) : ~IsAnswer(toClient[i])
  BY DEF ClientInv, OnlyAwaited
<1> QED BY <1>1, <1>4, <1>5 DEF OnlyAwaited, OnePlace, IsAnswer, Asks

\* A request is sent when nothing is under way, and is awaited.
LEMMA SendRequest ==
  ASSUME ClientInv, NEW m \in Messages, Send(m.type, m.name), Asks(m),
         Awaited = {}, Awaited' = {AnswerTo[m.type]}, UNCHANGED hEvent
  PROVE  OnlyAwaited' /\ OnePlace'
<1>1. /\ UNCHANGED <<handling, toClient>>
      /\ toServer' = toServer \/ toServer' = Append(toServer, m)
  BY SendFacts DEF ClientInv
<1>2. toServer \in Seq(Messages) /\ Len(toServer) \in Nat
  BY DEF ClientInv, ClientTypeOK
<1>3. \A j \in 1 .. Len(toServer) : ~Asks(toServer[j])
  BY DEF ClientInv, OnlyAwaited
<1>4. /\ ~hEvent /\ ~IsAnswer(handling)
      /\ \A i \in 1 .. Len(toClient) : ~IsAnswer(toClient[i])
  BY DEF ClientInv, OnlyAwaited
<1>5. \A j \in 1 .. Len(toServer') : Asks(toServer'[j]) => toServer'[j] = m /\ j = Len(toServer) + 1
  <2>1. CASE toServer' = toServer
    BY <1>3, <2>1
  <2>2. CASE toServer' = Append(toServer, m)
    BY <1>2, <1>3, <2>2, AppendFacts
  <2> QED BY <1>1, <2>1, <2>2
<1>6. OnlyAwaited'
  BY <1>1, <1>4, <1>5 DEF OnlyAwaited, IsAnswer, Asks
<1>7. OnePlace'
  BY <1>1, <1>4, <1>5 DEF OnePlace, IsAnswer, Asks
<1> QED BY <1>6, <1>7

LEMMA MainKeeps ==
  ASSUME ClientAssumption, ClientInv, Main
  PROVE  ClientInv'
<1>0. /\ ClientTypeOK /\ OnlyAwaited /\ OnePlace /\ RoomChosen
      /\ user_list \in Seq(Users) /\ room_list \in Seq(Rooms) /\ room_number \in Nat
  BY DEF ClientInv, ClientTypeOK
<1>1. CASE Login
  <2> DEFINE m == Message("login", None)
  <2>1. m \in Messages /\ ~Asks(m) /\ m.type = "login" /\ m.name = None
    BY DEF Message, Messages, Asks, Requests
  <2>2. /\ Send(m.type, m.name) /\ pc = "login" /\ pc' = "menu"
        /\ UNCHANGED <<room_number, hEvent>>
    BY <1>1, <2>1 DEF Login
  <2>3. Awaited = {} /\ Awaited' = {}
    BY <2>2 DEF Awaited
  <2> HIDE DEF m
  <2>4. OnlyAwaited' /\ OnePlace'
    BY <2>1, <2>2, <2>3, SendNoRequest
  <2> QED BY <1>0, <2>1, <2>2, <2>4, SendFacts DEF ClientInv, ClientTypeOK, RoomChosen, PCs
<1>2. CASE LoginFails
  BY <1>2 DEF LoginFails, ClientInv, ClientTypeOK, OnlyAwaited, OnePlace, RoomChosen, PCs,
              Awaited, recvVars, IsAnswer, Asks
<1>3. CASE AskUsers
  <2> DEFINE m == Message("get_users_request", None)
  <2>1. m \in Messages /\ Asks(m) /\ m.type = "get_users_request" /\ m.name = None
    BY DEF Message, Messages, Asks, Requests
  <2>2. /\ Send(m.type, m.name) /\ pc = "menu" /\ pc' = "wait_users"
        /\ UNCHANGED <<room_number, hEvent>>
    BY <1>3, <2>1 DEF AskUsers
  <2>3. Awaited = {} /\ Awaited' = {AnswerTo[m.type]}
    BY <2>1, <2>2 DEF Awaited, AnswerTo, Requests
  <2> HIDE DEF m
  <2>4. OnlyAwaited' /\ OnePlace'
    BY <2>1, <2>2, <2>3, SendRequest
  <2> QED BY <1>0, <2>1, <2>2, <2>4, SendFacts DEF ClientInv, ClientTypeOK, RoomChosen, PCs
<1>4. CASE AskRooms
  <2> DEFINE m == Message("get_rooms_request", None)
  <2>1. m \in Messages /\ Asks(m) /\ m.type = "get_rooms_request" /\ m.name = None
    BY DEF Message, Messages, Asks, Requests
  <2>2. /\ Send(m.type, m.name) /\ pc = "menu" /\ pc' = "wait_rooms"
        /\ UNCHANGED <<room_number, hEvent>>
    BY <1>4, <2>1 DEF AskRooms
  <2>3. Awaited = {} /\ Awaited' = {AnswerTo[m.type]}
    BY <2>1, <2>2 DEF Awaited, AnswerTo, Requests
  <2> HIDE DEF m
  <2>4. OnlyAwaited' /\ OnePlace'
    BY <2>1, <2>2, <2>3, SendRequest
  <2> QED BY <1>0, <2>1, <2>2, <2>4, SendFacts DEF ClientInv, ClientTypeOK, RoomChosen, PCs
<1>5. CASE Wake
  <2>1. /\ hEvent /\ hEvent' = FALSE /\ pc' \in {"users", "choose"} /\ Awaited' = {}
        /\ UNCHANGED <<room_number, user_list, room_list, receiving, handling, toClient>>
        /\ UNCHANGED <<connected, toServer>>
    BY <1>5 DEF Wake, Awaited, recvVars
  <2>2. /\ ~IsAnswer(handling)
        /\ \A i \in 1 .. Len(toClient) : ~IsAnswer(toClient[i])
        /\ \A i \in 1 .. Len(toServer) : ~Asks(toServer[i])
    BY <1>0, <2>1 DEF OnePlace
  <2>3. OnlyAwaited' /\ OnePlace'
    BY <2>1, <2>2 DEF OnlyAwaited, OnePlace, IsAnswer, Asks
  <2> QED BY <1>0, <2>1, <2>3 DEF ClientInv, ClientTypeOK, RoomChosen, PCs
<1>6. ASSUME NEW number \in 0 .. Len(user_list), SendPrivate(number) PROVE ClientInv'
  <2> DEFINE m == Message("send_someone", user_list[number + 1])
  <2>1. user_list[number + 1] \in Users
    BY <1>0, <1>6 DEF SendPrivate
  <2>2. m \in Messages /\ ~Asks(m) /\ m.type = "send_someone" /\ m.name = user_list[number + 1]
    BY <2>1 DEF Message, Messages, Asks, Requests
  <2>3. Send(m.type, m.name) /\ pc = "users" /\ UNCHANGED <<pc, room_number, hEvent>>
    BY <1>6, <2>2 DEF SendPrivate, mainVars
  <2>4. Awaited = {} /\ Awaited' = {}
    BY <2>3 DEF Awaited
  <2> HIDE DEF m
  <2>5. OnlyAwaited' /\ OnePlace'
    BY <2>2, <2>3, <2>4, SendNoRequest
  <2> QED BY <1>0, <2>2, <2>3, <2>5, SendFacts DEF ClientInv, ClientTypeOK, RoomChosen
<1>7. ASSUME NEW r \in Rooms, CreateRoom(r) PROVE ClientInv'
  <2> DEFINE m == Message("create_room", r)
  <2>1. m \in Messages /\ ~Asks(m) /\ m.type = "create_room" /\ m.name = r
    BY DEF Message, Messages, Asks, Requests
  <2>2. Send(m.type, m.name) /\ pc = "menu" /\ UNCHANGED <<pc, room_number, hEvent>>
    BY <1>7, <2>1 DEF CreateRoom, mainVars
  <2>3. Awaited = {} /\ Awaited' = {}
    BY <2>2 DEF Awaited
  <2> HIDE DEF m
  <2>4. OnlyAwaited' /\ OnePlace'
    BY <2>1, <2>2, <2>3, SendNoRequest
  <2> QED BY <1>0, <2>1, <2>2, <2>4, SendFacts DEF ClientInv, ClientTypeOK, RoomChosen
<1>8. ASSUME NEW number \in 0 .. Len(room_list), EnterRoom(number) PROVE ClientInv'
  <2> DEFINE m == Message("enter_room", room_list[number + 1])
  <2>1. room_list[number + 1] \in Rooms /\ number \in Nat /\ number < Len(room_list)
    BY <1>0, <1>8 DEF EnterRoom
  <2>2. m \in Messages /\ ~Asks(m) /\ m.type = "enter_room" /\ m.name = room_list[number + 1]
    BY <2>1 DEF Message, Messages, Asks, Requests
  <2>3. /\ Send(m.type, m.name) /\ pc = "choose" /\ pc' = "room" /\ room_number' = number
        /\ UNCHANGED hEvent
    BY <1>8, <2>2 DEF EnterRoom
  <2>4. Awaited = {} /\ Awaited' = {}
    BY <2>3 DEF Awaited
  <2> HIDE DEF m
  <2>5. OnlyAwaited' /\ OnePlace'
    BY <2>2, <2>3, <2>4, SendNoRequest
  <2> QED BY <1>0, <2>1, <2>2, <2>3, <2>5, SendFacts DEF ClientInv, ClientTypeOK, RoomChosen, PCs
<1>9. CASE SendRoom
  <2> DEFINE m == Message("send_room", room_list[room_number + 1])
  <2>1. room_list[room_number + 1] \in Rooms
    BY <1>0, <1>9 DEF SendRoom, RoomChosen
  <2>2. m \in Messages /\ ~Asks(m) /\ m.type = "send_room" /\ m.name = room_list[room_number + 1]
    BY <2>1 DEF Message, Messages, Asks, Requests
  <2>3. Send(m.type, m.name) /\ pc = "room" /\ UNCHANGED <<pc, room_number, hEvent>>
    BY <1>9, <2>2 DEF SendRoom, mainVars
  <2>4. Awaited = {} /\ Awaited' = {}
    BY <2>3 DEF Awaited
  <2> HIDE DEF m
  <2>5. OnlyAwaited' /\ OnePlace'
    BY <2>2, <2>3, <2>4, SendNoRequest
  <2> QED BY <1>0, <2>2, <2>3, <2>5, SendFacts DEF ClientInv, ClientTypeOK, RoomChosen
<1>10. CASE LeaveRoom
  <2> DEFINE m == Message("leave_room", room_list[room_number + 1])
  <2>1. room_list[room_number + 1] \in Rooms
    BY <1>0, <1>10 DEF LeaveRoom, RoomChosen
  <2>2. m \in Messages /\ ~Asks(m) /\ m.type = "leave_room" /\ m.name = room_list[room_number + 1]
    BY <2>1 DEF Message, Messages, Asks, Requests
  <2>3. Send(m.type, m.name) /\ pc = "room" /\ pc' = "menu" /\ UNCHANGED <<room_number, hEvent>>
    BY <1>10, <2>2 DEF LeaveRoom
  <2>4. Awaited = {} /\ Awaited' = {}
    BY <2>3 DEF Awaited
  <2> HIDE DEF m
  <2>5. OnlyAwaited' /\ OnePlace'
    BY <2>2, <2>3, <2>4, SendNoRequest
  <2> QED BY <1>0, <2>2, <2>3, <2>5, SendFacts DEF ClientInv, ClientTypeOK, RoomChosen, PCs
<1>11. CASE BackToMenu
  <2>1. /\ Awaited = {} /\ Awaited' = {} /\ pc' = "menu"
        /\ UNCHANGED <<room_number, user_list, room_list, receiving, handling, toClient>>
        /\ UNCHANGED <<hEvent, connected, toServer>>
    BY <1>11 DEF BackToMenu, Awaited, recvVars
  <2>2. OnlyAwaited' /\ OnePlace'
    BY <1>0, <2>1 DEF OnlyAwaited, OnePlace, IsAnswer, Asks
  <2> QED BY <1>0, <2>1, <2>2 DEF ClientInv, ClientTypeOK, RoomChosen, PCs
<1> QED BY <1>1, <1>2, <1>3, <1>4, <1>5, <1>6, <1>7, <1>8, <1>9, <1>10, <1>11 DEF Main

\* A move of recv_thread takes the answer one place further.
LEMMA RecvThreadKeeps ==
  ASSUME ClientAssumption, ClientInv, RecvThread
  PROVE  ClientInv'
<1>0. /\ ClientTypeOK /\ OnlyAwaited /\ OnePlace /\ RoomChosen
      /\ user_list \in Seq(Users) /\ room_list \in Seq(Rooms) /\ room_number \in Nat
      /\ toClient \in Seq(Frames) /\ toServer \in Seq(Messages)
  BY DEF ClientInv, ClientTypeOK
<1>1. CASE Receive
  <2> DEFINE f == toClient[1]
  <2>1. /\ handling = None /\ handling' = f /\ toClient # <<>> /\ toClient' = Tail(toClient)
        /\ UNCHANGED <<pc, room_number, user_list, room_list, receiving, hEvent>>
        /\ UNCHANGED <<connected, toServer>>
    BY <1>0, <1>1 DEF Receive, mainVars
  <2>2. /\ toClient' \in Seq(Frames) /\ Len(toClient) \in Nat /\ Len(toClient') = Len(toClient) - 1
        /\ 1 \in 1 .. Len(toClient) /\ f \in Frames
        /\ \A i \in 1 .. Len(toClient') : i + 1 \in 1 .. Len(toClient) /\ toClient'[i] = toClient[i + 1]
    BY <1>0, <2>1, TailFacts
  <2>3. ClientTypeOK'
    BY <1>0, <2>1, <2>2 DEF ClientTypeOK
  <2>4. Awaited' = Awaited
    BY <2>1 DEF Awaited
  <2>5. \A i \in 1 .. Len(toClient') : IsAnswer(f) => ~IsAnswer(toClient'[i])
    <3> SUFFICES ASSUME NEW i \in 1 .. Len(toClient'), IsAnswer(f), IsAnswer(toClient'[i])
                 PROVE  FALSE
      OBVIOUS
    <3>1. i + 1 \in 1 .. Len(toClient) /\ IsAnswer(toClient[i + 1])
      BY <2>2
    <3>2. 1 = i + 1
      BY <1>0, <2>2, <3>1 DEF OnePlace
    <3> QED BY <3>2
  <2>6. OnlyAwaited'
    <3>1. \A i \in 1 .. Len(toClient') : IsAnswer(toClient'[i]) => toClient'[i].type \in Awaited
      BY <1>0, <2>2 DEF OnlyAwaited
    <3>2. IsAnswer(f) => f.type \in Awaited
      BY <1>0, <2>2 DEF OnlyAwaited
    <3> HIDE DEF f
    <3> QED BY <1>0, <2>1, <2>4, <3>1, <3>2 DEF OnlyAwaited, IsAnswer, Asks
  <2>7. OnePlace'
    <3>1. \A i, j \in 1 .. Len(toClient') :
             IsAnswer(toClient'[i]) /\ IsAnswer(toClient'[j]) => i = j
      <4> SUFFICES ASSUME NEW i \in 1 .. Len(toClient'), NEW j \in 1 .. Len(toClient'),
                          IsAnswer(toClient'[i]), IsAnswer(toClient'[j])
                   PROVE  i = j
        OBVIOUS
      <4>1. i + 1 = j + 1
        BY <1>0, <2>2 DEF OnePlace
      <4> QED BY <4>1
    <3>2. hEvent => ~IsAnswer(f)
      BY <1>0, <2>2 DEF OnePlace
    <3>3. (IsAnswer(f) \/ \E i \in 1 .. Len(toClient') : IsAnswer(toClient'[i])) =>
            \E i \in 1 .. Len(toClient) : IsAnswer(toClient[i])
      BY <2>2
    <3>4. hEvent => \A i \in 1 .. Len(toClient') : ~IsAnswer(toClient'[i])
      BY <1>0, <2>2 DEF OnePlace
    <3>5. (hEvent \/ IsAnswer(f) \/ \E i \in 1 .. Len(toClient') : IsAnswer(toClient'[i])) =>
            \A j \in 1 .. Len(toServer) : ~Asks(toServer[j])
      BY <1>0, <3>3 DEF OnePlace
    <3>6. \A i, j \in 1 .. Len(toServer) : Asks(toServer[i]) /\ Asks(toServer[j]) => i = j
      BY <1>0 DEF OnePlace
    <3> HIDE DEF f
    <3> QED BY <2>1, <2>5, <3>1, <3>2, <3>4, <3>5, <3>6 DEF OnePlace, IsAnswer, Asks
  <2> QED BY <1>0, <2>1, <2>3, <2>6, <2>7 DEF ClientInv, RoomChosen
<1>2. CASE Handle
  <2>1. /\ handling # None /\ handling' = None /\ hEvent' = (hEvent \/ handling.type # "message")
        /\ user_list' = IF handling.type = "get_users_response" THEN handling.list ELSE user_list
        /\ room_list' = IF handling.type = "get_rooms_response" THEN handling.list ELSE room_list
        /\ UNCHANGED <<pc, room_number, receiving, toClient, connected, toServer>>
    BY <1>2 DEF Handle, mainVars
  <2>2. /\ handling \in Frames
        /\ handling.type = "get_users_response" => handling.list \in Seq(Users)
        /\ handling.type = "get_rooms_response" => handling.list \in Seq(Rooms)
    BY <1>0, <2>1 DEF ClientTypeOK, Frames, TextFrame
  <2>3. user_list' \in Seq(Users) /\ room_list' \in Seq(Rooms)
    BY <1>0, <2>1, <2>2
  <2>4. hEvent' \in BOOLEAN /\ (hEvent' <=> hEvent \/ IsAnswer(handling)) /\ ~IsAnswer(handling')
    BY <1>0, <2>1 DEF ClientTypeOK, IsAnswer
  <2>5. ClientTypeOK'
    BY <1>0, <2>1, <2>3, <2>4 DEF ClientTypeOK
  <2>6. Awaited' = Awaited
    BY <2>1 DEF Awaited
  <2>7. OnlyAwaited'
    BY <1>0, <2>1, <2>4, <2>6 DEF OnlyAwaited, IsAnswer, Asks
  <2>8. OnePlace'
    BY <1>0, <2>1, <2>4 DEF OnePlace, IsAnswer, Asks
  <2>9. RoomChosen'
    <3>1. SUFFICES ASSUME pc = "room" PROVE room_number < Len(room_list')
      BY <2>1 DEF RoomChosen
    <3>2. ~IsAnswer(handling)
      BY <1>0, <3>1 DEF OnlyAwaited, Awaited
    <3>3. room_list' = room_list
      BY <2>1, <3>2 DEF IsAnswer
    <3> QED BY <1>0, <3>1, <3>3 DEF RoomChosen
  <2> QED BY <2>5, <2>7, <2>8, <2>9 DEF ClientInv
<1>3. CASE RecvEnds
  BY <1>0, <1>3 DEF RecvEnds, mainVars, ClientInv, ClientTypeOK, OnlyAwaited, OnePlace,
                    RoomChosen, Awaited, IsAnswer, Asks
<1> QED BY <1>1, <1>2, <1>3 DEF RecvThread

\* An answer takes the place of its request.
LEMMA AnswerKeeps ==
  ASSUME ClientInv, NEW f \in Frames, toServer # <<>>, Asks(Head(toServer)),
         f.type = AnswerTo[Head(toServer).type],
         toServer' = Tail(toServer), toClient' = Append(toClient, f),
         UNCHANGED <<mainVars, user_list, room_list, receiving, handling, hEvent, connected>>
  PROVE  ClientInv'
<1>0. /\ ClientTypeOK /\ OnlyAwaited /\ OnePlace /\ RoomChosen
      /\ toClient \in Seq(Frames) /\ toServer \in Seq(Messages)
      /\ UNCHANGED <<pc, room_number>>
  BY DEF ClientInv, ClientTypeOK, mainVars
<1>1. /\ toServer' \in Seq(Messages) /\ Len(toServer) \in Nat
      /\ 1 \in 1 .. Len(toServer) /\ Head(toServer) = toServer[1]
      /\ \A i \in 1 .. Len(toServer') : i + 1 \in 1 .. Len(toServer) /\ toServer'[i] = toServer[i + 1]
  BY <1>0, TailFacts
<1>2. /\ toClient' \in Seq(Frames) /\ Len(toClient) \in Nat /\ Len(toClient') = Len(toClient) + 1
      /\ \A i \in 1 .. Len(toClient) : toClient'[i] = toClient[i]
      /\ toClient'[Len(toClient) + 1] = f
  BY <1>0, AppendFacts
<1>3. Awaited' = Awaited
  BY <1>0 DEF Awaited
<1>4. /\ Asks(toServer[1]) /\ f.type \in Awaited /\ ~hEvent /\ ~IsAnswer(handling)
      /\ \A i \in 1 .. Len(toClient) : ~IsAnswer(toClient[i])
  BY <1>0, <1>1 DEF OnlyAwaited, OnePlace
<1>5. \A i \in 1 .. Len(toServer') : ~Asks(toServer'[i])
  <2> SUFFICES ASSUME NEW i \in 1 .. Len(toServer'), Asks(toServer'[i]) PROVE FALSE
    OBVIOUS
  <2>1. i + 1 \in 1 .. Len(toServer) /\ Asks(toServer[i + 1])
    BY <1>1
  <2>2. 1 = i + 1
    BY <1>0, <1>1, <1>4, <2>1 DEF OnePlace
  <2> QED BY <2>2
<1>6. \A i \in 1 .. Len(toClient') : IsAnswer(toClient'[i]) => i = Len(toClient) + 1 /\ toClient'[i] = f
  BY <1>2, <1>4
<1>7. OnlyAwaited'
  BY <1>3, <1>4, <1>5, <1>6 DEF OnlyAwaited, IsAnswer, Asks
<1>8. OnePlace'
  BY <1>4, <1>5, <1>6 DEF OnePlace, IsAnswer, Asks
<1> QED BY <1>0, <1>1, <1>2, <1>7, <1>8 DEF ClientInv, ClientTypeOK, RoomChosen

LEMMA ServerKeeps ==
  ASSUME ClientAssumption, ClientInv, Server
  PROVE  ClientInv'
<1>0. /\ ClientTypeOK /\ OnlyAwaited /\ OnePlace /\ RoomChosen
      /\ toClient \in Seq(Frames) /\ toServer \in Seq(Messages)
  BY DEF ClientInv, ClientTypeOK
<1>1. CASE Serve
  <2> DEFINE h == Head(toServer)
  <2>1. /\ toServer # <<>> /\ toServer' = Tail(toServer)
        /\ UNCHANGED <<mainVars, user_list, room_list, receiving, handling, hEvent, connected>>
    BY <1>1 DEF Serve
  <2>2. CASE h.type = "get_users_request"
    <3>1. PICK l \in Lists(Users) : toClient' = Append(toClient, UsersFrame(l))
      BY <1>1, <2>2 DEF Serve
    <3>2. UsersFrame(l) \in Frames /\ UsersFrame(l).type = "get_users_response"
      BY ListsAreSeqs DEF UsersFrame, Frames
    <3>3. Asks(h) /\ AnswerTo[h.type] = "get_users_response"
      BY <2>2 DEF Asks, AnswerTo, Requests
    <3> QED BY <1>0, <2>1, <3>1, <3>2, <3>3, AnswerKeeps
  <2>3. CASE h.type = "get_rooms_request"
    <3>1. PICK l \in Lists(Rooms) : toClient' = Append(toClient, RoomsFrame(l))
      BY <1>1, <2>3 DEF Serve
    <3>2. RoomsFrame(l) \in Frames /\ RoomsFrame(l).type = "get_rooms_response"
      BY ListsAreSeqs DEF RoomsFrame, Frames
    <3>3. Asks(h) /\ AnswerTo[h.type] = "get_rooms_response"
      BY <2>3 DEF Asks, AnswerTo, Requests
    <3> QED BY <1>0, <2>1, <3>1, <3>2, <3>3, AnswerKeeps
  <2>4. CASE h.type \notin Requests
    <3>1. UNCHANGED toClient
      BY <1>1, <2>4 DEF Serve, Requests
    <3>2. /\ toServer' \in Seq(Messages) /\ Len(toServer) \in Nat
          /\ \A i \in 1 .. Len(toServer') : i + 1 \in 1 .. Len(toServer)
                                            /\ toServer'[i] = toServer[i + 1]
      BY <1>0, <2>1, TailFacts
    <3>3. Awaited' = Awaited
      BY <2>1 DEF Awaited, mainVars
    <3>4. OnlyAwaited'
      BY <1>0, <2>1, <3>1, <3>2, <3>3 DEF OnlyAwaited, IsAnswer, Asks
    <3>5. \A i, j \in 1 .. Len(toServer') :
             Asks(toServer'[i]) /\ Asks(toServer'[j]) => i = j
      <4> SUFFICES ASSUME NEW i \in 1 .. Len(toServer'), NEW j \in 1 .. Len(toServer'),
                          Asks(toServer'[i]), Asks(toServer'[j])
                   PROVE  i = j
        OBVIOUS
      <4>1. i + 1 = j + 1
        BY <1>0, <3>2 DEF OnePlace
      <4> QED BY <4>1
    <3>6. OnePlace'
      BY <1>0, <2>1, <3>1, <3>2, <3>5 DEF OnePlace, IsAnswer, Asks
    <3> QED BY <1>0, <2>1, <3>1, <3>2, <3>4, <3>6 DEF ClientInv, ClientTypeOK, RoomChosen, mainVars
  <2> QED BY <2>2, <2>3, <2>4 DEF Requests
<1>2. CASE Forward
  <2>1. /\ toClient' = Append(toClient, TextFrame)
        /\ UNCHANGED <<pc, room_number, user_list, room_list, receiving, handling, hEvent>>
        /\ UNCHANGED <<connected, toServer>>
    BY <1>2 DEF Forward, mainVars
  <2>2. TextFrame \in Frames /\ ~IsAnswer(TextFrame)
    BY DEF Frames, TextFrame, IsAnswer
  <2>3. /\ toClient' \in Seq(Frames) /\ Len(toClient) \in Nat /\ Len(toClient') = Len(toClient) + 1
        /\ \A i \in 1 .. Len(toClient) : toClient'[i] = toClient[i]
        /\ toClient'[Len(toClient) + 1] = TextFrame
    BY <1>0, <2>1, <2>2, AppendFacts
  <2>4. \A i \in 1 .. Len(toClient') : IsAnswer(toClient'[i]) =>
           i \in 1 .. Len(toClient) /\ toClient'[i] = toClient[i]
    BY <2>2, <2>3
  <2>5. Awaited' = Awaited
    BY <2>1 DEF Awaited
  <2>6. OnlyAwaited'
    BY <1>0, <2>1, <2>4, <2>5 DEF OnlyAwaited, IsAnswer, Asks
  <2>7. \A i, j \in 1 .. Len(toClient') :
           IsAnswer(toClient'[i]) /\ IsAnswer(toClient'[j]) => i = j
    BY <1>0, <2>4 DEF OnePlace
  <2>8. (\E i \in 1 .. Len(toClient') : IsAnswer(toClient'[i])) =>
           \E i \in 1 .. Len(toClient) : IsAnswer(toClient[i])
    BY <2>4
  <2>9. (hEvent \/ IsAnswer(handling)) => \A i \in 1 .. Len(toClient') : ~IsAnswer(toClient'[i])
    BY <1>0, <2>8 DEF OnePlace
  <2>10. OnePlace'
    BY <1>0, <2>1, <2>7, <2>8, <2>9 DEF OnePlace, IsAnswer, Asks
  <2> QED BY <1>0, <2>1, <2>3, <2>6, <2>10 DEF ClientInv, ClientTypeOK, RoomChosen
<1>3. CASE Break
  <2>1. PICK n \in 0 .. Len(toClient) : toClient' = SubSeq(toClient, 1, n)
    BY <1>3 DEF Break
  <2>2. /\ toServer' = <<>> /\ connected' = FALSE
        /\ UNCHANGED <<pc, room_number, user_list, room_list, receiving, handling, hEvent>>
    BY <1>3 DEF Break, mainVars
  <2>3. /\ toClient' \in Seq(Frames) /\ Len(toClient) \in Nat /\ n \in Nat /\ n <= Len(toClient)
        /\ Len(toClient') = n
        /\ \A i \in 1 .. n : toClient'[i] = toClient[i]
    BY <1>0, <2>1
  <2>4. toServer' \in Seq(Messages) /\ Len(toServer') = 0
    BY <2>2
  <2>5. Awaited' = Awaited
    BY <2>2 DEF Awaited
  <2>6. \A i \in 1 .. Len(toClient') : i \in 1 .. Len(toClient) /\ toClient'[i] = toClient[i]
    BY <2>3
  <2>7. OnlyAwaited'
    BY <1>0, <2>2, <2>4, <2>5, <2>6 DEF OnlyAwaited, IsAnswer, Asks
  <2>8. OnePlace'
    BY <1>0, <2>2, <2>4, <2>6 DEF OnePlace, IsAnswer, Asks
  <2> QED BY <1>0, <2>2, <2>3, <2>4, <2>7, <2>8 DEF ClientInv, ClientTypeOK, RoomChosen
<1> QED BY <1>1, <1>2, <1>3 DEF Server

LEMMA ClientInvStep ==
  ASSUME ClientAssumption, ClientInv, [Next]_vars
  PROVE  ClientInv'
<1>1. CASE UNCHANGED vars
  BY <1>1 DEF vars, mainVars, recvVars, ClientInv, ClientTypeOK, OnlyAwaited, OnePlace,
              RoomChosen, Awaited, IsAnswer, Asks
<1> QED BY <1>1, MainKeeps, RecvThreadKeeps, ServerKeeps DEF Next

LEMMA Invariant == Spec => []ClientInv
<1>1. Init => ClientInv
  BY ClientInvInit
<1>2. ClientInv /\ [Next]_vars => ClientInv'
  BY ClientAssumption, ClientInvStep
<1> QED BY <1>1, <1>2, PTL DEF Spec

\* main and recv_thread keep their lists, their choice and the messages well
\* typed: no room is indexed that is not in the list.
THEOREM ClientTypeCorrect == Spec => []ClientTypeOK
<1>1. ClientInv => ClientTypeOK
  BY DEF ClientInv
<1> QED BY <1>1, Invariant, PTL

\* The wait for a list never ends with the answer to an earlier request,
\* though get_users_response and get_rooms_response set the same event.
THEOREM EventIsFresh == Spec => []NoStaleAnswer
<1>1. ClientInv => NoStaleAnswer
  BY DEF ClientInv, OnlyAwaited, NoStaleAnswer, Asks
<1> QED BY <1>1, Invariant, PTL

\* recv_thread changes user_list and room_list, which no lock guards, only
\* while main waits for the one that changes and its event is not set.
THEOREM ListsKept == Spec => ListsChangeInTheirWait
<1>1. ClientInv /\ [Next]_vars =>
        [/\ user_list' # user_list => pc = "wait_users" /\ ~hEvent
         /\ room_list' # room_list => pc = "wait_rooms" /\ ~hEvent]_vars
  <2> SUFFICES ASSUME ClientInv, Next, user_list' # user_list \/ room_list' # room_list
               PROVE  /\ user_list' # user_list => pc = "wait_users" /\ ~hEvent
                      /\ room_list' # room_list => pc = "wait_rooms" /\ ~hEvent
    OBVIOUS
  <2>1. Handle
    BY DEF Next, Main, RecvThread, Server, Login, LoginFails, AskUsers, AskRooms, Wake, SendPrivate,
       CreateRoom, EnterRoom, SendRoom, LeaveRoom, BackToMenu, Receive, RecvEnds, Serve, Forward,
       Break, Send, mainVars, recvVars
  <2>2. IsAnswer(handling) => ~hEvent /\ handling.type \in Awaited
    BY DEF ClientInv, OnePlace, OnlyAwaited
  <2>3. user_list' # user_list => handling # None /\ handling.type = "get_users_response"
    BY <2>1 DEF Handle
  <2>4. room_list' # room_list => handling # None /\ handling.type = "get_rooms_response"
    BY <2>1 DEF Handle
  <2> QED BY <2>2, <2>3, <2>4 DEF IsAnswer, Awaited
<1> QED BY <1>1, Invariant, PTL DEF Spec, ListsChangeInTheirWait

-----------------------------------------------------------------------------
(* The client keeps to the protocol. *)

LEMMA ProtocolInit ==
  ASSUME Init
  PROVE  Protocol!Init
BY DEF Init, Protocol!Init, Place

LEMMA SendPuts ==
  ASSUME NEW type, NEW name, Send(type, name)
  PROVE  Protocol!Put(type, name) /\ UNCHANGED <<room_list, handling>>
BY DEF Send, Protocol!Put, Message, Protocol!Message, recvVars

\* Each step of the client is a step of the protocol, or changes nothing of it.
LEMMA ProtocolStep ==
  ASSUME ClientInv, [Next]_vars
  PROVE  [Protocol!Next]_<<Place, connected, toServer>>
<1>0. /\ ClientTypeOK /\ OnlyAwaited /\ RoomChosen
      /\ user_list \in Seq(Users) /\ room_list \in Seq(Rooms) /\ room_number \in Nat
  BY DEF ClientInv, ClientTypeOK
<1>1. CASE Login
  <2>1. Place = "new" /\ Place' = "menu"
    BY <1>1 DEF Login, Place
  <2> QED BY <1>1, <2>1, SendPuts DEF Login, Protocol!Next, Protocol!Login
<1>2. CASE LoginFails
  <2>1. Place = "new" /\ Place' = "new"
    BY <1>2 DEF LoginFails, Place
  <2> QED BY <1>2, <2>1 DEF LoginFails
<1>3. CASE AskUsers
  <2>1. Place = "menu" /\ Place' = "menu"
    BY <1>3 DEF AskUsers, Place
  <2> QED BY <1>3, <2>1, SendPuts DEF AskUsers, Protocol!Next, Protocol!Ask
<1>4. CASE AskRooms
  <2>1. Place = "menu" /\ Place' = "menu"
    BY <1>4 DEF AskRooms, Place
  <2> QED BY <1>4, <2>1, SendPuts DEF AskRooms, Protocol!Next, Protocol!Ask
<1>5. CASE Wake
  <2>1. Place = "menu" /\ Place' = "menu"
    BY <1>5 DEF Wake, Place
  <2> QED BY <1>5, <2>1 DEF Wake
<1>6. ASSUME NEW number \in 0 .. Len(user_list), SendPrivate(number)
      PROVE  Protocol!Next
  <2>1. Place = "menu" /\ Place' = "menu"
    BY <1>6 DEF SendPrivate, Place, mainVars
  <2>2. user_list[number + 1] \in Users
    BY <1>0, <1>6 DEF SendPrivate
  <2> QED BY <1>6, <2>1, <2>2, SendPuts DEF SendPrivate, Protocol!Next, Protocol!SendPrivate
<1>7. ASSUME NEW r \in Rooms, CreateRoom(r)
      PROVE  Protocol!Next
  <2>1. Place = "menu" /\ Place' = "menu"
    BY <1>7 DEF CreateRoom, Place, mainVars
  <2> QED BY <1>7, <2>1, SendPuts DEF CreateRoom, Protocol!Next, Protocol!CreateRoom
<1>8. ASSUME NEW number \in 0 .. Len(room_list), EnterRoom(number)
      PROVE  Protocol!Next
  <2>1. room_list[number + 1] \in Rooms
    BY <1>0, <1>8 DEF EnterRoom
  <2>2. Send("enter_room", room_list[number + 1])
    BY <1>8 DEF EnterRoom
  <2>3. Protocol!Put("enter_room", room_list[number + 1]) /\ room_list' = room_list
    BY <2>2, SendPuts
  <2>4. Place = "menu" /\ Place' = room_list[number + 1]
    BY <1>8, <2>3 DEF EnterRoom, Place
  <2> QED BY <2>1, <2>3, <2>4 DEF Protocol!Next, Protocol!EnterRoom
<1>9. CASE SendRoom
  <2>1. room_list[room_number + 1] \in Rooms
    BY <1>0, <1>9 DEF SendRoom, RoomChosen
  <2>2. Send("send_room", room_list[room_number + 1]) /\ UNCHANGED mainVars /\ pc = "room"
    BY <1>9 DEF SendRoom
  <2>3. Protocol!Put("send_room", room_list[room_number + 1]) /\ room_list' = room_list
    BY <2>2, SendPuts
  <2>4. Place = room_list[room_number + 1] /\ Place' = Place
    BY <2>2, <2>3 DEF Place, mainVars
  <2> QED BY <2>1, <2>3, <2>4 DEF Protocol!Next, Protocol!SendRoom
<1>10. CASE LeaveRoom
  <2>1. room_list[room_number + 1] \in Rooms
    BY <1>0, <1>10 DEF LeaveRoom, RoomChosen
  <2>2. Place = room_list[room_number + 1] /\ Place' = "menu"
    BY <1>10 DEF LeaveRoom, Place
  <2>3. Protocol!Put("leave_room", room_list[room_number + 1])
    BY <1>10, SendPuts DEF LeaveRoom
  <2> QED BY <2>1, <2>2, <2>3 DEF Protocol!Next, Protocol!LeaveRoom
<1>11. CASE BackToMenu
  <2>1. Place = "menu" /\ Place' = "menu"
    BY <1>11 DEF BackToMenu, Place
  <2> QED BY <1>11, <2>1 DEF BackToMenu
<1>12. CASE Receive \/ RecvEnds
  <2>1. UNCHANGED <<pc, room_number, room_list, connected, toServer>>
    BY <1>12 DEF Receive, RecvEnds, mainVars
  <2> QED BY <2>1 DEF Place
<1>13. CASE Handle
  <2>1. /\ UNCHANGED <<pc, room_number, connected, toServer>>
        /\ handling # None
        /\ room_list' = IF handling.type = "get_rooms_response" THEN handling.list ELSE room_list
    BY <1>13 DEF Handle, mainVars
  <2>2. pc = "room" => room_list' = room_list
    BY <1>0, <2>1 DEF OnlyAwaited, Awaited, IsAnswer
  <2> QED BY <2>1, <2>2 DEF Place
<1>14. CASE Serve
  <2>1. /\ toServer # <<>> /\ toServer' = Tail(toServer)
        /\ UNCHANGED <<pc, room_number, room_list, connected>>
    BY <1>14 DEF Serve, mainVars
  <2>2. Place' = Place
    BY <2>1 DEF Place
  <2> QED BY <2>1, <2>2 DEF Protocol!Next, Protocol!Take
<1>15. CASE Forward
  <2>1. UNCHANGED <<pc, room_number, room_list, connected, toServer>>
    BY <1>15 DEF Forward, mainVars
  <2> QED BY <2>1 DEF Place
<1>16. CASE Break
  <2>1. /\ connected /\ connected' = FALSE /\ toServer' = <<>>
        /\ UNCHANGED <<pc, room_number, room_list>>
    BY <1>16 DEF Break, mainVars
  <2>2. Place' = Place
    BY <2>1 DEF Place
  <2> QED BY <2>1, <2>2 DEF Protocol!Next, Protocol!Break
<1>17. CASE UNCHANGED vars
  BY <1>17 DEF vars, mainVars, recvVars, Place
<1> QED BY <1>1, <1>2, <1>3, <1>4, <1>5, <1>6, <1>7, <1>8, <1>9, <1>10, <1>11, <1>12, <1>13,
           <1>14, <1>15, <1>16, <1>17 DEF Next, Main, RecvThread, Server

\* The client logs in once and leaves the room it entered, by the name it
\* entered it, before it asks for anything else.
THEOREM ProtocolImplemented == Spec => ProtocolSpec
<1>1. Init => Protocol!Init
  BY ProtocolInit
<1>2. ClientInv /\ [Next]_vars => [Protocol!Next]_<<Place, connected, toServer>>
  BY ProtocolStep
<1> QED BY <1>1, <1>2, Invariant, PTL DEF Spec, ProtocolSpec, Protocol!Spec
=============================================================================
