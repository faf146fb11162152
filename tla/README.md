# IOCP-ChatRoom in TLA+

This directory specifies the chat room server and client of this repository in
TLA+, checks the specifications on small instances with TLC, and proves the
most important properties for every instance with TLAPS.

All file names below are relative to `src/`.

## 1. Inventory

### 1.1 The parts and their state

| Part | State it keeps | Operations |
|---|---|---|
| I/O engine, `ServerApp/src/server.cpp` | completion port, listening socket, `m_activeConnections` (handle to session), `m_usersMutex`, one detached worker thread per core | `start`, `post_accept`, `post_recv`, `worker_thread`, `handle_dis_connect` |
| Chat service, same file | `m_socket2Name` (handle to name), `m_loginUsers` (name to user), both under `m_usersMutex` | the seven handlers of `register_message_handler` |
| Rooms, `ServerApp/include/Server/room.hpp` | `m_rooms` under `m_rooms_mutex`, `m_members` of each room under its own lock | `create_new_room`, `get_room`, `get_all_rooms`, `delete_room` (never called), `add_member`, `remove_member`, `for_each_member` |
| User, `user.hpp` | a name and a shared pointer to its session | `send_message` |
| Session, `net_lib/.../session.hpp`, `session.cpp` | the handle, closed by the destructor; `ring_buffer` and `cur_size` | `send_async`, `send_sync`, `get_remote_endpoint` |
| Framing, `package_handler.hpp` | none of its own: it works on the session's buffer | `serialize_data`, `receive_from_buffer` |
| Dispatcher, `package_dispatcher.hpp` | the handler of each message type | `register_message_handler`, `dispatch_message`, `safeInvoke` |
| Messages, `message_type.hpp` | none | `to_json`, `from_json` of each type |
| Overlapped operation, `v_overlapped.hpp` | event, handle, 255 bytes of buffer; allocated per operation, freed by the worker that handles the completion | constructor, `reset` (never called) |
| Client, `ClientApp/src/main.cpp` | `user_list`, `room_list`, the auto-reset event `hEvent`, one session; a main thread with the menu and a receive thread | login, three menu entries, `recv_thread`, three handlers |
| JSON, `json.hpp` (nlohmann/json) | the serializer's `string_buffer` and decoder; the parser's stack of states, the builder's `ref_stack` | `dump`, `parse`, `at`, `get` |
| `WSAContext`, server `main`, `demo_app` | nothing of interest | |

### 1.2 How they interact

A client connects, logs in with a name, and then sends what its menu produces.
`AcceptEx` and `WSARecv` complete in the port; any worker takes any completion.
A worker that got an accepted socket publishes a session under the mutex, posts
the first `WSARecv`, and posts the next `AcceptEx`. A worker that got bytes
takes the mutex, looks the session up, and runs `receive_from_buffer`, which
calls a handler for every frame that is complete; all handlers therefore run
under `m_usersMutex`. It then releases the mutex and posts the next `WSARecv`.
A worker that got zero bytes looks the session up *without* the mutex, takes the
mutex, and erases the connection, the name and the user. The session lives as
long as somebody holds a `shared_ptr` to it: the table, the user in
`m_loginUsers`, and the rooms the user is in. Its destructor closes the handle,
and only then can `WSASocket` return that value again.

### 1.3 What is hard, and what makes each part correct

- *Engine*: workers interleave freely, resets arrive at any time, the mutex is
  contended. Correct means: a connection has one owner at a time; no completion
  finds a table without its session; no session is forgotten, and none is erased
  for the end of another connection; exactly one `AcceptEx` is on the way;
  connections that ended are forgotten in the end.
- *Chat service*: names contain addresses, addresses and handles are used again,
  clients choose from lists that are out of date. Correct means: the two tables
  are inverse to each other and tell true addresses; a private message goes to
  the chosen address or nowhere; a null user is never stored.
- *Rooms*: users disconnect inside them, sends fail. Correct means: rooms agree
  with where their online members are; nobody else is sent a room's messages;
  what is left of a member who has gone never turns into somebody else.
- *Framing*: TCP cuts anywhere. Correct means: frames come out whole, once, in
  order and at once; the buffer is never overrun.
- *Client*: two threads share two lists and an event. Correct means: the list
  that is read is the answer to the request that was sent, and it does not
  change while it is read.
- *Overlapped operations*: every receive, accept and send allocates an object
  that the kernel owns next and another thread deletes, maybe before the call
  has returned. Correct means: whoever has an object has a living one, alone,
  and nothing is forgotten but what is known to be.
- *The two sides together*: the server checks hardly anything of what it is
  sent, the client waits for its answers without a timeout. Correct means: the
  messages under way are such that every one of them makes sense when it is
  handled, and a client that waits has something to wait for.
- *JSON*: strings come from a console and cross two programs. Correct means: a
  string is sent whole or refused; what one side has written the other can read,
  and what the server has read it can write again; no message of this program
  makes a `parse` throw outside a `try`.

`PROJECT.json` lists each hazard at its line, with the properties about it.

## 2. Plan

The modules, in the order in which they matter; all of them are written.

| | Module | Rests on | Abstract specification it implements |
|---|---|---|---|
| 1 | `IocpServer`: the engine | | |
| 2 | `ChatServer`: handlers, tables, rooms | extends 1 | 1, and `ChatDirectory` |
| 3 | `StreamParser`: cutting the stream into frames | | `FrameChannel` |
| 4 | `ClientApp`: two threads, two lists, one event | | `ClientProtocol` |
| 5 | `Overlapped`: the memory of the operations | | |
| 6 | `ChatSystem`: server, clients and connections | extends 2 | 2 |
| 7 | `JsonText`: a message as text, from one program to the other | `JsonSerializer`, `JsonLexer`, `JsonParser`, `JsonMessages`, `Utf8` | |

What could be added: the lists of names as texts with lengths, for the limit of
`m_btBuf` (`session.cpp:31`); liveness of `ChatSystem`, whose state space is too
large without symmetry.

## 3. The modules

### 3.1 IocpServer

| Variable | Code |
|---|---|
| `up` | the process runs: FALSE after an exception that leaves a worker, or an access through a null pointer |
| `pc[w]` | where worker `w` is in `worker_thread`: `wait` at `GetQueuedCompletionStatus`; `accept`, `accept_cs`, `first_recv`, `post_accept` in the `IO_ACCEPT` case; `recv`, `dispatch`, `post_recv` in the `IO_RECV` case; `lookup`, `erase`, `erase_cs` in `handle_dis_connect` |
| `sock[w]` | `v_over->m_sockClient` |
| `mutex` | the holder of `m_usersMutex` |
| `port` | the completions queued at `m_hIocp` |
| `handle[s]` | a handle value is free, waits in `AcceptEx`, or belongs to a session |
| `recvs[s]` | `WSARecv` calls pending on `s` |
| `peer[s]` | what the other end of the connection has done |
| `active` | the keys of `m_activeConnections` |

A step of a worker is the code between two points where other threads can see
the difference: taking the mutex and changing the table is one step, releasing
it another, the unlocked lookup of `handle_dis_connect` one of its own. While a
worker is in `accept_cs` or `erase_cs` it is inside the critical section that
changes the table; an unlocked lookup at that moment either finds the entry or
goes astray (`LookupRaces`), the outcomes undefined behaviour leaves.
`CompleteRecv`, `Connect`, `PeerClose` and `PeerReset` are Winsock and the
clients. `Faults` says which failures the environment may produce, so that a run
can ask what holds without one of them.

`DisconnectExit(w, last)` and `HandlerCrash` are left open here: whether the
session's last reference is dropped, and whether a handler meets a null user, is
for `ChatServer` to say.

### 3.2 ChatServer

Adds `endpoint` (remote addresses), `socket2Name`, `loginUsers`, `rooms`,
`members`, `place` and `posted`. A user is identified by the handle of the
session it points to: a user is created by the one login of its session.
`place[s]` is how far the client of `s` has come in its menu, seen at the
messages handled so far, and makes the clients those of `ClientProtocol`: one
login, then requests, and a room that is entered is left before anything else.
An address can be used again after a reset, once the session has left the table
(`AddressFree`, `Forgotten`): a room may still have it then. Whether that can
happen earlier, before the server has handled the reset, is the fault
`port_reuse`. `posted` is the set of sessions the last handler posted a `WSASend` to, within
the dispatch under way. One action per handler; `EraseUser` and `EndSession`
are `handle_dis_connect` with the tables; `SessionHeld` decides whether the
handle is closed. `Posted` is the part of a send loop that ran before a
`WSASend` threw: a member of the iteration order is nondeterministic, as that of
an `unordered_set` is.

`ChatDirectory` is what the people at the clients may rely on, with no sockets,
threads or tables in it: who is online, which rooms there are, who is in which,
and whom the last message was posted to. `DirectorySpec` maps the tables to it:
a user is online if `m_loginUsers` has an entry for the name, and in a room if
the session of a member has a name. Rooms are never taken away, a name belongs
to one user at a time, a message from one user to another reaches nobody else
and one to a room stays in it, and who goes takes nobody along.

### 3.3 StreamParser and FrameChannel

A byte is its position in the stream, so that losing, repeating or moving one
shows. `Send` is `serialize_data`, `Receive` the copy behind the leftover,
`Dispatch` one turn of the loop, `Compact` the move of the rest. The length field can be
read only where a header really is: anywhere else `LengthAt` may be any size, so
a parser that loses its place does not find it again by luck. `FrameChannel` is
what users of the framing rely on; `ChannelSpec` states the refinement.

### 3.4 ClientApp and ClientProtocol

| Variable | Code |
|---|---|
| `pc` | where `main` is: `login`; `menu`; `wait_users`, `wait_rooms` in `WaitForSingleObject`; `users` and `choose` at the two lists; `room` in the loop of a room; `exited` |
| `room_number`, `user_list`, `room_list`, `hEvent` | as in the code |
| `receiving`, `handling` | `recv_thread` runs; the message whose handler it is in, until that handler has stored its list and set the event |
| `connected`, `toServer`, `toClient` | the connection and the messages under way in it |

`Main` has one action per entry and turn of the menu, `RecvThread` one for the
start and one for the end of a handler, so that `main` may run in between.
`send_sync` blocks while the connection is full, and its failure is looked at
only after the login. The server is an environment: it answers with a list of
its own making and forwards messages at any time; the connection may break and
lose what is under way. `ClientProtocol` is what the server may assume;
`ProtocolSpec` states the refinement, with the place of the client computed
from `pc` and the name `room_list[room_number]`, as `main` computes it whenever
it sends to the room or leaves it.

### 3.5 Overlapped

The memory of the operations, which `IocpServer` leaves out: `v_over[w]` is the
object of the completion a worker handles, `overlapped[w]` the one of the
operation it starts, `called[w]` says that the call has been made and the
pointer not been given up yet (`release()` at `server.cpp:210` and `225`, the end
of `send_async`); `live` are the objects that exist, `pending` the operations
the kernel has, `port` the completions. `Make` takes any address that is not in
use, so a deleted one may come back at once. Between `Call` and `Release` other
workers run: they may take the completion, delete the object and get its address
again from `new`. `lost` is a history variable, the objects whose `WSASend` failed at
once and which nobody has a pointer to any more.

### 3.6 ChatSystem

`ChatSystem` adds to `ChatServer` one `ClientApp` per connection: `client[s]` is
where its `main` is, `room_list[s]` its list, `toServer[s]` and `toClient[s]` the
messages under way. It uses what the other modules show: frames arrive whole and
in order (`FrameChannel`), the threads of a client wake each other as they
should (`ClientApp`). Every handler of `ChatServer` that runs now runs for the
message that is first in `toServer` (`Serve`), and what it posts goes into
`toClient` of the receivers that are still there. A client that goes loses what
was on its way to it; after a reset what nobody has received is lost, too
(`Connection`, `Hangup`). Whoever connects next may get the same handle.

### 3.7 JsonText and its parts

| Module | What it is of `json.hpp` |
|---|---|
| `Utf8` | no part of it: which byte sequences are UTF-8, and which characters they encode, as the reference for the others |
| `JsonSerializer` | `dump_escaped` byte by byte: `decode` with its table, `string_buffer`, all three error handlers, `ensure_ascii` |
| `JsonLexer` | `scan_string` with escapes and surrogate pairs, `scan_number`, literals, white space, the byte order mark |
| `JsonParser` | `sax_parse_internal` with its stack of states, `json_sax_dom_parser` with `ref_stack` and `object_element` |
| `JsonMessages` | `message_type.hpp`: the members that `to_json` writes and `from_json` asks for |
| `JsonText` | `serialize_data` at the sender, `json::parse`, `from_json` and the handler at the receiver (`dispatch_message`) |

A text is a sequence of bytes. The lexer is a function of the text and of the
place reached in it, the parser a state machine that calls it. `StrangeText` are texts no
sender of this program wrote, which show the parser's other half: what it refuses.
What it should accept is said by `IsValue`, the grammar of JSON on the types of
the tokens, and by `IsNumber`, its rule for numbers on the bytes. The types of
the tokens are those that `Scan` of the lexer gives, so that this reference is
independent of the code for the structure of a text and for its numbers, and not
for strings, literals and white space; of a string `ScannedIsDumpable` and
`MessagesArrive` say that the lexer reads the right one. This program calls
`dump()` and `parse()` with their defaults, that is with `strict` and without
`ensure_ascii`; `ignore`, `replace` and `ensure_ascii` are modelled because
`dump_escaped` is one loop for all of them, and what is said of them is said of
`json.hpp`. Two assumptions say
what may be sent: the fields of a message are strings, lists of strings and an
`int`, which an integer of `json` has room for, as the structs of
`message_type.hpp` have them (`SentAssumption`), and a payload is a sequence of
bytes (`TextsAssumption`).

### 3.8 Proofs

`ChatServerProofs`, `StreamParserProofs`, `ClientAppProofs`,
`OverlappedProofs`, `ChatSystemProofs` and `JsonSerializerProofs` extend the
module they are about and `TLAPS`. `ChatServerProofs` has the theorems on the
engine, too, since `ChatServer` extends `IocpServer`, and `ChatSystemProofs`
extends `ChatServerProofs`, so that a theorem on the smaller system is at hand
in the larger one. In the same way `JsonParserProofs` extends
`JsonSerializerProofs`, for what that shows of UTF-8, and `JsonTextProofs`, on
the way of a message from its sender to the handler, extends both.

## 4. Runs

| Run | Instance | What it shows |
|---|---|---|
| `engine` | 2 workers, 3 handles, resets, failing `AcceptEx`, full fairness | ownership, sessions present and not lost, one `AcceptEx`; no session is erased for the end of another connection; accepting goes on, ended connections are forgotten, the others are read from again |
| `engine_lookup_race` | 2 workers, 3 handles | *violation*: the unlocked lookup of `server.cpp:289` |
| `chat_safety` | 2 workers, 4 handles, 3 addresses, 1 room, resets | the tables are consistent, rooms agree with their members and keep their messages to themselves, private messages arrive right, the engine and `ChatDirectory` are implemented |
| `chat_faults` | 1 worker, 3 handles, 1 address, 1 room, every fault, full fairness | types, members' handles and users online whatever fails; a client that went away is forgotten unless a room keeps it |
| `chat_reset_survival` | 1 worker | *violation*: a reset before `post_recv` ends the process |
| `chat_broadcast` | 2 workers, resets | *violation*: members after a failing send get nothing |
| `stream_server` | header 2, frames of 3 and 5, chunk 4, buffer 8, 4 frames | the channel is implemented, the leftover is right, no overrun, every frame delivered |
| `stream_client_overrun` | chunk 8 = buffer 8 | *violation*: the client's proportions overrun `ring_buffer` |
| `client_app` | 2 users, 2 rooms, 2 messages a direction, the connection breaks | a wait ends with the answer to its request and while the connection stands, a list changes only in the wait for it, the protocol is kept |
| `overlapped` | 3 workers, 5 addresses, any call failing | no use of a deleted object, no second delete, no leak but of failed sends |
| `chat_system` | 1 worker, 3 handles, 2 addresses that are used again at once, 1 room, resets; 2 messages to the server | messages fit the place of their sender when they are handled, a waiting client has one request or answer under way |
| `json_text` | `string_buffer` of 16; strings of up to 3 pieces, all token sequences of up to 4, numbers of up to 4 characters | see 3.7: the buffer, the two stacks, what is thrown, what is accepted, what arrives |

### 4.1 Bounds

- *Handles and workers.* Hazards of the engine need two workers in one critical
  region and connections that move meanwhile: two workers and three handles (one
  of them listening, so two clients) have every pair of roles, and the proofs are
  for any number. `Connect` needs a free handle besides, so that `post_accept`
  always finds one, as `WSASocket` does.
- *Names, addresses, rooms.* The key of a user is the name and the address, so
  one name makes keys as different as the addresses are, and two connections can
  get one key only by sharing an address: more names add nothing. In
  `chat_safety` three clients give a room a member, one who left and one who is
  dead at the same time. In `chat_faults` one address makes every reuse of
  an address that can happen happen.
- *Frames.* A chunk may hold a part of a frame, a frame, or one and the
  beginning of the next; a header of two bytes can be cut in its middle. The
  code's 8, 255 and 2048 keep these proportions, and the proofs are for any sizes.
- *Client.* `main` asks for one list at a time, so two messages in a direction
  are an answer and something before or behind it; lists of up to two names in
  any order tell a list from the next one, and an index from another.
- *Operations.* Three workers are one that starts an operation, one that
  handles its completion meanwhile, and one that gets the address again; five
  addresses are an object each for them, one the kernel has, and one lost.
- *The whole system.* With one worker, handlers run one after the other, as
  `m_usersMutex` has them anyway; workers contend in `chat_safety`. Two messages to
  the server are what a client can send without waiting around the steps that
  matter (leaving a room and entering the next, a request and what was before
  it). `Unread` bounds messages of others to a client: an answer needs no room.
- *JSON.* 16 bytes make `string_buffer` run full several times in a string;
  every state of the decoder is met by the good and the bad pieces; the numbers
  reach every state of `scan_number` and, with 99 as the largest integer,
  integers that are read as floating point.
- *Symmetry* is used in safety runs only. The liveness runs have none.
- *Deadlock* is not checked: the process may have ended (`up` is FALSE), the
  server is idle when all clients are connected and silent or all handles are
  used up, all addresses may be lost, a stream ends after `MaxFrames`, and a
  text when it has been dispatched.

### 4.2 Fairness

A worker that can continue does (weak fairness). A worker that waits for
`m_usersMutex` gets it when it is free again and again (strong fairness: a
Windows mutex does not starve a waiter for ever). A completion in the port is
taken in the end (strong fairness: the port is FIFO, so other completions cannot
overtake it without end). A peer that has gone is noticed in the end: the bytes
it sent before are finitely many (strong fairness of `RecvEnd`). Nothing is
assumed of clients: they may stay silent for ever. In `StreamParser` the bytes
sent arrive and `receive_from_buffer` returns. In `ClientApp` a thread that can
go on does, and the server answers the messages it has (weak fairness); the user
at the keyboard need not do anything. In `JsonText` one thread runs a program
without waits, so a step that can be taken is taken.

## 5. What is proved

*Engine.* `IoInv` is the inductive invariant; `OneOwner`, `RecvOwnsSession`,
`NoOrphanSession` and `AcceptChain` are its conjuncts, and none is inductive
alone (`EngineInvariant` states the conjunction): that a worker that erases finds the session needs that no other worker
owns the connection, and that nobody else erased it. The conjuncts that join
them are who holds the mutex (`MutexInv`), that a worker holds a completion
exactly while it handles one, and that a connection between its `AcceptEx` and
its `emplace` has no session yet (`Arrivals`). `GoneBeforeForgotten` needs one more
(`EndsAreTrue`): the connection a worker is about to erase, or a completion
without bytes speaks of, is one whose peer has gone, and by `OneOwner` nobody
else is on the way there when its handle is closed and given to the next client.
The proofs assume nothing but
`IoAssumption`: the sets of workers and sockets need not be finite.

*Chat service.* `ChatImplementsIo` maps every step to a step or a stutter of the
engine, so that `IoInv` holds of the service. On it rests `ChatInv`, which needs
no assumption on faults: types, members with open handles, users online.
`RegistryInv` and `RoomInv` hold under `NoClash`, that is without early port
reuse and without failing `getpeername`. The condition is needed: `Login`
assigns `m_loginUsers[name + endpoint]` whether the key is there or not, so a
client that was reset and is back from the same port before the reset is handled
takes over the entry, and handling the reset then erases the new user; and all
clients whose `getpeername` fails share the address `0.0.0.0:0`.
`RegistryInv` carries that two connections have different addresses unless the
server has done with one of them (`EndpointsDistinct`), `RoomInv`
that a handle without a session has nothing left in any room.
`DirectoryImplemented` has the same condition. Its invariant adds to those that
something is posted only while a worker is in a dispatch (`PostedInDispatch`),
because the directory forgets whom a message was for when the next thing
happens, and maps each handler to the operation of the directory it stands for.

*Framing.* `StreamInv` relates the buffer to the stream: the bytes that are not
parsed yet are the next ones after the frames delivered. From it, `LengthAt`
reads the length of the next frame (`NextLength`: headers of different frames
are apart because every frame is longer than a header), so a dispatch delivers
exactly that frame, which is the refinement. `BufferLargeEnough` assumes
`BufferFits`; the server has it for frames of up to 1794 bytes, the client for none.

*Client.* `ClientInv` says that what is under way is what `main` waits for
(`OnlyAwaited`), and that it is in one place: a request, an answer, a handler,
or the event (`OnePlace`). So nothing is under way when `main` asks for the next
list (`EventIsFresh`), a list changes only while `main` waits for that one and has
not been told (`ListsKept`), and `room_list[room_number]` is the same name from entering a
room to leaving it, which is what `ProtocolImplemented` needs besides. The only
assumptions are on names (`ClientAssumption`).

*Operations.* `OverInv` is the inductive invariant: every object that lives is
in the hands of one worker, of the kernel or of a completion, or was lost, and a
worker that has made the call has given the object away although it still has
the pointer (`Making`). That last point is what lets the address be used again
before `release()`, without a second owner.

*The whole system.* `SystemImplementsChat` makes every step one of `ChatServer`,
so its invariants hold. `PlaceCorrect` and `AnswerCorrect` are the two promises
the separate modules make each other: what `ChatServer` assumes of its clients
and `ClientApp` of the server. The induction needs what becomes of messages when
connections end: a handle without a connection has none under way, after the end
of a connection the rest is still handled in order, and a new one starts without
any (`ConnInv`); the rooms a client may choose exist, and so do those in the answers
under way (`PlaceInv`); a handler that throws in a broadcast, or whose `WSASend`
fails, does not lose an answer of somebody who is there (`Exchange`).

*JSON.* `BufferInvariant`: before each byte at least 13 places of
`string_buffer` are free, for any bytes, options and size, so that no write goes
past its end (`BufferFits`); it depends on how many bytes the decoder's state
still asks for. `StacksCorrect`: for every text, the parser's states are the
types of the containers on the builder's `ref_stack`. The builder's values form a
tree in which children lie behind their parents, `ref_stack` is a path down from
the root, and the place of the next value is never on that path (`ParserInv`);
without that an overwritten member could change the type of an open container.
The lexer may return any tokens here.

`ThrowsCorrect`, `ScannedCorrect`, `AcceptsCorrect` and `ArrivesCorrect` are
about the text itself, of any length, and need induction over it. The library's
induction theorems cannot be used here, since they take an operator; `Least` (a set of numbers has a
smallest one) is a theorem about a set, and from it follow `Induction`, for
a set of numbers, and `Recursive`: a definition by recursion along a measure has
a solution, and so the recursive functions of the models have the values that
their definitions ask for.

- `ThrowsCorrect`: a strict dump throws exactly for what is not UTF-8. The table
  of `decode` is compared with the standard: in each state the decoder has read
  the beginning of an encoded scalar value, and goes on exactly with the bytes
  that can follow it (`JudgeInv`), so that it is back at `UTF8_ACCEPT` when what
  was read is a sequence of scalar values, and at `UTF8_REJECT` when no bytes at
  all could make it one. This is from the pieces of the text back to the
  strings of the message, whatever they are.
- `ScannedCorrect`: every unit that `scan_string` reads is UTF-8, a code point of
  an escape or of a surrogate pair included (`Utf8IsWellFormed`), so every string of
  a token is, and so is every string and key the builder stores (`ScannedInv`):
  what the server has read it can write again.
- `AcceptsCorrect`: the parser accepts what the grammar derives, nested to any
  depth. `AcceptInv` says that the parser is at the n-th token, and that the tokens
  from there on can close what is on its stack (`Chain`) if and only if all tokens
  make a value. Each action keeps that, by one rule of the grammar. For a
  text of digits, signs, dots and letters E the table of `scan_number` is compared with the
  rule for numbers, state by state (`LeftOf`).
- `ArrivesCorrect`: what a sender puts into a frame is what the handler gets,
  with what is not UTF-8 left out or replaced as `error_handler` says, and
  `dispatch_message` never throws for it. The proof follows a message in four
  steps. (1) `SpellInv`, for every step of `dump_escaped`: the output and the
  buffer together are what the pieces of the message written so far may look
  like, where bytes `Encodes` a string if `scan_string` reads the string from them
  at any place of any text. So a flush of the buffer, an escape, and
  a sequence that is taken back and replaced are seen from the
  reader's side. (2) `MessageSpelled`: in a text that spells a message the
  lexer finds the tokens of the message, keys, strings, lists and digits, whose
  value is the number. (3) `OnItsWay`: at each of these tokens the builder has
  stored the members before it, and the key it stands at; the stages are
  named, and each action of the parser leads from one to the next and no other
  is possible. (4) `MessageRead`: of what the builder has stored in the end
  `from_json` finds every member under its key and reads it as it was
  (`ArriveInv` joins the four). Not assumed is that the strings are UTF-8, and
  `ensure_ascii` may be set or not. That an integer fits 64 bits is needed:
  the lexer reads a larger one as floating point.

## 6. What is only model-checked

Liveness under fairness, which is out of the prover's reach (`AcceptProgress`,
`DisconnectForgets`, `ReadAgain`, `GoneClientForgotten`, `EveryFrameDelivered`,
`WaitEnds` and `Finishes`), and the violations. Every invariant and every action
property of a passing run has a theorem. `ArriveInv`, `JudgeInv`, `ScannedInv` and
`AcceptInv` speak of functions on all numbers and of all texts, so TLC cannot
evaluate them: it checks the invariants that follow from them. The other way
round, `IoTypeOK` is proved (`IoTypeCorrect`) and no run has it: a mistake in the
code shows in the properties of `engine` rather than in a type.

## 7. What is not modelled

- *Of the server*: its construction and destruction (`~server` runs at process
  exit only, so that `GetQueuedCompletionStatus`, whose result `server.cpp:243`
  does not look at, has a packet as long as the model runs); the empty name that
  `operator[]` at `server.cpp:301` leaves for a client without a login, which
  nothing can tell from an absent one; `delete_room` and `contains_member`, which nobody calls; session
  ids and console output; server `main`, which sleeps; `WSAContext`.
- *Of the operations*: that a frame of more than 255 bytes is copied past
  `m_btBuf` (`session.cpp:31`), since a frame's size is that of texts which
  the models of the server abstract; the output buffer of `AcceptEx`, a local of
  `post_accept` that is gone when the kernel writes it (`server.cpp:199`).
- *Of the framing*: length fields that `serialize_data` does not write.
- *Of `json.hpp`*: what the program does not use, which is most of it: binary
  formats, JSON pointers, patches, iterators, callbacks, comments, pretty printing,
  writing floating point numbers, the container interface and its templates. It
  is a vendored library of 24,765 of the repository's 26,433 lines, so that the
  part of all lines that is modelled stays small although nearly all of the
  program's own code is covered. `demo_app` is an example of its use.
