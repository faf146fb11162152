------------------------------ MODULE Overlapped ------------------------------
(***************************************************************************)
(* The v_overlapped objects of ServerApp: who allocates them, who hands     *)
(* them to the kernel, and who deletes them.  A worker makes one in         *)
(* post_accept, post_recv and send_async, the kernel owns it until the      *)
(* completion is queued, and the worker that takes the completion deletes   *)
(* it - possibly before the call that started the operation has returned.   *)
(* An address that was deleted may be the next one that new returns.        *)
(*                                                                         *)
(* Which socket an operation is for, and the mutex, are in IocpServer.      *)
(***************************************************************************)
EXTENDS Naturals

CONSTANTS
  Workers,   \* the threads started by server::start
  Overs,     \* the addresses new may return
  None       \* the null pointer

ASSUME OverAssumption == None \notin Overs

VARIABLES
  up,        \* FALSE once an exception has left worker_thread
  pc,        \* where each worker is in worker_thread
  v_over,    \* the completion it handles
  overlapped,\* the object of the operation it is starting
  called,    \* the call has been made, the pointer not been given up yet
  live,      \* the objects that exist
  pending,   \* the operations the kernel has
  port,      \* the completions queued at m_hIocp
  lost       \* history: the objects whose WSASend failed at once

vars == <<up, pc, v_over, overlapped, called, live, pending, port, lost>>

Events == {"IO_ACCEPT", "IO_RECV", "IO_SEND"}

\* Where the code starts an operation, of which kind, and what comes next.
Posting == {"first_recv", "post_recv", "post_accept", "send_async"}
PCs     == {"wait", "dis_connect", "dispatch", "delete"} \cup Posting

EventOf == [first_recv |-> "IO_RECV", post_recv |-> "IO_RECV",
            post_accept |-> "IO_ACCEPT", send_async |-> "IO_SEND"]

After == [first_recv |-> "post_accept", post_recv |-> "delete",
          post_accept |-> "delete", send_async |-> "dispatch"]

Operation  == [over : Overs, ev : Events]
Completion == [over : Overs, ev : Events, bytes : {0, 1}]

\* server::start posts the first AcceptEx.
Init ==
  /\ up = TRUE
  /\ pc = [w \in Workers |-> "wait"]
  /\ v_over = [w \in Workers |-> None]
  /\ overlapped = [w \in Workers |-> None]
  /\ called = [w \in Workers |-> FALSE]
  /\ \E o \in Overs : /\ live = {o}
                      /\ pending = {[over |-> o, ev |-> "IO_ACCEPT"]}
  /\ port = {}
  /\ lost = {}

Goto(w, label) == pc' = [pc EXCEPT ![w] = label]

-----------------------------------------------------------------------------
(* The kernel. *)

\* An operation completes: AcceptEx without bytes, a receive or a send with
\* some, or with none when the connection has ended.
Complete(op, n) ==
  /\ up
  /\ op \in pending
  /\ op.ev = "IO_ACCEPT" => n = 0
  /\ pending' = pending \ {op}
  /\ port' = port \cup {[over |-> op.over, ev |-> op.ev, bytes |-> n]}
  /\ UNCHANGED <<up, pc, v_over, overlapped, called, live, lost>>

-----------------------------------------------------------------------------
(* worker_thread. *)

\* Mistake: IO_SEND has a case of its own that forgets the delete.
HandlerOfSendLess(c) ==
  IF c.ev = "IO_ACCEPT" THEN "first_recv"
  ELSE IF c.bytes > 0 THEN (IF c.ev = "IO_SEND" THEN "delete" ELSE "dispatch")
  ELSE IF c.ev = "IO_SEND" THEN "wait" ELSE "dis_connect"

\* The switch on m_event.  IO_SEND falls through to the delete, whatever the
\* send has moved.
HandlerOf(c) ==
  IF c.ev = "IO_ACCEPT" THEN "first_recv"
  ELSE IF c.ev = "IO_SEND" THEN "delete"
  ELSE IF c.bytes > 0 THEN "dispatch" ELSE "dis_connect"

Dequeue(w, c) ==
  /\ up
  /\ pc[w] = "wait"
  /\ c \in port
  /\ port' = port \ {c}
  /\ v_over' = [v_over EXCEPT ![w] = c.over]
  /\ Goto(w, HandlerOf(c))
  /\ UNCHANGED <<up, overlapped, called, live, pending, lost>>

\* A handler sends something, or receive_from_buffer returns.
Dispatch(w) ==
  /\ up
  /\ pc[w] = "dispatch"
  /\ \E label \in {"send_async", "post_recv"} : Goto(w, label)
  /\ UNCHANGED <<up, v_over, overlapped, called, live, pending, port, lost>>

\* delete v_over, at the end of the iteration.
Delete(w) ==
  /\ up
  /\ pc[w] = "delete"
  /\ live' = live \ {v_over[w]}
  /\ v_over' = [v_over EXCEPT ![w] = None]
  /\ Goto(w, "wait")
  /\ UNCHANGED <<up, overlapped, called, pending, port, lost>>

\* Mistake: no continue behind handle_dis_connect.
DisConnectFallsThrough(w) ==
  /\ up
  /\ pc[w] = "dis_connect"
  /\ live' = live \ {v_over[w]}
  /\ Goto(w, "delete")
  /\ UNCHANGED <<up, v_over, overlapped, called, pending, port, lost>>

\* handle_dis_connect deletes it itself, and continue skips the other delete.
DisConnect(w) ==
  /\ up
  /\ pc[w] = "dis_connect"
  /\ live' = live \ {v_over[w]}
  /\ v_over' = [v_over EXCEPT ![w] = None]
  /\ Goto(w, "wait")
  /\ UNCHANGED <<up, overlapped, called, pending, port, lost>>

-----------------------------------------------------------------------------
(* post_accept, post_recv, send_async. *)

Starting(w) == up /\ pc[w] \in Posting

\* make_unique, or new.  Bound: there are as many addresses as Overs has.
Make(w) ==
  /\ Starting(w)
  /\ overlapped[w] = None
  /\ \E o \in Overs \ live : /\ live' = live \cup {o}
                             /\ overlapped' = [overlapped EXCEPT ![w] = o]
  /\ UNCHANGED <<up, pc, v_over, called, pending, port, lost>>

ReadyToCall(w) == Starting(w) /\ overlapped[w] # None /\ ~called[w]

\* AcceptEx, WSARecv or WSASend starts the operation.
Call(w) ==
  /\ ReadyToCall(w)
  /\ pending' = pending \cup {[over |-> overlapped[w], ev |-> EventOf[pc[w]]]}
  /\ called' = [called EXCEPT ![w] = TRUE]
  /\ UNCHANGED <<up, pc, v_over, overlapped, live, port, lost>>

\* AcceptEx or WSARecv fails at once: the unique_ptr deletes the object, and
\* the exception leaves the thread.
PostThrows(w) ==
  /\ ReadyToCall(w)
  /\ pc[w] # "send_async"
  /\ live' = live \ {overlapped[w]}
  /\ overlapped' = [overlapped EXCEPT ![w] = None]
  /\ up' = FALSE
  /\ UNCHANGED <<pc, v_over, called, pending, port, lost>>

\* WSASend fails at once: nobody deletes the object, and the exception ends
\* the handler in safeInvoke.
SendThrows(w) ==
  /\ ReadyToCall(w)
  /\ pc[w] = "send_async"
  /\ lost' = lost \cup {overlapped[w]}
  /\ overlapped' = [overlapped EXCEPT ![w] = None]
  /\ Goto(w, "dispatch")
  /\ UNCHANGED <<up, v_over, called, live, pending, port>>

\* Mistake: the unique_ptr still owns the object when it goes out of scope.
NotReleased(w) ==
  /\ up
  /\ called[w]
  /\ called' = [called EXCEPT ![w] = FALSE]
  /\ live' = IF pc[w] = "send_async" THEN live ELSE live \ {overlapped[w]}
  /\ overlapped' = [overlapped EXCEPT ![w] = None]
  /\ Goto(w, After[pc[w]])
  /\ UNCHANGED <<up, v_over, pending, port, lost>>

\* release(), or the end of send_async: the object may be gone by now.
Release(w) ==
  /\ up
  /\ called[w]
  /\ called' = [called EXCEPT ![w] = FALSE]
  /\ overlapped' = [overlapped EXCEPT ![w] = None]
  /\ Goto(w, After[pc[w]])
  /\ UNCHANGED <<up, v_over, live, pending, port, lost>>

-----------------------------------------------------------------------------

Worker(w) ==
  \/ \E c \in port : Dequeue(w, c)
  \/ Dispatch(w) \/ Delete(w) \/ DisConnect(w)
  \/ Make(w) \/ Call(w) \/ PostThrows(w) \/ SendThrows(w) \/ Release(w)

Kernel == \E op \in pending, n \in {0, 1} : Complete(op, n)

Next == Kernel \/ \E w \in Workers : Worker(w)

Spec == Init /\ [][Next]_vars

-----------------------------------------------------------------------------
(* Properties. *)

OverTypeOK ==
  /\ up \in BOOLEAN
  /\ pc \in [Workers -> PCs]
  /\ v_over \in [Workers -> Overs \cup {None}]
  /\ overlapped \in [Workers -> Overs \cup {None}]
  /\ called \in [Workers -> BOOLEAN]
  /\ live \in SUBSET Overs
  /\ pending \in SUBSET Operation
  /\ port \in SUBSET Completion
  /\ lost \in SUBSET Overs

\* What each party is responsible for; a pointer whose call has been made is
\* nobody's.
Making(w)   == IF called[w] THEN {} ELSE {overlapped[w]} \ {None}
Handling(w) == {v_over[w]} \ {None}
InKernel    == {op.over : op \in pending}
Queued      == {c.over : c \in port}

Held == InKernel \cup Queued \cup lost
        \cup UNION {Making(w) \cup Handling(w) : w \in Workers}

\* Nobody is left with an object that was deleted: the kernel writes into no
\* memory but its own, no worker reads m_event, m_sockClient or m_btBuf of a
\* dead object, and none is deleted twice.
HeldIsLive == Held \subseteq live

\* An object is one party's at a time: while a worker reads m_btBuf no
\* operation fills it, and the one who deletes it is the only one who has it,
\* although the caller of WSARecv still holds a pointer when another worker
\* deletes the object, and new may have returned the same address since.
OneHolder ==
  /\ \A op \in pending, q \in pending : op.over = q.over => op = q
  /\ \A c, d \in port : c.over = d.over => c = d
  /\ InKernel \cap Queued = {}
  /\ lost \cap (InKernel \cup Queued) = {}
  /\ \A w \in Workers :
       /\ (Making(w) \cup Handling(w)) \cap (InKernel \cup Queued \cup lost) = {}
       /\ Making(w) \cap Handling(w) = {}
       /\ \A v \in Workers \ {w} :
            (Making(w) \cup Handling(w)) \cap (Making(v) \cup Handling(v)) = {}

\* Nothing is forgotten: an object that exists is on its way to a delete, or
\* it is one whose WSASend failed at once - the only leak there is.
OnlySendsLeak == live \subseteq Held

-----------------------------------------------------------------------------
(* The inductive invariant. *)

\* A worker has a completion while it handles one, an object of its own only
\* while it starts an operation, and has called only with one.
Tidy ==
  \A w \in Workers :
    /\ v_over[w] = None <=> pc[w] = "wait"
    /\ pc[w] \notin Posting => overlapped[w] = None
    /\ called[w] => overlapped[w] # None

OverInv == OverTypeOK /\ Tidy /\ HeldIsLive /\ OneHolder /\ OnlySendsLeak
=============================================================================
