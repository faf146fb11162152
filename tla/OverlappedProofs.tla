--------------------------- MODULE OverlappedProofs ---------------------------
(***************************************************************************)
(* Proofs about Overlapped, for any number of workers and addresses.  The   *)
(* invariant OverInv is inductive as it stands: what the parties hold can   *)
(* only be told from the program counters if Tidy holds.                    *)
(***************************************************************************)
EXTENDS Overlapped, TLAPS

\* What a worker has in its hands.
Hands(w) == Making(w) \cup Handling(w)

\* Membership in Held, without the UNION.
LEMMA HeldMembers ==
  ASSUME NEW o
  PROVE  o \in Held <=> \/ o \in InKernel
                        \/ o \in Queued
                        \/ o \in lost
                        \/ \E w \in Workers : o \in Hands(w)
PROOF
  BY DEF Held, Hands

\* The same, in the state after a step.
LEMMA HeldMembersNext ==
  ASSUME NEW o
  PROVE  o \in Held' <=> \/ o \in InKernel'
                         \/ o \in Queued'
                         \/ o \in lost'
                         \/ \E w \in Workers : o \in Hands(w)'
PROOF
  BY DEF Held, Hands

LEMMA InitOverInv == Init => OverInv
PROOF
  <1> SUFFICES ASSUME Init PROVE OverInv
    OBVIOUS
  <1>1. PICK o \in Overs : /\ live = {o}
                           /\ pending = {[over |-> o, ev |-> "IO_ACCEPT"]}
    BY DEF Init
  <1>2. \A w \in Workers : Hands(w) = {}
    BY DEF Hands, Making, Handling, Init
  <1>3. InKernel = {o} /\ Queued = {} /\ lost = {}
    BY <1>1 DEF InKernel, Queued, Init
  <1>4. OverTypeOK
    BY <1>1 DEF OverTypeOK, Init, PCs, Operation, Events
  <1>5. Tidy
    BY DEF Tidy, Init, Posting
  <1>6. HeldIsLive /\ OnlySendsLeak
    BY <1>1, <1>2, <1>3, HeldMembers DEF HeldIsLive, OnlySendsLeak
  <1>7. OneHolder
    BY <1>1, <1>2, <1>3 DEF OneHolder, Hands, Init
  <1> QED
    BY <1>4, <1>5, <1>6, <1>7 DEF OverInv
-----------------------------------------------------------------------------
(* One lemma per action: Tidy and the types, then what moves, then the       *)
(* three conjuncts that the move could disturb.                              *)

\* One party at a time, in the words of the lemmas below.
Apart ==
  /\ InKernel \cap Queued = {}
  /\ lost \cap (InKernel \cup Queued) = {}
  /\ \A w \in Workers :
       /\ Hands(w) \cap (InKernel \cup Queued \cup lost) = {}
       /\ Making(w) \cap Handling(w) = {}
       /\ \A v \in Workers \ {w} : Hands(w) \cap Hands(v) = {}

Unique ==
  /\ \A op \in pending, q \in pending : op.over = q.over => op = q
  /\ \A c, d \in port : c.over = d.over => c = d

LEMMA OneHolderParts == OneHolder <=> Unique /\ Apart
PROOF
  BY DEF OneHolder, Unique, Apart, Hands

LEMMA OneHolderPartsNext == OneHolder' <=> Unique' /\ Apart'
PROOF
  BY DEF OneHolder, Unique, Apart, Hands

\* Adding an operation or a completion adds its address.
LEMMA OversOfAdded ==
  ASSUME NEW A, NEW x
  PROVE  {y.over : y \in A \cup {x}} = {y.over : y \in A} \cup {x.over}
PROOF
  OBVIOUS

\* Removing the only one with its address removes the address.
LEMMA OversOfRemoved ==
  ASSUME NEW A, NEW x \in A, \A y \in A : y.over = x.over => y = x
  PROVE  {y.over : y \in A \ {x}} = {y.over : y \in A} \ {x.over}
PROOF
  OBVIOUS

LEMMA CompleteStep ==
  ASSUME OverInv, NEW op \in pending, NEW n \in {0, 1}, Complete(op, n)
  PROVE  OverInv'
PROOF
  <1>1. op.over \in Overs /\ op \in Operation
    BY DEF OverInv, OverTypeOK, Operation
  <1>2. OverTypeOK'
    BY <1>1 DEF OverInv, OverTypeOK, Complete, Operation, Completion
  <1>3. Tidy'
    BY DEF OverInv, Tidy, Complete
  <1>4. /\ \A w \in Workers : Making(w)' = Making(w) /\ Handling(w)' = Handling(w)
        /\ \A w \in Workers : Hands(w)' = Hands(w)
    BY DEF Hands, Making, Handling, Complete
  <1>5. InKernel' = InKernel \ {op.over} /\ op.over \in InKernel
    <2>1. \A q \in pending : q.over = op.over => q = op
      BY OneHolderParts DEF OverInv, Unique
    <2>2. {q.over : q \in pending \ {op}} = {q.over : q \in pending} \ {op.over}
      BY <2>1, OversOfRemoved
    <2> QED
      BY <2>2 DEF InKernel, Complete
  <1>6. Queued' = Queued \cup {op.over}
    <2> DEFINE c == [over |-> op.over, ev |-> op.ev, bytes |-> n]
    <2>1. port' = port \cup {c} /\ c.over = op.over
      BY DEF Complete
    <2> HIDE DEF c
    <2> QED
      BY <2>1, OversOfAdded DEF Queued
  <1>u. Unique'
    <2>1. \A c \in port : c.over # op.over
      BY <1>5, OneHolderParts DEF OverInv, Apart, Queued
    <2> QED
      BY <2>1, OneHolderParts DEF OverInv, Unique, Complete
  <1>7. lost' = lost /\ live' = live
    BY DEF Complete
  <1>8. HeldIsLive' /\ OnlySendsLeak'
    BY <1>4, <1>5, <1>6, <1>7, HeldMembers, HeldMembersNext
       DEF OverInv, HeldIsLive, OnlySendsLeak
  <1>9. Apart'
    BY <1>4, <1>5, <1>6, <1>7, OneHolderParts DEF OverInv, Apart
  <1> QED
    BY <1>2, <1>3, <1>u, <1>8, <1>9, OneHolderPartsNext DEF OverInv

\* A worker's step that leaves the kernel alone: what the operations and the
\* completions say stays.
LEMMA KernelLeftAlone ==
  ASSUME OverInv, UNCHANGED <<pending, port>>
  PROVE  InKernel' = InKernel /\ Queued' = Queued /\ Unique'
PROOF
  BY OneHolderParts DEF OverInv, Unique, InKernel, Queued

\* The step of a worker is nothing to the hands of the others.
LEMMA OthersHands ==
  ASSUME NEW w \in Workers, NEW v \in Workers \ {w},
         v_over'[v] = v_over[v], overlapped'[v] = overlapped[v],
         called'[v] = called[v]
  PROVE  /\ Making(v)' = Making(v) /\ Handling(v)' = Handling(v)
         /\ Hands(v)' = Hands(v)
PROOF
  BY DEF Making, Handling, Hands

LEMMA DequeueStep ==
  ASSUME OverInv, NEW w \in Workers, NEW c \in port, Dequeue(w, c)
  PROVE  OverInv'
PROOF
  <1>1. c \in Completion /\ c.over \in Overs
    BY DEF OverInv, OverTypeOK, Completion
  <1>2. OverTypeOK'
    BY <1>1 DEF OverInv, OverTypeOK, Dequeue, Goto, HandlerOf, PCs, Posting
  <1>3. Tidy'
    BY <1>1, OverAssumption
       DEF OverInv, OverTypeOK, Tidy, Dequeue, Goto, HandlerOf, Posting
  <1>4. \A v \in Workers \ {w} : /\ Making(v)' = Making(v)
                                 /\ Handling(v)' = Handling(v)
                                 /\ Hands(v)' = Hands(v)
    BY OthersHands DEF OverInv, OverTypeOK, Dequeue
  <1>5. /\ Hands(w) = {} /\ Making(w)' = {}
        /\ Handling(w)' = {c.over} /\ Hands(w)' = {c.over}
    BY <1>1, OverAssumption
       DEF OverInv, OverTypeOK, Tidy, Dequeue, Making, Handling, Hands, Posting
  <1>6. Queued' = Queued \ {c.over} /\ c.over \in Queued
    <2>1. \A d \in port : d.over = c.over => d = c
      BY OneHolderParts DEF OverInv, Unique
    <2>2. {d.over : d \in port \ {c}} = {d.over : d \in port} \ {c.over}
      BY <2>1, OversOfRemoved
    <2> QED
      BY <2>2 DEF Queued, Dequeue
  <1>7. /\ InKernel' = InKernel
        /\ lost' = lost /\ live' = live
        /\ Unique'
    BY OneHolderParts DEF OverInv, Unique, Dequeue, InKernel
  <1>8. HeldIsLive' /\ OnlySendsLeak'
    BY <1>4, <1>5, <1>6, <1>7, HeldMembers, HeldMembersNext
       DEF OverInv, HeldIsLive, OnlySendsLeak
  <1>9. Apart'
    BY <1>4, <1>5, <1>6, <1>7, OneHolderParts DEF OverInv, Apart
  <1> QED
    BY <1>2, <1>3, <1>7, <1>8, <1>9, OneHolderPartsNext DEF OverInv

LEMMA DispatchStep ==
  ASSUME OverInv, NEW w \in Workers, Dispatch(w)
  PROVE  OverInv'
PROOF
  <1>1. OverTypeOK'
    BY DEF OverInv, OverTypeOK, Dispatch, Goto, PCs, Posting
  <1>2. Tidy'
    BY DEF OverInv, OverTypeOK, Tidy, Dispatch, Goto, Posting
  <1>3. \A v \in Workers : /\ Making(v)' = Making(v)
                           /\ Handling(v)' = Handling(v)
                           /\ Hands(v)' = Hands(v)
    BY DEF Dispatch, Making, Handling, Hands
  <1>4. /\ InKernel' = InKernel /\ Queued' = Queued /\ Unique'
        /\ lost' = lost /\ live' = live
    BY KernelLeftAlone DEF Dispatch
  <1>5. HeldIsLive' /\ OnlySendsLeak'
    BY <1>3, <1>4, HeldMembers, HeldMembersNext
       DEF OverInv, HeldIsLive, OnlySendsLeak
  <1>6. Apart'
    BY <1>3, <1>4, OneHolderParts DEF OverInv, Apart
  <1> QED
    BY <1>1, <1>2, <1>4, <1>5, <1>6, OneHolderPartsNext DEF OverInv

\* Both deletes of a completion.
LEMMA DeleteStep ==
  ASSUME OverInv, NEW w \in Workers, Delete(w) \/ DisConnect(w)
  PROVE  OverInv'
PROOF
  <1> DEFINE o == v_over[w]
  <1>1. o \in Overs
    BY DEF OverInv, OverTypeOK, Tidy, Delete, DisConnect
  <1>2. OverTypeOK'
    BY DEF OverInv, OverTypeOK, Delete, DisConnect, Goto, PCs
  <1>3. Tidy'
    BY DEF OverInv, OverTypeOK, Tidy, Delete, DisConnect, Goto, Posting
  <1>4. \A v \in Workers \ {w} : /\ Making(v)' = Making(v)
                                 /\ Handling(v)' = Handling(v)
                                 /\ Hands(v)' = Hands(v)
    BY OthersHands DEF OverInv, OverTypeOK, Delete, DisConnect
  <1>5. /\ Hands(w) = {o} /\ Making(w)' = {}
        /\ Handling(w)' = {} /\ Hands(w)' = {}
    BY <1>1, OverAssumption
       DEF OverInv, OverTypeOK, Tidy, Delete, DisConnect, Making, Handling,
           Hands, Posting
  <1>6. /\ InKernel' = InKernel /\ Queued' = Queued /\ Unique'
        /\ lost' = lost /\ live' = live \ {o}
    BY KernelLeftAlone DEF Delete, DisConnect
  <1> HIDE DEF o
  <1>7. o \notin InKernel \cup Queued \cup lost
    BY <1>5, OneHolderParts DEF OverInv, Apart
  <1>8. \A v \in Workers \ {w} : o \notin Hands(v)
    BY <1>5, OneHolderParts DEF OverInv, Apart
  <1>9. HeldIsLive' /\ OnlySendsLeak'
    BY <1>4, <1>5, <1>6, <1>7, <1>8, HeldMembers, HeldMembersNext
       DEF OverInv, HeldIsLive, OnlySendsLeak
  <1>10. Apart'
    BY <1>4, <1>5, <1>6, OneHolderParts DEF OverInv, Apart
  <1> QED
    BY <1>2, <1>3, <1>6, <1>9, <1>10, OneHolderPartsNext DEF OverInv

LEMMA MakeStep ==
  ASSUME OverInv, NEW w \in Workers, Make(w)
  PROVE  OverInv'
PROOF
  <1>1. PICK o \in Overs \ live :
          /\ live' = live \cup {o}
          /\ overlapped' = [overlapped EXCEPT ![w] = o]
    BY DEF Make
  <1>2. OverTypeOK'
    BY <1>1 DEF OverInv, OverTypeOK, Make
  <1>3. Tidy'
    BY <1>1, OverAssumption
       DEF OverInv, OverTypeOK, Tidy, Make, Starting
  <1>4. \A v \in Workers \ {w} : /\ Making(v)' = Making(v)
                                 /\ Handling(v)' = Handling(v)
                                 /\ Hands(v)' = Hands(v)
    BY <1>1, OthersHands DEF OverInv, OverTypeOK, Make
  <1>5. /\ Making(w)' = {o} /\ Handling(w)' = Handling(w)
        /\ Hands(w)' = Hands(w) \cup {o}
    BY <1>1, OverAssumption
       DEF OverInv, OverTypeOK, Tidy, Make, Making, Handling, Hands
  <1>6. /\ InKernel' = InKernel /\ Queued' = Queued /\ Unique'
        /\ lost' = lost
    BY KernelLeftAlone DEF Make
  <1>7. /\ o \notin InKernel \cup Queued \cup lost
        /\ \A v \in Workers : o \notin Hands(v) /\ o \notin Handling(v)
    BY <1>1, HeldMembers DEF OverInv, HeldIsLive, Hands
  <1>8. HeldIsLive' /\ OnlySendsLeak'
    BY <1>1, <1>4, <1>5, <1>6, <1>7, HeldMembers, HeldMembersNext
       DEF OverInv, HeldIsLive, OnlySendsLeak
  <1>9. Apart'
    BY <1>4, <1>5, <1>6, <1>7, OneHolderParts DEF OverInv, Apart
  <1> QED
    BY <1>2, <1>3, <1>6, <1>8, <1>9, OneHolderPartsNext DEF OverInv

LEMMA CallStep ==
  ASSUME OverInv, NEW w \in Workers, Call(w)
  PROVE  OverInv'
PROOF
  <1> DEFINE o  == overlapped[w]
             op == [over |-> o, ev |-> EventOf[pc[w]]]
  <1>1. o \in Overs /\ op \in Operation
    BY DEF OverInv, OverTypeOK, Call, ReadyToCall, Starting, Posting, EventOf,
           Operation, Events
  <1>2. OverTypeOK'
    BY <1>1 DEF OverInv, OverTypeOK, Call
  <1>3. Tidy'
    BY DEF OverInv, OverTypeOK, Tidy, Call, ReadyToCall
  <1>4. \A v \in Workers \ {w} : /\ Making(v)' = Making(v)
                                 /\ Handling(v)' = Handling(v)
                                 /\ Hands(v)' = Hands(v)
    BY OthersHands DEF OverInv, OverTypeOK, Call
  <1>5. /\ Making(w) = {o} /\ Making(w)' = {}
        /\ Handling(w)' = Handling(w) /\ Hands(w)' = Handling(w)
        /\ Hands(w) = Handling(w) \cup {o}
    BY <1>1, OverAssumption
       DEF OverInv, OverTypeOK, Call, ReadyToCall, Making, Handling, Hands
  <1>6. pending' = pending \cup {op} /\ op.over = o
    BY DEF Call
  <1>7. port' = port /\ Queued' = Queued /\ lost' = lost /\ live' = live
    BY DEF Call, Queued
  <1> HIDE DEF o, op
  <1>8. InKernel' = InKernel \cup {o}
    BY <1>6, OversOfAdded DEF InKernel
  <1>9. /\ o \notin InKernel \cup Queued \cup lost
        /\ o \notin Handling(w)
        /\ \A v \in Workers \ {w} : o \notin Hands(v)
    BY <1>5, OneHolderParts DEF OverInv, Apart
  <1>10. Unique'
    <2>1. \A q \in pending : q.over # o
      BY <1>9 DEF InKernel
    <2> QED
      BY <1>6, <1>7, <2>1, OneHolderParts DEF OverInv, Unique
  <1>11. HeldIsLive' /\ OnlySendsLeak'
    BY <1>4, <1>5, <1>7, <1>8, HeldMembers, HeldMembersNext
       DEF OverInv, HeldIsLive, OnlySendsLeak
  <1>12. Apart'
    BY <1>4, <1>5, <1>7, <1>8, <1>9, OneHolderParts DEF OverInv, Apart
  <1> QED
    BY <1>2, <1>3, <1>10, <1>11, <1>12, OneHolderPartsNext DEF OverInv

LEMMA PostThrowsStep ==
  ASSUME OverInv, NEW w \in Workers, PostThrows(w)
  PROVE  OverInv'
PROOF
  <1> DEFINE o == overlapped[w]
  <1>1. o \in Overs
    BY DEF OverInv, OverTypeOK, PostThrows, ReadyToCall
  <1>2. OverTypeOK'
    BY DEF OverInv, OverTypeOK, PostThrows
  <1>3. Tidy'
    BY DEF OverInv, OverTypeOK, Tidy, PostThrows, ReadyToCall
  <1>4. \A v \in Workers \ {w} : /\ Making(v)' = Making(v)
                                 /\ Handling(v)' = Handling(v)
                                 /\ Hands(v)' = Hands(v)
    BY OthersHands DEF OverInv, OverTypeOK, PostThrows
  <1>5. /\ Making(w) = {o} /\ Making(w)' = {}
        /\ Handling(w)' = Handling(w) /\ Hands(w)' = Handling(w)
        /\ Hands(w) = Handling(w) \cup {o}
    BY <1>1, OverAssumption
       DEF OverInv, OverTypeOK, PostThrows, ReadyToCall, Making, Handling, Hands
  <1>6. /\ InKernel' = InKernel /\ Queued' = Queued /\ Unique'
        /\ lost' = lost /\ live' = live \ {o}
    BY KernelLeftAlone DEF PostThrows
  <1> HIDE DEF o
  <1>7. /\ o \notin InKernel \cup Queued \cup lost
        /\ o \notin Handling(w)
        /\ \A v \in Workers \ {w} : o \notin Hands(v)
    BY <1>5, OneHolderParts DEF OverInv, Apart
  <1>8. HeldIsLive' /\ OnlySendsLeak'
    BY <1>4, <1>5, <1>6, <1>7, HeldMembers, HeldMembersNext
       DEF OverInv, HeldIsLive, OnlySendsLeak
  <1>9. Apart'
    BY <1>4, <1>5, <1>6, OneHolderParts DEF OverInv, Apart
  <1> QED
    BY <1>2, <1>3, <1>6, <1>8, <1>9, OneHolderPartsNext DEF OverInv

LEMMA SendThrowsStep ==
  ASSUME OverInv, NEW w \in Workers, SendThrows(w)
  PROVE  OverInv'
PROOF
  <1> DEFINE o == overlapped[w]
  <1>1. o \in Overs
    BY DEF OverInv, OverTypeOK, SendThrows, ReadyToCall
  <1>2. OverTypeOK'
    BY <1>1 DEF OverInv, OverTypeOK, SendThrows, Goto, PCs
  <1>3. Tidy'
    BY DEF OverInv, OverTypeOK, Tidy, SendThrows, ReadyToCall, Starting, Goto, Posting
  <1>4. \A v \in Workers \ {w} : /\ Making(v)' = Making(v)
                                 /\ Handling(v)' = Handling(v)
                                 /\ Hands(v)' = Hands(v)
    BY OthersHands DEF OverInv, OverTypeOK, SendThrows
  <1>5. /\ Making(w) = {o} /\ Making(w)' = {}
        /\ Handling(w)' = Handling(w) /\ Hands(w)' = Handling(w)
        /\ Hands(w) = Handling(w) \cup {o}
    BY <1>1, OverAssumption
       DEF OverInv, OverTypeOK, SendThrows, ReadyToCall, Making, Handling, Hands
  <1>6. /\ InKernel' = InKernel /\ Queued' = Queued /\ Unique'
        /\ lost' = lost \cup {o} /\ live' = live
    BY KernelLeftAlone DEF SendThrows
  <1> HIDE DEF o
  <1>7. /\ o \notin InKernel \cup Queued \cup lost
        /\ o \notin Handling(w)
        /\ \A v \in Workers \ {w} : o \notin Hands(v)
    BY <1>5, OneHolderParts DEF OverInv, Apart
  <1>8. HeldIsLive' /\ OnlySendsLeak'
    BY <1>4, <1>5, <1>6, HeldMembers, HeldMembersNext
       DEF OverInv, HeldIsLive, OnlySendsLeak
  <1>9. Apart'
    BY <1>4, <1>5, <1>6, <1>7, OneHolderParts DEF OverInv, Apart
  <1> QED
    BY <1>2, <1>3, <1>6, <1>8, <1>9, OneHolderPartsNext DEF OverInv

LEMMA ReleaseStep ==
  ASSUME OverInv, NEW w \in Workers, Release(w)
  PROVE  OverInv'
PROOF
  <1>1. pc[w] \in Posting
    BY DEF OverInv, Tidy, Release
  <1>2. OverTypeOK'
    BY <1>1 DEF OverInv, OverTypeOK, Release, Goto, PCs, Posting, After
  <1>3. Tidy'
    BY <1>1 DEF OverInv, OverTypeOK, Tidy, Release, Goto, Posting, After
  <1>4. \A v \in Workers : /\ Making(v)' = Making(v)
                           /\ Handling(v)' = Handling(v)
                           /\ Hands(v)' = Hands(v)
    BY DEF OverInv, OverTypeOK, Release, Making, Handling, Hands
  <1>5. /\ InKernel' = InKernel /\ Queued' = Queued /\ Unique'
        /\ lost' = lost /\ live' = live
    BY KernelLeftAlone DEF Release
  <1>6. HeldIsLive' /\ OnlySendsLeak'
    BY <1>4, <1>5, HeldMembers, HeldMembersNext
       DEF OverInv, HeldIsLive, OnlySendsLeak
  <1>7. Apart'
    BY <1>4, <1>5, OneHolderParts DEF OverInv, Apart
  <1> QED
    BY <1>2, <1>3, <1>5, <1>6, <1>7, OneHolderPartsNext DEF OverInv

LEMMA StutterStep ==
  ASSUME OverInv, UNCHANGED vars
  PROVE  OverInv'
PROOF
  <1>1. /\ UNCHANGED <<pending, port>>
        /\ lost' = lost /\ live' = live
    BY DEF vars
  <1>2. InKernel' = InKernel /\ Queued' = Queued /\ Unique'
    BY <1>1, KernelLeftAlone
  <1>3. \A v \in Workers : /\ Making(v)' = Making(v)
                           /\ Handling(v)' = Handling(v)
                           /\ Hands(v)' = Hands(v)
    BY DEF vars, Making, Handling, Hands
  <1>4. OverTypeOK' /\ Tidy'
    BY DEF OverInv, OverTypeOK, Tidy, vars
  <1>5. HeldIsLive' /\ OnlySendsLeak'
    BY <1>1, <1>2, <1>3, HeldMembers, HeldMembersNext
       DEF OverInv, HeldIsLive, OnlySendsLeak
  <1>6. Apart'
    BY <1>1, <1>2, <1>3, OneHolderParts DEF OverInv, Apart
  <1> QED
    BY <1>2, <1>4, <1>5, <1>6, OneHolderPartsNext DEF OverInv

-----------------------------------------------------------------------------
(* The theorems. *)

\* The life of the v_overlapped objects is what the modules say at any time:
\* OverInv is an invariant.
THEOREM OverInvariant == Spec => []OverInv
PROOF
  <1>1. OverInv /\ [Next]_vars => OverInv'
    <2> SUFFICES ASSUME OverInv, [Next]_vars PROVE OverInv'
      OBVIOUS
    <2>1. CASE Kernel
      BY <2>1, CompleteStep DEF Kernel
    <2>2. ASSUME NEW w \in Workers, Worker(w) PROVE OverInv'
      <3>1. CASE \E c \in port : Dequeue(w, c)
        BY <3>1, DequeueStep
      <3>2. CASE Dispatch(w)
        BY <3>2, DispatchStep
      <3>3. CASE Delete(w) \/ DisConnect(w)
        BY <3>3, DeleteStep
      <3>4. CASE Make(w)
        BY <3>4, MakeStep
      <3>5. CASE Call(w)
        BY <3>5, CallStep
      <3>6. CASE PostThrows(w)
        BY <3>6, PostThrowsStep
      <3>7. CASE SendThrows(w)
        BY <3>7, SendThrowsStep
      <3>8. CASE Release(w)
        BY <3>8, ReleaseStep
      <3> QED
        BY <2>2, <3>1, <3>2, <3>3, <3>4, <3>5, <3>6, <3>7, <3>8 DEF Worker
    <2>3. CASE UNCHANGED vars
      BY <2>3, StutterStep
    <2> QED
      BY <2>1, <2>2, <2>3 DEF Next
  <1> QED
    BY InitOverInv, <1>1, PTL DEF Spec

\* No worker and no pending operation ever refers to an object that was
\* deleted, although the caller of WSARecv and AcceptEx holds on to its
\* pointer until release() and the completion may be handled before.
THEOREM NoUseAfterDelete == Spec => []HeldIsLive
PROOF
  BY OverInvariant, PTL DEF OverInv

\* An object has one holder, so m_btBuf is not filled while it is read and no
\* object is deleted twice.
THEOREM SingleHolder == Spec => []OneHolder
PROOF
  BY OverInvariant, PTL DEF OverInv

\* The only objects never deleted are those of a WSASend that failed at once.
THEOREM LeaksAreSends == Spec => []OnlySendsLeak
PROOF
  BY OverInvariant, PTL DEF OverInv
=============================================================================
