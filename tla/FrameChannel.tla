----------------------------- MODULE FrameChannel -----------------------------
(***************************************************************************)
(* What the framing of package_handler.hpp promises to its users: the       *)
(* messages handed to serialize_data at one end reach dispatch_message at   *)
(* the other end whole, once each and in order, however TCP cuts the bytes. *)
(***************************************************************************)
EXTENDS Naturals, Sequences

VARIABLES
  sent,       \* the messages serialized so far
  delivered   \* the messages dispatched so far

Init == sent = <<>> /\ delivered = <<>>

\* Some message is serialized and sent.
Send ==
  /\ Len(sent') = Len(sent) + 1
  /\ \A i \in 1 .. Len(sent) : sent'[i] = sent[i]
  /\ UNCHANGED delivered

\* The next message is dispatched.
Deliver ==
  /\ Len(delivered) < Len(sent)
  /\ delivered' = Append(delivered, sent[Len(delivered) + 1])
  /\ UNCHANGED sent

Next == Send \/ Deliver

Spec == Init /\ [][Next]_<<sent, delivered>>
=============================================================================
