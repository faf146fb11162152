----------------------------- MODULE StreamParser -----------------------------
(***************************************************************************)
(* receive_from_buffer: the frames of one direction of a connection, cut    *)
(* into chunks by TCP, put together again in session::ring_buffer.          *)
(*                                                                         *)
(* A byte is its position in the stream.  The ring buffer holds positions,  *)
(* so that a byte that is lost, repeated or moved to the wrong place shows. *)
(* A frame is the interval of positions that serialize_data gave it, and    *)
(* the length field can be read wherever its header is in one piece.        *)
(*                                                                         *)
(* The sizes are parameters.  ServerApp receives in chunks of at most       *)
(* sizeof(m_btBuf) = MAXBYTE = 255 bytes, ClientApp in chunks of at most    *)
(* sizeof(buffer) = 2048 bytes, both into a ring_buffer of 2048 bytes.      *)
(***************************************************************************)
EXTENDS Naturals, Sequences

CONSTANTS
  HEADER_SIZE,   \* the length and the type field
  FrameSizes,    \* the sizes serialize_data produces, header included
  Chunk,         \* the most bytes one receive returns
  buffer_size,   \* the capacity of ring_buffer
  MaxFrames      \* bound: the frames sent in a run

\* The JSON text of a message is never empty: its dump is at least "".
ASSUME StreamAssumption ==
  /\ HEADER_SIZE \in Nat \ {0}
  /\ FrameSizes \subseteq Nat
  /\ \A n \in FrameSizes : n > HEADER_SIZE
  /\ Chunk \in Nat \ {0}
  /\ buffer_size \in Nat
  /\ MaxFrames \in Nat

VARIABLES
  ends,          \* the stream position after each frame sent
  arrived,       \* the bytes of the stream received so far
  ring_buffer,   \* the stream position of the byte at each index
  cur_size,      \* the bytes in ring_buffer
  offset,        \* the bytes of ring_buffer parsed by this call
  running,       \* receive_from_buffer is in its loop
  overrun,       \* memcpy wrote past ring_buffer: nothing is known any more
  delivered      \* the bytes of each frame dispatched

vars == <<ends, arrived, ring_buffer, cur_size, offset, running, overrun, delivered>>

\* The stream position after the first i frames.
End(i) == IF i = 0 THEN 0 ELSE ends[i]

Bytes(from, length) == [j \in 0 .. length - 1 |-> from + j]

StreamTypeOK ==
  /\ ends \in Seq(Nat)
  /\ arrived \in Nat
  /\ ring_buffer \in [0 .. buffer_size - 1 -> Nat]
  /\ cur_size \in Nat
  /\ offset \in Nat
  /\ running \in BOOLEAN
  /\ overrun \in BOOLEAN

Init ==
  /\ ends = <<>>
  /\ arrived = 0
  /\ ring_buffer = [i \in 0 .. buffer_size - 1 |-> 0]
  /\ cur_size = 0
  /\ offset = 0
  /\ running = FALSE
  /\ overrun = FALSE
  /\ delivered = <<>>

-----------------------------------------------------------------------------

\* serialize_data prepends the header to the message; the bytes are sent.
Send(length) ==
  /\ Len(ends) < MaxFrames
  /\ ends' = Append(ends, End(Len(ends)) + length)
  /\ UNCHANGED <<arrived, ring_buffer, cur_size, offset, running, overrun, delivered>>

\* A receive returns the next n bytes; receive_from_buffer puts them behind
\* those it has.
Receive(n) ==
  /\ ~running /\ ~overrun
  /\ arrived + n <= End(Len(ends))
  /\ arrived' = arrived + n
  /\ IF cur_size + n <= buffer_size
     THEN /\ ring_buffer' = [i \in 0 .. buffer_size - 1 |->
               IF i >= cur_size /\ i < cur_size + n THEN arrived + (i - cur_size)
                                                    ELSE ring_buffer[i]]
          /\ cur_size' = cur_size + n
          /\ running' = TRUE
          /\ UNCHANGED overrun
     ELSE overrun' = TRUE /\ UNCHANGED <<ring_buffer, cur_size, running>>
  /\ offset' = 0
  /\ UNCHANGED <<ends, delivered>>

\* The bytes at index i are those of a header, the one of frame f.
HeaderAt(i, f) ==
  \A j \in 0 .. HEADER_SIZE - 1 : ring_buffer[i + j] = End(f - 1) + j

\* What the length field at index i can say: the size of the frame, or
\* anything if the bytes there are not a header.
LengthAt(i) ==
  LET found == {f \in 1 .. Len(ends) : HeaderAt(i, f)}
  IN IF found = {} THEN FrameSizes ELSE {End(f) - End(f - 1) : f \in found}

\* The loop finds a whole frame and dispatches it.
Dispatch ==
  /\ running
  /\ cur_size - offset >= HEADER_SIZE
  /\ \E length \in LengthAt(offset) :
       /\ cur_size - offset >= length
       /\ delivered' = Append(delivered,
                              [j \in 0 .. length - 1 |-> ring_buffer[offset + j]])
       /\ offset' = offset + length
  /\ UNCHANGED <<ends, arrived, ring_buffer, cur_size, running, overrun>>

\* Mistake: the loop ends too when exactly one frame is left.
FinishedEarly ==
  cur_size - offset >= HEADER_SIZE =>
    \E length \in LengthAt(offset) : cur_size - offset <= length

\* The loop ends: less than a header is left, or less than a frame.
Finished ==
  cur_size - offset >= HEADER_SIZE =>
    \E length \in LengthAt(offset) : cur_size - offset < length

\* Mistake: the rest stays where it is.
CompactWithoutMove ==
  /\ running
  /\ Finished
  /\ cur_size' = cur_size - offset
  /\ offset' = 0
  /\ running' = FALSE
  /\ UNCHANGED <<ends, arrived, ring_buffer, overrun, delivered>>

\* Mistake: the frames parsed are not taken off cur_size.
CompactWithoutShrink ==
  /\ running
  /\ Finished
  /\ offset' = 0
  /\ running' = FALSE
  /\ UNCHANGED <<ends, arrived, ring_buffer, cur_size, overrun, delivered>>

\* Mistake: the header of the frame that is not complete is taken off as well.
CompactTooMuch ==
  /\ running
  /\ Finished
  /\ cur_size' = cur_size - offset - HEADER_SIZE
  /\ offset' = 0
  /\ running' = FALSE
  /\ UNCHANGED <<ends, arrived, ring_buffer, overrun, delivered>>

\* What is left moves to the front of the buffer.  The ranges may overlap; the
\* memcpy of the Microsoft runtime copies them as memmove does.
Compact ==
  /\ running
  /\ Finished
  /\ ring_buffer' = [i \in 0 .. buffer_size - 1 |->
       IF i < cur_size - offset THEN ring_buffer[i + offset] ELSE ring_buffer[i]]
  /\ cur_size' = cur_size - offset
  /\ offset' = 0
  /\ running' = FALSE
  /\ UNCHANGED <<ends, arrived, overrun, delivered>>

Next ==
  \/ \E length \in FrameSizes : Send(length)
  \/ \E n \in 1 .. Chunk : Receive(n)
  \/ Dispatch
  \/ Compact

Spec == Init /\ [][Next]_vars

\* The receiver keeps receiving while there are bytes, and a call returns.
FairSpec ==
  /\ Spec
  /\ WF_vars(\E n \in 1 .. Chunk : Receive(n))
  /\ WF_vars(Dispatch)
  /\ WF_vars(Compact)

-----------------------------------------------------------------------------
(* Properties. *)

Frame(i) == Bytes(End(i - 1), End(i) - End(i - 1))

Channel == INSTANCE FrameChannel WITH
  sent      <- [i \in 1 .. Len(ends) |-> Frame(i)],
  delivered <- delivered

\* The parser implements the channel: frames are dispatched whole, once each
\* and in the order they were sent.
ChannelSpec == Channel!Spec

\* The buffer is never written past its end: what a call leaves behind and the
\* largest chunk fit together.
NoOverrun == ~overrun

\* Between two calls the buffer holds a proper part of the next frame and
\* nothing else: no complete frame is left waiting for more bytes to come.
LeftoverIsPartial ==
  ~running /\ ~overrun =>
    /\ arrived = End(Len(delivered)) + cur_size
    /\ \A i \in 0 .. cur_size - 1 : ring_buffer[i] = End(Len(delivered)) + i
    /\ IF Len(delivered) < Len(ends)
       THEN cur_size < End(Len(delivered) + 1) - End(Len(delivered))
       ELSE cur_size = 0

\* Every frame sent is dispatched: none waits for the next one to push it out.
EveryFrameDelivered ==
  \A n \in 1 .. MaxFrames : Len(ends) >= n ~> Len(delivered) >= n

\* The largest frame, all but a byte of it, and a full chunk fit into the
\* buffer: frames of up to 1794 bytes for ServerApp, of a single byte, that
\* is none, for ClientApp.
BufferFits == \A n \in FrameSizes : n - 1 + Chunk <= buffer_size

-----------------------------------------------------------------------------
(* The inductive invariant. *)

\* Frames lie one behind the other in the stream, each longer than a header.
FramesApart ==
  /\ \A i \in 1 .. Len(ends) : \E n \in FrameSizes : ends[i] = End(i - 1) + n
  /\ \A i, j \in 0 .. Len(ends) : i < j => End(i) + HEADER_SIZE < End(j)

\* The bytes not parsed yet are the next ones of the stream, and what was
\* dispatched is the frames before them.
BufferIsNext ==
  /\ offset <= cur_size /\ cur_size <= buffer_size
  /\ Len(delivered) <= Len(ends)
  /\ arrived <= End(Len(ends))
  /\ ~overrun => arrived = End(Len(delivered)) + (cur_size - offset)
  /\ \A i \in offset .. cur_size - 1 :
       ring_buffer[i] = End(Len(delivered)) + (i - offset)
  /\ IF running THEN ~overrun ELSE offset = 0

DeliveredFrames == \A i \in 1 .. Len(delivered) : delivered[i] = Frame(i)

\* What is left between two calls is less than the next frame.
LeftoverShort ==
  ~running /\ ~overrun =>
    \/ cur_size = 0
    \/ /\ Len(delivered) < Len(ends)
       /\ cur_size < End(Len(delivered) + 1) - End(Len(delivered))

StreamInv ==
  /\ StreamTypeOK
  /\ FramesApart
  /\ BufferIsNext
  /\ DeliveredFrames
  /\ LeftoverShort
=============================================================================
