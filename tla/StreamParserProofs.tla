-------------------------- MODULE StreamParserProofs --------------------------
(***************************************************************************)
(* Proofs about receive_from_buffer for any sizes and any cutting of the    *)
(* stream: it implements the frame channel, and the buffer is large enough  *)
(* whenever it holds the largest frame but a byte and a full chunk.         *)
(***************************************************************************)
EXTENDS StreamParser, TLAPS

\* What a dispatched frame is a member of.
ByteBlock == UNION {[0 .. n - 1 -> Nat] : n \in Nat}

FullInv == StreamInv /\ delivered \in Seq(ByteBlock)

\* The ends of the frames are positions.
LEMMA EndIsNat ==
  ASSUME StreamTypeOK, NEW i \in 0 .. Len(ends)
  PROVE  End(i) \in Nat
BY DEF StreamTypeOK, End

\* Where the loop stands is the start of the next frame: if a header's worth
\* of bytes is there, its length field says the size of that frame.
LEMMA NextLength ==
  ASSUME StreamAssumption, FullInv, running, ~overrun, cur_size - offset >= HEADER_SIZE
  PROVE  LET d == Len(delivered)
         IN /\ d + 1 \in 1 .. Len(ends)
            /\ LengthAt(offset) = {End(d + 1) - End(d)}
            /\ End(d + 1) - End(d) \in FrameSizes
<1> DEFINE d == Len(delivered)
<1>1. /\ d \in Nat /\ d <= Len(ends) /\ Len(ends) \in Nat
      /\ \A i \in 0 .. Len(ends) : End(i) \in Nat
      /\ cur_size \in Nat /\ offset \in Nat /\ arrived \in Nat
      /\ HEADER_SIZE \in Nat /\ HEADER_SIZE > 0
  BY EndIsNat DEF FullInv, StreamInv, StreamTypeOK, StreamAssumption, BufferIsNext
<1>2. End(d) + (cur_size - offset) <= End(Len(ends))
  BY DEF FullInv, StreamInv, BufferIsNext
<1>3. d < Len(ends)
  <2>1. SUFFICES ASSUME d = Len(ends) PROVE FALSE
    BY <1>1
  <2>2. End(d) \in Nat
    BY <1>1
  <2>3. End(d) + (cur_size - offset) <= End(d)
    BY <1>2, <2>1
  <2> HIDE DEF d
  <2> QED BY <1>1, <2>2, <2>3
<1>4. d + 1 \in 1 .. Len(ends) /\ d + 1 # 0 /\ (d + 1) - 1 = d
  BY <1>1, <1>3
<1>5. End(d + 1) - End(d) \in FrameSizes
  <2>1. PICK n \in FrameSizes : ends[d + 1] = End((d + 1) - 1) + n
    BY <1>4 DEF FullInv, StreamInv, FramesApart
  <2>2. End(d + 1) = End(d) + n
    BY <1>4, <2>1 DEF End
  <2>3. n \in Nat /\ End(d) \in Nat
    BY <1>1 DEF StreamAssumption
  <2> HIDE DEF d
  <2> QED BY <2>2, <2>3
<1>6. \A j \in 0 .. HEADER_SIZE - 1 : ring_buffer[offset + j] = End(d) + j
  <2> SUFFICES ASSUME NEW j \in 0 .. HEADER_SIZE - 1 PROVE ring_buffer[offset + j] = End(d) + j
    OBVIOUS
  <2>1. offset + j \in offset .. cur_size - 1 /\ (offset + j) - offset = j
    BY <1>1
  <2>2. \A i \in offset .. cur_size - 1 : ring_buffer[i] = End(d) + (i - offset)
    BY DEF FullInv, StreamInv, BufferIsNext
  <2> QED BY <2>1, <2>2
<1>7. HeaderAt(offset, d + 1)
  BY <1>4, <1>6 DEF HeaderAt
<1>8. ASSUME NEW f \in 1 .. Len(ends), HeaderAt(offset, f) PROVE f = d + 1
  <2>1. 0 \in 0 .. HEADER_SIZE - 1
    BY <1>1
  <2>2. End(f - 1) + 0 = End(d) + 0
    BY <1>6, <1>8, <2>1 DEF HeaderAt
  <2>3. f - 1 \in 0 .. Len(ends) /\ d \in 0 .. Len(ends)
    BY <1>1
  <2>4. End(f - 1) = End(d) /\ End(d) \in Nat
    BY <1>1, <2>2, <2>3
  <2>5. \A i, j \in 0 .. Len(ends) : i < j => End(i) + HEADER_SIZE < End(j)
    BY DEF FullInv, StreamInv, FramesApart
  <2> HIDE DEF d
  <2>6. ~(f - 1 < d) /\ ~(d < f - 1)
    BY <1>1, <2>3, <2>4, <2>5
  <2> QED BY <1>1, <2>3, <2>6
<1>9. LengthAt(offset) = {End(d + 1) - End(d)}
  <2>1. {f \in 1 .. Len(ends) : HeaderAt(offset, f)} = {d + 1}
    BY <1>4, <1>7, <1>8
  <2> QED BY <1>4, <2>1 DEF LengthAt
<1> QED BY <1>4, <1>5, <1>9

LEMMA FullInvInit ==
  ASSUME StreamAssumption, Init
  PROVE  FullInv
<1>1. ends = <<>> /\ Len(ends) = 0 /\ delivered = <<>> /\ Len(delivered) = 0
  BY DEF Init
<1>2. StreamTypeOK
  <2>1. ends \in Seq(Nat)
    BY <1>1
  <2>2. ring_buffer \in [0 .. buffer_size - 1 -> Nat]
    BY DEF Init
  <2>3. arrived \in Nat /\ cur_size \in Nat /\ offset \in Nat
    BY DEF Init
  <2>4. running \in BOOLEAN /\ overrun \in BOOLEAN
    BY DEF Init
  <2> QED BY <2>1, <2>2, <2>3, <2>4 DEF StreamTypeOK
<1>3. FramesApart /\ DeliveredFrames /\ LeftoverShort
  BY <1>1 DEF Init, FramesApart, DeliveredFrames, LeftoverShort
<1>4. BufferIsNext
  BY <1>1 DEF StreamAssumption, Init, BufferIsNext, End
<1>5. delivered \in Seq(ByteBlock)
  BY <1>1
<1> QED BY <1>2, <1>3, <1>4, <1>5 DEF FullInv, StreamInv

\* A new frame leaves the ends of the earlier ones and is longer than a header.
LEMMA SendEnds ==
  ASSUME StreamAssumption, StreamTypeOK, NEW length \in FrameSizes, Send(length)
  PROVE  /\ ends' \in Seq(Nat) /\ Len(ends') = Len(ends) + 1 /\ Len(ends) \in Nat
         /\ \A i \in 1 .. Len(ends) : ends'[i] = ends[i]
         /\ \A i \in 0 .. Len(ends) : End(i)' = End(i) /\ End(i) \in Nat
         /\ \A i : i = Len(ends) + 1 => End(i)' = End(Len(ends)) + length
         /\ ends'[Len(ends) + 1] = End(Len(ends)) + length
<1>1. ends \in Seq(Nat) /\ Len(ends) \in Nat
  BY DEF StreamTypeOK
<1>2. End(Len(ends)) + length \in Nat
  BY <1>1, EndIsNat DEF StreamAssumption
<1>3. ends' = Append(ends, End(Len(ends)) + length)
  BY DEF Send
<1>4. /\ ends' \in Seq(Nat) /\ Len(ends') = Len(ends) + 1
      /\ \A i \in 1 .. Len(ends) : ends'[i] = ends[i]
      /\ ends'[Len(ends) + 1] = End(Len(ends)) + length
  BY <1>1, <1>2, <1>3
<1>5. ASSUME NEW i \in 0 .. Len(ends) PROVE End(i)' = End(i) /\ End(i) \in Nat
  BY <1>1, <1>4, EndIsNat DEF End
<1>6. \A i : i = Len(ends) + 1 => End(i)' = End(Len(ends)) + length
  BY <1>1, <1>4 DEF End
<1> QED BY <1>1, <1>4, <1>5, <1>6

LEMMA SendKeeps ==
  ASSUME StreamAssumption, FullInv, NEW length \in FrameSizes, Send(length)
  PROVE  FullInv'
<1> DEFINE L == Len(ends)
<1>1. /\ ends' \in Seq(Nat) /\ Len(ends') = L + 1 /\ L \in Nat
      /\ \A i \in 1 .. L : ends'[i] = ends[i]
      /\ \A i \in 0 .. L : End(i)' = End(i) /\ End(i) \in Nat
      /\ \A i : i = L + 1 => End(i)' = End(L) + length
      /\ ends'[L + 1] = End(L) + length
  BY SendEnds DEF FullInv, StreamInv
<1>2. length \in Nat /\ length > HEADER_SIZE /\ HEADER_SIZE \in Nat /\ HEADER_SIZE > 0
  BY DEF StreamAssumption
<1>3. UNCHANGED <<arrived, ring_buffer, cur_size, offset, running, overrun, delivered>>
  BY DEF Send
<1>4. FramesApart
  BY DEF FullInv, StreamInv
<1>5. FramesApart'
  <2>1. ASSUME NEW i \in 1 .. L + 1 PROVE \E n \in FrameSizes : ends'[i] = End(i - 1)' + n
    <3>1. CASE i = L + 1
      BY <1>1, <3>1
    <3>2. CASE i \in 1 .. L
      <4>1. PICK n \in FrameSizes : ends[i] = End(i - 1) + n
        BY <1>4, <3>2 DEF FramesApart
      <4>2. i - 1 \in 0 .. L
        BY <1>1, <3>2
      <4> HIDE DEF L
      <4> QED BY <1>1, <3>2, <4>1, <4>2
    <3> QED BY <1>1, <3>1, <3>2
  <2>2. ASSUME NEW i \in 0 .. L + 1, NEW j \in 0 .. L + 1, i < j
        PROVE  End(i)' + HEADER_SIZE < End(j)'
    <3>1. \A x, y \in 0 .. L : x < y => End(x) + HEADER_SIZE < End(y)
      BY <1>4 DEF FramesApart
    <3> HIDE DEF L
    <3>2. i \in 0 .. L
      BY <1>1, <2>2
    <3>3. CASE j \in 0 .. L
      BY <1>1, <2>2, <3>1, <3>2, <3>3
    <3>4. CASE j = L + 1
      <4>1. End(i) <= End(L)
        <5>1. CASE i = L
          BY <1>1, <5>1
        <5>2. CASE i # L
          <6>1. i < L /\ L \in 0 .. L
            BY <1>1, <3>2, <5>2
          <6>2. End(i) + HEADER_SIZE < End(L)
            BY <3>1, <3>2, <6>1
          <6>3. End(i) \in Nat /\ End(L) \in Nat
            BY <1>1, <3>2, <6>1
          <6> QED BY <1>2, <6>2, <6>3
        <5> QED BY <5>1, <5>2
      <4>2. End(j)' = End(L) + length /\ End(i)' = End(i)
        BY <1>1, <3>2, <3>4
      <4>3. L \in 0 .. L /\ End(i) \in Nat /\ End(L) \in Nat
        BY <1>1, <3>2
      <4> QED BY <1>2, <4>1, <4>2, <4>3
    <3> QED BY <1>1, <3>3, <3>4
  <2> QED BY <1>1, <2>1, <2>2 DEF FramesApart
<1>6. /\ Len(delivered) \in Nat /\ Len(delivered) <= L
      /\ arrived \in Nat /\ arrived <= End(L)
      /\ cur_size \in Nat /\ offset \in Nat
  BY DEF FullInv, StreamInv, StreamTypeOK, BufferIsNext
<1>7. StreamTypeOK'
  BY <1>1, <1>3 DEF FullInv, StreamInv, StreamTypeOK
<1>8. BufferIsNext'
  <2>1. End(Len(delivered))' = End(Len(delivered))
    BY <1>1, <1>3, <1>6
  <2>2. End(Len(ends))' = End(L) + length
    BY <1>1
  <2>3. arrived <= End(L) + length
    <3>1. End(L) \in Nat
      BY <1>1
    <3> QED BY <1>2, <1>6, <3>1
  <2>4. Len(delivered) <= L + 1
    BY <1>1, <1>6
  <2> HIDE DEF L
  <2> QED BY <1>1, <1>3, <1>6, <2>1, <2>2, <2>3, <2>4 DEF FullInv, StreamInv, BufferIsNext
<1>9. DeliveredFrames'
  <2> SUFFICES ASSUME NEW i \in 1 .. Len(delivered) PROVE delivered[i] = Frame(i)'
    BY <1>3 DEF DeliveredFrames
  <2>1. delivered[i] = Frame(i)
    BY DEF FullInv, StreamInv, DeliveredFrames
  <2>2. i \in 0 .. L /\ i - 1 \in 0 .. L
    BY <1>1, <1>6
  <2>3. End(i)' = End(i) /\ End(i - 1)' = End(i - 1)
    BY <1>1, <2>2
  <2> QED BY <2>1, <2>3 DEF Frame, Bytes
<1>10. LeftoverShort'
  <2> SUFFICES ASSUME ~running, ~overrun, cur_size # 0
               PROVE  /\ Len(delivered) < L + 1
                      /\ cur_size < End(Len(delivered) + 1)' - End(Len(delivered))'
    BY <1>1, <1>3 DEF LeftoverShort
  <2>1. Len(delivered) < L /\ cur_size < End(Len(delivered) + 1) - End(Len(delivered))
    BY DEF FullInv, StreamInv, LeftoverShort
  <2>2. Len(delivered) \in 0 .. L /\ Len(delivered) + 1 \in 0 .. L
    BY <1>1, <1>6, <2>1
  <2>3. /\ End(Len(delivered))' = End(Len(delivered))
        /\ End(Len(delivered) + 1)' = End(Len(delivered) + 1)
    BY <1>1, <1>3, <2>2
  <2> QED BY <1>1, <1>6, <2>1, <2>3
<1> QED BY <1>3, <1>5, <1>7, <1>8, <1>9, <1>10 DEF FullInv, StreamInv

LEMMA ReceiveKeeps ==
  ASSUME StreamAssumption, FullInv, NEW n \in 1 .. Chunk, Receive(n)
  PROVE  FullInv'
<1> DEFINE d == Len(delivered)
           fits == cur_size + n <= buffer_size
<1>1. /\ UNCHANGED <<ends, delivered>>
      /\ arrived' = arrived + n /\ offset' = 0 /\ ~running /\ ~overrun
      /\ arrived + n <= End(Len(ends))
      /\ fits => /\ ring_buffer' = [i \in 0 .. buffer_size - 1 |->
                      IF i >= cur_size /\ i < cur_size + n THEN arrived + (i - cur_size)
                                                           ELSE ring_buffer[i]]
                 /\ cur_size' = cur_size + n /\ running' = TRUE /\ overrun' = FALSE
      /\ ~fits => overrun' = TRUE /\ UNCHANGED <<ring_buffer, cur_size, running>>
  BY DEF Receive, FullInv, StreamInv, StreamTypeOK
<1>2. /\ arrived \in Nat /\ cur_size \in Nat /\ offset \in Nat
      /\ ring_buffer \in [0 .. buffer_size - 1 -> Nat]
      /\ n \in Nat /\ buffer_size \in Nat
      /\ Len(ends) \in Nat /\ d \in Nat /\ d <= Len(ends)
  BY DEF FullInv, StreamInv, StreamTypeOK, BufferIsNext, StreamAssumption
<1>3. End(d) \in Nat /\ End(d)' = End(d) /\ End(Len(ends))' = End(Len(ends))
  <2>1. End(d) \in Nat
    BY <1>2, EndIsNat DEF FullInv, StreamInv
  <2> QED BY <1>1, <2>1 DEF End
<1>4. /\ offset = 0 /\ cur_size <= buffer_size
      /\ arrived = End(d) + (cur_size - offset)
      /\ \A i \in offset .. cur_size - 1 : ring_buffer[i] = End(d) + (i - offset)
  BY <1>1 DEF FullInv, StreamInv, BufferIsNext
<1>5. StreamTypeOK'
  <2>1. ring_buffer' \in [0 .. buffer_size - 1 -> Nat]
    <3>1. CASE fits
      <4> SUFFICES ASSUME NEW i \in 0 .. buffer_size - 1, i >= cur_size, i < cur_size + n
                   PROVE  arrived + (i - cur_size) \in Nat
        BY <1>1, <1>2, <3>1
      <4> QED BY <1>2
    <3>2. CASE ~fits
      BY <1>1, <1>2, <3>2
    <3> QED BY <3>1, <3>2
  <2>2. arrived' \in Nat /\ cur_size' \in Nat /\ offset' \in Nat
    BY <1>1, <1>2
  <2>3. running' \in BOOLEAN /\ overrun' \in BOOLEAN
    <3>1. running \in BOOLEAN
      BY DEF FullInv, StreamInv, StreamTypeOK
    <3> QED BY <1>1, <3>1
  <2>4. ends' \in Seq(Nat)
    BY <1>1 DEF FullInv, StreamInv, StreamTypeOK
  <2> QED BY <2>1, <2>2, <2>3, <2>4 DEF StreamTypeOK
<1>6. FramesApart' /\ DeliveredFrames'
  BY <1>1 DEF FullInv, StreamInv, FramesApart, DeliveredFrames, Frame, Bytes, End
<1>7. BufferIsNext'
  <2>1. CASE fits
    <3>1. arrived' = End(d)' + (cur_size' - offset')
      <4> HIDE DEF d
      <4> QED BY <1>1, <1>2, <1>3, <1>4, <2>1
    <3>2. \A i \in offset' .. cur_size' - 1 : ring_buffer'[i] = End(d)' + (i - offset')
      <4> HIDE DEF d
      <4> SUFFICES ASSUME NEW i \in 0 .. cur_size + n - 1 PROVE ring_buffer'[i] = End(d) + i
        BY <1>1, <1>2, <1>3, <2>1
      <4>1. i \in 0 .. buffer_size - 1
        BY <1>2, <2>1
      <4>2. CASE i < cur_size
        BY <1>1, <1>2, <1>3, <1>4, <2>1, <4>1, <4>2
      <4>3. CASE i >= cur_size
        <5>1. ring_buffer'[i] = arrived + (i - cur_size)
          BY <1>1, <1>2, <2>1, <4>1, <4>3
        <5> QED BY <1>2, <1>3, <1>4, <5>1
      <4> QED BY <1>2, <4>2, <4>3
    <3> QED BY <1>1, <1>2, <1>3, <1>4, <2>1, <3>1, <3>2 DEF BufferIsNext
  <2>2. CASE ~fits
    BY <1>1, <1>2, <1>3, <1>4, <2>2 DEF BufferIsNext
  <2> QED BY <2>1, <2>2
<1>8. LeftoverShort'
  BY <1>1 DEF LeftoverShort
<1> QED BY <1>1, <1>5, <1>6, <1>7, <1>8 DEF FullInv, StreamInv

\* Dispatch takes the bytes of the next frame, all of them.
LEMMA DispatchTakesFrame ==
  ASSUME StreamAssumption, FullInv, Dispatch
  PROVE  LET d == Len(delivered)
         IN /\ d \in Nat /\ d + 1 \in 1 .. Len(ends)
            /\ Frame(d + 1) \in ByteBlock
            /\ delivered' = Append(delivered, Frame(d + 1))
            /\ End(d) \in Nat /\ End(d + 1) \in Nat
            /\ End(d + 1) - End(d) \in Nat
            /\ cur_size - offset >= End(d + 1) - End(d)
            /\ offset' = offset + (End(d + 1) - End(d))
            /\ UNCHANGED <<ends, arrived, ring_buffer, cur_size, running, overrun>>
<1> DEFINE d == Len(delivered)
           size == End(d + 1) - End(d)
<1>1. /\ running /\ ~overrun /\ cur_size - offset >= HEADER_SIZE
      /\ UNCHANGED <<ends, arrived, ring_buffer, cur_size, running, overrun>>
  BY DEF Dispatch, FullInv, StreamInv, BufferIsNext
<1>2. d + 1 \in 1 .. Len(ends) /\ LengthAt(offset) = {size} /\ size \in FrameSizes
  BY <1>1, NextLength
<1>3. /\ cur_size - offset >= size
      /\ delivered' = Append(delivered, [j \in 0 .. size - 1 |-> ring_buffer[offset + j]])
      /\ offset' = offset + size
  BY <1>2 DEF Dispatch
<1>4. /\ d \in Nat /\ cur_size \in Nat /\ offset \in Nat /\ size \in Nat
      /\ Len(ends) \in Nat
  <2>1. size \in Nat
    <3> HIDE DEF size
    <3> QED BY <1>2 DEF StreamAssumption
  <2>2. d \in Nat /\ Len(ends) \in Nat
    BY DEF FullInv, StreamInv, StreamTypeOK
  <2>3. cur_size \in Nat /\ offset \in Nat
    BY DEF FullInv, StreamInv, StreamTypeOK
  <2> QED BY <2>1, <2>2, <2>3
<1>5. End(d) \in Nat /\ End(d + 1) \in Nat
  <2>1. d \in 0 .. Len(ends) /\ d + 1 \in 0 .. Len(ends)
    BY <1>2, <1>4
  <2> QED BY <2>1, EndIsNat DEF FullInv, StreamInv
<1>6. Frame(d + 1) = [j \in 0 .. size - 1 |-> End(d) + j]
  <2>1. (d + 1) - 1 = d
    BY <1>4
  <2> QED BY <2>1 DEF Frame, Bytes
<1>7. \A j \in 0 .. size - 1 : ring_buffer[offset + j] = End(d) + j
  <2> SUFFICES ASSUME NEW j \in 0 .. size - 1 PROVE ring_buffer[offset + j] = End(d) + j
    OBVIOUS
  <2>1. \A i \in offset .. cur_size - 1 : ring_buffer[i] = End(d) + (i - offset)
    BY DEF FullInv, StreamInv, BufferIsNext
  <2> HIDE DEF size
  <2>2. offset + j \in offset .. cur_size - 1 /\ (offset + j) - offset = j
    BY <1>3, <1>4
  <2> QED BY <2>1, <2>2
<1>8. Frame(d + 1) = [j \in 0 .. size - 1 |-> ring_buffer[offset + j]]
  BY <1>6, <1>7
<1>9. Frame(d + 1) \in ByteBlock
  <2>1. Frame(d + 1) \in [0 .. size - 1 -> Nat]
    BY <1>5, <1>6
  <2> HIDE DEF d, size
  <2> QED BY <1>4, <2>1 DEF ByteBlock
<1> QED BY <1>1, <1>2, <1>3, <1>4, <1>5, <1>8, <1>9

LEMMA DispatchKeeps ==
  ASSUME StreamAssumption, FullInv, Dispatch
  PROVE  FullInv'
<1> DEFINE d == Len(delivered)
           size == End(d + 1) - End(d)
<1>1. /\ d \in Nat /\ d + 1 \in 1 .. Len(ends)
      /\ Frame(d + 1) \in ByteBlock
      /\ delivered' = Append(delivered, Frame(d + 1))
      /\ End(d) \in Nat /\ End(d + 1) \in Nat /\ size \in Nat
      /\ cur_size - offset >= size
      /\ offset' = offset + size
      /\ UNCHANGED <<ends, arrived, ring_buffer, cur_size, running, overrun>>
  BY DispatchTakesFrame
<1>2. delivered \in Seq(ByteBlock)
  BY DEF FullInv
<1>3. /\ delivered' \in Seq(ByteBlock) /\ Len(delivered') = d + 1
      /\ \A i \in 1 .. d : delivered'[i] = delivered[i]
      /\ delivered'[d + 1] = Frame(d + 1)
  BY <1>1, <1>2
<1>4. running /\ ~overrun
  BY DEF Dispatch, FullInv, StreamInv, BufferIsNext
<1>5. /\ cur_size \in Nat /\ offset \in Nat /\ arrived \in Nat /\ Len(ends) \in Nat
      /\ cur_size <= buffer_size /\ arrived <= End(Len(ends))
      /\ arrived = End(d) + (cur_size - offset)
      /\ \A i \in offset .. cur_size - 1 : ring_buffer[i] = End(d) + (i - offset)
  BY <1>4 DEF FullInv, StreamInv, StreamTypeOK, BufferIsNext
<1>6. StreamTypeOK'
  <2>1. offset + size \in Nat
    <3> HIDE DEF size
    <3> QED BY <1>1, <1>5
  <2> HIDE DEF d, size
  <2> QED BY <1>1, <2>1 DEF FullInv, StreamInv, StreamTypeOK
<1>7. FramesApart'
  BY <1>1 DEF FullInv, StreamInv, FramesApart, End
<1>8. \A i : End(i)' = End(i)
  BY <1>1 DEF End
<1>9. BufferIsNext'
  <2>0. End(Len(delivered))' = End(d + 1) /\ End(Len(ends))' = End(Len(ends))
    BY <1>1, <1>3, <1>8
  <2>1. arrived' = End(d + 1) + (cur_size' - offset')
    <3>1. End(d + 1) = End(d) + size
      BY <1>1
    <3> HIDE DEF d, size
    <3> QED BY <1>1, <1>5, <3>1
  <2>2. \A i \in offset' .. cur_size' - 1 : ring_buffer'[i] = End(d + 1) + (i - offset')
    <3> SUFFICES ASSUME NEW i \in offset + size .. cur_size - 1
                 PROVE  ring_buffer[i] = End(d + 1) + (i - (offset + size))
      BY <1>1
    <3>1. i \in offset .. cur_size - 1 /\ i \in Nat
      BY <1>1, <1>5
    <3>2. ring_buffer[i] = End(d) + (i - offset)
      BY <1>5, <3>1
    <3>3. End(d + 1) = End(d) + size
      BY <1>1
    <3> HIDE DEF d, size
    <3> QED BY <1>1, <1>5, <3>1, <3>2, <3>3
  <2>3. offset' <= cur_size' /\ cur_size' <= buffer_size
    <3> HIDE DEF d, size
    <3> QED BY <1>1, <1>5
  <2>4. arrived' <= End(Len(ends))' /\ d + 1 <= Len(ends') /\ running' /\ ~overrun'
    BY <1>1, <1>4, <1>5, <2>0
  <2> HIDE DEF d, size
  <2> QED BY <1>3, <2>0, <2>1, <2>2, <2>3, <2>4 DEF BufferIsNext
<1>10. DeliveredFrames'
  <2> SUFFICES ASSUME NEW i \in 1 .. d + 1 PROVE delivered'[i] = Frame(i)'
    BY <1>3 DEF DeliveredFrames
  <2>1. Frame(i)' = Frame(i)
    BY <1>1 DEF Frame, Bytes, End
  <2>2. CASE i = d + 1
    BY <1>3, <2>1, <2>2
  <2>3. CASE i \in 1 .. d
    BY <1>3, <2>1, <2>3 DEF FullInv, StreamInv, DeliveredFrames
  <2> QED BY <1>1, <2>2, <2>3
<1>11. LeftoverShort'
  BY <1>1, <1>4 DEF LeftoverShort
<1> QED BY <1>3, <1>6, <1>7, <1>9, <1>10, <1>11 DEF FullInv, StreamInv

LEMMA CompactKeeps ==
  ASSUME StreamAssumption, FullInv, Compact
  PROVE  FullInv'
<1> DEFINE d == Len(delivered)
           left == cur_size - offset
<1>1. /\ UNCHANGED <<ends, arrived, overrun, delivered>>
      /\ cur_size' = left /\ offset' = 0 /\ running' = FALSE /\ running /\ Finished
      /\ ring_buffer' = [i \in 0 .. buffer_size - 1 |->
           IF i < left THEN ring_buffer[i + offset] ELSE ring_buffer[i]]
  BY DEF Compact
<1>2. /\ ~overrun
      /\ cur_size \in Nat /\ offset \in Nat /\ arrived \in Nat /\ buffer_size \in Nat
      /\ Len(ends) \in Nat /\ d \in Nat /\ d <= Len(ends)
      /\ offset <= cur_size /\ cur_size <= buffer_size /\ arrived <= End(Len(ends))
      /\ arrived = End(d) + left
      /\ ring_buffer \in [0 .. buffer_size - 1 -> Nat]
      /\ \A i \in offset .. cur_size - 1 : ring_buffer[i] = End(d) + (i - offset)
  BY <1>1 DEF FullInv, StreamInv, StreamTypeOK, BufferIsNext, StreamAssumption
<1>3. left \in Nat /\ left <= buffer_size
  BY <1>2
<1>4. End(d) \in Nat /\ End(Len(ends)) \in Nat
  BY <1>2, EndIsNat DEF FullInv, StreamInv
<1>5. \A i \in 0 .. left - 1 : ring_buffer'[i] = End(d) + i
  <2> SUFFICES ASSUME NEW i \in 0 .. left - 1 PROVE ring_buffer'[i] = End(d) + i
    OBVIOUS
  <2>1. i + offset \in offset .. cur_size - 1 /\ (i + offset) - offset = i
    BY <1>2
  <2>2. ring_buffer[i + offset] = End(d) + i
    BY <1>2, <2>1
  <2>3. i \in 0 .. buffer_size - 1 /\ i < left
    BY <1>2
  <2> QED BY <1>1, <2>2, <2>3
<1>6. StreamTypeOK'
  <2>1. ring_buffer' \in [0 .. buffer_size - 1 -> Nat]
    <3> SUFFICES ASSUME NEW i \in 0 .. buffer_size - 1, i < left
                 PROVE  ring_buffer[i + offset] \in Nat
      BY <1>1, <1>2
    <3>1. i + offset \in 0 .. buffer_size - 1
      BY <1>2
    <3> QED BY <1>2, <3>1
  <2> QED BY <1>1, <1>3, <2>1 DEF FullInv, StreamInv, StreamTypeOK
<1>7. FramesApart' /\ DeliveredFrames'
  BY <1>1 DEF FullInv, StreamInv, FramesApart, DeliveredFrames, Frame, Bytes, End
<1>8. \A i : End(i)' = End(i)
  BY <1>1 DEF End
<1>9. BufferIsNext'
  <2>1. End(Len(delivered))' = End(d) /\ End(Len(ends))' = End(Len(ends))
    BY <1>1, <1>8
  <2>2. left - 0 = left /\ \A i \in 0 .. left - 1 : i - 0 = i
    BY <1>3
  <2>3. \A i \in offset' .. cur_size' - 1 : ring_buffer'[i] = End(d) + (i - offset')
    <3> HIDE DEF d, left
    <3> QED BY <1>1, <1>4, <1>5, <2>2
  <2>4. arrived' = End(d) + (cur_size' - offset')
    <3> HIDE DEF d, left
    <3> QED BY <1>1, <1>2, <2>2
  <2>5. /\ offset' <= cur_size' /\ cur_size' <= buffer_size
        /\ arrived' <= End(Len(ends))' /\ Len(delivered') <= Len(ends')
    BY <1>1, <1>2, <1>3, <2>1
  <2> HIDE DEF left
  <2> QED BY <1>1, <2>1, <2>3, <2>4, <2>5 DEF BufferIsNext
<1>10. LeftoverShort'
  <2> SUFFICES ASSUME left # 0
               PROVE  d < Len(ends) /\ left < End(d + 1) - End(d)
    BY <1>1, <1>8 DEF LeftoverShort
  <2>1. d < Len(ends)
    <3> SUFFICES ASSUME d = Len(ends) PROVE FALSE
      BY <1>2
    <3>1. End(d) + left <= End(d)
      BY <1>2
    <3> HIDE DEF d, left
    <3> QED BY <1>3, <1>4, <3>1
  <2>2. CASE left >= HEADER_SIZE
    <3>1. LengthAt(offset) = {End(d + 1) - End(d)}
      BY <1>1, <1>2, <2>2, NextLength
    <3> QED BY <1>1, <2>1, <2>2, <3>1 DEF Finished
  <2>3. CASE ~(left >= HEADER_SIZE)
    <3>1. d \in 0 .. Len(ends) /\ d + 1 \in 0 .. Len(ends) /\ d < d + 1
      BY <1>2, <2>1
    <3>2. End(d) + HEADER_SIZE < End(d + 1)
      BY <3>1 DEF FullInv, StreamInv, FramesApart
    <3>3. End(d + 1) \in Nat /\ HEADER_SIZE \in Nat
      BY <3>1, EndIsNat DEF FullInv, StreamInv, StreamAssumption
    <3> HIDE DEF d, left
    <3> QED BY <1>3, <1>4, <2>1, <2>3, <3>2, <3>3
  <2> QED BY <2>2, <2>3
<1> QED BY <1>1, <1>6, <1>7, <1>9, <1>10 DEF FullInv, StreamInv

LEMMA FullInvStep ==
  ASSUME StreamAssumption, FullInv, [Next]_vars
  PROVE  FullInv'
<1>1. CASE UNCHANGED vars
  <2>1. /\ UNCHANGED <<ends, arrived, ring_buffer, cur_size, offset>>
        /\ UNCHANGED <<running, overrun, delivered>>
    BY <1>1 DEF vars
  <2> QED BY <2>1 DEF FullInv, StreamInv, StreamTypeOK, FramesApart, BufferIsNext,
                       DeliveredFrames, LeftoverShort, Frame, Bytes, End
<1> QED BY <1>1, SendKeeps, ReceiveKeeps, DispatchKeeps, CompactKeeps DEF Next

LEMMA FullInvariant == Spec => []FullInv
<1>1. Init => FullInv
  BY StreamAssumption, FullInvInit
<1>2. FullInv /\ [Next]_vars => FullInv'
  BY StreamAssumption, FullInvStep
<1> QED BY <1>1, <1>2, PTL DEF Spec

-----------------------------------------------------------------------------
(* Theorems. *)

\* The buffer, its fill level and the parsing offset have their types,
\* whatever the sizes of the frames and the chunks are.
THEOREM StreamTypeCorrect == Spec => []StreamTypeOK
<1>1. FullInv => StreamTypeOK
  BY DEF FullInv, StreamInv
<1> QED BY <1>1, FullInvariant, PTL

LEMMA LeftoverFact ==
  ASSUME StreamAssumption, FullInv
  PROVE  LeftoverIsPartial
<1> DEFINE d == Len(delivered)
<1> SUFFICES ASSUME ~running, ~overrun
             PROVE  /\ arrived = End(d) + cur_size
                    /\ \A i \in 0 .. cur_size - 1 : ring_buffer[i] = End(d) + i
                    /\ IF d < Len(ends) THEN cur_size < End(d + 1) - End(d) ELSE cur_size = 0
  BY DEF LeftoverIsPartial
<1>1. /\ offset = 0 /\ cur_size \in Nat /\ d \in Nat /\ Len(ends) \in Nat
      /\ arrived = End(d) + (cur_size - offset)
      /\ \A i \in offset .. cur_size - 1 : ring_buffer[i] = End(d) + (i - offset)
  BY DEF FullInv, StreamInv, StreamTypeOK, BufferIsNext
<1>2. cur_size - offset = cur_size /\ \A i \in 0 .. cur_size - 1 : i - offset = i
  BY <1>1
<1>3. ASSUME d < Len(ends), cur_size = 0
      PROVE  cur_size < End(d + 1) - End(d)
  <2>1. d \in 0 .. Len(ends) /\ d + 1 \in 0 .. Len(ends) /\ d < d + 1
    BY <1>1, <1>3
  <2>2. End(d) + HEADER_SIZE < End(d + 1)
    BY <2>1 DEF FullInv, StreamInv, FramesApart
  <2>3. End(d) \in Nat /\ End(d + 1) \in Nat /\ HEADER_SIZE \in Nat
    BY <2>1, EndIsNat DEF FullInv, StreamInv, StreamAssumption
  <2> HIDE DEF d
  <2> QED BY <1>3, <2>2, <2>3
<1>4. \/ cur_size = 0
      \/ d < Len(ends) /\ cur_size < End(d + 1) - End(d)
  BY DEF FullInv, StreamInv, LeftoverShort
<1>5. arrived = End(d) + cur_size
  BY <1>1, <1>2
<1>6. \A i \in 0 .. cur_size - 1 : ring_buffer[i] = End(d) + i
  BY <1>1, <1>2
<1> HIDE DEF d
<1> QED BY <1>3, <1>4, <1>5, <1>6

\* Between two calls the buffer holds a proper part of the next frame and
\* nothing else.
THEOREM LeftoverCorrect == Spec => []LeftoverIsPartial
<1>1. FullInv => LeftoverIsPartial
  BY StreamAssumption, LeftoverFact
<1> QED BY <1>1, FullInvariant, PTL

\* A buffer that holds the largest frame but a byte, and a full chunk, is never
\* written past its end.
THEOREM BufferLargeEnough ==
  ASSUME BufferFits
  PROVE  Spec => []NoOverrun
<1> DEFINE d == Len(delivered)
<1>1. Init => NoOverrun
  BY DEF Init, NoOverrun
<1>2. ASSUME FullInv, NoOverrun, NEW n \in 1 .. Chunk, Receive(n) PROVE NoOverrun'
  <2>1. ~running /\ ~overrun /\ arrived + n <= End(Len(ends))
    BY <1>2 DEF Receive
  <2>2. /\ arrived = End(d) + cur_size
        /\ IF d < Len(ends) THEN cur_size < End(d + 1) - End(d) ELSE cur_size = 0
    BY <1>2, <2>1, StreamAssumption, LeftoverFact DEF LeftoverIsPartial
  <2>3. /\ d \in Nat /\ Len(ends) \in Nat /\ d <= Len(ends) /\ cur_size \in Nat
        /\ n \in Nat /\ n > 0 /\ n <= Chunk /\ Chunk \in Nat /\ buffer_size \in Nat
    BY <1>2, StreamAssumption
    DEF FullInv, StreamInv, StreamTypeOK, BufferIsNext, StreamAssumption
  <2>4. d < Len(ends)
    <3> SUFFICES ASSUME d = Len(ends) PROVE FALSE
      BY <2>3
    <3>1. End(d) \in Nat
      BY <1>2, <2>3, EndIsNat DEF FullInv, StreamInv
    <3>2. cur_size = 0 /\ arrived + n <= End(d)
      BY <2>1, <2>2, <2>3
    <3> HIDE DEF d
    <3> QED BY <2>2, <2>3, <3>1, <3>2
  <2>5. d + 1 \in 1 .. Len(ends) /\ d + 1 # 0 /\ (d + 1) - 1 = d
    BY <2>3, <2>4
  <2>6. PICK m \in FrameSizes : End(d + 1) = End(d) + m
    <3>1. PICK m \in FrameSizes : ends[d + 1] = End((d + 1) - 1) + m
      BY <1>2, <2>5 DEF FullInv, StreamInv, FramesApart
    <3> QED BY <2>5, <3>1 DEF End
  <2>7. m \in Nat /\ m - 1 + Chunk <= buffer_size /\ End(d) \in Nat
    <3>1. d \in 0 .. Len(ends)
      BY <2>3
    <3> QED BY <1>2, <3>1, EndIsNat, StreamAssumption
            DEF BufferFits, StreamAssumption, FullInv, StreamInv
  <2>8. cur_size < m
    <3> HIDE DEF d
    <3> QED BY <2>2, <2>3, <2>4, <2>6, <2>7
  <2>9. cur_size + n <= buffer_size
    BY <2>3, <2>7, <2>8
  <2> QED BY <1>2, <2>9 DEF Receive, NoOverrun
<1>3. ASSUME FullInv, NoOverrun, [Next]_vars PROVE NoOverrun'
  BY <1>2, <1>3 DEF Next, vars, Send, Dispatch, Compact, NoOverrun
<1> QED BY <1>1, <1>3, FullInvariant, PTL DEF Spec

-----------------------------------------------------------------------------
(* The refinement. *)

Sent == [i \in 1 .. Len(ends) |-> Frame(i)]

LEMMA SentIsSeq ==
  ASSUME FullInv
  PROVE  Len(Sent) = Len(ends) /\ Len(ends) \in Nat
BY DEF Sent, FullInv, StreamInv, StreamTypeOK

LEMMA SendRefines ==
  ASSUME StreamAssumption, FullInv, NEW length \in FrameSizes, Send(length)
  PROVE  Channel!Send
<1> DEFINE L == Len(ends)
<1>1. /\ Len(ends') = L + 1 /\ L \in Nat /\ ends' \in Seq(Nat)
      /\ \A i \in 0 .. L : End(i)' = End(i)
      /\ delivered' = delivered
  BY SendEnds DEF FullInv, StreamInv, Send
<1>2. Sent' = [i \in 1 .. L + 1 |-> Frame(i)']
  BY <1>1 DEF Sent
<1>3. Len(Sent') = L + 1 /\ Len(Sent) = L
  BY <1>1, <1>2, SentIsSeq
<1>4. ASSUME NEW i \in 1 .. L PROVE Sent'[i] = Sent[i]
  <2>1. Frame(i)' = Frame(i)
    <3>1. i \in 0 .. L /\ i - 1 \in 0 .. L
      BY <1>1
    <3>2. End(i)' = End(i) /\ End(i - 1)' = End(i - 1)
      BY <1>1, <3>1
    <3> QED BY <3>2 DEF Frame, Bytes
  <2>2. i \in 1 .. L + 1
    BY <1>1
  <2> QED BY <1>2, <2>1, <2>2 DEF Sent
<1> QED BY <1>1, <1>3, <1>4 DEF Channel!Send, Sent

LEMMA DispatchRefines ==
  ASSUME StreamAssumption, FullInv, Dispatch
  PROVE  Channel!Deliver
<1> DEFINE d == Len(delivered)
<1>1. /\ d \in Nat /\ d + 1 \in 1 .. Len(ends)
      /\ delivered' = Append(delivered, Frame(d + 1))
      /\ ends' = ends
  BY DispatchTakesFrame
<1>2. Sent[d + 1] = Frame(d + 1)
  BY <1>1 DEF Sent
<1>3. Sent' = Sent
  BY <1>1 DEF Sent, Frame, Bytes, End
<1>4. d < Len(Sent)
  BY <1>1, SentIsSeq
<1> QED BY <1>1, <1>2, <1>3, <1>4 DEF Channel!Deliver, Sent

\* receive_from_buffer implements the channel: for any sizes and any cutting of
\* the stream, frames are dispatched whole, once each and in order.
THEOREM ParserImplementsChannel == Spec => ChannelSpec
<1>1. Init => Channel!Init
  BY DEF Init, Channel!Init
<1>2. ASSUME FullInv, [Next]_vars
      PROVE  [Channel!Next]_<<Sent, delivered>>
  <2>1. CASE \E length \in FrameSizes : Send(length)
    BY <1>2, <2>1, SendRefines, StreamAssumption DEF Channel!Next
  <2>2. CASE Dispatch
    BY <1>2, <2>2, DispatchRefines, StreamAssumption DEF Channel!Next
  <2>3. CASE Compact \/ (\E n \in 1 .. Chunk : Receive(n)) \/ UNCHANGED vars
    <3>1. ends' = ends /\ delivered' = delivered
      BY <2>3 DEF Compact, Receive, vars
    <3> QED BY <3>1 DEF Sent, Frame, Bytes, End
  <2> QED BY <1>2, <2>1, <2>2, <2>3 DEF Next
<1>3. FullInv /\ [Next]_vars =>
        [Channel!Next]_<<[i \in 1 .. Len(ends) |-> Frame(i)], delivered>>
  BY <1>2 DEF Sent
<1> QED BY <1>1, <1>3, FullInvariant, PTL DEF Spec, ChannelSpec, Channel!Spec
=============================================================================
