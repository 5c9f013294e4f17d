------------------------------ MODULE RingBuffer ------------------------------
(***************************************************************************)
(* The byte ring of the audio decoder, class RingBuffer of                 *)
(* FFissionCodec/ringbuffer.cpp.  Its methods are operators over a record  *)
(* with one field per data member, so that the decoder (FFissionDecoder)   *)
(* and the stand-alone specification (RingBufferSpec) use the same ones.   *)
(*                                                                         *)
(* mBuffer has 2*mBSize bytes: the ring is the first half, GetData copies  *)
(* the wrapped part of the data into the second half so that the reader    *)
(* sees one contiguous block.  A byte is an element of any set; Junk is    *)
(* what fresh memory holds.  wrap is mNeedsWrapping, a Carbon Boolean: 0 or *)
(* 1.                                                                      *)
(***************************************************************************)
EXTENDS Integers, Sequences

CONSTANT Junk   \* the contents of memory nobody has written

\* The members of the class, RingBuffer::Initialize(n).
Initialized(n) ==
  [buf |-> [i \in 0 .. 2 * n - 1 |-> Junk], start |-> 0, end |-> 0,
   size |-> n, wrap |-> 0, packets |-> <<>>]

\* RingBuffer::Reset
Reset(r) == [r EXCEPT !.start = 0, !.end = 0, !.wrap = 0, !.packets = <<>>]

\* RingBuffer::Uninitialize frees the memory; RingBuffer::In allocates it again.
Uninitialize(r) == Reset([r EXCEPT !.size = 0, !.buf = [i \in {} |-> Junk]])

\* RingBuffer::GetDataAvailable: equal indices mean "empty".
GetDataAvailable(r) ==
  IF r.start < r.end THEN r.end - r.start
  ELSE IF r.end < r.start THEN r.size + r.end - r.start
  ELSE 0

\* RingBuffer::GetSpaceAvailable
GetSpaceAvailable(r) ==
  IF r.start > r.end THEN r.start - r.end
  ELSE IF r.end > r.start THEN r.size - r.end + r.start
  ELSE r.size

GetNumPackets(r) == Len(r.packets)
GetCurrentPacketSize(r) == r.packets[1]

\* BlockMoveData of the n bytes of src that start at from, to offset to of dst.
Move(src, from, dst, to, n) ==
  [i \in DOMAIN dst |-> IF i \in to .. to + n - 1 THEN src[from + (i - to)] ELSE dst[i]]

\* Faulty Reallocate: takes the data for one block although it wraps.
ReallocateOneBlock(r, n) ==
  IF n <= r.size THEN r
  ELSE [r EXCEPT !.buf = Move(r.buf, r.start, [i \in 0 .. 2 * n - 1 |-> Junk], 0,
                              GetDataAvailable(r)),
                 !.start = 0, !.end = GetDataAvailable(r), !.size = n, !.wrap = 0]

\* RingBuffer::Reallocate.  When the data is not marked as wrapped it is copied
\* as one block, the part beyond the end of the ring from the second half.
Reallocate(r, n) ==
  IF n <= r.size THEN r
  ELSE LET fresh == [i \in 0 .. 2 * n - 1 |-> Junk]
           head  == r.size - r.start
           avail == GetDataAvailable(r)
       IN [r EXCEPT
             !.buf  = IF r.wrap = 1
                      THEN Move(r.buf, 0, Move(r.buf, r.start, fresh, 0, head), head, r.end)
                      ELSE Move(r.buf, r.start, fresh, 0, avail),
             !.start = 0, !.end = avail, !.size = n, !.wrap = 0]

\* Faulty Put: marks the data as wrapped only when it is split by the ring's end.
PutMarksSplitOnly(r, data) ==
  LET n     == Len(data)
      whole == r.end + n <= r.size
      tail  == IF whole THEN n ELSE r.size - r.end
  IN [r EXCEPT
        !.buf  = [i \in DOMAIN @ |-> IF i \in r.end .. r.end + tail - 1 THEN data[i - r.end + 1]
                                     ELSE IF i \in 0 .. n - tail - 1 THEN data[i + tail + 1]
                                     ELSE @[i]],
        !.end  = IF whole THEN r.end + n ELSE n - tail,
        !.wrap = IF whole THEN @ ELSE 1]

\* The copying half of RingBuffer::In: data goes behind mBEnd, and what does
\* not fit there to the start of the ring.
Put(r, data) ==
  LET n     == Len(data)
      whole == r.end + n <= r.size
      tail  == IF whole THEN n ELSE r.size - r.end
  IN [r EXCEPT
        !.buf  = [i \in DOMAIN @ |-> IF i \in r.end .. r.end + tail - 1 THEN data[i - r.end + 1]
                                     ELSE IF i \in 0 .. n - tail - 1 THEN data[i + tail + 1]
                                     ELSE @[i]],
        !.end  = IF whole THEN r.end + n ELSE n - tail,
        !.wrap = IF ~whole \/ r.end + n < r.start THEN 1 ELSE @]

\* Faulty In: asks for the room of the new packet alone.
InForgetsHeld(r, data) ==
  LET room == IF Len(data) > r.size THEN Reallocate(r, Len(data)) ELSE r
  IN [Put(room, data) EXCEPT !.packets = Append(@, Len(data))]

\* RingBuffer::In.  Reallocate always grants the size it is asked for.
In(r, data) ==
  LET need == GetDataAvailable(r) + Len(data)
      room == IF need > r.size THEN Reallocate(r, need) ELSE r
  IN [Put(room, data) EXCEPT !.packets = Append(@, Len(data))]

\* The sizes of the first k packets, added up.
PrefixSum(packets, k) ==
  LET sum[i \in 0 .. k] == IF i = 0 THEN 0 ELSE sum[i - 1] + packets[i] IN sum[k]

\* The loop of RingBuffer::Zap over packetSizes: whole packets are popped while
\* fewer than n bytes are gone, the packet n ends in is shortened.
ZapPackets(packets, n) ==
  IF n = 0 THEN packets
  ELSE LET k == CHOOSE j \in 1 .. Len(packets) :
                  /\ PrefixSum(packets, j) >= n
                  /\ PrefixSum(packets, j - 1) < n
           left == PrefixSum(packets, k) - n
           rest == SubSeq(packets, k + 1, Len(packets))
       IN IF left = 0 THEN rest ELSE <<left>> \o rest

\* Faulty Zap: keeps the mark when the start wraps too.
ZapKeepsWrap(r, n) ==
  LET all   == n >= GetDataAvailable(r)
      whole == r.start < r.end \/ r.start + n < r.size
  IN [r EXCEPT
        !.start   = IF all THEN 0 ELSE IF whole THEN @ + n ELSE @ + n - r.size,
        !.end     = IF all THEN 0 ELSE @,
        !.wrap    = IF all THEN 0 ELSE @,
        !.packets = ZapPackets(@, n)]

\* RingBuffer::Zap
Zap(r, n) ==
  LET all   == n >= GetDataAvailable(r)
      whole == r.start < r.end \/ r.start + n < r.size
  IN [r EXCEPT
        !.start   = IF all THEN 0 ELSE IF whole THEN @ + n ELSE @ + n - r.size,
        !.end     = IF all THEN 0 ELSE @,
        !.wrap    = IF all \/ ~whole THEN 0 ELSE @,
        !.packets = ZapPackets(@, n)]

\* RingBuffer::GetData: the ring after the call; the returned pointer is DataAt.
GetData(r) ==
  IF GetDataAvailable(r) # 0 /\ r.wrap = 1
  THEN [r EXCEPT !.buf = Move(r.buf, 0, r.buf, r.size, r.end), !.wrap = 0]
  ELSE r

DataAt(r) == IF GetDataAvailable(r) = 0 THEN 0 ELSE r.start

\* What a reader finds in the n bytes behind the pointer GetData returned.
Contiguous(r, n) == [i \in 1 .. n |-> r.buf[DataAt(r) + i - 1]]

\* The bytes the ring holds, in order: the wrapped part is at its start.
Held(r) ==
  [i \in 1 .. GetDataAvailable(r) |->
     IF r.start + i - 1 < r.size THEN r.buf[r.start + i - 1]
     ELSE r.buf[r.start + i - 1 - r.size]]
=============================================================================
