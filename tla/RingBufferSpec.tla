---------------------------- MODULE RingBufferSpec ----------------------------
(***************************************************************************)
(* RingBuffer driven by any legal sequence of its methods, and the claim   *)
(* that it is a byte FIFO.                                                 *)
(***************************************************************************)
EXTENDS RingBuffer, FiniteSets

CONSTANTS InitialBytes,    \* the size given to Initialize
          MaxBytes,        \* bound: no In that would hold more bytes than this
          MaxPackets,      \* bound: no In when this many packets are held
          PacketSizes,     \* the packet lengths callers pass to In
          Colours,         \* bytes are numbered modulo this, more than MaxBytes
          ExactFill        \* may an In fill a ring that does not start at 0 to its last byte?

ASSUME SizesAssumption ==
  /\ InitialBytes \in Nat /\ MaxBytes \in Nat /\ MaxPackets \in Nat
  /\ PacketSizes \subseteq Nat
  /\ ExactFill \in BOOLEAN

ASSUME ColoursAssumption ==
  /\ Colours \in Nat /\ Colours > MaxBytes
  /\ Junk \notin 0 .. Colours - 1

VARIABLES ring,   \* the RingBuffer object
          next    \* the number of the next byte a caller will put in

vars == <<ring, next>>

Init == ring = Initialized(InitialBytes) /\ next = 0

\* After this In mBStart equals mBEnd, which GetDataAvailable reads as "empty".
FillsExactly(r, n) == n > 0 /\ r.start # 0 /\ GetDataAvailable(r) + n = r.size

AppendPacket(n) ==
  /\ GetDataAvailable(ring) + n <= MaxBytes /\ GetNumPackets(ring) < MaxPackets
  /\ ExactFill \/ ~FillsExactly(ring, n)
  /\ ring' = In(ring, [i \in 1 .. n |-> (next + i - 1) % Colours])
  /\ next' = (next + n) % Colours

\* Callers ask to drop at most what is there.
DropBytes(n) ==
  /\ n <= GetDataAvailable(ring)
  /\ ring' = Zap(ring, n)
  /\ UNCHANGED next

ReadAll == ring' = GetData(ring) /\ UNCHANGED next

ResetRing == ring' = Reset(ring) /\ UNCHANGED next

UninitializeRing == ring' = Uninitialize(ring) /\ UNCHANGED next

Next ==
  \/ \E n \in PacketSizes : AppendPacket(n)
  \/ \E n \in 0 .. MaxBytes : DropBytes(n)
  \/ ReadAll
  \/ ResetRing
  \/ UninitializeRing

Spec == Init /\ [][Next]_vars

-----------------------------------------------------------------------------
(* The members of the object have their types, every index lies in the ring, *)
(* and the memory is exactly the two halves: no method moves bytes outside.  *)
RingOK(r) ==
  /\ r \in [buf : {r.buf}, start : Nat, end : Nat, size : Nat, wrap : {0, 1},
            packets : {r.packets}]
  /\ DOMAIN r.buf = 0 .. 2 * r.size - 1
  /\ r.start <= r.size /\ r.end <= r.size
  /\ r.wrap = 1 => r.end < r.start

TypeOK == RingOK(ring) /\ next \in 0 .. Colours - 1

(* Equal indices mean an empty ring, whose indices are back at 0.            *)
EmptyAtZero(r) == r.start = r.end => r.start = 0

(* Data that is not marked as wrapped lies behind mBStart as one block: what *)
(* wraps has its copy in the second half of the memory.                      *)
Mirrored(r) ==
  r.end < r.start /\ r.wrap = 0 => \A i \in 0 .. r.end - 1 : r.buf[r.size + i] = r.buf[i]

RingInv(r) == RingOK(r) /\ EmptyAtZero(r) /\ Mirrored(r)

(* Whoever asks for the data now gets all of it, in order, as one contiguous *)
(* block behind the pointer: the decoder hands that pointer to libavcodec.   *)
ReaderSeesHeld ==
  Contiguous(GetData(ring), GetDataAvailable(ring)) = Held(ring)

(* In "reallocates the buffer as needed": whatever the next packet is, In    *)
(* adds its bytes to those that are available, growing the ring or not; but  *)
(* when it fills a ring that does not start at 0 to its last byte, nothing   *)
(* is available any more.                                                    *)
GrowsAsNeeded ==
  \A data \in Seq(0 .. Colours - 1) :
    GetDataAvailable(In(ring, data)) =
      IF FillsExactly(ring, Len(data)) THEN 0 ELSE GetDataAvailable(ring) + Len(data)

(* Through every sequence of appends, drops, growths and reads the ring is a *)
(* FIFO of bytes that remembers the packets they came in.                    *)
Fifo == INSTANCE ByteFifo
          WITH Byte <- 0 .. Colours - 1, queue <- Held(ring),
               boundary <- ring.packets
ImplementsByteFifo == Fifo!Spec
=============================================================================
