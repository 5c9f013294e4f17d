---------------------------- MODULE FrameBufferSpec ----------------------------
(***************************************************************************)
(* FrameBuffer driven as FFusionCodec drives it: BeginBand appends a frame *)
(* from the sample or from the unparsed data and then stores or drops what *)
(* follows it; DecodeBand marks frames read; a seek drops the unparsed     *)
(* data.  The codec keeps the pointers Append returned: live.              *)
(***************************************************************************)
EXTENDS FrameBuffer

CONSTANTS Slots, RingBytes,   \* FFusionDataSetup(&data, Slots, RingBytes)
          Sizes,              \* the sizes of frames
          RestSizes,          \* the sizes of what follows a frame in its sample
          MaxFrames,          \* bound: frames begun in a behaviour
          MaxLive             \* bound: frames begun and not given up; the code has 256 slots

ASSUME SetupAssumption ==
  /\ Slots \in Nat /\ Slots >= 2 /\ RingBytes \in Nat /\ RingBytes > PADDING
  /\ PADDING \in Nat
  /\ Sizes \subseteq Nat \ {0} /\ RestSizes \subseteq Nat
  /\ MaxLive \in Nat /\ MaxLive <= Slots

VARIABLES data,   \* the FFusionData
          live,   \* the FrameData pointers the codec still uses, oldest first
          begun   \* the number of frames begun, and the number of the last one

vars == <<data, live, begun>>

\* Bytes i to i + n - 1 of the sample of frame number k.
Sample(k, i, n) == [j \in 1 .. n |-> 10 * k + i + j - 1]

Unparsed(d) == IF d.unparsed.dataSize = 0 THEN <<>>
               ELSE Bytes(d, d.unparsed.buffer, d.unparsed.dataSize)

Init == data = FFusionDataSetup(Slots, RingBytes) /\ live = <<>> /\ begun = 0

\* FFusionDataAppend, and the fields BeginBand sets in the frame.
Begin(buffer, bytes, key) ==
  LET f == AppendTarget(data)
      p == IF key \/ live = <<>> THEN NULL ELSE live[Len(live)]
  IN [FFusionDataAppend(data, buffer, bytes, IF key THEN "I" ELSE "P")
        EXCEPT !.arenas[f[1]].frames[f[2]].frameNumber = begun + 1,
               !.arenas[f[1]].frames[f[2]].prereqFrame = p]

\* The bytes that follow the frame are stored, or the unparsed record is cleared.
Store(d, buffer, bytes) ==
  IF bytes = <<>> THEN FFusionDataReadUnparsed(d) ELSE FFusionDataSetUnparsed(d, buffer, bytes)

Began == live' = Append(live, AppendTarget(data)) /\ begun' = begun + 1

BeginFresh(n, more, key) ==
  /\ begun < MaxFrames /\ Len(live) < MaxLive
  /\ data.unparsed.dataSize = 0
  /\ data' = Store(Begin(NULL, Sample(begun + 1, 0, n), key), NULL, Sample(begun + 1, n, more))
  /\ Began

BeginUnparsed(n, key) ==
  /\ begun < MaxFrames /\ Len(live) < MaxLive
  /\ n <= data.unparsed.dataSize
  /\ LET at   == data.unparsed.buffer
         size == data.unparsed.dataSize
     IN data' = Store(Begin(at, Bytes(data, at, n), key),
                      <<at[1], at[2] + n>>, Bytes(data, <<at[1], at[2] + n>>, size - n))
  /\ Began

MarkRead(i) ==
  /\ data' = FFusionDataMarkRead(data, live[i])
  /\ live' = IF Frame(data, live[i]).prereqFrame # NULL THEN live
             ELSE SubSeq(live, i + 1, Len(live))
  /\ UNCHANGED begun

DropUnparsed == data' = FFusionDataReadUnparsed(data) /\ UNCHANGED <<live, begun>>

Next ==
  \/ \E n \in Sizes, more \in RestSizes, key \in BOOLEAN : BeginFresh(n, more, key)
  \/ \E n \in Sizes, key \in BOOLEAN : BeginUnparsed(n, key)
  \/ \E i \in 1 .. Len(live) : MarkRead(i)
  \/ DropUnparsed

Spec == Init /\ [][Next]_vars

-----------------------------------------------------------------------------
(* FFusionDataFind: "The frame data if found, NULL otherwise".  A seek back  *)
(* in the queue never gets another frame in place of one in use.             *)
FindGetsNoOther ==
  \A i \in DOMAIN live : FFusionDataFind(data, Frame(data, live[i]).frameNumber) \in {NULL, live[i]}

\* The frame in the last slot was the last one marked read: frameRead is beyond the array.
ReadToEnd(a) == data.arenas[a].frameRead = data.arenas[a].frameSize

\* The bytes of the frame made the ring expand, and it was counted in the new array, not in its own.
CountedElsewhere(f) == Frame(data, f).buffer[1] # f[1]

\* Such a frame was marked read: frameRead is beyond frameWrite.
ReadBeyondWrite(a) == data.arenas[a].frameRead = data.arenas[a].frameWrite + 1

(* It gets every frame in use, but the one in slot 0 of an array that was    *)
(* read to its end and one that made the ring expand; and none that was      *)
(* marked read, but in an array read to its end or beyond frameWrite.        *)
FindReturnsLive ==
  /\ FindGetsNoOther
  /\ \A i \in DOMAIN live :
       FFusionDataFind(data, Frame(data, live[i]).frameNumber) = NULL =>
         (live[i][2] = 0 /\ ReadToEnd(live[i][1])) \/ CountedElsewhere(live[i])
  /\ \A k \in {j \in 1 .. begun : \A i \in DOMAIN live : Frame(data, live[i]).frameNumber # j} :
       LET f == FFusionDataFind(data, k)
       IN f # NULL => ReadToEnd(f[1]) \/ ReadBeyondWrite(f[1])

(* The frames behind the codec's pointers keep their numbers and their bytes *)
(* until they are marked read, however often the ring wraps and the array    *)
(* expands, and the unparsed bytes wait unchanged between them.              *)
Queue == INSTANCE FrameFifo
           WITH frames <- [i \in DOMAIN live |->
                             LET f == Frame(data, live[i])
                             IN [number |-> f.frameNumber,
                                 bytes  |-> Bytes(data, f.buffer, f.dataSize)]],
                rest <- Unparsed(data)
ImplementsFrameFifo == Queue!Spec
=============================================================================
