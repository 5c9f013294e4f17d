------------------------------- MODULE FrameFifo -------------------------------
(***************************************************************************)
(* What the video codec relies on from its frame queue (FrameBuffer.h):    *)
(* frames that were begun keep their number and their bytes until they are *)
(* marked read, marking a frame gives up it and the frames begun before    *)
(* it, and the data that is not parsed yet waits unchanged.                *)
(***************************************************************************)
EXTENDS Sequences, Integers

CONSTANT Sample(_, _, _)   \* the n bytes from i of the sample that frame k opens

VARIABLES frames,   \* the frames begun and not given up, oldest first
          rest      \* the bytes not parsed yet

vars == <<frames, rest>>

Init == frames = <<>> /\ rest = <<>>

newest == frames'[Len(frames')]

Grows == frames' # <<>> /\ frames' = Append(frames, newest)

\* A frame from the caller's own data; what follows it there is kept.
BeginFresh ==
  /\ rest = <<>> /\ Grows
  /\ newest.bytes \o rest' = Sample(newest.number, 0, Len(newest.bytes) + Len(rest'))

\* A frame from the front of the unparsed bytes.
BeginUnparsed == Grows /\ rest = newest.bytes \o rest'

Retire ==
  /\ \E k \in 1 .. Len(frames) : frames' = SubSeq(frames, k + 1, Len(frames))
  /\ UNCHANGED rest

Forget == rest' = <<>> /\ UNCHANGED frames

Next == BeginFresh \/ BeginUnparsed \/ Retire \/ Forget

Spec == Init /\ [][Next]_vars
=============================================================================
