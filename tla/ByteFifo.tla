------------------------------- MODULE ByteFifo -------------------------------
(***************************************************************************)
(* What the audio decoder relies on from its input buffer: bytes leave in  *)
(* the order they came, none is lost or invented, and the boundaries of    *)
(* the packets they came in are remembered ("packet sizes are considered   *)
(* to be the same as each call to In()", FFissionCodec/ringbuffer.h).      *)
(***************************************************************************)
EXTENDS Integers, Sequences

CONSTANT Byte         \* the values of a byte
VARIABLES queue,     \* the bytes held, oldest first
          boundary   \* the sizes of the packets they belong to

vars == <<queue, boundary>>

Total(s) == LET sum[i \in 0 .. Len(s)] == IF i = 0 THEN 0 ELSE sum[i - 1] + s[i]
            IN sum[Len(s)]

Init == queue = <<>> /\ boundary = <<>>

In(data) ==
  /\ data \in Seq(Byte)
  /\ queue' = queue \o data
  /\ boundary' = Append(boundary, Len(data))

\* Dropping n bytes drops the packets they fill; only zero-length packets that
\* were behind the last dropped byte may stay or go with it.
Zap(n) ==
  /\ n <= Len(queue)
  /\ queue' = SubSeq(queue, n + 1, Len(queue))
  /\ \E k \in 0 .. Len(boundary) :
       \/ boundary' = SubSeq(boundary, k + 1, Len(boundary))
       \/ k > 0 /\ \E left \in 1 .. boundary[k] :
            boundary' = <<left>> \o SubSeq(boundary, k + 1, Len(boundary))
  /\ Total(boundary') = Len(queue')

Clear == queue' = <<>> /\ boundary' = <<>>

Next ==
  \/ \E n \in 0 .. Len(queue) : Zap(n)
  \/ Clear
  \/ /\ Len(queue') >= Len(queue)
     /\ In(SubSeq(queue', Len(queue) + 1, Len(queue')))

Spec == Init /\ [][Next]_vars
=============================================================================
