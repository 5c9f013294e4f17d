----------------------------- MODULE VobSubPackets -----------------------------
(***************************************************************************)
(* DVD subtitles as VobSubCodec.c and Subtitles/SubImport.mm take them     *)
(* apart.  A .sub file is a sequence of MPEG blocks [kind, id, data]; a    *)
(* position in it is the number of blocks before.  A private block holds   *)
(* bytes of one subtitle: byte k of subtitle s is <<s, k>>.  Spus[s] is    *)
(*   size   in bytes, what its first two bytes tell                        *)
(*   seqs   its control sequences, [at, cmds, next]: the time in           *)
(*          milliseconds and the number of the sequence that follows,      *)
(*          itself in the last                                             *)
(***************************************************************************)
EXTENDS Integers, Sequences, SequencesExt, FiniteSetsExt

CONSTANTS Spus, TimeWidth     \* 2^16: times are kept in 16 bits

\* What ExtractVobSubPacket has copied and used, for the stream "index", which is that of
\* the first private block when it is told none (-1); aborted at a block it does not know.
Nothing(index) == [data |-> <<>>, used |-> 0, index |-> index, size |-> -1, aborted |-> FALSE]

\* The loop ends when the bytes that the packet's first two tell are copied.
Complete(x) == x.aborted \/ (x.size # -1 /\ Len(x.data) >= x.size)

\* Faulty: the blocks of other streams are taken too.
ExtractBlockOfAny(x, b) ==
  IF Complete(x) THEN x
  ELSE [x EXCEPT !.used = @ + 1, !.data = IF b.kind = "private" THEN @ \o b.data ELSE @,
                 !.size = IF @ = -1 /\ b.kind = "private" THEN Spus[b.data[1][1]].size ELSE @]

\* A turn of the loop.
ExtractBlock(x, b) ==
  LET index == IF x.index = -1 /\ b.kind = "private" THEN b.id ELSE x.index
      own == b.kind = "private" /\ b.id = index
      data == IF own THEN x.data \o b.data ELSE x.data
  IN IF Complete(x) THEN x
     ELSE IF b.kind = "other" THEN [x EXCEPT !.aborted = TRUE]
     ELSE [x EXCEPT !.index = index, !.data = data, !.used = @ + 1,
                    !.size = IF @ = -1 /\ own THEN Spus[data[1][1]].size ELSE @]

ExtractVobSubPacket(blocks, index) ==
  LET x == FoldLeft(ExtractBlock, Nothing(index), blocks)
  IN [data |-> x.data, used |-> IF x.aborted THEN Len(blocks) ELSE x.used]

\* The bytes of one subtitle, all of them.
IsWhole(data) == data # <<>> /\ data = [k \in 1 .. Spus[data[1][1]].size |-> <<data[1][1], k>>]

-----------------------------------------------------------------------------

NoTimes == [start |-> 0, end |-> 0, forced |-> FALSE, ok |-> TRUE, loop |-> TRUE, seq |-> 1]

\* A time is cut to 16 bits.
Cut16(t) == t % TimeWidth

\* A command of a sequence that began at some time; the last makes the next sequence the current one.
ReadCommand(s, t, cmd) ==
  CASE cmd = "forced" -> [t EXCEPT !.forced = TRUE]
    [] cmd = "start" -> [t EXCEPT !.start = Cut16(s.at)]
    [] cmd = "stop" -> [t EXCEPT !.end = Cut16(s.at), !.loop = FALSE]
    [] cmd = "end" -> [t EXCEPT !.seq = s.next, !.loop = @ /\ s.next # t.seq]
    [] cmd = "unknown" -> [t EXCEPT !.ok = FALSE]
    [] OTHER -> t

\* Commands behind the end of the sequence are not read; one without an end is the last.
ReadSequence(t, s) ==
  LET ended == SelectInSeq(s.cmds, LAMBDA cmd : cmd = "end")
      read == IF ended = 0 THEN s.cmds ELSE SubSeq(s.cmds, 1, ended)
      all == FoldLeft(LAMBDA u, cmd : IF u.ok THEN ReadCommand(s, u, cmd) ELSE u, t, read)
  IN [all EXCEPT !.loop = @ /\ ended # 0]

\* The sequences that come before they end lie behind what a packet cut short has.
ReadPacketTimes(data) ==
  LET seqs == Spus[data[1][1]].seqs
      turn[n \in 0 .. Len(seqs)] ==
        IF n = 0 THEN NoTimes
        ELSE LET t == turn[n - 1] IN IF t.ok /\ t.loop THEN ReadSequence(t, seqs[t.seq]) ELSE t
  IN IF IsWhole(data) THEN turn[Len(seqs)] ELSE [NoTimes EXCEPT !.ok = FALSE]

\* The colours are the index file's if the first sequence tells them and their alpha, else libavcodec's.
ReadPacketControls(data) ==
  LET s == Spus[data[1][1]].seqs[1].cmds
      stop == SelectInSeq(s, LAMBDA cmd : cmd \in {"end", "stop", "unknown"})
      read == ToSet(IF stop = 0 THEN s ELSE SubSeq(s, 1, stop - 1))
  IN {"palette", "alpha"} \subseteq read
=============================================================================
