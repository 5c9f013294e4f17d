---------------------------- MODULE SubSerializer ----------------------------
(***************************************************************************)
(* SubSerializer, Subtitles/SubImport.mm: lines that may overlap, given in *)
(* any order, are cut into packets that do not.  A line is [num, begin,    *)
(* end]; its text is its number.  ls is the array "lines", done the flag   *)
(* "finished" and from last_end_time (last_begin_time is never read).      *)
(***************************************************************************)
EXTENDS Integers, Sequences, SequencesExt, FiniteSetsExt

NoPacket == [begin |-> 0, end |-> 0, text |-> <<>>]

\* Faulty addLine: no search for the place.
addLineLast(ls, l) == IF l.begin >= l.end THEN ls ELSE Append(ls, l)

\* The line goes behind those that begin before it or with it.
addLine(ls, l) ==
  LET i == CHOOSE i \in 1 .. Len(ls) + 1 :
             /\ \A k \in 1 .. i - 1 : ls[k].begin <= l.begin
             /\ \A k \in i .. Len(ls) : l.begin < ls[k].begin
  IN IF l.begin >= l.end THEN ls ELSE InsertAt(ls, i, l)

\* Faulty: two lines are enough to go on.
canOutputAny(ls) == Len(ls) > 1

\* Some line begins when all those before it have ended.
canOutput(ls) ==
  \E i \in 2 .. Len(ls) : \A j \in 1 .. i - 1 : ls[i].begin >= ls[j].end

\* The turn of the loop for line l: until a line begins after the packet's end, each
\* may shorten the packet, and joins it when it has begun with it or before.
Cut(packet, l) ==
  IF packet.broke \/ l.begin >= packet.end THEN [packet EXCEPT !.broke = TRUE]
  ELSE IF l.begin > packet.begin THEN [packet EXCEPT !.end = Min({@, l.end, l.begin})]
  ELSE [packet EXCEPT !.end = Min({@, l.end}), !.text = Append(@, l.num)]

copyNextRealSerializedPacket(ls, done, from) ==
  IF ~done /\ ~canOutput(ls) THEN NoPacket
  ELSE LET first == [begin |-> from, end |-> ls[1].end, text |-> <<ls[1].num>>, broke |-> FALSE]
           cut[i \in 1 .. Len(ls)] == IF i = 1 THEN first ELSE Cut(cut[i - 1], ls[i])
           packet == cut[Len(ls)]
       IN [begin |-> packet.begin, end |-> packet.end, text |-> packet.text]

\* The packet up to the first line is empty.
getSerializedPacket(ls, done, from) ==
  IF ls = <<>> THEN NoPacket
  ELSE IF ls[1].begin > from THEN [begin |-> from, end |-> ls[1].begin, text |-> <<>>]
  ELSE copyNextRealSerializedPacket(ls, done, from)

\* Faulty: lines are removed once they were shown.
LinesLeftUnshown(ls, packet) ==
  IF packet.text = <<>> THEN ls ELSE SelectSeq(ls, LAMBDA l : l.begin >= packet.end)

\* The lines that end with a packet made of lines are removed.
LinesLeft(ls, packet) ==
  LET left[i \in 0 .. Len(ls)] == IF i = 0 THEN <<>>
                                  ELSE IF ls[i].end = packet.end THEN left[i - 1]
                                  ELSE Append(left[i - 1], ls[i])
  IN IF packet.text = <<>> THEN ls ELSE left[Len(ls)]
=============================================================================
