--------------------------- MODULE SubtitleTimeline ---------------------------
(***************************************************************************)
(* What a subtitle track promises: its packets follow each other without a *)
(* gap or an overlap, and at every moment the packet shown is made of the  *)
(* lines that are to be seen then, those that begin first coming first     *)
(* ("sorted by 1. beginning time 2. original insertion order",             *)
(* Subtitles/SubImport.h), of all lines of the file, not only of those     *)
(* known when the packet was made.                                         *)
(***************************************************************************)
EXTENDS Integers, Sequences

VARIABLES lines,     \* every line given so far: [num, begin, end]
          packets    \* the packets made: [begin, end, text], text the numbers of its lines

vars == <<lines, packets>>

\* The time up to which the track is made.
UpTo == IF packets = <<>> THEN 0 ELSE packets[Len(packets)].end

Before(a, b) == a.begin < b.begin \/ (a.begin = b.begin /\ a.num < b.num)

Seen(ls, t) == {l \in ls : l.begin <= t /\ t < l.end}

\* The numbers of the lines of a set, those that begin first coming first.
IsText(text, set) ==
  \E turn \in [1 .. Len(text) -> set] :
    /\ \A l \in set : \E i \in 1 .. Len(text) : turn[i] = l
    /\ \A i, j \in 1 .. Len(text) : i < j => Before(turn[i], turn[j])
    /\ \A i \in 1 .. Len(text) : text[i] = turn[i].num

Shows(p, ls) == \A t \in p.begin .. p.end - 1 : IsText(p.text, Seen(ls, t))

Init == lines = {} /\ packets = <<>>

\* A line may still come for the time that is not made yet.
Give == lines \subseteq lines' /\ \A l \in lines' \ lines : l.begin >= UpTo

\* The next packet continues the last.
Show ==
  /\ packets' # <<>>
  /\ LET p == packets'[Len(packets')]
     IN /\ packets' = Append(packets, p)
        /\ p.begin = UpTo /\ p.begin < p.end /\ Shows(p, lines')

Next == Give /\ (packets' = packets \/ Show)

Spec == Init /\ [][Next]_vars
=============================================================================
