------------------------------ MODULE SubReaders ------------------------------
(***************************************************************************)
(* The readers of text subtitles, SubImport.mm.  What they give is a       *)
(* sequence of lines [begin, end, text, from, to]: text is what the packet *)
(* will hold, from .. to the lines (SRT) or elements (SMI) of the file     *)
(* that it was taken from, or the number of the line twice (SSA).          *)
(*   SRT  lines [k, t, begin, end]: "number" (one that ends in a number),  *)
(*        "times", "text", "blank"; t are the tokens of the line           *)
(*   SMI  elements [k, ...]: "sync" (time), "p" (class), "text" (t), "br", *)
(*        "tag" (cmds), "unknown"                                          *)
(*   SSA  the lines of SubParsing                                          *)
(***************************************************************************)
EXTENDS SubParsing

\* SubLine ends its line with a newline.
WithNewline(tokens) == IF tokens # <<>> /\ Last(tokens) = Newline THEN tokens ELSE Append(tokens, Newline)

-----------------------------------------------------------------------------
(* SubRip. *)

SRTText(f, from, to) == Joined([n \in 1 .. to - from + 1 |-> f[from + n - 1].t], Newline)

\* The end of the times read last, which stays in "res" when there is no text to take.
StaleText == <<Char("end time")>>

Cue(s, text, from, to) ==
  [s EXCEPT !.state = "INITIAL", !.lines = Append(@, [begin |-> s.begin, end |-> s.end, text |-> text, from |-> from, to |-> to])]

\* A number, times, and the text up to an empty line.  Times that do not follow at once are looked
\* for, as an end alone; an empty line at the begin of the text ends it only if another follows.
SRTLine(f, s, i) ==
  LET l == f[i]
      next == i < Len(f) /\ f[i + 1].k = "blank"
  IN CASE s.state = "INITIAL" /\ l.k = "number" -> [s EXCEPT !.state = "TIMESTAMP", !.fresh = TRUE]
       [] s.state = "TIMESTAMP" ->
            IF l.k = "times" THEN [s EXCEPT !.state = "LINES", !.begin = IF s.fresh THEN l.begin ELSE 0, !.end = l.end, !.from = i + 1]
            ELSE [s EXCEPT !.fresh = FALSE]
       [] s.state = "LINES" /\ l.k = "blank" /\ i > s.from -> Cue(s, SRTText(f, s.from, i - 1), s.from, i - 1)
       [] s.state = "LINES" /\ l.k = "blank" /\ i = s.from /\ next -> Cue(s, StaleText, i, i)
       [] OTHER -> s

\* SubLoadSRTFromPath: the text of the last cue ends with the file.
LoadSRT(f) ==
  LET s == FoldLeft(LAMBDA x, i : SRTLine(f, x, i),
                    [state |-> "INITIAL", fresh |-> FALSE, begin |-> 0, end |-> 0, from |-> 0, lines |-> <<>>],
                    [i \in DOMAIN f |-> i])
  IN IF s.state = "LINES" /\ s.from <= Len(f) THEN Cue(s, SRTText(f, s.from, Len(f)), s.from, Len(f)).lines ELSE s.lines

-----------------------------------------------------------------------------
(* SAMI. *)

\* parse_STYLE: the class of the first paragraph, and of the first in the last tenth of the file.
FirstClass(f, from) ==
  LET ps == {i \in from .. Len(f) : f[i].k = "p"} IN IF ps = {} THEN "noClass" ELSE f[Min(ps)].class
Classes(f, tail) ==
  LET second == FirstClass(f, tail)
  IN <<FirstClass(f, 1), IF second = FirstClass(f, 1) THEN "noClass" ELSE second>>

\* parse_P: the number of a class.
Language(classes, class) == CASE class = classes[1] -> 1 [] class = classes[2] -> 2 [] OTHER -> 3

\* Between two tags goes an empty one, which the codec drops.
EmptyTag == [k |-> "tag", cmds |-> <<>>]
AfterTag(f, i) == IF f[i].k = "text" THEN <<>> ELSE <<EmptyTag>>
SMITokens(f, i) ==
  CASE f[i].k = "text" -> f[i].t
    [] f[i].k = "br" -> Append(AfterTag(f, i - 1), [k |-> "esc", c |-> "n"])
    [] f[i].k = "tag" -> Append(AfterTag(f, i - 1), [k |-> "tag", cmds |-> f[i].cmds])
    [] f[i].k = "unknown" -> Append(AfterTag(f, i - 1), EmptyTag)
AtTop == [k |-> "tag", cmds |-> <<[t |-> "an", v |-> 8]>>]
SMIText(f, pass, from, to) ==
  (IF pass = 2 THEN <<AtTop>> ELSE <<>>) \o
  FlattenSeq([n \in 1 .. to - from + 1 |-> SMITokens(f, from + n - 1)]) \o AfterTag(f, to)

\* Faulty: lines of other classes are taken, too.
SMIElementAny(f, tail, pass, s, i) ==
  CASE f[i].k = "sync" ->
         [s EXCEPT !.start = f[i].time, !.from = i + 1,
                   !.lines = IF s.start = -1 THEN @
                             ELSE Append(@, [begin |-> s.start, end |-> f[i].time, from |-> s.from, to |-> i - 1,
                                             text |-> SMIText(f, pass, s.from, i - 1)])]
    [] f[i].k = "p" /\ s.start # -1 -> [s EXCEPT !.from = i + 1]
    [] OTHER -> s

\* What came since the last SYNC or P becomes a line at the next SYNC, when it is of the wanted
\* class; the class is that of the P seen last.
SMIElement(f, tail, pass, s, i) ==
  CASE f[i].k = "sync" ->
         [s EXCEPT !.start = f[i].time, !.from = i + 1,
                   !.lines = IF s.start = -1 \/ s.cc # pass THEN @
                             ELSE Append(@, [begin |-> s.start, end |-> f[i].time, from |-> s.from, to |-> i - 1,
                                             text |-> SMIText(f, pass, s.from, i - 1)])]
    [] f[i].k = "p" /\ s.start # -1 -> [s EXCEPT !.cc = Language(Classes(f, tail), f[i].class), !.from = i + 1]
    [] OTHER -> s

\* SubLoadSMIFromPath, once for each language.
LoadSMI(f, tail, pass) ==
  FoldLeft(LAMBDA x, i : SMIElement(f, tail, pass, x, i), [start |-> -1, cc |-> 1, from |-> 0, lines |-> <<>>],
           [i \in DOMAIN f |-> i]).lines

-----------------------------------------------------------------------------
(* SubStation Alpha. *)

Field(sub, column) == IF column \in DOMAIN sub THEN sub[column] ELSE <<>>

\* MatroskaPacketizeLine: the fields in the order of Matroska, with a number.
MatroskaPacketizeLine(sub, n) ==
  <<<<n>>, <<IntValue(Field(sub, "Layer"))>>, sub["Style"], sub["Effect"], sub["Text"]>>

\* SubLoadSSAFromPath: the lines of the section of events.
LoadSSA(f) ==
  LET subs == ParseSSAFile(f).subs
  IN [n \in DOMAIN subs |-> [begin |-> IntValue(subs[n]["Start"]), end |-> IntValue(subs[n]["End"]), from |-> n, to |-> n,
                             text |-> MatroskaPacketizeLine(subs[n], n)]]

\* The part of the file before its events is the description of the track.
HeaderOf(f) ==
  LET events == {i \in DOMAIN f : f[i].k = "events"} IN SubSeq(f, 1, IF events = {} THEN Len(f) ELSE Min(events) - 1)
=============================================================================
