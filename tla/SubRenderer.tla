------------------------------ MODULE SubRenderer ------------------------------
(***************************************************************************)
(* SubATSUIRenderer: divs are broken into lines and drawn one above or     *)
(* below the other, whole lines at once or, where colours change, part by  *)
(* part.  Heights count in half lines from the bottom of the picture.      *)
(* What ATSUI measures, and so where it is asked to break, is left open.   *)
(***************************************************************************)
EXTENDS SubParsing

CONSTANTS Height,   \* of the picture
          Margin    \* below and above

LineHeight == 2

\* SetStyleSpanRuns: each span is a run up to the next, the last up to the end.
SpanEnd(d, j) == IF j = Len(d.spans) THEN Len(d.text) ELSE d.spans[j + 1].offset
RunAt(d, at) == Max({j \in DOMAIN d.spans : d.spans[j].offset <= at /\ at < SpanEnd(d, j)})

\* FindLineBreaks: behind each newline, and behind some of the spaces unless lines are not to be wrapped.
Behind(d, c) == {at \in 1 .. Len(d.text) - 1 : d.text[at] = c}
LineBreaks(d) ==
  {Ascending({0, Len(d.text)} \cup Behind(d, "nl") \cup soft) :
     soft \in SUBSET (IF d.wrap = WrapNone THEN {} ELSE Behind(d, "space"))}

\* Those of each div.
AllLineBreaks(divs) == FoldLeft(LAMBDA all, d : {Append(breaks, b) : breaks \in all, b \in LineBreaks(d)}, {<<>>}, divs)

\* RenderActualLine: without the newline at the end.
Drawn(d, from, length, y, j) ==
  LET n == IF d.text[from + length] = "nl" THEN length - 1 ELSE length
  IN {[at |-> at, y |-> y, c |-> d.spans[j].c, i |-> d.spans[RunAt(d, at)].i] : at \in from .. from + n - 1}

\* The part of span j in the line from .. to - 1: of one that begins before it all that is left,
\* though it may go on behind the line.
PartDrawn(d, from, to, y, j) ==
  LET offset == d.spans[j].offset
      length == SpanEnd(d, j) - offset
      start == IF offset < from THEN from ELSE offset
      drawn == IF offset < from THEN length - (from - offset) ELSE Min({length, to - offset})
  IN IF length = 0 \/ drawn = 0 \/ offset + length < from \/ offset >= to THEN {}
     ELSE Drawn(d, start, drawn, y, j)

\* DrawTextLines: line n at its height.
LineDrawn(d, from, to, y) ==
  IF d.parts THEN UNION {PartDrawn(d, from, to, y, j) : j \in DOMAIN d.spans}
  ELSE Drawn(d, from, to - from, y, 1)

\* Lines go up from the last, those of a div at the top down from the first.
LineAt(d, breaks, pen, n) ==
  IF ~d.positioned /\ d.alignV = Top THEN pen - (n - 1) * LineHeight
  ELSE pen + (Len(breaks) - 1 - n) * LineHeight
PenBehind(d, breaks, pen) ==
  IF ~d.positioned /\ d.alignV = Top THEN pen - (Len(breaks) - 1) * LineHeight
  ELSE pen + (Len(breaks) - 1) * LineHeight

\* Where a div begins: at its position, behind the one before it that has its alignment, or
\* at the edge, when the pen was not set or is to be reset.
PenFor(s, d, breaks, reset) ==
  LET height == (Len(breaks) - 1) * LineHeight
  IN IF d.positioned
       THEN Height - d.posY - (CASE d.alignV = Middle -> height \div 2 [] d.alignV = Top -> height [] OTHER -> 0)
     ELSE IF s.pens[d.alignV] # 0 /\ ~reset THEN s.pens[d.alignV]
     ELSE CASE d.alignV = Bottom -> Margin
            [] d.alignV = Middle -> Height \div 2 - height \div 2
            [] d.alignV = Top -> Height - Margin - LineHeight

\* Faulty: the layer is not remembered.
ResetsPens(s, d) == d.layer # 0 \/ d.resetPens

\* Pens are reset for the first div of another layer and where a div asks for it.
ResetPens(s, d) == d.layer # s.lastLayer \/ d.resetPens

\* One div with its line breaks; positioned ones leave the pens alone.
DivDrawn(s, d, breaks) ==
  LET reset == ResetPens(s, d)
      pen == PenFor(s, d, breaks, reset)
  IN [lastLayer |-> d.layer,
      pens |-> IF d.positioned THEN s.pens ELSE [s.pens EXCEPT ![d.alignV] = PenBehind(d, breaks, pen)],
      drawn |-> Append(s.drawn, [div |-> d, breaks |-> breaks,
                  chars |-> UNION {LineDrawn(d, breaks[n], breaks[n + 1], LineAt(d, breaks, pen, n))
                                     : n \in 1 .. Len(breaks) - 1},
                  ys |-> [n \in 1 .. Len(breaks) - 1 |-> LineAt(d, breaks, pen, n)]])]

\* renderPacket: divs without text or spans are left out; breaks has the line breaks of each.
Drawable(divs) == SelectSeq(divs, LAMBDA d : d.text # <<>> /\ d.spans # <<>>)
RenderPacket(divs, breaks) ==
  FoldLeft(LAMBDA s, n : DivDrawn(s, divs[n], breaks[n]),
           [lastLayer |-> 0, pens |-> [a \in {Bottom, Middle, Top} |-> 0], drawn |-> <<>>],
           [n \in DOMAIN divs |-> n]).drawn
=============================================================================
