------------------------------ MODULE SubParsing ------------------------------
(***************************************************************************)
(* Text subtitles: the parser of SSA files, SubParsing.m.rl, the styles    *)
(* made of them, SubContext.m, and the parser of the packets that the      *)
(* codec draws.  A text is a sequence of tokens: a character               *)
(* [k |-> "char", c], a character behind a backslash [k |-> "esc", c], a   *)
(* tag in braces with the commands that Ragel's machine carries out,       *)
(* [k |-> "tag", cmds], and a brace that is never closed, [k |-> "open",   *)
(* cmds].  A command is [t, v]: "i" stands for the attributes kept in the  *)
(* style of a run, "c" for those a part is drawn with.  A field is a       *)
(* sequence, a comma-separated line a sequence of fields.                  *)
(***************************************************************************)
EXTENDS Integers, Sequences, FiniteSets, SequencesExt, FiniteSetsExt, TLC

Char(c) == [k |-> "char", c |-> c]
Newline == Char("nl")
Ascending(numbers) == [n \in 1 .. Cardinality(numbers) |-> CHOOSE x \in numbers : Cardinality({y \in numbers : y < x}) = n - 1]
Joined(fields, by) == FoldLeft(LAMBDA a, b : a \o <<by>> \o b, Head(fields), Tail(fields))

\* SubSplitStringWithCount: a line with a field less than n ends with its last one twice, and an
\* empty last field does not count; the last of n takes the commas that are left.
SplitWithCount(fields, n) ==
  LET f == IF Len(fields) \in 2 .. n /\ Last(fields) = <<>> THEN Front(fields) ELSE fields
  IN IF Len(f) < n THEN Append(f, Last(f))
     ELSE Append(SubSeq(f, 1, n - 1), Joined(SubSeq(f, n, Len(f)), Char(",")))

\* SplitByFormat: a dictionary for each line that has as many fields as the format.
SplitByFormat(format, lines) ==
  LET split == SelectSeq([i \in DOMAIN lines |-> SplitWithCount(lines[i], Len(format))], LAMBDA f : Len(f) = Len(format))
  IN [i \in DOMAIN split |-> [column \in ToSet(format) |->
        split[i][CHOOSE n \in DOMAIN format : format[n] = column]]]

\* The columns that matter here; SSA has fewer of styles than ASS.
StyleFormat(ass) ==
  IF ass THEN <<"Name", "PrimaryColour", "Italic", "Underline", "Alignment">>
  ELSE <<"Name", "PrimaryColour", "Italic", "Alignment">>
EventFormat(ass) == <<IF ass THEN "Layer" ELSE "Marked", "Start", "End", "Style", "Effect", "Text">>

\* A header without ScriptType is taken for ASS (a message to nil answers NSOrderedSame).
IsScriptASS(headers) == "ScriptType" \in DOMAIN headers => headers["ScriptType"] = "v4.00+"

\* One line of the machine SSAfile: keys count in every section once the first line is that of
\* the header; lines go to the array of the section begun last.
SSALine(s, l) ==
  CASE s.failed \/ (~s.header /\ l.k # "script") -> [s EXCEPT !.failed = TRUE]
    [] l.k = "script" -> [s EXCEPT !.header = TRUE]
    [] l.k = "key" -> [s EXCEPT !.headers = (l.key :> l.value) @@ @]
    [] l.k = "styles" -> [s EXCEPT !.inStyles = TRUE, !.array = "styles", !.ass = IsScriptASS(s.headers)]
    [] l.k = "events" /\ s.inStyles -> [s EXCEPT !.inEvents = TRUE, !.array = "events"]
    [] (l.k = "style" /\ s.inStyles) \/ (l.k = "dialogue" /\ s.inEvents) ->
         [s EXCEPT !.lines[s.array] = Append(@, l.fields)]
    [] OTHER -> s

ParseSSAFile(lines) ==
  LET s == FoldLeft(SSALine, [failed |-> FALSE, header |-> FALSE, inStyles |-> FALSE, inEvents |-> FALSE, ass |-> FALSE,
                              array |-> "styles", headers |-> <<>>, lines |-> [styles |-> <<>>, events |-> <<>>]], lines)
  IN [headers |-> s.headers,
      styles |-> SplitByFormat(StyleFormat(s.ass), s.lines["styles"]),
      subs |-> SplitByFormat(EventFormat(s.ass), s.lines["events"])]

-----------------------------------------------------------------------------
(* Styles. *)

IntValue(field) == IF field = <<>> THEN 0 ELSE Head(field)

\* Numbers of alignments: rows of three from the bottom in ASS, by fours in SSA.
Bottom == 0
Middle == 1
Top == 2
AlignV(a) == CASE a \in 4 .. 6 -> Middle [] a \in 7 .. 9 -> Top [] OTHER -> Bottom
ASSFromSSA(a) ==
  CASE a \in 9 .. 11 -> Middle * 3 + (a - 8)
    [] a \in 5 .. 7 -> Top * 3 + (a - 4)
    [] a \in 1 .. 3 -> Bottom * 3 + a
    [] OTHER -> 1

DefaultStyle == [c |-> 0, i |-> 0, alignV |-> Bottom]

StyleOf(s, type) ==
  [c |-> IntValue(s["PrimaryColour"]), i |-> IF IntValue(s["Italic"]) = 0 THEN 0 ELSE 1,
   alignV |-> AlignV(IF type = "SSA" THEN ASSFromSSA(IntValue(s["Alignment"])) ELSE IntValue(s["Alignment"]))]

\* A leading star is not part of a style's name; the last of a name counts.
StylesOf(dicts, type) ==
  FoldLeft(LAMBDA all, s : ((IF s["Name"] # <<>> /\ Head(s["Name"]) = "*" THEN Tail(s["Name"]) ELSE s["Name"])
                              :> StyleOf(s, type)) @@ all, <<>>, dicts)

\* SubContext: of a header that was parsed, or none.
NoHeader == [headers |-> <<>>, styles |-> <<>>, subs |-> <<>>]
WrapTopWider == 0
WrapNone == 2
WrapBottomWider == 3
SubContext(isSSA, parsed) ==
  LET h == parsed.headers
      type == IF ~isSSA THEN "SRT" ELSE IF IsScriptASS(h) THEN "ASS" ELSE "SSA"
      styles == StylesOf(parsed.styles, type)
  IN [type |-> type, styles |-> styles,
      reverse |-> "Collisions" \in DOMAIN h /\ h["Collisions"] = "Reverse",
      wrap |-> IF "WrapStyle" \in DOMAIN h THEN h["WrapStyle"] ELSE WrapBottomWider,
      default |-> IF <<"Default">> \in DOMAIN styles THEN styles[<<"Default">>] ELSE DefaultStyle]

StyleForName(context, name) == IF name \in DOMAIN context.styles THEN context.styles[name] ELSE context.default

-----------------------------------------------------------------------------
(* Packets. *)

\* spanChangedTag: what a command does to the span, and whether the div has to be drawn part by part.
Changed(d, cmd, context) ==
  LET parts == d.parts \/ d.spans # <<>>
  IN CASE cmd.t = "i" -> [d EXCEPT !.cur.i = cmd.v]
       [] cmd.t = "c" -> [d EXCEPT !.cur.c = cmd.v, !.parts = parts]
       [] cmd.t = "r" ->
            LET s == IF cmd.v \in DOMAIN context.styles THEN context.styles[cmd.v] ELSE d.style
            IN [d EXCEPT !.cur.i = s.i, !.cur.c = s.c, !.parts = parts]

\* One command; of those for the whole div the first counts.
Command(d, cmd, context) ==
  CASE cmd.t \in {"i", "c", "r"} -> Changed(d, cmd, context)
    [] cmd.t = "p" -> [d EXCEPT !.drop = cmd.v > 0]
    [] cmd.t \in d.set -> d
    [] cmd.t = "an" -> [d EXCEPT !.set = @ \cup {"a", "an"}, !.alignV = AlignV(cmd.v)]
    [] cmd.t = "a" -> [d EXCEPT !.set = @ \cup {"a", "an"}, !.alignV = AlignV(ASSFromSSA(cmd.v))]
    [] cmd.t = "q" -> [d EXCEPT !.set = @ \cup {"q"}, !.wrap = cmd.v]
    [] cmd.t = "pos" -> [d EXCEPT !.set = @ \cup {"pos"}, !.positioned = TRUE, !.posY = cmd.v]
    [] cmd.t = "org" -> [d EXCEPT !.resetPens = TRUE]
    [] OTHER -> d

\* Behind a tag: a place in the line, less the characters that are not in the text.
ExitTag(d, length) ==
  [d EXCEPT !.p = @ + length, !.deleted = @ + length, !.cur.offset = (d.p + length) - (d.deleted + length)]

\* Before a tag and at the end: the characters since the last tag go to the text, unless they draw
\* a shape, and a span that has begun is kept as it is now.
EnterTag(d) ==
  [d EXCEPT !.text = IF d.drop THEN @ ELSE @ \o d.pending, !.pending = <<>>,
            !.deleted = IF d.drop THEN @ + Len(d.pending) ELSE @,
            !.spans = IF d.p = 0 THEN @ ELSE Append(@, d.cur)]

Commands(d, cmds, context) == FoldLeft(LAMBDA x, cmd : Command(x, cmd, context), d, cmds)

TagLength(token) == 2 + Len(token.cmds)

\* One token of the machine SSAtag; an open brace is the end of what can be parsed.
Token(d, token, context) ==
  CASE d.failed -> d
    [] token.k = "char" -> [d EXCEPT !.p = @ + 1, !.pending = Append(@, token.c)]
    [] token.k = "esc" ->
         [d EXCEPT !.p = @ + 2, !.deleted = @ + 1, !.pending = <<>>,
                   !.text = @ \o Append(d.pending, IF token.c \in {"N", "n"} THEN "nl" ELSE token.c)]
    [] token.k = "tag" -> ExitTag(Commands(EnterTag(d), token.cmds, context), TagLength(token))
    [] token.k = "open" -> [Commands(EnterTag(d), token.cmds, context) EXCEPT !.failed = TRUE]

\* A div of a line's style, layer and text.
Div(context, n, style, layer, wrap, tokens) ==
  LET new == [line |-> n, style |-> style, layer |-> layer, wrap |-> wrap, alignV |-> style.alignV,
              positioned |-> FALSE, posY |-> 0, resetPens |-> FALSE, set |-> {}, parts |-> FALSE,
              text |-> <<>>, spans |-> <<>>, cur |-> [offset |-> 0, c |-> style.c, i |-> style.i],
              pending |-> <<>>, p |-> 0, deleted |-> 0, drop |-> FALSE, failed |-> FALSE]
      d == FoldLeft(LAMBDA x, token : Token(x, token, context), new, tokens)
  IN IF d.failed THEN d ELSE EnterTag(d)

\* A line of a packet: number, layer, style, effect, text.
LineFields == 5
LineDivs(context, n, fields) ==
  LET f == SplitWithCount(fields, LineFields)
  IN IF Len(f) < LineFields \/ Last(f) = <<>> THEN <<>>
     ELSE <<Div(context, n, StyleForName(context, f[3]), IntValue(f[2]), context.wrap, f[5])>>

\* Reversed lines where the script asks for it.
InOrder(context, divs) == IF context.reverse THEN Reverse(divs) ELSE divs

\* By layers, in the order of the lines.
SortedByLayer(divs) ==
  LET layers == Ascending({d.layer : d \in ToSet(divs)})
  IN FlattenSeq([n \in DOMAIN layers |-> SelectSeq(divs, LAMBDA d : d.layer = layers[n])])

\* SubParsePacket: SRT is one div, whose text loses its last newline; SSA has one of each line.
ParsePacket(context, packet) ==
  IF context.type = "SRT" THEN <<Div(context, 1, context.default, 0, WrapTopWider, Front(packet))>>
  ELSE SortedByLayer(InOrder(context, FlattenSeq([n \in DOMAIN packet |-> LineDivs(context, n, packet[n])])))
=============================================================================
