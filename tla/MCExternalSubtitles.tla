------------------------- MODULE MCExternalSubtitles -------------------------
(* DVD subtitles: index files of two tracks whose packets lie between each   *)
(* other's blocks, with delays, forced subtitles, cut, broken and late       *)
(* packets; Matroska samples of every form.  Text: SRT, SSA, ASS and SMI     *)
(* files with lines that overlap, in any order, with tags anywhere in them,  *)
(* layers and alignments, and some that are not as they should be.           *)
EXTENDS ExternalSubtitles

Seq1(time, cmds, next) == [at |-> time, cmds |-> cmds, next |-> next]
First == <<"start", "palette", "alpha", "coords", "offsets", "end">>

MCSpus ==
  \* shown for two, in its own colours
  <<[size |-> 3, seqs |-> <<Seq1(0, First, 2), Seq1(2, <<"stop", "end">>, 2)>>],
    \* begins one after its packet, in libavcodec's colours
    [size |-> 2, seqs |-> <<Seq1(0, <<"palette", "end">>, 2), Seq1(1, <<"start", "alpha", "end">>, 3),
                            Seq1(3, <<"stop", "end">>, 3)>>],
    \* forced
    [size |-> 1, seqs |-> <<Seq1(0, <<"forced">> \o First, 2), Seq1(3, <<"stop", "end">>, 2)>>],
    \* cannot be read, never ends, and ends too late
    [size |-> 1, seqs |-> <<Seq1(0, <<"start", "unknown", "end">>, 1)>>],
    [size |-> 1, seqs |-> <<Seq1(0, First, 1)>>],
    [size |-> 1, seqs |-> <<Seq1(0, First, 2), Seq1(9, <<"stop", "end">>, 2)>>],
    \* in one sequence without an end
    [size |-> 2, seqs |-> <<Seq1(0, <<"start", "palette", "alpha", "stop">>, 1)>>]>>

Pack == [kind |-> "pack", id |-> 0, data |-> <<>>]
Padding == [kind |-> "padding", id |-> 0, data |-> <<>>]
Unknown == [kind |-> "other", id |-> 0, data |-> <<>>]
B(id, spu, from, to) == [kind |-> "private", id |-> id, data |-> [k \in 1 .. to - from + 1 |-> <<spu, from + k - 1>>]]

Id(index, language) == [type |-> "id", index |-> index, language |-> language]
At(time, pos) == [type |-> "timestamp", time |-> time, pos |-> pos]
Delay(by) == [type |-> "delay", by |-> by]
Private == [type |-> "private"]
Palette == [type |-> "palette"]
Other == [type |-> "other"]

Raw(form, spu) == [form |-> form, data |-> [k \in 1 .. MCSpus[spu].size |-> <<spu, k>>]]
CutShort(form, spu) == [form |-> form, data |-> <<<<spu, 1>>>>]

\* Two languages, block by block.
Both == <<Pack, B(0, 1, 1, 1), Pack, B(1, 2, 1, 1), B(0, 1, 2, 3), B(1, 2, 2, 2), Padding,
          Pack, B(0, 3, 1, 1), B(1, 1, 1, 2), B(1, 1, 3, 3), Pack, B(0, 2, 1, 2), B(1, 3, 1, 1)>>
BothIdx(d) == <<Private, Palette, Id(0, "en"), Other, At(4, 0), At(7, 7), Delay(d), At(10, 11),
                Id(1, "sqi"), At(1, 2), At(5, 9), At(7, 13)>>

\* Packets that are cut, broken, not known, not there.
Broken == <<B(0, 1, 1, 2), B(0, 4, 1, 1), B(0, 5, 1, 1), B(0, 1, 1, 1), Unknown, B(0, 1, 2, 3), B(0, 3, 1, 1), Pack>>
BrokenIdx(last) == <<Delay(1), Private, Palette, At(0, 0), Id(0, "xx"), At(1, 0), At(2, 1), At(3, 2), At(5, 3), At(6, 6), At(12, last)>>

\* One packet after the other, back and forth.
Plain(last) == <<B(0, 3, 1, 1), B(0, 2, 1, 2), B(0, 7, 1, 2), B(0, last, 1, 1)>>
PlainIdx(a, b) == <<Private, Palette, Id(0, "greek"), At(2, 0), At(5, a), At(9, b), At(12, 3), Id(5, "el")>>

Film(idx, sub, packets) == [idx |-> idx, sub |-> sub, packets |-> packets, compressed |-> FALSE]
Zipped(packets) == [Film(<<>>, <<>>, packets) EXCEPT !.compressed = TRUE]
VobSubFilms ==
  <<Film(BothIdx(0), Both, <<>>), Film(BothIdx(2), Both, <<>>), Film(BrokenIdx(7), Broken, <<>>), Film(BrokenIdx(9), Broken, <<>>),
    Film(PlainIdx(1, 2), Plain(3), <<>>), Film(PlainIdx(2, 1), Plain(3), <<>>), Film(PlainIdx(1, 1), Plain(6), <<>>),
    Film(PlainIdx(2, 2), Plain(6), <<>>), Film(<<>>, <<>>, <<Raw("raw", 1), CutShort("raw", 1), Raw("raw", 2)>>),
    Zipped(<<Raw("zlib", 2), [form |-> "broken", data |-> <<>>], Raw("zlib", 1), CutShort("zlib", 1)>>)>>
NoFilm == Film(<<>>, <<>>, <<>>)
MCGarbageTimes ==
  {[ok |-> FALSE, start |-> 0, end |-> 0, forced |-> FALSE, used |-> 0],
   [ok |-> TRUE, start |-> 1, end |-> 3, forced |-> TRUE, used |-> 0]}

-----------------------------------------------------------------------------
(* Texts. *)

A == Char("a")
B2 == Char("b")
Space == Char("space")
Esc(c) == [k |-> "esc", c |-> c]
Tag(cmds) == [k |-> "tag", cmds |-> cmds]
Open(cmds) == [k |-> "open", cmds |-> cmds]
Cmd(t, v) == [t |-> t, v |-> v]
I(v) == Tag(<<Cmd("i", v)>>)
C(v) == Tag(<<Cmd("c", v)>>)

\* Tags at the begin, one behind the other, in the middle, at the end; escapes between them.
Texts ==
  <<<<A, Space, B2>>,
    <<I(1), A, Esc("N"), B2, I(0), Space, A>>,
    <<C(3), I(1), A, C(0), Space, B2, Tag(<<Cmd("i", 0), Cmd("c", 5), Cmd("k", 0)>>), Esc("h"), A, C(6)>>,
    <<A, Tag(<<Cmd("r", <<"B">>)>>), B2, Esc("n"), A, Tag(<<Cmd("r", <<>>)>>), Esc("{"), B2>>,
    <<Tag(<<Cmd("an", 8), Cmd("a", 1)>>), A, C(2), Tag(<<>>), B2, Tag(<<Cmd("p", 1)>>), A, A, Tag(<<Cmd("p", 0), Cmd("i", 1)>>), B2>>,
    <<A, Open(<<Cmd("c", 1)>>), B2>>,
    <<Tag(<<Cmd("pos", 4)>>), A, Char(","), Tag(<<Cmd("q", 2), Cmd("pos", 9)>>), Space, B2>>,
    <<A, C(2), B2, Esc("N"), A, Space, B2, Esc("N"), B2>>,
    <<Tag(<<Cmd("org", 0), Cmd("an", 5)>>), A, Esc("N"), B2>>,
    <<Tag(<<Cmd("a", 6)>>), Tag(<<Cmd("p", 1)>>), A, Esc("N"), B2>>>>

(* SubRip *)
Number == [k |-> "number", t |-> <<Char("1")>>]
Times(from, to) == [k |-> "times", t |-> <<Char(":")>>, begin |-> from, end |-> to]
Text(n) == [k |-> "text", t |-> Texts[n]]
Blank == [k |-> "blank", t |-> <<>>]

\* Cues that overlap, out of order, with numbers in their texts, the last without an empty line.
Srt == <<Blank, Number, Times(4, 7), Text(2), Number, Blank, Blank,
         Number, Times(1, 5), Text(3), Text(1), Blank, Number, Times(6, 6), Text(1), Blank, Number, Times(7, 9), Text(8)>>
\* A cue that begins at once, two of the same time, an open brace.
Srt2 == <<Number, Times(0, 2), Text(6), Text(1), Blank, Number, Times(0, 2), Text(4), Blank>>
\* No number, no times, no text.
BadSrt == <<Times(1, 2), Text(1), Blank, Number, Text(2), Blank, Number, Times(3, 5), Blank, Number, Times(6, 7),
            Blank, Blank, Number, Text(1), Times(8, 9), Text(1)>>

(* SAMI *)
Sync(time) == [k |-> "sync", time |-> time]
P(class) == [k |-> "p", class |-> class]
SmiText(n) == [k |-> "text", t |-> Texts[n]]
Br == [k |-> "br"]
SmiTag(t, v) == [k |-> "tag", cmds |-> <<Cmd(t, v)>>]
Foo == [k |-> "unknown"]
Smi(last) ==
  <<SmiText(1), Sync(2), P("EN"), SmiText(1), Br, SmiTag("i", 1), SmiText(1), SmiTag("i", 0), Sync(4), P("FR"), SmiTag("c", 5), SmiText(1),
    Foo, Br, SmiText(1), Sync(5), P("EN"), SmiTag("i", 1), Sync(7), P("FR"), SmiText(1), Sync(8), P(last), SmiText(1), Sync(9)>>
ShortSmi == <<Sync(1), P("EN"), SmiText(1), Sync(3)>>
\* Two paragraphs at a time, and none.
BadSmi == <<Sync(1), P("EN"), SmiText(1), P("FR"), SmiText(2), Sync(3), Sync(4), P("FR"), SmiText(1), Sync(6)>>

(* SSA *)
Script == [k |-> "script"]
Key(key, value) == [k |-> "key", key |-> key, value |-> value]
Styles == [k |-> "styles"]
Events == [k |-> "events"]
Comment == [k |-> "other"]
Ass(name, colour, italic, align) ==
  [k |-> "style", fields |-> <<name, <<colour>>, <<italic>>, <<0>>, <<align>>>>]
Ssa(name, colour, italic, align) == [k |-> "style", fields |-> <<name, <<colour>>, <<italic>>, <<align>>>>]
Dialogue(layer, from, to, style, texts) ==
  [k |-> "dialogue", fields |-> <<<<layer>>, <<from>>, <<to>>, style, <<>>>> \o texts]
Line(layer, from, to, style, n) == Dialogue(layer, from, to, style, <<Texts[n]>>)

AssFile(header) ==
  <<Script>> \o header \o
  <<Key("ScriptType", "v4.00+"), Styles, Ass(<<"Default">>, 7, 0, 2), Ass(<<"*", "B">>, 8, 1, 2), Comment, Ass(<<"T">>, 9, 0, 8), Events,
    Line(0, 1, 4, <<"B">>, 1), Line(1, 1, 4, <<"T">>, 8), Line(0, 1, 3, <<"C">>, 2), Line(1, 2, 5, <<"T">>, 1),
    Comment, Line(1, 2, 5, <<"B">>, 5), Line(1, 2, 4, <<"B">>, 1)>>
\* Tags of all kinds, commas, one at a time.
AssTags(header) ==
  <<Script, Key("ScriptType", "v4.00+"), Styles, Ass(<<"B">>, 8, 1, 5), Events>> \o
  [n \in 1 .. 8 |-> Line(0, n, n + 1, <<"B">>, n + 2)] \o <<Dialogue(0, 9, 10, <<"D">>, <<Texts[1], Texts[2]>>)>> \o header
\* SSA has other columns and numbers of alignments, and no layers.
SsaFile ==
  <<Script, Key("ScriptType", "v4.00"), Styles, Ssa(<<"Default">>, 6, 0, 6), Ssa(<<"B">>, 5, 1, 10), Events,
    Line(1, 0, 2, <<"Default">>, 2), Line(0, 1, 3, <<"B">>, 9), Line(0, 1, 3, <<"B">>, 7), Line(0, 1, 2, <<"B">>, 1)>>
\* The type comes too late, columns and text are missing, a style among the events.
BadAss ==
  <<Script, Styles, Key("ScriptType", "v4.00"), Ssa(<<"Default">>, 6, 0, 6), Ass(<<"B">>, 5, 1, 10), Events, Ass(<<"C">>, 5, 1, 10),
    Dialogue(0, 1, 2, <<"B">>, <<>>), Dialogue(0, 2, 3, <<"B">>, <<<<>>>>), Line(0, 2, 4, <<"B">>, 4)>>

(* Processes *)
Process(name, minor, lists) == [name |-> name, minor |-> minor, lists |-> lists]
NoLists == [key \in {} |-> ""]
ListOf(names) == [key \in {"TransparentModeSubtitleAppList"} |-> [type |-> "array", value |-> names]]
Player == Process("QTPlayerHelper", 6, NoLists)
FrontRow == Process("Front Row", 5, NoLists)
Finder == Process("Finder", 6, [key \in {"TransparentModeSubtitleAppList"} |-> [type |-> "string", value |-> "Finder"]])
Lion == Process("Front Row", 7, ListOf(<<"Front Row">>))

File(name, type, lines) == [name |-> name, type |-> type, lines |-> lines, tail |-> Len(lines) - 3]
In(now, later, files) == [files |-> files, film |-> NoFilm, process |-> now, later |-> later]
Named(type, lines) == File(<<"movie", type>>, type, lines)
VobSubDirectory(n) == [In(Finder, Finder, <<Named("idx", <<>>)>>) EXCEPT !.film = VobSubFilms[n]]
VobSubDirectories ==
  [n \in DOMAIN VobSubFilms |->
     CASE n = 5 -> [VobSubDirectory(n) EXCEPT !.later.lists = ListOf(<<"Finder">>)]
       [] n = 6 -> [VobSubDirectory(n) EXCEPT !.process = FrontRow, !.later = FrontRow]
       [] OTHER -> VobSubDirectory(n)]
MCDirectories ==
  <<In(Finder, Finder, <<Named("other", <<>>), File(<<"movie", "fre", "srt">>, "srt", Srt)>>),
    In(Player, [Player EXCEPT !.lists = ListOf(<<"Finder">>)], <<File(<<"movie", "fra", "srt">>, "srt", Srt2), Named("srt", BadSrt)>>),
    In(Lion, Lion, <<File(<<"a", "movie", "nb", "smi">>, "smi", Smi("FR")), Named("other", <<>>)>>),
    In(Player, Player, <<Named("smi", Smi("EN")), Named("smi", BadSmi)>>),
    In(Finder, Finder, <<File(<<"movie", "director", "ass">>, "ssa", AssFile(<<>>))>>),
    In(FrontRow, FrontRow, <<Named("ssa", AssFile(<<Key("Collisions", "Reverse"), Key("WrapStyle", 2)>>))>>),
    In(Player, Player, <<File(<<"movie", "xx", "ass">>, "ssa", AssTags(<<>>))>>),
    In(Player, Player, <<File(<<"movie", "und", "ssa">>, "ssa", SsaFile), Named("ssa", <<Script, Styles>>), Named("ssa", BadAss)>>),
    [In(Player, Player, <<Named("srt", Srt2), Named("idx", <<>>), Named("smi", ShortSmi)>>)
       EXCEPT !.film = Film(<<Palette, Id(0, "und"), At(2, 0)>>, <<B(0, 1, 1, 3)>>, <<>>)],
    LET off == [Player EXCEPT !.lists = [key \in {"LoadExternalSubtitles"} |-> [type |-> "boolean", value |-> FALSE]]]
    IN In(off, Player, <<Named("srt", Srt2)>>)>>
  \o VobSubDirectories
=============================================================================
