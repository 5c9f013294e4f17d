--------------------------- MODULE ExternalSubtitles ---------------------------
(***************************************************************************)
(* The subtitles beside a movie: LoadExternalSubtitles goes along the      *)
(* files of its directory that have the movie's name, makes a track of     *)
(* each language of a text file (LoadSingleTextSubtitle) or of a DVD's     *)
(* subtitles (VobSub), and TextSubCodec and VobSubCodec draw their         *)
(* samples.  A directory is [files, film, process, later]; a file is       *)
(* [name, type, lines, tail], its name cut at the periods, tail where the  *)
(* last tenth of it begins; film is what VobSub reads, and later is the    *)
(* process when the user has changed the preferences.                      *)
(***************************************************************************)
EXTENDS SubReaders, SubRenderer, SubSerializer, CommonUtils

CONSTANTS Directories,   \* bound: the directories, a sequence
          MaxRefused,    \* bound: samples of a track that QuickTime refuses
          Spus, TimeWidth, GarbageTimes   \* of VobSub

VARIABLES dir,
          at,         \* the file under work; behind the last when the search is over
          pass,       \* whichTrack, the language of an SMI file
          loading,    \* the local variables of LoadSingleTextSubtitle, or NoneLoading
          tracks,     \* the text tracks: [file, pass, lines, samples, mode, language]
          renderer,   \* the codec's track and context, or NoRenderer
          screen,     \* the sample drawn last and what was drawn
          process, forced,   \* the program and its answer about transparency
          film, line, state, delay, privateData, privateLines, vobTracks, loaded, load, media, codec, drp, shown

V == INSTANCE VobSub WITH tracks <- vobTracks

textVars == <<at, pass, loading, tracks, renderer, screen>>
vobVars == <<film, line, state, delay, privateData, privateLines, vobTracks, loaded, load, media, codec, drp, shown>>
vars == <<dir, process, forced, textVars, vobVars>>

Files == Directories[dir].files
NoneLoading == [lines |-> <<>>]
NoRenderer == [track |-> 0, translateSRT |-> TRUE]
Nothing == [track |-> 0, n |-> 0, drawn |-> <<>>]

\* LoadExternalSubtitlesFromFileDataRef: subtitles are looked for unless the preference forbids it.
ShouldLoadExternalSubtitles(p) == CopyPreferencesValueTyped(p, "LoadExternalSubtitles", "boolean") # [type |-> "boolean", value |-> FALSE]

Init ==
  /\ dir \in DOMAIN Directories
  /\ film = Directories[dir].film /\ process = Directories[dir].process
  /\ at = (IF ShouldLoadExternalSubtitles(process) THEN 1 ELSE Len(Files) + 1) /\ pass = 1 /\ loading = NoneLoading /\ tracks = <<>>
  /\ renderer = NoRenderer /\ screen = Nothing
  /\ V!Init

-----------------------------------------------------------------------------
(* The files. *)

Type == Files[at].type
Now(types) == at <= Len(Files) /\ Type \in types

\* The next file, unless there was an error or the directory has changed.
Advance(goOn) ==
  /\ at' = IF goOn THEN at + 1 ELSE Len(Files) + 1
  /\ pass' = 1

SkipFile == Now({"other"}) /\ (\E goOn \in BOOLEAN : Advance(goOn)) /\ UNCHANGED <<dir, process, forced, loading, tracks, renderer, screen, vobVars>>

LinesOf(file, whichTrack) ==
  CASE file.type = "srt" -> LoadSRT(file.lines)
    [] file.type = "smi" -> LoadSMI(file.lines, file.tail, whichTrack)
    [] file.type = "ssa" -> LoadSSA(file.lines)

\* A text track is drawn in the mode the process asks for.
CreatePlaintextSubTrack == V!SetSubtitleMediaHandlerTransparent(V!Transparency)

\* The serialiser gets all lines of a file; an SSA file without events raises, and is left out.
LoadText ==
  /\ Now({"srt", "smi", "ssa"}) /\ loading = NoneLoading
  /\ IF Type = "ssa" /\ HeaderOf(Files[at].lines) = Files[at].lines
       THEN Advance(TRUE) /\ UNCHANGED <<loading, forced>>
     ELSE \/ LET lines == LinesOf(Files[at], pass)
             IN /\ loading' = [lines |-> lines, from |-> 0, samples |-> <<>>,
                               mode |-> CreatePlaintextSubTrack,
                               left |-> FoldLeft(LAMBDA ls, n : addLine(ls, [num |-> n, begin |-> lines[n].begin, end |-> lines[n].end]),
                                                 <<>>, [n \in DOMAIN lines |-> n])]
                /\ forced' = V!Transparency
                /\ UNCHANGED <<at, pass>>
          \/ Advance(FALSE) /\ UNCHANGED <<loading, forced>>   \* NewMovieTrack or NewTrackMedia fails
  /\ UNCHANGED <<dir, process, tracks, renderer, screen, vobVars>>

\* A packet becomes a sample, which AddMediaSample may refuse.
Refused == Cardinality({n \in DOMAIN loading.samples : ~loading.samples[n].added})
AddSample ==
  /\ loading # NoneLoading /\ loading.left # <<>>
  /\ LET packet == getSerializedPacket(loading.left, TRUE, loading.from)
     IN \E ok \in IF Refused < MaxRefused THEN BOOLEAN ELSE {TRUE} :
          loading' = [loading EXCEPT !.left = LinesLeft(@, packet), !.from = packet.end,
                                     !.samples = Append(@, [begin |-> packet.begin, end |-> packet.end,
                                                            text |-> packet.text, added |-> ok])]
  /\ UNCHANGED <<dir, process, forced, at, pass, tracks, renderer, screen, vobVars>>

\* title.en.srt and movie.fre.srt tell their language between the last two periods; in a name with one
\* period the whole title is taken for it.
GetFilenameLanguage(name) == V!LanguageOf(Last(Front(name)))

\* The track is made; an SMI file is loaded again for its second language.
TrackMade ==
  /\ loading # NoneLoading /\ loading.left = <<>>
  /\ loading' = NoneLoading
  /\ tracks' = Append(tracks, [file |-> at, pass |-> pass, lines |-> loading.lines, samples |-> loading.samples,
                             mode |-> loading.mode, language |-> GetFilenameLanguage(Files[at].name)])
  /\ IF Type = "smi" /\ pass = 1 THEN pass' = 2 /\ UNCHANGED at ELSE \E goOn \in BOOLEAN : Advance(goOn)
  /\ UNCHANGED <<dir, process, forced, renderer, screen, vobVars>>

LoadVobSub ==
  /\ Now({"idx"})
  /\ V!ReadLine \/ V!LoadTrack \/ V!LoadSample \/ V!FinishTrack
  /\ UNCHANGED <<dir, textVars>>

\* The error of the last track counts: inserting one without samples fails.
VobSubLoaded ==
  /\ Now({"idx"}) /\ V!AllLoaded
  /\ \E goOn \in BOOLEAN : Advance(goOn)
  /\ UNCHANGED <<dir, process, forced, loading, tracks, renderer, screen, vobVars>>

\* The user changes the preferences while the program runs.
ChangePreferences ==
  /\ process # Directories[dir].later
  /\ process' = Directories[dir].later
  /\ UNCHANGED <<dir, forced, textVars, vobVars>>

-----------------------------------------------------------------------------
(* The codecs. *)

Over == at > Len(Files)

\* A codec is opened for each track; its renderer is made for the description of the track, and kept.
Preflight ==
  /\ Over
  /\ \E t \in DOMAIN tracks :
       LET file == Files[tracks[t].file]
       IN /\ renderer.track # t
          /\ renderer' = [track |-> t, translateSRT |-> file.type # "ssa",
                          context |-> IF file.type = "ssa" THEN SubContext(TRUE, ParseSSAFile(HeaderOf(file.lines)))
                                      ELSE SubContext(FALSE, NoHeader)]
  /\ UNCHANGED <<dir, process, forced, at, pass, loading, tracks, screen, vobVars>>

Track == tracks[renderer.track]

\* The data of a sample: the texts of its lines, for SRT as one.
Packet(n) ==
  LET texts == [k \in DOMAIN Track.samples[n].text |-> Track.lines[Track.samples[n].text[k]].text]
  IN IF renderer.translateSRT THEN FlattenSeq([k \in DOMAIN texts |-> WithNewline(texts[k])]) ELSE texts

\* Nothing but a newline.
Empty(n) == Track.samples[n].text = <<>> \/ (renderer.translateSRT /\ Len(Packet(n)) = 1)

\* Opaque black is changed in what was drawn, if the process asks for it.
Seeable(drawn) ==
  IF V!Transparency = 1 THEN [k \in DOMAIN drawn |-> [drawn[k] EXCEPT !.chars = ConvertImageToQDTransparent(@)]] ELSE drawn

\* Any sample that was added; empty ones leave the picture empty.
DrawBand ==
  /\ Over /\ renderer # NoRenderer
  /\ \E n \in {n \in DOMAIN Track.samples : Track.samples[n].added} :
       IF Empty(n) THEN screen' = [track |-> renderer.track, n |-> n, drawn |-> <<>>] /\ UNCHANGED forced
       ELSE LET divs == Drawable(ParsePacket(renderer.context, Packet(n)))
            IN /\ \E breaks \in AllLineBreaks(divs) :
                    screen' = [track |-> renderer.track, n |-> n, drawn |-> Seeable(RenderPacket(divs, breaks))]
               /\ forced' = V!Transparency
  /\ UNCHANGED <<dir, process, at, pass, loading, tracks, renderer, vobVars>>

PlayVobSub == Over /\ (V!Preflight \/ V!BeginBand \/ V!DecodeBand \/ V!DrawBand) /\ UNCHANGED <<dir, textVars>>

Next ==
  \/ SkipFile \/ LoadText \/ AddSample \/ TrackMade \/ LoadVobSub \/ VobSubLoaded \/ ChangePreferences
  \/ Preflight \/ DrawBand \/ PlayVobSub

Spec == Init /\ [][Next]_vars

-----------------------------------------------------------------------------
(* What a file says, taken from its form, not from how it is read. *)

\* The lines shown: [begin, end, from, to] as in SubReaders.
TimesOf(f) == SelectSeq([i \in DOMAIN f |-> i], LAMBDA i : f[i].k = "times")
BlankBehind(f, i) == Min({Len(f) + 1} \cup {j \in i .. Len(f) : f[j].k = "blank"})
SRTSays(f) ==
  [n \in DOMAIN TimesOf(f) |->
     LET i == TimesOf(f)[n] IN [begin |-> f[i].begin, end |-> f[i].end, from |-> i + 1, to |-> BlankBehind(f, i) - 1]]

Syncs(f) == SelectSeq([i \in DOMAIN f |-> i], LAMBDA i : f[i].k = "sync")
Blocks(f) ==
  LET sync(n) == Syncs(f)[n]
  IN [n \in 1 .. Len(Syncs(f)) - 1 |->
        LET p == Min({i \in sync(n) .. sync(n + 1) : f[i].k = "p"} \cup {sync(n + 1)})
        IN [begin |-> f[sync(n)].time, end |-> f[sync(n + 1)].time, from |-> p + 1, to |-> sync(n + 1) - 1,
            class |-> IF f[p].k = "p" THEN f[p].class ELSE "noClass"]]
ClassesOf(f) == {f[i].class : i \in {i \in DOMAIN f : f[i].k = "p"}}
SMISays(f, whichTrack) ==
  LET first == f[Min({i \in DOMAIN f : f[i].k = "p"})].class
  IN SelectSeq(Blocks(f), LAMBDA b : (b.class = first) = (whichTrack = 1))

Dialogues(f) == SelectSeq(f, LAMBDA l : l.k = "dialogue" /\ Len(l.fields) >= 6)
SSASays(f) ==
  [n \in DOMAIN Dialogues(f) |->
     [begin |-> IntValue(Dialogues(f)[n].fields[2]), end |-> IntValue(Dialogues(f)[n].fields[3]), from |-> n, to |-> n]]

Says(file, whichTrack) ==
  CASE file.type = "srt" -> SRTSays(file.lines)
    [] file.type = "smi" -> SMISays(file.lines, whichTrack)
    [] file.type = "ssa" -> SSASays(file.lines)

\* Files in the form that their readers expect.  SRT: times follow a number and a text follows them.
\* SMI: one P in each SYNC, of at most two classes, the second in the last tenth.  SSA: the sections in
\* their order, all columns there.
SRTFormed(f) ==
  /\ \A i \in ToSet(TimesOf(f)) : i > 1 /\ f[i - 1].k = "number" /\ i < Len(f) /\ f[i + 1].k # "blank"
  /\ \A i \in ToSet(TimesOf(f)) : i > 2 => f[i - 2].k = "blank"
  /\ \A i \in DOMAIN f : f[i].k = "number" =>
       i + 1 \in ToSet(TimesOf(f)) \/ \E n \in DOMAIN SRTSays(f) : i \in SRTSays(f)[n].from .. SRTSays(f)[n].to
SMIFormed(f, tail) ==
  /\ \A n \in DOMAIN Blocks(f) : Cardinality({i \in Syncs(f)[n] .. Syncs(f)[n + 1] : f[i].k = "p"}) = 1
  /\ Cardinality(ClassesOf(f)) = Cardinality({FirstClass(f, 1), FirstClass(f, tail)})
SSAFormed(f) ==
  \E styles, events \in 2 .. Len(f) :
    /\ f[1].k = "script" /\ f[styles].k = "styles" /\ f[events].k = "events"
    /\ \A i \in DOMAIN f \ {1, styles, events} :
         CASE i < styles -> f[i].k \in {"key", "other"}
           [] i > events -> f[i].k \in {"dialogue", "other"}
           [] OTHER -> f[i].k \in {"style", "other"}
    /\ styles < events
    /\ \A i \in DOMAIN f : f[i].k = "dialogue" => Len(f[i].fields) >= 6
Formed(file) ==
  CASE file.type = "srt" -> SRTFormed(file.lines)
    [] file.type = "smi" -> SMIFormed(file.lines, file.tail)
    [] file.type = "ssa" -> SSAFormed(file.lines)

\* The lines to be seen at a time, in the order of their begins.
Seen(says, time) ==
  LET active == {n \in DOMAIN says : says[n].begin <= time /\ time < says[n].end}
      before(n) == {m \in active : says[m].begin < says[n].begin \/ (says[m].begin = says[n].begin /\ m < n)}
  IN [k \in 1 .. Cardinality(active) |-> CHOOSE n \in active : Cardinality(before(n)) = k - 1]

\* At every time a track shows the lines that the file tells to be seen then, in the order of their begins,
\* each with its whole text and nothing of another's, from whichever place of the file: the readers and the
\* serialiser lose and double nothing, and a sample QuickTime refuses takes no other with it.  A name with
\* a language in it tells the track's.
TrackTellsFile ==
  \A m \in ToSet(tracks) :
    LET says == Says(Files[m.file], m.pass)
        extent(k) == <<m.lines[k].from, m.lines[k].to>>
        name == Files[m.file].name
    IN /\ Len(name) > 2 => m.language = V!LanguageTold(name[Len(name) - 1])
       /\ Formed(Files[m.file]) =>
         \A time \in 0 .. Max({0} \cup {says[n].end : n \in DOMAIN says}) - 1 :
           \E s \in ToSet(m.samples) :
             /\ s.begin <= time /\ time < s.end
             /\ [k \in DOMAIN s.text |-> extent(s.text[k])]
                  = [k \in DOMAIN Seen(says, time) |-> <<says[Seen(says, time)[k]].from, says[Seen(says, time)[k]].to>>]

-----------------------------------------------------------------------------
(* What a text says. *)

\* The tokens behind a drawn div.
TokensOf(d) ==
  LET extent == Track.lines[Track.samples[screen.n].text[d.line]]
  IN IF renderer.context.type = "SRT" THEN Front(Packet(screen.n))
     ELSE Joined(SubSeq(Dialogues(Files[Track.file].lines)[extent.from].fields, 6,
                        Len(Dialogues(Files[Track.file].lines)[extent.from].fields)), Char(","))

\* The commands before token n, and the last that decides on an attribute.
CommandsBefore(tokens, n) ==
  FlattenSeq([k \in 1 .. n - 1 |-> IF tokens[k].k = "tag" THEN tokens[k].cmds ELSE <<>>])
Deciding(cmds, t) == {k \in DOMAIN cmds : cmds[k].t \in t}
Hidden(tokens, n) ==
  LET cmds == CommandsBefore(tokens, n)
  IN Deciding(cmds, {"p"}) # {} /\ cmds[Max(Deciding(cmds, {"p"}))].v > 0
Attribute(tokens, n, style, t) ==
  LET cmds == CommandsBefore(tokens, n)
      k == Max(Deciding(cmds, {t, "r"}))
  IN IF Deciding(cmds, {t, "r"}) = {} THEN style[t]
     ELSE IF cmds[k].t = t THEN cmds[k].v
     ELSE IF cmds[k].v \in DOMAIN renderer.context.styles THEN renderer.context.styles[cmds[k].v][t] ELSE style[t]

\* The tokens to be seen: characters before a brace that is never closed, outside of shapes.
VisibleTokens(tokens) ==
  SelectSeq([n \in DOMAIN tokens |-> n],
            LAMBDA n : /\ tokens[n].k \in {"char", "esc"} /\ ~Hidden(tokens, n)
                       /\ \A k \in 1 .. n : tokens[k].k # "open")
CharacterOf(token) == IF token.k = "esc" /\ token.c \in {"N", "n"} THEN "nl" ELSE token.c

\* No escape inside of a shape, no part of more than two lines (DrawTextLines draws such a part
\* beyond the end of its second line).
Simple(tokens) == \A n \in DOMAIN tokens : tokens[n].k = "esc" => ~Hidden(tokens, n)
ShortParts(d, breaks) ==
  ~d.parts \/ \A j \in DOMAIN d.spans : Cardinality({n \in DOMAIN breaks : d.spans[j].offset < breaks[n] /\ breaks[n] < SpanEnd(d, j)}) < 2

\* Every character of a sample's lines is drawn once, in its line, in the style and colour that the tags
\* before it say, however lines are broken: the places where tags were cut out of the text, the spans copied
\* between them, the runs and the parts all tell the same.  Nothing is drawn in a colour that the mode of the
\* track does not show, whatever becomes of the preferences between the import and the drawing.
ColourSeen(c) == IF Track.mode = "transparent" /\ c = Black THEN AlmostBlack ELSE c
ShownAsWritten ==
  \A s \in ToSet(screen.drawn) :
    LET tokens == TokensOf(s.div)
        visible == VisibleTokens(tokens)
        lineOf(k) == Max({n \in 1 .. Len(s.breaks) - 1 : s.breaks[n] < k})
    IN (renderer.track = screen.track /\ Formed(Files[Track.file]) /\ Simple(tokens)) =>
         /\ s.div.text = [k \in DOMAIN visible |-> CharacterOf(tokens[visible[k]])]
         /\ ShortParts(s.div, s.breaks) =>
              s.chars = {[at |-> k - 1, y |-> s.ys[lineOf(k)], c |-> ColourSeen(Attribute(tokens, visible[k], s.div.style, "c")),
                          i |-> Attribute(tokens, visible[k], s.div.style, "i")]
                           : k \in {k \in DOMAIN visible : s.div.text[k] # "nl"}}

\* Lines that are drawn at the same edge and in the same layer do not cover each other, and those of a text
\* go down: where each div begins depends on all drawn before it.
RowsApart ==
  \A a, b \in DOMAIN screen.drawn :
    LET x == screen.drawn[a]
        y == screen.drawn[b]
    IN /\ \A n \in 2 .. Len(x.ys) : x.ys[n] = x.ys[n - 1] - LineHeight
       /\ (/\ a < b /\ ~x.div.positioned /\ ~y.div.positioned
           /\ x.div.alignV = y.div.alignV /\ x.div.layer = y.div.layer
           /\ \A k \in a + 1 .. b : ~screen.drawn[k].div.resetPens)
          => ToSet(x.ys) \cap ToSet(y.ys) = {}

\* VobSub's properties, with text files before and after the index.
TracksTellIndex == V!TracksTellIndex
ShowsOwnSubtitle == V!ShowsOwnSubtitle
=============================================================================
