-------------------------------- MODULE VobSub --------------------------------
(***************************************************************************)
(* DVD subtitles beside a movie: LoadVobSubSubtitles reads the .idx file   *)
(* line by line, loadTrackIntoMovie makes a QuickTime track of each of its *)
(* tracks, and VobSubCodec decodes and draws their samples, or those of a  *)
(* Matroska track.  A film is                                              *)
(*   idx      the lines, [type, ...]: "private", "palette", "id" (index,   *)
(*            language), "delay" (by), "timestamp" (time, pos), "other"    *)
(*   sub      the blocks of the .sub file                                  *)
(*   packets  samples of a Matroska track, [form, data]: form is "raw",    *)
(*            "zlib", or "broken", for what zlib does not understand; and  *)
(*   compressed  tells whether that track is said to be compressed         *)
(* Media and movie count in milliseconds.                                  *)
(***************************************************************************)
EXTENDS VobSubPackets, CommonUtils, TLC

CONSTANT GarbageTimes    \* what ReadPacketTimes may make of memory that was never written

VARIABLES film,
          process,        \* the program that plays the film, and the preferences
          forced,         \* the static variable of IsTransparentSubtitleHackEnabled
          line,           \* the lines of the index that were read
          state, delay, privateData, privateLines,
          tracks,         \* a VobSubTrack: its private data and samples, [time, pos]
          loaded,         \* the tracks that were loaded
          load,           \* the local variables of loadTrackIntoMovie, or NotLoading
          media,          \* the tracks made: [track, forced, start, samples, mode, language]
          codec,          \* the instance that is open: its medium, settings, codecData, the decoded
                          \* subtitle, and whose they are
          drp,            \* the sample between BeginBand and EndBand, or NoSample
          shown           \* the sample drawn last and what was drawn

world == <<film, process>>
reading == <<line, state, delay, privateData, privateLines, tracks>>
playing == <<codec, drp, shown>>

NotLoading == [track |-> 0]
NoSample == [form |-> "none"]
Transparent == [spu |-> 0, colours |-> "none", blackSeen |-> FALSE]
None == -1

\* Medium 0 is a track of a Matroska file.
NoCodec == [medium |-> None, of |-> NoSample]

\* The film and the process are given.
Init ==
  /\ forced = Unasked
  /\ line = 0 /\ state = "PRIVATE" /\ delay = 0 /\ privateData = None /\ privateLines = <<>>
  /\ tracks = <<>> /\ loaded = 0 /\ load = NotLoading /\ media = <<>>
  /\ codec = NoCodec
  /\ drp = NoSample
  /\ shown = [medium |-> None, sample |-> NoSample, picture |-> Transparent]

-----------------------------------------------------------------------------
(* The index. *)

\* A line tells what it is; others are private data before the first track and ignored after.
StateOf(l) ==
  CASE l.type = "timestamp" -> "TRACK_DATA"
    [] l.type = "id" -> "TRACK_HEADER"
    [] l.type = "delay" -> "DELAY"
    [] OTHER -> IF state = "PRIVATE" THEN state ELSE "TRACK_HEADER"

\* Faulty: the delay is forgotten with the next track.
TimeOfNoDelay(l) == l.time

TimeOf(l) == l.time + delay

\* A position behind the end of the file is its end; samples without a track are lost.
WithSample(l) ==
  LET pos == IF l.pos > Len(film.sub) THEN Len(film.sub) ELSE l.pos
  IN IF tracks = <<>> THEN tracks
     ELSE [tracks EXCEPT ![Len(tracks)].samples = Append(@, [time |-> TimeOf(l), pos |-> pos])]

ReadLine ==
  /\ line < Len(film.idx)
  /\ line' = line + 1
  /\ LET l == film.idx[line + 1]
         now == StateOf(l)
     IN /\ state' = now
        /\ privateLines' = IF now = "PRIVATE" THEN Append(privateLines, l) ELSE privateLines
        /\ privateData' = IF l.type = "id" /\ privateData = None THEN Len(privateLines) ELSE privateData
        /\ delay' = IF now = "DELAY" THEN l.by ELSE delay
        /\ tracks' = CASE now = "TRACK_DATA" -> WithSample(l)
                       [] l.type = "id" -> Append(tracks, [index |-> l.index, language |-> l.language, samples |-> <<>>,
                                                           private |-> privateData'])
                       [] OTHER -> tracks
  /\ UNCHANGED <<world, forced, loaded, load, media, playing>>

-----------------------------------------------------------------------------
(* The tracks. *)

\* The mode a track is drawn in; the transparent one does not show opaque black.
SetSubtitleMediaHandlerTransparent(hack) == IF hack = 1 THEN "transparent" ELSE "preBlackAlpha"
Transparency == IsTransparentSubtitleHackEnabled(forced, process)

\* Languages have codes of two letters or of three.
LanguageOf(code) == IF Len(code) = 3 THEN ISO639_2ToQTLangCode(code) ELSE ISO639_1ToQTLangCode(code)

\* Every track is loaded, and again with the forced subtitles only when it has some: createVobSubMedia
\* makes the medium and asks how it is to be drawn.
Loading(t, onlyForced) ==
  [track |-> t, i |-> 1, forced |-> onlyForced, samples |-> <<>>, lastTime |-> 0, first |-> 0, hasForced |-> FALSE,
   mode |-> SetSubtitleMediaHandlerTransparent(Transparency)]

\* A track without samples is left out.
LoadTrack ==
  /\ line = Len(film.idx) /\ load = NotLoading /\ loaded < Len(tracks)
  /\ IF tracks[loaded + 1].samples = <<>> THEN loaded' = loaded + 1 /\ UNCHANGED <<forced, load>>
     ELSE load' = Loading(loaded + 1, FALSE) /\ forced' = Transparency /\ UNCHANGED loaded
  /\ UNCHANGED <<world, reading, media, playing>>

Samples == tracks[load.track].samples

\* The blocks up to the next sample of the track, or to the end.
SampleSize(i) == (IF i = Len(Samples) THEN Len(film.sub) ELSE Samples[i + 1].pos) - Samples[i].pos

\* Samples the code skips.
Skipped == [ok |-> FALSE]

\* What ExtractVobSubPacket and ReadPacketTimes tell of sample i.
Told(i) ==
  LET x == ExtractVobSubPacket(SubSeq(film.sub, Samples[i].pos + 1, Samples[i].pos + SampleSize(i)), -1)
  IN IF SampleSize(i) < 0 THEN {Skipped}
     ELSE IF x.data = <<>> THEN {[g EXCEPT !.used = x.used] : g \in GarbageTimes}
     ELSE LET t == ReadPacketTimes(x.data)
          IN {[ok |-> t.ok, start |-> t.start, end |-> t.end, forced |-> t.forced, used |-> x.used]}

\* Faulty: the samples follow each other without a gap.
AddedNoGap(l, from, sample) == [l EXCEPT !.samples = Append(@, sample)]

\* A sample, behind one without data that clears the screen when there is a gap.
Added(l, from, sample) ==
  IF l.first # 0 /\ l.lastTime # from
    THEN [l EXCEPT !.samples = @ \o <<[duration |-> from - l.lastTime, pos |-> 0, size |-> 0], sample>>]
    ELSE [l EXCEPT !.samples = Append(@, sample)]

\* The first sample's time becomes that of its subtitle, which a second loading takes for the sample's.
LoadSample ==
  /\ load # NotLoading /\ load.i <= Len(Samples)
  /\ \E t \in Told(load.i) :
       LET s == Samples[load.i]
           kept == t.ok /\ (load.forced => t.forced)
           seen == [load EXCEPT !.i = @ + 1, !.hasForced = @ \/ (kept /\ t.forced)]
       IN IF ~kept \/ t.end <= t.start THEN load' = seen /\ UNCHANGED tracks
          ELSE /\ load' = [Added(seen, s.time + t.start, [duration |-> t.end - t.start, pos |-> s.pos, size |-> t.used])
                             EXCEPT !.lastTime = s.time + t.end, !.first = IF @ = 0 THEN load.i ELSE @]
               /\ tracks' = IF load.first # 0 THEN tracks
                            ELSE [tracks EXCEPT ![load.track].samples[load.i].time = @ + t.start]
  /\ UNCHANGED <<world, forced, line, state, delay, privateData, privateLines, loaded, media, playing>>

\* The track begins with its first subtitle.
FinishTrack ==
  /\ load # NotLoading /\ load.i > Len(Samples)
  /\ media' = Append(media, [track |-> load.track, forced |-> load.forced, samples |-> load.samples,
                             start |-> Samples[Max({1, load.first})].time, mode |-> load.mode,
                             language |-> LanguageOf(tracks[load.track].language)])
  /\ IF load.hasForced /\ ~load.forced THEN load' = Loading(load.track, TRUE) /\ forced' = Transparency /\ UNCHANGED loaded
     ELSE load' = NotLoading /\ loaded' = load.track /\ UNCHANGED forced
  /\ UNCHANGED <<world, reading, playing>>

-----------------------------------------------------------------------------
(* The codec. *)

AllLoaded == line = Len(film.idx) /\ loaded = Len(tracks)

\* The samples QuickTime may give to the codec of a medium.
FramedSamples(m) ==
  {[form |-> IF s.size = 0 THEN "empty" ELSE "framed", data |-> SubSeq(film.sub, s.pos + 1, s.pos + s.size)] : s \in ToSet(m.samples)}
PlayedSamples == IF codec.medium = 0 THEN ToSet(film.packets) ELSE FramedSamples(media[codec.medium])

\* SetupColorPalette: the colours stay zero when the private data of the track's description have none.
SetupColorPalette(m) ==
  IF m = 0 \/ \E k \in 1 .. tracks[media[m].track].private : privateLines[k].type = "palette" THEN "index" ELSE "zero"

\* Each medium has an instance of the codec; another is closed first.
Opened(m) ==
  [medium |-> m, palette |-> SetupColorPalette(m), compressed |-> m = 0 /\ film.compressed,
   data |-> <<>>, subtitle |-> Transparent, of |-> NoSample]
Preflight ==
  /\ AllLoaded /\ drp = NoSample
  /\ \E m \in (IF film.packets = <<>> THEN 1 ELSE 0) .. Len(media) : m # codec.medium /\ codec' = Opened(m)
  /\ UNCHANGED <<world, forced, reading, loaded, load, media, drp, shown>>

\* QuickTime tells the codec when a sample is the one that it decoded last.
BeginBand ==
  /\ codec # NoCodec /\ drp = NoSample
  /\ \E s \in PlayedSamples, already \in BOOLEAN :
       /\ already => codec.of = s
       /\ drp' = [form |-> s.form, sample |-> s, decoded |-> already]
  /\ UNCHANGED <<world, forced, reading, loaded, load, media, codec, shown>>

\* codecData: without the framing of MPEG or the compression of Matroska; what cannot be
\* decompressed leaves what was there.
Unframed(s) ==
  IF codec.compressed THEN IF s.form = "zlib" THEN s.data ELSE codec.data
  ELSE IF s.form = "framed" THEN ExtractVobSubPacket(s.data, -1).data
  ELSE s.data

\* Faulty: a failure of the decoder is not told.
DecodedAnyway(s) ==
  IF s.form = "empty" THEN [codec |-> codec, ok |-> TRUE]
  ELSE LET d == Unframed(s)
       IN [ok |-> d # <<>>,
           codec |-> IF IsWhole(d) THEN [codec EXCEPT !.data = d, !.subtitle = [Transparent EXCEPT !.spu = d[1][1]], !.of = s]
                     ELSE [codec EXCEPT !.data = d]]

\* The decoder takes whole packets only, and keeps what it decoded last.
Decoded(s) ==
  IF s.form = "empty" THEN [codec |-> codec, ok |-> TRUE]
  ELSE LET d == Unframed(s)
       IN IF IsWhole(d) THEN [ok |-> TRUE, codec |-> [codec EXCEPT !.data = d, !.subtitle = [Transparent EXCEPT !.spu = d[1][1]], !.of = s]]
          ELSE [ok |-> FALSE, codec |-> [codec EXCEPT !.data = d, !.of = NoSample]]

\* A sample that cannot be decoded is not drawn.
DecodeBand ==
  /\ drp # NoSample /\ ~drp.decoded
  /\ codec' = Decoded(drp.sample).codec
  /\ drp' = IF Decoded(drp.sample).ok THEN [drp EXCEPT !.decoded = TRUE] ELSE NoSample
  /\ UNCHANGED <<world, forced, reading, loaded, load, media, shown>>

\* Decodes what is not decoded yet; samples without data are transparent.  The colours are those of the
\* description when the packet tells which, and opaque black is kept visible if the process asks for it.
Picture(c) ==
  [c.subtitle EXCEPT !.colours = IF ReadPacketControls(c.data) THEN c.palette ELSE "libavcodec", !.blackSeen = (Transparency = 1)]
DrawBand ==
  /\ drp # NoSample
  /\ LET d == IF drp.decoded THEN [codec |-> codec, ok |-> TRUE] ELSE Decoded(drp.sample)
     IN /\ codec' = d.codec
        /\ IF ~d.ok THEN UNCHANGED <<forced, shown>>
           ELSE /\ shown' = [medium |-> codec.medium, sample |-> drp.sample,
                             picture |-> IF drp.form = "empty" THEN Transparent ELSE Picture(d.codec)]
                /\ forced' = IF drp.form = "empty" THEN forced ELSE Transparency
  /\ drp' = NoSample
  /\ UNCHANGED <<world, reading, loaded, load, media>>

-----------------------------------------------------------------------------

\* What the index and the blocks say of line n of the index, a timestamp.
TrackOf(n) == Cardinality({k \in 1 .. n : film.idx[k].type = "id"})
EntriesOf(t) == SelectSeq([n \in DOMAIN film.idx |-> n], LAMBDA n : film.idx[n].type = "timestamp" /\ TrackOf(n) = t)
PosOf(n) == film.idx[n].pos
TimeTold(n) ==
  LET delays == {k \in 1 .. n : film.idx[k].type = "delay"}
  IN film.idx[n].time + IF delays = {} THEN 0 ELSE film.idx[Max(delays)].by

\* The blocks of entry k of a track's entries ns, and the subtitle that begins there.
BlocksOf(ns, k) == SubSeq(film.sub, PosOf(ns[k]) + 1, IF k = Len(ns) THEN Len(film.sub) ELSE PosOf(ns[k + 1]))
PrivateOf(ns, k) == SelectSeq(BlocksOf(ns, k), LAMBDA b : b.kind = "private")
SubtitleOf(ns, k) == PrivateOf(ns, k)[1].data[1][1]
TimesOf(spu, cmd) == {s.at : s \in {s \in ToSet(Spus[spu].seqs) : cmd \in ToSet(s.cmds)}}
From(ns, k) == TimeTold(ns[k]) + Max({0} \cup TimesOf(SubtitleOf(ns, k), "start"))
To(ns, k) == TimeTold(ns[k]) + Max({0} \cup TimesOf(SubtitleOf(ns, k), "stop"))
Forced(ns, k) == TimesOf(SubtitleOf(ns, k), "forced") # {}

\* An entry whose packet is there as a whole and can be read.
Good(ns, k) ==
  /\ (1 .. Spus[SubtitleOf(ns, k)].size) =
       {b[2] : b \in {b \in UNION {ToSet(p.data) : p \in ToSet(PrivateOf(ns, k))} : b[1] = SubtitleOf(ns, k)}}
  /\ \A b \in ToSet(BlocksOf(ns, k)) : b.kind # "other"
  /\ TimesOf(SubtitleOf(ns, k), "unknown") = {} /\ From(ns, k) < To(ns, k)

\* The entries are in the order of the file and in time, none as long as 16 bits cannot tell.
InOrder(ns) ==
  /\ \A k \in DOMAIN ns : PosOf(ns[k]) < Len(film.sub)
  /\ \A k \in 2 .. Len(ns) : PosOf(ns[k - 1]) < PosOf(ns[k])
  /\ \A k \in DOMAIN ns : PrivateOf(ns, k) # <<>>
  /\ \A k \in DOMAIN ns : \A s \in ToSet(Spus[SubtitleOf(ns, k)].seqs) : s.at < TimeWidth
  /\ \A j, k \in DOMAIN ns : j < k /\ Good(ns, j) /\ Good(ns, k) => To(ns, j) <= From(ns, k)

Sum(ds) == FoldLeft(+, 0, ds)

\* When the samples of a track made are shown, those that clear the screen left out.
Times(m) ==
  LET at(k) == m.start + Sum([j \in 1 .. k - 1 |-> m.samples[j].duration])
  IN {[from |-> at(k), to |-> at(k) + m.samples[k].duration,
       data |-> ExtractVobSubPacket(SubSeq(film.sub, m.samples[k].pos + 1, m.samples[k].pos + m.samples[k].size), -1).data]
        : k \in {k \in DOMAIN m.samples : m.samples[k].size # 0}}

\* The name of a language that a code tells.
LanguageTold(code) ==
  LET rows == {row \in ToSet(ISO_QTLanguages) : code \in {row.twoChar, row.threeChar}}
  IN IF rows = {} THEN langUnspecified ELSE (CHOOSE row \in rows : TRUE).qtLang

\* The line of the index that begins track t.
HeaderOf(t) == film.idx[CHOOSE n \in DOMAIN film.idx : film.idx[n].type = "id" /\ TrackOf(n) = t]

\* The index has its palette in front, where no delay makes it a header of nothing.
PaletteInFront ==
  \E n \in DOMAIN film.idx : /\ film.idx[n].type = "palette"
                             /\ \A k \in 1 .. n : film.idx[k].type \in {"palette", "private", "other"}

\* Every subtitle of the index whose packet can be read is in its track, from and to the times that the
\* index, its delays and the packet's own control sequences tell, with a sample that holds its packet
\* and no other's, between blocks of other streams; those that cannot be read leave no trace.  Of a forced
\* track the first subtitle is in time only if it begins with its packet (loadTrackIntoMovie moves it twice).
\* And a track has the language of its header.
TracksTellIndex ==
  \A m \in ToSet(media) :
    LET ns == EntriesOf(m.track)
        kept == {k \in DOMAIN ns : Good(ns, k) /\ (m.forced => Forced(ns, k))}
    IN /\ m.language = LanguageTold(HeaderOf(m.track).language)
       /\ InOrder(ns) /\ (m.forced => \A k \in DOMAIN ns : Good(ns, k) => From(ns, k) = TimeTold(ns[k])) =>
            Times(m) = {[from |-> From(ns, k), to |-> To(ns, k),
                         data |-> [b \in 1 .. Spus[SubtitleOf(ns, k)].size |-> <<SubtitleOf(ns, k), b>>]] : k \in kept}

\* What is drawn for a sample is its own subtitle in its own colours, whatever was decoded before it and
\* failed, and nothing for one that clears the screen; a sample that zlib refuses has no such promise
\* (DecompressZlib leaves the data of the sample before it).  Whatever becomes of the preferences between
\* the import and the drawing, opaque black is made visible just where the track is drawn in the mode that
\* loses it.
ShowsOwnSubtitle ==
  CASE shown.sample.form = "none" \/ shown.sample.form = "broken" -> TRUE
    [] shown.sample.form = "empty" -> shown.picture = Transparent
    [] OTHER -> LET blocks == SelectSeq(shown.sample.data, LAMBDA b : shown.sample.form # "framed" \/ b.kind = "private")
                    spu == IF shown.sample.form = "framed" THEN blocks[1].data[1][1] ELSE blocks[1][1]
                    own == {"palette", "alpha"} \subseteq ToSet(Spus[spu].seqs[1].cmds)
                IN /\ shown.picture.spu = spu
                   /\ shown.medium = 0 \/ PaletteInFront => shown.picture.colours = IF own THEN "index" ELSE "libavcodec"
                   /\ shown.medium # 0 => (shown.picture.blackSeen <=> media[shown.medium].mode = "transparent")
=============================================================================
