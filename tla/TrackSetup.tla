------------------------------ MODULE TrackSetup ------------------------------
(***************************************************************************)
(* A track from the file to the screen or the loudspeaker, as far as its   *)
(* set-up goes: the importer describes it (CodecSetup), QuickTime opens a  *)
(* codec for the description, perhaps one that puts back the header its    *)
(* samples lack (CompressVideoCodec.c, CompressAudioCodec.cpp), and the    *)
(* codec opens libavcodec, parses the samples (BitstreamInfo) and draws    *)
(* the pictures (ColorConversions).  The codec of a sound track is a       *)
(* component QuickTime calls as it likes (AudioComponent).                 *)
(*                                                                         *)
(* A track says what the file says, and for the properties what it means:  *)
(* the set-up data its decoder must get, the fields of its stream, and of  *)
(* every sample the bytes in the file, the whole sample, and its frame.    *)
(***************************************************************************)
EXTENDS AudioComponent, ColorConversions

U == INSTANCE CommonUtils

CONSTANTS
  Tracks,        \* the tracks
  Preferences,   \* records of the user's preferences
  ComponentsFor, \* the components that decode H.264 or MPEG-4, as they are registered
  Earlier,       \* the formats a decoder was first asked about, sEmpty when there was none
  Guard          \* the bytes of the screen behind the picture

VARIABLES
  track,  \* the track
  prefs,  \* the preferences
  desc,   \* its description; no importer has been there when imported is FALSE
  imported,
  codec,  \* the video codec that is open, and what it opened
  audio,  \* the component of the audio codec, <<>> when there is none
  handed, \* whether the audio codec took the cookie
  componentSkipCount,  \* of the wrapper, for all its instances
  told,   \* the last sample handed on, and what the parser said of it
  screen, \* what QuickTime shows; <<>> is a byte no one has written
  drawn   \* what was drawn there last

vars == <<track, prefs, desc, imported, codec, audio, handed, componentSkipCount, told, screen,
          drawn>>

NoCodec ==
  [by |-> None, wrapped |-> FALSE, componentType |-> None, strippedHeader |-> <<>>,
   avCodec |-> FALSE, codecID |-> None, packedType |-> None, parser |-> NoParser,
   extradata |-> <<>>, pix_fmt |-> "NONE", err |-> None, lastPicture |-> FALSE,
   colorConv |-> [width |-> 0, height |-> 0, inPixFmt |-> "NONE", outLineSize |-> 0,
                  inLines |-> <<>>, convert |-> None]]

NotTold == [sample |-> 0, bytes |-> <<>>, parsed |-> FALSE, type |-> 0, skippable |-> FALSE,
            size |-> 0]

OldScreen == [a \in 0 .. track.outLineSize * track.height + Guard - 1 |-> <<>>]

Init ==
  /\ track \in Tracks
  /\ prefs \in Preferences
  /\ desc = NoDescription /\ imported = FALSE
  /\ codec = NoCodec /\ audio = <<>> /\ handed = FALSE
  /\ componentSkipCount = 0
  /\ told = NotTold
  /\ screen = OldScreen /\ drawn = "nothing"

-----------------------------------------------------------------------------
\* What another importer than Perian's, QuickTime's, makes of a track.
Foreign(t) ==
  [NoDescription EXCEPT !.dataFormat = t.tag, !.cookie = t.private,
     !.format = ASBD(t.freq, t.tag, {}, t.block, t.frames, 0, t.channels, t.bits)]

ImportTrack ==
  /\ ~imported
  /\ imported' = TRUE
  /\ \E first \in Earlier :
       desc' = CASE track.importer = "Matroska" ->
                      IF track.kind = "video" THEN AddVideoTrack(track)
                      ELSE AddAudioTrack(track, prefs.playHighFreqSBR, first)
               [] track.importer = "libavformat" ->
                      IF track.kind = "video" THEN initialize_video_map(track)
                      ELSE initialize_audio_map(track, first)
               [] track.importer = "QuickTime" -> Foreign(track)
  /\ UNCHANGED <<track, prefs, codec, audio, handed, componentSkipCount, told, screen, drawn>>

Playable(kind) == imported /\ ~desc.err /\ track.kind = kind

-----------------------------------------------------------------------------
\* CompressCodecOpen goes round the components, past the last of them to none.
Chosen(skip) ==
  LET turn == skip % (Len(ComponentsFor) + 1)
  IN IF turn = Len(ComponentsFor) THEN None ELSE ComponentsFor[turn + 1]

Open ==
  /\ Playable("video") /\ codec = NoCodec
  /\ LET original == originalStreamFourCC(desc.dataFormat)
     IN codec' = IF original = None
                 THEN [NoCodec EXCEPT !.by = "FFusion", !.componentType = desc.dataFormat]
                 ELSE [NoCodec EXCEPT !.by = Chosen(componentSkipCount), !.wrapped = TRUE,
                                      !.componentType = original]
  /\ codec'.by # None
  /\ screen' = OldScreen /\ drawn' = "nothing"
  /\ told' = NotTold
  /\ UNCHANGED <<track, prefs, desc, imported, audio, handed, componentSkipCount>>

\* shouldDecode: the preference for Apple's codecs, and that for Perian's over it.
shouldDecode(c) ==
  LET able  == IF c.componentType # "avc1" THEN "PREFER_DECODE"
               ELSE ffusionIsParsedVideoDecodable(c.parser, prefs.decodeAllProfiles)
      apple == c.codecID \in {"H264", "MPEG4"} /\ prefs.preferAppleCodecs
      forced == U!IsForcedDecodeEnabled(U!Unasked, prefs.process) = 1
  IN able # "CANNOT_DECODE" /\ (forced \/ (able = "PREFER_DECODE" /\ ~apple))

Judged(c, parsed) ==
  [c EXCEPT !.err = IF parsed /\ shouldDecode(c) THEN "noErr" ELSE "featureUnsupported"]

WithSetup(c, setup) ==
  IF setup = <<>> THEN Judged(c, TRUE)
  ELSE LET parsed == ffusionParseExtraData(c.parser, setup)
       IN Judged([c EXCEPT !.extradata = setup, !.parser = parsed.parser], parsed.ok)

\* The first Preflight of an instance, up to avcodec_open2.
SetUp(c) ==
  LET codecID == IF getCodecID(c.componentType) = None THEN "MPEG4"
                 ELSE getCodecID(c.componentType)
  IN WithSetup([c EXCEPT
       !.avCodec = TRUE, !.codecID = codecID,
       !.parser = ffusionParserInit(codecID),
       !.packedType = IF /\ c.componentType = "avc1"
                         /\ ~Present(desc, "avcC") /\ Present(desc, "strf")
                      THEN "ALL_IN_FIRST_FRAME" ELSE DefaultPackedTypeForCodec(c.componentType)],
       DescribedSetup(c.componentType, desc))

\* What avcodec_open2 comes to: it fails or tells the pixel format; if it does not, the
\* sample that is there can be decoded, or cannot, or there is none.
Openings == {"fails", "known", "decoded", "undecoded", "no sample"}

\* The pixel format that a context of its own finds in the first sample.
FindPixFmtFromVideo(opening) == IF opening = "decoded" THEN track.pix ELSE "NONE"

Opened(c, opening) ==
  CASE opening = "fails"     -> [c EXCEPT !.err = "paramErr"]
    [] opening = "known"     -> [c EXCEPT !.pix_fmt = track.pix]
    [] opening = "no sample" -> c
    [] OTHER ->
         LET fmt == FindPixFmtFromVideo(opening)
         IN [c EXCEPT !.pix_fmt = fmt, !.err = IF fmt = "NONE" THEN "paramErr" ELSE @]

Displayable(c) ==
  IF c.err = "noErr" /\ FFPixFmtToFourCC(CCOutputPixFmtForInput(c.pix_fmt)) = "0"
  THEN [c EXCEPT !.err = "featureUnsupported"] ELSE c

FFusionCodecPreflight(c, opening) ==
  Displayable(IF c.avCodec THEN [c EXCEPT !.err = "noErr"] ELSE Opened(SetUp(c), opening))

\* CompressCodecPreflight goes on to the codec within; the one that is tried next comes
\* behind the one that does not support the track.
Preflight ==
  /\ codec.by # None /\ codec.err \in {None, "noErr"}
  /\ \E opening \in Openings :
       LET header == IF codec.wrapped /\ Present(desc, "CpSt") THEN Extension(desc, "CpSt")
                     ELSE codec.strippedHeader
           c      == [codec EXCEPT !.strippedHeader = header]
       IN codec' = IF c.by = "FFusion" THEN FFusionCodecPreflight(c, opening)
                   ELSE [c EXCEPT !.err = "noErr"]
  /\ componentSkipCount' = CASE ~codec.wrapped                  -> componentSkipCount
                             [] codec.wrapped /\ codec'.err = "featureUnsupported" ->
                                  componentSkipCount + 1
                             [] OTHER                           -> 0
  /\ UNCHANGED <<track, prefs, desc, imported, audio, handed, told, screen, drawn>>

Close ==
  /\ codec.by # None
  /\ codec' = NoCodec
  /\ told' = NotTold
  /\ UNCHANGED <<track, prefs, desc, imported, audio, handed, componentSkipCount, screen, drawn>>

\* The bytes of a sample as the codec within gets them.
Restored(header, i) == header \o track.samples[i].stored

BeginBand ==
  /\ codec.err = "noErr"
  /\ \E i \in DOMAIN track.samples :
       LET bytes == Restored(codec.strippedHeader, i)
           found == ffusionParse(codec.parser, bytes)
       IN told' = IF codec.by = "FFusion" /\ codec.parser.kind # "none"
                  THEN [sample |-> i, bytes |-> bytes, parsed |-> TRUE, type |-> found.type,
                        skippable |-> found.skippable, size |-> found.size]
                  ELSE [NotTold EXCEPT !.sample = i, !.bytes = bytes]
  /\ UNCHANGED <<track, prefs, desc, imported, codec, audio, handed, componentSkipCount, screen,
                 drawn>>

\* The converter is chosen for the first picture, for its lines and the screen's.
DrawBand ==
  /\ codec.err = "noErr" /\ codec.by = "FFusion"
  /\ \E hasBuffer \in BOOLEAN :
       LET fresh == [codec.colorConv EXCEPT
                       !.inPixFmt = codec.pix_fmt, !.width = track.width,
                       !.height = track.height, !.outLineSize = track.outLineSize]
           conv  == IF codec.colorConv.width = 0 THEN fresh ELSE codec.colorConv
           open  == IF conv.convert # None THEN conv
                    ELSE CCOpenConverter([conv EXCEPT !.inLines = track.lines])
       IN IF hasBuffer \/ codec.lastPicture
          THEN /\ screen' = Stored(screen, Converted(open, [lines |-> track.lines]))
               /\ codec' = [codec EXCEPT !.colorConv = open, !.lastPicture = TRUE]
               /\ drawn' = "picture"
          ELSE /\ screen' = Stored(screen, Cleared(conv))
               /\ codec' = [codec EXCEPT !.colorConv = conv]
               /\ drawn' = "black"
  /\ UNCHANGED <<track, prefs, desc, imported, audio, handed, componentSkipCount, told>>

-----------------------------------------------------------------------------
\* A sound description keeps the cookie between an atom with the format and an end.
Kept(cookie) == IF cookie = <<>> THEN <<>> ELSE AtomOf(10, BE32(0)) \o cookie \o AtomOf(0, <<>>)

AudioOpen ==
  /\ Playable("audio") /\ audio = <<>>
  /\ audio' = <<Decoder(ClassOf(desc.dataFormat))>>
  /\ UNCHANGED <<track, prefs, desc, imported, codec, handed, componentSkipCount, told, screen,
                 drawn>>

AudioClose ==
  /\ audio # <<>>
  /\ audio' = <<>> /\ handed' = FALSE
  /\ told' = NotTold
  /\ UNCHANGED <<track, prefs, desc, imported, codec, componentSkipCount, screen, drawn>>

\* QuickTime sets formats and cookie one by one and initialises, or all at once; it may
\* try an output format Perian does not have.
Calls ==
  LET Set(p)  == [NoCall EXCEPT !.what = "SetProperty", !.id = p, !.size = <<"ASBD", 1>>]
      pcm     == FakeOutput(desc.format)
      cookie  == Kept(desc.cookie)
  IN {[Set("CurrentInputFormat") EXCEPT !.input = desc.format],
      [Set("CurrentOutputFormat") EXCEPT !.output = pcm],
      [Set("CurrentOutputFormat") EXCEPT !.output = [pcm EXCEPT !.mFormatFlags = {"float"}]],
      [Set("MagicCookie") EXCEPT !.cookie = cookie],
      [NoCall EXCEPT !.what = "Uninitialize"]}
     \cup {[NoCall EXCEPT !.what = "Initialize", !.input = formats[1], !.output = formats[2],
                          !.cookie = given] :
             formats \in {<<desc.format, pcm>>, <<sEmpty, sEmpty>>}, given \in {<<>>, cookie}}

AudioCall ==
  /\ audio # <<>>
  /\ \E call \in Calls : \E result \in {ComponentEntryDispatch(audio[1], call)} :
       /\ audio' = <<result.c>>
       /\ handed' = (handed \/ (call.cookie # <<>> /\ result.err = "noErr"))
  /\ UNCHANGED <<track, prefs, desc, imported, codec, componentSkipCount, told, screen, drawn>>

\* Packets are appended and decoded, once the cookie is there; CompressAudioCodec puts the
\* header before every packet it hands on.
AudioProduce ==
  /\ audio # <<>> /\ (handed \/ desc.cookie = <<>>)
  /\ audio' = <<ComponentEntryDispatch(audio[1], [NoCall EXCEPT !.what = "ProduceOutputData"]).c>>
  /\ \E i \in DOMAIN track.samples :
       told' = IF \E d \in Range(Decoding(audio'[1])) : d.initialized /\ d.open
               THEN [NotTold EXCEPT !.sample = i, !.bytes = Restored(audio[1].strippedHeader, i)]
               ELSE NotTold
  /\ UNCHANGED <<track, prefs, desc, imported, codec, handed, componentSkipCount, screen, drawn>>

Next ==
  \/ ImportTrack \/ Open \/ Preflight \/ Close \/ BeginBand \/ DrawBand
  \/ AudioOpen \/ AudioClose \/ AudioCall \/ AudioProduce

Spec == Init /\ [][Next]_vars

-----------------------------------------------------------------------------
(* Correctness *)

\* What the properties do not promise: set-up data of WMA and TTA from libavformat's
\* importer, which create_cookie spoils, and those of MPEG-4 video in Matroska, which
\* become an `esds' extension without the descriptors ReadESDSDescExt looks for.
Spoiled ==
  \/ track.importer = "libavformat" /\ desc.dataFormat \in {"WMA1", "WMA2", "TTA1"}
  \/ track.importer = "Matroska" /\ track.private # <<>>
       /\ track.codecID \in {"V_MPEG4/ISO/ASP", "V_MPEG4/ISO/SP", "V_MPEG4/ISO/AP"}

\* The order of libavcodec's DTS decoder, for three to six channels.
DTSChannels ==
  <<<<"L", "R", "C">>, <<"L", "R", "C", "Cs">>, <<"L", "R", "C", "Ls", "Rs">>,
    <<"L", "R", "C", "LFE", "Ls", "Rs">>>>

\* A channel that comes out where the sound description has it.
InPlace(d) ==
  LET channels == DTSChannels[track.channels - 2]
  IN \A j \in DOMAIN channels : desc.layout[d.fullChannelMap[j] + 1] = channels[j]

\* An audio decoder that is ready: the file's codec, its set-up data, its rate and number
\* of channels on both sides, sixteen bits out, and every channel in its place.
DecoderSetUp(d) ==
  /\ FFFourCCToCodecID(d.inputFormat.mFormatID) = track.codec
  /\ d.extradata \in track.setup \/ Spoiled
  /\ d.context.sample_rate = track.freq /\ d.context.channels = track.channels
  /\ d.outputFormat = FakeOutput(d.inputFormat)
  /\ d.inputFormat.mFormatID = "DTS " /\ track.channels \in 3 .. 6 => InPlace(d)

\* The properties a component tells the size of but does not have: all say "FIXME read our
\* Rez strings here", or belong to the unit within, or ask for another stream.
Unanswered(c) ==
  {"FormatCFString", "FormatInfo"}
    \cup (IF c.class = "Compress" THEN {"NameCFString"} ELSE {})

\* Every other property has a value, of the size it was said to have, and the format the
\* component is registered for is one of those it says it supports.
QuestionsAnswered(c) ==
  \A p \in Properties \ Unanswered(c) :
    \E got \in {GetProperty(c, p, GetPropertyInfo(c, p).size)} :
      /\ got.err = "noErr" /\ got.written
      /\ p = "SupportedInputFormats" =>
           \/ \E unit \in Range(c.actualUnit) : unit.class = "other"
           \/ \E f \in Range(got.value) : f.mFormatID = desc.dataFormat

\* Whatever the importer wrapped and the codec took out again, and in whatever order
\* QuickTime calls an audio component, libavcodec is opened as the file's codec with the
\* file's set-up data and format; a component answers what it says it can be asked; and
\* every sample a decoder gets is whole, with the header that was stripped from the
\* track's samples.
SetupReachesDecoder ==
  /\ codec.by = "FFusion" /\ codec.err = "noErr" =>
       codec.codecID = track.codec /\ (codec.extradata \in track.setup \/ Spoiled)
  /\ \A c \in Range(audio) :
       /\ c.class # "other" => QuestionsAnswered(c)
       /\ \A d \in Range(Decoding(c)) :
            d.class \in FFissionClasses /\ d.initialized /\ d.open => DecoderSetUp(d)
  /\ told # NotTold => told.bytes = track.samples[told.sample].whole

\* The bytes of a frame behind start codes, none of whose slices the parser finds: it
\* passes over a NAL unit whose first byte is 1, which is a slice no other frame needs,
\* when three bytes of start code stand before it and not four.
Unfound(bytes) ==
  \A j \in 3 .. Len(bytes) - 1 :
    SubSeq(bytes, j - 2, j) = <<0, 0, 1>> /\ bytes[j + 1] % 32 \in {1, 2, 5} =>
      bytes[j + 1] = 1 /\ ~(j > 3 /\ bytes[j - 3] = 0)

\* What is said of a frame of the kind `type'.  Of H.264's, the table slice_type_map takes
\* B slices for P slices, so that a B frame is called a P frame, though the comment on
\* parse_h264_stream has "a frame with any B slices is a B frame"; and nothing is said of a
\* frame that is not found.
Called(type) ==
  CASE codec.parser.kind # "h264" -> type
    [] ~codec.parser.context.is_avc /\ Unfound(told.bytes) -> 0
    [] type = TypeB -> TypeP
    [] OTHER -> type

\* The fields of the H.264 stream that decide what Perian plays are those its encoder
\* wrote, whichever parts of the sequence parameter set come before them; and every
\* sample is one frame for the parser, droppable when no other frame needs it, and called
\* by the kind it is but for what Called names.
ParserTellsStream ==
  /\ codec.parser.kind = "h264" /\ codec.extradata # <<>> =>
       \A f \in DOMAIN track.stream : codec.parser.context[f] = track.stream[f]
  /\ told.parsed => LET sample == track.samples[told.sample]
                    IN /\ told.size = Len(sample.whole)
                       /\ told.type = Called(sample.type)
                       /\ told.skippable = sample.skippable

-----------------------------------------------------------------------------
\* libavutil's pixel formats: the bits by which chroma is smaller, across and down; the
\* bits above a byte; and of packed formats, where each byte of QuickTime's lies.
ChromaShift ==
  [f \in ToY422 \cup {"YUVA420P"} |->
     CASE f = "YUV410P" -> <<2, 2>> [] f = "YUV422P" -> <<1, 0>> [] OTHER -> <<1, 1>>]

DeepBy(f) ==
  CASE f = "YUV420P9LE" -> 1 [] f = "YUV420P10LE" -> 2 [] f = "YUV420P16LE" -> 8 [] OTHER -> 0

ByteOf == [RGB24 |-> <<0, 1, 2>>, BGR24 |-> <<2, 1, 0>>, ARGB |-> <<0, 1, 2, 3>>,
           BGRA |-> <<3, 2, 1, 0>>, RGB555BE |-> <<0, 1>>, RGB555LE |-> <<1, 0>>]

\* The bytes of a pixel on the screen: '2vuy' has the blue and the red difference in turn
\* and the luma, 'v408' all three and the transparency.
OnScreen(f) == CASE f \in DOMAIN ByteOf -> Len(ByteOf[f]) [] f = "YUVA420P" -> 4 [] OTHER -> 2

\* The sample that byte k of the pixel in column x and row y shows, and what is black there.
Shown(f, x, y, k) ==
  LET shift     == ChromaShift[f]
      chroma(p) == <<p, y \div (2 ^ shift[2]), (x - (x % 2)) \div (2 ^ shift[1]), DeepBy(f)>>
      luma(p)   == <<p, y, x, DeepBy(f)>>
  IN CASE f \in DOMAIN ByteOf -> <<1, y, OnScreen(f) * x + ByteOf[f][k + 1], 0>>
       [] f = "YUVA420P"      -> <<chroma(2), luma(1), chroma(3), luma(4)>>[k + 1]
       [] OTHER               -> IF k = 1 THEN luma(1)
                                 ELSE IF x % 2 = 0 THEN chroma(2) ELSE chroma(3)

Black(f, k) ==
  CASE f \in DOMAIN ByteOf -> <<0>>
    [] f = "YUVA420P"      -> <<<<128, 16, 128, 235>>[k + 1]>>
    [] OTHER               -> <<<<128, 16>>[k + 1]>>

\* On the screen is the picture, every byte of every pixel where it belongs, or black
\* when there was no picture yet, and nothing is written beside it.  The last column of
\* an odd number is not drawn where two pixels share their chroma.
PictureDrawn ==
  LET f       == track.pix
      n       == OnScreen(f)
      columns == IF f \in ToY422 THEN 2 * Half(track.width) ELSE track.width
      At3(x, y, k) == track.outLineSize * y + n * x + k
      inside  == {At3(x, y, k) :
                    x \in 0 .. track.width - 1, y \in 0 .. track.height - 1, k \in 0 .. n - 1}
  IN /\ drawn = "picture" =>
          \A x \in 0 .. columns - 1, y \in 0 .. track.height - 1, k \in 0 .. n - 1 :
             screen[At3(x, y, k)] = Shown(f, x, y, k)
     /\ drawn = "black" =>
          \A x \in 0 .. track.width - 1, y \in 0 .. track.height - 1, k \in 0 .. n - 1 :
             screen[At3(x, y, k)] = Black(f, k)
     /\ \A a \in DOMAIN screen \ inside : screen[a] = <<>>
=============================================================================
