----------------------------- MODULE MCTrackSetup -----------------------------
(***************************************************************************)
(* The tracks of the run: one for each way set-up data take through the    *)
(* importers and the codecs, H.264 streams written as the standard has it, *)
(* and a picture of every pixel format.                                    *)
(***************************************************************************)
EXTENDS TrackSetup

\* A track of no set-up data.
Plain ==
  [importer |-> "Matroska", kind |-> "video", codecID |-> "V_SNOW", codec |-> "SNOW",
   tag |-> None, private |-> <<>>, uid |-> 5, number |-> 300, channels |-> 2,
   freq |-> 44100, outputFreq |-> 0, bits |-> 16, block |-> 0, frames |-> 0, base |-> <<1, 1000>>,
   encodings |-> <<>>, setup |-> {<<>>}, stream |-> <<>>,
   samples |-> <<[stored |-> <<2, 9>>, whole |-> <<2, 9>>, type |-> 2, skippable |-> FALSE],
                 [stored |-> <<3, 9>>, whole |-> <<3, 9>>, type |-> 3, skippable |-> TRUE]>>,
   pix |-> "YUV420P", width |-> 2, height |-> 2, lines |-> <<2, 1, 1, 2>>, outLineSize |-> 6]

Video(id, name, private, setup) ==
  [Plain EXCEPT !.codecID = id, !.codec = name, !.private = private, !.setup = {setup}]

\* Samples without the header they all begin with.
Stripping(t, header) ==
  [t EXCEPT !.encodings = <<[scope |-> 1, type |-> 0, algo |-> 3, settings |-> header]>>,
            !.samples = [i \in DOMAIN @ |->
                           [@[i] EXCEPT !.stored = SubSeq(@, Len(header) + 1, Len(@))]]]

-----------------------------------------------------------------------------
(* H.264: a byte for every syntax element, and a 3 where zeros would look like a start code *)
Zeros(bytes, i) == i - 1 - Max({0} \cup {j \in 1 .. i - 1 : bytes[j] # 0})

Escape(bytes) ==
  FlattenSeq([i \in DOMAIN bytes |->
                IF bytes[i] <= 3 /\ Zeros(bytes, i) \in {2 * k : k \in 1 .. Len(bytes)}
                THEN <<3, bytes[i]>> ELSE <<bytes[i]>>])

Nal(ref, type, payload) == <<32 * ref + type>> \o Escape(payload)

Sps0 == [profile |-> 66, level |-> 30, chroma |-> 1, scaling |-> <<0>>, frameNum |-> 5,
         poc |-> <<0, 2>>, gaps |-> 1, mbsOnly |-> 1,
         crop |-> <<0>>, vui |-> <<0>>, reorder |-> 0]

When(condition, bytes) == IF condition THEN bytes ELSE <<>>

Sps(f) ==
  Nal(3, 7, <<f.profile, 0, f.level, 0>>
              \o When(f.profile >= 100, <<f.chroma>> \o When(f.chroma = 3, <<0>>)
                                           \o <<0, 0, 0>> \o f.scaling)
              \o <<f.frameNum>> \o f.poc \o <<1, f.gaps, 4, 3, f.mbsOnly>>
              \o When(f.mbsOnly = 0, <<1>>)
              \o <<1>> \o f.crop \o f.vui \o <<128>>)

Hrd == <<1, 0, 0>> \o <<2, 3, 0>> \o <<4, 5, 1>> \o <<6, 7, 8, 9>>

\* The parts of the VUI parameters: those that are there, each behind its flag.
Vui(aspect, signal, timing, nalHrd, vclHrd, reorder) ==
  <<1>> \o aspect \o <<0>> \o signal \o <<0>> \o timing
    \o (IF nalHrd THEN <<1>> \o Hrd ELSE <<0>>) \o (IF vclHrd THEN <<1>> \o Hrd ELSE <<0>>)
    \o When(nalHrd \/ vclHrd, <<1>>) \o <<1>> \o <<1, 1, 0, 0, 9, 9, reorder, 4>>

Pps == Nal(3, 8, <<0, 0, 1, 1>>)

Sized(n, bytes) == [i \in 1 .. n |-> IF i = n THEN Len(bytes) ELSE 0] \o bytes

AvcC(f, n) ==
  <<1, f.profile, 0, f.level, 252 + n - 1, 225>> \o Sized(2, Sps(f)) \o <<1>> \o Sized(2, Pps)

Streams ==
  {Sps0, [Sps0 EXCEPT !.poc = <<1, 0, 1, 1, 2, 7, 7>>, !.mbsOnly = 0],
   [Sps0 EXCEPT !.vui = Vui(<<1, 1>>, <<0>>, <<0>>, FALSE, FALSE, 2), !.reorder = 2],
   [Sps0 EXCEPT !.profile = 100, !.poc = <<2>>, !.crop = <<1, 0, 0, 0, 4>>,
                !.scaling = <<1, 1, 248, 0, 1>> \o [i \in 1 .. 16 |-> 0]
                              \o <<0, 0, 0, 0, 1, 1, 247>>,
                !.vui = Vui(<<1, 255, 0, 9, 0, 9>>, <<1, 5, 0, 1, 2, 2, 2>>, <<1, 1, 9, 1>>,
                            FALSE, TRUE, 1),
                !.reorder = 1],
   [Sps0 EXCEPT !.profile = 244, !.chroma = 3, !.gaps = 0,
                !.vui = Vui(<<0>>, <<1, 5, 1, 0>>, <<0>>, TRUE, FALSE, 3), !.reorder = 3],
   [Sps0 EXCEPT !.vui = Vui(<<1, 4>>, <<0>>, <<1, 1, 0, 0>>, TRUE, TRUE, 1), !.reorder = 1]}

Fields(f, n) ==
  [profile_idc |-> f.profile, level_idc |-> f.level, log2_max_frame_num |-> f.frameNum + 4,
   poc_type |-> f.poc[1], gaps_in_frame_num_value_allowed_flag |-> f.gaps,
   frame_mbs_only_flag |-> f.mbsOnly, num_reorder_frames |-> f.reorder, pic_order_present_flag |-> 1,
   nal_length_size |-> n]

\* Frames: their NAL units, and the kind they are of, as the parser's own comments define
\* it: with any B slice a B frame, with any P slice else a P frame, and an I frame only
\* when decoding may begin at it.
Delimiter == Nal(0, 9, <<16, 128>>)
Sei       == Nal(0, 6, <<0, 0, 1, 128>>)
Slice(ref, type) == Nal(ref, 1, <<16 + type, 0, 0, 1, 77>>)

Frames ==
  <<[nals |-> <<Sps(Sps0), Pps, Nal(3, 5, <<23, 0, 9>>)>>, type |-> TypeI, skippable |-> FALSE],
    [nals |-> <<Delimiter, Sei, Slice(2, 5), Slice(2, 0)>>, type |-> TypeP, skippable |-> FALSE],
    [nals |-> <<Slice(0, 6), Slice(0, 1)>>, type |-> TypeB, skippable |-> TRUE],
    [nals |-> <<Delimiter, Slice(2, 7), Slice(1, 5)>>, type |-> TypeP, skippable |-> FALSE],
    [nals |-> <<Sei, Slice(0, 1)>>, type |-> TypeB, skippable |-> TRUE],
    [nals |-> <<Delimiter, Slice(3, 7)>>, type |-> TypeP, skippable |-> FALSE],
    [nals |-> <<Delimiter, Slice(1, 5), Slice(1, 6)>>, type |-> TypeB, skippable |-> FALSE]>>

Joined(nals, how(_)) == FoldLeft(LAMBDA s, nal : s \o how(nal), <<>>, nals)

FrameSample(f, bytes) ==
  [stored |-> bytes, whole |-> bytes, type |-> f.type, skippable |-> f.skippable]

\* Behind lengths of n bytes, and behind start codes.
LengthFrames(n) ==
  [i \in DOMAIN Frames |->
     FrameSample(Frames[i], Joined(Frames[i].nals, LAMBDA nal : Sized(n, nal)))]

\* A start code has a fourth byte before parameter sets and the first unit of a frame, and
\* may have one before the others.
StartCode(nal, long) == (IF long THEN <<0, 0, 0, 1>> ELSE <<0, 0, 1>>) \o nal

StartCodeFrames(allLong) ==
  [i \in DOMAIN Frames |->
     LET first == Frames[i].nals[1]
         code(nal) == StartCode(nal, allLong \/ nal = first \/ nal[1] % 32 \in {7, 8})
     IN FrameSample(Frames[i], Joined(Frames[i].nals, code))]

AVC(f, n) ==
  [Video("V_MPEG4/ISO/AVC", "H264", AvcC(f, n), AvcC(f, n)) EXCEPT
     !.stream = Fields(f, n), !.samples = LengthFrames(n)]

StartCodes(t, allLong) == [t EXCEPT !.codec = "H264", !.samples = StartCodeFrames(allLong)]

Image(fourcc, exts) == <<[dataFormat |-> fourcc, exts |-> exts]>>

\* A BITMAPINFOHEADER with the number of a four-character code.
Bitmap(fourcc) == [i \in 1 .. 40 |-> IF i = 20 THEN fourcc ELSE 0]

H264Tracks ==
  {AVC(f, 4) : f \in Streams} \cup
  {AVC(Sps0, 2), Stripping(AVC(CHOOSE f \in Streams : f.profile = 100, 4), <<0, 0>>),
   Stripping(AVC(Sps0, 4), <<0>>),
   [AVC(Sps0, 4) EXCEPT !.codecID = "V_MS/VFW/FOURCC", !.private = Bitmap(2) \o @],
   [AVC(Sps0, 2) EXCEPT !.codecID = "V_QUICKTIME",
                        !.private = Image("avc1", <<[type |-> "avcC", data |-> @]>>)],
   [AVC(Sps0, 4) EXCEPT !.importer = "libavformat"],
   StartCodes(Video("V_MPEG4/ISO/AVC", "H264", <<>>, <<>>), FALSE),
   StartCodes(Video("V_MS/VFW/FOURCC", "H264", Bitmap(2), <<>>), TRUE),
   StartCodes(Video("V_MS/VFW/FOURCC", "H264", Bitmap(3), <<>>), FALSE)}

LongSetup == [i \in 1 .. 20 |-> i]

Esds(vos) ==
  Image("mp4v", <<[type |-> "esds", data |-> CreateEsdsFromSetupData(vos, 300, FALSE, TRUE)]>>)

OtherVideoTracks ==
  {Video("V_QUICKTIME", "MPEG4", Esds(v), v) : v \in {LongSetup, <<7>>}} \cup
  {Video("V_MPEG4/ISO/SP", "MPEG4", <<7>>, <<7>>),
   Video("V_MPEG4/ISO/ASP", "MPEG4", <<>>, <<>>), Video("V_THEORA", "THEORA", <<1, 2>>, <<1, 2>>),
   Video("V_THEORA", "THEORA", <<>>, <<>>),
   Video("V_MS/VFW/FOURCC", "MPEG4", Bitmap(1) \o <<7, 8>>, <<7, 8>>),
   Video("V_MS/VFW/FOURCC", "MSMPEG4V3", Bitmap(4), <<>>),
   Video("V_MS/VFW/FOURCC", "MPEG2", Bitmap(5), <<>>),
   Video("V_MPEG1", "MPEG1", <<>>, <<>>),
   Stripping([Video("V_MPEG4/ISO/AP", "MPEG4", <<7, 8>>, <<7, 8>>) EXCEPT
                !.samples = <<Plain.samples[1]>>], <<2>>)}
  \cup {[Plain EXCEPT !.importer = "libavformat", !.codec = c[1], !.tag = c[2],
                       !.private = c[3], !.setup = {c[3]}]
          : c \in {<<"FLV1", None, <<>>>>, <<"MPEG4", "XVID", <<4, 5>>>>,
                 <<"MPEG4", None, <<6>>>>}}

-----------------------------------------------------------------------------
Sound(id, name, private, setup) ==
  [Video(id, name, private, setup) EXCEPT !.kind = "audio", !.samples = <<Plain.samples[1]>>]

Numbered(n, from) == [i \in 1 .. n |-> from + i]

\* Three packets of these sizes behind the laces of the first two.
Vorbis(a, b, c) ==
  LET private == <<2>> \o av_xiphlacing(a) \o av_xiphlacing(b)
                   \o Numbered(a, 20) \o Numbered(b, 40) \o Numbered(c, 60)
  IN Sound("A_VORBIS", "VORBIS", private, private)

StreamInfo == <<0, 0, 0, 4, 1, 2, 3, 4>>
LastBlock  == <<128 + 4, 0, 0, 2, 8, 9>>

AAC(id, private, vos) == Sound(id, "AAC", private, vos)

WaveCookie(extradata) == AtomOf(20, Numbered(18, 0) \o extradata)

DTS(channels) == [Sound("A_DTS", "DTS", <<>>, <<>>) EXCEPT !.channels = channels]

\* Streams of AVI and FLV files: with packets of one size, of any, or of one size as it
\* seems, and lasting a unit of the time base.
Lavf(c, block, frames, base) ==
  [Sound("", c, <<>>, <<>>) EXCEPT !.importer = "libavformat", !.block = block, !.frames = frames,
                                   !.base = base]

SoundTracks ==
  {Vorbis(4, 3, 5), Vorbis(1, 2, 1), Vorbis(7, 6, 9),
   [Sound("A_FLAC", None, <<102, 76, 97, 67>> \o StreamInfo \o LastBlock, <<>>) EXCEPT
      !.setup = {StreamInfo \o LastBlock}],
   AAC("A_AAC/MPEG4/LC", <<>>, <<18, 16>>), AAC("A_AAC", <<33, 9>>, <<33, 9>>),
   [AAC("A_AAC/MPEG4/LC/SBR", <<>>, <<19, 144, 86, 229, 160>>) EXCEPT
      !.freq = 22050, !.outputFreq = 44100],
   [AAC("A_AAC/MPEG2/MAIN", <<1, 2, 3, 4, 5>>, <<9, 176>>) EXCEPT !.freq = 48000, !.channels = 6],
   [AAC("A_AAC/MPEG4/LTP", <<>>, <<>>) EXCEPT
      !.freq = 96000, !.channels = 1, !.outputFreq = 96000,
      !.setup = {<<32, 8>>, <<32, 8, 86, 229, 128>>}],
   [AAC("A_AAC", LongSetup, LongSetup) EXCEPT !.importer = "libavformat"],
   Sound("A_MS/ACM", "MP3", <<85, 0>> \o Numbered(16, 0), <<>>),
   Sound("A_MPEG/L2", "MP2", <<>>, <<>>), Stripping(DTS(6), <<2>>), DTS(5), DTS(4), DTS(3), DTS(2),
   Stripping(Sound("A_MPEG/L3", "MP3", <<>>, <<>>), <<2>>)}
  \cup {[Sound("", c, WaveCookie(<<5, 6, 7, 8, 9>>), <<5, 6, 7, 8, 9>>) EXCEPT
            !.importer = "QuickTime", !.tag = t]
          : <<c, t>> \in {<<"WMAV1", "WMA1">>, <<"TTA", "TTA1">>}}
  \cup {[Sound("", c, <<5, 6, 7, 8, 9>>, <<5, 6, 7, 8, 9>>) EXCEPT !.importer = "libavformat"]
          : c \in {"WMAV2"}}
  \cup {Lavf("ADPCM_SWF", 4, 0, <<1, 1000>>), Lavf("DTS", 2012, 512, <<32, 3>>),
        Lavf("MP3", 0, 1152, <<1152, 44100>>), Lavf("PCM_S16LE", 4, 0, <<1, 44100>>),
        [Lavf("MP2", 0, 0, <<1, 1000>>) EXCEPT !.channels = 0]}

-----------------------------------------------------------------------------
\* Pictures: lines of a multiple of RegisterBytes bytes or not, sizes odd and even.
Picture(f, w, h, line, uv) ==
  [Plain EXCEPT !.pix = f, !.width = w, !.height = h, !.lines = <<line, uv, uv, line>>,
                !.outLineSize = OnScreen(f) * w + 2]

Pictures ==
  {Picture(f, 10, 3, 12, 8) : f \in Subsampled} \cup
  {Picture(f, 19, 2, 20, 12) : f \in Subsampled} \cup
  {Picture(f, s[1], s[2], s[1] + 2, s[1]) :
     f \in Subsampled \cup {"YUV422P", "YUVA420P"}, s \in {<<4, 3>>, <<5, 2>>}} \cup
  {Picture(f, 4, 3, 10, 6) : f \in DeepFormats} \cup
  {Picture("YUV410P", 8, 5, 10, 3), Picture("YUV410P", 6, 4, 6, 2)} \cup
  {Picture(f, 3, 2, 3 * OnScreen(f) + p, 0) : f \in DOMAIN ByteOf, p \in {0, 1}} \cup
  {Picture("PAL8", 2, 2, 2, 2)}

MCTracks == H264Tracks \cup OtherVideoTracks \cup SoundTracks \cup Pictures

MCPreferences ==
  [decodeAllProfiles : BOOLEAN, preferAppleCodecs : BOOLEAN, playHighFreqSBR : BOOLEAN,
   process : {[name |-> name, minor |-> 6, lists |-> [key \in {} |-> ""]] : name \in {"iChat", "Finder"}}]

\* No decoder was asked yet, or one about a stream of another rate and number of channels.
MCEarlier == {sEmpty, ASBD(8000, "NELL", {}, 0, 0, 0, 1, 0)}

MCComponents == <<"FFusion", "Apple">>
=============================================================================
