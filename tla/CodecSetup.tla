------------------------------ MODULE CodecSetup ------------------------------
(***************************************************************************)
(* The set-up data of a codec on its way from the file to libavcodec: the  *)
(* importers wrap it as QuickTime wants it (MatroskaCodecIDs.cpp,          *)
(* ff_private.c), the codecs take it out again (CommonUtils.c,             *)
(* FFusionCodec.c, FFissionDecoder.cpp).                                   *)
(*                                                                         *)
(* A track is what the file says of it; its private data are <<>> when it  *)
(* has none.  A description is what QuickTime is given: the format, the    *)
(* extensions of an image description, and the cookie of a sound one.      *)
(* Four-character codes have names; in private data KnownFourCCs numbers   *)
(* them, and the types of a cookie's atoms are small numbers.              *)
(***************************************************************************)
EXTENDS BitstreamInfo

CONSTANTS
  LaceMax,     \* 255: a byte of a Xiph lace that says the size goes on
  DescrBase    \* 128: the values of the digits of an MPEG-4 descriptor's size

ASSUME SetupAssumption == LaceMax \in Nat \ {0} /\ DescrBase \in Nat \ {0, 1}

None == "none"

BE32(n) == <<0, 0, n \div 256, n % 256>>

AtomOf(type, data) == BE32(Len(data) + 8) \o BE32(type) \o data

kCookieTypeOggSerialNo     == 1
kCookieTypeVorbisHeader    == 2
kCookieTypeVorbisComments  == 3
kCookieTypeVorbisCodebooks == 4
kCookieTypeFLACStreaminfo  == 5
kCookieTypeFLACMetadata    == 6
kCompressionAlgorithm      == 7
kCompressionSettingsExtension == 8
CookieInside               == 9   \* 'CpCk'

\* An AudioStreamBasicDescription; 0, None and {} are wildcards.
ASBD(rate, id, flags, packetBytes, packetFrames, frameBytes, channels, bits) ==
  [mSampleRate |-> rate, mFormatID |-> id, mFormatFlags |-> flags,
   mBytesPerPacket |-> packetBytes, mFramesPerPacket |-> packetFrames,
   mBytesPerFrame |-> frameBytes, mChannelsPerFrame |-> channels, mBitsPerChannel |-> bits]

sEmpty == ASBD(0, None, {}, 0, 0, 0, 0, 0)

NoDescription == [err |-> FALSE, dataFormat |-> None, exts |-> <<>>, cookie |-> <<>>,
                  format |-> sEmpty, layout |-> <<>>]

Present(desc, type) == \E i \in DOMAIN desc.exts : desc.exts[i].type = type

AddExtension(desc, type, data) == [desc EXCEPT !.exts = Append(@, [type |-> type, data |-> data])]

\* The first extension of a type (GetImageDescriptionExtension).
Extension(desc, type) ==
  desc.exts[First({i \in DOMAIN desc.exts : desc.exts[i].type = type}, 0)].data

-----------------------------------------------------------------------------
\* Private data that become an extension as they are.  Without any there may be
\* another format for streams that bring their own headers.
DescExt_Default(t, desc, extType, fallbackType) ==
  CASE t.private # <<>>                          -> AddExtension(desc, extType, t.private)
    [] t.private = <<>> /\ fallbackType # None   -> [desc EXCEPT !.dataFormat = fallbackType]
    [] OTHER                                     -> [desc EXCEPT !.err = TRUE]

\* A laced size from place i on, and the place behind it.
LacedSize(p, i) ==
  LET last == First({j \in i .. Len(p) : p[j] < LaceMax}, Len(p))
  IN [size |-> FoldLeft(LAMBDA a, b : a + b, 0, SubSeq(p, i, last)), next |-> last + 1]

\* Faulty: the size of the last packet is counted with the laces before it.
DescExt_XiphVorbisLacesIn(t, cookie) ==
  LET p      == t.private
      first  == LacedSize(p, 2)
      second == LacedSize(p, first.next)
      at     == second.next
      third  == Len(p) - 1 - first.size - second.size
      Packet(start, size) == SubSeq(p, start, Lesser(Len(p), start + size - 1))
  IN IF p = <<>> THEN cookie
     ELSE AtomOf(kCookieTypeOggSerialNo, BE32(t.uid))
            \o AtomOf(kCookieTypeVorbisHeader, Packet(at, first.size))
            \o AtomOf(kCookieTypeVorbisComments, Packet(at + first.size, second.size))
            \o BE32(third + 8) \o BE32(kCookieTypeVorbisCodebooks)
            \o Packet(at + first.size + second.size, third)

\* Three packets behind their number and the laces of the first two become atoms.  Any
\* error leaves the cookie as it was.
DescExt_XiphVorbis(t, cookie) ==
  LET p      == t.private
      first  == LacedSize(p, 2)
      second == LacedSize(p, first.next)
      at     == second.next
      third  == Len(p) - 1 - first.size - second.size - (at - 2)
      Packet(start, size) == SubSeq(p, start, start + size - 1)
  IN IF p = <<>> \/ At(p, 1) + 1 # 3 \/ third < 0 THEN cookie
     ELSE AtomOf(kCookieTypeOggSerialNo, BE32(t.uid))
            \o AtomOf(kCookieTypeVorbisHeader, Packet(at, first.size))
            \o AtomOf(kCookieTypeVorbisComments, Packet(at + first.size, second.size))
            \o AtomOf(kCookieTypeVorbisCodebooks, Packet(at + first.size + second.size, third))

\* The metadata blocks from place i on, each with its own head, up to the last one.
RECURSIVE FlacAtoms(_, _)
FlacAtoms(p, i) ==
  LET size == BigEndian(p, i + 1, 3) + 4
      type == IF At(p, i) % 128 = 0 THEN kCookieTypeFLACStreaminfo ELSE kCookieTypeFLACMetadata
  IN IF size > Len(p) - i + 1 THEN <<>>
     ELSE AtomOf(type, SubSeq(p, i, i + size - 1))
            \o (IF p[i] >= 128 THEN <<>> ELSE FlacAtoms(p, i + size))

DescExt_XiphFLAC(t, cookie) ==
  IF t.private = <<>> THEN cookie
  ELSE AtomOf(kCookieTypeOggSerialNo, BE32(t.uid)) \o FlacAtoms(t.private, 5)

-----------------------------------------------------------------------------
kMatroskaAACProfiles ==
  [MAIN |-> {"A_AAC/MPEG2/MAIN", "A_AAC/MPEG4/MAIN"},
   LC   |-> {"A_AAC/MPEG2/LC", "A_AAC/MPEG2/LC/SBR", "A_AAC/MPEG4/LC", "A_AAC/MPEG4/LC/SBR"},
   SSR  |-> {"A_AAC/MPEG2/SSR", "A_AAC/MPEG4/SSR"},
   LTP  |-> {"A_AAC/MPEG4/LTP"}]

AACProfile(codecID) ==
  CASE codecID \in kMatroskaAACProfiles.MAIN -> 1
    [] codecID \in kMatroskaAACProfiles.SSR  -> 3
    [] codecID \in kMatroskaAACProfiles.LTP  -> 4
    [] OTHER                                 -> 2

kAACFrequencyIndexes ==
  <<96000, 88200, 64000, 48000, 44100, 32000, 24000, 22050, 16000, 12000, 11025, 8000, 7350>>

FindAACFreqIndex(freq) == First({i \in 0 .. 12 : kAACFrequencyIndexes[i + 1] = freq}, 15)

ShouldWriteSBRExt(index, playHighFreqSBR) == index < 3 => playHighFreqSBR

\* Two bytes: five bits of profile, four of frequency and four of channels; three more
\* for the frequency of what comes out.
RecreateAACVOS(t, playHighFreqSBR) ==
  LET freq   == FindAACFreqIndex(t.freq)
      output == FindAACFreqIndex(t.outputFreq)
  IN <<8 * AACProfile(t.codecID) + freq \div 2, (128 * (freq % 2)) + ((8 * t.channels) % 128)>>
       \o (IF t.outputFreq = 0 \/ ~ShouldWriteSBRExt(output, playHighFreqSBR) THEN <<>>
           ELSE <<86, 229, 128 + 8 * output>>)

\* The digits of a size: those before the last have the bit above them set.
Digits(n) == First({i \in 1 .. 4 : n \div (DescrBase ^ i) = 0}, 5)

descrLength(len) == len + 1 + Digits(len)

putDescr(tag, size) ==
  LET more == descrLength(size) - size - 2
      digit(k) == (size \div (DescrBase ^ (more + 1 - k))) % DescrBase
  IN <<tag>> \o [k \in 1 .. more |-> digit(k) + DescrBase]
       \o <<size % DescrBase>>

CreateEsdsFromSetupData(vos, trackID, audio, write_version) ==
  LET specific == IF vos = <<>> THEN 0 ELSE descrLength(Len(vos))
  IN (IF write_version THEN BE32(0) ELSE <<>>)
       \o putDescr(3, 3 + descrLength(13 + specific) + descrLength(1))
       \o <<trackID \div 256, trackID % 256, 0>>
       \o putDescr(4, 13 + specific)
       \o (IF audio THEN <<64, 21>> ELSE <<32, 17>>) \o [i \in 1 .. 11 |-> 0]
       \o (IF vos = <<>> THEN <<>> ELSE putDescr(5, Len(vos)) \o vos)
       \o putDescr(6, 1) \o <<2>>

\* Set-up data of more than two bytes tell of SBR, and are made again.
DescExt_aac(t, playHighFreqSBR) ==
  LET vos == IF t.private = <<>> \/ Len(t.private) > 2 THEN RecreateAACVOS(t, playHighFreqSBR)
             ELSE t.private
  IN CreateEsdsFromSetupData(vos, t.number, TRUE, FALSE)

-----------------------------------------------------------------------------
\* The formats of Matroska's codecs, one of RealVideo's and none of those that need
\* no set-up data of the kinds below (PCM, RealAudio, WavPack, subtitles).
kMatroskaCodecIDs ==
  {<<"mp4v", {"V_MPEG4/ISO/ASP", "V_MPEG4/ISO/SP", "V_MPEG4/ISO/AP"}>>,
   <<"avc1", {"V_MPEG4/ISO/AVC"}>>, <<"MP43", {"V_MPEG4/MS/V3"}>>, <<"MPEG", {"V_MPEG1"}>>,
   <<"MPG2", {"V_MPEG2"}>>,
   <<"RV40", {"V_REAL/RV40"}>>, <<"PeTh", {"V_THEORA"}>>, <<"SNOW", {"V_SNOW"}>>,
   <<"VP80", {"V_VP8"}>>,
   <<"mp4a", {"A_AAC"} \cup UNION {kMatroskaAACProfiles[p] : p \in DOMAIN kMatroskaAACProfiles}>>,
   <<".mp1", {"A_MPEG/L1"}>>, <<".mp2", {"A_MPEG/L2"}>>, <<".mp3", {"A_MPEG/L3"}>>,
   <<"ac-3", {"A_AC3", "A_AC3/BSID9", "A_AC3/BSID10"}>>, <<"DTS ", {"A_DTS"}>>,
   <<"XiVs", {"A_VORBIS"}>>, <<"XiFL", {"A_FLAC"}>>, <<"TTA1", {"A_TTA1"}>>}

\* The four-character codes by their numbers in private data.
KnownFourCCs == <<"XVID", "H264", "avc1", "MP43", "MPG2">>

kWavCodecIDs ==
  {<<".mp2", 80>>, <<".mp3", 85>>, <<"ac-3", 8192>>, <<"DTS ", 8193>>, <<"mp4a", 255>>,
   <<"XiFL", 61868>>}

\* Image descriptions in private data are one token.
MkvGetFourCC(t) ==
  LET p      == t.private
      twocc  == At(p, 1) + 256 * At(p, 2)
      byTwo  == {c \in kWavCodecIDs : c[2] = twocc}
      byName == {c \in kMatroskaCodecIDs : t.codecID \in c[2]}
      FormatOf(found, otherwise) ==
        IF found = {} THEN otherwise ELSE (CHOOSE c \in found : TRUE)[1]
  IN CASE t.codecID = "V_MS/VFW/FOURCC" -> IF Len(p) <= 19 THEN None ELSE KnownFourCCs[p[20]]
       [] t.codecID = "A_MS/ACM"        -> IF Len(p) <= 2 THEN None ELSE FormatOf(byTwo, "ms")
       [] t.codecID = "V_QUICKTIME"     -> IF p = <<>> THEN None ELSE p[1].dataFormat
       [] OTHER                         -> FormatOf(byName, None)

MkvFinishSampleDescription(t, desc) ==
  CASE t.codecID = "V_MS/VFW/FOURCC" -> AddExtension(desc, "strf", t.private)
    [] t.codecID = "V_QUICKTIME"     -> IF t.private = <<>> THEN [desc EXCEPT !.err = TRUE]
                                        ELSE [desc EXCEPT !.exts = t.private[1].exts]
    [] t.codecID \notin {"V_MS/VFW/FOURCC", "V_QUICKTIME"} ->
         CASE desc.dataFormat = "avc1" -> DescExt_Default(t, desc, "avcC", "H264")
           [] desc.dataFormat = "mp4v" -> DescExt_Default(t, desc, "esds", "XVID")
           [] desc.dataFormat = "RV40" -> DescExt_Default(t, desc, "RealVideo", None)
           [] desc.dataFormat = "PeTh" -> DescExt_Default(t, desc, "PeTh", None)
           [] OTHER                    -> desc

\* What goes wrong with the cookie goes unheard.
MkvFinishAudioDescription(t, desc, playHighFreqSBR) ==
  LET cookie == IF t.codecID = "A_MS/ACM" THEN t.private ELSE <<>>
  IN [desc EXCEPT !.cookie = CASE desc.dataFormat = "XiVs" -> DescExt_XiphVorbis(t, cookie)
                               [] desc.dataFormat = "XiFL" -> DescExt_XiphFLAC(t, cookie)
                               [] desc.dataFormat = "mp4a" -> DescExt_aac(t, playHighFreqSBR)
                               [] OTHER                    -> cookie]

\* Formats whose samples may lack the header they have in common.
compressStreamFourCC(original) ==
  CASE original = "avc1" -> "CAVC" [] original = "mp4v" -> "CMP4" [] original = ".mp3" -> "CMP3"
    [] original = ".mp2" -> "CMP2" [] original = ".mp1" -> "CMP1" [] original = "ac-3" -> "CAC3"
    [] original = "DTS " -> "CDTS" [] OTHER -> None

CompressedFormats == {"CAVC", "CMP4", "CMP3", "CMP2", "CMP1", "CAC3", "CDTS"}

originalStreamFourCC(compress) ==
  CASE compress = "CAVC" -> "avc1" [] compress = "CMP4" -> "mp4v" [] compress = "CMP3" -> ".mp3"
    [] compress = "CMP2" -> ".mp2" [] compress = "CMP1" -> ".mp1" [] compress = "CAC3" -> "ac-3"
    [] compress = "CDTS" -> "DTS " [] OTHER -> None

\* A track's first encoding counts when it is of all frames, and a compression.
Compressed(t, format) ==
  /\ t.encodings # <<>> /\ t.encodings[1].scope = 1 /\ t.encodings[1].type = 0
  /\ compressStreamFourCC(format) # None

AddVideoTrack(t) ==
  LET desc == MkvFinishSampleDescription(t, [NoDescription EXCEPT !.dataFormat = MkvGetFourCC(t)])
      enc  == t.encodings[1]
      told == AddExtension([desc EXCEPT !.dataFormat = compressStreamFourCC(@)],
                           "CpAl", <<enc.algo>>)
  IN CASE desc.err \/ ~Compressed(t, desc.dataFormat) -> desc
       [] OTHER -> IF enc.settings = <<>> THEN told
                   ELSE AddExtension(told, "CpSt", enc.settings)

-----------------------------------------------------------------------------
\* The libavformat importer: a stream's extradata are the track's private data, its
\* codec has libavcodec's name, and the container may have given it a tag.
map_video_codec_to_mov_tag(codec) ==
  CASE codec = "FLV1" -> "FLV1" [] codec = "VP6F" -> "VP6F" [] codec = "FLASHSV" -> "FSV1"
    [] codec = "VP6A" -> "VP6A" [] OTHER -> None

forced_map_video_codec_to_mov_tag(codec) ==
  CASE codec = "H264" -> "H264" [] codec = "MPEG4" -> "MP4S" [] OTHER -> None

\* A BITMAPINFOHEADER of 40 bytes, the extradata behind it.
BitmapInfoHeader == [i \in 1 .. 40 |-> 0]
create_strf_ext(t) == BitmapInfoHeader \o t.private

initialize_video_map(t) ==
  LET mapped == map_video_codec_to_mov_tag(t.codec)
      named  == IF mapped # None THEN mapped
                ELSE IF t.tag # None THEN t.tag ELSE forced_map_video_codec_to_mov_tag(t.codec)
  IN AddExtension([NoDescription EXCEPT !.dataFormat = named], "strf", create_strf_ext(t))

kAudioCodecMap ==
  <<<<"WMA1", "WMAV1">>, <<"WMA2", "WMAV2">>, <<"FlAd", "ADPCM_SWF">>, <<"XiVs", "VORBIS">>,
    <<".mp1", "MP1">>, <<".mp2", "MP2">>, <<".mp3", "MP3">>, <<"ms50", "MP2">>,
    <<"DTS ", "DTS">>, <<"NELL", "NELLYMOSER">>, <<"TTA1", "TTA">>, <<"ac-3MS", "AC3">>,
    <<"lpcm", "PCM_S16LE">>, <<"lpcm", "PCM_U8">>, <<"alaw", "PCM_ALAW">>,
    <<"ulaw", "PCM_MULAW">>, <<"ms02", "ADPCM_MS">>, <<"mp4a", "AAC">>>>

\* The other side of the first pair with x on side k.
Paired(x, k) ==
  LET i == First({j \in DOMAIN kAudioCodecMap : kAudioCodecMap[j][k] = x}, 0)
  IN IF i = 0 THEN None ELSE kAudioCodecMap[i][3 - k]

FFFourCCToCodecID(format) == Paired(format, 1)

FFCodecIDToFourCC(codec) == Paired(codec, 2)

LE16(n) == <<n % 256, (n \div 256) % 256>>
LE32(n) == LE16(n) \o LE16(n \div 65536)

\* An esds of AAC.  Of any other codec an atom with a WAVEFORMATEX, which takes four
\* bytes more than are allowed for: the last of the extradata are cut off.
create_cookie(t, format) ==
  LET waveSize == 18 + Len(t.private) + 8
  IN IF format = "mp4a" THEN CreateEsdsFromSetupData(t.private, 1, TRUE, FALSE)
     ELSE SubSeq(BE32(waveSize) \o BE32(0) \o LE32(0) \o LE32(t.channels) \o LE32(t.freq)
                   \o LE32(0) \o LE16(t.block) \o LE16(t.bits) \o LE16(Len(t.private)) \o t.private,
                 1, waveSize)

map_avi_to_mov_tag(codec) == IF codec = "VORBIS" THEN "OggV" ELSE FFCodecIDToFourCC(codec)

-----------------------------------------------------------------------------
\* A descriptor's tag, the size behind it, of four digits at most, and where it goes on.
readDescr(b, at) ==
  LET last == First({i \in at + 1 .. at + 4 : (At(b, i) \div DescrBase) % 2 = 0}, at + 4)
  IN [tag |-> At(b, at), next |-> last + 1,
      len |-> FoldLeft(LAMBDA n, i : (n * DescrBase) + (At(b, i) % DescrBase), 0,
                       [i \in 1 .. last - at |-> at + i])]

\* The decoder's own data in an esds atom, <<>> when there are none.
ReadESDSDescExt(b) ==
  LET es       == readDescr(b, 5)
      config   == readDescr(b, es.next + 2 + (IF es.tag = 3 THEN 1 ELSE 0))
      specific == readDescr(b, config.next + 13)
  IN IF config.tag = 4 /\ specific.tag = 5 /\ specific.next + specific.len - 1 <= Len(b)
     THEN SubSeq(b, specific.next, specific.next + specific.len - 1) ELSE <<>>

\* What FFusionCodecPreflight makes the extradata.
DescribedSetup(componentType, desc) ==
  LET data(type) == IF Present(desc, type) THEN Extension(desc, type) ELSE <<>>
      strf       == data("strf")
  IN CASE componentType = "avc1" -> data("avcC")
       [] componentType = "mp4v" -> IF Present(desc, "esds") THEN ReadESDSDescExt(data("esds"))
                                    ELSE <<>>
       [] componentType = "PeTh" -> data("PeTh")
       [] OTHER                  -> SubSeq(strf, 41, Len(strf))

\* The codec of a component type (codecList.m4).
getCodecID(componentType) ==
  CASE componentType \in {"XVID", "MP4S", "DIVX", "DX50", "mp4v"} -> "MPEG4"
    [] componentType \in {"H264", "avc1"}                         -> "H264"
    [] componentType \in {"mp1v", "MPEG"}                         -> "MPEG1"
    [] componentType \in {"mp2v", "MPG2"}                         -> "MPEG2"
    [] componentType = "MP43"                                     -> "MSMPEG4V3"
    [] componentType = "PeTh"                                     -> "THEORA"
    [] componentType \in {"FLV1", "VP6F", "SNOW"}                 -> componentType
    [] componentType = "VP80"                                     -> "VP8"
    [] componentType = "FSV1"                                     -> "FLASHSV"
    [] OTHER                                                      -> None

DefaultPackedTypeForCodec(codec) ==
  IF codec \in {"MPEG", "MPG2", "mp4v", "avc1"} THEN "QUICKTIME_KNOWS_ORDER"
  ELSE "ALL_IN_FIRST_FRAME"

-----------------------------------------------------------------------------
\* The audio decoder's side.
CodecRequiresExtradata(format) == format \in {"WMA1", "WMA2", "XiVs", "TTA1"}

\* The atoms of a cookie from place `at' on.
RECURSIVE CookieAtoms(_, _)
CookieAtoms(c, at) ==
  LET size == BigEndian(c, at, 4) - 8
      data == SubSeq(c, at + 8, Lesser(Len(c), at + 7 + size))
  IN IF at > Len(c) THEN <<>>
     ELSE <<[type |-> BigEndian(c, at + 4, 4), size |-> size, data |-> data]>>
            \o (IF size < 0 THEN <<>> ELSE CookieAtoms(c, at + 8 + size))

LastOf(atoms) == IF atoms = <<>> THEN [size |-> 0, data |-> <<>>] ELSE Last(atoms)

\* The last atom of a type, one of no size when there is none.
AtomIn(c, type) == LastOf(SelectSeq(CookieAtoms(c, 1), LAMBDA a : a.type = type))

av_xiphlacing(n) == [i \in 1 .. n \div LaceMax |-> LaceMax] \o <<n % LaceMax>>

\* The packets laced again as libavcodec wants them; <<>> when one is missing.
Laced(header, comments, codebooks) ==
  IF header.size <= 0 \/ comments.size <= 0 \/ codebooks.size <= 0 THEN <<>>
  ELSE <<2>> \o av_xiphlacing(header.size) \o av_xiphlacing(comments.size)
         \o header.data \o comments.data \o codebooks.data

ConvertXiphVorbisCookie(c) ==
  Laced(AtomIn(c, kCookieTypeVorbisHeader), AtomIn(c, kCookieTypeVorbisComments),
        AtomIn(c, kCookieTypeVorbisCodebooks))

\* SetupExtradata: what libavcodec is given of a cookie, and what becomes of the cookie.
WithLaced(a, laced) ==
  [a EXCEPT !.extradata = laced, !.cookie = IF laced = <<>> THEN @ ELSE laced]

SetupExtradata(a, format) ==
  CASE format \in {"WMA1", "WMA2", "TTA1"} /\ Len(a.cookie) >= 46 ->
         [a EXCEPT !.extradata = SubSeq(a.cookie, 39, Len(a.cookie) - 8)]
    [] format = "XiVs" /\ a.cookie # <<>> -> WithLaced(a, ConvertXiphVorbisCookie(a.cookie))
    [] OTHER                              -> a

\* The header of a stream whose samples lack it (CompressAudioCodec::ParseCookie): an
\* atom that does not fit ends the cookie.
StrippedHeader(c) == AtomIn(c, kCompressionSettingsExtension).data
InnerCookie(c)    == AtomIn(c, CookieInside).data
=============================================================================
