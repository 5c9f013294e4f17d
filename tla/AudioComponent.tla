---------------------------- MODULE AudioComponent ----------------------------
(***************************************************************************)
(* An audio decoder as CoreAudio sees it: a component that is opened,      *)
(* told formats and a cookie, asked for its properties, initialised and    *)
(* uninitialised.  Above is Apple's framework (ComponentBase.cpp,          *)
(* ACCodec.cpp, ACBaseCodec.cpp, CAStreamBasicDescription.cpp), below are  *)
(* Perian's classes: FFissionCodec, FFissionDecoder, the FFissionVBRDecoder*)
(* for packets of no fixed size, and CompressAudioCodec around a decoder.  *)
(*                                                                         *)
(* A call gives what it returns and the component it leaves behind, also   *)
(* when it throws.  In a stream description 0, None and {} are wildcards.  *)
(***************************************************************************)
EXTENDS CodecSetup

Wildcard(field) == sEmpty[field]

\* Four-character codes in the order of their numbers.
CodeOrder ==
  <<".mp1", ".mp2", ".mp3", "CAC3", "CDTS", "CMP1", "CMP2", "CMP3", "DTS ", "FlAd", "NELL",
    "TTA1", "XiFL", "XiVs", "ac-3", "lpcm", "mp4a", "ms50", "WMA1", "WMA2", "ac-3MS">>

Code(id) == First({i \in DOMAIN CodeOrder : CodeOrder[i] = id}, 0)

\* operator<: the first of these that both formats have, and not the same, decides.
Less(x, y) ==
  LET Differ(field) == x[field] # y[field] /\ Wildcard(field) \notin {x[field], y[field]}
      pcm == x.mFormatID = "lpcm" /\ y.mFormatID = "lpcm"
      OneHas(flag) == pcm /\ (flag \in x.mFormatFlags) # (flag \in y.mFormatFlags)
  IN CASE Differ("mFormatID")         -> \/ x.mFormatID = "lpcm"
                                         \/ /\ y.mFormatID # "lpcm"
                                            /\ Code(x.mFormatID) < Code(y.mFormatID)
       [] OneHas("nonmixable")        -> "nonmixable" \in y.mFormatFlags
       [] OneHas("float")             -> "float" \in y.mFormatFlags
       [] Differ("mBitsPerChannel")   -> x.mBitsPerChannel < y.mBitsPerChannel
       [] Differ("mSampleRate")       -> x.mSampleRate < y.mSampleRate
       [] Differ("mChannelsPerFrame") -> x.mChannelsPerFrame < y.mChannelsPerFrame
       [] OTHER                       -> FALSE

\* Flags that say nothing of linear PCM are left out.
MatchFormatFlags(x, y) ==
  LET both   == x.mFormatFlags \cap y.mFormatFlags
      unsaid == {"clear"} \cup (IF "packed" \in both THEN {"high"} ELSE {})
                  \cup (IF "float" \in both THEN {"signed"} ELSE {})
                  \cup (IF x.mChannelsPerFrame = 1 /\ y.mChannelsPerFrame = 1
                        THEN {"noninterleaved"} ELSE {})
      Said(f) == (f.mFormatFlags \ unsaid)
                   \ (IF f.mBitsPerChannel <= 8 /\ "packed" \in f.mFormatFlags THEN {"big"} ELSE {})
  IN \/ None \in {x.mFormatID, y.mFormatID} \/ {} \in {x.mFormatFlags, y.mFormatFlags}
     \/ IF x.mFormatID = "lpcm" THEN Said(x) = Said(y) ELSE x.mFormatFlags = y.mFormatFlags

\* operator==
Matches(x, y) ==
  /\ \A field \in DOMAIN sEmpty \ {"mFormatFlags"} :
       x[field] = y[field] \/ Wildcard(field) \in {x[field], y[field]}
  /\ MatchFormatFlags(x, y)

FillOutFormat(format, template) ==
  [field \in DOMAIN format |->
     IF format[field] = Wildcard(field) THEN template[field] ELSE format[field]]

\* AddInputFormat and AddOutputFormat: at the place std::lower_bound finds.
AddFormat(list, format) ==
  IF \E i \in DOMAIN list : Matches(list[i], format) THEN list
  ELSE InsertAt(list, First({i \in DOMAIN list : ~Less(list[i], format)}, Len(list) + 1), format)

kAllInputFormats(class) ==
  IF class = "Compress" THEN <<"CAC3", "CMP1", "CMP2", "CMP3", "CDTS">>
  ELSE <<"WMA1", "WMA2", "FlAd", "XiVs", ".mp1", ".mp2", "ms50", "DTS ", "NELL",
         "TTA1">>

kIntPCMOutFormatFlag == {"signed", "packed"}

SupportedInputFormats(class) ==
  FoldLeft(LAMBDA list, id : AddFormat(list, ASBD(0, id, {}, 0, 1, 0, 0, 0)), <<>>,
           kAllInputFormats(class))

SupportedOutputFormats(class) ==
  AddFormat(<<>>, ASBD(0, "lpcm", kIntPCMOutFormatFlag, 0, 1, 0, 0, 16))

-----------------------------------------------------------------------------
(* The component and its initialisation *)

\* What an AVCodecContext says of the format.
NoContext == [codec_tag |-> None, sample_rate |-> 0, channels |-> 0, block_align |-> 0,
              frame_size |-> 0, bits_per_coded_sample |-> 0]

FFAVCodecContextToASBD(c) ==
  ASBD(c.sample_rate, c.codec_tag, {}, c.block_align, c.frame_size, 0, c.channels,
       c.bits_per_coded_sample)

FFASBDToAVCodecContext(f) ==
  [codec_tag |-> f.mFormatID, sample_rate |-> f.mSampleRate, channels |-> f.mChannelsPerFrame,
   block_align |-> f.mBytesPerPacket, frame_size |-> f.mFramesPerPacket,
   bits_per_coded_sample |-> f.mBitsPerChannel]

\* The audio decoders FFInitFFmpeg registers.
RegisteredDecoders ==
  {"WMAV1", "WMAV2", "ADPCM_SWF", "VORBIS", "MP1", "MP2", "TTA", "DTS", "NELLYMOSER", "AAC"}

FFissionClasses == {"FFission", "FFissionVBR"}

Decoder(class) ==
  [class |-> class, initialized |-> FALSE, inputFormat |-> sEmpty, outputFormat |-> sEmpty,
   cookie |-> <<>>, extradata |-> <<>>, context |-> NoContext, open |-> FALSE,
   fullChannelMap |-> <<0, 1, 2, 3, 4, 5>>,
   strippedHeader |-> <<>>, innerCookie |-> <<>>, actualUnit |-> <<>>]

Done(c)       == [err |-> "noErr", c |-> c]
Throws(e, c)  == [err |-> e, c |-> c]
After(r, F(_)) == IF r.err = "noErr" THEN F(r.c) ELSE r

CloseAVCodec(c) == [c EXCEPT !.open = FALSE]

\* The order the comments give: L R C LFE Ls Rs becomes C L R Ls Rs LFE.
ChannelMap(c) ==
  CASE c.inputFormat.mFormatID # "DTS "               -> c.fullChannelMap
    [] c.inputFormat.mChannelsPerFrame \in {3, 6}     -> <<1, 2, 0, 5, 3, 4>>
    [] c.inputFormat.mChannelsPerFrame \in {4, 5}     -> <<1, 2, 0, 3, 4, 5>>
    [] OTHER                                          -> c.fullChannelMap

\* ParseWaveFormat: the block's size in a WAVEFORMATEX behind two atoms' heads.
BlockAlign(c) ==
  IF c.inputFormat.mFormatID \in {"WMA1", "WMA2", "TTA1"} /\ Len(c.cookie) >= 46
  THEN c.cookie[33] + 256 * c.cookie[34] ELSE c.context.block_align

avcodec_open2(c) ==
  /\ FFFourCCToCodecID(c.inputFormat.mFormatID) \in RegisteredDecoders
  /\ c.inputFormat.mFormatID = "XiVs" => c.extradata # <<>>

OpenAVCodec(c) ==
  LET id    == c.inputFormat.mFormatID
      fresh == [CloseAVCodec(c) EXCEPT !.extradata = <<>>,
                                       !.context = FFASBDToAVCodecContext(c.inputFormat)]
      setup == [SetupExtradata(fresh, id) EXCEPT !.context.block_align = BlockAlign(fresh)]
  IN CASE ~c.initialized                                -> Throws("State", c)
       [] c.cookie = <<>> /\ CodecRequiresExtradata(id) -> Done(c)
       [] fresh.context.sample_rate = 0                 -> Throws("UnsupportedFormat", fresh)
       [] ~avcodec_open2(setup)                         -> Throws("UnsupportedFormat", setup)
       [] OTHER -> Done([setup EXCEPT !.open = TRUE, !.fullChannelMap = ChannelMap(c)])

SetCurrentInputFormat(c, format) ==
  CASE c.initialized        -> Throws("State", c)
    [] c.class = "Compress" -> Done([c EXCEPT !.inputFormat = format])
    [] FFFourCCToCodecID(format.mFormatID) \notin RegisteredDecoders ->
         Throws("UnsupportedFormat", CloseAVCodec(c))
    [] OTHER                -> Done([CloseAVCodec(c) EXCEPT !.inputFormat = format])

SetCurrentOutputFormat(c, format) ==
  CASE c.initialized -> Throws("State", c)
    [] /\ c.class \in FFissionClasses
       /\ <<format.mFormatID, format.mFormatFlags, format.mBitsPerChannel>>
            # <<"lpcm", kIntPCMOutFormatFlag, 16>> -> Throws("UnsupportedFormat", c)
    [] OTHER         -> Done([c EXCEPT !.outputFormat = format])

\* FFissionCodec::Initialize; sEmpty stands for the formats that are not given.
InitializeFormats(c, input, output) ==
  LET Given(format, Set(_, _), d) == IF format = sEmpty THEN Done(d) ELSE Set(d, format)
      Agree(d) == /\ d.inputFormat.mSampleRate = d.outputFormat.mSampleRate
                  /\ d.inputFormat.mChannelsPerFrame = d.outputFormat.mChannelsPerFrame
      Checked(d) == IF Agree(d) THEN Done([d EXCEPT !.initialized = TRUE])
                    ELSE Throws("UnsupportedFormat", d)
  IN After(After(Given(input, SetCurrentInputFormat, c),
                 LAMBDA d : Given(output, SetCurrentOutputFormat, d)),
           Checked)

\* FFissionDecoder has a new cookie even when an initialised one refuses it.
FFissionSetMagicCookie(c, cookie) ==
  IF c.initialized THEN Throws("State", [c EXCEPT !.cookie = cookie])
  ELSE Done([CloseAVCodec(c) EXCEPT !.cookie = cookie, !.extradata = <<>>])

FFissionInitialize(c, input, output, cookie) ==
  After(After(IF cookie = <<>> THEN Done(c) ELSE FFissionSetMagicCookie(c, cookie),
              LAMBDA d : InitializeFormats(d, input, output)),
        OpenAVCodec)

\* A decoder that is not Perian's takes what it is given.
OtherInitialize(c, input, output, cookie) ==
  Done([c EXCEPT !.initialized = TRUE, !.open = TRUE, !.inputFormat = input,
                 !.outputFormat = output, !.cookie = cookie])

\* The component registered for a format (codecList.m4).
ClassOf(id) ==
  CASE id \in {"WMA1", "WMA2", "FlAd"}                           -> "FFission"
    [] id \in {"XiVs", ".mp1", "ms50", ".mp2", "TTA1", "DTS ", "NELL"} -> "FFissionVBR"
    [] id \in CompressedFormats                                  -> "Compress"
    [] OTHER                                                     -> "other"

UnitInitialize(c, input, output, cookie) ==
  IF c.class \in FFissionClasses THEN FFissionInitialize(c, input, output, cookie)
  ELSE OtherInitialize(c, input, output, cookie)

\* CompressAudioCodec on to its unit, whose errors it does not look at.
InitializeUnit(c, unit, output) ==
  LET input == [c.inputFormat EXCEPT !.mFormatID = originalStreamFourCC(@)]
  IN [c EXCEPT !.actualUnit = <<UnitInitialize(unit, input, output, c.innerCookie).c>>]

ParseCookie(c, cookie) ==
  LET header == StrippedHeader(cookie)
      inner  == InnerCookie(cookie)
  IN [c EXCEPT !.strippedHeader = IF header = <<>> THEN @ ELSE header,
               !.innerCookie = IF inner = <<>> THEN @ ELSE inner]

\* ACBaseCodec's, which CompressAudioCodec calls behind its own, refuses the cookie of an
\* initialised codec; so Initialize with a cookie never gets to the unit.
CompressSetMagicCookie(c, cookie) ==
  LET parsed == ParseCookie(c, cookie)
  IN CASE c.initialized        -> Throws("State", parsed)
       [] c.actualUnit = <<>>  -> Done(parsed)
       [] OTHER                -> Done(InitializeUnit(parsed, c.actualUnit[1], c.outputFormat))

CompressInitialize(c, input, output, cookie) ==
  LET original(d) == originalStreamFourCC(d.inputFormat.mFormatID)
      Unit(d) ==
        CASE d.actualUnit # <<>>              -> Done(InitializeUnit(d, d.actualUnit[1], output))
          [] d.inputFormat.mFormatID = None   -> Done(d)
          [] original(d) = None               -> Throws("UnsupportedFormat", d)
          [] OTHER -> Done(InitializeUnit(d, Decoder(ClassOf(original(d))), output))
  IN After(After(InitializeFormats(c, input, output),
                 LAMBDA d : IF cookie = <<>> THEN Done(d) ELSE CompressSetMagicCookie(d, cookie)),
           Unit)

Initialize(c, input, output, cookie) ==
  IF c.class = "Compress" THEN CompressInitialize(c, input, output, cookie)
  ELSE UnitInitialize(c, input, output, cookie)

Uninitialize(c) ==
  [c EXCEPT !.initialized = FALSE,
            !.actualUnit = [i \in DOMAIN @ |-> [@[i] EXCEPT !.initialized = FALSE]]]

SetMagicCookie(c, cookie) ==
  CASE c.class = "Compress" -> CompressSetMagicCookie(c, cookie)
    [] c.class = "other"    -> Done([c EXCEPT !.cookie = cookie])
    [] OTHER                -> FFissionSetMagicCookie(c, cookie)

-----------------------------------------------------------------------------
(* The properties *)

Strings == {"NameCFString", "ManufacturerCFString", "FormatCFString"}
Words   == {"RequiresPacketDescription", "MinimumNumberInputPackets", "InputBufferSize",
            "MinimumNumberOutputPackets", "UsedInputBufferSize", "IsInitialized",
            "PrimeMethod", "DoesSampleRateConversion"}
PacketWords == {"MaximumPacketByteSize", "HasVariablePacketByteSizes", "PacketFrameSize"}
InputLists  == {"SupportedInputFormats", "InputFormatsForOutputFormat"}
OutputLists == {"SupportedOutputFormats", "OutputFormatsForInputFormat"}
Formats     == {"CurrentInputFormat", "CurrentOutputFormat"}
Properties  == Strings \cup Words \cup PacketWords \cup InputLists \cup OutputLists \cup Formats
                 \cup {"MagicCookie", "AvailableNumberChannels", "PrimeInfo", "FormatInfo"}

\* A size is what it is the size of, and of how many.
PropertySize(class, p) ==
  CASE p \in Strings               -> <<"string", 1>>
    [] p \in Words \cup PacketWords -> <<"UInt32", 1>>
    [] p \in Formats               -> <<"ASBD", 1>>
    [] p \in InputLists            -> <<"ASBD", Len(SupportedInputFormats(class))>>
    [] p \in OutputLists           -> <<"ASBD", Len(SupportedOutputFormats(class))>>
    [] p = "AvailableNumberChannels" -> <<"UInt32", 2>>
    [] p = "MagicCookie"           -> <<"byte", 0>>
    [] OTHER                       -> <<p, 1>>

GetPropertyInfo(c, p) ==
  IF p \in Properties
  THEN [err |-> "noErr", size |-> PropertySize(c.class, p),
        writable |-> p \in Formats \cup {"MagicCookie"}]
  ELSE [err |-> "UnknownProperty", size |-> <<"none", 0>>, writable |-> FALSE]

Answer(value) == [err |-> "noErr", written |-> TRUE, value |-> value]
Refusal(e)    == [err |-> e, written |-> FALSE, value |-> None]

SetProperty(c, p, size, value) ==
  CASE c.initialized                      -> Throws("IllegalOperation", c)
    [] p \in Formats /\ size # PropertySize(c.class, p) -> Throws("BadPropertySize", c)
    [] p = "CurrentInputFormat"           -> SetCurrentInputFormat(c, value)
    [] p = "CurrentOutputFormat"          -> SetCurrentOutputFormat(c, value)
    [] p = "MagicCookie"                  -> SetMagicCookie(c, value)
    [] p \in PacketWords \cup {"FormatInfo"} -> Throws("UnknownProperty", c)
    [] OTHER                              -> Throws("IllegalOperation", c)

\* ACBaseCodec::GetProperty.  As many formats of a list as there is room for.
BaseGetProperty(c, p, size) ==
  LET Listed(list) == Answer(SubSeq(list, 1, Lesser(size[2], Len(list))))
  IN CASE p \in InputLists  -> Listed(SupportedInputFormats(c.class))
       [] p \in OutputLists -> Listed(SupportedOutputFormats(c.class))
       [] p = "MagicCookie" -> Answer(<<>>)
       [] p \in {"FormatCFString", "FormatInfo"} \cup PacketWords -> Refusal("UnknownProperty")
       [] size # PropertySize(c.class, p) -> Refusal("BadPropertySize")
       [] p = "CurrentInputFormat"  -> Answer(c.inputFormat)
       [] p = "CurrentOutputFormat" -> Answer(c.outputFormat)
       [] p = "IsInitialized"       -> Answer(c.initialized)
       [] OTHER                     -> Answer(p)

FFissionCodecGetProperty(c, p, size) ==
  LET ours == PacketWords \cup {"ManufacturerCFString", "RequiresPacketDescription"}
      Or(n, m) == IF n # 0 THEN n ELSE m
  IN CASE p \in ours /\ size # PropertySize(c.class, p) -> Refusal("BadPropertySize")
       [] p \in {"NameCFString", "FormatCFString"}      -> Refusal("UnknownProperty")
       [] p \in {"RequiresPacketDescription", "HasVariablePacketByteSizes"} -> Answer(FALSE)
       [] p = "MaximumPacketByteSize" ->
            Answer(Or(c.context.block_align, c.inputFormat.mBytesPerPacket))
       [] p = "PacketFrameSize" ->
            Answer(Or(c.context.frame_size, Or(c.inputFormat.mFramesPerPacket, 1)))
       [] p = "ManufacturerCFString" -> Answer(p)
       [] OTHER                      -> BaseGetProperty(c, p, size)

\* The output format kAudioCodecPropertyFormatInfo makes up for a stream.
FakeOutput(format) ==
  ASBD(format.mSampleRate, "lpcm", kIntPCMOutFormatFlag, 4, 1, 4, format.mChannelsPerFrame, 16)

\* FormatInfo: a decoder of its own is initialised for the stream, with an output format
\* that is static, so the one made up for the first stream that was asked about.
Informed(format, made) ==
  IF made.err # "noErr" THEN Refusal(made.err)
  ELSE Answer(FillOutFormat(format, FFAVCodecContextToASBD(made.c.context)))

FormatInfo(format, cookie, first) ==
  Informed(format, FFissionInitialize(Decoder("FFission"), format,
                                      FakeOutput(IF first = sEmpty THEN format ELSE first), cookie))

FFissionGetProperty(c, p, size) ==
  LET ours == {"NameCFString", "InputBufferSize", "UsedInputBufferSize", "FormatInfo"}
  IN CASE p \in ours /\ size # PropertySize(c.class, p) -> Refusal("BadPropertySize")
       [] p = "NameCFString"                           -> Answer(p)
       [] p = "FormatInfo" -> FormatInfo(c.inputFormat, c.cookie, sEmpty)
       [] OTHER            -> FFissionCodecGetProperty(c, p, size)

FFissionVBRGetProperty(c, p, size) ==
  LET ours == {"HasVariablePacketByteSizes", "RequiresPacketDescription"}
  IN CASE p \notin ours                     -> FFissionGetProperty(c, p, size)
       [] size # PropertySize(c.class, p)   -> Refusal("BadPropertySize")
       [] OTHER                             -> Answer(TRUE)

DecoderGetProperty(c, p, size) ==
  IF c.class = "FFissionVBR" THEN FFissionVBRGetProperty(c, p, size)
  ELSE FFissionGetProperty(c, p, size)

\* CompressAudioCodec's unit answers, as if its formats were compressed; what it refuses
\* goes unheard.
AsCompressed(c, p, inner) ==
  LET As(format) == [format EXCEPT !.mFormatID = c.inputFormat.mFormatID]
  IN CASE inner.err # "noErr" -> [inner EXCEPT !.err = "noErr"]
       [] p = "CurrentInputFormat" -> Answer(As(inner.value))
       [] p \in InputLists    -> Answer([i \in DOMAIN inner.value |-> As(inner.value[i])])
       [] OTHER               -> inner

CompressGetProperty(c, p, size) ==
  CASE c.actualUnit = <<>> -> FFissionCodecGetProperty(c, p, size)
    [] c.actualUnit # <<>> /\ c.actualUnit[1].class = "other" -> Answer("its own")
    [] OTHER -> AsCompressed(c, p, DecoderGetProperty(c.actualUnit[1], p, size))

GetProperty(c, p, size) ==
  IF c.class = "Compress" THEN CompressGetProperty(c, p, size) ELSE DecoderGetProperty(c, p, size)

-----------------------------------------------------------------------------
(* The calls *)

\* A call of the Component Manager: what it is of, and its arguments as far as it has any.
NoCall == [what |-> None, id |-> None, size |-> <<"none", 0>>, null |-> FALSE,
           input |-> sEmpty, output |-> sEmpty, cookie |-> <<>>]

BaseSelectors  == {"Open", "Close", "Version", "CanDo"}
CodecSelectors == {"GetPropertyInfo", "GetProperty", "SetProperty", "Initialize", "Uninitialize",
                   "AppendInputData", "ProduceOutputData", "Reset"}

\* AudioCodecLookup::Lookup gives a method for the same ones.
CanDo(selector) == selector \in BaseSelectors \cup CodecSelectors

\* What a packet reaches: the unit, if there is one, or the decoder itself.
Decoding(c) == IF c.class = "Compress" THEN c.actualUnit ELSE <<c>>

\* ProduceOutputPackets: a decoder that is closed is opened, if it can be.
Producing(c) ==
  CASE c.class \notin FFissionClasses -> Done(c)
    [] ~c.initialized                 -> Throws("State", c)
    [] c.open                         -> Done(c)
    [] OTHER                          -> OpenAVCodec(c)

\* CompressAudioCodec does not look at what its unit returns.
ProduceOutputPackets(c) ==
  IF c.class # "Compress" THEN Producing(c)
  ELSE Done([c EXCEPT !.actualUnit = [i \in DOMAIN @ |-> Producing(@[i]).c]])

\* The dispatcher catches what the codec throws, and does not follow null pointers.
ComponentEntryDispatch(c, call) ==
  LET p       == call.id
      pointed == {"GetProperty", "SetProperty", "AppendInputData", "ProduceOutputData"}
      value   == IF p = "CurrentInputFormat" THEN call.input ELSE call.output
  IN CASE ~CanDo(call.what)                   -> Throws("badComponentSelector", c)
       [] call.what \in pointed /\ call.null -> Throws("ParamError", c)
       [] call.what = "GetPropertyInfo"       -> Throws(GetPropertyInfo(c, p).err, c)
       [] call.what = "GetProperty"           -> Throws(GetProperty(c, p, call.size).err, c)
       [] call.what = "SetProperty"           ->
            SetProperty(c, p, call.size, IF p = "MagicCookie" THEN call.cookie ELSE value)
       [] call.what = "Initialize"   -> Initialize(c, call.input, call.output, call.cookie)
       [] call.what = "Uninitialize" -> Done(Uninitialize(c))
       [] call.what = "ProduceOutputData"     -> ProduceOutputPackets(c)
       [] OTHER                               -> Done(c)

-----------------------------------------------------------------------------
(* The importers' description of sound *)

Layouts(id) ==
  CASE id = "XiVs" -> <<<<"L", "R", "Cs">>, <<"L", "R", "Ls", "Rs">>,
                        <<"L", "C", "R", "Ls", "Rs">>, <<"L", "C", "R", "Ls", "Rs", "LFE">>>>
    [] id = "mp4a" -> <<<<"C", "L", "R">>, <<"C", "L", "R", "Cs">>, <<"C", "L", "R", "Ls", "Rs">>,
                        <<"C", "L", "R", "Ls", "Rs", "LFE">>,
                        <<"C", "L", "R", "Ls", "Rs", "Cs", "LFE">>,
                        <<"C", "Lc", "Rc", "L", "R", "Ls", "Rs", "LFE">>>>
    [] id \in {"ac-3", "ac-3MS"} ->
                      <<<<"L", "R", "C">>, <<"L", "R", "C", "Cs">>, <<"L", "R", "C", "Ls", "Rs">>,
                        <<"L", "R", "C", "LFE", "Ls", "Rs">>>>
    [] id = "XiFL" -> <<<<"L", "R", "C">>, <<"L", "R", "Ls", "Rs">>, <<"L", "R", "C", "Ls", "Rs">>,
                        <<"L", "R", "C", "LFE", "Ls", "Rs">>,
                        <<"L", "R", "C", "LFE", "Ls", "Rs", "Cs">>,
                        <<"L", "R", "C", "LFE", "Ls", "Rs", "Rls", "Rrs">>>>
    [] id = "DTS " -> <<<<"C", "L", "R">>, <<"C", "L", "R", "Cs">>, <<"C", "L", "R", "Ls", "Rs">>,
                        <<"C", "L", "R", "Ls", "Rs", "LFE">>>>
    [] OTHER       -> <<>>

\* The order of the channels, <<>> when it goes without saying or is not known.
GetDefaultChannelLayout(format) ==
  LET layouts == Layouts(format.mFormatID)
      n       == format.mChannelsPerFrame
  IN IF n - 2 \in DOMAIN layouts THEN layouts[n - 2] ELSE <<>>

\* kAudioFormatProperty_FormatInfo: the component of the format fills in what is not said;
\* Apple's codecs are taken to leave it.
Filled(desc, info) == IF info.err = "noErr" THEN [desc EXCEPT !.format = info.value] ELSE desc

WithInfo(desc, first) ==
  IF ClassOf(desc.dataFormat) \notin FFissionClasses THEN desc
  ELSE Filled(desc, FormatInfo(desc.format, desc.cookie, first))

MP3Frames(format) ==
  IF format.mFramesPerPacket # 0 \/ format.mFormatID # ".mp3" THEN format
  ELSE [format EXCEPT !.mFramesPerPacket = IF format.mSampleRate > 24000 THEN 1152 ELSE 576]

\* The description is finished: a stream without its header goes to the other codecs.
LaidOut(desc) ==
  [desc EXCEPT !.format = MP3Frames(@), !.layout = GetDefaultChannelLayout(desc.format)]

Headed(enc) ==
  AtomOf(kCompressionAlgorithm, BE32(enc.algo))
    \o (IF enc.settings = <<>> THEN <<>>
        ELSE AtomOf(kCompressionSettingsExtension, enc.settings))

Finished(t, id, full) ==
  CASE id = None \/ full.format.mChannelsPerFrame = 0 -> [full EXCEPT !.err = TRUE]
    [] Compressed(t, id)     ->
         [full EXCEPT !.dataFormat = compressStreamFourCC(id),
                      !.cookie = Headed(t.encodings[1]) \o @,
                      !.format.mFormatID = compressStreamFourCC(id)]
    [] OTHER                 -> full

AddSoundOf(t, id, playHighFreqSBR, first) ==
  LET named == [NoDescription EXCEPT !.dataFormat = id,
                  !.format = ASBD(t.freq, id, {}, 0, 0, 0, t.channels, t.bits)]
  IN Finished(t, id,
              LaidOut(WithInfo(MkvFinishAudioDescription(t, named, playHighFreqSBR), first)))

AddAudioTrack(t, playHighFreqSBR, first) ==
  AddSoundOf(t, MkvGetFourCC(t), playHighFreqSBR, first)

\* Formats whose packets have no fixed size, as the AudioToolbox has it: it asks the
\* component, of Apple's those for MP3 and AAC say so.
IsVBR(id) == ClassOf(id) = "FFissionVBR" \/ id \in {".mp3", "mp4a"}

\* A packet of fixed size lasts one unit of the stream's time base; one that has not, or
\* whose size is not known, has none.
Packets(t, format) ==
  LET bytes  == IF /\ IsVBR(format.mFormatID) \/ format.mBytesPerPacket = 0
                   /\ format.mFramesPerPacket # 0
                THEN 0 ELSE format.mBytesPerPacket
      frames == CASE format.mFormatID = "lpcm" -> 1
                  [] format.mFormatID # "lpcm" /\ bytes # 0 ->
                       (((t.base[1] * t.freq) \div t.base[2]) * bytes) \div t.block
                  [] OTHER -> format.mFramesPerPacket
  IN [format EXCEPT !.mBytesPerPacket = bytes, !.mFramesPerPacket = frames]

Mapped(desc, format) ==
  IF desc.format.mChannelsPerFrame = 0 THEN [desc EXCEPT !.err = TRUE]
  ELSE [desc EXCEPT !.format = format,
                    !.layout = IF format.mChannelsPerFrame > 2
                               THEN GetDefaultChannelLayout(format) ELSE <<>>]

Packed(t, desc) == Mapped(desc, Packets(t, MP3Frames(desc.format)))

NamedSound(t, named, first) ==
  Packed(t, WithInfo([NoDescription EXCEPT !.dataFormat = named,
                        !.cookie = create_cookie(t, named),
                        !.format = ASBD(t.freq, named, {}, t.block, t.frames, 0, t.channels,
                                        t.bits)], first))

\* AC-3, whose first packet may tell the layout (BitstreamInfo), has its default one here.
initialize_audio_map(t, first) ==
  LET mapped == map_avi_to_mov_tag(t.codec)
  IN NamedSound(t, IF mapped = None THEN "ms" ELSE mapped, first)
=============================================================================
