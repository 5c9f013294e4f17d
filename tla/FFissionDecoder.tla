---------------------------- MODULE FFissionDecoder ----------------------------
(***************************************************************************)
(* The audio decoder, FFissionCodec/FFissionDecoder.cpp, between the       *)
(* caller that appends packets and asks for PCM, the ring of input bytes   *)
(* (RingBuffer, here what ByteFifo says of it), libavcodec's parser and    *)
(* its decoder.                                                            *)
(*                                                                         *)
(* A byte of input is <<n, g>>, byte n of the stream, appended after the   *)
(* caller restarted g times, and a byte of output <<k, i, g>>, byte i of   *)
(* what frame k decodes to, so that what comes out shows what went in.  A  *)
(* call of ProduceOutputPackets is several steps, one for each packet it   *)
(* decodes.                                                                *)
(***************************************************************************)
EXTENDS Integers, Sequences, SequencesExt, FiniteSetsExt

CONSTANTS Streams,      \* what may be played: see StreamOK
          Requests,     \* the sizes of output the caller asks for
          FrameBytes,   \* bytes of one sample of all channels: 2 * channels
          OutLen,       \* bytes of PCM a frame decodes to
          outBufSize,   \* bytes of outputBuffer
          MaxPackets,   \* bound: packets the caller lets wait in the input
          Noise, Stale  \* output decoded from a broken frame; output nobody decoded

Parsers == {"none", "length", "start"}

\* frames, packets: where each begins in the stream, and after the last one the stream's
\* end.  parser: none, one that knows a frame's length, one that finds the next frame's
\* start.  Without a parser a packet is some whole frames.
Cuts(s) == s \in Seq(Nat) /\ s # <<>> /\ s[1] = 0 /\ \A i, j \in DOMAIN s : i < j => s[i] < s[j]

StreamOK(s) ==
  /\ s.parser \in Parsers /\ s.damaged \subseteq 1 .. Len(s.frames) - 1
  /\ Cuts(s.frames) /\ Cuts(s.packets) /\ Last(s.frames) = Last(s.packets)
  /\ s.parser = "none" => ToSet(s.packets) \subseteq ToSet(s.frames)
  /\ s.passthrough \in BOOLEAN /\ s.cookie \in BOOLEAN /\ s.seeks \in Nat

ASSUME StreamAssumption ==
  /\ \A s \in Streams : StreamOK(s)
  /\ FrameBytes \in Nat \ {0} /\ {OutLen, outBufSize} \subseteq Nat
  /\ OutLen % FrameBytes = 0 /\ OutLen <= outBufSize

\* Output that is no byte of a frame looks like none.
ASSUME MarkAssumption == Noise # Stale /\ Noise \notin Nat \X Nat \X Nat /\ Stale \notin Nat \X Nat \X Nat

\* A request is for so many packets of PCM, and a packet is one sample of all channels.
ASSUME RequestAssumption == Requests \subseteq {n \in Nat : n % FrameBytes = 0}

VARIABLES stream,
          next,         \* the packet the caller appends next
          input,        \* inputBuffer: the bytes held, and where their packets end
          codec,        \* is libavcodec's decoder open (avCodec), its parser fresh?
          magicCookie,  \* has it been set?
          parser,       \* the bytes the parser has kept
          outputBuffer, \* its first outBufUsed bytes
          call,         \* the ProduceOutputPackets under way
          status,       \* what the last one returned
          from,         \* the byte the caller restarted at
          seeks,        \* the number of times it did
          broken,       \* did it while the parser kept part of a frame?
          decoded,      \* everything libavcodec decoded since
          heard         \* everything the caller got since

vars == <<stream, next, input, codec, magicCookie, parser, outputBuffer, call, status,
          from, seeks, broken, decoded, heard>>

NoCall == [size |-> 0, written |-> 0]
NoInput == [data |-> <<>>, ends |-> <<>>]

-----------------------------------------------------------------------------
\* Frames and packets, and where they begin.
Frames == 1 .. Len(stream.frames) - 1
Packets == 1 .. Len(stream.packets) - 1
Start(k) == stream.frames[k]
Cut(p) == stream.packets[p]
Size(k) == Start(k + 1) - Start(k)

\* The bytes of the stream behind m and up to n, and what a frame decodes to.
Bytes(m, n) == [i \in 1 .. n - m |-> <<m + i, seeks>>]
PCM(k, g) == [i \in 1 .. OutLen |-> <<k, i, g>>]
Fill(x, n) == [i \in 1 .. n |-> x]

FrameOf(byte) == CHOOSE k \in Frames : Start(k) < byte[1] /\ byte[1] <= Start(k + 1)
StartsFrame(byte) == \E k \in Frames : byte[1] = Start(k) + 1
Starts(data) == {i \in DOMAIN data : StartsFrame(data[i])}
HasFrame(data, k) == Len(data) >= Size(k) /\ \A i \in 1 .. Size(k) : data[i][1] = Start(k) + i

\* RingBuffer, as ByteFifo specifies it; of the packets it is said where in the data they
\* end.  In, called for n packets one after the other, of which p is the first.
In(in, p, n) ==
  [data |-> in.data \o Bytes(Cut(p), Cut(p + n)),
   ends |-> in.ends \o [j \in 1 .. n |-> Len(in.data) + Cut(p + j) - Cut(p)]]

Zap(in, n) ==
  LET gone == Max({0} \cup {j \in DOMAIN in.ends : in.ends[j] <= n})
  IN [data |-> SubSeq(in.data, n + 1, Len(in.data)),
      ends |-> [j \in 1 .. Len(in.ends) - gone |-> in.ends[gone + j] - n]]

-----------------------------------------------------------------------------
\* av_parser_parse2: it takes len bytes, keeps some and gives a frame's or none.
Swallow(kept, data) == [len |-> Len(data), packet |-> <<>>, kept |-> kept \o data]

\* Out of step, the parser drops bytes until a frame starts.
Resync(data) ==
  LET skip == IF Starts(data) = {} THEN Len(data) ELSE Min(Starts(data)) - 1
  IN [len |-> skip, packet |-> <<>>, kept |-> <<>>]

FrameOfLength(kept, data) ==
  LET all == kept \o data
      size == Size(FrameOf(all[1]))
  IN IF Len(all) < size THEN Swallow(kept, data)
     ELSE [len |-> size - Len(kept), packet |-> SubSeq(all, 1, size), kept |-> <<>>]

FrameUpToStart(kept, data) ==
  LET all == kept \o data
      later == {i \in Starts(all) : i > 1 /\ i > Len(kept)}
  IN IF later = {} THEN Swallow(kept, data)
     ELSE [len |-> Min(later) - 1 - Len(kept), packet |-> SubSeq(all, 1, Min(later) - 1), kept |-> <<>>]

av_parser_parse2(kept, data) ==
  IF kept \o data = <<>> THEN Swallow(kept, data)
  ELSE IF ~StartsFrame((kept \o data)[1]) THEN Resync(data)
  ELSE IF stream.parser = "length" THEN FrameOfLength(kept, data)
  ELSE FrameUpToStart(kept, data)

\* What libavcodec may answer to a packet: the bytes used, -1 on an error, and the PCM.
Broken(packet) == {[len |-> -1, pcm |-> <<>>], [len |-> Len(packet), pcm |-> Fill(Noise, OutLen)]}

avcodec_decode_audio3(packet) ==
  IF packet = <<>> THEN {[len |-> 0, pcm |-> <<>>]}
  ELSE LET k == FrameOf(packet[1])
       IN IF ~HasFrame(packet, k) THEN Broken(packet)
          ELSE IF k \in stream.damaged THEN {[len |-> -1, pcm |-> <<>>]}
          ELSE {[len |-> Size(k), pcm |-> PCM(k, packet[1][2])]}

\* produceDTSPassthroughPackets.  Of a packet that is too short it says 0 and leaves
\* outBufUsed at the size of the buffer; one without a marker or with a wrong block
\* count is an error; whatever follows a marker makes a burst.
produceDTSPassthroughPackets(packet) ==
  IF packet = <<>> THEN {[len |-> 0, pcm |-> Fill(Stale, outBufSize)]}
  ELSE LET k == FrameOf(packet[1])
       IN IF ~StartsFrame(packet[1]) \/ k \in stream.damaged THEN {[len |-> -1, pcm |-> <<>>]}
          ELSE {[len |-> Size(k),
                 pcm |-> IF HasFrame(packet, k) THEN PCM(k, packet[1][2]) ELSE Fill(Noise, OutLen)]}

Decode(packet) ==
  IF stream.passthrough THEN produceDTSPassthroughPackets(packet) ELSE avcodec_decode_audio3(packet)

\* What of some output was decoded.
Decoded(out) ==
  LET upTo[n \in 0 .. Len(out)] ==
        IF n = 0 THEN <<>> ELSE IF out[n] = Stale THEN upTo[n - 1] ELSE Append(upTo[n - 1], out[n])
  IN upTo[Len(out)]

-----------------------------------------------------------------------------
\* Faulty InterleaveSamples: a buffer that is not all of it taken counts as empty.
SavedNone(out, n) == <<>>

\* memmove of what is left over
Saved(out, n) == SubSeq(out, n + 1, Len(out))

\* InterleaveSamples copies whole samples of all channels.
InterleaveSamples(amountToCopy) == (amountToCopy \div FrameBytes) * FrameBytes

\* Copy as much of out as the call still wants, and save what is left over.
Copy(c, out) ==
  LET n == InterleaveSamples(Min({Len(out), c.size - c.written}))
  IN /\ heard' = heard \o SubSeq(out, 1, n)
     /\ outputBuffer' = Saved(out, n)
     /\ call' = [c EXCEPT !.written = @ + n]

Init ==
  /\ stream \in Streams
  /\ next = 1 /\ input = NoInput
  /\ codec = ~stream.cookie    \* Initialize: OpenAVCodec waits for the cookie
  /\ magicCookie = FALSE
  /\ parser = <<>> /\ outputBuffer = <<>>
  /\ call = NoCall /\ status = "none"
  /\ from = 0 /\ seeks = 0 /\ broken = FALSE
  /\ decoded = <<>> /\ heard = <<>>

\* SetMagicCookie closes the codec; the next ProduceOutputPackets opens it again.
\* A codec that does not need it gets it before any data, others perhaps later.
SetMagicCookie ==
  /\ call = NoCall /\ ~magicCookie /\ (stream.cookie \/ next = 1)
  /\ magicCookie' = TRUE /\ codec' = FALSE /\ parser' = <<>>
  /\ UNCHANGED <<stream, next, input, outputBuffer, call, status, from, seeks, broken, decoded, heard>>

\* AppendInputData of one or two packets.
AppendInputData(n) ==
  /\ call = NoCall
  /\ next + n - 1 \in Packets /\ Len(input.ends) + n <= MaxPackets
  /\ input' = In(input, next, n)
  /\ next' = next + n
  /\ UNCHANGED <<stream, codec, magicCookie, parser, outputBuffer, call, status, from, seeks, broken,
                 decoded, heard>>

\* ProduceOutputPackets throws while a codec that needs its cookie waits for it.
ProduceTooEarly ==
  /\ call = NoCall /\ ~codec /\ stream.cookie /\ ~magicCookie
  /\ status' = "StateError"
  /\ UNCHANGED <<stream, next, input, codec, magicCookie, parser, outputBuffer, call, from, seeks,
                 broken, decoded, heard>>

\* ProduceOutputPackets: "we have leftovers from the last packet, use that first".
ProduceOutputPackets(size) ==
  /\ call = NoCall
  /\ codec \/ magicCookie \/ ~stream.cookie
  /\ codec' = TRUE
  /\ Copy([size |-> size, written |-> 0], outputBuffer)
  /\ UNCHANGED <<stream, next, input, magicCookie, parser, status, from, seeks, broken, decoded>>

More == call # NoCall /\ call.written < call.size /\ input.ends # <<>>

\* Faulty: with a parser too, the bytes of the packet are taken from the input.
ConsumedPacket(parsed, packet, result) ==
  Min({Len(packet), Len(input.data)})

\* The bytes given to the parser are gone from the input, those given to the
\* decoder when it has used them; of a packet that fails all are gone.
Consumed(parsed, packet, result) ==
  IF stream.parser # "none" THEN parsed.len ELSE IF result.len < 0 THEN Len(packet) ELSE result.len

\* One turn of "loop until we satisfy the request or run out of input data".
DecodePacket ==
  /\ More
  /\ LET parsed == IF stream.parser # "none" THEN av_parser_parse2(parser, input.data)
                   ELSE [len |-> 0, packet |-> SubSeq(input.data, 1, input.ends[1]), kept |-> <<>>]
     IN /\ parser' = parsed.kept
        /\ \E result \in Decode(parsed.packet) :
             /\ input' = Zap(input, Consumed(parsed, parsed.packet, result))
             /\ IF result.len < 0
                THEN /\ outputBuffer' = <<>> /\ call' = NoCall /\ status' = "Failure"
                     /\ UNCHANGED <<decoded, heard>>
                ELSE /\ Copy(call, result.pcm)
                     /\ decoded' = decoded \o Decoded(result.pcm)
                     /\ UNCHANGED status
  /\ UNCHANGED <<stream, next, codec, magicCookie, from, seeks, broken>>

Return ==
  /\ call # NoCall /\ ~More
  /\ status' = IF call.written < call.size THEN "NeedsMoreInputData"
               ELSE IF input.ends # <<>> THEN "SuccessHasMore" ELSE "Success"
  /\ call' = NoCall
  /\ UNCHANGED <<stream, next, input, codec, magicCookie, parser, outputBuffer, from, seeks, broken,
                 decoded, heard>>

\* Reset, and the caller goes on with packet p.  The parser keeps what it has.
Reset(p) ==
  /\ call = NoCall /\ seeks < stream.seeks
  /\ input' = Zap(input, Len(input.data))
  /\ outputBuffer' = <<>>
  /\ next' = p /\ from' = Cut(p) /\ seeks' = seeks + 1
  /\ broken' = (broken \/ parser # <<>>)
  /\ decoded' = <<>> /\ heard' = <<>> /\ status' = "none"
  /\ UNCHANGED <<stream, codec, magicCookie, parser, call>>

Produce == ProduceTooEarly \/ \E size \in Requests : ProduceOutputPackets(size)
AppendSome == \E n \in 1 .. 2 : AppendInputData(n)

Next ==
  \/ SetMagicCookie \/ AppendSome \/ Produce \/ DecodePacket \/ Return
  \/ \E p \in Packets : Reset(p)

Spec == Init /\ [][Next]_vars

\* A call runs on; the caller appends what there is and asks for the rest.
Fairness ==
  /\ WF_vars(DecodePacket) /\ WF_vars(Return)
  /\ WF_vars(SetMagicCookie)
  /\ SF_vars(AppendSome) /\ SF_vars(\E size \in Requests : ProduceOutputPackets(size))

FairSpec == Spec /\ Fairness

-----------------------------------------------------------------------------
(* The caller hears what was decoded, all of it and in order, whatever sizes *)
(* it asks for; what it has not heard yet is what outputBuffer keeps for the *)
(* next call.  A failing packet only takes itself away.  The stale bytes     *)
(* that DTS pass-through hands out for an empty packet are left aside.       *)
HeardIsDecoded == Decoded(heard \o outputBuffer) = decoded

\* Frames whose loss is nobody's surprise: damaged ones, and without a parser those
\* in the same packet behind them, which go with it.
Excused ==
  stream.damaged \cup
  {k \in Frames :
     /\ stream.parser = "none"
     /\ \E d \in stream.damaged, p \in Packets : d < k /\ Cut(p) <= Start(d) /\ Start(k) < Cut(p + 1)}

\* Output decoded since the restart, of what was appended since.
FreshAt(i) == decoded[i] # Noise /\ decoded[i][3] = seeks
Fresh == {i \in DOMAIN decoded : FreshAt(i)}

\* Byte b of what a frame decodes to is followed by c.
Before(b, c) == b[1] < c[1] \/ (b[1] = c[1] /\ b[2] < c[2])

\* Frame l begins less than some frame's length behind byte m: a parser that goes by
\* lengths and kept part of a frame takes the rest of that length from there.
WithinFrame(l, m) == stream.parser = "length" /\ \E k \in Frames : Start(l) - m < Size(k)

(* However the stream is cut into packets and the packets are appended, its  *)
(* frames are decoded in turn, none twice and none left out.  Where a Reset  *)
(* finds part of a frame in a parser that goes by lengths, those are lost    *)
(* that begin within one frame's length of where the caller restarted, and   *)
(* with any parser the output of one frame is spoilt; otherwise nothing old  *)
(* or broken is decoded.                                                     *)
FramesInTurn ==
  LET heardOf == {decoded[i][1] : i \in Fresh}
      due == {k \in Frames : Start(k) >= from /\ \E l \in heardOf : k <= l}
  IN /\ \A i, j \in Fresh : i < j => Before(decoded[i], decoded[j])
     /\ \A l \in (due \ heardOf) \ Excused : broken /\ WithinFrame(l, from)
     /\ Cardinality(DOMAIN decoded \ Fresh) <= (IF broken THEN OutLen ELSE 0)

(* A caller that goes on appending and asking hears every frame, unless the  *)
(* parser needs the next frame to find the end of the last.                  *)
EveryFrameHeard ==
  stream.parser # "start" =>
    <>[](\A k \in Frames \ Excused :
           Start(k) >= from /\ ~broken => ToSet(PCM(k, seeks)) \subseteq ToSet(heard))

-----------------------------------------------------------------------------
(* The streams of the run: of every parser, with damaged frames, and begun anew. *)
Stream(kind, frames, packets) ==
  [frames |-> frames, packets |-> packets, parser |-> kind, damaged |-> {},
   passthrough |-> FALSE, cookie |-> FALSE, seeks |-> 0]

Played ==
  {[Stream("none", <<0, 2, 3, 4, 6>>, <<0, 3, 4, 6>>) EXCEPT !.cookie = TRUE, !.damaged = {1}, !.seeks = 1],
   [Stream("none", <<0, 2, 3, 4, 5>>, <<0, 3, 5>>) EXCEPT !.damaged = {4}],
   [Stream("length", <<0, 2, 4, 7>>, <<0, 1, 3, 5, 7>>) EXCEPT !.damaged = {2}],
   [Stream("length", <<0, 2, 4, 6>>, <<0, 2, 3, 4, 6>>) EXCEPT !.seeks = 1],
   [Stream("length", <<0, 3, 4, 5, 6>>, <<0, 1, 3, 6>>) EXCEPT !.seeks = 1],
   [Stream("start", <<0, 2, 3, 5>>, <<0, 1, 3, 5>>) EXCEPT !.seeks = 1],
   [Stream("start", <<0, 2, 4, 6, 8>>, <<0, 2, 5, 7, 8>>) EXCEPT !.passthrough = TRUE, !.damaged = {2}]}
=============================================================================
