----------------------------- MODULE FFusionCodec -----------------------------
(***************************************************************************)
(* The video codec (FFusionCodec.c): BeginBand, DecodeBand, DrawBand and   *)
(* EndBand as operators over g, the FFusionGlobals of one instance, and r, *)
(* the FFusionDecompressRecord QuickTime keeps for a sample.  The frame    *)
(* queue is FrameBuffer, the picture buffers are BufferPool.               *)
(*                                                                         *)
(* Byte i of coded frame k of the stream is 10 * k + i.  A picture is      *)
(* <<k, TRUE>>, or <<k, FALSE>> when libavcodec made it from other         *)
(* reference pictures than the ones frame k was coded against.             *)
(***************************************************************************)
EXTENDS FrameBuffer, BufferPool, SequencesExt

C == INSTANCE CommonUtils

CONSTANTS RingBytes,             \* the size of the frame queue's ring
          SLACK,                 \* the 16 bytes BeginBand lets trail a frame
          Process                \* the program the codec plays in

\* Frame types; "0" is no type, "N" a frame that says that nothing changes (an N-VOP),
\* "X" one whose header cannot be parsed.
FrameBytes(t) == IF t = "N" THEN 1 ELSE 2

CodedFrame(types, k) == [i \in 1 .. FrameBytes(types[k]) |-> 10 * k + i]

NoFrame == [found |-> FALSE, skipped |-> FALSE, type |-> "0", skippable |-> FALSE, size |-> 0]

\* ffusionParse of an MPEG-4 stream: the first frame in the bytes.
ffusionParse(types, bytes) ==
  LET k == IF bytes = <<>> THEN 0 ELSE Head(bytes) \div 10
      t == IF k \in DOMAIN types /\ Head(bytes) = 10 * k + 1 THEN types[k] ELSE "X"
  IN IF t = "X" THEN NoFrame
     ELSE IF t = "N" THEN [found |-> FALSE, skipped |-> TRUE, type |-> "P", skippable |-> TRUE,
                           size |-> Len(bytes)]
     ELSE [found |-> TRUE, skipped |-> FALSE, type |-> t, skippable |-> t = "B",
           size |-> FrameBytes(t)]

-----------------------------------------------------------------------------
\* libavcodec.  avContext keeps the buffers of its two latest reference pictures,
\* older first, and of its latest B picture.
Anchors(types, k) == {i \in 1 .. k - 1 : types[i] \in {"I", "P"}}

Latest(S) == CHOOSE i \in S : \A j \in S : j <= i

\* The frames that frame k was coded against, older first.
References(types, k) ==
  LET newer == Latest(Anchors(types, k))
  IN CASE types[k] = "I" -> <<>>
       [] types[k] = "P" -> <<newer>>
       [] types[k] = "B" -> <<Latest(Anchors(types, newer)), newer>>

ReleaseAll(pool, buffers) ==
  [pool EXCEPT !.buffers = [i \in Buffers |->
     IF i \in buffers THEN FFusionReleaseBuffer(pool, i).buffers[i] ELSE @[i]]]

CodecBuffers(c) == {c.anchors[i] : i \in DOMAIN c.anchors} \cup ({c.lastB} \ {None})

\* FFusionDecompress: avcodec_decode_video2 of the bytes, with CODEC_FLAG_LOW_DELAY.
\* The result has the AVFrame: its buffer, None without a picture, and its type.
FFusionDecompress(g, types, bytes) ==
  LET k       == IF bytes = <<>> THEN 0 ELSE Head(bytes) \div 10
      whole   == k \in DOMAIN types /\ bytes = CodedFrame(types, k)
      t       == IF whole THEN types[k] ELSE "X"
      c       == g.avContext
      anchors == c.anchors
      keep    == IF t # "B" /\ Len(anchors) = 2 THEN Tail(anchors) ELSE anchors
      unused  == CodecBuffers(c) \ {keep[i] : i \in DOMAIN keep}
      used    == CASE t = "I" -> <<>> [] t = "P" -> keep [] OTHER -> anchors
      good    == [i \in DOMAIN used |-> g.pool.buffers[used[i]].picture]
                   = [i \in DOMAIN References(types, k) |-> <<References(types, k)[i], TRUE>>]
      pool    == FFusionGetBuffer(ReleaseAll(g.pool, unused), <<k, good>>)
      new     == pool.lastAllocatedBuffer
  IN IF t \in {"X", "N"} \/ (t = "B" /\ Len(anchors) < 2)
     THEN [g |-> g, buffer |-> None, pict_type |-> "0"]
     ELSE [g |-> [g EXCEPT !.pool = pool,
                           !.avContext = IF t = "B" THEN [anchors |-> keep, lastB |-> new]
                                         ELSE [anchors |-> Append(keep, new), lastB |-> None]],
           buffer |-> new, pict_type |-> t]

avcodec_flush_buffers(g) ==
  [g EXCEPT !.pool = ReleaseAll(@, CodecBuffers(g.avContext)),
            !.avContext = [anchors |-> <<>>, lastB |-> None]]

-----------------------------------------------------------------------------
\* The globals after FFusionCodecOpen and a first Preflight.
Opened(packedType, slots) ==
  [packedType |-> packedType,
   begin |-> [lastFrame |-> 0, lastIFrame |-> 0, lastPFrameData |-> NULL,
              lastFrameType |-> "0", futureType |-> "0"],
   data |-> FFusionDataSetup(slots, RingBytes),
   decode |-> [lastFrame |-> 0, futureBuffer |-> None],
   pool |-> EmptyPool,
   lastDisplayedPicture |-> None,
   avContext |-> [anchors |-> <<>>, lastB |-> None]]

KnowsOrder(g) == g.packedType = "QUICKTIME_KNOWS_ORDER"

\* setFutureFrame: the new one is retained before the old one is released.
setFutureFrame(g, new) ==
  LET old  == g.decode.futureBuffer
      kept == IF new = None THEN g.pool ELSE retainBuffer(g.pool, new)
  IN [g EXCEPT !.decode.futureBuffer = new,
               !.pool = IF old = None THEN kept ELSE releaseBuffer(kept, old)]

qtTypeForFrameInfo(original, type, skippable) ==
  IF type = "I" THEN IF skippable THEN original ELSE "Key"
  ELSE IF skippable /\ C!IsFrameDroppingEnabled(C!Unasked, Process) = 1 THEN "DroppableDifference"
  ELSE IF type # "0" THEN "Difference"
  ELSE original

\* A frame the queue still has: begun, and not decoded yet.
AlreadyBegun(g, n) ==
  /\ ~KnowsOrder(g)
  /\ g.decode.lastFrame < n /\ n <= g.begin.lastFrame
  /\ FFusionDataFind(g.data, n) # NULL

Jumped(g, n) ==
  /\ ~KnowsOrder(g) /\ n # g.begin.lastFrame + 1
  /\ ~(g.decode.lastFrame < n /\ n <= g.begin.lastFrame)

\* "Reset context, safe marking in such a case"
ResetContext(g) ==
  [g EXCEPT !.begin.lastFrameType = "I", !.begin.lastPFrameData = NULL,
            !.data = FFusionDataReadUnparsed(@)]

\* The packing the sample shows, when its first frame p leaves rest bytes behind it.
PackedAfter(g, p, rest) ==
  IF p.type = "B" /\ g.packedType = "ALL_IN_FIRST_FRAME" /\ g.begin.futureType = "0"
  THEN "DELAY_BY_ONE_FRAME"
  ELSE IF g.packedType = "DELAY_BY_ONE_FRAME" /\ rest > SLACK
  THEN "ALL_IN_FIRST_FRAME"
  ELSE g.packedType

\* The first frame p of the bytes goes to the queue.  The result has the frame to
\* show and its type: when frames are delayed by one, those of the reference before.
AppendFirst(g, p, at, bytes, jumped) ==
  LET b       == g.begin
      packed  == PackedAfter(g, p, Len(bytes) - p.size)
      delayed == packed = "DELAY_BY_ONE_FRAME"
      f       == AppendTarget(g.data)
      queue   == FFusionDataAppend(g.data, at, SubSeq(bytes, 1, p.size), p.type)
      type    == IF delayed THEN b.lastFrameType ELSE p.type
  IN [g |-> [g EXCEPT
        !.packedType = packed,
        !.data = IF p.type = "I" THEN queue
                 ELSE [queue EXCEPT !.arenas[f[1]].frames[f[2]].prereqFrame = b.lastPFrameData],
        !.begin.lastPFrameData = IF p.type = "B" THEN @ ELSE f,
        !.begin.lastFrameType = IF delayed THEN p.type ELSE @,
        !.begin.futureType = IF type = "I" /\ packed = "ALL_IN_FIRST_FRAME" THEN "0" ELSE @],
      show |-> IF delayed /\ p.type # "B" /\ ~jumped THEN b.lastPFrameData ELSE f,
      type |-> type]

\* Faulty: the B frame does not know that it needs the frame before it.
AppendFollowingAlone(g, show, type, q, at, bytes) ==
  [g EXCEPT !.begin.futureType = type,
            !.begin.lastPFrameData = show,
            !.data = FFusionDataAppend(g.data, at, SubSeq(bytes, 1, q.size), q.type)]

\* A B frame q behind the first frame of a sample: it is the one to show now, and
\* the first one, shown so far, waits for a later sample.
AppendFollowing(g, show, type, q, at, bytes) ==
  LET f     == AppendTarget(g.data)
      queue == FFusionDataAppend(g.data, at, SubSeq(bytes, 1, q.size), q.type)
  IN [g EXCEPT !.begin.futureType = type,
               !.begin.lastPFrameData = show,
               !.data = [queue EXCEPT !.arenas[f[1]].frames[f[2]].prereqFrame = show]]

\* What BeginBand writes for every sample that is not begun already.
EndBegin(g, r, n, show, type, skippable) ==
  LET frameType == qtTypeForFrameInfo(r.frameType, type, skippable)
      numbered  == IF show = NULL THEN g.data
                   ELSE [g.data EXCEPT !.arenas[show[1]].frames[show[2]].frameNumber = n,
                                       !.arenas[show[1]].frames[show[2]].skippabble = skippable]
      lastI     == IF frameType = "Key" THEN n ELSE g.begin.lastIFrame
  IN [g |-> [g EXCEPT !.data = numbered, !.begin.lastFrame = n, !.begin.lastIFrame = lastI],
      r |-> [r EXCEPT !.frameType = frameType, !.frameData = show, !.frameNumber = n,
                      !.GOPStartFrameNumber = lastI]]

Advance(at, n) == IF at = NULL THEN NULL ELSE <<at[1], at[2] + n>>

\* What is left of the bytes is kept for the next sample.
KeepUnparsed(g, at, bytes) ==
  [g EXCEPT !.data = IF bytes = <<>> THEN FFusionDataReadUnparsed(@)
                     ELSE FFusionDataSetUnparsed(@, at, bytes)]

\* What follows the first frame of the sample, which first tells about, is looked at
\* when that frame is shorter than the sample.
BeginFollowing(first, types, r, n, p, at, rest) ==
  LET q   == ffusionParse(types, rest)
      isB == q.found /\ q.type = "B"
  IN IF p.size >= Len(r.codecData)
     THEN EndBegin(KeepUnparsed(first.g, at, <<>>), r, n, first.show, first.type, p.skippable)
     ELSE IF isB
     THEN EndBegin(KeepUnparsed(AppendFollowing(first.g, first.show, first.type, q, at, rest),
                                Advance(at, q.size), SubSeq(rest, q.size + 1, Len(rest))),
                   r, n, AppendTarget(first.g.data), q.type, q.skippable)
     ELSE EndBegin(KeepUnparsed(first.g, at, rest), r, n, first.show,
                   IF q.found \/ q.skipped THEN q.type ELSE first.type,
                   IF q.found \/ q.skipped THEN q.skippable ELSE p.skippable)

\* A sample, or the unparsed bytes that go before it, whose first frame p was found.
BeginParsed(g, types, r, n, p, at, bytes, jumped) ==
  BeginFollowing(AppendFirst(g, p, at, bytes, jumped), types, [r EXCEPT !.bufferSize = 0], n, p,
                 Advance(at, p.size), SubSeq(bytes, p.size + 1, Len(bytes)))

\* FFusionCodecBeginBand of sample n; r has the data, the type and the flag from
\* QuickTime.
FFusionCodecBeginBand(g0, types, r, n) ==
  LET jumped == Jumped(g0, n)
      g      == IF jumped THEN ResetContext(g0) ELSE g0
      stored == g.data.unparsed.dataSize # 0
      at     == IF stored THEN g.data.unparsed.buffer ELSE NULL
      bytes  == IF stored THEN Bytes(g.data, at, g.data.unparsed.dataSize) ELSE r.codecData
      p      == ffusionParse(types, bytes)
      found  == FFusionDataFind(g.data, n)
      future == g.begin.futureType
      whole  == [r EXCEPT !.bufferSize = Len(bytes)]
      own    == BuffersOf(g.pool, n)
      first  == CHOOSE i \in own : \A j \in own : i <= j
  IN IF r.decoded
     THEN IF own = {} THEN [g |-> g0, r |-> [r EXCEPT !.frameNumber = n]]
          ELSE [g |-> [g0 EXCEPT !.pool = retainBuffer(@, first)],
                r |-> [r EXCEPT !.frameNumber = n, !.buffer = first]]
     ELSE IF AlreadyBegun(g, n)
     THEN [g |-> g,
           r |-> [r EXCEPT !.frameData = found, !.frameNumber = n,
                           !.frameType = qtTypeForFrameInfo(r.frameType, Frame(g.data, found).type,
                                                            Frame(g.data, found).skippabble),
                           !.GOPStartFrameNumber = g.begin.lastIFrame]]
     ELSE IF ~p.found /\ ~p.skipped /\ future = "0"
     THEN EndBegin(g, whole, n, NULL, "0", FALSE)
     ELSE IF ~p.found /\ future # "0"
     THEN EndBegin([g EXCEPT !.begin.futureType = "0"], whole, n, g.begin.lastPFrameData,
                   future, p.skippable)
     ELSE IF KnowsOrder(g)
     THEN EndBegin(g, whole, n, NULL, p.type, p.skippable)
     ELSE BeginParsed(g, types, r, n, p, at, bytes, jumped)

-----------------------------------------------------------------------------
FrameBytesOf(d, f) == Bytes(d, Frame(d, f).buffer, Frame(d, f).dataSize)

\* PrereqDecompress: what the frame itself still needs goes first.
RECURSIVE PrereqDecompress(_, _, _)
PrereqDecompress(g, types, prereq) ==
  LET preprereq == FrameDataCheckPrereq(g.data, prereq)
      before    == IF preprereq = NULL THEN g ELSE PrereqDecompress(g, types, preprereq).g
  IN FFusionDecompress(before, types, FrameBytesOf(g.data, prereq))

MarkDecoded(g, f) == [g EXCEPT !.data.arenas[f[1]].frames[f[2]].decoded = TRUE]

\* The prerequisite was decoded: its picture waits for its own sample.
PrereqDecoded(pre, prereq) ==
  IF pre.buffer = None THEN pre.g ELSE MarkDecoded(setFutureFrame(pre.g, pre.buffer), prereq)

\* DecodeBand of a frame in the queue: "Pull from our buffer".
DecodeQueued(g, types, f) ==
  LET prereq == FrameDataCheckPrereq(g.data, f)
  IN FFusionDecompress(
       MarkDecoded(IF prereq = NULL THEN g
                   ELSE PrereqDecoded(PrereqDecompress(g, types, prereq), prereq), f),
       types, FrameBytesOf(g.data, f))

\* DecodeBand of the sample's own bytes, which go to the start of the ring.  There
\* may be more of them asked for than the sample has.
DecodeEntire(g, types, r) ==
  LET bytes == [i \in 1 .. r.bufferSize |-> IF i \in DOMAIN r.codecData THEN r.codecData[i] ELSE 0]
  IN FFusionDecompress([g EXCEPT !.data = FFusionCreateEntireDataBuffer(@, bytes)], types, bytes)

\* Faulty: any skipped frame is taken for a new group of pictures.
NewGOPWhenSkipped(g, r) == ~KnowsOrder(g) /\ r.frameNumber # g.decode.lastFrame + 1

\* "then we are in a whole new GOP"
NewGOP(g, r) ==
  /\ ~KnowsOrder(g) /\ r.frameNumber # g.decode.lastFrame + 1
  /\ \/ r.frameType = "Key"
     \/ r.GOPStartFrameNumber > g.decode.lastFrame
     \/ r.frameNumber < g.decode.lastFrame

\* The frame was decoded early, as a prerequisite, and its picture waits.
TakeFuture(g, r, f) ==
  LET kept == [g EXCEPT !.pool = retainBuffer(@, g.decode.futureBuffer)]
  IN [g |-> [setFutureFrame(kept, None) EXCEPT !.data = FFusionDataMarkRead(@, f)],
      r |-> [r EXCEPT !.buffer = g.decode.futureBuffer, !.decoded = TRUE]]

\* The record takes the buffer that was allocated last, new or not.
TakeLastAllocated(g, r) ==
  LET last == g.pool.lastAllocatedBuffer
  IN [g |-> [g EXCEPT !.pool = [retainBuffer(@, last) EXCEPT !.buffers[last].frameNumber = r.frameNumber]],
      r |-> [r EXCEPT !.buffer = last, !.decoded = TRUE]]

\* The record takes the picture that was made, and f is done with.
TakePicture(out, r, f) ==
  LET kept == IF out.buffer = None THEN out.g
              ELSE [out.g EXCEPT !.pool = retainBuffer(@, out.buffer)]
  IN [g |-> [(IF out.pict_type = "I" THEN setFutureFrame(kept, None) ELSE kept)
               EXCEPT !.data = FFusionDataMarkRead(@, f)],
      r |-> [r EXCEPT !.buffer = out.buffer, !.decoded = TRUE]]

\* DecodeBand, once the frames before the sample's group of pictures are flushed.
DecodeInGOP(g, types, r) ==
  LET f == r.frameData
  IN IF f # NULL /\ Frame(g.data, f).decoded /\ g.decode.futureBuffer # None
     THEN TakeFuture(g, r, f)
     ELSE IF KnowsOrder(g)
     THEN TakeLastAllocated(DecodeEntire(g, types, r).g, r)
     ELSE IF f # NULL /\ ~Frame(g.data, f).decoded
     THEN TakePicture(DecodeQueued(g, types, f), r, f)
     ELSE TakePicture(DecodeEntire(g, types, r), r, NULL)

FFusionCodecDecodeBand(g, types, r) ==
  DecodeInGOP([(IF NewGOP(g, r) THEN avcodec_flush_buffers(g) ELSE g)
                 EXCEPT !.decode.lastFrame = r.frameNumber], types, r)

\* What a picture pointer shows.
Shown(g, i) == IF i = None THEN Nothing ELSE g.pool.buffers[i].picture


\* The picture of a decoded record, or the one displayed last, or Nothing for black.
Display(made) ==
  LET from == IF Shown(made.g, made.r.buffer) # Nothing THEN made.r.buffer
              ELSE made.g.lastDisplayedPicture
  IN [g |-> [made.g EXCEPT !.lastDisplayedPicture = from], r |-> made.r,
      picture |-> Shown(made.g, from)]

\* FFusionCodecDrawBand; picture is what it draws.
FFusionCodecDrawBand(g, types, r) ==
  Display(IF r.decoded THEN [g |-> g, r |-> r] ELSE FFusionCodecDecodeBand(g, types, r))

\* Faulty EndBand: the buffer stays retained.
EndBandLeaks(g, r) == g

\* FFusionCodecEndBand
FFusionCodecEndBand(g, r) ==
  IF r.buffer # None /\ g.pool.buffers[r.buffer].everUsed
  THEN [g EXCEPT !.pool = releaseBuffer(@, r.buffer)] ELSE g

\* FFusionCodecClose, until the globals are freed.
FFusionCodecClose(g) == avcodec_flush_buffers(setFutureFrame(g, None))
=============================================================================
