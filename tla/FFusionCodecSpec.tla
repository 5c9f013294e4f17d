--------------------------- MODULE FFusionCodecSpec ---------------------------
(***************************************************************************)
(* FFusionCodec driven as QuickTime's base decompressor drives it: samples *)
(* are begun a few ahead, decoded in order, drawn and ended.  QuickTime    *)
(* may end a droppable frame without decoding it, decode ahead of drawing, *)
(* put begun samples back to begin them again, seek to a key frame, and    *)
(* close the codec.                                                        *)
(***************************************************************************)
EXTENDS FFusionCodec

CONSTANT Movies   \* the movies that may be played, and how QuickTime plays each

\* A movie.  A sample is a sequence of frame types; the other fields bound QuickTime.
MovieShape ==
  [samples     |-> <<>>,    \* the samples
   packed      |-> "",      \* the packedType Preflight chooses
   badlyFramed |-> 0,       \* how many samples, from the first, have one frame in decode order
   slots       |-> 0,       \* the size of the frame array
   inFlight    |-> 0,       \* samples begun and not ended at once
   ahead       |-> FALSE,   \* is a sample decoded before the one in front is drawn?
   drops       |-> FALSE,   \* are droppable frames ended undecoded?
   seeks       |-> 0,       \* how many seeks
   seeksAhead  |-> FALSE,   \* also to a sample that is begun and not decoded?
   requeues    |-> 0]       \* how often samples are begun again

ASSUME MoviesAssumption ==
  \A m \in Movies :
    /\ DOMAIN m = DOMAIN MovieShape
    /\ m.inFlight > 0 /\ FFUSION_MAX_BUFFERS >= m.inFlight + 4

VARIABLES movie,
          g,         \* the codec's globals
          inflight,  \* the decompress records begun and not ended, oldest first
          next,      \* the sample QuickTime begins next
          screen,    \* what was drawn last, and the sample, 0 when a seek came after
          settled,   \* the first sample that is drawn in turn
          seeks,     \* the number of seeks so far
          requeues,  \* how often samples were put back so far
          closed

vars == <<movie, g, inflight, next, screen, settled, seeks, requeues, closed>>

stream == movie.samples

-----------------------------------------------------------------------------
\* The stream as QuickTime and libavcodec see it.
Types(s) == FlattenSeq(s)

FramesBefore(s, n) == Len(FlattenSeq(SubSeq(s, 1, n - 1)))

SampleBytes(s, n) ==
  FlattenSeq([j \in DOMAIN s[n] |-> CodedFrame(Types(s), FramesBefore(s, n) + j)])

IsKey(s, n) == Head(s[n]) = "I"

\* The place of frame k in display order: a B frame precedes the reference frame
\* that was coded just before it.
Pictures(types) == {k \in DOMAIN types : types[k] # "N"}
Place(types, k) ==
  LET decodeOrder == Cardinality({i \in Pictures(types) : i <= k})
      after == {i \in Pictures(types) : i > k /\ \A j \in k + 1 .. i : types[j] \in {"B", "N"}}
  IN IF types[k] = "B" THEN decodeOrder - 1 ELSE decodeOrder + Cardinality(after)

AtPlace(types, p) == CHOOSE k \in Pictures(types) : Place(types, k) = p

\* The frame to see at sample n: the n-th in display order; when the display order
\* is QuickTime's affair, the sample's own; while samples are badly framed the one before.
InTurn(s, n) ==
  IF movie.packed = "QUICKTIME_KNOWS_ORDER" THEN FramesBefore(s, n) + 1
  ELSE IF n \in 2 .. movie.badlyFramed THEN AtPlace(Types(s), n - 1) ELSE AtPlace(Types(s), n)

\* The frames of the stream that BeginBand loses: of what a sample leaves unparsed, all
\* behind the first frame go when the next sample is no longer than that frame, because
\* its size is compared and not that of the bytes left (FFusionCodec.c:981).
Lost(k) == \E n \in DOMAIN stream : k \in FramesBefore(stream, n) + 4 .. FramesBefore(stream, n + 1)

-----------------------------------------------------------------------------
Never == 1000   \* no sample has this number

Init ==
  /\ movie \in Movies
  /\ g = Opened(movie.packed, movie.slots)
  /\ inflight = <<>>
  /\ next = 1
  /\ screen = [number |-> 0, picture |-> Nothing]
  /\ settled = IF movie.badlyFramed > 0 THEN Never ELSE 1
  /\ seeks = 0 /\ requeues = 0
  /\ closed = FALSE

NewRecord(n, isDecoded) ==
  [codecData |-> SampleBytes(stream, n), frameType |-> IF IsKey(stream, n) THEN "Key" ELSE "Difference",
   decoded |-> isDecoded, frameNumber |-> 0, GOPStartFrameNumber |-> 0, bufferSize |-> 0,
   buffer |-> None, frameData |-> NULL, drawn |-> FALSE]

Begin(n, isDecoded) ==
  /\ Len(inflight) < movie.inFlight
  /\ \E began \in {FFusionCodecBeginBand(g, Types(stream), NewRecord(n, isDecoded), n)} :
       g' = began.g /\ inflight' = Append(inflight, began.r)

BeginBand ==
  /\ ~closed /\ next <= Len(stream)
  /\ Begin(next, FALSE)
  /\ next' = next + 1
  /\ settled' = IF g'.packedType = "DELAY_BY_ONE_FRAME" /\ g.packedType # g'.packedType
                THEN next + 2 ELSE settled
  /\ UNCHANGED <<movie, screen, seeks, requeues, closed>>

\* A frame the codec still has, shown once more: icmFrameAlreadyDecoded.
BeginBandDecoded(n) ==
  /\ ~closed /\ KnowsOrder(g)
  /\ \E i \in DOMAIN g.avContext.anchors :
       g.pool.buffers[g.avContext.anchors[i]].picture[1] = InTurn(stream, n)
  /\ Begin(n, TRUE)
  /\ UNCHANGED <<movie, next, screen, settled, seeks, requeues, closed>>

Undecoded == {i \in DOMAIN inflight : ~inflight[i].decoded}

IsFirstUndecoded(i) == i \in Undecoded /\ \A j \in Undecoded : i <= j

DecodeBand(i) ==
  /\ IsFirstUndecoded(i)
  /\ movie.ahead \/ \A j \in 1 .. i - 1 : inflight[j].drawn
  /\ \E out \in {FFusionCodecDecodeBand(g, Types(stream), inflight[i])} :
       g' = out.g /\ inflight' = [inflight EXCEPT ![i] = out.r]
  /\ UNCHANGED <<movie, next, screen, settled, seeks, requeues, closed>>

\* In turn, or in any order when QuickTime knows it.
DrawBand(i) ==
  /\ ~inflight[i].drawn
  /\ inflight[i].decoded \/ IsFirstUndecoded(i)
  /\ KnowsOrder(g) \/ \A j \in 1 .. i - 1 : inflight[j].drawn
  /\ \E out \in {FFusionCodecDrawBand(g, Types(stream), inflight[i])} :
       /\ g' = out.g
       /\ inflight' = [inflight EXCEPT ![i] = [out.r EXCEPT !.drawn = TRUE]]
       /\ screen' = [number |-> inflight[i].frameNumber, picture |-> out.picture]
  /\ UNCHANGED <<movie, next, settled, seeks, requeues, closed>>

MayEnd(r) ==
  \/ r.drawn
  \/ r.decoded /\ KnowsOrder(g)
  \/ movie.drops /\ ~r.decoded /\ r.frameType = "DroppableDifference"

EndBand(i) ==
  /\ MayEnd(inflight[i])
  /\ inflight[i].decoded \/ IsFirstUndecoded(i)
  /\ g' = FFusionCodecEndBand(g, inflight[i])
  /\ inflight' = RemoveAt(inflight, i)
  /\ UNCHANGED <<movie, next, screen, settled, seeks, requeues, closed>>

EndAll(records) == FoldLeft(FFusionCodecEndBand, g, records)

\* The samples from i on, none of them decoded, are ended to be begun again.
Requeue(i) ==
  /\ requeues < movie.requeues
  /\ IsFirstUndecoded(i) /\ \A j \in i .. Len(inflight) : j \in Undecoded
  /\ g' = EndAll(SubSeq(inflight, i, Len(inflight)))
  /\ inflight' = SubSeq(inflight, 1, i - 1)
  /\ next' = inflight[i].frameNumber
  /\ requeues' = requeues + 1
  /\ UNCHANGED <<movie, screen, settled, seeks, closed>>

Seek(n) ==
  /\ ~closed /\ seeks < movie.seeks
  /\ IsKey(stream, n) /\ n # next
  /\ movie.seeksAhead \/ Jumped(g, n)
  /\ g' = EndAll(inflight)
  /\ inflight' = <<>>
  /\ next' = n
  /\ settled' = IF g.packedType = "DELAY_BY_ONE_FRAME" /\ Jumped(g, n) THEN n + 1 ELSE settled
  /\ screen' = [screen EXCEPT !.number = 0]
  /\ seeks' = seeks + 1
  /\ UNCHANGED <<movie, requeues, closed>>

Close ==
  /\ ~closed /\ inflight = <<>> /\ next > Len(stream)
  /\ g' = FFusionCodecClose(g)
  /\ closed' = TRUE
  /\ UNCHANGED <<movie, inflight, next, screen, settled, seeks, requeues>>

Next ==
  \/ BeginBand \/ Close
  \/ \E n \in DOMAIN stream : BeginBandDecoded(n) \/ Seek(n)
  \/ \E i \in DOMAIN inflight : DecodeBand(i) \/ DrawBand(i) \/ EndBand(i) \/ Requeue(i)

Spec == Init /\ [][Next]_vars

-----------------------------------------------------------------------------
Queued(d) ==
  UNION {{<<a, VisitedAt(d.arenas[a], k)>> : k \in 0 .. Visits(d.arenas[a]) - 1} : a \in DOMAIN d.arenas}

(* No pointer into the frame queue is to an array that was freed: the ones   *)
(* the codec and the records hold, and the prerequisites of frames that are  *)
(* still to be decoded.                                                      *)
TypeOK ==
  /\ g.packedType \in {"QUICKTIME_KNOWS_ORDER", "ALL_IN_FIRST_FRAME", "DELAY_BY_ONE_FRAME"}
  /\ g.begin.lastPFrameData # NULL => Allocated(g.data, g.begin.lastPFrameData)
  /\ \A i \in Undecoded :
       inflight[i].frameData # NULL => Allocated(g.data, inflight[i].frameData)
  /\ \A f \in {x \in Queued(g.data) : x[2] \in DOMAIN g.data.arenas[x[1]].frames} :
       ~Frame(g.data, f).decoded /\ Frame(g.data, f).prereqFrame # NULL
         => Allocated(g.data, Frame(g.data, f).prereqFrame)

(* What is on the screen is the picture of the sample that was drawn, in     *)
(* display order, whole and decoded from the right references, whatever was  *)
(* dropped, decoded ahead, begun again or jumped over before it.  Where a    *)
(* Lost frame is in turn the picture is another.                             *)
ShowsPictureInTurn ==
  screen.number >= settled /\ ~Lost(InTurn(stream, screen.number)) =>
    screen.picture = <<InTurn(stream, screen.number), TRUE>>

(* The references are flushed only for a sample that is not of the group of  *)
(* pictures of the sample decoded before it, or comes before that one.  A    *)
(* sample begun again gets the group of the newest key frame begun and may   *)
(* be flushed for inside its own: movies with such samples are not asked.    *)
FlushOnlyForNewGOP ==
  \A i \in Undecoded :
    movie.requeues = 0 /\ IsFirstUndecoded(i) /\ NewGOP(g, inflight[i]) =>
      \/ IsKey(stream, inflight[i].frameNumber)
      \/ inflight[i].frameNumber < g.decode.lastFrame
      \/ \E n \in g.decode.lastFrame + 1 .. inflight[i].frameNumber : IsKey(stream, n)

\* What QuickTime must go on doing, each call told by what it alone does: it begins
\* samples as long as it has room for them, draws them and ends the drawn ones.
Begins == ~closed /\ next <= Len(stream) /\ Len(inflight) < movie.inFlight /\ next' = next + 1

Draws(i) ==
  /\ i \in DOMAIN inflight /\ ~inflight[i].drawn /\ \A j \in 1 .. i - 1 : inflight[j].drawn
  /\ \E p \in {Nothing} \cup {<<k, b>> : k \in DOMAIN Types(stream), b \in BOOLEAN} :
       screen' = [number |-> inflight[i].frameNumber, picture |-> p]

Ends(i) == i \in DOMAIN inflight /\ inflight[i].drawn /\ inflight' = RemoveAt(inflight, i)

MostInFlight == CHOOSE n \in {m.inFlight : m \in Movies} : \A m \in Movies : m.inFlight <= n

Fairness ==
  /\ WF_next(Begins)
  /\ \A i \in 1 .. MostInFlight : WF_screen(Draws(i)) /\ WF_inflight(Ends(i))

FairSpec == Init /\ [][Next]_vars /\ Fairness

Longest == CHOOSE n \in {Len(m.samples) : m \in Movies} : \A m \in Movies : Len(m.samples) <= n


-----------------------------------------------------------------------------
(* Movies of a few groups of pictures. *)

I == <<"I">>
P == <<"P">>
B == <<"B">>
N == <<"N">>
PB == <<"P", "B">>
PBB == <<"P", "B", "B">>
PBBB == <<"P", "B", "B", "B">>

\* A movie that is played from its start to its end without a hitch.
Played(samples, packed, inFlight) ==
  [MovieShape EXCEPT !.samples = samples, !.packed = packed, !.inFlight = inFlight,
                     !.slots = 16, !.ahead = TRUE]

\* "Ex: I, PB, -, PB, -, I", and the form with a second B frame of its own.
Packed(inFlight) ==
  {Played(<<I, PB, N, PB, N, I>>, "ALL_IN_FIRST_FRAME", inFlight),
   Played(<<I, P, PB, B, N, I>>, "ALL_IN_FIRST_FRAME", inFlight)}

\* "a P frame and all subsequent B frames in a single frame": two B frames, the second of
\* which is left unparsed until the next sample, and three.
LeavesUnparsed(inFlight) ==
  {Played(<<I, PBB, N, N, PB, N, I>>, "ALL_IN_FIRST_FRAME", inFlight),
   Played(<<I, PBBB, N, N, N, PB, N, I>>, "ALL_IN_FIRST_FRAME", inFlight)}

\* "Ex: I, P, B, P, B, P, I"
Delayed(inFlight) ==
  [Played(<<I, P, B, P, B, I, P>>, "ALL_IN_FIRST_FRAME", inFlight) EXCEPT !.badlyFramed = 7]

\* A movie that begins so and "seems to be switching back to packed in one frame".
SwitchesBack(inFlight) ==
  [Played(<<I, P, B, P, B, PB, N, PB, N, I>>, "ALL_IN_FIRST_FRAME", inFlight)
     EXCEPT !.badlyFramed = 5]

\* Dropped frames, a seek, and a frame array that has to grow.
Handled ==
  {[m EXCEPT !.drops = TRUE, !.seeks = 1, !.seeksAhead = TRUE, !.slots = 5] : m \in Packed(2)}
    \cup {[Delayed(2) EXCEPT !.drops = TRUE, !.seeks = 1, !.ahead = FALSE],
          [Played(<<I, P, B>>, "QUICKTIME_KNOWS_ORDER", 2)
             EXCEPT !.drops = TRUE, !.seeks = 1, !.seeksAhead = TRUE]}

\* Samples that are put back and begun again.
Requeued == {[m EXCEPT !.requeues = 2] : m \in Packed(3) \cup LeavesUnparsed(3)}

MCMovies == Handled \cup Requeued \cup LeavesUnparsed(2) \cup {Delayed(3), SwitchesBack(2), SwitchesBack(3)}

\* A program that drops frames without being told to.
MCProcess == [name |-> "QuickTime Player", minor |-> 6, lists |-> [key \in {} |-> ""]]
=============================================================================
