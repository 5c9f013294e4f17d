---------------------------- MODULE MatroskaTrack ----------------------------
(***************************************************************************)
(* MatroskaTrack, MatroskaImportPrivate.cpp: the blocks of a track become  *)
(* samples of a QuickTime media, whose durations the file does not tell    *)
(* and whose decode times must be found by sorting.  A track t is a record *)
(* with the members of the class; a frame is [pts, dts, duration, timed],  *)
(* timed telling whether the duration was found from a later frame.        *)
(* table holds the numSamples samples from firstSample on (firstSample is  *)
(* -1 when there are none), media the samples the media has got.  Times    *)
(* are in units of the timecode scale.  Text subtitles are the business of *)
(* SubSerializerSpec.                                                      *)
(***************************************************************************)
EXTENDS Integers, Sequences, SequencesExt, FiniteSetsExt, Functions, TLC

CONSTANT MAX_DECODE_DELAY

ASSUME DelayAssumption == MAX_DECODE_DELAY \in Nat

\* A track as its entry in the file describes it.
NewTrack(type, usesLacing, desc, defaultDuration) ==
  [type |-> type, usesLacing |-> usesLacing, desc |-> desc, defaultDuration |-> defaultDuration,
   lastFrames |-> <<>>, currentFrame |-> 0, ptsReorder |-> <<>>, durationForPTS |-> <<>>,
   table |-> <<>>, media |-> <<>>, seenFirstBlock |-> FALSE, lowestPTS |-> 0,
   durationToAdd |-> 0, displayOffsetSum |-> 0, durationSinceZeroSum |-> 0,
   maxLoadedTime |-> 0, trackOffset |-> 0]

\* A region of the media ends where no frame is waiting to be displayed after it: where
\* the display offsets sum up to zero.  A frame of a VobSub track is a region of its own.
AddFrame(t, f) ==
  LET duration == IF f.duration = 0 /\ t.type # "subtitle" THEN Max({t.defaultDuration, 1}) ELSE f.duration
      sample == [f EXCEPT !.duration = duration]
      offsets == t.displayOffsetSum + f.pts - f.dts
      region == t.durationSinceZeroSum + duration
  IN IF ~t.desc THEN t
     ELSE IF t.type = "subtitle" THEN [t EXCEPT !.media = Append(@, sample)]
     ELSE [t EXCEPT !.table = Append(@, sample), !.displayOffsetSum = offsets,
                    !.durationToAdd = IF offsets = 0 THEN @ + region ELSE @,
                    !.durationSinceZeroSum = IF offsets = 0 THEN 0 ELSE region]

\* Faulty: the remainder is lost.
FlushEven(t, pts) ==
  LET n == Len(t.lastFrames)
      duration == IF n > 0 THEN pts - t.lastFrames[1].pts ELSE 0
      frames == [i \in 1 .. n |-> [t.lastFrames[i] EXCEPT !.duration = duration \div n, !.timed = TRUE]]
  IN IF duration > 0 THEN [FoldLeft(AddFrame, t, frames) EXCEPT !.lastFrames = <<>>] ELSE t

\* The frames that wait are added when a block with a later time comes, which tells how
\* long they last together; the latter ones get the remainder.
FlushLaced(t, pts) ==
  LET n == Len(t.lastFrames)
      duration == IF n > 0 THEN pts - t.lastFrames[1].pts ELSE 0
      Share(i) == duration \div n + (IF duration % n >= n - (i - 1) THEN 1 ELSE 0)
      frames == [i \in 1 .. n |-> [t.lastFrames[i] EXCEPT !.duration = Share(i), !.timed = TRUE]]
  IN IF duration > 0 THEN [FoldLeft(AddFrame, t, frames) EXCEPT !.lastFrames = <<>>] ELSE t

\* The decode time of the next frame is the second of the times that wait, in order; the
\* gap between the two is the duration of the frame displayed at the first, which may be
\* the frame at the head of those waiting.
Reorder(t) ==
  LET sorted == SortSeq(t.ptsReorder, <)
      curr == t.lastFrames[t.currentFrame + 1]
      frames == [t.lastFrames EXCEPT ![t.currentFrame + 2].dts = sorted[2]]
      durations == (curr.dts :> (sorted[2] - curr.dts)) @@ t.durationForPTS
      moved == [t EXCEPT !.lastFrames = frames, !.ptsReorder = Tail(sorted)]
      first == frames[1]
  IN IF first.pts \in DOMAIN durations
     THEN [AddFrame(moved, [first EXCEPT !.duration = durations[first.pts], !.timed = TRUE])
             EXCEPT !.lastFrames = Tail(frames),
                    !.durationForPTS = Restrict(durations, DOMAIN durations \ {first.pts})]
     ELSE [moved EXCEPT !.durationForPTS = durations, !.currentFrame = @ + 1]

\* Tracks that cannot have B frames.
InOrder(t) == t.usesLacing \/ t.type # "video"

\* Faulty: the first two times that come are taken for the first two in order.
TimedEarly(t, pts) ==
  IF InOrder(t) THEN FlushLaced(t, pts)
  ELSE IF Len(t.ptsReorder) - t.currentFrame > 1 THEN Reorder(t)
  ELSE t

\* What a block of time pts tells of the frames that came before it.
Timed(t, pts) ==
  IF InOrder(t) THEN FlushLaced(t, pts)
  ELSE IF Len(t.ptsReorder) - t.currentFrame > MAX_DECODE_DELAY + 1 THEN Reorder(t)
  ELSE t

\* ParseFirstBlock.  (That it may find a better sound description is left out.)
SeeBlock(t, pts) ==
  IF t.seenFirstBlock THEN t ELSE [t EXCEPT !.seenFirstBlock = TRUE, !.lowestPTS = pts]

\* A block is [pts, frames, duration]; a duration of 0 is one the file does not tell.
AddBlock(t, block) ==
  LET frame == [pts |-> block.pts, dts |-> block.pts, timed |-> FALSE,
                duration |-> IF block.duration > 0 THEN block.duration ELSE t.defaultDuration]
      frames == [i \in 1 .. block.frames |-> frame]
      ready == Timed(SeeBlock(t, block.pts), block.pts)
  IN IF t.type = "subtitle" THEN FoldLeft(AddFrame, ready, frames)
     ELSE [ready EXCEPT !.lastFrames = @ \o frames,
                        !.ptsReorder = IF InOrder(t) THEN @ ELSE @ \o [i \in 1 .. block.frames |-> block.pts]]

\* The samples go from the table to the media, and what is closed of the media to the
\* track.  (QuickTime's calls do not fail; when one did, what it had not done was lost.)
AddSamplesToTrack(t) ==
  IF t.type = "subtitle" \/ (t.durationToAdd = 0 /\ t.table = <<>>) THEN t
  ELSE [t EXCEPT !.table = <<>>, !.media = @ \o t.table,
                 !.durationToAdd = 0, !.maxLoadedTime = @ + t.durationToAdd,
                 !.trackOffset = IF t.maxLoadedTime = 0 THEN t.lowestPTS ELSE @]

\* The frames that wait are added with the durations they came with.
FinishTrack(t) ==
  AddSamplesToTrack([FoldLeft(AddFrame, t, t.lastFrames) EXCEPT !.lastFrames = <<>>])
=============================================================================
