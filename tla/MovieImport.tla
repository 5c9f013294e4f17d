----------------------------- MODULE MovieImport -----------------------------
(***************************************************************************)
(* The importer of AVI, FLV, NUV and TTA files, ff_MovieImport.c and       *)
(* ff_private.c: what libavformat's index or its packets tell becomes      *)
(* samples of QuickTime media, which go to the tracks at once or bit by    *)
(* bit while the file arrives.  A file is                                  *)
(*   kind     "avi", "flv" or "nuv"                                        *)
(*   chunks   those of an AVI file's header, [tag, list, type, codec]      *)
(*   streams  [type, codec, vbr, num, scale, rate]: a tick is num / scale  *)
(*            seconds; rate is FALSE for audio without a sample rate       *)
(*   packets  what av_read_frame gives, [stream, dts, pts, size, duration, *)
(*            pos]: pos is -1 if it is not known, and pts 0                *)
(*   index    for each stream its entries, [timestamp, size, pos], where   *)
(*            pos is shift less than the position in the file              *)
(*   size     in bytes; duration in seconds, 0 if it is not known          *)
(* A sample is [pos, count, duration]: count samples of one duration.      *)
(***************************************************************************)
EXTENDS Integers, Sequences, SequencesExt, FiniteSetsExt, Functions, TLC

CONSTANTS Files,            \* bound: the files that are imported
          MaxStreams,       \* 16 in the code
          MovieScale,       \* the time scale of the movie
          FirstMin, FirstMax, IdleMax,  \* 10, 300 and 1000: frames of the first call and of the others
          IdlesPerAdd,      \* 5: idles between two additions when paused
          Ahead, Fudge,     \* five seconds; 8 packets
          MovieTimes,       \* bound: where the movie may be when it idles
          Chunk             \* bound: the bytes that arrive at a time

VARIABLES
  file,
  phase,                    \* where ImportDataRef or import_with_idle is, and how it ended
  withIdle, inIdle,         \* movieImportWithIdle; whether Idle called import_with_idle
  hadIndex, header_offset,
  stream_map,               \* for each stream its NCStream, with its media and its track
  call,                     \* the local variables of import_with_idle
  next,                     \* the packet av_read_frame gives next
  available,                \* the bytes of the file that have arrived
  largestPacketSize, loadState, loadedTime, placeholder, idlesSinceLastAdd, lastIdleTime

header == <<file, withIdle, hadIndex, header_offset>>
idling == <<idlesSinceLastAdd, lastIdleTime>>
vars == <<header, phase, inIdle, stream_map, call, next, available, largestPacketSize, loadState, loadedTime,
          placeholder, idling>>

Streams == DOMAIN file.streams
Stream(i) == file.streams[i]

\* What GetMediaDuration answers.
MediaDuration(media) ==
  LET upTo[k \in 0 .. Len(media)] ==
        IF k = 0 THEN 0 ELSE upTo[k - 1] + media[k].count * media[k].duration
  IN upTo[Len(media)]

\* ConvertTimeScale, from the media of stream i to the movie.
ToMovie(i, time) == (MovieScale * time) \div Stream(i).scale

-----------------------------------------------------------------------------
(* Opening the file, and the tracks. *)

NoSample == [pos |-> 0, count |-> 0, duration |-> 0]

\* A stream of the map; a stream that is not valid has no description to import samples for.
NewStream(valid) ==
  [valid |-> valid, media |-> <<>>, lastSample |-> NoSample, lastdts |-> 0, duration |-> -1,
   regions |-> <<>>, offset |-> 0]

NoCall == [idling |-> FALSE, minFrames |-> 0, maxFrames |-> 0, addSamples |-> FALSE, availableSize |-> 0,
           framesProcessed |-> 0, firstPts |-> <<>>, ended |-> FALSE]

Init ==
  /\ file \in Files /\ phase = "open" /\ withIdle \in BOOLEAN /\ inIdle = FALSE
  /\ hadIndex = FALSE /\ header_offset = 0 /\ stream_map = <<>> /\ call = NoCall
  /\ next = 1 /\ available \in {Min({Chunk, file.size}), file.size} /\ largestPacketSize = 0
  /\ loadState = "loading" /\ loadedTime = 0 /\ placeholder = FALSE
  /\ idlesSinceLastAdd = 0 /\ lastIdleTime = 0

Ended(how, state) ==
  /\ phase' = how /\ loadState' = state
  /\ UNCHANGED <<header, inIdle, stream_map, call, next, available, largestPacketSize, loadedTime, placeholder, idling>>

\* The file cannot be opened, or a call of libavformat or a track fails.
ImportFails == phase \in {"open", "prepare"} /\ Ended("failed", "error")

\* A chunk that get_avi_strf_fourcc takes the codec from, in a list that it looks into: a
\* format, or the header of a DV stream.
TellsCodec(c) ==
  c.list \in {"hdrl", "strl"} /\ (c.tag = "strf" \/ (c.tag = "strh" /\ c.type \in {"iavs", "ivas"}))

get_avi_strf_fourcc(f) ==
  LET told == {k \in DOMAIN f.chunks : TellsCodec(f.chunks[k])}
  IN IF told = {} THEN "none" ELSE f.chunks[Min(told)].codec

\* The codecs that are left to the importer of QuickTime itself.
LeftToApple == {"mjpeg", "dvvideo", "rawvideo", "msvideo1", "msrle"}

ValidateDataRef(f) == f.kind # "avi" \/ get_avi_strf_fourcc(f) \notin LeftToApple

\* A file without streams is an error; one of too many is not, nor one that is left to
\* another importer, and nothing is imported.
WrongStreams ==
  /\ phase = "open"
  /\ \/ ~ValidateDataRef(file) /\ Ended("done", "loaded")
     \/ ValidateDataRef(file) /\ file.streams = <<>> /\ Ended("failed", "error")
     \/ ValidateDataRef(file) /\ Len(file.streams) >= MaxStreams /\ Ended("done", "loaded")

\* Where the index begins: the difference for the packet p that libavformat decodes first
\* and the entry of its time.
HeaderOffset(p) ==
  LET index == file.index[p.stream]
      entries == {k \in DOMAIN index : index[k].timestamp = p.dts}
  IN IF entries = {} THEN 0 ELSE p.pos - index[Min(entries)].pos

\* determine_header_offset, before which it is seen whether there is an index.
DetermineHeaderOffset ==
  /\ phase = "open" /\ ValidateDataRef(file) /\ Len(file.streams) \in 1 .. MaxStreams - 1
  /\ phase' = "prepare"
  /\ hadIndex' = (\A i \in Streams : Len(file.index[i]) > 1)
  /\ IF file.kind = "flv" \/ file.index[1] = <<>> THEN header_offset' = 0
     ELSE \E k \in DOMAIN file.packets :
            /\ file.packets[k].size > 0 /\ k <= Len(file.streams)
            /\ header_offset' = HeaderOffset(file.packets[k])
  /\ UNCHANGED <<file, withIdle, inIdle, stream_map, call, next, available, largestPacketSize, loadState, loadedTime,
                 placeholder, idling>>

\* initialize_video_map makes a media and a description; initialize_audio_map may find no
\* format; other streams, and audio without a sample rate, get no track.
MayBeValid(s) ==
  CASE s.type = "video" -> {TRUE}
    [] s.type = "audio" -> {FALSE} \cup {s.rate}
    [] OTHER -> {FALSE}

PrepareMovie ==
  /\ phase = "prepare" /\ phase' = "prepared"
  /\ \E valid \in [Streams -> BOOLEAN] :
       /\ \A i \in Streams : valid[i] \in MayBeValid(Stream(i))
       /\ stream_map' = [i \in Streams |-> NewStream(valid[i])]
  /\ UNCHANGED <<header, inIdle, call, next, available, largestPacketSize, loadState, loadedTime, placeholder, idling>>

-----------------------------------------------------------------------------
(* The import along the index. *)

\* The members of a sequence at the places of a set, in their order.
Picked(s, places) ==
  LET upTo[k \in 0 .. Len(s)] ==
        IF k = 0 THEN <<>> ELSE IF k \in places THEN Append(upTo[k - 1], s[k]) ELSE upTo[k - 1]
  IN upTo[Len(s)]

\* Entries without data make the frame before them longer.
FrameTicks(i, k) ==
  LET entries == file.index[i]
      later == {l \in k + 1 .. Len(entries) : entries[l].size > 0}
  IN (IF later = {} THEN Len(entries) + 1 ELSE Min(later)) - k

\* How many samples of constant size fit in so many bytes: mFramesPerPacket / mBytesPerPacket
\* for a file whose frames are a byte.
SamplesIn(size) == size

\* The sample of entry k; the last of a stream of varying packets is as long as the one
\* before.  The unit of a video sample is that of the first stream.
IndexSample(i, k) ==
  LET e == file.index[i][k]
      Gap(j) == file.index[i][j + 1].timestamp - file.index[i][j].timestamp
      pos == header_offset + e.pos
  IN IF Stream(i).type = "video"
     THEN [pos |-> pos, count |-> 1, duration |-> Stream(1).num * FrameTicks(i, k)]
     ELSE IF Stream(i).vbr
     THEN [pos |-> pos, count |-> 1,
           duration |-> Stream(i).num * Gap(IF k < Len(file.index[i]) THEN k ELSE k - 1)]
     ELSE [pos |-> pos, count |-> SamplesIn(e.size), duration |-> 1]

\* The samples of stream i, one for each entry with data.
IndexMedia(i) ==
  LET entries == file.index[i]
  IN Picked([k \in DOMAIN entries |-> IndexSample(i, k)], {k \in DOMAIN entries : entries[k].size > 0})

\* A track that begins later than the movie is put off.
StartDelay(i) == ToMovie(i, file.index[i][1].timestamp * Stream(i).num)

ImportUsingIndex ==
  LET Imported(i) ==
        IF ~stream_map[i].valid THEN stream_map[i]
        ELSE [stream_map[i] EXCEPT !.media = IndexMedia(i), !.offset = StartDelay(i),
                                   !.regions = << <<0, MediaDuration(IndexMedia(i))>> >>]
      map == [i \in Streams |-> Imported(i)]
  IN /\ phase = "prepared" /\ hadIndex /\ file.kind # "flv"
     /\ stream_map' = map /\ phase' = "done" /\ loadState' = "loaded"
     /\ loadedTime' = Max({0} \cup {ToMovie(i, MediaDuration(map[i].media)) : i \in Streams})
     /\ UNCHANGED <<header, inIdle, call, next, available, largestPacketSize, placeholder, idling>>

\* "FLVs have unusable indexes, so don't even bother": but hadIndex stays, and the import
\* is complete.
SkipIndex == phase = "prepared" /\ hadIndex /\ file.kind = "flv" /\ Ended("done", "loaded")

-----------------------------------------------------------------------------
(* import_with_idle, one packet at a time. *)

\* The duration of each media is noted, if what was added to it since is in its track.
Begin(idle, minFrames, maxFrames, add) ==
  /\ phase' = "reading"
  /\ stream_map' = [i \in Streams |->
       [stream_map[i] EXCEPT !.duration = IF @ = -1 THEN MediaDuration(stream_map[i].media) ELSE @]]
  /\ call' = [NoCall EXCEPT !.idling = idle, !.minFrames = minFrames, !.maxFrames = maxFrames, !.addSamples = add,
                            !.availableSize = IF idle THEN available ELSE 0,
                            !.firstPts = [i \in Streams |-> -1]]

\* A file without an index; a placeholder gives the movie its length meanwhile.
ImportWithIdle ==
  /\ phase = "prepared" /\ ~hadIndex
  /\ placeholder' = (withIdle /\ file.duration > 0)
  /\ IF withIdle THEN Begin(TRUE, FirstMin, FirstMax, TRUE) ELSE Begin(FALSE, 0, 0, TRUE)
  /\ UNCHANGED <<header, inIdle, next, available, largestPacketSize, loadState, loadedTime, idling>>

\* The data handler has more of the file.
DataArrives ==
  /\ phase \in {"reading", "idle"} /\ available < file.size
  /\ available' = Min({available + Chunk, file.size})
  /\ UNCHANGED <<header, phase, inIdle, stream_map, call, next, largestPacketSize, loadState, loadedTime, placeholder, idling>>

\* The durations that are no guess of the demuxer.
TrustPacketDuration(f, i) == f.kind # "flv" /\ ~(f.kind = "nuv" /\ f.streams[i].codec = "mp3")

ConstantSize(s) == s.type = "audio" /\ ~s.vbr

SampleOf(p) ==
  [pos |-> p.pos, duration |-> 0, count |-> IF ConstantSize(Stream(p.stream)) THEN SamplesIn(p.size) ELSE 1]

\* Faulty: a sample that waits is forgotten when the next tells its duration.
AddWaitingShort(s, p) ==
  IF s.lastSample.count = 0 \/ p.duration > 0 THEN s
  ELSE [s EXCEPT !.media = Append(@, [s.lastSample EXCEPT !.duration = (p.dts - s.lastdts) * Stream(p.stream).num])]

\* A sample that waits lasts until p.
AddWaiting(s, p) ==
  IF s.lastSample.count = 0 THEN s
  ELSE [s EXCEPT !.media = Append(@, [s.lastSample EXCEPT !.duration = (p.dts - s.lastdts) * Stream(p.stream).num])]

\* Packet p of s: it waits for the next one if it does not tell its duration.
AddPacket(s, p) ==
  LET sample == SampleOf(p)
      ready == [AddWaiting(s, p) EXCEPT !.lastdts = p.dts]
      ticks == IF ConstantSize(Stream(p.stream)) THEN 1 ELSE Stream(p.stream).num * p.duration
  IN IF p.duration = 0 \/ ~TrustPacketDuration(file, p.stream) THEN [ready EXCEPT !.lastSample = sample]
     ELSE [ready EXCEPT !.lastSample = NoSample, !.media = Append(@, [sample EXCEPT !.duration = ticks])]

\* Faulty: what the packet takes up itself is forgotten.
MarginFromStart(p) == call.availableSize - p.pos

\* What has arrived behind packet p, when import_with_idle began.
Margin(p) == call.availableSize - (p.pos + p.size)

\* The data that has arrived will not last.
RunsShort(p, frames, largest) ==
  /\ call.idling /\ frames >= call.minFrames
  /\ call.availableSize \in 1 .. file.size - 1
  /\ Margin(p) < Fudge * largest

FrameLimit(frames) == call.maxFrames > 0 /\ frames >= call.maxFrames

\* The time of the first packet a call gets of a stream.
FirstPts(p) == IF call.firstPts[p.stream] < 0 THEN p.pts ELSE call.firstPts[p.stream]

\* A turn of the loop; a read of what has not arrived waits for it.
ReadFrame ==
  LET p == file.packets[next]
      valid == stream_map[p.stream].valid
      largest == Max({largestPacketSize, p.size})
      frames == call.framesProcessed + 1
      seen == [call EXCEPT !.firstPts[p.stream] = FirstPts(p)]
  IN /\ phase = "reading" /\ next <= Len(file.packets)
     /\ next' = next + 1 /\ available' = Max({available, p.pos + p.size})
     /\ IF ~valid \/ p.pos <= 0 THEN UNCHANGED <<phase, stream_map, call, largestPacketSize>>
        ELSE IF p.size = 0 THEN call' = seen /\ UNCHANGED <<phase, stream_map, largestPacketSize>>
        ELSE /\ largestPacketSize' = largest
             /\ call' = [seen EXCEPT !.framesProcessed = frames]
             /\ stream_map' = [stream_map EXCEPT ![p.stream] = AddPacket(@, p)]
             /\ phase' = IF RunsShort(p, frames, largest) \/ FrameLimit(frames) THEN "returning" ELSE "reading"
     /\ UNCHANGED <<header, inIdle, loadState, loadedTime, placeholder, idling>>

\* The end of the file, or a read that fails: samples that wait are added as they are.
ReadEnds ==
  /\ phase = "reading" /\ phase' = "returning" /\ call' = [call EXCEPT !.ended = TRUE]
  /\ stream_map' = [i \in Streams |->
       [stream_map[i] EXCEPT !.media = IF stream_map[i].lastSample.count > 0 THEN Append(@, stream_map[i].lastSample) ELSE @]]
  /\ UNCHANGED <<header, inIdle, next, available, largestPacketSize, loadState, loadedTime, placeholder, idling>>

\* The streams whose samples the call gives to their tracks.
ToTrack == {i \in Streams : stream_map[i].valid /\ (call.addSamples \/ call.ended)}

\* Faulty: the duration is forgotten whether or not it was used.
InsertedAlways(i) ==
  LET s == stream_map[i]
      duration == MediaDuration(s.media)
  IN IF i \notin ToTrack THEN [s EXCEPT !.duration = -1]
     ELSE [s EXCEPT !.regions = IF duration > s.duration THEN Append(@, <<s.duration, duration>>) ELSE @,
                    !.offset = IF s.duration = 0 /\ call.firstPts[i] > 0 THEN ToMovie(i, call.firstPts[i] * Stream(i).num) ELSE @,
                    !.duration = -1]

\* What the media has got since its duration was noted goes to the track.
Inserted(i) ==
  LET s == stream_map[i]
      duration == MediaDuration(s.media)
  IN IF i \notin ToTrack THEN s
     ELSE [s EXCEPT !.regions = IF duration > s.duration THEN Append(@, <<s.duration, duration>>) ELSE @,
                    !.offset = IF s.duration = 0 /\ call.firstPts[i] > 0 THEN ToMovie(i, call.firstPts[i] * Stream(i).num) ELSE @,
                    !.duration = -1]

\* Faulty: the longest track.
ShortestLongest == Max({0} \cup {ToMovie(i, MediaDuration(stream_map[i].media)) : i \in ToTrack})

\* "set the loaded time to the length of the shortest track."
Shortest == IF ToTrack = {} THEN 0 ELSE Min({ToMovie(i, MediaDuration(stream_map[i].media)) : i \in ToTrack})

\* Faulty: a read that fails is tried again.
CompleteAtEnd == call.ended /\ next > Len(file.packets)

Complete == call.ended

\* The end of import_with_idle.  ImportDataRef sets a load state of its own.
Return ==
  LET time == IF Shortest > 0 THEN Shortest ELSE loadedTime
  IN /\ phase = "returning" /\ phase' = IF Complete THEN "done" ELSE "idle"
     /\ stream_map' = [i \in Streams |-> Inserted(i)] /\ loadedTime' = time
     /\ placeholder' = (placeholder /\ ~Complete)
     /\ loadState' \in IF ~inIdle THEN {"loaded"} ELSE IF Complete THEN {"complete"}
                       ELSE IF time > 2 * Ahead THEN {"playable", "playthrough"} ELSE {"playable"}
     /\ call' = NoCall
     /\ UNCHANGED <<header, inIdle, next, available, largestPacketSize, idling>>

\* Samples go to the tracks every so many idles when paused, or when the movie is about
\* to run out of them.
Due(now) == (now = lastIdleTime /\ idlesSinceLastAdd + 1 > IdlesPerAdd) \/ loadedTime < now + Ahead

Idle(now) ==
  /\ phase = "idle" /\ inIdle' = TRUE
  /\ idlesSinceLastAdd' = (IF Due(now) THEN 0 ELSE idlesSinceLastAdd + 1) /\ lastIdleTime' = now
  /\ Begin(TRUE, 0, IdleMax, Due(now))
  /\ UNCHANGED <<header, next, available, largestPacketSize, loadState, loadedTime, placeholder>>

Next ==
  \/ ImportFails \/ WrongStreams \/ DetermineHeaderOffset \/ PrepareMovie
  \/ ImportUsingIndex \/ SkipIndex \/ ImportWithIdle
  \/ DataArrives \/ ReadFrame \/ ReadEnds \/ Return
  \/ \E now \in MovieTimes : Idle(now)

Spec == Init /\ [][Next]_vars

\* ImportDataRef and import_with_idle run on; QuickTime idles an importer that asked for it.
FairSpec ==
  /\ Spec
  /\ WF_vars(WrongStreams \/ DetermineHeaderOffset) /\ WF_vars(PrepareMovie)
  /\ WF_vars(ImportUsingIndex \/ SkipIndex \/ ImportWithIdle)
  /\ []<>(phase # "reading") \/ []<><<ReadFrame \/ ReadEnds>>_vars
  /\ WF_vars(Return)
  /\ []<>(phase # "idle") \/ []<><<\E now \in MovieTimes : Idle(now)>>_vars

-----------------------------------------------------------------------------
(* The packets of stream i with data in the file, those that were imported, *)
(* and the samples they became.  An FLV file whose streams all have an      *)
(* index of more than one entry is not imported at all (SkipIndex).         *)
HasSample(p) == p.pos > 0 /\ p.size > 0
PacketsOf(i, ps) == Picked(ps, {k \in DOMAIN ps : ps[k].stream = i /\ HasSample(ps[k])})
Imported(i) ==
  IF ~hadIndex THEN PacketsOf(i, SubSeq(file.packets, 1, next - 1))
  ELSE IF phase = "done" /\ file.kind # "flv" THEN PacketsOf(i, file.packets) ELSE <<>>
Waiting(i) == stream_map[i].lastSample.count > 0 /\ ~call.ended /\ phase # "done"
SamplesOf(i) == stream_map[i].media \o (IF Waiting(i) THEN <<stream_map[i].lastSample>> ELSE <<>>)
Valid == {i \in DOMAIN stream_map : stream_map[i].valid}
TrackEnd(i) == LET rs == stream_map[i].regions IN IF rs = <<>> THEN 0 ELSE Last(rs)[2]

(* Along the index or packet by packet, whether or not durations are told   *)
(* and in however many calls: the samples of a media are the packets of its *)
(* stream, each once and in turn, at their place in the file, and at the    *)
(* time the file tells for them; and an AVI file of video that is left to   *)
(* QuickTime's own importer gets none.  Packets whose place is not known,   *)
(* and FLV files with an index of all streams, get no samples.              *)
MediaTellsFile ==
  \A i \in Valid :
    LET ps == Imported(i)
        ss == SamplesOf(i)
    IN /\ file.kind = "avi" /\ Stream(1).type = "video" => Stream(1).codec \notin LeftToApple
       /\ Len(ss) = Len(ps)
       /\ \A k \in DOMAIN ss :
            /\ ss[k].pos = ps[k].pos
            /\ MediaDuration(SubSeq(ss, 1, k - 1)) = (ps[k].dts - ps[1].dts) * Stream(i).num

(* What the media gets while samples are not added, and what it gets in     *)
(* between, goes to the track later: the regions of the track meet, and     *)
(* they end where the media does, or did when its duration was noted.       *)
TrackHoldsMedia ==
  \A i \in Valid :
    LET s == stream_map[i]
        duration == MediaDuration(s.media)
    IN /\ \A k \in DOMAIN s.regions :
            s.regions[k][1] = IF k = 1 THEN 0 ELSE s.regions[k - 1][2]
       /\ IF s.duration = -1 THEN TrackEnd(i) = duration
          ELSE TrackEnd(i) = s.duration /\ s.duration <= duration

(* What GetMaxLoadedTime answers is in the tracks, in each of them, as long *)
(* as there is more to come: playing up to it shows no gap.                 *)
LoadedIsThere == ~hadIndex => \A i \in Valid : loadedTime <= ToMovie(i, TrackEnd(i))

(* What Fudge relies on: of the streams that get a track, the next packet   *)
(* ends at most Fudge packets, of the largest so far, behind the last one.  *)
EndOf(p) == p.pos + p.size
Counts(f, valid, k) == HasSample(f.packets[k]) /\ valid[f.packets[k].stream]
Interleaved(f) ==
  \A valid \in [DOMAIN f.streams -> BOOLEAN] :
    (\A i \in DOMAIN f.streams : valid[i] \in MayBeValid(f.streams[i])) =>
      \A k, n \in DOMAIN f.packets :
        k < n /\ Counts(f, valid, k) /\ (\A j \in k + 1 .. n - 1 : ~Counts(f, valid, j)) =>
          \E l \in 1 .. k :
            Counts(f, valid, l) /\ EndOf(f.packets[n]) <= EndOf(f.packets[k]) + Fudge * f.packets[l].size

ASSUME ImportAssumption ==
  /\ {FirstMin, FirstMax, IdleMax, Fudge} \subseteq Nat /\ Chunk \in Nat \ {0}
  /\ \A f \in Files :
       /\ f.size \in Nat /\ Interleaved(f)
       /\ f.packets = [k \in 1 .. Len(f.packets) |-> f.packets[k]] /\ Len(f.packets) \in Nat
       /\ \A k \in DOMAIN f.packets :
            LET p == f.packets[k]
            IN p.stream \in DOMAIN f.streams /\ p.pos \in Int /\ p.size \in Nat /\ EndOf(p) <= f.size

\* libavformat numbers the frames of a stream in the order they are decoded.
ASSUME TimesAssumption ==
  /\ MovieScale \in Nat
  /\ \A f \in Files :
       /\ \A i \in DOMAIN f.streams : f.streams[i].num \in Nat /\ f.streams[i].scale \in Nat \ {0}
       /\ \A k \in DOMAIN f.packets : f.packets[k].dts \in Int /\ f.packets[k].duration \in Nat
       /\ \A k, l \in DOMAIN f.packets :
            LET p == f.packets[k]
                q == f.packets[l]
            IN k < l /\ p.stream = q.stream /\ HasSample(p) /\ HasSample(q) => p.dts <= q.dts

\* The packets of stream i with data that follow one another.
HasData(f, i, k) == f.packets[k].stream = i /\ HasSample(f.packets[k])
Follows(f, i, k, l) ==
  /\ k < l /\ HasData(f, i, k) /\ HasData(f, i, l)
  /\ \A j \in k + 1 .. l - 1 : ~HasData(f, i, j)

\* Durations that are told last until the next packet.  A packet of many samples of one
\* size must tell its duration: one that waits for the next packet to tell it would get
\* that for each of its samples.
TellsDurations(f) ==
  \A i \in DOMAIN f.streams : \A k, l \in DOMAIN f.packets :
    Follows(f, i, k, l) =>
      LET p == f.packets[k]
          gap == f.packets[l].dts - p.dts
          told == p.duration > 0 /\ TrustPacketDuration(f, i)
      IN IF ConstantSize(f.streams[i]) THEN told /\ SamplesIn(p.size) = gap * f.streams[i].num
         ELSE told => p.duration = gap

\* The index has an entry for each packet of stream i, shifted, at times that rise: for each
\* frame of video, in the unit of the first stream.  Entries without data are for video
\* only; samples of one size last as long as there are.
OwnPackets(f, i) == Picked(f.packets, {k \in DOMAIN f.packets : f.packets[k].stream = i})
IndexedBy(f, i, shift) ==
  LET s == f.streams[i]
      own == OwnPackets(f, i)
      Gap(k) == own[k + 1].dts - own[k].dts
  IN /\ f.index[i] = [k \in DOMAIN own |-> [timestamp |-> own[k].dts, size |-> own[k].size, pos |-> own[k].pos - shift]]
     /\ \A k \in DOMAIN own : own[k].pos > 0
     /\ \A k, l \in DOMAIN own : k < l => own[k].dts < own[l].dts
     /\ s.type = "video" => s.num = f.streams[1].num /\ \A k \in DOMAIN own : own[k].dts = own[1].dts + k - 1
     /\ s.type = "audio" =>
          \A k \in DOMAIN own : own[k].size > 0 /\ (~s.vbr /\ k < Len(own) => SamplesIn(own[k].size) = Gap(k) * s.num)
Indexed(f) == \E shift \in -f.size .. f.size : \A i \in DOMAIN f.streams : IndexedBy(f, i, shift)

\* The first codec that the header of an AVI file tells is that of its first stream.
HeaderTells(f) ==
  \E k \in DOMAIN f.chunks :
    /\ TellsCodec(f.chunks[k]) /\ f.chunks[k].codec = f.streams[1].codec
    /\ \A j \in DOMAIN f.chunks : j < k => ~TellsCodec(f.chunks[j])

ASSUME TellsAssumption ==
  \A f \in Files :
    /\ Len(f.streams) \in Nat /\ DOMAIN f.streams = 1 .. Len(f.streams) /\ DOMAIN f.chunks \subseteq Nat
    /\ f.kind = "avi" /\ f.streams # <<>> => (f.streams[1].type = "video" => HeaderTells(f))
    /\ TellsDurations(f)
    /\ f.kind # "flv" /\ (\A i \in DOMAIN f.streams : Len(f.index[i]) > 1) => Indexed(f)

(* "try really not to read past the end of available data": what a call     *)
(* with idle reads, after the frames it must read and at least one, had     *)
(* arrived when it began.                                                   *)
StaysBehindData ==
  [][ phase = "reading" /\ next' # next /\ call.idling /\ call.framesProcessed >= Max({call.minFrames, 1})
        => file.packets[next].pos + file.packets[next].size <= call.availableSize ]_vars

(* Every import ends, in however many calls, when all of the file was read, *)
(* or with a failure.                                                       *)
ImportEnds == <>(phase \in {"done", "failed"})

=============================================================================
