---------------------------- MODULE MatroskaImport ----------------------------
(***************************************************************************)
(* MatroskaImport, MatroskaImport.cpp and MatroskaImportPrivate.cpp: a     *)
(* Matroska file becomes a QuickTime movie, at once or a cluster at each   *)
(* idle.  A file is                                                        *)
(*   elements  the level-1 elements in order, [kind, entries, blocks]: the *)
(*             entries <<[id, at], ...>> of a seek head, at being the      *)
(*             number of an element, and the blocks of each track that a   *)
(*             cluster holds                                               *)
(*   tracks    the track entries, [type, lang, enabled, lacing, duration,  *)
(*             known]                                                      *)
(*   streams   for each track entry its blocks                             *)
(*   chapters  the chapter atoms, [start, parent, hidden]; duration        *)
(* Elements are ElementSize bytes apart.                                   *)
(***************************************************************************)
EXTENDS MatroskaTrack

CONSTANTS Files,            \* bound: the files that are imported
          ElementSize, SegmentOffset,
          ScaleRatio,       \* how much shorter than a millisecond the file's time unit is
          IdlesPerAdd,      \* 20 in the code: idles between two additions when paused
          Ahead,            \* five seconds
          StackDepth,       \* bound: how many calls of ReadMetaSeek fit on the thread's stack
          MovieTimes        \* bound: where the movie may be when it idles

ASSUME OffsetAssumption == ElementSize \in Nat /\ SegmentOffset \in 1 .. ElementSize - 1

VARIABLES
  file,
  el_l1, position,          \* the current element (0 is NULL), and where the stream is
  levelOneElements,         \* the seek entries seen, in order
  stack,                    \* the seek heads being read, <<[head, entry], ...>>
  phase,                    \* where ImportDataRef is, and how it ended: done, failed, crashed
  withIdle, loadState, placeholder, idlesSinceLastAdd, lastIdleTime,
  seen,                     \* seenInfo, seenTracks, seenChapters
  tracks, chapters,
  given,                    \* for each track entry, the number of its blocks imported
  imported                  \* the clusters imported, in turn

walk == <<el_l1, position, levelOneElements, stack>>
header == <<seen, tracks, chapters>>
idling == <<loadState, placeholder, idlesSinceLastAdd, lastIdleTime>>
vars == <<file, walk, header, idling, phase, withIdle, given, imported>>

-----------------------------------------------------------------------------
(* The walk along the level-1 elements. *)

End == Len(file.elements)
Kind(p) == file.elements[p].kind

\* What ReadMetaSeek reads at once.
HeaderKinds == {"info", "tracks", "chapters", "attachments", "seek"}

\* operator>, with the entry's position in the segment and the element's in the file.
Beyond(entry, p) == entry.at * ElementSize > p * ElementSize + SegmentOffset

\* Where NextLevel1Element ends when the stream is at p; 0 is the end of the file.  From
\* a dummy element it jumps to the first element listed behind it.
NextFrom(p) ==
  LET Listed(q) == SelectSeq(levelOneElements, LAMBDA e : Beyond(e, q))
      At[q \in p .. End + 1] ==
        IF q > End THEN 0
        ELSE IF Kind(q) = "dummy" /\ Listed(q) # <<>> THEN At[Head(Listed(q)).at]
        ELSE q
  IN At[p]

\* Faulty: the current element is not skipped.
NextAgain == NextFrom(IF el_l1 # 0 THEN el_l1 ELSE position)

\* The current element is skipped and the next one found.
NextLevel1Element == NextFrom(IF el_l1 # 0 THEN el_l1 + 1 ELSE position)

\* SetContext with what SaveContext saved: the seek head is the current element again,
\* and the stream behind it, where reading it had left it.
SetContext(head) == el_l1' = head /\ position' = head + 1

-----------------------------------------------------------------------------
(* The header elements. *)

\* Info, Tracks and Chapters are read once.
Unseen(kind) == kind \notin seen

\* Default durations are in the unit the Info element tells, if it was read before.
DefaultDuration(entry) ==
  IF "info" \in seen THEN entry.duration ELSE entry.duration \div ScaleRatio

\* The track made for entry i.  An error (SetupFails) ends the import.
TrackOf(i, desc) ==
  LET e == file.tracks[i] IN NewTrack(e.type, e.lacing, desc, DefaultDuration(e))

\* A video track has a description and a sample table, or is an error.
AddVideoTrack(i) == {TrackOf(i, TRUE)}

\* An audio track without channels or format, or of which no description can be made, is
\* no error: it is left without one, and without samples.
AddAudioTrack(i) == {TrackOf(i, TRUE), TrackOf(i, FALSE)}

\* A subtitle track of a format that is not known is not made, and no error.
AddSubtitleTrack(i) == IF file.tracks[i].known THEN {TrackOf(i, TRUE)} ELSE {}

TracksFor(i) ==
  CASE file.tracks[i].type = "video" -> AddVideoTrack(i)
    [] file.tracks[i].type = "audio" -> AddAudioTrack(i)
    [] file.tracks[i].type = "subtitle" -> AddSubtitleTrack(i)
    [] OTHER -> {}

\* Tracks of other types (complex, logo, buttons, control) are left out.
ReadTracks ==
  LET made == {i \in DOMAIN file.tracks : TracksFor(i) # {}}
  IN /\ tracks' \in {ts \in [made -> UNION {TracksFor(i) : i \in made}] : \A i \in made : ts[i] \in TracksFor(i)}
     /\ seen' = seen \cup {"tracks"} /\ UNCHANGED chapters

\* The track that ReadTracks enables if the file enables none of its type: the last one
\* with the language of the first.
FirstTrack(type) ==
  LET of == {i \in DOMAIN tracks : file.tracks[i].type = type}
  IN IF of = {} THEN {} ELSE {Max({i \in of : file.tracks[i].lang = file.tracks[Min(of)].lang})}

Enabled ==
  LET flagged == {i \in DOMAIN tracks : file.tracks[i].enabled}
      Of(type) == {i \in flagged : file.tracks[i].type = type}
  IN flagged \cup UNION {FirstTrack(type) : type \in {ty \in {"video", "audio", "subtitle"} : Of(ty) = {}}}

\* AddChapterAtom: the atoms reached that have no visible part, if they start in time.
ChapterLeaves(duration) ==
  LET atoms == DOMAIN file.chapters
      Reached[a \in atoms] == \/ file.chapters[a].parent = 0
                              \/ ~file.chapters[a].hidden /\ Reached[file.chapters[a].parent]
      Shown(a) == {b \in atoms : file.chapters[b].parent = a /\ ~file.chapters[b].hidden}
  IN {a \in atoms : Reached[a] /\ Shown(a) = {} /\ file.chapters[a].start <= duration}

ReadChapters ==
  /\ chapters' = ChapterLeaves(IF "info" \in seen THEN file.duration ELSE 0)
  /\ seen' = seen \cup {"chapters"} /\ UNCHANGED tracks

\* ProcessLevel1Element for every kind but a seek head.  (Fonts and cover art of the
\* attachments are left out.)
ProcessLevel1Element(kind) ==
  IF kind = "info" /\ Unseen(kind) THEN seen' = seen \cup {"info"} /\ UNCHANGED <<tracks, chapters>>
  ELSE IF kind = "chapters" /\ Unseen(kind) THEN ReadChapters
  ELSE IF kind = "tracks" /\ Unseen(kind) THEN ReadTracks
  ELSE UNCHANGED header

-----------------------------------------------------------------------------
(* ImportDataRef: SetupMovie, one turn of its loops at a time. *)

Init ==
  /\ file \in Files
  /\ el_l1 = 0 /\ position = 1 /\ levelOneElements = <<>> /\ stack = <<>>
  /\ phase = "setup" /\ withIdle \in BOOLEAN
  /\ loadState = "loading" /\ placeholder = FALSE /\ idlesSinceLastAdd = 0 /\ lastIdleTime = 0
  /\ seen = {} /\ tracks = <<>> /\ chapters = {}
  /\ given = 0 /\ imported = <<>>

\* ReadMetaSeek does not read a seek head that is listed.
AlreadyRead(head) == \E e \in ToSet(levelOneElements) : e.id = "seek" /\ e.at = head

\* The seek heads being read, with head on top unless it was read.
Entered(head) == IF AlreadyRead(head) THEN stack ELSE Append(stack, [head |-> head, entry |-> 1])

\* The loop of SetupMovie: up to the first cluster, or the end.
SetupMovie ==
  LET q == NextLevel1Element
  IN /\ phase = "setup" /\ stack = <<>>
     /\ el_l1' = q /\ position' = IF q = 0 THEN End + 1 ELSE q + 1
     /\ IF q = 0 \/ Kind(q) = "cluster" THEN phase' = "opened" /\ UNCHANGED <<stack, header>>
        ELSE IF Kind(q) = "seek" THEN stack' = Entered(q) /\ UNCHANGED <<phase, header>>
        ELSE ProcessLevel1Element(Kind(q)) /\ UNCHANGED <<stack, phase>>
     /\ UNCHANGED <<file, levelOneElements, idling, withIdle, given, imported>>

top == stack[Len(stack)]
Entries(head) == file.elements[head].entries

\* Faulty: no seek back.
EntryDoneThere(s) ==
  LET t == s[Len(s)]
  IN /\ el_l1' = 0 /\ position' = Min({Entries(t.head)[t.entry].at, End}) + 1
     /\ levelOneElements' = Append(levelOneElements, Entries(t.head)[t.entry])
     /\ stack' = [s EXCEPT ![Len(s)].entry = @ + 1]

\* The entry at the top is done: the stream is back at its seek head.
EntryDone(s) ==
  LET t == s[Len(s)]
  IN /\ SetContext(t.head)
     /\ levelOneElements' = Append(levelOneElements, Entries(t.head)[t.entry])
     /\ stack' = [s EXCEPT ![Len(s)].entry = @ + 1]

\* A seek head that is not listed yet is read by a call within this one; the last one
\* that fits on the stack is the last the program does.
ReadInner(head) ==
  IF Len(stack) = StackDepth THEN phase' = "crashed" /\ UNCHANGED <<walk, header>>
  ELSE /\ stack' = Entered(head) /\ el_l1' = head /\ position' = head + 1
       /\ UNCHANGED <<levelOneElements, header, phase>>

\* A turn of the loop of ReadMetaSeek: the element of an entry is read, if it is part of
\* the header, and the entry listed after that.
ReadMetaSeek ==
  /\ phase = "setup" /\ stack # <<>> /\ top.entry <= Len(Entries(top.head))
  /\ LET e == Entries(top.head)[top.entry]
         q == IF e.id \in HeaderKinds THEN NextFrom(e.at) ELSE 0
     IN IF q # 0 /\ Kind(q) = "seek" /\ ~AlreadyRead(q) THEN ReadInner(q)
        ELSE /\ EntryDone(stack) /\ UNCHANGED phase
             /\ IF q = 0 THEN UNCHANGED header ELSE ProcessLevel1Element(Kind(q))
  /\ UNCHANGED <<file, idling, withIdle, given, imported>>

\* The end of ReadMetaSeek: the list is sorted, and the entry that led here is done.
EndMetaSeek ==
  LET sorted == SortSeq(levelOneElements, LAMBDA a, b : a.at < b.at)
      below == Front(stack)
  IN /\ phase = "setup" /\ stack # <<>> /\ top.entry > Len(Entries(top.head))
     /\ IF below = <<>> THEN stack' = below /\ levelOneElements' = sorted /\ UNCHANGED <<el_l1, position>>
        ELSE LET from == below[Len(below)]
             IN /\ SetContext(from.head)
                /\ levelOneElements' = Append(sorted, Entries(from.head)[from.entry])
                /\ stack' = [below EXCEPT ![Len(below)].entry = @ + 1]
     /\ UNCHANGED <<file, phase, header, idling, withIdle, given, imported>>

\* A read that fails (CRTError), or a track that cannot be made: ImportDataRef returns.
SetupFails ==
  /\ phase = "setup" /\ phase' = "failed"
  /\ UNCHANGED <<file, walk, header, idling, withIdle, given, imported>>

-----------------------------------------------------------------------------
(* ImportDataRef after SetupMovie, and Idle. *)

\* The blocks of a cluster for the track of entry i.
BlocksOf(i, cluster) ==
  SubSeq(file.streams[i], given + 1, Min({given + file.elements[cluster].blocks, Len(file.streams[i])}))

AddBlocks(i, cluster) == FoldLeft(AddBlock, tracks[i], BlocksOf(i, cluster))

\* The tracks after ImportCluster.
ImportCluster(addToTrack) ==
  [i \in DOMAIN tracks |-> IF addToTrack THEN AddSamplesToTrack(AddBlocks(i, el_l1))
                           ELSE AddBlocks(i, el_l1)]

\* The clusters imported, and the blocks given, when the current one was.
CountCluster ==
  /\ given' = given + file.elements[el_l1].blocks
  /\ imported' = Append(imported, el_l1)

FinishTracks(ts) == [i \in DOMAIN ts |-> FinishTrack(ts[i])]

\* The current element was dealt with; the tracks are finished if it was the last.
GoOn(ts, ended, more) ==
  LET q == NextLevel1Element
  IN /\ el_l1' = q /\ position' = IF q = 0 THEN End + 1 ELSE q + 1
     /\ phase' = IF q = 0 THEN ended ELSE more
     /\ tracks' = IF q = 0 THEN FinishTracks(ts) ELSE ts
     /\ UNCHANGED <<file, levelOneElements, stack, seen, chapters, withIdle>>

\* Nothing to import: ImportDataRef returns.
NothingToImport ==
  /\ phase = "opened" /\ el_l1 = 0 /\ phase' = "done"
  /\ UNCHANGED <<file, walk, header, idling, withIdle, given, imported>>

\* With idles a placeholder gives the movie its length, and one cluster is imported.  (At
\* the end of the file neither the load state nor the placeholder is changed.)
ImportFirst ==
  /\ phase = "opened" /\ el_l1 # 0 /\ withIdle
  /\ placeholder' = TRUE /\ loadState' = "playable"
  /\ CountCluster /\ GoOn(ImportCluster(TRUE), "done", "idle")
  /\ UNCHANGED <<idlesSinceLastAdd, lastIdleTime>>

\* Without, a turn of the loop over the elements.
ImportNext ==
  /\ phase \in {"opened", "batch"} /\ el_l1 # 0 /\ ~withIdle
  /\ IF Kind(el_l1) = "cluster" THEN CountCluster /\ GoOn(ImportCluster(FALSE), "done", "batch")
     ELSE GoOn(tracks, "done", "batch") /\ UNCHANGED <<given, imported>>
  /\ loadState' = IF NextLevel1Element = 0 THEN "complete" ELSE loadState
  /\ UNCHANGED <<placeholder, idlesSinceLastAdd, lastIdleTime>>

\* A failed read ends it, the tracks unfinished.
ImportFails ==
  /\ phase \in {"opened", "batch"} /\ phase' = "failed"
  /\ UNCHANGED <<file, walk, header, idling, withIdle, given, imported>>

GetMaxLoadedTime == Max({0} \cup {tracks[i].maxLoadedTime : i \in DOMAIN tracks})

\* Samples go to the tracks every so many idles when paused, or when the movie, now at
\* time now, is about to run out of them.
Due(now) ==
  (now = lastIdleTime /\ idlesSinceLastAdd + 1 > IdlesPerAdd) \/ GetMaxLoadedTime < now + Ahead

\* What an idle ends with: the placeholder goes when the import does.
Idled(now, ended) ==
  /\ lastIdleTime' = now
  /\ placeholder' = (placeholder /\ ~ended)
  /\ loadState' = IF ended THEN "complete" ELSE IF Kind(el_l1) = "cluster" /\ Due(now) THEN "playable" ELSE loadState
  /\ idlesSinceLastAdd' = IF Kind(el_l1) = "cluster" /\ Due(now) THEN 0 ELSE idlesSinceLastAdd + 1

Idle(now) ==
  /\ phase = "idle"
  /\ IF Kind(el_l1) = "cluster" THEN CountCluster /\ GoOn(ImportCluster(Due(now)), "done", "idle")
     ELSE GoOn(tracks, "done", "idle") /\ UNCHANGED <<given, imported>>
  /\ Idled(now, NextLevel1Element = 0)

\* The element, or the one after it, cannot be read: the tracks are finished with what
\* they have.
IdleFails(now) ==
  /\ phase = "idle" /\ phase' = "done"
  /\ \/ /\ tracks' = FinishTracks(tracks) /\ UNCHANGED <<given, imported>>
        /\ lastIdleTime' = now /\ placeholder' = FALSE /\ loadState' = "complete"
        /\ idlesSinceLastAdd' = idlesSinceLastAdd + 1
     \/ /\ Kind(el_l1) = "cluster" /\ CountCluster
        /\ tracks' = FinishTracks(ImportCluster(Due(now))) /\ Idled(now, TRUE)
  /\ UNCHANGED <<file, walk, seen, chapters, withIdle>>

Next ==
  \/ SetupMovie \/ ReadMetaSeek \/ EndMetaSeek \/ SetupFails
  \/ NothingToImport \/ ImportFirst \/ ImportNext \/ ImportFails
  \/ \E now \in MovieTimes : Idle(now) \/ IdleFails(now)

Spec == Init /\ [][Next]_vars

\* ImportDataRef runs on, and QuickTime idles an importer that asked for it.  (The last
\* two are weak fairness of the calls, which are enabled in the phases named.)
FairSpec ==
  /\ Spec
  /\ WF_vars(SetupMovie \/ ReadMetaSeek \/ EndMetaSeek)
  /\ WF_vars(NothingToImport)
  /\ []<>(phase \notin {"opened", "batch"} \/ el_l1 = 0) \/ []<><<ImportFirst \/ ImportNext>>_vars
  /\ []<>(phase # "idle") \/ []<><<\E now \in MovieTimes : Idle(now)>>_vars

-----------------------------------------------------------------------------
Clusters == {p \in 1 .. End : Kind(p) = "cluster"}

\* What the walk along the file cannot reach: from a dummy element to the next one listed.
Lost(p) == \E d \in 1 .. p - 1 : Kind(d) = "dummy" /\ ~\E e \in ToSet(levelOneElements) : e.at \in d + 1 .. p

(* Seek heads lead all over the file and back: every cluster before the     *)
(* current element is imported, once and in the order of the file, but for  *)
(* what cannot be reached behind a damaged element.                         *)
ClustersInTurn ==
  LET until == IF phase \in {"setup", "failed", "crashed"} THEN 1 ELSE IF el_l1 = 0 THEN End + 1 ELSE el_l1
  IN /\ \A k \in 2 .. Len(imported) : imported[k - 1] < imported[k]
     /\ {p \in Clusters : p < until /\ ~Lost(p)} \subseteq ToSet(imported)

\* The time the first n samples of ss take, and the time the stream of entry i begins.
TimeOf(ss, n) == FoldLeft(LAMBDA sum, f : sum + f.duration, 0, SubSeq(ss, 1, n))
Begin(i) == file.streams[i][1].pts

\* The tracks whose samples are timed by their neighbours, and what is known of them.
TimedTracks == {i \in DOMAIN tracks : tracks[i].desc /\ tracks[i].type # "subtitle" /\ given > 0}
AllSamples(t) == t.media \o t.table

(* What the tracks got while the file is still read ends where no frame has *)
(* to be displayed later ("we don't want to add regions with frames that    *)
(* are displayed after the region", MatroskaImport.h): all frames of the    *)
(* stream earlier than the end of the region are in it, and no others, so   *)
(* the region can be played, and the next one joins it.  The track begins   *)
(* at the time of its first block.                                          *)
RegionsMeet ==
  phase = "idle" =>
    \A i \in TimedTracks :
      LET t == tracks[i]
          end == Begin(i) + t.maxLoadedTime
          Before(blocks) == FoldLeft(LAMBDA sum, b : sum + (IF b.pts < end THEN b.frames ELSE 0), 0, blocks)
          n == Before(file.streams[i])
      IN /\ n <= Len(t.media) /\ TimeOf(t.media, n) = t.maxLoadedTime
         /\ \A k \in 1 .. n : t.media[k].pts < end
         /\ t.maxLoadedTime > 0 => t.trackOffset = Begin(i)

(* Durations and decode times are guesses that must agree: the first sample *)
(* with a time is displayed at that time, that is the durations of all      *)
(* before it add up to its decode time.                                     *)
ShownInTime ==
  \A i \in TimedTracks :
    LET ss == AllSamples(tracks[i])
    IN \A k \in DOMAIN ss :
         ss[k].timed /\ (\A j \in 1 .. k - 1 : ss[j].pts # ss[k].pts)
           => Begin(i) + TimeOf(ss, k - 1) = ss[k].dts

\* Seek heads that lead in a circle: each of them lists one of them.
Circular ==
  \E heads \in SUBSET {p \in 1 .. End : Kind(p) = "seek"} \ {{}} :
    \A h \in heads : \E e \in ToSet(Entries(h)) : e.id = "seek" /\ e.at \in heads

(* Every import ends, with the movie complete or a failure reported, unless  *)
(* seek heads lead in a circle.  Then the recursion has no end: a head gets  *)
(* onto the list that ReadMetaSeek looks for it in only after it was read    *)
(* (MatroskaImportPrivate.cpp:1000), and the stack overflows.                 *)
ImportEnds == <>(phase \in {"done", "failed"} \/ (phase = "crashed" /\ Circular))

=============================================================================
