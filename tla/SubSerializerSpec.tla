-------------------------- MODULE SubSerializerSpec --------------------------
(***************************************************************************)
(* The two users of SubSerializer.  A subtitle file is read as a whole,    *)
(* its lines in any order, and then made into packets                      *)
(* (LoadSingleTextSubtitle, Subtitles/SubImport.mm).  A Matroska track     *)
(* gives a line and takes a packet with every frame it reads, and takes    *)
(* the rest when the file ends (MatroskaTrack, MatroskaImportPrivate.cpp). *)
(***************************************************************************)
EXTENDS SubSerializer

CONSTANTS MaxTime,    \* bound: the time the last line may end
          MaxLines    \* bound: the number of lines

ASSUME BoundsAssumption == MaxTime \in Nat /\ MaxLines \in Nat

VARIABLES source,           \* "file" or "matroska"
          lines,            \* the lines not shown to their end yet
          finished,
          last_end_time,
          num_lines_input,
          given,            \* every line given
          packets           \* the packets made, in turn

vars == <<source, lines, finished, last_end_time, num_lines_input, given, packets>>

Times == 0 .. MaxTime
Lines == [num : 0 .. MaxLines - 1, begin : Times, end : Times]

Init ==
  /\ source \in {"file", "matroska"}
  /\ lines = <<>> /\ finished = FALSE /\ last_end_time = 0 /\ num_lines_input = 0
  /\ given = {} /\ packets = <<>>

\* A line is given; one with invalid times is not numbered.
Given(l) ==
  /\ num_lines_input' = IF l.begin < l.end THEN num_lines_input + 1 ELSE num_lines_input
  /\ given' = IF l.begin < l.end THEN given \cup {l} ELSE given

\* The next packet is taken from the lines ls, if there is one.
Take(ls) ==
  LET packet == getSerializedPacket(ls, finished, last_end_time)
  IN IF packet = NoPacket THEN lines' = ls /\ UNCHANGED <<last_end_time, packets>>
     ELSE /\ lines' = LinesLeft(ls, packet)
          /\ last_end_time' = packet.end
          /\ packets' = Append(packets, packet)

\* SubLoadSSAFromPath, SubLoadSRTFromPath, SubLoadSMIFromPath.
LoadLine(begin, end) ==
  LET l == [num |-> num_lines_input, begin |-> begin, end |-> end]
  IN /\ source = "file" /\ ~finished /\ num_lines_input < MaxLines
     /\ lines' = addLine(lines, l) /\ Given(l)
     /\ UNCHANGED <<source, finished, last_end_time, packets>>

\* MatroskaTrack::AddFrame; a frame without duration is not pushed.  The frames of a
\* track come in the order of their times.
AddFrame(pts, duration) ==
  LET l == [num |-> num_lines_input, begin |-> pts, end |-> pts + duration]
  IN /\ source = "matroska" /\ ~finished /\ num_lines_input < MaxLines
     /\ \A o \in given : o.begin <= pts
     /\ Given(l)
     /\ Take(IF duration > 0 THEN addLine(lines, l) ELSE lines)
     /\ UNCHANGED <<source, finished>>

\* The end of the file, or of the Matroska track.
setFinished ==
  /\ ~finished /\ finished' = TRUE
  /\ UNCHANGED <<source, lines, last_end_time, num_lines_input, given, packets>>

\* A turn of the loops that take packets until the serializer is empty.
TakeRest ==
  /\ finished /\ lines # <<>>
  /\ Take(lines)
  /\ UNCHANGED <<source, finished, num_lines_input, given>>

Next ==
  \/ \E begin, end \in Times : LoadLine(begin, end)
  \/ \E pts \in Times : \E duration \in 0 .. MaxTime - pts : AddFrame(pts, duration)
  \/ setFinished
  \/ TakeRest

Spec == Init /\ [][Next]_vars

\* A file ends some time, and the loops run on.
FairSpec == Spec /\ WF_vars(setFinished) /\ WF_vars(TakeRest)

-----------------------------------------------------------------------------
(* lines keeps "1. beginning time 2. original insertion order" (SubImport.h *)
(* on its array), and holds exactly the lines given that end later than the *)
(* packets made reach: nobody is removed early, nobody stays behind.        *)
LinesInOrder ==
  /\ \A i \in 2 .. Len(lines) :
       lines[i - 1].begin < lines[i].begin
         \/ (lines[i - 1].begin = lines[i].begin /\ lines[i - 1].num < lines[i].num)
  /\ ToSet(lines) = {l \in given : l.end > last_end_time}

Timeline == INSTANCE SubtitleTimeline WITH lines <- given

(* The packets of a file, and those a Matroska track makes while its lines  *)
(* still arrive, are the timeline of all its lines: no line shows up after  *)
(* the time it belongs to was made, packets meet, each shows what it should.*)
ImplementsTimeline == Timeline!Spec

(* When the file has ended, every line is shown to its end: the loops that  *)
(* take packets until the serializer is empty get there.                    *)
EveryLineShown == <>[](finished /\ \A l \in given : l.end <= last_end_time)
=============================================================================
