---------------------------- MODULE MCMovieImport ----------------------------
(* An AVI file with its index, in which entries without data stretch frames, *)
(* and without; FLV files whose packets tell no durations, with audio that   *)
(* begins late or with an index; a NUV file with MP3; packets without a      *)
(* place; constant-size audio; other streams.                                *)
EXTENDS MovieImport

\* A stream's packets: <<dts, size, duration>>, the sizes bounded by what Fudge allows.
Video(num, codec) == [type |-> "video", codec |-> codec, vbr |-> FALSE, num |-> num, scale |-> 4, rate |-> TRUE]
Audio(vbr, codec, rate) == [type |-> "audio", codec |-> codec, vbr |-> vbr, num |-> 1, scale |-> 2, rate |-> rate]
Other == [type |-> "subtitle", codec |-> "text", vbr |-> FALSE, num |-> 1, scale |-> 1, rate |-> FALSE]
P(stream, dts, size, duration) == [stream |-> stream, dts |-> dts, pts |-> dts, size |-> size, duration |-> duration, pos |-> 0]

\* Frames that are displayed later than they are decoded, and a packet whose time and place
\* are not known.
Shown(p, pts) == [p EXCEPT !.pts = pts]
Unplaced(p) == [p EXCEPT !.pts = 0, !.pos = -1]

HeaderSize == 3

\* The packets one behind the other, where no data takes no place.
Placed(ps) ==
  [k \in DOMAIN ps |-> [ps[k] EXCEPT !.pos = IF @ < 0 THEN @ ELSE HeaderSize + FoldLeft(LAMBDA sum, p : sum + p.size, 0, SubSeq(ps, 1, k - 1))]]

\* The index that the packets make, if it is there.
IndexOf(ps, i, shift) ==
  LET own == SelectSeq(Placed(ps), LAMBDA p : p.stream = i /\ p.pos > 0)
  IN [k \in DOMAIN own |-> [timestamp |-> own[k].dts, size |-> own[k].size, pos |-> own[k].pos - shift]]

\* The header of an AVI file: the format of each stream, or the header of a DV stream, behind
\* a list that is skipped and chunks that tell nothing.
HeaderChunk(tag, list, type, codec) == [tag |-> tag, list |-> list, type |-> type, codec |-> codec]
StreamChunks(s) ==
  IF s.codec = "dvvideo" THEN <<HeaderChunk("strh", "strl", "iavs", s.codec)>>
  ELSE <<HeaderChunk("strh", "strl", s.type, "none"), HeaderChunk("strf", "strl", "", s.codec)>>
Header(streams) ==
  <<HeaderChunk("avih", "hdrl", "", "none"), HeaderChunk("strf", "INFO", "", "mjpeg")>>
    \o FoldLeft(LAMBDA cs, s : cs \o StreamChunks(s), <<>>, streams)

File(kind, streams, ps, indexed, shift, duration) ==
  [kind |-> kind, chunks |-> IF kind = "avi" THEN Header(streams) ELSE <<>>, streams |-> streams, packets |-> Placed(ps), duration |-> duration,
   size |-> HeaderSize + FoldLeft(LAMBDA sum, p : sum + p.size, 0, ps),
   index |-> [i \in DOMAIN streams |-> IF indexed THEN IndexOf(ps, i, shift) ELSE <<>>]]

\* Video with a frame dropped, audio of uneven packets: "they seem to be used to stretch
\* the frame duration".
Avi == <<P(1, 0, 2, 1), P(2, 2, 1, 2), P(1, 1, 2, 2), P(1, 2, 0, 0), P(2, 4, 1, 3),
         P(1, 3, 2, 1), P(2, 7, 2, 1), P(1, 4, 1, 1), P(2, 8, 1, 1)>>
\* The same, durations not told.
Untold(ps) == [k \in DOMAIN ps |-> [ps[k] EXCEPT !.duration = 0]]
\* Audio of constant size, as long as it is.
Pcm == <<P(2, 3, 2, 1), P(1, 0, 2, 1), P(2, 5, 1, 1), P(1, 1, 1, 2), P(2, 6, 3, 1), P(1, 2, 0, 0), P(1, 3, 1, 1), P(2, 9, 2, 1)>>
\* Audio that begins late, packets with and without durations.
Late == <<P(1, 1, 1, 1), P(1, 2, 2, 0), P(1, 4, 1, 1), P(1, 5, 1, 0), P(1, 6, 2, 1), P(2, 4, 1, 1), P(1, 7, 1, 0), P(2, 5, 1, 2), P(2, 7, 2, 0)>>
\* Video in an order of its own behind a packet without a place, and another in the middle.
Coded == <<Unplaced(P(1, 0, 1, 1)), Shown(P(1, 0, 1, 1), 1), Shown(P(1, 1, 2, 1), 3), P(2, 2, 1, 2), Shown(P(1, 2, 1, 1), 2),
           Unplaced(P(2, 3, 1, 1)), P(2, 4, 1, 1), Shown(P(1, 3, 1, 1), 4)>>
\* A stream no track is made for, between the others.
Mixed == <<P(1, 0, 2, 1), P(3, 0, 1, 0), P(1, 1, 1, 1), P(2, 1, 2, 1), P(3, 1, 1, 0), P(1, 2, 1, 1), P(2, 2, 1, 1), P(1, 3, 1, 1)>>

AV(num) == <<Video(num, "mpeg4"), Audio(TRUE, "mp3", TRUE)>>
MCFiles ==
  {File("avi", AV(num), Avi, indexed, shift, 3) : num \in {1, 2}, indexed \in BOOLEAN, shift \in {0, 2}}
    \cup {File("avi", <<Video(1, "mpeg4"), Audio(FALSE, "pcm", TRUE)>>, Pcm, indexed, 2, 3) : indexed \in BOOLEAN}
    \cup {File(kind, AV(1), ps, FALSE, 0, d) : kind \in {"flv", "nuv"}, ps \in {Untold(Avi), Late}, d \in {0, 3}}
    \cup {File(kind, AV(1), Coded, indexed, 0, 3) : <<kind, indexed>> \in {<<"avi", FALSE>>, <<"nuv", FALSE>>, <<"flv", TRUE>>}}
    \cup {File("avi", Append(AV(2), Other), Mixed, FALSE, 0, 3), File("avi", AV(1), Late, FALSE, 0, 3),
          File("avi", <<Video(1, "mpeg4"), Audio(TRUE, "mp3", FALSE)>>, Avi, FALSE, 0, 3),
          File("avi", <<Video(1, "mpeg4"), Other, Other, Other>>, <<>>, FALSE, 0, 3),
          File("avi", <<Video(1, "mjpeg"), Audio(TRUE, "mp3", TRUE)>>, Late, FALSE, 0, 3),
          File("avi", <<Video(1, "dvvideo"), Audio(TRUE, "mp3", TRUE)>>, Late, FALSE, 0, 3),
          File("avi", <<Audio(TRUE, "mp3", TRUE), Video(1, "mjpeg")>>, Late, FALSE, 0, 3),
          File("tta", <<>>, <<>>, FALSE, 0, 3)}
=============================================================================
