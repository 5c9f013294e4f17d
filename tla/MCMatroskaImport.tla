--------------------------- MODULE MCMatroskaImport ---------------------------
(* Files with one and two seek heads, one listing the header behind the      *)
(* clusters, one reached twice, two that list each other, a damaged element, *)
(* no header at all; a video track with every order of N frames that waits   *)
(* for at most two, and of varying length in order, an audio track with up   *)
(* to three frames a block.                                                  *)
EXTENDS MatroskaImport

CONSTANT N

El(kind) == [kind |-> kind, entries |-> <<>>, blocks |-> 0]
SeekHead(entries) == [El("seek") EXCEPT !.entries = entries]
Cluster(n) == [El("cluster") EXCEPT !.blocks = n]
To(id, at) == [id |-> id, at |-> at]

Layouts == {
  <<SeekHead(<<To("info", 2), To("tracks", 3), To("chapters", 7)>>), El("info"), El("tracks"),
    Cluster(3), Cluster(4), Cluster(2), El("chapters")>>,
  <<El("info"), SeekHead(<<To("tracks", 7), To("seek", 8)>>), Cluster(3), El("other"), Cluster(4),
    Cluster(2), El("tracks"), SeekHead(<<To("cluster", 5), To("chapters", 9), To("cluster", 3)>>), El("chapters")>>,
  <<SeekHead(<<To("seek", 3), To("seek", 3), To("cues", 9)>>), El("info"),
    SeekHead(<<To("tracks", 4), To("cluster", 5), To("cluster", 8)>>), El("tracks"),
    Cluster(4), El("dummy"), Cluster(1), Cluster(3)>>,
  <<El("info"), El("dummy"), El("tracks"), El("attachments"), Cluster(1), Cluster(5), El("tags")>>,
  <<SeekHead(<<To("info", 2), To("seek", 6)>>), El("info"), El("tracks"), Cluster(6), Cluster(2),
    SeekHead(<<To("tracks", 3), To("seek", 1)>>)>>,
  <<El("info"), El("tracks"), El("chapters")>>,
  <<Cluster(2), El("tracks"), El("info")>>}

Plain == <<El("info"), El("tracks"), Cluster(6), Cluster(1), Cluster(1), Cluster(2)>>

Block(pts, frames) == [pts |-> pts, frames |-> frames, duration |-> 0]
\* No frame comes after more than MAX_DECODE_DELAY that are displayed later, and the
\* first is displayed first: the next one is displayed before k of those there are.
Orders[n \in 1 .. N] ==
  IF n = 1 THEN {<<0>>}
  ELSE {LET v == n - 1 - k IN Append([i \in 1 .. n - 1 |-> IF p[i] < v THEN p[i] ELSE p[i] + 1], v) :
          p \in Orders[n - 1], k \in 0 .. Min({MAX_DECODE_DELAY, n - 2})}
Reordered(from) == {[i \in 1 .. N |-> Block(2 * p[i] + from, 1)] : p \in Orders[N]}
Uneven == {[i \in 1 .. N |-> Block(i * i, 1)]}
Audio == {<<Block(0, 2), Block(2, 1), Block(3, 3), Block(7, 2), Block(10, 1), Block(15, 3), Block(18, 1), Block(20, 1)>>,
          <<Block(1, 1), Block(1, 1), Block(4, 1), Block(4, 3), Block(9, 2), Block(13, 1), Block(14, 1)>>}

Entry(type, lang, enabled, lacing, duration, known) ==
  [type |-> type, lang |-> lang, enabled |-> enabled, lacing |-> lacing, duration |-> duration, known |-> known]
Atom(start, parent, hidden) == [start |-> start, parent |-> parent, hidden |-> hidden]

File(layout, video, audio) ==
  [elements |-> layout, duration |-> 20,
   tracks |-> <<Entry("audio", "eng", FALSE, TRUE, 0, TRUE), Entry("video", "eng", TRUE, FALSE, 2, TRUE),
                Entry("subtitle", "eng", TRUE, TRUE, 0, FALSE), Entry("subtitle", "ger", FALSE, TRUE, 1, TRUE)>>,
   streams |-> <<audio, video, <<>>, <<Block(1, 1), Block(5, 2)>>>>,
   chapters |-> <<Atom(0, 0, FALSE), Atom(0, 1, TRUE), Atom(5, 1, FALSE), Atom(30, 0, FALSE), Atom(9, 2, FALSE)>>]

SomeOrder == CHOOSE v \in Reordered(1) : v[2].pts = 5
MCFiles == {File(l, v, a) : l \in Layouts, v \in {SomeOrder} \cup Uneven, a \in Audio}
             \cup {File(Plain, v, <<>>) : v \in Reordered(0)}
=============================================================================
