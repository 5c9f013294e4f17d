----------------------------- MODULE DataHandlers -----------------------------
(***************************************************************************)
(* The two ways the importers read a file through a QuickTime data         *)
(* handler: DataHandlerCallback (libebml), which keeps the last block it   *)
(* has read, and the data reference of ff_dataref.c (libavformat), which   *)
(* does not.  Both keep the file's size, and the file may grow.  The byte  *)
(* at offset i is i, so what a cache holds tells where it comes from.  A   *)
(* read is asked for in one step and done in others, so that the file may  *)
(* grow while it runs.                                                     *)
(***************************************************************************)
EXTENDS Integers, Sequences

CONSTANTS FileSizes,      \* bound: how much of the file may have arrived
          ReadSize,       \* READ_SIZE, 32 KB in the code
          Requests,       \* bound: the sizes that are asked for
          Low             \* 2^32: offsets from here on need a handler for wide ones

ASSUME DataAssumption ==
  FileSizes \subseteq Nat /\ Requests \subseteq Nat /\ ReadSize \in Nat \ {0} /\ Low \in Nat

VARIABLES size,           \* the bytes of the file that are there
          handler,        \* "wide"; "narrow", for 32-bit offsets; "mixed": wide sizes, narrow reads
          library,        \* "libebml", which reads by a DataHandlerCallback, or "libavformat"
          h,              \* that or the dataref_private, with the local variables of its read function
          buffer          \* the DataHBuffer: offset, size and bytes

vars == <<size, handler, library, h, buffer>>
fixed == <<size, handler, library>>

Garbage == -1
Failed == <<"failed">>
Lesser(a, b) == IF a <= b THEN a ELSE b
BytesFrom(from, n) == [k \in 1 .. n |-> from + k - 1]

\* No read is under way.
NoRead == [from |-> -1, left |-> 0, there |-> 0, got |-> <<>>]

\* Faulty: the size is what it was when the file was opened.
NotRefreshed == h

\* getFileSize and dataref_update_filesize, which also learn whether the handler takes wide offsets.
Refreshed == [h EXCEPT !.filesize = size]

Init ==
  /\ size \in FileSizes
  /\ handler \in {"wide", "narrow", "mixed"}
  /\ library \in {"libebml", "libavformat"}
  /\ h = [pos |-> 0, filesize |-> size, read |-> NoRead, answer |-> <<>>, failed |-> FALSE]
  /\ buffer = [offset |-> -1, size |-> 0, bytes |-> [k \in 0 .. ReadSize - 1 |-> Garbage]]

Grow == \E s \in FileSizes : s > size /\ size' = s /\ UNCHANGED <<handler, library, h, buffer>>

\* A read is cut to what there is of a file of s bytes.
CutTo(s, n) == IF n < 1 \/ h.pos > s THEN 0 ELSE Lesser(n, s - h.pos)

\* The size that is kept is looked at again before a read goes past it.
Ask(n) ==
  LET now == IF h.pos + n > h.filesize THEN Refreshed ELSE h
  IN /\ h.read = NoRead
     /\ h' = [now EXCEPT !.read = [from |-> h.pos, left |-> CutTo(now.filesize, n), there |-> CutTo(size, n),
                                   got |-> <<>>]]
     /\ UNCHANGED <<fixed, buffer>>

\* To a place, from the position, from the end; only the last, and asking for the size,
\* looks at the size again.
Seek ==
  /\ h.read = NoRead
  /\ \E n \in Requests :
       \/ \E to \in {n, h.pos + n} : h' = [h EXCEPT !.pos = to]
       \/ \E to \in {h.pos, size - n, size + n} : to >= 0 /\ h' = [Refreshed EXCEPT !.pos = to]
  /\ UNCHANGED <<fixed, buffer>>

Answered(r, bytes) == [r EXCEPT !.read = NoRead, !.answer = bytes]
Thrown(r) == [r EXCEPT !.read = NoRead, !.answer = Failed, !.failed = TRUE]

-----------------------------------------------------------------------------
(* DataHandlerCallback and its DataHBuffer. *)

ContainsOffset(b, at) == b.offset # -1 /\ at >= b.offset /\ at < b.offset + b.size

\* DataHBuffer::Read, what read() takes from the buffer.
Taken ==
  LET n == IF ContainsOffset(buffer, h.pos) THEN Lesser(buffer.offset + buffer.size - h.pos, h.read.left) ELSE 0
  IN [h EXCEPT !.pos = @ + n, !.read.left = @ - n,
               !.read.got = @ \o [k \in 1 .. n |-> buffer.bytes[h.pos - buffer.offset + k - 1]]]

\* GetBuffer claims the range before anything is read.  READ_SIZE never needs a larger buffer.
GetBuffer(r) == [buffer EXCEPT !.offset = r.pos, !.size = Lesser(ReadSize, r.filesize - r.pos)]

\* DataHScheduleData: the bytes of the file from the buffer's offset.
Filled(b) == [b EXCEPT !.bytes = [k \in DOMAIN @ |-> IF k < b.size THEN b.offset + k ELSE @[k]]]

\* Every turn of the loop takes what the buffer has of the rest, and fills it if more is needed.
CallbackTurn ==
  /\ library = "libebml"
  /\ h.read # NoRead
  /\ \/ /\ Taken.read.left = 0
        /\ h' = Answered(Taken, Taken.read.got)
        /\ UNCHANGED buffer
     \/ /\ Taken.read.left > 0
        /\ \/ handler # "mixed" /\ h' = Taken /\ buffer' = Filled(GetBuffer(Taken))
           \/ h' = Thrown(Taken) /\ buffer' = GetBuffer(Taken)
  /\ UNCHANGED fixed

-----------------------------------------------------------------------------
(* The data reference: every read goes to the handler. *)

\* A handler without wide reads is asked again, if the offset allows it.
DatarefTurn ==
  /\ library = "libavformat"
  /\ h.read # NoRead
  /\ \/ /\ h.read.left > 0 /\ handler = "mixed" => h.pos < Low
        /\ h' = [Answered(h, BytesFrom(h.pos, h.read.left)) EXCEPT !.pos = @ + h.read.left]
     \/ h.read.left > 0 /\ h' = Thrown(h)
  /\ UNCHANGED <<fixed, buffer>>

Next == Grow \/ Seek \/ CallbackTurn \/ DatarefTurn \/ \E n \in Requests : Ask(n)

Spec == Init /\ [][Next]_vars

\* Bound: the positions that TLC follows, which reach one byte behind the longest file.
InReach == \E n \in FileSizes : h.pos <= n + 1

-----------------------------------------------------------------------------

\* A position that moves while a read runs is the reader's only when it has ended.
Reader == INSTANCE FileReader WITH
  size <- size, answer <- h.answer, trusted <- library = "libavformat" \/ ~h.failed,
  pos <- IF h.read = NoRead THEN h.pos ELSE h.read.from,
  asked <- [from |-> h.read.from, count |-> h.read.there]

\* Whatever is asked for where, while the file grows: a read gives the bytes of the file at the reader's
\* position and all of those that were there, also when some are kept from the read before and the size
\* that is kept is too old; after a failed read libavformat's reader still does, and libebml's, whose
\* buffer claims what was never read, only tells how much there is (DataHBuffer::GetBuffer).
ReadsTellFile == Reader!Spec
=============================================================================
