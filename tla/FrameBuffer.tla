------------------------------ MODULE FrameBuffer ------------------------------
(***************************************************************************)
(* FFusionData, the queue of parsed frames between BeginBand and           *)
(* DecodeBand (FrameBuffer.c, FrameBuffer.h).  Its functions are operators *)
(* over a record d that stands for one FFusionData and everything it       *)
(* points to:                                                              *)
(*                                                                         *)
(*   d.arenas    the frame array and the ring of the structure itself and, *)
(*               through previousData, of the ones it replaced.  Arenas    *)
(*               are numbered in the order expansion made them.            *)
(*   d.cur       the arena of the structure itself; previousData of arena  *)
(*               a is arena a-1 while that is in DOMAIN d.arenas.          *)
(*   d.unparsed  unparsedFrames.                                           *)
(*                                                                         *)
(* A FrameData pointer is <<arena, slot>>.  A buffer pointer is an arena   *)
(* and an offset in its ring.  A byte is a number, 0 for a byte of the     *)
(* zeroed padding or one nobody wrote.                                     *)
(***************************************************************************)
EXTENDS Integers, Sequences

CONSTANT PADDING   \* FF_INPUT_BUFFER_PADDING_SIZE

NULL == <<>>       \* the null FrameData pointer and the null buffer pointer

NoUnparsed == [buffer |-> NULL, dataSize |-> 0]

EmptyFrame == [buffer |-> NULL, dataSize |-> 0, frameNumber |-> 0, type |-> "0",
               skippabble |-> FALSE, decoded |-> FALSE, prereqFrame |-> NULL]

Max2(a, b) == IF a >= b THEN a ELSE b

\* FFusionDataSetup: a zeroed array of slots and a ring of bytes.
Arena(slots, bytes) ==
  [frameSize |-> slots, frameRead |-> 0, frameWrite |-> 0,
   frames    |-> [i \in 0 .. slots - 1 |-> EmptyFrame],
   ringSize  |-> bytes, ringRead |-> 0, ringWrite |-> 0,
   ring      |-> [i \in 0 .. bytes - 1 |-> 0]]

FFusionDataSetup(slots, bytes) ==
  [arenas |-> [a \in {0} |-> Arena(slots, bytes)], cur |-> 0, unparsed |-> NoUnparsed]

Cur(d) == d.arenas[d.cur]
Frame(d, f) == d.arenas[f[1]].frames[f[2]]
Allocated(d, f) == f[1] \in DOMAIN d.arenas

\* expansion: the structure moves to previousData, where the pointers of its
\* frames follow it, and starts afresh; the unparsed record is not carried over.
expansion(d, dataSize) ==
  [arenas   |-> [a \in DOMAIN d.arenas \union {d.cur + 1} |->
                   IF a \in DOMAIN d.arenas THEN d.arenas[a]
                   ELSE Arena(2 * Cur(d).frameSize, Max2(10 * dataSize, 2 * Cur(d).ringSize))],
   cur      |-> d.cur + 1,
   unparsed |-> NoUnparsed]

\* Faulty createBuffer: the padding may run into the oldest frame.
createBufferTight(d, dataSize) ==
  LET r       == Cur(d)
      ahead   == r.ringWrite >= r.ringRead
      fitsEnd == ahead /\ r.ringWrite + dataSize + PADDING < r.ringSize
      write   == IF ahead /\ ~fitsEnd THEN 0 ELSE r.ringWrite
      fits    == fitsEnd \/ write + dataSize <= r.ringRead
  IN IF fits THEN [d EXCEPT !.arenas[d.cur].ringWrite = write + dataSize]
     ELSE [expansion(d, dataSize) EXCEPT !.arenas[d.cur].ringWrite = write,
                                         !.arenas[d.cur + 1].ringWrite = dataSize]

\* createBuffer: dataSize bytes behind ringWrite, else at the start of the ring
\* before ringRead, else in a new arena.  The place found ends at the new ringWrite.
createBuffer(d, dataSize) ==
  LET r       == Cur(d)
      ahead   == r.ringWrite >= r.ringRead
      fitsEnd == ahead /\ r.ringWrite + dataSize + PADDING < r.ringSize
      write   == IF ahead /\ ~fitsEnd THEN 0 ELSE r.ringWrite
      fits    == fitsEnd \/ write + dataSize + PADDING < r.ringRead
  IN IF fits THEN [d EXCEPT !.arenas[d.cur].ringWrite = write + dataSize]
     ELSE [expansion(d, dataSize) EXCEPT !.arenas[d.cur].ringWrite = write,
                                         !.arenas[d.cur + 1].ringWrite = dataSize]

\* The bytes of a buffer.
Bytes(d, buffer, n) ==
  [i \in 1 .. n |-> d.arenas[buffer[1]].ring[buffer[2] + i - 1]]

\* Where the last n bytes that got a place in the ring are.
Newest(d, n) == <<d.cur, Cur(d).ringWrite - n>>

\* The bytes at the newest place, and PADDING zero bytes behind them.
Filled(d, bytes) ==
  LET off == Newest(d, Len(bytes))[2]
      end == off + Len(bytes)
  IN [d EXCEPT !.arenas[d.cur].ring =
        [i \in DOMAIN @ |-> IF i \in off .. end - 1 THEN bytes[i - off + 1]
                            ELSE IF i \in end .. end + PADDING - 1 THEN 0
                            ELSE @[i]]]

\* insertIntoBuffer
insertIntoBuffer(d, bytes) == Filled(createBuffer(d, Len(bytes)), bytes)

\* The frame FFusionDataAppend is about to fill, found before the bytes get
\* their place: it stays in the old array when only the ring is expanded.
AppendTarget(d) ==
  IF (Cur(d).frameWrite + 1) % Cur(d).frameSize = Cur(d).frameRead
  THEN <<d.cur + 1, 0>> ELSE <<d.cur, Cur(d).frameWrite>>

\* The frame f of n bytes at buffer is written; frameWrite moves on in the array
\* that is current by now.
Appended(d, f, buffer, n, type) ==
  [d EXCEPT
     !.arenas[f[1]].frames[f[2]] = [@ EXCEPT !.buffer = buffer, !.dataSize = n, !.type = type,
                                             !.prereqFrame = NULL, !.decoded = FALSE],
     !.arenas[d.cur].frameWrite = (@ + 1) % Cur(d).frameSize]

AppendedNewest(d, f, n, type) == Appended(d, f, Newest(d, n), n, type)

\* The frame goes behind what the ring has, or stays in the unparsed data.
AppendedIn(d, f, buffer, bytes, type) ==
  LET n == Len(bytes)
  IN IF buffer # NULL /\ d.unparsed.buffer = buffer
     THEN Appended([d EXCEPT !.unparsed = [buffer |-> <<buffer[1], buffer[2] + n>>,
                                           dataSize |-> @.dataSize - n]], f, buffer, n, type)
     ELSE AppendedNewest(insertIntoBuffer(d, bytes), f, n, type)

\* FFusionDataAppend of the bytes that begin at buffer; it returns AppendTarget.
\* A caller's own buffer is given by its bytes, with buffer = NULL; the unparsed
\* data by its address.  The frame keeps the number its slot had, the caller
\* writes its own over it.
FFusionDataAppend(d, buffer, bytes, type) ==
  LET f == AppendTarget(d)
  IN AppendedIn(IF f[1] # d.cur THEN expansion(d, Len(bytes)) ELSE d, f, buffer, bytes, type)

\* The bytes that got a place last are the unparsed data.
Unparsing(d, n) == [d EXCEPT !.unparsed = [buffer |-> Newest(d, n), dataSize |-> n]]

\* FFusionDataSetUnparsed
FFusionDataSetUnparsed(d, buffer, bytes) ==
  IF buffer # NULL /\ d.unparsed.buffer = buffer
  THEN [d EXCEPT !.unparsed.dataSize = Len(bytes)]
  ELSE Unparsing(insertIntoBuffer(d, bytes), Len(bytes))

\* FFusionDataReadUnparsed gives the unparsed bytes back to the ring.
FFusionDataReadUnparsed(d) ==
  [d EXCEPT !.arenas[d.cur].ringWrite = @ - d.unparsed.dataSize,
            !.unparsed.dataSize = 0]

\* FrameDataCheckPrereq: the prerequisite that is still to be decoded.
FrameDataCheckPrereq(d, f) ==
  LET prereq == Frame(d, f).prereqFrame
  IN IF prereq # NULL /\ Frame(d, prereq).decoded THEN NULL ELSE prereq

\* Faulty FFusionDataMarkRead: the array of the frame goes with the older ones.
MarkReadFreesOwn(d, f) ==
  IF f = NULL \/ Frame(d, f).prereqFrame # NULL \/ f[1] = d.cur THEN d
  ELSE [d EXCEPT !.arenas = [b \in {x \in DOMAIN d.arenas : x > f[1]} |-> @[b]]]

\* FFusionDataMarkRead: the frame and all before it are done with.  A frame
\* with a prerequisite is never marked.  The index is not reduced modulo frameSize.
\* When the bytes are not in the ring of the frame's own array, ringRead becomes
\* the distance of two allocations; that ring is never written again.
FFusionDataMarkRead(d, f) ==
  IF f = NULL \/ Frame(d, f).prereqFrame # NULL THEN d
  ELSE LET a    == f[1]
           home == Frame(d, f).buffer
           done == [d EXCEPT !.arenas[a].frameRead = f[2] + 1,
                             !.arenas[a].ringRead = IF home[1] = a THEN home[2] + Frame(d, f).dataSize
                                                    ELSE @]
       IN [done EXCEPT !.arenas = [b \in {x \in DOMAIN d.arenas : x >= a} |-> @[b]]]

\* The slots FFusionDataFind visits in one array: from frameRead on until it
\* meets frameWrite.  The first one is beyond the array when frameRead is, and
\* then slot 0 is passed over.
VisitedAt(r, k) == IF k = 0 THEN r.frameRead ELSE (r.frameRead + k) % r.frameSize

Visits(r) == CHOOSE k \in 0 .. r.frameSize : /\ VisitedAt(r, k) = r.frameWrite
                                             /\ \A j \in 0 .. k - 1 : VisitedAt(r, j) # r.frameWrite

\* The visits that find the number.  A visit beyond the array reads memory that
\* is no frame, and finds nothing there.
Hits(r, number) ==
  {k \in 0 .. Visits(r) - 1 : /\ VisitedAt(r, k) \in DOMAIN r.frames
                              /\ r.frames[VisitedAt(r, k)].frameNumber = number}

FirstHit(d, a, number) ==
  LET hits == Hits(d.arenas[a], number)
  IN <<a, VisitedAt(d.arenas[a], CHOOSE k \in hits : \A j \in hits : k <= j)>>

\* Faulty FFusionDataFind: forgets previousData.
FindInCurrent(d, number) ==
  IF Hits(Cur(d), number) = {} THEN NULL ELSE FirstHit(d, d.cur, number)

\* FFusionDataFind in the current array, then in the previous ones.
FFusionDataFind(d, number) ==
  LET found == {a \in DOMAIN d.arenas : Hits(d.arenas[a], number) # {}}
  IN IF found = {} THEN NULL
     ELSE FirstHit(d, CHOOSE a \in found : \A b \in found : b <= a, number)

\* FFusionCreateEntireDataBuffer: the bytes at the start of the ring, whatever
\* the ring holds there; a ring that is too small is replaced by a new one.
FFusionCreateEntireDataBuffer(d, bytes) ==
  LET n    == Len(bytes)
      size == Max2(Cur(d).ringSize, n + PADDING)
      kept == IF size = Cur(d).ringSize THEN Cur(d).ring ELSE [i \in {} |-> 0]
  IN [d EXCEPT !.arenas[d.cur].ringSize = size,
               !.arenas[d.cur].ring =
                 [i \in 0 .. size - 1 |->
                    IF i < n THEN bytes[i + 1]
                    ELSE IF i < n + PADDING THEN 0
                    ELSE IF i \in DOMAIN kept THEN kept[i] ELSE 0]]
=============================================================================
