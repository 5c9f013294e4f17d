---------------------------- MODULE BufferPoolSpec ----------------------------
(***************************************************************************)
(* BufferPool shared by its three users: libavcodec, which keeps reference *)
(* pictures, the decompress records QuickTime has in flight, and           *)
(* decode.futureBuffer.  One action per place of FFusionCodec.c where a    *)
(* buffer changes hands.  When libavcodec lets go of a picture is its own  *)
(* business, so CodecReleases may come at any time.                        *)
(***************************************************************************)
EXTENDS BufferPool

CONSTANTS Records,      \* the decompress records QuickTime has
          CodecRefs,    \* the pictures libavcodec keeps at most
          MaxPictures   \* bound: pictures decoded in a behaviour

ASSUME PoolAssumption ==
  /\ IsFiniteSet(Records) /\ CodecRefs \in Nat \ {0} /\ MaxPictures \in Nat
  /\ FFUSION_MAX_BUFFERS \in Nat /\ FFUSION_MAX_BUFFERS <= 253
  /\ FFUSION_MAX_BUFFERS >= CodecRefs + Cardinality(Records)
  /\ Nothing \notin Nat

VARIABLES knowsOrder,   \* packedType = PACKED_QUICKTIME_KNOWS_ORDER?
          pool,
          future,   \* decode.futureBuffer
          drp,      \* per record, its buffer, and the picture it had when it was set
          made,     \* the number of pictures decoded; a picture is its number
          taken     \* history: the buffers taken over since nobody used them any more

vars == <<knowsOrder, pool, future, drp, made, taken>>

NoDrp == [buffer |-> None, picture |-> Nothing]

Init ==
  /\ knowsOrder \in BOOLEAN
  /\ pool = EmptyPool
  /\ future = None
  /\ drp = [r \in Records |-> NoDrp]
  /\ made = 0
  /\ taken = {}

CodecHolds == {i \in Buffers : pool.buffers[i].ffmpegUsing}

CodecMayDecode == made < MaxPictures /\ Cardinality(CodecHolds) < CodecRefs

Hold(r, p, i) == drp' = [drp EXCEPT ![r] = [buffer |-> i, picture |-> p.buffers[i].picture]]

\* setFutureFrame: the new one is retained before the old one is released.
setFutureFrame(p, old, new) ==
  LET kept == IF new = None THEN p ELSE retainBuffer(p, new)
  IN IF old = None THEN kept ELSE releaseBuffer(kept, old)

\* DecodeBand with a new picture, which the record retains.
DecodeBand(r) ==
  /\ drp[r] = NoDrp /\ CodecMayDecode
  /\ LET got == FFusionGetBuffer(pool, made + 1)
         i   == got.lastAllocatedBuffer
     IN /\ pool' = IF knowsOrder
                   THEN [retainBuffer(got, i) EXCEPT !.buffers[i].frameNumber = made + 1]
                   ELSE retainBuffer(got, i)
        /\ Hold(r, pool', i)
        /\ taken' = taken \ {i}
  /\ made' = made + 1
  /\ UNCHANGED <<knowsOrder, future>>

\* DecodeBand of a frame libavcodec makes no picture of.  When QuickTime knows
\* the order, the record takes the buffer of the picture before it all the same,
\* also when nobody uses that any more and its memory has been given back.
DecodeBandNoPicture(r) ==
  /\ knowsOrder /\ drp[r] = NoDrp /\ made > 0
  /\ LET i == pool.lastAllocatedBuffer
     IN /\ pool' = [retainBuffer(pool, i) EXCEPT !.buffers[i].frameNumber = made]
        /\ Hold(r, pool', i)
        /\ taken' = IF i \in Free(pool) THEN taken \cup {i} ELSE taken
  /\ UNCHANGED <<knowsOrder, future, made>>

\* PrereqDecompress in the DecodeBand of some frame: the P frame is decoded early.
PrereqDecode ==
  /\ ~knowsOrder /\ CodecMayDecode /\ \E r \in Records : drp[r] = NoDrp
  /\ LET got == FFusionGetBuffer(pool, made + 1)
     IN /\ pool' = setFutureFrame(got, future, got.lastAllocatedBuffer)
        /\ future' = got.lastAllocatedBuffer
        /\ taken' = taken \ {got.lastAllocatedBuffer}
  /\ made' = made + 1
  /\ UNCHANGED <<knowsOrder, drp>>

\* DecodeBand of a frame that was decoded early.
ShowFuture(r) ==
  /\ ~knowsOrder /\ drp[r] = NoDrp /\ future # None
  /\ LET kept == retainBuffer(pool, future)
     IN /\ pool' = setFutureFrame(kept, future, None)
        /\ Hold(r, kept, future)
  /\ future' = None
  /\ UNCHANGED <<knowsOrder, made, taken>>

\* DecodeBand of an I frame: "Wipe memory of past P frames".
WipeFuture ==
  /\ ~knowsOrder
  /\ pool' = setFutureFrame(pool, future, None)
  /\ future' = None
  /\ UNCHANGED <<knowsOrder, drp, made, taken>>

\* BeginBand of a frame QuickTime knows to be decoded.
BeginBandDecoded(r, number) ==
  /\ knowsOrder /\ drp[r] = NoDrp
  /\ \E i \in BuffersOf(pool, number) :
       /\ \A j \in BuffersOf(pool, number) : i <= j
       /\ pool' = retainBuffer(pool, i)
       /\ Hold(r, pool', i)
  /\ UNCHANGED <<knowsOrder, future, made, taken>>

\* Faulty EndBand: the buffer of the record stays retained.
EndBandLeaks(r) ==
  /\ drp[r] # NoDrp
  /\ drp' = [drp EXCEPT ![r] = NoDrp]
  /\ UNCHANGED <<knowsOrder, pool, future, made, taken>>

EndBand(r) ==
  /\ drp[r] # NoDrp
  /\ pool' = IF pool.buffers[drp[r].buffer].everUsed THEN releaseBuffer(pool, drp[r].buffer) ELSE pool
  /\ drp' = [drp EXCEPT ![r] = NoDrp]
  /\ UNCHANGED <<knowsOrder, future, made, taken>>

CodecReleases(i) ==
  /\ i \in CodecHolds
  /\ pool' = FFusionReleaseBuffer(pool, i)
  /\ UNCHANGED <<knowsOrder, future, drp, made, taken>>

Next ==
  \/ \E r \in Records : DecodeBand(r) \/ DecodeBandNoPicture(r) \/ ShowFuture(r) \/ EndBand(r)
  \/ \E r \in Records, k \in 1 .. MaxPictures : BeginBandDecoded(r, k)
  \/ PrereqDecode \/ WipeFuture
  \/ \E i \in Buffers : CodecReleases(i)

Spec == Init /\ [][Next]_vars

-----------------------------------------------------------------------------
TypeOK ==
  /\ pool.lastAllocatedBuffer \in Buffers
  /\ \A i \in Buffers :
       /\ pool.buffers[i].retainCount \in 0 .. Cardinality(Records) + 2
       /\ pool.buffers[i].picture \in {Nothing} \cup 1 .. made
  /\ future \in Buffers \cup {None}
  /\ \A r \in Records : drp[r].buffer \in Buffers \cup {None}
  /\ taken \subseteq Buffers

Users(i) == {r \in Records : drp[r].buffer = i}
One(b) == IF b THEN 1 ELSE 0

(* A buffer's count is the number of its users: libavcodec, the future frame *)
(* and the records.  Nothing leaks and nothing is given back too early.      *)
RetainCountExact ==
  \A i \in Buffers :
    pool.buffers[i].retainCount =
      Cardinality(Users(i)) + One(pool.buffers[i].ffmpegUsing) + One(future = i)

(* The picture a record will draw is the one it was given, whatever          *)
(* libavcodec has decoded or let go of in the meantime.  A record is given   *)
(* none only with a buffer that a decode without a picture took over when    *)
(* nobody used it any more.                                                  *)
RecordsKeepPicture ==
  \A r \in Records :
    drp[r] # NoDrp => /\ pool.buffers[drp[r].buffer].picture = drp[r].picture
                      /\ drp[r].picture = Nothing => drp[r].buffer \in taken

(* libavcodec has a picture's memory back when nobody uses its buffer, not   *)
(* before, and gets it once, but for the buffers taken over like that.       *)
ReturnedOnce ==
  \A i \in Buffers \ taken :
    /\ i \notin pool.returnedTwice
    /\ pool.buffers[i].picture = Nothing <=> pool.buffers[i].retainCount = 0

(* As long as records and references are as many as foreseen there is a      *)
(* buffer for the next picture; FFusionGetBuffer does not say when there     *)
(* is none.                                                                  *)
AlwaysABuffer ==
  CodecMayDecode /\ (\E r \in Records : drp[r] = NoDrp) => Free(pool) # {}
=============================================================================
