------------------------------ MODULE BufferPool ------------------------------
(***************************************************************************)
(* The picture buffers of the video codec: FFusionGlobals.buffers and the  *)
(* functions of FFusionCodec.c that count their users.  libavcodec gets    *)
(* and releases buffers through FFusionGetBuffer and FFusionReleaseBuffer; *)
(* decompress records and decode.futureBuffer retain and release them.     *)
(*                                                                         *)
(* A pool is a record of the buffers and lastAllocatedBuffer.  A buffer's  *)
(* picture is what its memory shows, Nothing once libavcodec's own release *)
(* function has got the memory back (picture.data[0] = NULL).  A buffer is *)
(* in returnedTwice when that function was called again for the memory.    *)
(***************************************************************************)
EXTENDS Integers, FiniteSets

CONSTANTS FFUSION_MAX_BUFFERS,
          Nothing   \* no picture

Buffers == 0 .. FFUSION_MAX_BUFFERS - 1

None == -1          \* no buffer

EmptyPool ==
  [buffers |-> [i \in Buffers |-> [frameNumber |-> 0, retainCount |-> 0, ffmpegUsing |-> FALSE,
                                   picture |-> Nothing, everUsed |-> FALSE]],
   lastAllocatedBuffer |-> 0,
   returnedTwice |-> {}]

\* Faulty: a buffer is free when libavcodec does not use it.
FreeOfCodec(pool) == {i \in Buffers : ~pool.buffers[i].ffmpegUsing}

\* The buffers nobody retains.
Free(pool) == {i \in Buffers : pool.buffers[i].retainCount = 0}

\* The buffer FFusionGetBuffer takes: the first that nobody retains.
FirstFree(pool) == CHOOSE i \in Free(pool) : \A j \in Free(pool) : i <= j

\* FFusionGetBuffer.  Without a free buffer the picture gets no FFusionBuffer.
FFusionGetBuffer(pool, picture) ==
  IF Free(pool) = {} THEN pool
  ELSE LET i == FirstFree(pool)
       IN [pool EXCEPT !.buffers[i] = [@ EXCEPT !.picture = picture, !.retainCount = 1,
                                                !.ffmpegUsing = TRUE, !.everUsed = TRUE],
                       !.lastAllocatedBuffer = i,
                       !.returnedTwice = @ \ {i}]

\* retainBuffer; the count is a uint8_t.
retainBuffer(pool, i) == [pool EXCEPT !.buffers[i].retainCount = (@ + 1) % 256]

\* Faulty releaseBuffer: gives the memory back while libavcodec still uses it.
releaseBufferEarly(pool, i) ==
  LET count == (pool.buffers[i].retainCount + 255) % 256
      last  == count <= 1
  IN [pool EXCEPT !.buffers[i].retainCount = count,
                  !.buffers[i].picture = IF last THEN Nothing ELSE @,
                  !.returnedTwice = IF last /\ pool.buffers[i].picture = Nothing THEN @ \cup {i} ELSE @]

\* releaseBuffer: the last user gives the memory back to libavcodec.
releaseBuffer(pool, i) ==
  LET count == (pool.buffers[i].retainCount + 255) % 256
      last  == count = 0 /\ ~pool.buffers[i].ffmpegUsing
  IN [pool EXCEPT !.buffers[i].retainCount = count,
                  !.buffers[i].picture = IF last THEN Nothing ELSE @,
                  !.returnedTwice = IF last /\ pool.buffers[i].picture = Nothing THEN @ \cup {i} ELSE @]

\* Faulty FFusionReleaseBuffer: keeps the mark, the buffer is released once more.
FFusionReleaseBufferAgain(pool, i) ==
  IF pool.buffers[i].ffmpegUsing THEN releaseBuffer(pool, i) ELSE pool

\* FFusionReleaseBuffer
FFusionReleaseBuffer(pool, i) ==
  IF pool.buffers[i].ffmpegUsing
  THEN releaseBuffer([pool EXCEPT !.buffers[i].ffmpegUsing = FALSE], i)
  ELSE pool

\* BeginBand of a frame QuickTime says is decoded: a retained buffer with its number.
BuffersOf(pool, number) ==
  {i \in Buffers : pool.buffers[i].retainCount # 0 /\ pool.buffers[i].frameNumber = number}
=============================================================================
