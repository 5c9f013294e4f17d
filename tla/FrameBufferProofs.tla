--------------------------- MODULE FrameBufferProofs ---------------------------
(***************************************************************************)
(* FrameBuffer for every size of the array, of the ring, of the samples    *)
(* and of their frames: FrameBufferSpec implements FrameFifo, and          *)
(* FFusionDataFind never gets another frame in place of one in use.        *)
(*                                                                         *)
(* Neither property is inductive.  LiveInv relates the structure to the    *)
(* pointers the codec holds: they are to slots of their own, and in the    *)
(* current array to the ones in front of frameWrite (SlotsInv), so that a  *)
(* frame is never begun in a slot in use, whatever frameRead says of it;   *)
(* the bytes of a frame are in the ring of its own array or of a later one *)
(* (HomesInv); in the current ring they lie one behind the other from      *)
(* ringRead on, and the unparsed bytes behind them, with the padding in    *)
(* front of the oldest (RingInv).  So neither the bytes of a new frame nor *)
(* the zeroes behind them hit bytes in use, and an array that is freed has *)
(* no frame in use.  Places in rings are counted from the oldest one in    *)
(* use (Place), which makes the wrap a change of origin.  That no frame is *)
(* taken for another needs more: all slots that were ever numbered have    *)
(* different numbers (UniqueInv).                                          *)
(*                                                                         *)
(* The lemmas are about any queue d that becomes q and pointers f that     *)
(* become g, and are used for data, data', live and live'.                 *)
(***************************************************************************)
EXTENDS FrameBufferSpec, WellFoundedInduction, SequenceTheorems, TLAPS

-----------------------------------------------------------------------------
(* A set of natural numbers has a least one.                                *)
LEMMA LeastOf ==
  ASSUME NEW T \in SUBSET Nat, T # {}
  PROVE  \E x \in T : \A y \in T : x <= y
  <1>1. PICK x \in T : \A y \in T : ~(<<y, x>> \in OpToRel(<, Nat)) BY NatLessThanWellFounded, WFMin
  <1>2. \A y \in T : ~(y < x) BY <1>1 DEF OpToRel
  <1> QED BY <1>2

-----------------------------------------------------------------------------
(* Places in a ring that is used in turns: how far an offset is from the     *)
(* oldest one in use.                                                        *)

Place(oldest, size, x) == IF x >= oldest THEN x - oldest ELSE (x + size) - oldest

(* The next slot of an array.                                                *)
LEMMA NextSlot ==
  ASSUME NEW size \in Nat, size > 0, NEW x \in 0 .. size - 1
  PROVE  /\ (x + 1) % size = IF x + 1 = size THEN 0 ELSE x + 1
         /\ (x + 1) % size \in 0 .. size - 1
  <1>1. (x + 1) % size = IF x + 1 = size THEN 0 ELSE x + 1 OBVIOUS
  <1>2. PICK y : y = (x + 1) % size OBVIOUS
  <1>3. y = IF x + 1 = size THEN 0 ELSE x + 1 BY <1>1, <1>2
  <1>4. y \in 0 .. size - 1 BY <1>3
  <1> QED BY <1>1, <1>2, <1>4

-----------------------------------------------------------------------------
(* The queue d while the codec holds n pointers f[1] .. f[n]: every one is   *)
(* to a slot of its own, and in the current ring the bytes of these frames   *)
(* lie in their order, before the newest u bytes.                            *)

FrameType(x) ==
  x \in [buffer : {x.buffer}, dataSize : Nat, frameNumber : Nat, type : {x.type},
         skippabble : {x.skippabble}, decoded : {x.decoded}, prereqFrame : {x.prereqFrame}]

ArenaType(r) ==
  /\ r \in [frameSize : Nat, frameRead : Nat, frameWrite : Nat, frames : {r.frames},
            ringSize : Nat, ringRead : Nat, ringWrite : Nat, ring : {r.ring}]
  /\ r.frameSize >= Slots /\ r.frameRead <= r.frameSize /\ r.frameWrite < r.frameSize
  /\ DOMAIN r.frames = 0 .. r.frameSize - 1 /\ \A s \in DOMAIN r.frames : FrameType(r.frames[s])
  /\ DOMAIN r.ring = 0 .. r.ringSize - 1 /\ PADDING < r.ringSize

DataType(d) ==
  /\ d \in [arenas : {d.arenas}, cur : Nat, unparsed : {d.unparsed}]
  /\ d.unparsed \in [buffer : {d.unparsed.buffer}, dataSize : Nat]
  /\ DOMAIN d.arenas \subseteq 0 .. d.cur /\ d.cur \in DOMAIN d.arenas
  /\ \A a \in DOMAIN d.arenas : ArenaType(d.arenas[a])

BytePlace(r, x) == Place(r.ringRead, r.ringSize, x)

Pointer(d, t) ==
  t = <<t[1], t[2]>> /\ t[1] \in DOMAIN d.arenas /\ t[2] \in 0 .. d.arenas[t[1]].frameSize - 1

\* The slot s is k slots in front of frameWrite.
Before(r, s, k) == s + k = r.frameWrite \/ s + k = r.frameWrite + r.frameSize

SlotsInv(d, f, n) ==
  /\ \A i \in 1 .. n : Pointer(d, f[i])
  /\ \A i, j \in 1 .. n : i < j => f[i][1] <= f[j][1] /\ f[i] # f[j]
  /\ \A i \in 1 .. n : f[i][1] = d.cur => Before(Cur(d), f[i][2], (n + 1) - i)

\* The arena of the ring with the bytes, and where they are there.
Home(d, f) == Frame(d, f).buffer[1]
At(d, f) == Frame(d, f).buffer[2]

HomesInv(d, f, n) ==
  \A i \in 1 .. n :
    /\ Frame(d, f[i]).buffer = <<Home(d, f[i]), At(d, f[i])>>
    /\ Home(d, f[i]) \in DOMAIN d.arenas /\ f[i][1] <= Home(d, f[i])
    /\ At(d, f[i]) \in Nat /\ Frame(d, f[i]).dataSize > 0
    /\ At(d, f[i]) + Frame(d, f[i]).dataSize < d.arenas[Home(d, f[i])].ringSize

RingInv(d, f, n, u) ==
  LET r == Cur(d)
      top == r.ringWrite - u
  IN /\ u \in Nat /\ top \in Nat /\ r.ringRead < r.ringSize /\ r.ringWrite + PADDING < r.ringSize
     /\ top >= r.ringRead \/ r.ringWrite + PADDING < r.ringRead
     /\ \A i \in 1 .. n : Home(d, f[i]) = d.cur =>
          /\ BytePlace(r, At(d, f[i])) + Frame(d, f[i]).dataSize <= BytePlace(r, top)
          /\ \A j \in 1 .. n : i < j /\ Home(d, f[j]) = d.cur =>
               BytePlace(r, At(d, f[i])) + Frame(d, f[i]).dataSize <= BytePlace(r, At(d, f[j]))

QueueInv(d, f, n, u) == DataType(d) /\ SlotsInv(d, f, n) /\ HomesInv(d, f, n) /\ RingInv(d, f, n, u)

NumbersInv(d, f, n, last) ==
  \A i \in 1 .. n :
    /\ Frame(d, f[i]).frameNumber \in 1 .. last
    /\ \A j \in 1 .. n : i < j => Frame(d, f[i]).frameNumber < Frame(d, f[j]).frameNumber

UnparsedInv(d) == d.unparsed.dataSize > 0 => d.unparsed.buffer = Newest(d, d.unparsed.dataSize)

-----------------------------------------------------------------------------
(* The parts of the structure. *)

WithArena(d, a, r) == [d EXCEPT !.arenas[a] = r]
WithFrame(r, s, x) == [r EXCEPT !.frames[s] = x]

(* What a pointer is to is a frame.                                          *)
LEMMA PointerIsFrame ==
  ASSUME NEW d, DataType(d), NEW t, Pointer(d, t)
  PROVE  t[1] \in DOMAIN d.arenas /\ t[2] \in DOMAIN d.arenas[t[1]].frames /\ FrameType(Frame(d, t))
  <1>1. PICK a, s : a = t[1] /\ s = t[2] OBVIOUS
  <1>2. a \in DOMAIN d.arenas /\ s \in 0 .. d.arenas[a].frameSize - 1 BY <1>1 DEF Pointer
  <1>3. ArenaType(d.arenas[a]) BY <1>2 DEF DataType
  <1>4. s \in DOMAIN d.arenas[a].frames /\ FrameType(d.arenas[a].frames[s]) BY <1>2, <1>3 DEF ArenaType
  <1> QED BY <1>1, <1>2, <1>4 DEF Frame

(* One arena changes.                                                        *)
LEMMA ArenaChanges ==
  ASSUME NEW d, DataType(d), NEW a \in DOMAIN d.arenas, NEW r, ArenaType(r), NEW q, q = WithArena(d, a, r)
  PROVE  /\ DataType(q) /\ q.cur = d.cur /\ q.unparsed = d.unparsed
         /\ DOMAIN q.arenas = DOMAIN d.arenas /\ q.arenas[a] = r
         /\ \A b \in DOMAIN d.arenas : b # a => q.arenas[b] = d.arenas[b]
  <1>1. /\ q.cur = d.cur /\ q.unparsed = d.unparsed
        /\ q \in [arenas : {q.arenas}, cur : Nat, unparsed : {q.unparsed}]
        /\ q.arenas = [d.arenas EXCEPT ![a] = r]
    BY DEF DataType, WithArena
  <1>2. /\ DOMAIN q.arenas = DOMAIN d.arenas /\ q.arenas[a] = r
        /\ \A b \in DOMAIN d.arenas : b # a => q.arenas[b] = d.arenas[b]
    BY <1>1
  <1> QED BY <1>1, <1>2 DEF DataType

(* The ring is written, or its end moves.                                    *)
LEMMA RingWriteChanges ==
  ASSUME NEW r, ArenaType(r), NEW x \in Nat, NEW q, q = [r EXCEPT !.ringWrite = x]
  PROVE  /\ ArenaType(q) /\ q.frames = r.frames /\ q.frameSize = r.frameSize
         /\ q.frameRead = r.frameRead /\ q.frameWrite = r.frameWrite
         /\ q.ring = r.ring /\ q.ringSize = r.ringSize /\ q.ringRead = r.ringRead /\ q.ringWrite = x
  BY DEF ArenaType

(* The bytes of the ring change.                                             *)
LEMMA RingChanges ==
  ASSUME NEW r, ArenaType(r), NEW x, DOMAIN x = DOMAIN r.ring, NEW q, q = [r EXCEPT !.ring = x]
  PROVE  /\ ArenaType(q) /\ q.frames = r.frames /\ q.frameSize = r.frameSize
         /\ q.frameRead = r.frameRead /\ q.frameWrite = r.frameWrite
         /\ q.ring = x /\ q.ringSize = r.ringSize /\ q.ringRead = r.ringRead /\ q.ringWrite = r.ringWrite
  BY DEF ArenaType

(* A frame changes.                                                          *)
LEMMA FrameChanges ==
  ASSUME NEW r, ArenaType(r), NEW s \in 0 .. r.frameSize - 1, NEW x, FrameType(x),
         NEW q, q = WithFrame(r, s, x)
  PROVE  /\ ArenaType(q) /\ q.frames[s] = x
         /\ \A t \in DOMAIN r.frames : t # s => q.frames[t] = r.frames[t]
         /\ q.frameSize = r.frameSize /\ q.frameRead = r.frameRead /\ q.frameWrite = r.frameWrite
         /\ q.ring = r.ring /\ q.ringSize = r.ringSize /\ q.ringRead = r.ringRead /\ q.ringWrite = r.ringWrite
  <1>1. /\ q \in [frameSize : Nat, frameRead : Nat, frameWrite : Nat, frames : {q.frames},
                  ringSize : Nat, ringRead : Nat, ringWrite : Nat, ring : {q.ring}]
        /\ q.frames = [r.frames EXCEPT ![s] = x]
        /\ q.frameSize = r.frameSize /\ q.frameRead = r.frameRead /\ q.frameWrite = r.frameWrite
        /\ q.ring = r.ring /\ q.ringSize = r.ringSize /\ q.ringRead = r.ringRead /\ q.ringWrite = r.ringWrite
    BY DEF ArenaType, WithFrame
  <1>2. /\ DOMAIN q.frames = DOMAIN r.frames /\ q.frames[s] = x
        /\ \A t \in DOMAIN r.frames : t # s => q.frames[t] = r.frames[t]
    BY <1>1 DEF ArenaType
  <1> QED BY <1>1, <1>2 DEF ArenaType

(* The next slot to be filled moves.                                         *)
LEMMA FrameWriteChanges ==
  ASSUME NEW r, ArenaType(r), NEW x \in Nat, x < r.frameSize, NEW q, q = [r EXCEPT !.frameWrite = x]
  PROVE  /\ ArenaType(q) /\ q.frames = r.frames /\ q.frameSize = r.frameSize
         /\ q.frameRead = r.frameRead /\ q.frameWrite = x
         /\ q.ring = r.ring /\ q.ringSize = r.ringSize /\ q.ringRead = r.ringRead /\ q.ringWrite = r.ringWrite
  BY DEF ArenaType

(* Frames and bytes are given up.                                            *)
LEMMA FrameReadChanges ==
  ASSUME NEW r, ArenaType(r), NEW x \in Nat, x <= r.frameSize, NEW q, q = [r EXCEPT !.frameRead = x]
  PROVE  /\ ArenaType(q) /\ q.frames = r.frames /\ q.frameSize = r.frameSize
         /\ q.frameRead = x /\ q.frameWrite = r.frameWrite
         /\ q.ring = r.ring /\ q.ringSize = r.ringSize /\ q.ringRead = r.ringRead /\ q.ringWrite = r.ringWrite
  BY DEF ArenaType

(* The oldest byte in use moves.                                             *)
LEMMA RingReadChanges ==
  ASSUME NEW r, ArenaType(r), NEW x \in Nat, NEW q, q = [r EXCEPT !.ringRead = x]
  PROVE  /\ ArenaType(q) /\ q.frames = r.frames /\ q.frameSize = r.frameSize
         /\ q.frameRead = r.frameRead /\ q.frameWrite = r.frameWrite
         /\ q.ring = r.ring /\ q.ringSize = r.ringSize /\ q.ringRead = x /\ q.ringWrite = r.ringWrite
  BY DEF ArenaType

(* A new arena.                                                              *)
LEMMA ArenaIs ==
  ASSUME NEW slots \in Nat, slots >= Slots, NEW bytes \in Nat, bytes > PADDING, NEW r, r = Arena(slots, bytes)
  PROVE  /\ ArenaType(r) /\ r.frameSize = slots /\ r.frameRead = 0 /\ r.frameWrite = 0
         /\ r.ringSize = bytes /\ r.ringRead = 0 /\ r.ringWrite = 0
         /\ \A s \in DOMAIN r.frames : r.frames[s].frameNumber = 0
  <1>0. Slots \in Nat /\ Slots >= 2 BY SetupAssumption
  <1>1. FrameType(EmptyFrame) BY DEF FrameType, EmptyFrame
  <1>2. /\ r.frameSize = slots /\ r.frameRead = 0 /\ r.frameWrite = 0
        /\ r.ringSize = bytes /\ r.ringRead = 0 /\ r.ringWrite = 0
        /\ r.frames = [i \in 0 .. slots - 1 |-> EmptyFrame]
        /\ r.ring = [i \in 0 .. bytes - 1 |-> 0]
        /\ r \in [frameSize : Nat, frameRead : Nat, frameWrite : Nat, frames : {r.frames},
                  ringSize : Nat, ringRead : Nat, ringWrite : Nat, ring : {r.ring}]
    BY DEF Arena
  <1>3. ArenaType(r) BY <1>0, <1>1, <1>2 DEF ArenaType
  <1>4. \A s \in DOMAIN r.frames : r.frames[s].frameNumber = 0 BY <1>2 DEF EmptyFrame
  <1> QED BY <1>2, <1>3, <1>4

Expanded(d, n, q) ==
  /\ DOMAIN q.arenas = DOMAIN d.arenas \union {q.cur}
  /\ \A a \in DOMAIN d.arenas : q.arenas[a] = d.arenas[a]
  /\ \A s \in DOMAIN Cur(q).frames : Cur(q).frames[s].frameNumber = 0
  /\ Cur(q).ringRead = 0 /\ Cur(q).ringWrite = 0
  /\ n + PADDING < Cur(q).ringSize

(* The array and the ring are replaced.                                      *)
LEMMA ExpansionIs ==
  ASSUME NEW d, DataType(d), NEW n \in Nat, NEW q, q = expansion(d, n)
  PROVE  DataType(q) /\ q.cur = d.cur + 1 /\ q.unparsed = NoUnparsed /\ Expanded(d, n, q)
  <1> DEFINE r == Cur(d)
             slots == 2 * r.frameSize
             bytes == Max2(10 * n, 2 * r.ringSize)
  <1>0. PADDING \in Nat /\ Slots \in Nat BY SetupAssumption
  <1>1. ArenaType(r) BY DEF DataType, Cur
  <1>2. slots \in Nat /\ slots >= Slots /\ bytes \in Nat /\ n + PADDING < bytes /\ bytes > PADDING
    <2>1. r.frameSize \in Nat /\ r.frameSize >= Slots /\ r.ringSize \in Nat /\ r.ringSize > PADDING
      BY <1>1 DEF ArenaType
    <2> HIDE DEF r
    <2> QED BY <1>0, <2>1 DEF Max2
  <1> HIDE DEF r, slots, bytes
  <1>3. /\ q.cur = d.cur + 1 /\ q.unparsed = NoUnparsed
        /\ q \in [arenas : {q.arenas}, cur : {d.cur + 1}, unparsed : {q.unparsed}]
        /\ q.arenas = [a \in DOMAIN d.arenas \union {d.cur + 1} |->
                         IF a \in DOMAIN d.arenas THEN d.arenas[a] ELSE Arena(slots, bytes)]
    BY DEF expansion, slots, bytes, r
  <1>4. d.cur \in Nat /\ d.cur + 1 \notin DOMAIN d.arenas BY DEF DataType
  <1>5. /\ DOMAIN q.arenas = DOMAIN d.arenas \union {q.cur}
        /\ \A a \in DOMAIN d.arenas : q.arenas[a] = d.arenas[a]
        /\ q.arenas[q.cur] = Arena(slots, bytes)
    BY <1>3, <1>4
  <1>6. ArenaType(q.arenas[q.cur]) BY <1>2, <1>5, ArenaIs
  <1>7. q.unparsed \in [buffer : {q.unparsed.buffer}, dataSize : Nat] BY <1>3 DEF NoUnparsed
  <1>8. DOMAIN q.arenas \subseteq 0 .. q.cur /\ q.cur \in Nat BY <1>3, <1>4, <1>5 DEF DataType
  <1>9. DataType(q) BY <1>3, <1>5, <1>6, <1>7, <1>8 DEF DataType
  <1>10. Expanded(d, n, q) BY <1>2, <1>3, <1>5, ArenaIs DEF Cur, Expanded
  <1> QED BY <1>3, <1>9, <1>10

-----------------------------------------------------------------------------
(* Steps that leave the arrays of frames. *)

Alike(d, q) ==
  \A a \in DOMAIN d.arenas :
    /\ a \in DOMAIN q.arenas
    /\ q.arenas[a].frames = d.arenas[a].frames /\ q.arenas[a].frameSize = d.arenas[a].frameSize
    /\ q.arenas[a].frameRead = d.arenas[a].frameRead /\ q.arenas[a].frameWrite = d.arenas[a].frameWrite
    /\ q.arenas[a].ringSize = d.arenas[a].ringSize

Fresh(d, q) ==
  /\ q.cur = d.cur \/ q.cur \notin DOMAIN d.arenas
  /\ \A a \in DOMAIN q.arenas : a \notin DOMAIN d.arenas =>
       \A s \in DOMAIN q.arenas[a].frames : q.arenas[a].frames[s].frameNumber = 0

SameFrames(d, q, f, n) == \A i \in 1 .. n : Frame(q, f[i]) = Frame(d, f[i])

(* The frames the codec holds are where and what they were.                  *)
LEMMA AlikeKeeps ==
  ASSUME NEW d, NEW q, NEW f, NEW n \in Nat, Alike(d, q), Fresh(d, q), SlotsInv(d, f, n), HomesInv(d, f, n)
  PROVE  SlotsInv(q, f, n) /\ HomesInv(q, f, n) /\ SameFrames(d, q, f, n)
  <1>1. \A i \in 1 .. n : f[i][1] \in DOMAIN d.arenas BY DEF SlotsInv, Pointer
  <1>2. \A i \in 1 .. n : Frame(q, f[i]) = Frame(d, f[i]) BY <1>1 DEF Alike, Frame
  <1>3. \A i \in 1 .. n : Home(q, f[i]) = Home(d, f[i]) /\ At(q, f[i]) = At(d, f[i]) BY <1>2 DEF Home, At
  <1>4. SlotsInv(q, f, n)
    <2>1. \A i \in 1 .. n : Pointer(q, f[i]) BY DEF Alike, SlotsInv, Pointer
    <2>2. ASSUME NEW i \in 1 .. n, f[i][1] = q.cur PROVE Before(Cur(q), f[i][2], (n + 1) - i)
      <3>1. q.cur = d.cur /\ d.cur \in DOMAIN d.arenas BY <1>1, <2>2 DEF Fresh
      <3>2. Before(Cur(d), f[i][2], (n + 1) - i) BY <2>2, <3>1 DEF SlotsInv
      <3>3. Cur(q).frameWrite = Cur(d).frameWrite /\ Cur(q).frameSize = Cur(d).frameSize
        BY <3>1 DEF Alike, Cur
      <3> QED BY <3>2, <3>3 DEF Before
    <2> QED BY <2>1, <2>2 DEF SlotsInv
  <1>5. HomesInv(q, f, n) BY <1>2, <1>3 DEF HomesInv, Alike
  <1> QED BY <1>2, <1>4, <1>5 DEF SameFrames

\* Where createBuffer finds room in the ring.
Room(r, w, n) ==
  \/ w = r.ringWrite /\ r.ringWrite >= r.ringRead /\ r.ringWrite + n + PADDING < r.ringSize
  \/ w = 0 /\ r.ringWrite >= r.ringRead /\ n + PADDING < r.ringRead
  \/ w = r.ringWrite /\ r.ringWrite < r.ringRead /\ r.ringWrite + n + PADDING < r.ringRead

\* n bytes at w, and n bytes in a new ring, while the old one ends at w.
Placed(d, w, n) == WithArena(d, d.cur, [Cur(d) EXCEPT !.ringWrite = w + n])
Replaced(d, w, n) ==
  LET e == WithArena(expansion(d, n), d.cur, [Cur(d) EXCEPT !.ringWrite = w])
  IN WithArena(e, d.cur + 1, [e.arenas[d.cur + 1] EXCEPT !.ringWrite = n])

(* The outcomes of createBuffer.                                             *)
LEMMA CreateBufferIs ==
  ASSUME NEW d, DataType(d), NEW n \in Nat, NEW q, q = createBuffer(d, n)
  PROVE  \/ \E w \in Nat : Room(Cur(d), w, n) /\ q = Placed(d, w, n)
         \/ \E w \in Nat : q = Replaced(d, w, n)
  <1> DEFINE r == Cur(d)
             ahead == r.ringWrite >= r.ringRead
             fitsEnd == ahead /\ r.ringWrite + n + PADDING < r.ringSize
             write == IF ahead /\ ~fitsEnd THEN 0 ELSE r.ringWrite
             fits == fitsEnd \/ write + n + PADDING < r.ringRead
  <1>0. PADDING \in Nat BY SetupAssumption
  <1>1. ArenaType(r) BY DEF DataType, Cur
  <1>2. r.ringWrite \in Nat /\ r.ringRead \in Nat /\ r.ringSize \in Nat BY <1>1 DEF ArenaType
  <1>3. write \in Nat BY <1>2
  <1>4. q = IF fits THEN [d EXCEPT !.arenas[d.cur].ringWrite = write + n]
            ELSE [expansion(d, n) EXCEPT !.arenas[d.cur].ringWrite = write,
                                         !.arenas[d.cur + 1].ringWrite = n]
    BY DEF createBuffer
  <1>5. CASE fits
    <2>1. Room(r, write, n) BY <1>0, <1>2, <1>5 DEF Room
    <2>2. q = Placed(d, write, n) BY <1>4, <1>5 DEF Placed, WithArena, Cur
    <2> QED BY <1>3, <2>1, <2>2
  <1>6. CASE ~fits
    <2> HIDE DEF write, fits, fitsEnd, ahead
    <2>1. q = [expansion(d, n) EXCEPT !.arenas[d.cur].ringWrite = write, !.arenas[d.cur + 1].ringWrite = n]
      BY <1>4, <1>6
    <2>2. expansion(d, n).arenas[d.cur] = r BY ExpansionIs DEF Cur, DataType, Expanded
    <2> DEFINE e == WithArena(expansion(d, n), d.cur, [r EXCEPT !.ringWrite = write])
    <2>3. e = [expansion(d, n) EXCEPT !.arenas[d.cur].ringWrite = write] BY <2>2 DEF WithArena
    <2>4. q = [e EXCEPT !.arenas[d.cur + 1].ringWrite = n] BY <2>1, <2>3
    <2>5. q = WithArena(e, d.cur + 1, [e.arenas[d.cur + 1] EXCEPT !.ringWrite = n])
      BY <2>4 DEF WithArena
    <2>6. q = Replaced(d, write, n) BY <2>5 DEF Replaced, r
    <2> QED BY <1>3, <2>6
  <1> QED BY <1>5, <1>6

(* A place that has been found lies behind all that is in the ring.          *)
LEMMA RoomIsBehind ==
  ASSUME NEW r, ArenaType(r), NEW w \in Nat, NEW n \in Nat, Room(r, w, n),
         r.ringRead < r.ringSize, r.ringWrite + PADDING < r.ringSize
  PROVE  /\ BytePlace(r, r.ringWrite) <= BytePlace(r, w)
         /\ (w + n) + PADDING < r.ringSize
         /\ w >= r.ringRead \/ (w + n) + PADDING < r.ringRead
         /\ BytePlace(r, w) \in Int /\ BytePlace(r, r.ringWrite) \in Int
  <1>1. PADDING \in Nat BY SetupAssumption
  <1>2. r.ringWrite \in Nat /\ r.ringRead \in Nat /\ r.ringSize \in Nat BY DEF ArenaType
  <1> QED BY <1>1, <1>2 DEF Room, BytePlace, Place

(* createBuffer finds m bytes behind all others, and changes no frame.       *)
LEMMA CreateBufferKeeps ==
  ASSUME NEW d, NEW f, NEW n \in Nat, QueueInv(d, f, n, 0), NEW m \in Nat, NEW q, q = createBuffer(d, m)
  PROVE  /\ QueueInv(q, f, n, m) /\ Alike(d, q) /\ Fresh(d, q)
         /\ \A a \in DOMAIN d.arenas : q.arenas[a].ring = d.arenas[a].ring
         /\ \/ q.cur = d.cur /\ q.unparsed = d.unparsed
            \/ q.cur = d.cur + 1 /\ q.unparsed = NoUnparsed
  <1> DEFINE r == Cur(d)
  <1>0. PADDING \in Nat BY SetupAssumption
  <1>1. /\ DataType(d) /\ SlotsInv(d, f, n) /\ HomesInv(d, f, n) /\ RingInv(d, f, n, 0)
        /\ ArenaType(r) /\ d.cur \in DOMAIN d.arenas /\ r = d.arenas[d.cur]
    BY DEF QueueInv, DataType, Cur
  <1>2. /\ r.ringRead < r.ringSize /\ r.ringWrite + PADDING < r.ringSize
        /\ r.ringWrite \in Nat /\ r.ringRead \in Nat /\ r.ringSize \in Nat
    BY <1>1 DEF RingInv, ArenaType
  <1>3. CASE \E w \in Nat : Room(Cur(d), w, m) /\ q = Placed(d, w, m)
    <2>1. PICK w \in Nat : Room(r, w, m) /\ q = WithArena(d, d.cur, [r EXCEPT !.ringWrite = w + m])
      BY <1>3 DEF Placed
    <2>2. PICK p : p = [r EXCEPT !.ringWrite = w + m] OBVIOUS
    <2> HIDE DEF r
    <2>3. /\ ArenaType(p) /\ p.frames = r.frames /\ p.frameSize = r.frameSize
          /\ p.frameRead = r.frameRead /\ p.frameWrite = r.frameWrite
          /\ p.ring = r.ring /\ p.ringSize = r.ringSize /\ p.ringRead = r.ringRead /\ p.ringWrite = w + m
      BY <1>1, <2>2, RingWriteChanges
    <2>4. /\ DataType(q) /\ q.cur = d.cur /\ q.unparsed = d.unparsed
          /\ DOMAIN q.arenas = DOMAIN d.arenas /\ q.arenas[d.cur] = p
          /\ \A a \in DOMAIN d.arenas : a # d.cur => q.arenas[a] = d.arenas[a]
      <3>1. q = WithArena(d, d.cur, p) BY <2>1, <2>2
      <3>2. DataType(d) /\ d.cur \in DOMAIN d.arenas /\ ArenaType(p) BY <1>1, <2>3
      <3> QED BY ONLY <3>1, <3>2, ArenaChanges
    <2>5. Alike(d, q) /\ Fresh(d, q) /\ \A a \in DOMAIN d.arenas : q.arenas[a].ring = d.arenas[a].ring
      BY <1>1, <2>3, <2>4 DEF Alike, Fresh
    <2>6. /\ SlotsInv(q, f, n) /\ HomesInv(q, f, n)
          /\ \A i \in 1 .. n : Frame(q, f[i]) = Frame(d, f[i])
      BY <1>1, <2>5, AlikeKeeps DEF SameFrames
    <2>7. RingInv(q, f, n, m)
      <3>1. Cur(q) = p BY <2>4 DEF Cur
      <3>2. \A x : BytePlace(p, x) = BytePlace(r, x) BY <2>3 DEF BytePlace
      <3>3. /\ BytePlace(r, r.ringWrite) <= BytePlace(r, w)
            /\ (w + m) + PADDING < r.ringSize
            /\ w >= r.ringRead \/ (w + m) + PADDING < r.ringRead
            /\ BytePlace(r, w) \in Int /\ BytePlace(r, r.ringWrite) \in Int
        BY <1>1, <1>2, <2>1, RoomIsBehind
      <3>4. p.ringWrite - m = w BY <2>3
      <3>5. ASSUME NEW i \in 1 .. n, Home(q, f[i]) = q.cur
            PROVE  /\ BytePlace(p, At(q, f[i])) + Frame(q, f[i]).dataSize <= BytePlace(p, w)
                   /\ \A j \in 1 .. n : i < j /\ Home(q, f[j]) = q.cur =>
                        BytePlace(p, At(q, f[i])) + Frame(q, f[i]).dataSize <= BytePlace(p, At(q, f[j]))
        <4>1. /\ BytePlace(r, At(d, f[i])) + Frame(d, f[i]).dataSize <= BytePlace(r, r.ringWrite - 0)
              /\ \A j \in 1 .. n : i < j /\ Home(d, f[j]) = d.cur =>
                   BytePlace(r, At(d, f[i])) + Frame(d, f[i]).dataSize <= BytePlace(r, At(d, f[j]))
          BY <1>1, <2>4, <2>6, <3>5 DEF RingInv, Home, r
        <4>2. r.ringWrite - 0 = r.ringWrite BY <1>2
        <4>3. At(q, f[i]) = At(d, f[i]) /\ Frame(q, f[i]) = Frame(d, f[i]) BY <2>6 DEF At
        <4>4. \A j \in 1 .. n : At(q, f[j]) = At(d, f[j]) /\ Home(q, f[j]) = Home(d, f[j]) BY <2>6 DEF At, Home
        <4>5. BytePlace(r, At(d, f[i])) + Frame(d, f[i]).dataSize \in Int
          <5>1. At(d, f[i]) \in Nat BY <1>1 DEF HomesInv
          <5>2. BytePlace(r, At(d, f[i])) \in Int BY <1>2, <5>1 DEF BytePlace, Place
          <5>3. f[i][1] \in DOMAIN d.arenas /\ f[i][2] \in DOMAIN d.arenas[f[i][1]].frames
            BY <1>1, PointerIsFrame DEF SlotsInv
          <5>4. Frame(d, f[i]).dataSize \in Nat BY <1>1, <5>3 DEF DataType, ArenaType, Frame, FrameType
          <5> QED BY <5>2, <5>4
        <4>6. BytePlace(r, At(d, f[i])) + Frame(d, f[i]).dataSize <= BytePlace(r, w)
          BY <3>3, <4>1, <4>2, <4>5
        <4> QED BY <2>4, <3>2, <4>1, <4>3, <4>4, <4>6
      <3> QED BY <1>1, <2>3, <3>1, <3>3, <3>4, <3>5 DEF RingInv, r
    <2> QED BY <2>4, <2>5, <2>6, <2>7 DEF QueueInv
  <1>4. CASE \E w \in Nat : q = Replaced(d, w, m)
    <2>0. PICK w \in Nat : q = Replaced(d, w, m) BY <1>4
    <2>1. PICK e : /\ e = WithArena(expansion(d, m), d.cur, [r EXCEPT !.ringWrite = w])
                   /\ q = WithArena(e, d.cur + 1, [e.arenas[d.cur + 1] EXCEPT !.ringWrite = m])
      BY <2>0 DEF Replaced
    <2>2. PICK x : x = expansion(d, m) OBVIOUS
    <2>3. /\ DataType(x) /\ x.cur = d.cur + 1 /\ x.unparsed = NoUnparsed
          /\ DOMAIN x.arenas = DOMAIN d.arenas \union {x.cur}
          /\ \A a \in DOMAIN d.arenas : x.arenas[a] = d.arenas[a]
          /\ \A a \in DOMAIN Cur(x).frames : Cur(x).frames[a].frameNumber = 0
          /\ Cur(x).ringRead = 0 /\ Cur(x).ringWrite = 0
          /\ m + PADDING < Cur(x).ringSize
      <3>1. DataType(x) /\ x.cur = d.cur + 1 /\ x.unparsed = NoUnparsed /\ Expanded(d, m, x)
        BY <1>1, <2>2, ExpansionIs
      <3> QED BY <3>1 DEF Expanded
    <2>4. PICK p : p = [r EXCEPT !.ringWrite = w] OBVIOUS
    <2>5. d.cur + 1 # d.cur /\ d.cur + 1 \notin DOMAIN d.arenas BY <1>1 DEF DataType
    <2> HIDE DEF r
    <2>6. /\ ArenaType(p) /\ p.frames = r.frames /\ p.frameSize = r.frameSize
          /\ p.frameRead = r.frameRead /\ p.frameWrite = r.frameWrite
          /\ p.ring = r.ring /\ p.ringSize = r.ringSize
      BY <1>1, <2>4, RingWriteChanges
    <2>7. /\ DataType(e) /\ e.cur = x.cur /\ e.unparsed = x.unparsed
          /\ DOMAIN e.arenas = DOMAIN x.arenas /\ e.arenas[d.cur] = p
          /\ \A a \in DOMAIN x.arenas : a # d.cur => e.arenas[a] = x.arenas[a]
      <3>1. d.cur \in DOMAIN x.arenas BY <1>1, <2>3
      <3>2. e = WithArena(x, d.cur, p) BY <2>1, <2>2, <2>4
      <3>3. DataType(x) /\ ArenaType(p) BY <2>3, <2>6
      <3> QED BY ONLY <3>1, <3>2, <3>3, ArenaChanges
    <2>8. PICK y : y = [e.arenas[d.cur + 1] EXCEPT !.ringWrite = m] OBVIOUS
    <2>9. e.arenas[d.cur + 1] = Cur(x) /\ ArenaType(Cur(x)) BY <2>3, <2>5, <2>7 DEF Cur, DataType
    <2>10. /\ ArenaType(y) /\ y.frames = Cur(x).frames
           /\ y.ringSize = Cur(x).ringSize /\ y.ringRead = 0 /\ y.ringWrite = m
      BY <2>3, <2>8, <2>9, RingWriteChanges
    <2>11. /\ DataType(q) /\ q.cur = e.cur /\ q.unparsed = e.unparsed
           /\ DOMAIN q.arenas = DOMAIN e.arenas /\ q.arenas[d.cur + 1] = y
           /\ \A a \in DOMAIN e.arenas : a # d.cur + 1 => q.arenas[a] = e.arenas[a]
      <3>1. PICK c : c = d.cur + 1 OBVIOUS
      <3>2. c \in DOMAIN e.arenas BY <2>3, <2>7, <3>1
      <3>3. q = WithArena(e, c, y) BY <2>1, <2>8, <3>1
      <3>4. DataType(e) /\ ArenaType(y) BY <2>7, <2>10
      <3>5. /\ DataType(q) /\ q.cur = e.cur /\ q.unparsed = e.unparsed
            /\ DOMAIN q.arenas = DOMAIN e.arenas /\ q.arenas[c] = y
            /\ \A a \in DOMAIN e.arenas : a # c => q.arenas[a] = e.arenas[a]
        BY ONLY <3>2, <3>3, <3>4, ArenaChanges
      <3> QED BY <3>1, <3>5
    <2>12. \A a \in DOMAIN d.arenas : a \in DOMAIN q.arenas
                                      /\ q.arenas[a] = IF a = d.cur THEN p ELSE d.arenas[a]
      BY <2>3, <2>5, <2>7, <2>11
    <2>13. \A a \in DOMAIN y.frames : y.frames[a].frameNumber = 0 BY <2>3, <2>10
    <2>14. Alike(d, q) BY <1>1, <2>6, <2>12 DEF Alike
    <2>15. Fresh(d, q) BY <2>3, <2>5, <2>7, <2>11, <2>13 DEF Fresh
    <2>16. \A a \in DOMAIN d.arenas : q.arenas[a].ring = d.arenas[a].ring BY <1>1, <2>6, <2>12
    <2>17. SlotsInv(q, f, n) /\ HomesInv(q, f, n) BY <1>1, <2>14, <2>15, AlikeKeeps
    <2>18. RingInv(q, f, n, m)
      <3>1. Cur(q) = y /\ q.cur = d.cur + 1 BY <2>3, <2>7, <2>11 DEF Cur
      <3>2. \A i \in 1 .. n : Home(q, f[i]) # q.cur
        <4>1. \A i \in 1 .. n : Home(d, f[i]) # q.cur BY <1>1, <2>5, <3>1 DEF HomesInv
        <4>2. SameFrames(d, q, f, n) BY <1>1, <2>14, <2>15, AlikeKeeps
        <4> QED BY <4>1, <4>2 DEF SameFrames, Home
      <3>3. y.ringWrite - m = 0 BY <2>10
      <3>4. 0 >= y.ringRead /\ y.ringRead < y.ringSize /\ y.ringWrite + PADDING < y.ringSize
        BY <1>0, <2>3, <2>9, <2>10 DEF ArenaType
      <3> QED BY <3>1, <3>2, <3>3, <3>4 DEF RingInv
    <2> QED BY <2>3, <2>7, <2>11, <2>14, <2>15, <2>16, <2>17, <2>18 DEF QueueInv
  <1>5. DataType(d) /\ m \in Nat /\ q = createBuffer(d, m) BY <1>1
  <1> QED BY <1>3, <1>4, <1>5, CreateBufferIs

-----------------------------------------------------------------------------
(* The bytes in the rings. *)

IsSeq(x, m) == x = [i \in 1 .. m |-> x[i]] /\ Len(x) = m

\* What the codec finds behind a pointer.
Held(d, f) == [number |-> Frame(d, f).frameNumber,
               bytes |-> Bytes(d, Frame(d, f).buffer, Frame(d, f).dataSize)]

\* The number in a slot, 0 where there is none.
NumberAt(d, a, s) ==
  IF a \in DOMAIN d.arenas /\ s \in DOMAIN d.arenas[a].frames THEN d.arenas[a].frames[s].frameNumber ELSE 0

\* No slot has a number it did not have before.
NoNewNumber(d, q, a, s) == NumberAt(q, a, s) = 0 \/ NumberAt(q, a, s) = NumberAt(d, a, s)
SameNumbers(d, q) == \A a, s : NoNewNumber(d, q, a, s)

HoldsSame(d, q, f, n) ==
  /\ \A i \in 1 .. n : Held(q, f[i]) = Held(d, f[i])
  /\ SameNumbers(d, q)

(* Steps that leave the arrays of frames leave the numbers.                  *)
LEMMA AlikeNumbers ==
  ASSUME NEW d, NEW q, Alike(d, q), Fresh(d, q)
  PROVE  SameNumbers(d, q)
  <1> SUFFICES ASSUME NEW a, NEW s, NumberAt(q, a, s) # 0 PROVE NumberAt(q, a, s) = NumberAt(d, a, s)
    BY DEF SameNumbers, NoNewNumber
  <1>1. a \in DOMAIN q.arenas /\ s \in DOMAIN q.arenas[a].frames /\ q.arenas[a].frames[s].frameNumber # 0
    BY DEF NumberAt
  <1>2. a \in DOMAIN d.arenas BY <1>1 DEF Fresh
  <1>3. q.arenas[a].frames = d.arenas[a].frames BY <1>2 DEF Alike
  <1> QED BY <1>1, <1>2, <1>3 DEF NumberAt

(* What is kept by two steps.                                                *)
LEMMA HoldsTwice ==
  ASSUME NEW d, NEW e, NEW q, NEW f, NEW n \in Nat, HoldsSame(d, e, f, n), HoldsSame(e, q, f, n)
  PROVE  HoldsSame(d, q, f, n)
  BY DEF HoldsSame, SameNumbers, NoNewNumber

(* The newest u bytes, and the padding behind them, are in no other place.   *)
LEMMA PlacesApart ==
  ASSUME NEW r, ArenaType(r), NEW u \in Nat, NEW x \in Nat, NEW m \in Nat,
         r.ringWrite - u \in Nat, r.ringRead < r.ringSize, r.ringWrite + PADDING < r.ringSize,
         r.ringWrite - u >= r.ringRead \/ r.ringWrite + PADDING < r.ringRead,
         m > 0, x + m < r.ringSize, BytePlace(r, x) + m <= BytePlace(r, r.ringWrite - u)
  PROVE  x + m <= r.ringWrite - u \/ x >= r.ringWrite + PADDING
  <1>1. PADDING \in Nat BY SetupAssumption
  <1>2. r.ringWrite \in Nat /\ r.ringRead \in Nat /\ r.ringSize \in Nat BY DEF ArenaType
  <1> QED BY <1>1, <1>2 DEF BytePlace, Place

(* Writing the newest bytes leaves those of the frames.                      *)
LEMMA FilledKeeps ==
  ASSUME NEW d, NEW f, NEW n \in Nat, NEW m \in Nat, QueueInv(d, f, n, m),
         NEW x, IsSeq(x, m), NEW q, q = Filled(d, x)
  PROVE  /\ QueueInv(q, f, n, m) /\ Alike(d, q) /\ Fresh(d, q) /\ HoldsSame(d, q, f, n)
         /\ q.cur = d.cur /\ q.unparsed = d.unparsed
         /\ Bytes(q, Newest(q, m), m) = x
  <1> DEFINE r == Cur(d)
             off == r.ringWrite - m
             end == off + m
             ring == [i \in DOMAIN r.ring |-> IF i \in off .. end - 1 THEN x[i - off + 1]
                                              ELSE IF i \in end .. end + PADDING - 1 THEN 0
                                              ELSE r.ring[i]]
  <1>0. PADDING \in Nat BY SetupAssumption
  <1>1. /\ DataType(d) /\ SlotsInv(d, f, n) /\ HomesInv(d, f, n) /\ RingInv(d, f, n, m)
        /\ ArenaType(r) /\ d.cur \in DOMAIN d.arenas /\ r = d.arenas[d.cur]
    BY DEF QueueInv, DataType, Cur
  <1>2. PICK p : p = [r EXCEPT !.ring = ring] OBVIOUS
  <1>3. q = WithArena(d, d.cur, p)
    <2>1. Len(x) = m BY DEF IsSeq
    <2>2. Newest(d, m)[2] = off BY DEF Newest
    <2> QED BY <1>2, <2>1, <2>2 DEF Filled, WithArena, Cur
  <1>4. /\ off \in Nat /\ end = r.ringWrite /\ r.ringWrite \in Nat /\ r.ringSize \in Nat /\ r.ringRead \in Nat
        /\ r.ringRead < r.ringSize /\ r.ringWrite + PADDING < r.ringSize
        /\ off >= r.ringRead \/ r.ringWrite + PADDING < r.ringRead
        /\ DOMAIN r.ring = 0 .. r.ringSize - 1
    BY <1>1 DEF RingInv, ArenaType
  <1>5. DOMAIN ring = DOMAIN r.ring OBVIOUS
  <1>6. /\ \A i \in DOMAIN r.ring : i < off \/ i >= r.ringWrite + PADDING => ring[i] = r.ring[i]
        /\ \A i \in 1 .. m : ring[off + i - 1] = x[i]
    <2>1. \A i \in DOMAIN r.ring : i \in Int /\ i >= 0 BY <1>4
    <2>2. \A i \in 1 .. m : off + i - 1 \in DOMAIN r.ring /\ off + i - 1 \in off .. end - 1
                            /\ (off + i - 1) - off + 1 = i
      <3> HIDE DEF off, r
      <3>1. PICK o \in Nat, z \in Nat, w \in Nat : o = off /\ z = r.ringSize /\ w = r.ringWrite /\ w = o + m
        BY <1>4
      <3>2. end = w /\ DOMAIN r.ring = 0 .. z - 1 /\ w + PADDING < z BY <1>4, <3>1
      <3> HIDE DEF end
      <3> TAKE i \in 1 .. m
      <3>3. o + i - 1 \in 0 .. z - 1 /\ o + i - 1 \in o .. w - 1 /\ (o + i - 1) - o + 1 = i
        BY ONLY <1>0, <3>1, <3>2
      <3> QED BY <3>1, <3>2, <3>3
    <2>3. \A i \in 1 .. m : ring[off + i - 1] = x[i]
      <3> TAKE i \in 1 .. m
      <3> DEFINE j == off + i - 1
      <3>1. j \in DOMAIN r.ring /\ j \in off .. end - 1 /\ j - off + 1 = i BY <2>2
      <3> HIDE DEF j, off, r, end
      <3>2. ring[j] = x[i] BY <3>1
      <3> QED BY <3>2 DEF j
    <2>4. ASSUME NEW i \in DOMAIN r.ring, i < off \/ i >= r.ringWrite + PADDING
          PROVE  ring[i] = r.ring[i]
      <3>1. i \notin off .. end - 1 /\ i \notin end .. end + PADDING - 1
        <4>1. /\ i \in Int /\ off \in Nat /\ r.ringWrite \in Nat /\ end = r.ringWrite
              /\ off <= r.ringWrite
          BY <1>4, <2>1
        <4>2. PICK w : w = r.ringWrite OBVIOUS
        <4> HIDE DEF off, r, end
        <4>3. /\ PADDING \in Nat /\ i \in Int /\ off \in Nat /\ w \in Nat /\ end = w
              /\ i < off \/ i >= w + PADDING
              /\ off <= w
          BY <1>0, <2>4, <4>1, <4>2
        <4> QED BY ONLY <4>3
      <3> HIDE DEF off, r, end
      <3> QED BY <3>1
    <2> QED BY Zenon, <2>3, <2>4
  <1> HIDE DEF r, off, end, ring
  <1>7. /\ ArenaType(p) /\ p.frames = r.frames /\ p.frameSize = r.frameSize
        /\ p.frameRead = r.frameRead /\ p.frameWrite = r.frameWrite
        /\ p.ring = ring /\ p.ringSize = r.ringSize /\ p.ringRead = r.ringRead /\ p.ringWrite = r.ringWrite
    BY <1>1, <1>2, <1>5, RingChanges
  <1>8. /\ DataType(q) /\ q.cur = d.cur /\ q.unparsed = d.unparsed
        /\ DOMAIN q.arenas = DOMAIN d.arenas /\ q.arenas[d.cur] = p
        /\ \A a \in DOMAIN d.arenas : a # d.cur => q.arenas[a] = d.arenas[a]
    <2>1. DataType(d) /\ d.cur \in DOMAIN d.arenas /\ ArenaType(p) BY <1>1, <1>7
    <2> QED BY ONLY <1>3, <2>1, ArenaChanges
  <1>9. Alike(d, q) /\ Fresh(d, q) BY <1>1, <1>7, <1>8 DEF Alike, Fresh
  <1>10. /\ SlotsInv(q, f, n) /\ HomesInv(q, f, n)
         /\ \A i \in 1 .. n : Frame(q, f[i]) = Frame(d, f[i])
    BY <1>1, <1>9, AlikeKeeps DEF SameFrames
  <1>11. Cur(q) = p BY <1>8 DEF Cur
  <1>12. RingInv(q, f, n, m)
    <2>1. \A y : BytePlace(p, y) = BytePlace(r, y) BY <1>7 DEF BytePlace
    <2>2. \A i \in 1 .. n : At(q, f[i]) = At(d, f[i]) /\ Home(q, f[i]) = Home(d, f[i]) BY <1>10 DEF At, Home
    <2> QED BY <1>1, <1>7, <1>8, <1>10, <1>11, <2>1, <2>2 DEF RingInv, r
  <1>13. HoldsSame(d, q, f, n)
    <2>0. SameNumbers(d, q) BY <1>9, AlikeNumbers
    <2> SUFFICES ASSUME NEW i \in 1 .. n PROVE Held(q, f[i]) = Held(d, f[i]) BY <2>0 DEF HoldsSame
    <2> DEFINE at == At(d, f[i])
               home == Home(d, f[i])
               size == Frame(d, f[i]).dataSize
    <2>1. /\ Frame(d, f[i]).buffer = <<home, at>> /\ at \in Nat /\ size > 0
          /\ at + size < d.arenas[home].ringSize /\ home \in DOMAIN d.arenas
      BY <1>1 DEF HomesInv
    <2>2. f[i][1] \in DOMAIN d.arenas /\ f[i][2] \in DOMAIN d.arenas[f[i][1]].frames
      BY <1>1, PointerIsFrame DEF SlotsInv
    <2>3. size \in Nat BY <1>1, <2>2 DEF DataType, ArenaType, Frame, FrameType
    <2> HIDE DEF at, size, home
    <2>4. \A j \in 1 .. size : q.arenas[home].ring[at + j - 1] = d.arenas[home].ring[at + j - 1]
      <3>1. CASE home # d.cur BY <1>8, <2>1, <3>1
      <3>2. CASE home = d.cur
        <4>1. BytePlace(r, at) + size <= BytePlace(r, r.ringWrite - m)
          BY <1>1, <3>2 DEF RingInv, at, size, home, r
        <4>2. r.ringWrite - m \in Nat BY <1>4 DEF off
        <4>3. r.ringWrite - m >= r.ringRead \/ r.ringWrite + PADDING < r.ringRead BY <1>4 DEF off
        <4>4. at + size < r.ringSize BY <1>1, <2>1, <3>2
        <4>5. at + size <= r.ringWrite - m \/ at >= r.ringWrite + PADDING
          BY <1>1, <1>4, <2>1, <2>3, <4>1, <4>2, <4>3, <4>4, PlacesApart
        <4>6. at + size <= off \/ at >= r.ringWrite + PADDING BY <4>5 DEF off
        <4>7. \A j \in 1 .. size : /\ at + j - 1 \in DOMAIN r.ring
                                   /\ at + j - 1 < off \/ at + j - 1 >= r.ringWrite + PADDING
          BY <1>0, <1>4, <2>1, <2>3, <4>4, <4>6
        <4>8. \A j \in 1 .. size : ring[at + j - 1] = r.ring[at + j - 1] BY <1>6, <4>7
        <4> QED BY <1>1, <1>7, <1>8, <3>2, <4>8
      <3> QED BY <3>1, <3>2
    <2>5. Bytes(q, <<home, at>>, size) = Bytes(d, <<home, at>>, size) BY <2>4 DEF Bytes
    <2>6. Frame(q, f[i]) = Frame(d, f[i]) BY <1>10
    <2> QED BY <2>1, <2>5, <2>6 DEF Held, size
  <1>14. Bytes(q, Newest(q, m), m) = x
    <2>1. Newest(q, m) = <<d.cur, off>> BY <1>7, <1>8, <1>11 DEF Newest, off
    <2>2. \A i \in 1 .. m : q.arenas[d.cur].ring[off + i - 1] = x[i] BY <1>6, <1>7, <1>8
    <2>3. Bytes(q, <<d.cur, off>>, m) = [i \in 1 .. m |-> x[i]] BY <2>2 DEF Bytes
    <2> QED BY <2>1, <2>3 DEF IsSeq
  <1> QED BY <1>8, <1>9, <1>10, <1>12, <1>13, <1>14 DEF QueueInv

(* The outcome of two such steps.                                            *)
LEMMA AlikeTwice ==
  ASSUME NEW d, NEW c, NEW q, Alike(d, c), Fresh(d, c), Alike(c, q), Fresh(c, q)
  PROVE  Alike(d, q) /\ Fresh(d, q)
  <1>1. Alike(d, q) BY DEF Alike
  <1>2. DOMAIN d.arenas \subseteq DOMAIN c.arenas /\ DOMAIN c.arenas \subseteq DOMAIN q.arenas BY DEF Alike
  <1>3. q.cur = d.cur \/ q.cur \notin DOMAIN d.arenas BY <1>2 DEF Fresh
  <1>4. \A a \in DOMAIN c.arenas : q.arenas[a].frames = c.arenas[a].frames BY DEF Alike
  <1>5. Fresh(d, q) BY <1>3, <1>4 DEF Fresh
  <1> QED BY <1>1, <1>5

(* Bytes that are put behind all others leave those of the frames.           *)
LEMMA InsertKeeps ==
  ASSUME NEW d, NEW f, NEW n \in Nat, QueueInv(d, f, n, 0), NEW m \in Nat, NEW x, IsSeq(x, m),
         NEW q, q = insertIntoBuffer(d, x)
  PROVE  /\ QueueInv(q, f, n, m) /\ Alike(d, q) /\ Fresh(d, q) /\ HoldsSame(d, q, f, n)
         /\ Bytes(q, Newest(q, m), m) = x
         /\ q.cur = createBuffer(d, m).cur
         /\ \/ q.cur = d.cur /\ q.unparsed = d.unparsed
            \/ q.cur = d.cur + 1 /\ q.unparsed = NoUnparsed
  <1>1. PICK c : c = createBuffer(d, m) OBVIOUS
  <1>2. /\ QueueInv(c, f, n, m) /\ Alike(d, c) /\ Fresh(d, c)
        /\ \A a \in DOMAIN d.arenas : c.arenas[a].ring = d.arenas[a].ring
        /\ \/ c.cur = d.cur /\ c.unparsed = d.unparsed
           \/ c.cur = d.cur + 1 /\ c.unparsed = NoUnparsed
    BY <1>1, CreateBufferKeeps
  <1>3. q = Filled(c, x) BY <1>1 DEF insertIntoBuffer, IsSeq
  <1>4. /\ QueueInv(q, f, n, m) /\ Alike(c, q) /\ Fresh(c, q) /\ HoldsSame(c, q, f, n)
        /\ q.cur = c.cur /\ q.unparsed = c.unparsed
        /\ Bytes(q, Newest(q, m), m) = x
    BY <1>2, <1>3, FilledKeeps
  <1>5. HoldsSame(d, c, f, n)
    <2>0. SameNumbers(d, c) BY <1>2, AlikeNumbers
    <2> SUFFICES ASSUME NEW i \in 1 .. n PROVE Held(c, f[i]) = Held(d, f[i]) BY <2>0 DEF HoldsSame
    <2>1. SlotsInv(d, f, n) /\ HomesInv(d, f, n) BY DEF QueueInv
    <2>2. Frame(c, f[i]) = Frame(d, f[i])
      <3>1. Alike(d, c) /\ Fresh(d, c) BY <1>2
      <3>2. SameFrames(d, c, f, n) BY <2>1, <3>1, AlikeKeeps
      <3> QED BY <3>2 DEF SameFrames
    <2>3. Frame(d, f[i]).buffer[1] \in DOMAIN d.arenas BY <2>1 DEF HomesInv, Home
    <2> QED BY Zenon, <1>2, <2>2, <2>3 DEF Held, Bytes
  <1>6. HoldsSame(d, q, f, n) BY <1>4, <1>5, HoldsTwice
  <1>7. Alike(d, q) /\ Fresh(d, q) BY <1>2, <1>4, AlikeTwice
  <1> QED BY <1>1, <1>2, <1>4, <1>6, <1>7

(* An empty ring has room for all it can hold.                               *)
LEMMA CreateBufferFits ==
  ASSUME NEW d, NEW m \in Nat, Cur(d).ringRead = 0, Cur(d).ringWrite = 0, m + PADDING < Cur(d).ringSize
  PROVE  createBuffer(d, m).cur = d.cur
  BY DEF createBuffer

(* A new array leaves the frames, and the ring it comes with is empty.       *)
LEMMA ExpansionKeeps ==
  ASSUME NEW d, NEW f, NEW n \in Nat, NEW u, QueueInv(d, f, n, u), NEW m \in Nat, NEW q, q = expansion(d, m)
  PROVE  /\ QueueInv(q, f, n, 0) /\ HoldsSame(d, q, f, n)
         /\ q.cur = d.cur + 1 /\ q.unparsed = NoUnparsed
         /\ Alike(d, q) /\ Fresh(d, q) /\ createBuffer(q, m).cur = q.cur
  <1>0. PADDING \in Nat BY SetupAssumption
  <1>1. DataType(d) /\ SlotsInv(d, f, n) /\ HomesInv(d, f, n) BY DEF QueueInv
  <1>2. /\ DataType(q) /\ q.cur = d.cur + 1 /\ q.unparsed = NoUnparsed
        /\ DOMAIN q.arenas = DOMAIN d.arenas \union {q.cur}
        /\ \A a \in DOMAIN d.arenas : q.arenas[a] = d.arenas[a]
        /\ \A s \in DOMAIN Cur(q).frames : Cur(q).frames[s].frameNumber = 0
        /\ Cur(q).ringRead = 0 /\ Cur(q).ringWrite = 0
        /\ m + PADDING < Cur(q).ringSize
    <2>1. DataType(q) /\ q.cur = d.cur + 1 /\ q.unparsed = NoUnparsed /\ Expanded(d, m, q)
      BY <1>1, ExpansionIs
    <2> QED BY <2>1 DEF Expanded
  <1>3. Alike(d, q) BY <1>2 DEF Alike
  <1>4. Fresh(d, q)
    <2>1. q.cur \notin DOMAIN d.arenas BY <1>1, <1>2 DEF DataType
    <2> QED BY <1>2, <2>1 DEF Fresh, Cur
  <1>5. SlotsInv(q, f, n) /\ HomesInv(q, f, n) /\ SameFrames(d, q, f, n)
    BY <1>1, <1>3, <1>4, AlikeKeeps
  <1>6. HoldsSame(d, q, f, n)
    <2>0. SameNumbers(d, q) BY <1>3, <1>4, AlikeNumbers
    <2> SUFFICES ASSUME NEW i \in 1 .. n PROVE Held(q, f[i]) = Held(d, f[i]) BY <2>0 DEF HoldsSame
    <2>1. Frame(q, f[i]) = Frame(d, f[i]) BY <1>5 DEF SameFrames
    <2>2. Frame(d, f[i]).buffer[1] \in DOMAIN d.arenas BY <1>1 DEF HomesInv, Home
    <2> QED BY Zenon, <1>2, <2>1, <2>2 DEF Held, Bytes
  <1>7. RingInv(q, f, n, 0)
    <2>1. q.cur \notin DOMAIN d.arenas BY <1>1, <1>2 DEF DataType
    <2>2. \A i \in 1 .. n : Home(q, f[i]) # q.cur BY <1>1, <1>5, <2>1 DEF HomesInv, Home, SameFrames
    <2>3. Cur(q).ringSize \in Nat BY <1>2 DEF DataType, Cur, ArenaType
    <2> QED BY <1>0, <1>2, <2>2, <2>3 DEF RingInv
  <1> QED BY <1>2, <1>3, <1>4, <1>5, <1>6, <1>7, CreateBufferFits DEF QueueInv

-----------------------------------------------------------------------------
(* A frame is begun. *)

\* BeginBand's own fields of the frame that was appended.
Marked(d, t, k, p) == [d EXCEPT !.arenas[t[1]].frames[t[2]].frameNumber = k,
                                !.arenas[t[1]].frames[t[2]].prereqFrame = p]

\* Nothing but the slot t and where the frames of an array end differs.
Touched(d, q, t) ==
  /\ DataType(q) /\ q.cur = d.cur /\ q.unparsed = d.unparsed /\ DOMAIN q.arenas = DOMAIN d.arenas
  /\ \A a \in DOMAIN d.arenas :
       /\ q.arenas[a].frameSize = d.arenas[a].frameSize /\ q.arenas[a].ring = d.arenas[a].ring
       /\ q.arenas[a].ringSize = d.arenas[a].ringSize /\ q.arenas[a].ringRead = d.arenas[a].ringRead
       /\ q.arenas[a].ringWrite = d.arenas[a].ringWrite
       /\ DOMAIN q.arenas[a].frames = DOMAIN d.arenas[a].frames
       /\ \A s \in DOMAIN d.arenas[a].frames :
            <<a, s>> # t => q.arenas[a].frames[s] = d.arenas[a].frames[s]

(* The outcome of two such steps.                                            *)
LEMMA TouchedTwice ==
  ASSUME NEW d, NEW e, NEW q, NEW t, Touched(d, e, t), Touched(e, q, t)
  PROVE  Touched(d, q, t)
  <1>1. \A a \in DOMAIN d.arenas : \A s \in DOMAIN d.arenas[a].frames :
          <<a, s>> # t => q.arenas[a].frames[s] = d.arenas[a].frames[s]
    BY DEF Touched
  <1>2. \A a \in DOMAIN d.arenas :
          /\ q.arenas[a].frameSize = d.arenas[a].frameSize /\ q.arenas[a].ring = d.arenas[a].ring
          /\ q.arenas[a].ringSize = d.arenas[a].ringSize /\ q.arenas[a].ringRead = d.arenas[a].ringRead
          /\ q.arenas[a].ringWrite = d.arenas[a].ringWrite
          /\ DOMAIN q.arenas[a].frames = DOMAIN d.arenas[a].frames
    BY DEF Touched
  <1>3. DataType(q) /\ q.cur = d.cur /\ q.unparsed = d.unparsed /\ DOMAIN q.arenas = DOMAIN d.arenas
    BY DEF Touched
  <1> QED BY <1>1, <1>2, <1>3 DEF Touched

(* A frame is put into a slot.                                               *)
LEMMA SlotWritten ==
  ASSUME NEW d, DataType(d), NEW t, Pointer(d, t), NEW x, FrameType(x),
         NEW q, q = [d EXCEPT !.arenas[t[1]].frames[t[2]] = x]
  PROVE  Touched(d, q, t) /\ Frame(q, t) = x /\ Cur(q).frameWrite = Cur(d).frameWrite
  <1>1. PICK a, s, r, y : a = t[1] /\ s = t[2] /\ r = d.arenas[a] /\ y = WithFrame(r, s, x) OBVIOUS
  <1>2. a \in DOMAIN d.arenas /\ s \in 0 .. r.frameSize - 1 /\ ArenaType(r) /\ t = <<a, s>>
    BY <1>1 DEF Pointer, DataType
  <1>3. /\ ArenaType(y) /\ y.frames[s] = x
        /\ \A v \in DOMAIN r.frames : v # s => y.frames[v] = r.frames[v]
        /\ y.frameSize = r.frameSize /\ y.frameRead = r.frameRead /\ y.frameWrite = r.frameWrite
        /\ y.ring = r.ring /\ y.ringSize = r.ringSize /\ y.ringRead = r.ringRead /\ y.ringWrite = r.ringWrite
    BY <1>1, <1>2, FrameChanges
  <1>4. DOMAIN y.frames = DOMAIN r.frames BY <1>2, <1>3 DEF ArenaType
  <1>5. q = WithArena(d, a, y) BY <1>1 DEF WithArena, WithFrame
  <1>6. /\ DataType(q) /\ q.cur = d.cur /\ q.unparsed = d.unparsed
        /\ DOMAIN q.arenas = DOMAIN d.arenas /\ q.arenas[a] = y
        /\ \A b \in DOMAIN d.arenas : b # a => q.arenas[b] = d.arenas[b]
    BY ONLY DataType(d), <1>2, <1>3, <1>5, ArenaChanges
  <1>7. ASSUME NEW b \in DOMAIN d.arenas, NEW v \in DOMAIN d.arenas[b].frames, <<b, v>> # t
        PROVE  q.arenas[b].frames[v] = d.arenas[b].frames[v]
    <2>1. CASE b = a
      <3>1. v # s /\ v \in DOMAIN r.frames BY <1>1, <1>2, <1>7, <2>1
      <3>2. q.arenas[b].frames[v] = y.frames[v] BY <1>6, <2>1
      <3>3. y.frames[v] = r.frames[v] BY <1>3, <3>1
      <3> QED BY <1>1, <2>1, <3>2, <3>3
    <2>2. CASE b # a BY <1>6, <1>7, <2>2
    <2> QED BY <2>1, <2>2
  <1>8. \A b \in DOMAIN d.arenas :
          /\ q.arenas[b].frameSize = d.arenas[b].frameSize /\ q.arenas[b].ring = d.arenas[b].ring
          /\ q.arenas[b].ringSize = d.arenas[b].ringSize /\ q.arenas[b].ringRead = d.arenas[b].ringRead
          /\ q.arenas[b].ringWrite = d.arenas[b].ringWrite
          /\ q.arenas[b].frameWrite = d.arenas[b].frameWrite
          /\ DOMAIN q.arenas[b].frames = DOMAIN d.arenas[b].frames
    BY <1>1, <1>3, <1>4, <1>6
  <1>9. Touched(d, q, t) BY <1>6, <1>7, <1>8 DEF Touched
  <1>10. Frame(q, t) = x BY <1>1, <1>3, <1>6 DEF Frame
  <1>11. Cur(q).frameWrite = Cur(d).frameWrite BY <1>6, <1>8 DEF Cur, DataType
  <1> QED BY <1>9, <1>10, <1>11

(* The current array has one frame more.                                     *)
LEMMA WriteMoved ==
  ASSUME NEW d, DataType(d), NEW w \in 0 .. Cur(d).frameSize - 1, NEW t, Pointer(d, t),
         NEW q, q = [d EXCEPT !.arenas[d.cur].frameWrite = w]
  PROVE  Touched(d, q, t) /\ Frame(q, t) = Frame(d, t) /\ Cur(q).frameWrite = w
  <1>1. PICK c, r, y : c = d.cur /\ r = d.arenas[c] /\ y = [r EXCEPT !.frameWrite = w] OBVIOUS
  <1>2. c \in DOMAIN d.arenas /\ ArenaType(r) /\ w \in Nat /\ w < r.frameSize
    <2>1. c \in DOMAIN d.arenas /\ ArenaType(r) /\ w \in 0 .. r.frameSize - 1 BY <1>1 DEF DataType, Cur
    <2>2. r.frameSize \in Nat BY <2>1 DEF ArenaType
    <2> QED BY <2>1, <2>2
  <1>3. /\ ArenaType(y) /\ y.frames = r.frames /\ y.frameSize = r.frameSize
        /\ y.frameRead = r.frameRead /\ y.frameWrite = w
        /\ y.ring = r.ring /\ y.ringSize = r.ringSize /\ y.ringRead = r.ringRead /\ y.ringWrite = r.ringWrite
    BY <1>1, <1>2, FrameWriteChanges
  <1>4. q = WithArena(d, c, y) BY <1>1 DEF WithArena
  <1>5. /\ DataType(q) /\ q.cur = d.cur /\ q.unparsed = d.unparsed
        /\ DOMAIN q.arenas = DOMAIN d.arenas /\ q.arenas[c] = y
        /\ \A b \in DOMAIN d.arenas : b # c => q.arenas[b] = d.arenas[b]
    BY ONLY DataType(d), <1>2, <1>3, <1>4, ArenaChanges
  <1>6. \A b \in DOMAIN d.arenas :
          /\ q.arenas[b].frameSize = d.arenas[b].frameSize /\ q.arenas[b].ring = d.arenas[b].ring
          /\ q.arenas[b].ringSize = d.arenas[b].ringSize /\ q.arenas[b].ringRead = d.arenas[b].ringRead
          /\ q.arenas[b].ringWrite = d.arenas[b].ringWrite
          /\ q.arenas[b].frames = d.arenas[b].frames
    BY <1>1, <1>3, <1>5
  <1>7. Touched(d, q, t) BY <1>5, <1>6 DEF Touched
  <1>8. Frame(q, t) = Frame(d, t) BY <1>6 DEF Frame, Pointer
  <1>9. Cur(q).frameWrite = w BY <1>1, <1>3, <1>5 DEF Cur
  <1> QED BY <1>7, <1>8, <1>9

Numbered(x, b, m, k) == FrameType(x) /\ x.buffer = b /\ x.dataSize = m /\ x.frameNumber = k

(* The outcome of appending a frame and numbering it.                        *)
LEMMA AppendedIs ==
  ASSUME NEW d, DataType(d), NEW t, Pointer(d, t),
         NEW b, NEW m \in Nat, NEW type, NEW k \in Nat, NEW p,
         NEW q, q = Marked(Appended(d, t, b, m, type), t, k, p)
  PROVE  /\ Touched(d, q, t) /\ Numbered(Frame(q, t), b, m, k)
         /\ Cur(q).frameWrite = (Cur(d).frameWrite + 1) % Cur(d).frameSize
  <1>1. PICK a, s, c, x0 : a = t[1] /\ s = t[2] /\ c = d.cur /\ x0 = d.arenas[a].frames[s] OBVIOUS
  <1>2. /\ a \in DOMAIN d.arenas /\ s \in DOMAIN d.arenas[a].frames /\ c \in DOMAIN d.arenas
        /\ FrameType(x0) /\ ArenaType(d.arenas[c])
    BY <1>1 DEF Pointer, DataType, ArenaType
  <1>3. PICK w : w = (Cur(d).frameWrite + 1) % Cur(d).frameSize OBVIOUS
  <1>4. w \in 0 .. Cur(d).frameSize - 1
    <2>1. /\ Cur(d).frameSize \in Nat /\ Cur(d).frameSize > 0
          /\ Cur(d).frameWrite \in 0 .. Cur(d).frameSize - 1
      BY <1>1, <1>2 DEF Cur, ArenaType
    <2> QED BY <1>3, <2>1, NextSlot
  <1>5. PICK x1 : x1 = [x0 EXCEPT !.buffer = b, !.dataSize = m, !.type = type,
                                  !.prereqFrame = NULL, !.decoded = FALSE] OBVIOUS
  <1>6. PICK x2 : x2 = [x1 EXCEPT !.frameNumber = k] OBVIOUS
  <1>7. PICK x3 : x3 = [x2 EXCEPT !.prereqFrame = p] OBVIOUS
  <1>8. FrameType(x1) /\ FrameType(x2) /\ Numbered(x3, b, m, k)
    <2>1. /\ x1 \in [buffer : {x1.buffer}, dataSize : Nat, frameNumber : Nat, type : {x1.type},
                     skippabble : {x1.skippabble}, decoded : {x1.decoded}, prereqFrame : {x1.prereqFrame}]
          /\ x1.buffer = b /\ x1.dataSize = m
      BY <1>2, <1>5 DEF FrameType
    <2>2. /\ x2 \in [buffer : {x2.buffer}, dataSize : Nat, frameNumber : Nat, type : {x2.type},
                     skippabble : {x2.skippabble}, decoded : {x2.decoded}, prereqFrame : {x2.prereqFrame}]
          /\ x2.buffer = b /\ x2.dataSize = m /\ x2.frameNumber = k
      BY <1>6, <2>1
    <2>3. /\ x3 \in [buffer : {x3.buffer}, dataSize : Nat, frameNumber : Nat, type : {x3.type},
                     skippabble : {x3.skippabble}, decoded : {x3.decoded}, prereqFrame : {x3.prereqFrame}]
          /\ x3.buffer = b /\ x3.dataSize = m /\ x3.frameNumber = k
      BY <1>7, <2>2
    <2> QED BY <2>1, <2>2, <2>3 DEF FrameType, Numbered
  <1>9. PICK q1 : q1 = [d EXCEPT !.arenas[t[1]].frames[t[2]] = x1] OBVIOUS
  <1>10. Touched(d, q1, t) /\ Frame(q1, t) = x1 /\ Cur(q1).frameWrite = Cur(d).frameWrite
    BY <1>8, <1>9, SlotWritten
  <1>11. DataType(q1) /\ Pointer(q1, t) /\ w \in 0 .. Cur(q1).frameSize - 1 /\ q1.cur = c
    BY <1>1, <1>2, <1>4, <1>10 DEF Touched, Pointer, Cur
  <1>12. PICK q2 : q2 = [q1 EXCEPT !.arenas[q1.cur].frameWrite = w] OBVIOUS
  <1>13. Touched(q1, q2, t) /\ Frame(q2, t) = x1 /\ Cur(q2).frameWrite = w
    <2>1. DataType(q1) /\ Pointer(q1, t) /\ w \in 0 .. Cur(q1).frameSize - 1 BY <1>11
    <2> QED BY ONLY <1>10, <1>12, <2>1, WriteMoved
  <1>14. DataType(q2) /\ Pointer(q2, t) BY <1>11, <1>13 DEF Touched, Pointer
  <1>15. PICK q3 : q3 = [q2 EXCEPT !.arenas[t[1]].frames[t[2]] = x2] OBVIOUS
  <1>16. Touched(q2, q3, t) /\ Frame(q3, t) = x2 /\ Cur(q3).frameWrite = w
    BY <1>8, <1>13, <1>14, <1>15, SlotWritten
  <1>17. DataType(q3) /\ Pointer(q3, t) BY <1>14, <1>16 DEF Touched, Pointer
  <1>18. PICK q4 : q4 = [q3 EXCEPT !.arenas[t[1]].frames[t[2]] = x3] OBVIOUS
  <1>19. Touched(q3, q4, t) /\ Frame(q4, t) = x3 /\ Cur(q4).frameWrite = w
    <2>1. FrameType(x3) BY <1>8 DEF Numbered
    <2> QED BY <1>16, <1>17, <1>18, <2>1, SlotWritten
  <1>20. Touched(d, q4, t) BY <1>10, <1>13, <1>16, <1>19, TouchedTwice
  <1>21. q4 = q
    <2>1. q2 = Appended(d, t, b, m, type)
      <3>1. q1 = [d EXCEPT !.arenas[a].frames[s] = x1] BY <1>1, <1>9
      <3>2. q2 = [q1 EXCEPT !.arenas[c].frameWrite = w] BY <1>11, <1>12
      <3>3. q1.arenas[c].frameWrite = d.arenas[c].frameWrite BY <1>1, <1>10, <1>11 DEF Cur
      <3>4. q2 = [[d EXCEPT !.arenas[a].frames[s] = x1] EXCEPT !.arenas[c].frameWrite = w] BY <3>1, <3>2
      <3> QED BY Zenon, <1>1, <1>3, <1>5, <3>1, <3>3, <3>4 DEF Appended, Cur
    <2>2. q3 = [q2 EXCEPT !.arenas[t[1]].frames[t[2]].frameNumber = k]
      <3>1. q2.arenas[t[1]].frames[t[2]] = x1 BY <1>13 DEF Frame
      <3> QED BY <1>6, <1>15, <3>1
    <2>3. q4 = [q3 EXCEPT !.arenas[t[1]].frames[t[2]].prereqFrame = p]
      <3>1. q3.arenas[t[1]].frames[t[2]] = x2 BY <1>16 DEF Frame
      <3> QED BY <1>7, <1>18, <3>1
    <2> QED BY Zenon, <2>1, <2>2, <2>3 DEF Marked
  <1> QED BY <1>3, <1>8, <1>19, <1>20, <1>21

\* The slot t is none of those the codec uses.
Spare(d, f, n, t) ==
  /\ Pointer(d, t) /\ \A i \in 1 .. n : f[i][1] <= t[1] /\ f[i] # t
  /\ t[1] = d.cur => t[2] = Cur(d).frameWrite

(* Nor is the one at frameWrite, while the codec uses fewer than an array    *)
(* has at least.                                                             *)
LEMMA SpareIs ==
  ASSUME NEW d, NEW f, NEW n \in Nat, NEW u, QueueInv(d, f, n, u), n < Slots,
         NEW t, t = <<d.cur, Cur(d).frameWrite>>
  PROVE  Spare(d, f, n, t)
  <1>0. Slots \in Nat BY SetupAssumption
  <1>1. DataType(d) /\ SlotsInv(d, f, n) BY DEF QueueInv
  <1>2. PICK w, size : w = Cur(d).frameWrite /\ size = Cur(d).frameSize OBVIOUS
  <1>3. size \in Nat /\ size >= Slots /\ w \in 0 .. size - 1 BY <1>1, <1>2 DEF DataType, Cur, ArenaType
  <1>4. t[1] = d.cur /\ t[2] = w /\ t = <<t[1], t[2]>> BY <1>2
  <1>5. Pointer(d, t) BY <1>1, <1>2, <1>3, <1>4 DEF Pointer, DataType, Cur
  <1>6. ASSUME NEW i \in 1 .. n PROVE f[i][1] <= t[1] /\ f[i] # t
    <2>1. f[i][1] \in DOMAIN d.arenas /\ f[i][2] \in 0 .. d.arenas[f[i][1]].frameSize - 1
      BY <1>1 DEF SlotsInv, Pointer
    <2>2. f[i][1] <= d.cur BY <1>1, <2>1 DEF DataType
    <2>3. CASE f[i][1] # d.cur BY <1>4, <2>2, <2>3
    <2>4. CASE f[i][1] = d.cur
      <3>1. f[i][2] \in 0 .. size - 1 BY <1>2, <2>1, <2>4 DEF Cur
      <3>2. f[i][2] + ((n + 1) - i) = w \/ f[i][2] + ((n + 1) - i) = w + size
        BY <1>1, <1>2, <2>4 DEF SlotsInv, Before
      <3>3. f[i][2] # w BY <1>0, <1>3, <3>1, <3>2
      <3> QED BY <1>4, <2>2, <3>3
    <2> QED BY <2>3, <2>4
  <1> QED BY <1>2, <1>4, <1>5, <1>6 DEF Spare

\* q is d with a frame in the slot t, the first m of the newest u bytes.
Appends(d, q, t, u, m, type, k, p) ==
  m \in 1 .. u /\ q = Marked(Appended(d, t, Newest(d, u), m, type), t, k, p)

SameRings(d, q) == \A a \in DOMAIN d.arenas : q.arenas[a].ring = d.arenas[a].ring

\* The pointers hold what they held, and t alone got a number, k.
HoldsBut(d, q, f, n, t, k) ==
  /\ \A i \in 1 .. n : Held(q, f[i]) = Held(d, f[i])
  /\ \A a, s : NoNewNumber(d, q, a, s) \/ (<<a, s>> = t /\ NumberAt(q, a, s) = k)

\* A frame with number k and the bytes x is begun in the slot t, and those before stay.
Begins(d, q, f, n, t, k, x) == HoldsBut(d, q, f, n, t, k) /\ Held(q, t) = [number |-> k, bytes |-> x]

(* What was kept before is kept.                                             *)
LEMMA ThenBegins ==
  ASSUME NEW d, NEW e, NEW q, NEW f, NEW n \in Nat, HoldsSame(d, e, f, n), NEW t, NEW k, NEW x,
         Begins(e, q, f, n, t, k, x)
  PROVE  Begins(d, q, f, n, t, k, x)
  <1>1. \A i \in 1 .. n : Held(q, f[i]) = Held(d, f[i]) BY DEF HoldsSame, Begins, HoldsBut
  <1>2. \A a, s : NoNewNumber(d, q, a, s) \/ (<<a, s>> = t /\ NumberAt(q, a, s) = k)
    BY DEF HoldsSame, SameNumbers, NoNewNumber, Begins, HoldsBut
  <1> QED BY <1>1, <1>2 DEF Begins, HoldsBut

\* Nothing but the frames and where they end differs.
SameBytes(d, q) ==
  q.cur = d.cur /\ q.unparsed = d.unparsed /\ SameRings(d, q) /\ Cur(q).ringWrite = Cur(d).ringWrite

Extends(g, f, n, t) == (\A i \in 1 .. n : g[i] = f[i]) /\ g[n + 1] = t

(* The slots in front of frameWrite, when one frame more is counted.         *)
LEMMA BeforeMoves ==
  ASSUME NEW size \in Nat, NEW w \in 0 .. size - 1, NEW v, v = IF w + 1 = size THEN 0 ELSE w + 1,
         NEW s \in 0 .. size - 1
  PROVE  /\ \A k \in Nat : k < size /\ (s + k = w \/ s + k = w + size) =>
              s + (k + 1) = v \/ s + (k + 1) = v + size
         /\ w + 1 = v \/ w + 1 = v + size
  OBVIOUS

(* A frame is appended behind the others, with the oldest of the newest u    *)
(* bytes for its own.                                                        *)
LEMMA AppendedKeeps ==
  ASSUME NEW d, NEW f, NEW n \in Nat, NEW u \in Nat, QueueInv(d, f, n, u), n < Slots,
         NEW m \in Nat, NEW k \in Nat, NEW t, Spare(d, f, n, t), NEW type, NEW p,
         NEW q, Appends(d, q, t, u, m, type, k, p), NEW g, Extends(g, f, n, t)
  PROVE  /\ QueueInv(q, g, n + 1, u - m) /\ SameBytes(d, q)
         /\ Begins(d, q, f, n, t, k, Bytes(d, Newest(d, u), m))
  <1>0. PADDING \in Nat /\ Slots \in Nat BY SetupAssumption
  <1>1. /\ DataType(d) /\ SlotsInv(d, f, n) /\ HomesInv(d, f, n) /\ RingInv(d, f, n, u)
        /\ Pointer(d, t) /\ d.cur \in Nat /\ d.cur \in DOMAIN d.arenas
    BY DEF QueueInv, Spare, DataType
  <1>2. PICK b, x, c : b = Newest(d, u) /\ x = Frame(q, t) /\ c = d.cur OBVIOUS
  <1>3. /\ Touched(d, q, t) /\ Numbered(x, b, m, k)
        /\ Cur(q).frameWrite = (Cur(d).frameWrite + 1) % Cur(d).frameSize
    BY <1>1, <1>2, AppendedIs DEF Appends
  <1>4. /\ DataType(q) /\ q.cur = c /\ q.unparsed = d.unparsed /\ DOMAIN q.arenas = DOMAIN d.arenas
        /\ \A a \in DOMAIN d.arenas :
             /\ q.arenas[a].frameSize = d.arenas[a].frameSize /\ q.arenas[a].ring = d.arenas[a].ring
             /\ q.arenas[a].ringSize = d.arenas[a].ringSize /\ q.arenas[a].ringRead = d.arenas[a].ringRead
             /\ q.arenas[a].ringWrite = d.arenas[a].ringWrite
             /\ DOMAIN q.arenas[a].frames = DOMAIN d.arenas[a].frames
             /\ \A s \in DOMAIN d.arenas[a].frames :
                  <<a, s>> # t => q.arenas[a].frames[s] = d.arenas[a].frames[s]
    BY <1>2, <1>3 DEF Touched
  <1>5. m \in 1 .. u /\ m > 0 BY DEF Appends
  <1>6. \A i \in 1 .. n : g[i] = f[i] BY DEF Extends
  <1>7. g[n + 1] = t BY DEF Extends
  <1>8. \A i \in 1 .. n + 1 : i \in 1 .. n \/ i = n + 1 OBVIOUS
  <1>9. \A i \in 1 .. n : /\ f[i] = <<f[i][1], f[i][2]>> /\ f[i][1] \in DOMAIN d.arenas
                          /\ f[i][2] \in DOMAIN d.arenas[f[i][1]].frames
    BY <1>1, PointerIsFrame DEF SlotsInv, Pointer
  <1>10. \A i \in 1 .. n : Frame(q, f[i]) = Frame(d, f[i])
    <2> TAKE i \in 1 .. n
    <2>1. f[i] # t BY DEF Spare
    <2> QED BY <1>4, <1>9, <2>1 DEF Frame
  <1>11. \A i \in 1 .. n : Home(q, f[i]) = Home(d, f[i]) /\ At(q, f[i]) = At(d, f[i])
    BY <1>10 DEF Home, At
  <1>12. SameBytes(d, q) BY <1>1, <1>2, <1>4 DEF SameBytes, SameRings, Cur
  <1>13. Begins(d, q, f, n, t, k, Bytes(d, b, m))
    <2>1. ASSUME NEW i \in 1 .. n PROVE Held(q, f[i]) = Held(d, f[i])
      <3>1. Frame(d, f[i]).buffer[1] \in DOMAIN d.arenas BY <1>1 DEF HomesInv, Home
      <3>2. q.arenas[Frame(d, f[i]).buffer[1]].ring = d.arenas[Frame(d, f[i]).buffer[1]].ring
        BY <1>4, <3>1
      <3>3. Frame(q, f[i]) = Frame(d, f[i]) BY <1>10
      <3> QED BY ONLY <3>2, <3>3 DEF Held, Bytes
    <2>2. ASSUME NEW a, NEW s
          PROVE  NoNewNumber(d, q, a, s) \/ (<<a, s>> = t /\ NumberAt(q, a, s) = k)
      <3>1. CASE NumberAt(q, a, s) = 0 BY <3>1 DEF NoNewNumber
      <3>2. CASE NumberAt(q, a, s) # 0
        <4>1. a \in DOMAIN d.arenas /\ s \in DOMAIN d.arenas[a].frames BY <1>4, <3>2 DEF NumberAt
        <4>2. NumberAt(q, a, s) = q.arenas[a].frames[s].frameNumber BY <1>4, <4>1 DEF NumberAt
        <4>3. CASE <<a, s>> = t
          <5>1. q.arenas[a].frames[s] = x BY <1>2, <4>3 DEF Frame
          <5> QED BY <1>3, <4>2, <4>3, <5>1 DEF Numbered
        <4>4. CASE <<a, s>> # t
          <5>1. NumberAt(d, a, s) = d.arenas[a].frames[s].frameNumber BY <4>1 DEF NumberAt
          <5>2. q.arenas[a].frames[s] = d.arenas[a].frames[s] BY <1>4, <4>1, <4>4
          <5> QED BY <4>2, <5>1, <5>2 DEF NoNewNumber
        <4> QED BY <4>3, <4>4
      <3> QED BY <3>1, <3>2
    <2>3. Held(q, t) = [number |-> k, bytes |-> Bytes(d, b, m)]
      <3>1. b[1] = c BY <1>2 DEF Newest
      <3>2. q.arenas[b[1]].ring = d.arenas[b[1]].ring BY <1>1, <1>2, <1>4, <3>1
      <3>3. Bytes(q, b, m) = Bytes(d, b, m) BY Zenon, <3>2 DEF Bytes
      <3> QED BY <1>2, <1>3, <3>3 DEF Held, Numbered
    <2> QED BY <2>1, <2>2, <2>3 DEF Begins, HoldsBut
  <1>14. SlotsInv(q, g, n + 1)
    <2>1. \A i \in 1 .. n + 1 : Pointer(q, g[i])
      <3>1. Pointer(q, t) BY <1>1, <1>4 DEF Pointer
      <3>2. \A i \in 1 .. n : Pointer(q, f[i]) BY <1>1, <1>4 DEF SlotsInv, Pointer
      <3> QED BY <1>6, <1>7, <1>8, <3>1, <3>2
    <2>2. ASSUME NEW i \in 1 .. n + 1, NEW j \in 1 .. n + 1, i < j
          PROVE  g[i][1] <= g[j][1] /\ g[i] # g[j]
      <3>1. i \in 1 .. n /\ g[i] = f[i] BY <1>6, <2>2
      <3>2. CASE j \in 1 .. n BY <1>1, <1>6, <2>2, <3>1, <3>2 DEF SlotsInv
      <3>3. CASE j = n + 1 BY <1>7, <3>1, <3>3 DEF Spare
      <3> QED BY <1>8, <3>2, <3>3
    <2>3. ASSUME NEW i \in 1 .. n + 1, g[i][1] = q.cur PROVE Before(Cur(q), g[i][2], ((n + 1) + 1) - i)
      <3>1. PICK w, v, size, s : /\ w = Cur(d).frameWrite /\ v = Cur(q).frameWrite
                                 /\ size = Cur(d).frameSize /\ s = g[i][2]
        OBVIOUS
      <3>2. size \in Nat /\ size >= Slots /\ w \in 0 .. size - 1
        BY <1>1, <3>1 DEF DataType, Cur, ArenaType
      <3>3. Cur(q).frameSize = size BY <1>1, <1>2, <1>4, <3>1 DEF Cur
      <3>4. v = IF w + 1 = size THEN 0 ELSE w + 1
        <4>1. v = (w + 1) % size BY <1>3, <3>1
        <4>2. size > 0 BY <3>2
        <4> QED BY ONLY <3>2, <4>1, <4>2, NextSlot
      <3>5. s \in 0 .. size - 1 BY <2>1, <2>3, <3>1, <3>3 DEF Pointer, Cur
      <3>6. /\ \A k1 \in Nat : k1 < size /\ (s + k1 = w \/ s + k1 = w + size) =>
                 s + (k1 + 1) = v \/ s + (k1 + 1) = v + size
            /\ w + 1 = v \/ w + 1 = v + size
        BY ONLY <3>2, <3>4, <3>5, BeforeMoves
      <3>7. s + (((n + 1) + 1) - i) = v \/ s + (((n + 1) + 1) - i) = v + size
        <4>1. CASE i = n + 1
          <5>1. s = w BY <1>2, <1>4, <1>7, <2>3, <3>1, <4>1 DEF Spare
          <5> QED BY <3>5, <3>6, <4>1, <5>1
        <4>2. CASE i \in 1 .. n
          <5>1. PICK k1 \in Nat : k1 = (n + 1) - i /\ k1 <= n BY <4>2
          <5>2. f[i][1] = d.cur /\ s = f[i][2] BY <1>2, <1>4, <1>6, <2>3, <3>1, <4>2
          <5>3. s + k1 = w \/ s + k1 = w + size BY <1>1, <3>1, <4>2, <5>1, <5>2 DEF SlotsInv, Before
          <5>4. k1 < size BY <1>0, <3>2, <5>1
          <5>5. k1 + 1 = ((n + 1) + 1) - i BY <4>2, <5>1
          <5> QED BY <3>6, <5>3, <5>4, <5>5
        <4> QED BY <1>8, <4>1, <4>2
      <3> QED BY <3>1, <3>3, <3>7 DEF Before
    <2> QED BY <2>1, <2>2, <2>3 DEF SlotsInv
  <1>15. PICK r : r = d.arenas[c] OBVIOUS
  <1>16. /\ r.ringWrite - u \in Nat /\ r.ringRead < r.ringSize /\ r.ringWrite + PADDING < r.ringSize
         /\ r.ringWrite - u >= r.ringRead \/ r.ringWrite + PADDING < r.ringRead
         /\ r.ringWrite \in Nat /\ r.ringRead \in Nat /\ r.ringSize \in Nat
    BY <1>1, <1>2, <1>15 DEF RingInv, Cur, DataType, ArenaType
  <1>17. Home(q, t) = c /\ At(q, t) = r.ringWrite - u /\ b = <<c, r.ringWrite - u>>
    <2>1. b = <<c, r.ringWrite - u>> BY <1>2, <1>15 DEF Newest, Cur
    <2> QED BY <1>2, <1>3, <2>1 DEF Home, At, Numbered
  <1>18. HomesInv(q, g, n + 1)
    <2> SUFFICES ASSUME NEW i \in 1 .. n + 1
                 PROVE  /\ Frame(q, g[i]).buffer = <<Home(q, g[i]), At(q, g[i])>>
                        /\ Home(q, g[i]) \in DOMAIN q.arenas /\ g[i][1] <= Home(q, g[i])
                        /\ At(q, g[i]) \in Nat /\ Frame(q, g[i]).dataSize > 0
                        /\ At(q, g[i]) + Frame(q, g[i]).dataSize < q.arenas[Home(q, g[i])].ringSize
      BY Zenon DEF HomesInv
    <2>1. CASE i = n + 1
      <3>1. g[i] = t BY <1>7, <2>1
      <3>2. m > 0 /\ (r.ringWrite - u) + m < r.ringSize BY <1>0, <1>5, <1>16
      <3>3. Frame(q, t).buffer = b /\ Frame(q, t).dataSize = m BY <1>2, <1>3 DEF Numbered
      <3>4. c \in DOMAIN q.arenas /\ q.arenas[c].ringSize = r.ringSize BY <1>1, <1>2, <1>4, <1>15
      <3>5. t[1] <= c BY <1>1, <1>2 DEF Pointer, DataType
      <3> QED BY <1>16, <1>17, <3>1, <3>2, <3>3, <3>4, <3>5
    <2>2. CASE i \in 1 .. n
      <3>1. /\ Frame(d, f[i]).buffer = <<Home(d, f[i]), At(d, f[i])>>
            /\ Home(d, f[i]) \in DOMAIN d.arenas /\ f[i][1] <= Home(d, f[i])
            /\ At(d, f[i]) \in Nat /\ Frame(d, f[i]).dataSize > 0
            /\ At(d, f[i]) + Frame(d, f[i]).dataSize < d.arenas[Home(d, f[i])].ringSize
        BY <1>1, <2>2 DEF HomesInv
      <3>2. g[i] = f[i] /\ Frame(q, f[i]) = Frame(d, f[i]) BY <1>6, <1>10, <2>2
      <3>3. Home(q, f[i]) = Home(d, f[i]) /\ At(q, f[i]) = At(d, f[i]) BY <1>11, <2>2
      <3>4. q.arenas[Home(d, f[i])].ringSize = d.arenas[Home(d, f[i])].ringSize BY <1>4, <3>1
      <3> QED BY <1>4, <3>1, <3>2, <3>3, <3>4
    <2> QED BY <1>8, <2>1, <2>2
  <1>19. RingInv(q, g, n + 1, u - m)
    <2>1. PICK top, y : top = r.ringWrite - u /\ y = Cur(q) OBVIOUS
    <2>2. y.ringSize = r.ringSize /\ y.ringRead = r.ringRead /\ y.ringWrite = r.ringWrite
      BY <1>1, <1>2, <1>4, <1>15, <2>1 DEF Cur
    <2>3. top \in Nat /\ u - m \in Nat /\ y.ringWrite - (u - m) = top + m /\ top + m \in Nat
      BY <1>5, <1>16, <2>1, <2>2
    <2>4. top + m >= r.ringRead \/ r.ringWrite + PADDING < r.ringRead BY <1>5, <1>16, <2>1
    <2>5. \A z : BytePlace(y, z) = BytePlace(r, z) BY <2>2 DEF BytePlace
    <2>6. BytePlace(r, top) + m = BytePlace(r, top + m) /\ BytePlace(r, top) \in Int
      <3>1. m \in Nat /\ u \in Nat /\ m <= u BY <1>5
      <3> QED BY <1>0, <1>16, <2>1, <2>3, <3>1 DEF BytePlace, Place
    <2>7. ASSUME NEW i \in 1 .. n, Home(d, f[i]) = c
          PROVE  /\ BytePlace(r, At(d, f[i])) + Frame(d, f[i]).dataSize <= BytePlace(r, top)
                 /\ BytePlace(r, At(d, f[i])) + Frame(d, f[i]).dataSize <= BytePlace(r, top + m)
                 /\ \A j \in 1 .. n : i < j /\ Home(d, f[j]) = c =>
                      BytePlace(r, At(d, f[i])) + Frame(d, f[i]).dataSize <= BytePlace(r, At(d, f[j]))
      <3>1. /\ BytePlace(r, At(d, f[i])) + Frame(d, f[i]).dataSize <= BytePlace(r, top)
            /\ \A j \in 1 .. n : i < j /\ Home(d, f[j]) = c =>
                 BytePlace(r, At(d, f[i])) + Frame(d, f[i]).dataSize <= BytePlace(r, At(d, f[j]))
        BY <1>1, <1>2, <1>15, <2>1, <2>7 DEF RingInv, Cur
      <3>2. At(d, f[i]) \in Nat BY <1>1 DEF HomesInv
      <3>3. BytePlace(r, At(d, f[i])) \in Int BY <1>16, <3>2 DEF BytePlace, Place
      <3>4. Frame(d, f[i]).dataSize \in Nat BY Zenon, <1>1, <1>9 DEF DataType, ArenaType, Frame, FrameType
      <3>5. PICK z \in Int : z = BytePlace(r, At(d, f[i])) + Frame(d, f[i]).dataSize BY <3>3, <3>4
      <3>6. z <= BytePlace(r, top + m) BY <2>6, <3>1, <3>5
      <3> QED BY <3>1, <3>5, <3>6
    <2>8. ASSUME NEW i \in 1 .. n + 1, Home(q, g[i]) = q.cur
          PROVE  /\ BytePlace(y, At(q, g[i])) + Frame(q, g[i]).dataSize <= BytePlace(y, top + m)
                 /\ \A j \in 1 .. n + 1 : i < j /\ Home(q, g[j]) = q.cur =>
                      BytePlace(y, At(q, g[i])) + Frame(q, g[i]).dataSize <= BytePlace(y, At(q, g[j]))
      <3>1. CASE i = n + 1
        <4>1. g[i] = t BY <1>7, <3>1
        <4>2. At(q, t) = top /\ Frame(q, t).dataSize = m BY <1>2, <1>3, <1>17, <2>1 DEF Numbered
        <4>3. BytePlace(y, At(q, g[i])) + Frame(q, g[i]).dataSize <= BytePlace(y, top + m)
          <5>1. BytePlace(y, top) + m <= BytePlace(y, top + m) BY <2>3, <2>5, <2>6
          <5> QED BY <4>1, <4>2, <5>1
        <4>4. \A j \in 1 .. n + 1 : ~(i < j) BY <3>1
        <4> QED BY <4>3, <4>4
      <3>2. CASE i \in 1 .. n
        <4>1. g[i] = f[i] /\ Home(d, f[i]) = c /\ At(q, g[i]) = At(d, f[i]) /\ Frame(q, g[i]) = Frame(d, f[i])
          BY <1>4, <1>6, <1>10, <1>11, <2>8, <3>2
        <4>2. ASSUME NEW j \in 1 .. n + 1, i < j, Home(q, g[j]) = q.cur
              PROVE  BytePlace(r, At(d, f[i])) + Frame(d, f[i]).dataSize <= BytePlace(r, At(q, g[j]))
          <5>1. CASE j \in 1 .. n
            <6>1. Home(d, f[j]) = c /\ At(q, g[j]) = At(d, f[j]) BY <1>4, <1>6, <1>11, <4>2, <5>1
            <6> QED BY <2>7, <3>2, <4>1, <4>2, <5>1, <6>1
          <5>2. CASE j = n + 1
            <6>1. At(q, g[j]) = top BY <1>7, <1>17, <2>1, <5>2
            <6> QED BY <2>7, <3>2, <4>1, <6>1
          <5> QED BY <1>8, <5>1, <5>2
        <4>3. /\ BytePlace(r, At(d, f[i])) + Frame(d, f[i]).dataSize <= BytePlace(r, top + m)
              /\ BytePlace(y, top + m) = BytePlace(r, top + m)
          BY Zenon, <2>5, <2>7, <3>2, <4>1
        <4>4. /\ BytePlace(y, At(q, g[i])) = BytePlace(r, At(d, f[i]))
              /\ Frame(q, g[i]).dataSize = Frame(d, f[i]).dataSize
          BY Zenon, <2>5, <4>1
        <4>5. BytePlace(y, At(q, g[i])) + Frame(q, g[i]).dataSize <= BytePlace(y, top + m)
          BY Zenon, <4>3, <4>4
        <4>6. ASSUME NEW j \in 1 .. n + 1, i < j, Home(q, g[j]) = q.cur
              PROVE  BytePlace(y, At(q, g[i])) + Frame(q, g[i]).dataSize <= BytePlace(y, At(q, g[j]))
          BY Zenon, <2>5, <4>2, <4>4, <4>6
        <4> QED BY Zenon, <4>5, <4>6
      <3> QED BY Zenon, <1>8, <3>1, <3>2
    <2>9. y.ringRead < y.ringSize /\ y.ringWrite + PADDING < y.ringSize BY <1>16, <2>2
    <2>10. top + m >= y.ringRead \/ y.ringWrite + PADDING < y.ringRead BY <2>2, <2>4
    <2>11. PICK v, o : v = u - m /\ o = top + m OBVIOUS
    <2>12. v \in Nat /\ y.ringWrite - v = o /\ o \in Nat BY <2>3, <2>11
    <2> QED BY <2>1, <2>8, <2>9, <2>10, <2>11, <2>12 DEF RingInv
  <1> QED BY <1>2, <1>4, <1>12, <1>13, <1>14, <1>18, <1>19 DEF QueueInv

-----------------------------------------------------------------------------
(* The unparsed data. *)

(* The record of the unparsed data changes, and nothing else.                *)
LEMMA UnparsedChanges ==
  ASSUME NEW d, NEW f, NEW n \in Nat, NEW u, QueueInv(d, f, n, u),
         NEW v, v \in [buffer : {v.buffer}, dataSize : Nat], NEW q, q = [d EXCEPT !.unparsed = v]
  PROVE  /\ QueueInv(q, f, n, u) /\ HoldsSame(d, q, f, n)
         /\ q.cur = d.cur /\ q.arenas = d.arenas /\ q.unparsed = v
  <1>1. DataType(d) /\ SlotsInv(d, f, n) /\ HomesInv(d, f, n) /\ RingInv(d, f, n, u) BY DEF QueueInv
  <1>2. /\ q.cur = d.cur /\ q.arenas = d.arenas /\ q.unparsed = v
        /\ q \in [arenas : {q.arenas}, cur : Nat, unparsed : {q.unparsed}]
    BY <1>1 DEF DataType
  <1>3. DataType(q) BY <1>1, <1>2 DEF DataType
  <1>4. \A x : Frame(q, x) = Frame(d, x) /\ At(q, x) = At(d, x) /\ Home(q, x) = Home(d, x)
    BY <1>2 DEF Frame, At, Home
  <1>5. SlotsInv(q, f, n) BY <1>1, <1>2 DEF SlotsInv, Pointer, Cur
  <1>6. HomesInv(q, f, n) BY <1>1, <1>2, <1>4 DEF HomesInv
  <1>7. RingInv(q, f, n, u)
    <2>1. Cur(q) = Cur(d) BY <1>2 DEF Cur
    <2> QED BY <1>1, <1>2, <1>4, <2>1 DEF RingInv
  <1>8. HoldsSame(d, q, f, n)
    <2>1. \A i \in 1 .. n : Held(q, f[i]) = Held(d, f[i]) BY Zenon, <1>2, <1>4 DEF Held, Bytes
    <2>2. SameNumbers(d, q) BY Zenon, <1>2 DEF SameNumbers, NoNewNumber, NumberAt
    <2> QED BY <2>1, <2>2 DEF HoldsSame
  <1> QED BY <1>2, <1>3, <1>5, <1>6, <1>7, <1>8 DEF QueueInv

(* The newest u bytes are given back to the ring.                            *)
LEMMA TrimKeeps ==
  ASSUME NEW d, NEW f, NEW n \in Nat, NEW u, QueueInv(d, f, n, u), NEW r, r = d.arenas[d.cur],
         NEW q, q = WithArena(d, d.cur, [r EXCEPT !.ringWrite = r.ringWrite - u])
  PROVE  /\ QueueInv(q, f, n, 0) /\ HoldsSame(d, q, f, n)
         /\ q.cur = d.cur /\ q.unparsed = d.unparsed
  <1>1. /\ DataType(d) /\ SlotsInv(d, f, n) /\ HomesInv(d, f, n) /\ RingInv(d, f, n, u)
        /\ ArenaType(r) /\ d.cur \in DOMAIN d.arenas
    BY DEF QueueInv, DataType
  <1>2. /\ u \in Nat /\ r.ringWrite - u \in Nat /\ r.ringRead < r.ringSize /\ r.ringWrite + PADDING < r.ringSize
        /\ r.ringWrite - u >= r.ringRead \/ r.ringWrite + PADDING < r.ringRead
        /\ r.ringWrite \in Nat /\ r.ringRead \in Nat /\ r.ringSize \in Nat /\ PADDING \in Nat
    BY <1>1, SetupAssumption DEF RingInv, Cur, ArenaType
  <1>3. PICK y, w : w = r.ringWrite - u /\ y = [r EXCEPT !.ringWrite = w] OBVIOUS
  <1>4. /\ ArenaType(y) /\ y.frames = r.frames /\ y.frameSize = r.frameSize
        /\ y.frameRead = r.frameRead /\ y.frameWrite = r.frameWrite
        /\ y.ring = r.ring /\ y.ringSize = r.ringSize /\ y.ringRead = r.ringRead /\ y.ringWrite = w
    <2>1. w \in Nat BY <1>2, <1>3
    <2> QED BY <1>1, <1>3, <2>1, RingWriteChanges
  <1>5. q = WithArena(d, d.cur, y) BY <1>3
  <1>6. /\ DataType(q) /\ q.cur = d.cur /\ q.unparsed = d.unparsed
        /\ DOMAIN q.arenas = DOMAIN d.arenas /\ q.arenas[d.cur] = y
        /\ \A b \in DOMAIN d.arenas : b # d.cur => q.arenas[b] = d.arenas[b]
    BY ONLY <1>1, <1>4, <1>5, ArenaChanges
  <1>7. Alike(d, q) /\ Fresh(d, q) BY Zenon, <1>4, <1>6 DEF Alike, Fresh
  <1>8. /\ SlotsInv(q, f, n) /\ HomesInv(q, f, n)
        /\ \A i \in 1 .. n : Frame(q, f[i]) = Frame(d, f[i])
    BY <1>1, <1>7, AlikeKeeps DEF SameFrames
  <1>9. HoldsSame(d, q, f, n)
    <2>1. ASSUME NEW i \in 1 .. n PROVE Held(q, f[i]) = Held(d, f[i])
      <3>1. Frame(d, f[i]).buffer[1] = Home(d, f[i]) BY DEF Home
      <3>2. Frame(q, f[i]) = Frame(d, f[i]) BY <1>8
      <3>3. Home(d, f[i]) \in DOMAIN d.arenas BY <1>1 DEF HomesInv
      <3>4. q.arenas[Home(d, f[i])].ring = d.arenas[Home(d, f[i])].ring BY <1>4, <1>6, <3>3
      <3> QED BY ONLY Zenon, <3>1, <3>2, <3>4 DEF Held, Bytes
    <2>2. SameNumbers(d, q) BY <1>7, AlikeNumbers
    <2> QED BY <2>1, <2>2 DEF HoldsSame
  <1>10. RingInv(q, f, n, 0)
    <2>1. Cur(q) = y BY <1>6 DEF Cur
    <2>2. \A z : BytePlace(y, z) = BytePlace(r, z) BY <1>4 DEF BytePlace
    <2>3. y.ringWrite - 0 = r.ringWrite - u BY <1>2, <1>3, <1>4
    <2>4. y.ringWrite + PADDING <= r.ringWrite + PADDING BY <1>2, <1>3, <1>4
    <2>5. \A i \in 1 .. n : /\ At(q, f[i]) = At(d, f[i]) /\ Home(q, f[i]) = Home(d, f[i])
                            /\ Frame(q, f[i]) = Frame(d, f[i])
      BY <1>8 DEF At, Home
    <2>6. y.ringWrite + PADDING < y.ringSize BY <1>2, <1>3, <1>4
    <2>7. r.ringWrite - u >= y.ringRead \/ y.ringWrite + PADDING < y.ringRead BY <1>2, <1>3, <1>4
    <2>8. y.ringWrite - 0 \in Nat /\ y.ringRead < y.ringSize BY <1>2, <1>4, <2>3
    <2>9. \A i \in 1 .. n : Home(d, f[i]) = d.cur =>
            /\ BytePlace(r, At(d, f[i])) + Frame(d, f[i]).dataSize <= BytePlace(r, r.ringWrite - u)
            /\ \A j \in 1 .. n : i < j /\ Home(d, f[j]) = d.cur =>
                 BytePlace(r, At(d, f[i])) + Frame(d, f[i]).dataSize <= BytePlace(r, At(d, f[j]))
      BY <1>1 DEF RingInv, Cur
    <2>10. PICK top : top = r.ringWrite - u OBVIOUS
    <2>11. \A i \in 1 .. n : Home(q, f[i]) = q.cur =>
             /\ BytePlace(y, At(q, f[i])) + Frame(q, f[i]).dataSize <= BytePlace(y, top)
             /\ \A j \in 1 .. n : i < j /\ Home(q, f[j]) = q.cur =>
                  BytePlace(y, At(q, f[i])) + Frame(q, f[i]).dataSize <= BytePlace(y, At(q, f[j]))
      <3> SUFFICES ASSUME NEW i \in 1 .. n, Home(q, f[i]) = q.cur
                   PROVE  /\ BytePlace(y, At(q, f[i])) + Frame(q, f[i]).dataSize <= BytePlace(y, top)
                          /\ \A j \in 1 .. n : i < j /\ Home(q, f[j]) = q.cur =>
                               BytePlace(y, At(q, f[i])) + Frame(q, f[i]).dataSize <= BytePlace(y, At(q, f[j]))
        OBVIOUS
      <3>0. q.cur = d.cur BY <1>6
      <3>1. /\ BytePlace(r, At(d, f[i])) + Frame(d, f[i]).dataSize <= BytePlace(r, top)
            /\ \A j \in 1 .. n : i < j /\ Home(d, f[j]) = d.cur =>
                 BytePlace(r, At(d, f[i])) + Frame(d, f[i]).dataSize <= BytePlace(r, At(d, f[j]))
        BY ONLY Zenon, <2>5, <2>9, <2>10, <3>0, i \in 1 .. n, Home(q, f[i]) = q.cur
      <3>2. At(q, f[i]) = At(d, f[i]) /\ Frame(q, f[i]) = Frame(d, f[i]) BY <2>5
      <3>3. \A j \in 1 .. n : BytePlace(y, At(q, f[j])) = BytePlace(r, At(d, f[j])) BY <2>2, <2>5
      <3>4. /\ BytePlace(y, At(q, f[i])) = BytePlace(r, At(d, f[i]))
            /\ BytePlace(y, top) = BytePlace(r, top)
        BY <2>2, <3>2
      <3> QED BY ONLY Zenon, <2>5, <3>0, <3>1, <3>2, <3>3, <3>4
    <2>12. y.ringWrite - 0 = top BY <2>3, <2>10
    <2>13. top >= y.ringRead \/ y.ringWrite + PADDING < y.ringRead BY <2>7, <2>10
    <2> QED BY <2>1, <2>6, <2>8, <2>11, <2>12, <2>13 DEF RingInv
  <1> QED BY <1>6, <1>8, <1>9, <1>10 DEF QueueInv

(* FFusionDataReadUnparsed                                                   *)
LEMMA ReadUnparsedKeeps ==
  ASSUME NEW d, NEW f, NEW n \in Nat, QueueInv(d, f, n, d.unparsed.dataSize),
         NEW q, q = FFusionDataReadUnparsed(d)
  PROVE  /\ QueueInv(q, f, n, 0) /\ HoldsSame(d, q, f, n)
         /\ q.cur = d.cur /\ q.unparsed.dataSize = 0
  <1> DEFINE u == d.unparsed.dataSize
             r == d.arenas[d.cur]
  <1>1. PICK e : e = WithArena(d, d.cur, [r EXCEPT !.ringWrite = r.ringWrite - u]) OBVIOUS
  <1>2. /\ QueueInv(e, f, n, 0) /\ HoldsSame(d, e, f, n)
        /\ e.cur = d.cur /\ e.unparsed = d.unparsed
    BY <1>1, TrimKeeps
  <1>3. PICK v : v = [d.unparsed EXCEPT !.dataSize = 0] OBVIOUS
  <1>4. v \in [buffer : {v.buffer}, dataSize : Nat] /\ v.dataSize = 0 BY <1>3 DEF QueueInv, DataType
  <1>5. q = [e EXCEPT !.unparsed = v]
    <2>1. q = [[d EXCEPT !.arenas[d.cur].ringWrite = @ - u] EXCEPT !.unparsed.dataSize = 0]
      BY DEF FFusionDataReadUnparsed
    <2>2. e = [d EXCEPT !.arenas[d.cur].ringWrite = @ - u] BY <1>1 DEF WithArena
    <2>3. q = [e EXCEPT !.unparsed.dataSize = 0] BY <2>1, <2>2
    <2> QED BY <1>2, <1>3, <2>3
  <1>6. /\ QueueInv(q, f, n, 0) /\ HoldsSame(e, q, f, n)
        /\ q.cur = e.cur /\ q.arenas = e.arenas /\ q.unparsed = v
    BY <1>2, <1>4, <1>5, UnparsedChanges
  <1>7. HoldsSame(d, q, f, n) BY <1>2, <1>6, HoldsTwice
  <1> QED BY <1>2, <1>4, <1>6, <1>7

(* Bytes that are put behind all others are the unparsed data.               *)
LEMMA UnparsingKeeps ==
  ASSUME NEW d, NEW f, NEW n \in Nat, QueueInv(d, f, n, 0), NEW m \in Nat, NEW x, IsSeq(x, m),
         NEW q, q = Unparsing(insertIntoBuffer(d, x), m)
  PROVE  /\ QueueInv(q, f, n, m) /\ HoldsSame(d, q, f, n)
         /\ q.unparsed = [buffer |-> Newest(q, m), dataSize |-> m]
         /\ Bytes(q, q.unparsed.buffer, m) = x
  <1>1. PICK e : e = insertIntoBuffer(d, x) OBVIOUS
  <1>2. QueueInv(e, f, n, m) /\ HoldsSame(d, e, f, n) /\ Bytes(e, Newest(e, m), m) = x
    BY <1>1, InsertKeeps
  <1>3. PICK v : v = [buffer |-> Newest(e, m), dataSize |-> m] OBVIOUS
  <1>4. v \in [buffer : {v.buffer}, dataSize : Nat] BY <1>3
  <1>5. q = [e EXCEPT !.unparsed = v] BY <1>1, <1>3 DEF Unparsing
  <1>6. /\ QueueInv(q, f, n, m) /\ HoldsSame(e, q, f, n)
        /\ q.cur = e.cur /\ q.arenas = e.arenas /\ q.unparsed = v
    BY <1>2, <1>4, <1>5, UnparsedChanges
  <1>7. HoldsSame(d, q, f, n) BY <1>2, <1>6, HoldsTwice
  <1>8. Newest(q, m) = Newest(e, m) BY <1>6 DEF Newest, Cur
  <1>9. Bytes(q, Newest(e, m), m) = Bytes(e, Newest(e, m), m) BY <1>6 DEF Bytes
  <1>10. q.unparsed.buffer = Newest(e, m) BY <1>3, <1>6
  <1> QED BY <1>2, <1>3, <1>6, <1>7, <1>8, <1>9, <1>10

(* A frame whose bytes are put behind all others, where the ring may grow.   *)
LEMMA InsertedKeeps ==
  ASSUME NEW d, NEW f, NEW n \in Nat, QueueInv(d, f, n, 0), n < Slots,
         NEW m \in Nat, m > 0, NEW x, IsSeq(x, m),
         NEW t, t = <<d.cur, Cur(d).frameWrite>>, NEW type, NEW k \in Nat, NEW p,
         NEW q, q = Marked(AppendedNewest(insertIntoBuffer(d, x), t, m, type), t, k, p),
         NEW g, Extends(g, f, n, t)
  PROVE  /\ QueueInv(q, g, n + 1, 0) /\ Begins(d, q, f, n, t, k, x)
         /\ q.unparsed = d.unparsed \/ q.unparsed = NoUnparsed
  <1>1. PICK e : e = insertIntoBuffer(d, x) OBVIOUS
  <1>2. /\ QueueInv(e, f, n, m) /\ Alike(d, e) /\ Fresh(d, e) /\ HoldsSame(d, e, f, n)
        /\ Bytes(e, Newest(e, m), m) = x
        /\ \/ e.cur = d.cur /\ e.unparsed = d.unparsed
           \/ e.cur = d.cur + 1 /\ e.unparsed = NoUnparsed
    BY <1>1, InsertKeeps
  <1>3. d.cur \in Nat /\ d.cur \in DOMAIN d.arenas BY DEF QueueInv, DataType
  <1>4. Spare(d, f, n, t) BY SpareIs
  <1>5. Spare(e, f, n, t)
    <2>1. Pointer(e, t) BY <1>2, <1>4 DEF Alike, Spare, Pointer
    <2>2. t[1] = e.cur => t[2] = Cur(e).frameWrite
      <3>1. CASE e.cur = d.cur
        <4>1. Cur(e).frameWrite = Cur(d).frameWrite BY <1>2, <1>3, <3>1 DEF Alike, Cur
        <4> QED BY <4>1
      <3>2. CASE e.cur = d.cur + 1 BY <1>3, <3>2
      <3> QED BY <1>2, <3>1, <3>2
    <2> QED BY <1>4, <2>1, <2>2 DEF Spare
  <1>6. q = Marked(Appended(e, t, Newest(e, m), m, type), t, k, p) BY <1>1 DEF AppendedNewest
  <1>7. PICK u \in Nat : u = m OBVIOUS
  <1>8. /\ QueueInv(q, g, n + 1, u - m) /\ SameBytes(e, q)
        /\ Begins(e, q, f, n, t, k, Bytes(e, Newest(e, u), m))
    <2>1. Appends(e, q, t, u, m, type, k, p) BY <1>6, <1>7 DEF Appends
    <2>2. QueueInv(e, f, n, u) BY <1>2, <1>7
    <2> QED BY <1>5, <2>1, <2>2, AppendedKeeps
  <1>9. u - m = 0 BY <1>7
  <1>10. Begins(d, q, f, n, t, k, x) BY <1>2, <1>7, <1>8, ThenBegins
  <1>11. q.unparsed = e.unparsed BY <1>8 DEF SameBytes
  <1> QED BY <1>2, <1>8, <1>9, <1>10, <1>11

\* q is what Begin makes of d.
BeginsWith(d, q, b, x, type, k, p) ==
  q = Marked(FFusionDataAppend(d, b, x, type), AppendTarget(d), k, p)

\* Where AppendTarget finds a slot.
ArrayIsFull(d) == (Cur(d).frameWrite + 1) % Cur(d).frameSize = Cur(d).frameRead

(* A frame goes to the slot at frameWrite, or to the first one of a new array. *)
LEMMA AppendTargetIs ==
  ASSUME NEW d, d.cur \in Nat
  PROVE  /\ ArrayIsFull(d) => AppendTarget(d) = <<d.cur + 1, 0>> /\ AppendTarget(d)[1] # d.cur
         /\ ~ArrayIsFull(d) => AppendTarget(d) = <<d.cur, Cur(d).frameWrite>> /\ AppendTarget(d)[1] = d.cur
  <1>1. AppendTarget(d) = IF ArrayIsFull(d) THEN <<d.cur + 1, 0>> ELSE <<d.cur, Cur(d).frameWrite>>
    BY DEF AppendTarget, ArrayIsFull
  <1>2. d.cur + 1 # d.cur OBVIOUS
  <1> QED BY <1>1, <1>2

(* A frame in a new array, where its bytes go too.                           *)
LEMMA BeginExpandedKeeps ==
  ASSUME NEW d, NEW f, NEW n \in Nat, NEW u, QueueInv(d, f, n, u), n < Slots, ArrayIsFull(d),
         NEW m \in Nat, m > 0, NEW x, IsSeq(x, m), NEW b, NEW type, NEW k \in Nat, NEW p,
         NEW q, BeginsWith(d, q, b, x, type, k, p), NEW g, Extends(g, f, n, AppendTarget(d))
  PROVE  /\ QueueInv(q, g, n + 1, 0) /\ Begins(d, q, f, n, AppendTarget(d), k, x)
         /\ q.unparsed = NoUnparsed
  <1>1. PICK t : t = AppendTarget(d) OBVIOUS
  <1>2. d.cur \in Nat BY DEF QueueInv, DataType
  <1>3. t = <<d.cur + 1, 0>> /\ t[1] # d.cur BY <1>1, <1>2, AppendTargetIs
  <1>4. Len(x) = m BY DEF IsSeq
  <1>5. PICK e : e = expansion(d, m) OBVIOUS
  <1>6. /\ QueueInv(e, f, n, 0) /\ HoldsSame(d, e, f, n)
        /\ e.cur = d.cur + 1 /\ e.unparsed = NoUnparsed
    BY <1>5, ExpansionKeeps
  <1>7. Cur(e).frameWrite = 0
    <2>1. DataType(d) /\ d.cur \in DOMAIN d.arenas BY DEF QueueInv, DataType
    <2>2. d.cur + 1 \notin DOMAIN d.arenas BY <2>1 DEF DataType
    <2> QED BY <1>5, <1>6, <2>2 DEF expansion, Cur, Arena
  <1>8. FFusionDataAppend(d, b, x, type) = AppendedNewest(insertIntoBuffer(e, x), t, m, type)
    <2>1. FFusionDataAppend(d, b, x, type) = AppendedIn(e, t, b, x, type)
      BY <1>1, <1>3, <1>4, <1>5 DEF FFusionDataAppend
    <2>2. ~(b # NULL /\ e.unparsed.buffer = b) BY <1>6 DEF NoUnparsed
    <2> QED BY <1>4, <2>1, <2>2 DEF AppendedIn
  <1>9. q = Marked(AppendedNewest(insertIntoBuffer(e, x), t, m, type), t, k, p)
    BY <1>1, <1>8 DEF BeginsWith
  <1>10. t = <<e.cur, Cur(e).frameWrite>> BY <1>3, <1>6, <1>7
  <1>11. /\ QueueInv(q, g, n + 1, 0) /\ Begins(e, q, f, n, t, k, x)
         /\ q.unparsed = e.unparsed \/ q.unparsed = NoUnparsed
    BY <1>1, <1>6, <1>9, <1>10, InsertedKeeps
  <1>12. Begins(d, q, f, n, t, k, x) BY <1>6, <1>11, ThenBegins
  <1> QED BY <1>1, <1>6, <1>11, <1>12

(* A frame from the caller's own data.                                       *)
LEMMA BeginFreshKeeps ==
  ASSUME NEW d, NEW f, NEW n \in Nat, QueueInv(d, f, n, 0), n < Slots,
         NEW m \in Nat, m > 0, NEW x, IsSeq(x, m), NEW type, NEW k \in Nat, NEW p,
         NEW q, BeginsWith(d, q, NULL, x, type, k, p), NEW g, Extends(g, f, n, AppendTarget(d))
  PROVE  /\ QueueInv(q, g, n + 1, 0) /\ Begins(d, q, f, n, AppendTarget(d), k, x)
         /\ q.unparsed = NoUnparsed \/ q.unparsed = d.unparsed
  <1>1. CASE ArrayIsFull(d) BY <1>1, BeginExpandedKeeps
  <1>2. CASE ~ArrayIsFull(d)
    <2>1. PICK t : t = AppendTarget(d) OBVIOUS
    <2>2. d.cur \in Nat BY DEF QueueInv, DataType
    <2>3. t[1] = d.cur /\ t = <<d.cur, Cur(d).frameWrite>> BY <1>2, <2>1, <2>2, AppendTargetIs
    <2>4. Len(x) = m BY DEF IsSeq
    <2>5. FFusionDataAppend(d, NULL, x, type) = AppendedNewest(insertIntoBuffer(d, x), t, m, type)
      <3>1. FFusionDataAppend(d, NULL, x, type) = AppendedIn(d, t, NULL, x, type)
        BY <2>1, <2>3 DEF FFusionDataAppend
      <3> QED BY <2>4, <3>1 DEF AppendedIn
    <2>6. q = Marked(AppendedNewest(insertIntoBuffer(d, x), t, m, type), t, k, p)
      BY <2>1, <2>5 DEF BeginsWith
    <2>7. /\ QueueInv(q, g, n + 1, 0) /\ Begins(d, q, f, n, t, k, x)
          /\ q.unparsed = d.unparsed \/ q.unparsed = NoUnparsed
      BY <2>1, <2>3, <2>6, InsertedKeeps
    <2> QED BY <2>1, <2>7
  <1> QED BY <1>1, <1>2

Leaves(q, b, m, u) ==
  /\ q.unparsed = [buffer |-> <<b[1], b[2] + m>>, dataSize |-> u - m]
  /\ q.unparsed.buffer = Newest(q, u - m)

(* A frame from the front of the u unparsed bytes.                           *)
LEMMA BeginUnparsedKeeps ==
  ASSUME NEW d, NEW f, NEW n \in Nat, NEW u \in Nat, QueueInv(d, f, n, u), n < Slots,
         NEW b, b = Newest(d, u),
         d.unparsed.buffer = b, d.unparsed.dataSize = u, ~ArrayIsFull(d),
         NEW m \in Nat, m \in 1 .. u, NEW x, x = Bytes(d, b, m), IsSeq(x, m),
         NEW type, NEW k \in Nat, NEW p,
         NEW q, BeginsWith(d, q, b, x, type, k, p), NEW g, Extends(g, f, n, AppendTarget(d))
  PROVE  /\ QueueInv(q, g, n + 1, u - m) /\ Begins(d, q, f, n, AppendTarget(d), k, x)
         /\ Leaves(q, b, m, u) /\ SameRings(d, q)
  <1>1. PICK t : t = AppendTarget(d) OBVIOUS
  <1>2. d.cur \in Nat BY DEF QueueInv, DataType
  <1>3. t[1] = d.cur /\ t = <<d.cur, Cur(d).frameWrite>> BY <1>1, <1>2, AppendTargetIs
  <1>4. Len(x) = m BY DEF IsSeq
  <1>5. PICK v : v = [buffer |-> <<b[1], b[2] + m>>, dataSize |-> u - m] OBVIOUS
  <1>6. FFusionDataAppend(d, b, x, type) = Appended([d EXCEPT !.unparsed = v], t, b, m, type)
    <2>1. FFusionDataAppend(d, b, x, type) = AppendedIn(d, t, b, x, type)
      BY <1>1, <1>3 DEF FFusionDataAppend
    <2>2. b # NULL BY DEF Newest, NULL
    <2>3. [d EXCEPT !.unparsed = v] = [d EXCEPT !.unparsed = [buffer |-> <<b[1], b[2] + m>>,
                                                             dataSize |-> @.dataSize - m]]
      BY <1>5
    <2> QED BY <1>4, <2>1, <2>2, <2>3 DEF AppendedIn
  <1>7. q = Marked(Appended([d EXCEPT !.unparsed = v], t, b, m, type), t, k, p)
    BY <1>1, <1>6 DEF BeginsWith
  <1>8. PICK e : e = [d EXCEPT !.unparsed = v] OBVIOUS
  <1>9. v \in [buffer : {v.buffer}, dataSize : Nat] BY <1>5
  <1>10. /\ QueueInv(e, f, n, u) /\ HoldsSame(d, e, f, n)
         /\ e.cur = d.cur /\ e.arenas = d.arenas /\ e.unparsed = v
    BY <1>8, <1>9, UnparsedChanges
  <1>11. PICK r : r = Cur(d) OBVIOUS
  <1>12. r = Cur(e) BY <1>10, <1>11 DEF Cur
  <1>13. Spare(e, f, n, t) BY <1>3, <1>10, <1>11, <1>12, SpareIs
  <1>14. b = Newest(e, u) BY <1>10, <1>11, <1>12 DEF Newest
  <1>15. Appends(e, q, t, u, m, type, k, p) BY <1>7, <1>8, <1>14 DEF Appends
  <1>16. /\ QueueInv(q, g, n + 1, u - m) /\ SameBytes(e, q)
         /\ Begins(e, q, f, n, t, k, Bytes(e, Newest(e, u), m))
    BY <1>1, <1>10, <1>13, <1>15, AppendedKeeps
  <1>17. Bytes(e, Newest(e, u), m) = x BY <1>10, <1>14 DEF Bytes
  <1>18. Begins(d, q, f, n, t, k, x) BY <1>10, <1>16, <1>17, ThenBegins
  <1>19. v.buffer = Newest(q, u - m)
    <2>1. Cur(q).ringWrite = r.ringWrite /\ q.cur = d.cur BY <1>10, <1>12, <1>16 DEF SameBytes
    <2>2. b[1] = d.cur /\ b[2] = r.ringWrite - u BY <1>11 DEF Newest
    <2>3. r.ringWrite \in Nat BY <1>11 DEF QueueInv, DataType, ArenaType, Cur
    <2>4. (r.ringWrite - u) + m = r.ringWrite - (u - m) BY <2>3
    <2>5. v.buffer = <<d.cur, r.ringWrite - (u - m)>> BY <1>5, <2>2, <2>4
    <2> QED BY <2>1, <2>5 DEF Newest
  <1>20. SameRings(d, q) BY <1>10, <1>16 DEF SameBytes, SameRings
  <1> QED BY <1>1, <1>5, <1>10, <1>16, <1>18, <1>19, <1>20 DEF SameBytes, Leaves

-----------------------------------------------------------------------------
(* What BeginBand does to the queue. *)

\* No two slots, in use or not, have the same number.
UniqueInv(d, k) ==
  /\ \A a, s : NumberAt(d, a, s) \in 0 .. k
  /\ \A a, s, b, t : NumberAt(d, a, s) # 0 /\ NumberAt(d, b, t) = NumberAt(d, a, s) => a = b /\ s = t

LiveQueue(d, f, n, k) ==
  /\ QueueInv(d, f, n, d.unparsed.dataSize) /\ NumbersInv(d, f, n, k) /\ UniqueInv(d, k)
  /\ UnparsedInv(d)

(* What is found behind the pointers tells the numbers.                      *)
LEMMA HeldNumbers ==
  ASSUME NEW d, NEW q, NEW f, NEW n \in Nat, \A i \in 1 .. n : Held(q, f[i]) = Held(d, f[i])
  PROVE  \A i \in 1 .. n : Frame(q, f[i]).frameNumber = Frame(d, f[i]).frameNumber
  <1> TAKE i \in 1 .. n
  <1>1. Held(q, f[i]) = Held(d, f[i]) OBVIOUS
  <1>2. Held(q, f[i]).number = Held(d, f[i]).number BY <1>1
  <1> QED BY <1>2 DEF Held

(* Slots that have no new number have different ones.                        *)
LEMMA UniqueStays ==
  ASSUME NEW d, NEW q, NEW k \in Nat, UniqueInv(d, k), SameNumbers(d, q)
  PROVE  UniqueInv(q, k)
  <1>1. \A a, s : NumberAt(q, a, s) = 0 \/ NumberAt(q, a, s) = NumberAt(d, a, s)
    BY DEF SameNumbers, NoNewNumber
  <1>2. \A a, s : NumberAt(q, a, s) \in 0 .. k BY <1>1 DEF UniqueInv
  <1>3. ASSUME NEW a, NEW s, NEW b, NEW t, NumberAt(q, a, s) # 0, NumberAt(q, b, t) = NumberAt(q, a, s)
        PROVE  a = b /\ s = t
    <2>1. NumberAt(q, a, s) = NumberAt(d, a, s) /\ NumberAt(q, b, t) = NumberAt(d, b, t) BY <1>1, <1>3
    <2>2. NumberAt(d, a, s) # 0 /\ NumberAt(d, b, t) = NumberAt(d, a, s) BY <1>3, <2>1
    <2> QED BY ONLY Zenon, UniqueInv(d, k), <2>2 DEF UniqueInv
  <1> QED BY <1>2, <1>3 DEF UniqueInv

(* Nor has the one slot that gets the next number that of another.           *)
LEMMA UniqueGrows ==
  ASSUME NEW d, NEW q, NEW k \in Nat, UniqueInv(d, k), NEW f, NEW n, NEW v, HoldsBut(d, q, f, n, v, k + 1)
  PROVE  UniqueInv(q, k + 1)
  <1>1. \A a, s : \/ NumberAt(q, a, s) = 0
                  \/ NumberAt(q, a, s) = NumberAt(d, a, s) /\ NumberAt(d, a, s) \in 0 .. k
                  \/ <<a, s>> = v /\ NumberAt(q, a, s) = k + 1
    BY DEF HoldsBut, NoNewNumber, UniqueInv
  <1>2. \A a, s : NumberAt(q, a, s) \in 0 .. k + 1
    <2> TAKE a, s
    <2>1. PICK z : z = NumberAt(q, a, s) OBVIOUS
    <2>2. z = 0 \/ z \in 0 .. k \/ z = k + 1 BY <1>1, <2>1
    <2>3. z \in 0 .. k + 1 BY <2>2
    <2> QED BY <2>1, <2>3
  <1>3. ASSUME NEW a, NEW s, NEW b, NEW t, NumberAt(q, a, s) # 0, NumberAt(q, b, t) = NumberAt(q, a, s)
        PROVE  a = b /\ s = t
    <2>1. k + 1 \notin 0 .. k OBVIOUS
    <2>2. CASE NumberAt(q, a, s) = k + 1
      <3>1. <<a, s>> = v /\ <<b, t>> = v BY <1>1, <1>3, <2>1, <2>2
      <3> QED BY <3>1
    <2>3. CASE NumberAt(q, a, s) # k + 1
      <3>1. NumberAt(q, a, s) = NumberAt(d, a, s) /\ NumberAt(q, b, t) = NumberAt(d, b, t)
        BY <1>1, <1>3, <2>3
      <3>2. NumberAt(d, a, s) # 0 /\ NumberAt(d, b, t) = NumberAt(d, a, s) BY <1>3, <3>1
      <3> QED BY ONLY Zenon, UniqueInv(d, k), <3>2 DEF UniqueInv
    <2> QED BY <2>2, <2>3
  <1> QED BY <1>2, <1>3 DEF UniqueInv

(* The frame that is begun has the greatest number.                          *)
LEMMA NumbersGrow ==
  ASSUME NEW d, NEW q, NEW f, NEW n \in Nat, NEW k \in Nat, NumbersInv(d, f, n, k), NEW t, NEW x,
         Begins(d, q, f, n, t, k + 1, x), NEW g, Extends(g, f, n, t)
  PROVE  NumbersInv(q, g, n + 1, k + 1)
  <1>1. \A i \in 1 .. n : Frame(q, f[i]).frameNumber = Frame(d, f[i]).frameNumber
    <2>1. \A i \in 1 .. n : Held(q, f[i]) = Held(d, f[i]) BY ONLY Begins(d, q, f, n, t, k + 1, x) DEF Begins, HoldsBut
    <2> QED BY ONLY <2>1, n \in Nat, HeldNumbers
  <1>2. Frame(q, t).frameNumber = k + 1
    <2>1. Held(q, t).number = k + 1 BY DEF Begins
    <2> QED BY <2>1 DEF Held
  <1>3. (\A i \in 1 .. n : g[i] = f[i]) /\ g[n + 1] = t BY DEF Extends
  <1>4. \A i \in 1 .. n : /\ Frame(q, g[i]).frameNumber \in 1 .. k
                          /\ \A j \in 1 .. n : i < j => Frame(q, g[i]).frameNumber < Frame(q, g[j]).frameNumber
    BY <1>1, <1>3 DEF NumbersInv
  <1>5. Frame(q, g[n + 1]).frameNumber = k + 1 BY <1>2, <1>3
  <1>6. \A i \in 1 .. n + 1 : i \in 1 .. n \/ i = n + 1 OBVIOUS
  <1> SUFFICES ASSUME NEW i \in 1 .. n + 1
               PROVE  /\ Frame(q, g[i]).frameNumber \in 1 .. k + 1
                      /\ \A j \in 1 .. n + 1 : i < j => Frame(q, g[i]).frameNumber < Frame(q, g[j]).frameNumber
    BY DEF NumbersInv
  <1>7. CASE i = n + 1
    <2>1. \A j \in 1 .. n + 1 : ~(i < j) BY <1>7
    <2> QED BY <1>5, <1>7, <2>1
  <1>8. CASE i \in 1 .. n
    <2>1. Frame(q, g[i]).frameNumber \in 1 .. k BY <1>4, <1>8
    <2>2. ASSUME NEW j \in 1 .. n + 1, i < j PROVE Frame(q, g[i]).frameNumber < Frame(q, g[j]).frameNumber
      <3>1. CASE j = n + 1 BY <1>5, <2>1, <3>1
      <3>2. CASE j \in 1 .. n BY <1>4, <1>8, <2>2, <3>2
      <3> QED BY <1>6, <3>1, <3>2
    <2> QED BY <2>1, <2>2
  <1> QED BY <1>6, <1>7, <1>8

(* What is kept once the frame is begun is kept with it.                     *)
LEMMA BeginsThen ==
  ASSUME NEW d, NEW e, NEW q, NEW f, NEW n \in Nat, NEW t, NEW k, NEW x, Begins(d, e, f, n, t, k, x),
         NEW g, Extends(g, f, n, t), HoldsSame(e, q, g, n + 1)
  PROVE  Begins(d, q, f, n, t, k, x)
  <1>1. (\A i \in 1 .. n : g[i] = f[i]) /\ g[n + 1] = t BY DEF Extends
  <1>2. \A i \in 1 .. n : i \in 1 .. n + 1 OBVIOUS
  <1>3. n + 1 \in 1 .. n + 1 OBVIOUS
  <1>4. \A i \in 1 .. n : Held(q, f[i]) = Held(e, f[i]) BY <1>1, <1>2 DEF HoldsSame
  <1>5. Held(q, t) = Held(e, t) BY <1>1, <1>3 DEF HoldsSame
  <1>6. \A a, s : NoNewNumber(d, q, a, s) \/ (<<a, s>> = t /\ NumberAt(q, a, s) = k)
    BY DEF HoldsSame, SameNumbers, NoNewNumber, Begins, HoldsBut
  <1> QED BY <1>4, <1>5, <1>6 DEF Begins, HoldsBut

\* The codec has begun a frame: q is the queue, y the unparsed bytes.
HasBegun(d, q, f, g, n, t, k, x, y) ==
  LiveQueue(q, g, n + 1, k) /\ Begins(d, q, f, n, t, k, x) /\ Unparsed(q) = y

(* What follows the frame is stored behind it, or nothing is unparsed.       *)
LEMMA StoreFreshKeeps ==
  ASSUME NEW d, NEW e, NEW f, NEW n \in Nat, NEW k \in Nat, NumbersInv(d, f, n, k), UniqueInv(d, k), NEW t, NEW x,
         Begins(d, e, f, n, t, k + 1, x), NEW g, Extends(g, f, n, t),
         QueueInv(e, g, n + 1, 0), e.unparsed.dataSize = 0,
         NEW more \in Nat, NEW y, IsSeq(y, more), NEW q, q = Store(e, NULL, y)
  PROVE  HasBegun(d, q, f, g, n, t, k + 1, x, y)
  <1>0. n + 1 \in Nat OBVIOUS
  <1>1. CASE more = 0
    <2>1. y = <<>> BY <1>1 DEF IsSeq
    <2>2. q = FFusionDataReadUnparsed(e) BY <2>1 DEF Store
    <2>3. QueueInv(e, g, n + 1, e.unparsed.dataSize) OBVIOUS
    <2>4. QueueInv(q, g, n + 1, 0) /\ HoldsSame(e, q, g, n + 1) /\ q.unparsed.dataSize = 0
      BY <1>0, <2>2, <2>3, ReadUnparsedKeeps
    <2>5. Begins(d, q, f, n, t, k + 1, x) BY <2>4, BeginsThen
    <2>6. NumbersInv(q, g, n + 1, k + 1) /\ UniqueInv(q, k + 1)
      BY <2>5, NumbersGrow, UniqueGrows DEF Begins
    <2>7. Unparsed(q) = y BY <2>1, <2>4 DEF Unparsed
    <2>8. UnparsedInv(q) BY <2>4 DEF UnparsedInv
    <2> QED BY <2>4, <2>5, <2>6, <2>7, <2>8 DEF HasBegun, LiveQueue
  <1>2. CASE more > 0
    <2>1. Len(y) = more /\ y # <<>>
      <3>1. Len(y) = more BY DEF IsSeq
      <3>2. Len(<<>>) = 0 OBVIOUS
      <3> QED BY <1>2, <3>1, <3>2
    <2>2. q = Unparsing(insertIntoBuffer(e, y), more) BY <2>1 DEF Store, FFusionDataSetUnparsed
    <2>3. /\ QueueInv(q, g, n + 1, more) /\ HoldsSame(e, q, g, n + 1)
          /\ q.unparsed = [buffer |-> Newest(q, more), dataSize |-> more]
          /\ Bytes(q, q.unparsed.buffer, more) = y
      BY <1>0, <2>2, UnparsingKeeps
    <2>4. Begins(d, q, f, n, t, k + 1, x) BY <2>3, BeginsThen
    <2>5. NumbersInv(q, g, n + 1, k + 1) /\ UniqueInv(q, k + 1)
      BY <2>4, NumbersGrow, UniqueGrows DEF Begins
    <2>6. q.unparsed.dataSize = more /\ q.unparsed.buffer = Newest(q, more) BY <2>3
    <2>7. Unparsed(q) = y BY <1>2, <2>3, <2>6 DEF Unparsed
    <2>8. UnparsedInv(q) BY <2>6 DEF UnparsedInv
    <2> QED BY <2>3, <2>4, <2>5, <2>6, <2>7, <2>8 DEF HasBegun, LiveQueue
  <1>3. more = 0 \/ more > 0 OBVIOUS
  <1> QED BY <1>1, <1>2, <1>3

(* A frame from the front of the unparsed bytes leaves the others unparsed.  *)
LEMMA UnparsedStep ==
  ASSUME NEW d, NEW f, NEW n \in Nat, NEW k \in Nat, LiveQueue(d, f, n, k), n < Slots,
         NEW u \in Nat, u = d.unparsed.dataSize, NEW b, b = d.unparsed.buffer,
         NEW m \in Nat, m \in 1 .. u, NEW x, x = Bytes(d, b, m), IsSeq(x, m),
         NEW c, c = <<b[1], b[2] + m>>, NEW y, y = Bytes(d, c, u - m), IsSeq(y, u - m),
         NEW type, NEW p, NEW e, BeginsWith(d, e, b, x, type, k + 1, p),
         NEW q, q = Store(e, c, y), NEW t, t = AppendTarget(d), NEW g, Extends(g, f, n, t)
  PROVE  HasBegun(d, q, f, g, n, t, k + 1, x, y)
  <1>0. n + 1 \in Nat /\ k + 1 \in Nat /\ u - m \in Nat /\ m > 0 /\ u > 0 OBVIOUS
  <1>1. QueueInv(d, f, n, u) /\ NumbersInv(d, f, n, k) /\ UniqueInv(d, k) /\ UnparsedInv(d) BY DEF LiveQueue
  <1>2. b = Newest(d, u) BY <1>0, <1>1 DEF UnparsedInv
  <1>3. Extends(g, f, n, AppendTarget(d)) OBVIOUS
  <1>4. CASE ArrayIsFull(d)
    <2>1. /\ QueueInv(e, g, n + 1, 0) /\ Begins(d, e, f, n, AppendTarget(d), k + 1, x)
          /\ e.unparsed = NoUnparsed
      <3>1. QueueInv(d, f, n, u) /\ n < Slots /\ ArrayIsFull(d) BY <1>1, <1>4
      <3>2. PICK K \in Nat : K = k + 1 BY <1>0
      <3>3. /\ IsSeq(x, m) /\ m > 0 /\ BeginsWith(d, e, b, x, type, K, p)
            /\ Extends(g, f, n, AppendTarget(d))
        BY <1>0, <1>3, <3>2
      <3>4. /\ QueueInv(e, g, n + 1, 0) /\ Begins(d, e, f, n, AppendTarget(d), K, x)
            /\ e.unparsed = NoUnparsed
        BY ONLY <3>1, <3>3, BeginExpandedKeeps
      <3> QED BY <3>2, <3>4
    <2>2. q = Store(e, NULL, y)
      <3>1. e.unparsed.buffer = NULL BY <2>1 DEF NoUnparsed
      <3>2. ~(c # NULL /\ e.unparsed.buffer = c) BY <3>1
      <3> QED BY <3>2 DEF Store, FFusionDataSetUnparsed
    <2>3. e.unparsed.dataSize = 0 /\ Begins(d, e, f, n, t, k + 1, x) BY <2>1 DEF NoUnparsed
    <2>4. PICK more \in Nat : more = u - m BY <1>0
    <2>5. IsSeq(y, more) BY <2>4
    <2> QED BY <1>1, <2>1, <2>2, <2>3, <2>5, StoreFreshKeeps
  <1>5. CASE ~ArrayIsFull(d)
    <2>1. PICK w \in Nat : w = u - m BY <1>0
    <2>2. /\ QueueInv(e, g, n + 1, w) /\ Begins(d, e, f, n, t, k + 1, x)
          /\ e.unparsed = [buffer |-> c, dataSize |-> w]
          /\ e.unparsed.buffer = Newest(e, w) /\ SameRings(d, e)
      <3>1. /\ QueueInv(e, g, n + 1, u - m) /\ Begins(d, e, f, n, AppendTarget(d), k + 1, x)
            /\ Leaves(e, b, m, u) /\ SameRings(d, e)
        <4>1. d.unparsed.buffer = b /\ d.unparsed.dataSize = u OBVIOUS
        <4> QED BY <1>0, <1>1, <1>2, <1>3, <1>5, <4>1, BeginUnparsedKeeps
      <3> QED BY <2>1, <3>1 DEF Leaves
    <2>3. Len(y) = w BY <2>1 DEF IsSeq
    <2>4. e.unparsed.dataSize = w /\ e.unparsed.buffer = c BY <2>2
    <2>5. CASE w = 0
      <3>1. y = <<>> BY <2>1, <2>5 DEF IsSeq
      <3>2. q = FFusionDataReadUnparsed(e) BY <3>1 DEF Store
      <3>3. QueueInv(e, g, n + 1, e.unparsed.dataSize) BY <2>2, <2>4
      <3>4. QueueInv(q, g, n + 1, 0) /\ HoldsSame(e, q, g, n + 1) /\ q.unparsed.dataSize = 0
        BY <1>0, <3>2, <3>3, ReadUnparsedKeeps
      <3>5. Begins(d, q, f, n, t, k + 1, x) BY <2>2, <3>4, BeginsThen
      <3>6. NumbersInv(q, g, n + 1, k + 1) /\ UniqueInv(q, k + 1)
        BY <1>1, <3>5, NumbersGrow, UniqueGrows DEF Begins
      <3>7. Unparsed(q) = y BY <3>1, <3>4 DEF Unparsed
      <3>8. UnparsedInv(q) BY <3>4 DEF UnparsedInv
      <3> QED BY <3>4, <3>5, <3>6, <3>7, <3>8 DEF HasBegun, LiveQueue
    <2>6. CASE w > 0
      <3>1. y # <<>>
        <4>1. Len(<<>>) = 0 OBVIOUS
        <4> QED BY <2>3, <2>6, <4>1
      <3>2. c # NULL BY DEF NULL
      <3>3. q = [e EXCEPT !.unparsed.dataSize = w]
        BY <2>3, <2>4, <3>1, <3>2 DEF Store, FFusionDataSetUnparsed
      <3>4. PICK v : v = [buffer |-> c, dataSize |-> w] OBVIOUS
      <3>5. q = [e EXCEPT !.unparsed = v] BY <2>2, <3>3, <3>4
      <3>6. v \in [buffer : {v.buffer}, dataSize : Nat] BY <3>4
      <3>7. /\ QueueInv(q, g, n + 1, w) /\ HoldsSame(e, q, g, n + 1)
            /\ q.cur = e.cur /\ q.arenas = e.arenas /\ q.unparsed = v
        BY ONLY <1>0, <2>2, <3>5, <3>6, UnparsedChanges
      <3>8. Begins(d, q, f, n, t, k + 1, x) BY <2>2, <3>7, BeginsThen
      <3>9. NumbersInv(q, g, n + 1, k + 1) /\ UniqueInv(q, k + 1)
        BY <1>1, <3>8, NumbersGrow, UniqueGrows DEF Begins
      <3>10. q.unparsed.dataSize = w /\ q.unparsed.buffer = c BY ONLY <3>4, <3>7
      <3>11. UnparsedInv(q)
        <4>1. Newest(q, w) = Newest(e, w) BY Zenon, <3>7 DEF Newest, Cur
        <4>2. Newest(q, w) = c BY <2>2, <2>4, <4>1
        <4> QED BY Zenon, <3>10, <4>2 DEF UnparsedInv
      <3>12. Unparsed(q) = y
        <4>1. c[1] = d.cur BY <1>2 DEF Newest
        <4>2. d.cur \in DOMAIN d.arenas BY <1>1 DEF QueueInv, DataType
        <4>3. q.arenas[c[1]].ring = d.arenas[c[1]].ring BY <2>2, <3>7, <4>1, <4>2 DEF SameRings
        <4>4. Bytes(q, c, w) = Bytes(d, c, w) BY Zenon, <4>3 DEF Bytes
        <4>5. y = Bytes(d, c, w) BY <2>1
        <4>6. w # 0 BY <2>6
        <4>7. Unparsed(q) = Bytes(q, c, w) BY Zenon, <3>10, <4>6 DEF Unparsed
        <4> QED BY <4>4, <4>5, <4>7
      <3> QED BY Zenon, <3>7, <3>8, <3>9, <3>10, <3>11, <3>12 DEF HasBegun, LiveQueue
    <2>7. w = 0 \/ w > 0 OBVIOUS
    <2> QED BY <2>5, <2>6, <2>7
  <1> QED BY <1>4, <1>5

(* A frame from the caller's own data.                                       *)
LEMMA FreshStep ==
  ASSUME NEW d, NEW f, NEW n \in Nat, NEW k \in Nat, LiveQueue(d, f, n, k), n < Slots,
         d.unparsed.dataSize = 0, NEW m \in Nat, m > 0, NEW x, IsSeq(x, m),
         NEW more \in Nat, NEW y, IsSeq(y, more),
         NEW type, NEW p, NEW e, BeginsWith(d, e, NULL, x, type, k + 1, p),
         NEW q, q = Store(e, NULL, y), NEW t, t = AppendTarget(d), NEW g, Extends(g, f, n, t)
  PROVE  HasBegun(d, q, f, g, n, t, k + 1, x, y)
  <1>1. QueueInv(d, f, n, 0) /\ NumbersInv(d, f, n, k) /\ UniqueInv(d, k) BY DEF LiveQueue
  <1>2. k + 1 \in Nat /\ Extends(g, f, n, AppendTarget(d)) OBVIOUS
  <1>3. /\ QueueInv(e, g, n + 1, 0) /\ Begins(d, e, f, n, AppendTarget(d), k + 1, x)
        /\ e.unparsed = NoUnparsed \/ e.unparsed = d.unparsed
    BY <1>1, <1>2, BeginFreshKeeps
  <1>4. e.unparsed.dataSize = 0 /\ Begins(d, e, f, n, t, k + 1, x) BY <1>3 DEF NoUnparsed
  <1> QED BY <1>1, <1>3, <1>4, StoreFreshKeeps

-----------------------------------------------------------------------------
(* A frame is marked read. *)

\* Of the arenas of d, those from a on are left, and a itself is now y.
LeftFrom(d, a, y, q) ==
  /\ DataType(q) /\ q.cur = d.cur /\ q.unparsed = d.unparsed
  /\ DOMAIN q.arenas = {x \in DOMAIN d.arenas : x >= a} /\ q.arenas[a] = y
  /\ \A b \in DOMAIN q.arenas : b # a => q.arenas[b] = d.arenas[b]

\* The arena r while its bytes in use begin at x.
Shrunk(r, x, y) ==
  /\ y.frames = r.frames /\ y.frameSize = r.frameSize /\ y.frameWrite = r.frameWrite
  /\ y.ring = r.ring /\ y.ringSize = r.ringSize /\ y.ringWrite = r.ringWrite
  /\ y.ringRead = x

(* What FFusionDataMarkRead does to the arena of the frame it is given.      *)
LEMMA MarkReadIs ==
  ASSUME NEW d, DataType(d), NEW a \in DOMAIN d.arenas, NEW r, r = d.arenas[a],
         NEW s \in 0 .. r.frameSize - 1, NEW t, t = <<a, s>>, Frame(d, t).prereqFrame = NULL,
         NEW home, NEW at \in Nat, Frame(d, t).buffer = <<home, at>>,
         NEW size \in Nat, size = Frame(d, t).dataSize,
         NEW q, q = FFusionDataMarkRead(d, t)
  PROVE  \E y : LeftFrom(d, a, y, q) /\ Shrunk(r, IF home = a THEN at + size ELSE r.ringRead, y)
  <1>1. ArenaType(r) /\ a \in Int /\ d.cur \in DOMAIN d.arenas /\ d.cur >= a BY DEF DataType
  <1>2. s + 1 \in Nat /\ s + 1 <= r.frameSize BY <1>1 DEF ArenaType
  <1>3. PICK r1 : r1 = [r EXCEPT !.frameRead = s + 1] OBVIOUS
  <1>4. /\ ArenaType(r1) /\ r1.frames = r.frames /\ r1.frameSize = r.frameSize
        /\ r1.frameRead = s + 1 /\ r1.frameWrite = r.frameWrite
        /\ r1.ring = r.ring /\ r1.ringSize = r.ringSize /\ r1.ringRead = r.ringRead /\ r1.ringWrite = r.ringWrite
    BY <1>1, <1>2, <1>3, FrameReadChanges
  <1>5. PICK x \in Nat : x = IF home = a THEN at + size ELSE r.ringRead BY <1>1 DEF ArenaType
  <1>6. PICK y : y = [r1 EXCEPT !.ringRead = x] OBVIOUS
  <1>7. /\ ArenaType(y) /\ y.frames = r1.frames /\ y.frameSize = r1.frameSize
        /\ y.frameRead = r1.frameRead /\ y.frameWrite = r1.frameWrite
        /\ y.ring = r1.ring /\ y.ringSize = r1.ringSize /\ y.ringRead = x /\ y.ringWrite = r1.ringWrite
    BY <1>4, <1>5, <1>6, RingReadChanges
  <1>8. PICK e1 : e1 = WithArena(d, a, r1) OBVIOUS
  <1>9. /\ DataType(e1) /\ e1.cur = d.cur /\ e1.unparsed = d.unparsed
        /\ DOMAIN e1.arenas = DOMAIN d.arenas /\ e1.arenas[a] = r1
        /\ \A b \in DOMAIN d.arenas : b # a => e1.arenas[b] = d.arenas[b]
    BY ONLY DataType(d), a \in DOMAIN d.arenas, <1>4, <1>8, ArenaChanges
  <1>10. PICK e2 : e2 = WithArena(e1, a, y) OBVIOUS
  <1>11. a \in DOMAIN e1.arenas BY <1>9
  <1>12. /\ DataType(e2) /\ e2.cur = e1.cur /\ e2.unparsed = e1.unparsed
         /\ DOMAIN e2.arenas = DOMAIN e1.arenas /\ e2.arenas[a] = y
         /\ \A b \in DOMAIN e1.arenas : b # a => e2.arenas[b] = e1.arenas[b]
    BY ONLY <1>7, <1>9, <1>10, <1>11, ArenaChanges
  <1>13. e2 = [d EXCEPT !.arenas[a].frameRead = s + 1, !.arenas[a].ringRead = x]
    <2>1. e1 = [d EXCEPT !.arenas[a].frameRead = s + 1] BY <1>3, <1>8 DEF WithArena
    <2>2. e1.arenas[a] = r1 BY <1>9
    <2>3. e2 = [e1 EXCEPT !.arenas[a].ringRead = x] BY <1>6, <1>10, <2>2 DEF WithArena
    <2> QED BY <2>1, <2>3
  <1>14. q = [e2 EXCEPT !.arenas = [b \in {z \in DOMAIN d.arenas : z >= a} |-> @[b]]]
    <2>1. t # NULL /\ t[1] = a /\ t[2] = s BY DEF NULL
    <2>2. Frame(d, t).buffer[1] = home /\ Frame(d, t).buffer[2] + Frame(d, t).dataSize = at + size OBVIOUS
    <2> DEFINE done == [d EXCEPT !.arenas[a].frameRead = s + 1,
                                 !.arenas[a].ringRead = IF Frame(d, t).buffer[1] = a
                                                        THEN Frame(d, t).buffer[2] + Frame(d, t).dataSize ELSE @]
    <2>3. done = e2
      <3>1. CASE home = a
        <4>1. x = Frame(d, t).buffer[2] + Frame(d, t).dataSize BY <1>5, <2>2, <3>1
        <4>2. done = [d EXCEPT !.arenas[a].frameRead = s + 1,
                               !.arenas[a].ringRead = Frame(d, t).buffer[2] + Frame(d, t).dataSize]
          BY <2>2, <3>1
        <4> QED BY ONLY <1>13, <4>1, <4>2
      <3>2. CASE home # a
        <4>1. x = r.ringRead BY <1>5, <3>2
        <4>2. done = [d EXCEPT !.arenas[a].frameRead = s + 1, !.arenas[a].ringRead = @] BY <2>2, <3>2
        <4> HIDE DEF done
        <4>3. PICK z : z = [d EXCEPT !.arenas[a].frameRead = s + 1] OBVIOUS
        <4>4. z.arenas[a].ringRead = r.ringRead
          <5>1. z = e1 BY <1>3, <1>8, <4>3 DEF WithArena
          <5> QED BY <1>4, <1>9, <5>1
        <4>5. done = [z EXCEPT !.arenas[a].ringRead = @] BY ONLY <4>2, <4>3
        <4>6. e2 = [z EXCEPT !.arenas[a].ringRead = x] BY ONLY <1>13, <4>3
        <4>7. done = [z EXCEPT !.arenas[a].ringRead = z.arenas[a].ringRead] BY ONLY <4>5
        <4> QED BY ONLY <4>1, <4>4, <4>6, <4>7
      <3> QED BY <3>1, <3>2
    <2> QED BY <2>1, <2>3 DEF FFusionDataMarkRead
  <1>15. /\ q \in [arenas : {q.arenas}, cur : Nat, unparsed : {q.unparsed}]
         /\ q.cur = e2.cur /\ q.unparsed = e2.unparsed
         /\ q.arenas = [b \in {z \in DOMAIN d.arenas : z >= a} |-> e2.arenas[b]]
    <2>1. e2 \in [arenas : {e2.arenas}, cur : Nat, unparsed : {e2.unparsed}] BY <1>12 DEF DataType
    <2> QED BY ONLY <1>14, <2>1
  <1>16. /\ q.cur = d.cur /\ q.unparsed = d.unparsed
         /\ DOMAIN q.arenas = {z \in DOMAIN d.arenas : z >= a} /\ q.arenas[a] = y
         /\ \A b \in DOMAIN q.arenas : b # a => q.arenas[b] = d.arenas[b]
    BY <1>1, <1>9, <1>12, <1>15
  <1>17. DataType(q) BY <1>1, <1>7, <1>15, <1>16 DEF DataType
  <1>18. Shrunk(r, x, y) BY <1>4, <1>7 DEF Shrunk
  <1> QED BY <1>5, <1>16, <1>17, <1>18 DEF LeftFrom

(* Places in the ring, counted from the end of the bytes that were read.     *)
LEMMA PlacesLeft ==
  ASSUME NEW r, ArenaType(r), r.ringRead < r.ringSize, NEW at \in Nat, NEW size \in Nat, size > 0,
         at + size < r.ringSize, NEW x, x = at + size, NEW top \in Nat,
         r.ringWrite + PADDING < r.ringSize, top <= r.ringWrite,
         top >= r.ringRead \/ r.ringWrite + PADDING < r.ringRead,
         BytePlace(r, at) + size <= BytePlace(r, top),
         NEW y, y.ringRead = x, y.ringSize = r.ringSize
  PROVE  /\ top >= x \/ r.ringWrite + PADDING < x
         /\ \A z \in Nat : z < r.ringSize /\ BytePlace(r, at) + size <= BytePlace(r, z) =>
              BytePlace(y, z) = BytePlace(r, z) - (BytePlace(r, at) + size)
         /\ BytePlace(r, at) + size \in Int /\ top < r.ringSize
  <1>1. /\ r.ringWrite \in Nat /\ r.ringRead \in Nat /\ r.ringSize \in Nat /\ PADDING \in Nat
    BY SetupAssumption DEF ArenaType
  <1> QED BY <1>1 DEF BytePlace, Place

\* The codec holds the same frames in h as in f from the i-th on.
HoldsRest(d, q, f, h, n, i) == \A j \in 1 .. n - i : Held(q, h[j]) = Held(d, f[i + j])

\* h has what f has from the i-th on.
Drops(h, f, n, i) == \A j \in 1 .. n - i : h[j] = f[i + j]

(* A frame and those before it are given up; the others stay.                *)
LEMMA MarkReadKeeps ==
  ASSUME NEW d, NEW f, NEW n \in Nat, NEW k \in Nat, LiveQueue(d, f, n, k), NEW i \in 1 .. n,
         Frame(d, f[i]).prereqFrame = NULL,
         NEW q, q = FFusionDataMarkRead(d, f[i]), NEW h, Drops(h, f, n, i)
  PROVE  LiveQueue(q, h, n - i, k) /\ HoldsRest(d, q, f, h, n, i) /\ Unparsed(q) = Unparsed(d)
  <1> DEFINE u == d.unparsed.dataSize
  <1> USE DEF Drops
  <1>0. n - i \in Nat /\ \A j \in 1 .. n - i : i + j \in 1 .. n /\ i < i + j OBVIOUS
  <1>1. /\ DataType(d) /\ SlotsInv(d, f, n) /\ HomesInv(d, f, n) /\ RingInv(d, f, n, u)
        /\ NumbersInv(d, f, n, k) /\ UniqueInv(d, k) /\ UnparsedInv(d)
    BY DEF LiveQueue, QueueInv
  <1>2. PICK a, s, home, at, size, r : /\ a = f[i][1] /\ s = f[i][2] /\ home = Home(d, f[i]) /\ at = At(d, f[i])
                                       /\ size = Frame(d, f[i]).dataSize /\ r = d.arenas[a] OBVIOUS
  <1>3. f[i] = <<a, s>> /\ a \in DOMAIN d.arenas /\ s \in 0 .. r.frameSize - 1
    BY <1>1, <1>2 DEF SlotsInv, Pointer
  <1>4. ArenaType(r) BY <1>1, <1>2, <1>3 DEF DataType
  <1>5. /\ Frame(d, f[i]).buffer = <<home, at>> /\ at \in Nat /\ size > 0 /\ a <= home
        /\ home \in DOMAIN d.arenas /\ at + size < d.arenas[home].ringSize
    BY <1>1, <1>2 DEF HomesInv
  <1>6. \A j \in 1 .. n : Frame(d, f[j]).dataSize \in Nat
    <2> TAKE j \in 1 .. n
    <2>1. Pointer(d, f[j]) BY <1>1 DEF SlotsInv
    <2>2. FrameType(Frame(d, f[j])) BY <1>1, <2>1, PointerIsFrame
    <2> QED BY <2>2 DEF FrameType
  <1>7. size \in Nat BY <1>2, <1>6
  <1>8. PICK t, x : t = f[i] /\ x = IF home = a THEN at + size ELSE r.ringRead OBVIOUS
  <1>9. PICK y : LeftFrom(d, a, y, q) /\ Shrunk(r, x, y)
    <2>1. /\ t = <<a, s>> /\ Frame(d, t).prereqFrame = NULL /\ Frame(d, t).buffer = <<home, at>>
          /\ size = Frame(d, t).dataSize /\ q = FFusionDataMarkRead(d, t)
      BY <1>2, <1>3, <1>5, <1>8
    <2>2. at \in Nat /\ r = d.arenas[a] BY <1>2, <1>5
    <2>3. \E y : LeftFrom(d, a, y, q) /\ Shrunk(r, IF home = a THEN at + size ELSE r.ringRead, y)
      BY ONLY <1>1, <1>3, <1>7, <2>1, <2>2, MarkReadIs
    <2> QED BY <1>8, <2>3
  <1>10. /\ DataType(q) /\ q.cur = d.cur /\ q.unparsed = d.unparsed
         /\ DOMAIN q.arenas = {b \in DOMAIN d.arenas : b >= a} /\ q.arenas[a] = y
         /\ \A b \in DOMAIN q.arenas : b # a => q.arenas[b] = d.arenas[b]
    BY <1>9 DEF LeftFrom
  <1>11. /\ y.frames = r.frames /\ y.frameSize = r.frameSize /\ y.frameWrite = r.frameWrite
         /\ y.ring = r.ring /\ y.ringSize = r.ringSize /\ y.ringWrite = r.ringWrite
         /\ y.ringRead = x
    BY <1>9 DEF Shrunk
  <1> HIDE DEF u
  <1>12. \A b \in DOMAIN q.arenas :
           /\ b \in DOMAIN d.arenas /\ q.arenas[b].frames = d.arenas[b].frames
           /\ q.arenas[b].frameSize = d.arenas[b].frameSize /\ q.arenas[b].frameWrite = d.arenas[b].frameWrite
           /\ q.arenas[b].ring = d.arenas[b].ring /\ q.arenas[b].ringSize = d.arenas[b].ringSize
           /\ q.arenas[b].ringWrite = d.arenas[b].ringWrite
    BY <1>2, <1>10, <1>11
  <1>13. \A j \in 1 .. n : i < j => f[j][1] \in DOMAIN q.arenas /\ Home(d, f[j]) \in DOMAIN q.arenas
    <2> TAKE j \in 1 .. n
    <2> HAVE i < j
    <2>1. f[j][1] \in DOMAIN d.arenas /\ Home(d, f[j]) \in DOMAIN d.arenas BY <1>1 DEF SlotsInv, Pointer, HomesInv
    <2>2. a <= f[j][1] /\ f[j][1] <= Home(d, f[j]) BY <1>1, <1>2 DEF SlotsInv, HomesInv
    <2>3. a \in Nat /\ f[j][1] \in Nat /\ Home(d, f[j]) \in Nat BY <1>1, <1>3, <2>1 DEF DataType
    <2> QED BY <1>10, <2>1, <2>2, <2>3
  <1>14. \A j \in 1 .. n : i < j =>
           Frame(q, f[j]) = Frame(d, f[j]) /\ At(q, f[j]) = At(d, f[j]) /\ Home(q, f[j]) = Home(d, f[j])
    BY Zenon, <1>12, <1>13 DEF Frame, At, Home
  <1>15. d.cur \in DOMAIN q.arenas BY <1>1, <1>3, <1>10 DEF DataType
  <1>16. \A j \in 1 .. n - i : \E J \in 1 .. n : J = i + j /\ i < J /\ h[j] = f[J] BY <1>0
  <1>17. SlotsInv(q, h, n - i)
    <2>1. ASSUME NEW j \in 1 .. n - i PROVE Pointer(q, h[j])
      <3>1. PICK J \in 1 .. n : J = i + j /\ i < J /\ h[j] = f[J] BY <1>16
      <3>2. Pointer(d, f[J]) BY <1>1 DEF SlotsInv
      <3> QED BY <1>12, <1>13, <3>1, <3>2 DEF Pointer
    <2>2. ASSUME NEW j \in 1 .. n - i, NEW l \in 1 .. n - i, j < l PROVE h[j][1] <= h[l][1] /\ h[j] # h[l]
      <3>1. PICK J \in 1 .. n, L \in 1 .. n : h[j] = f[J] /\ h[l] = f[L] /\ J < L BY <1>0, <2>2
      <3> QED BY <1>1, <3>1 DEF SlotsInv
    <2>3. ASSUME NEW j \in 1 .. n - i, h[j][1] = q.cur PROVE Before(Cur(q), h[j][2], ((n - i) + 1) - j)
      <3>1. PICK J \in 1 .. n : J = i + j /\ i < J /\ h[j] = f[J] BY <1>16
      <3>2. Before(Cur(d), f[J][2], (n + 1) - J) BY <1>1, <1>10, <2>3, <3>1 DEF SlotsInv
      <3>3. (n + 1) - J = ((n - i) + 1) - j BY <3>1
      <3>4. Cur(q).frameWrite = Cur(d).frameWrite /\ Cur(q).frameSize = Cur(d).frameSize
        BY <1>10, <1>12, <1>15 DEF Cur
      <3>5. PICK z, v : z = (n + 1) - J /\ v = ((n - i) + 1) - j OBVIOUS
      <3>6. Before(Cur(q), f[J][2], z) BY ONLY <3>2, <3>4, <3>5 DEF Before
      <3> QED BY <3>1, <3>3, <3>5, <3>6
    <2> QED BY <2>1, <2>2, <2>3 DEF SlotsInv
  <1>18. HomesInv(q, h, n - i)
    <2> SUFFICES ASSUME NEW j \in 1 .. n - i
                 PROVE  /\ Frame(q, h[j]).buffer = <<Home(q, h[j]), At(q, h[j])>>
                        /\ Home(q, h[j]) \in DOMAIN q.arenas /\ h[j][1] <= Home(q, h[j])
                        /\ At(q, h[j]) \in Nat /\ Frame(q, h[j]).dataSize > 0
                        /\ At(q, h[j]) + Frame(q, h[j]).dataSize < q.arenas[Home(q, h[j])].ringSize
      BY Zenon DEF HomesInv
    <2>1. PICK J \in 1 .. n : J = i + j /\ i < J /\ h[j] = f[J] BY <1>16
    <2>2. /\ Frame(d, f[J]).buffer = <<Home(d, f[J]), At(d, f[J])>> /\ f[J][1] <= Home(d, f[J])
          /\ At(d, f[J]) \in Nat /\ Frame(d, f[J]).dataSize > 0
          /\ At(d, f[J]) + Frame(d, f[J]).dataSize < d.arenas[Home(d, f[J])].ringSize
      BY <1>1 DEF HomesInv
    <2>3. Home(d, f[J]) \in DOMAIN q.arenas BY <1>13, <2>1
    <2>4. q.arenas[Home(d, f[J])].ringSize = d.arenas[Home(d, f[J])].ringSize BY <1>12, <2>3
    <2> QED BY <1>14, <2>1, <2>2, <2>3, <2>4
  <1>19. HoldsRest(d, q, f, h, n, i)
    <2> SUFFICES ASSUME NEW j \in 1 .. n - i PROVE Held(q, h[j]) = Held(d, f[i + j]) BY DEF HoldsRest
    <2>1. PICK J \in 1 .. n : J = i + j /\ i < J /\ h[j] = f[J] BY <1>16
    <2>2. Frame(d, f[J]).buffer[1] = Home(d, f[J]) BY DEF Home
    <2>3. Frame(q, f[J]) = Frame(d, f[J]) BY <1>14, <2>1
    <2>4. q.arenas[Home(d, f[J])].ring = d.arenas[Home(d, f[J])].ring BY <1>12, <1>13, <2>1
    <2>5. Held(q, f[J]) = Held(d, f[J]) BY ONLY Zenon, <2>2, <2>3, <2>4 DEF Held, Bytes
    <2> QED BY <2>1, <2>5
  <1>20. NumbersInv(q, h, n - i, k)
    <2> SUFFICES ASSUME NEW j \in 1 .. n - i
                 PROVE  /\ Frame(q, h[j]).frameNumber \in 1 .. k
                        /\ \A l \in 1 .. n - i : j < l => Frame(q, h[j]).frameNumber < Frame(q, h[l]).frameNumber
      BY DEF NumbersInv
    <2>1. \A l \in 1 .. n - i : Frame(q, h[l]) = Frame(d, f[i + l]) BY <1>0, <1>14
    <2>2. Frame(d, f[i + j]).frameNumber \in 1 .. k BY <1>0, <1>1 DEF NumbersInv
    <2>3. \A l \in 1 .. n - i : j < l => i + j < i + l OBVIOUS
    <2>4. \A l \in 1 .. n - i : j < l => Frame(d, f[i + j]).frameNumber < Frame(d, f[i + l]).frameNumber
      BY <1>0, <1>1, <2>3 DEF NumbersInv
    <2> QED BY <2>1, <2>2, <2>4
  <1>21. UniqueInv(q, k)
    <2>1. SameNumbers(d, q) BY Zenon, <1>12 DEF SameNumbers, NoNewNumber, NumberAt
    <2> QED BY <1>1, <2>1, UniqueStays
  <1>22. UnparsedInv(q) BY <1>1, <1>10, <1>12, <1>15 DEF UnparsedInv, Newest, Cur
  <1>23. Unparsed(q) = Unparsed(d)
    <2>1. CASE u = 0 BY <1>10, <2>1 DEF Unparsed, u
    <2>2. CASE u # 0
      <3>1. u > 0 BY <1>1, <2>2 DEF DataType, u
      <3>2. d.unparsed.buffer = Newest(d, u) BY <1>1, <3>1 DEF UnparsedInv, u
      <3>3. d.unparsed.buffer[1] = d.cur BY <3>2 DEF Newest
      <3>4. q.arenas[d.cur].ring = d.arenas[d.cur].ring BY <1>12, <1>15
      <3>5. Bytes(q, d.unparsed.buffer, u) = Bytes(d, d.unparsed.buffer, u) BY <3>3, <3>4 DEF Bytes
      <3> QED BY <1>10, <2>2, <3>5 DEF Unparsed, u
    <2> QED BY <2>1, <2>2
  <1>24. RingInv(q, h, n - i, u)
    <2> DEFINE c == Cur(d)
               top == c.ringWrite - u
    <2>1. /\ u \in Nat /\ top \in Nat /\ c.ringRead < c.ringSize /\ c.ringWrite + PADDING < c.ringSize
          /\ top >= c.ringRead \/ c.ringWrite + PADDING < c.ringRead
          /\ \A j \in 1 .. n : Home(d, f[j]) = d.cur =>
               /\ BytePlace(c, At(d, f[j])) + Frame(d, f[j]).dataSize <= BytePlace(c, top)
               /\ \A l \in 1 .. n : j < l /\ Home(d, f[l]) = d.cur =>
                    BytePlace(c, At(d, f[j])) + Frame(d, f[j]).dataSize <= BytePlace(c, At(d, f[l]))
      BY <1>1 DEF RingInv
    <2>2. CASE a # d.cur
      <3>1. Cur(q) = c BY <1>10, <1>15, <2>2 DEF Cur
      <3> HIDE DEF c, top
      <3>2. top = Cur(q).ringWrite - u BY <3>1 DEF top
      <3>3. ASSUME NEW j \in 1 .. n - i, Home(q, h[j]) = q.cur
            PROVE  /\ BytePlace(c, At(q, h[j])) + Frame(q, h[j]).dataSize <= BytePlace(c, top)
                   /\ \A l \in 1 .. n - i : j < l /\ Home(q, h[l]) = q.cur =>
                        BytePlace(c, At(q, h[j])) + Frame(q, h[j]).dataSize <= BytePlace(c, At(q, h[l]))
        <4>1. \A l \in 1 .. n - i : j < l => i + j < i + l OBVIOUS
        <4>2. \A l \in 1 .. n - i : /\ h[l] = f[i + l] /\ Frame(q, h[l]) = Frame(d, f[i + l])
                                    /\ At(q, h[l]) = At(d, f[i + l]) /\ Home(q, h[l]) = Home(d, f[i + l])
          BY <1>0, <1>14
        <4> QED BY <1>0, <1>10, <2>1, <3>3, <4>1, <4>2
      <3> QED BY <2>1, <3>1, <3>2, <3>3 DEF RingInv
    <2>3. CASE a = d.cur
      <3>0. home = a /\ x = at + size /\ at + size < r.ringSize
        <4>1. home \in 0 .. d.cur /\ a \in Nat BY <1>1, <1>3, <1>5 DEF DataType
        <4>2. home = a BY <1>5, <2>3, <4>1
        <4> QED BY <1>2, <1>5, <1>8, <4>2
      <3>1. Cur(q) = y /\ c = r BY <1>2, <1>10, <2>3 DEF Cur
      <3>2. y.ringWrite - u = top /\ top <= r.ringWrite /\ r.ringWrite \in Nat
        BY <1>4, <1>11, <2>1, <3>1 DEF ArenaType
      <3> HIDE DEF c, top
      <3>3. BytePlace(r, at) + size <= BytePlace(r, top) BY <1>2, <2>1, <2>3, <3>0, <3>1
      <3>4. /\ top >= x \/ r.ringWrite + PADDING < x
            /\ \A z \in Nat : z < r.ringSize /\ BytePlace(r, at) + size <= BytePlace(r, z) =>
                 BytePlace(y, z) = BytePlace(r, z) - (BytePlace(r, at) + size)
            /\ BytePlace(r, at) + size \in Int /\ top < r.ringSize
        BY <1>4, <1>5, <1>7, <1>11, <2>1, <3>0, <3>1, <3>2, <3>3, PlacesLeft
      <3>5. PICK off \in Int : off = BytePlace(r, at) + size BY <3>4
      <3>6. BytePlace(y, top) = BytePlace(r, top) - off BY <2>1, <3>3, <3>4, <3>5
      <3>7. \A z \in Nat : BytePlace(r, z) \in Int BY <1>4 DEF BytePlace, Place, ArenaType
      <3>8. ASSUME NEW J \in 1 .. n, i < J, Home(d, f[J]) = d.cur
            PROVE  /\ BytePlace(y, At(d, f[J])) = BytePlace(r, At(d, f[J])) - off
                   /\ At(d, f[J]) \in Nat
        <4>1. off <= BytePlace(r, At(d, f[J])) BY <1>2, <2>1, <2>3, <3>0, <3>1, <3>5, <3>8
        <4>2. At(d, f[J]) \in Nat /\ At(d, f[J]) + Frame(d, f[J]).dataSize < d.arenas[Home(d, f[J])].ringSize
          BY <1>1 DEF HomesInv
        <4>3. At(d, f[J]) < r.ringSize
          <5>1. r.ringSize \in Nat BY <1>4 DEF ArenaType
          <5>2. Frame(d, f[J]).dataSize \in Nat BY <1>6
          <5>3. d.arenas[Home(d, f[J])].ringSize = r.ringSize BY <1>2, <2>3, <3>8
          <5> QED BY <4>2, <5>1, <5>2, <5>3
        <4> QED BY <3>4, <3>5, <4>1, <4>2, <4>3
      <3>9. ASSUME NEW j \in 1 .. n - i, Home(q, h[j]) = q.cur
            PROVE  /\ BytePlace(y, At(q, h[j])) + Frame(q, h[j]).dataSize <= BytePlace(y, top)
                   /\ \A l \in 1 .. n - i : j < l /\ Home(q, h[l]) = q.cur =>
                        BytePlace(y, At(q, h[j])) + Frame(q, h[j]).dataSize <= BytePlace(y, At(q, h[l]))
        <4>1. PICK J \in 1 .. n : J = i + j /\ i < J /\ h[j] = f[J] BY <1>16
        <4>2. Home(d, f[J]) = d.cur /\ At(q, h[j]) = At(d, f[J]) /\ Frame(q, h[j]) = Frame(d, f[J])
          BY <1>10, <1>14, <3>9, <4>1
        <4>3. PICK e \in Nat : e = Frame(d, f[J]).dataSize BY <1>6
        <4>4. PICK z \in Nat : z = At(d, f[J]) /\ BytePlace(y, z) = BytePlace(r, z) - off BY <3>8, <4>1, <4>2
        <4>5. BytePlace(r, z) + e <= BytePlace(r, top) BY <2>1, <3>1, <4>2, <4>3, <4>4
        <4>6. BytePlace(r, z) \in Int /\ BytePlace(r, top) \in Int BY <2>1, <3>7
        <4>7. BytePlace(y, z) + e <= BytePlace(y, top) BY <3>6, <4>4, <4>5, <4>6
        <4>8. ASSUME NEW l \in 1 .. n - i, j < l, Home(q, h[l]) = q.cur
              PROVE  BytePlace(y, z) + e <= BytePlace(y, At(q, h[l]))
          <5>1. PICK L \in 1 .. n : L = i + l /\ i < L /\ h[l] = f[L] /\ J < L BY <1>0, <4>1, <4>8
          <5>2. Home(d, f[L]) = d.cur /\ At(q, h[l]) = At(d, f[L]) BY <1>10, <1>14, <4>8, <5>1
          <5>3. PICK w \in Nat : w = At(d, f[L]) /\ BytePlace(y, w) = BytePlace(r, w) - off BY <3>8, <5>1, <5>2
          <5>4. BytePlace(r, z) + e <= BytePlace(r, w) BY <2>1, <3>1, <4>2, <4>3, <4>4, <5>1, <5>2, <5>3
          <5>5. BytePlace(r, w) \in Int BY <3>7
          <5> QED BY <4>4, <4>6, <5>2, <5>3, <5>4, <5>5
        <4> QED BY <4>2, <4>3, <4>4, <4>7, <4>8
      <3>10. y.ringRead < y.ringSize /\ y.ringWrite + PADDING < y.ringSize
        BY <1>11, <2>1, <3>0, <3>1
      <3>11. top >= y.ringRead \/ y.ringWrite + PADDING < y.ringRead BY <1>11, <3>4
      <3> QED BY <2>1, <3>1, <3>2, <3>9, <3>10, <3>11 DEF RingInv
    <2> QED BY <2>2, <2>3
  <1>25. q.unparsed.dataSize = u BY <1>10 DEF u
  <1> QED BY <1>10, <1>17, <1>18, <1>19, <1>20, <1>21, <1>22, <1>23, <1>24, <1>25 DEF LiveQueue, QueueInv

-----------------------------------------------------------------------------
(* Sequences by their elements. *)

(* A function on 1 to n is a sequence of length n.                           *)
LEMMA SeqIs ==
  ASSUME NEW n \in Nat, NEW x, x = [i \in 1 .. n |-> x[i]]
  PROVE  IsSeq(x, n) /\ x \in Seq({x[i] : i \in 1 .. n})
  <1> DEFINE S == {x[i] : i \in 1 .. n}
  <1>1. \A i \in 1 .. n : x[i] \in S OBVIOUS
  <1> HIDE DEF S
  <1>2. x \in [1 .. n -> S] BY <1>1
  <1>3. x \in Seq(S) BY <1>2, SeqDef
  <1>4. DOMAIN x = 1 .. n BY <1>2
  <1>5. Len(x) \in Nat /\ DOMAIN x = 1 .. Len(x) BY <1>3, LenProperties
  <1>6. Len(x) = n BY <1>4, <1>5
  <1> QED BY <1>3, <1>6 DEF IsSeq, S

(* Sequences of one length with the same elements are the same.              *)
LEMMA SeqSame ==
  ASSUME NEW n \in Nat, NEW x, NEW y, IsSeq(x, n), IsSeq(y, n), \A i \in 1 .. n : x[i] = y[i]
  PROVE  x = y
  BY DEF IsSeq

(* A sequence is told by its length and its elements.                        *)
LEMMA SeqOfType ==
  ASSUME NEW S, NEW x \in Seq(S), NEW n, n = Len(x)
  PROVE  IsSeq(x, n) /\ n \in Nat
  <1>1. Len(x) \in Nat /\ x \in [1 .. Len(x) -> S] BY LenProperties
  <1> QED BY <1>1 DEF IsSeq

Joins(z, x, n, y, l) ==
  IsSeq(z, l) /\ \A i \in 1 .. l : z[i] = IF i <= n THEN x[i] ELSE y[i - n]

(* The elements of two sequences put one behind the other.                   *)
LEMMA ConcatIs ==
  ASSUME NEW n \in Nat, NEW m \in Nat, NEW l \in Nat, l = n + m, NEW x, NEW y, IsSeq(x, n), IsSeq(y, m)
  PROVE  Joins(x \o y, x, n, y, l)
  <1>1. PICK S : x \in Seq(S) BY SeqIs DEF IsSeq
  <1>2. PICK T : y \in Seq(T) BY SeqIs DEF IsSeq
  <1>3. PICK U : U = S \union T OBVIOUS
  <1>4. x \in Seq(U) /\ y \in Seq(U) BY <1>1, <1>2, <1>3, SeqMonotonic
  <1>5. /\ x \o y \in Seq(U) /\ Len(x \o y) = Len(x) + Len(y)
        /\ \A i \in 1 .. Len(x) + Len(y) : (x \o y)[i] = IF i <= Len(x) THEN x[i] ELSE y[i - Len(x)]
    BY <1>4, ConcatProperties
  <1>6. Len(x) = n /\ Len(y) = m BY DEF IsSeq
  <1>7. l = Len(x \o y) BY <1>5, <1>6
  <1>8. IsSeq(x \o y, l) BY <1>5, <1>7, SeqOfType
  <1> QED BY <1>5, <1>6, <1>8 DEF Joins

(* The elements of a sequence that got one more.                             *)
LEMMA AppendIs ==
  ASSUME NEW n \in Nat, NEW x, IsSeq(x, n), NEW e
  PROVE  IsSeq(Append(x, e), n + 1) /\ Extends(Append(x, e), x, n, e)
  <1>1. PICK S : x \in Seq(S) BY SeqIs DEF IsSeq
  <1>2. PICK U : U = S \union {e} OBVIOUS
  <1>3. x \in Seq(U) /\ e \in U BY <1>1, <1>2, SeqMonotonic
  <1>4. /\ Append(x, e) \in Seq(U) /\ Len(Append(x, e)) = Len(x) + 1
        /\ \A i \in 1 .. Len(x) : Append(x, e)[i] = x[i]
        /\ Append(x, e)[Len(x) + 1] = e
    BY <1>3, AppendProperties
  <1>5. Len(x) = n BY DEF IsSeq
  <1>6. IsSeq(Append(x, e), n + 1) BY <1>4, <1>5, SeqOfType
  <1> QED BY <1>4, <1>5, <1>6 DEF Extends

(* The elements of a sequence without its first i.                           *)
LEMMA RestIs ==
  ASSUME NEW n \in Nat, NEW x, IsSeq(x, n), NEW i \in 1 .. n
  PROVE  /\ IsSeq(SubSeq(x, i + 1, Len(x)), n - i)
         /\ \A j \in 1 .. n - i : SubSeq(x, i + 1, Len(x))[j] = x[i + j]
  <1>1. PICK S : x \in Seq(S) BY SeqIs DEF IsSeq
  <1>2. Len(x) = n BY DEF IsSeq
  <1>0. PICK a \in Nat : a = i + 1 OBVIOUS
  <1>3. PICK y : y = SubSeq(x, a, n) OBVIOUS
  <1>4. \A j \in a .. n : x[j] \in S
    <2>1. x \in [1 .. n -> S] BY <1>1, <1>2, LenProperties
    <2> QED BY <1>0, <2>1
  <1>5. /\ y \in Seq(S) /\ Len(y) = IF a <= n THEN n - a + 1 ELSE 0
        /\ \A j \in 1 .. n - a + 1 : y[j] = x[a + j - 1]
    BY <1>3, <1>4, SubSeqProperties
  <1>6. Len(y) = n - i BY <1>0, <1>5
  <1>7. IsSeq(y, n - i) BY <1>5, <1>6, SeqOfType
  <1>8. \A j \in 1 .. n - i : y[j] = x[i + j]
    <2> TAKE j \in 1 .. n - i
    <2>1. j \in 1 .. n - a + 1 /\ a + j - 1 = i + j BY <1>0
    <2> QED BY <1>5, <2>1
  <1> QED BY <1>2, <1>3, <1>0, <1>7, <1>8

(* The bytes of a sample, in order.                                          *)
LEMMA SampleIs ==
  ASSUME NEW k, NEW i, NEW n \in Nat
  PROVE  IsSeq(Sample(k, i, n), n) /\ \A j \in 1 .. n : Sample(k, i, n)[j] = 10 * k + i + j - 1
  <1>1. PICK x : x = Sample(k, i, n) OBVIOUS
  <1>2. x = [j \in 1 .. n |-> 10 * k + i + j - 1] BY <1>1 DEF Sample
  <1>3. \A j \in 1 .. n : x[j] = 10 * k + i + j - 1 BY <1>2
  <1>4. x = [j \in 1 .. n |-> x[j]] BY <1>2
  <1> QED BY <1>1, <1>3, <1>4, SeqIs

(* The bytes of a buffer are those of its ring, in order.                    *)
LEMMA BytesIs ==
  ASSUME NEW d, NEW b, NEW n \in Nat
  PROVE  /\ IsSeq(Bytes(d, b, n), n)
         /\ \A j \in 1 .. n : Bytes(d, b, n)[j] = d.arenas[b[1]].ring[b[2] + j - 1]
  <1>1. PICK x : x = Bytes(d, b, n) OBVIOUS
  <1>2. x = [j \in 1 .. n |-> d.arenas[b[1]].ring[b[2] + j - 1]] BY <1>1 DEF Bytes
  <1>3. \A j \in 1 .. n : x[j] = d.arenas[b[1]].ring[b[2] + j - 1] BY <1>2
  <1>4. x = [j \in 1 .. n |-> x[j]] BY <1>2
  <1> QED BY <1>1, <1>3, <1>4, SeqIs

(* A sample is its first n bytes and those that follow.                      *)
LEMMA SampleSplits ==
  ASSUME NEW k \in Nat, NEW n \in Nat, NEW m \in Nat
  PROVE  Sample(k, 0, n) \o Sample(k, n, m) = Sample(k, 0, n + m)
  <1>0. PICK l \in Nat : l = n + m OBVIOUS
  <1>1. PICK x, y, z : x = Sample(k, 0, n) /\ y = Sample(k, n, m) /\ z = Sample(k, 0, l) OBVIOUS
  <1>2. IsSeq(x, n) /\ \A j \in 1 .. n : x[j] = 10 * k + 0 + j - 1 BY <1>1, SampleIs
  <1>3. IsSeq(y, m) /\ \A j \in 1 .. m : y[j] = 10 * k + n + j - 1 BY <1>1, SampleIs
  <1>4. IsSeq(z, l) /\ \A j \in 1 .. l : z[j] = 10 * k + 0 + j - 1 BY <1>1, SampleIs
  <1>5. PICK w : w = x \o y OBVIOUS
  <1>6. Joins(w, x, n, y, l) BY <1>0, <1>2, <1>3, <1>5, ConcatIs
  <1>7. ASSUME NEW i \in 1 .. l PROVE w[i] = z[i]
    <2>0. /\ w[i] = IF i <= n THEN x[i] ELSE y[i - n]
          /\ z[i] = 10 * k + 0 + i - 1
      BY <1>4, <1>6 DEF Joins
    <2>1. CASE i <= n
      <3>1. i \in 1 .. n BY <2>1
      <3> QED BY <1>2, <2>0, <2>1, <3>1
    <2>2. CASE ~(i <= n)
      <3>1. i - n \in 1 .. m BY <1>0, <2>2
      <3>2. y[i - n] = 10 * k + n + (i - n) - 1 BY <1>3, <3>1
      <3>3. 10 * k + n + (i - n) - 1 = 10 * k + 0 + i - 1 OBVIOUS
      <3> QED BY <2>0, <2>2, <3>2, <3>3
    <2> QED BY <2>1, <2>2
  <1>8. IsSeq(w, l) BY <1>6 DEF Joins
  <1>9. w = z BY <1>4, <1>7, <1>8, SeqSame
  <1> QED BY <1>0, <1>1, <1>5, <1>9

(* A buffer is its first m bytes and those that follow.                      *)
LEMMA BytesSplit ==
  ASSUME NEW d, NEW b, NEW n \in Nat, NEW m \in 0 .. n, NEW off \in Int, b = <<b[1], off>>
  PROVE  Bytes(d, b, m) \o Bytes(d, <<b[1], b[2] + m>>, n - m) = Bytes(d, b, n)
  <1>0. PICK l \in Nat : l = n - m OBVIOUS
  <1>1. PICK x, y, z, c : /\ x = Bytes(d, b, m) /\ y = Bytes(d, c, l) /\ z = Bytes(d, b, n)
                          /\ c = <<b[1], off + m>>
    OBVIOUS
  <1>2. b[2] = off /\ c[1] = b[1] /\ c[2] = off + m /\ m \in Nat BY <1>1
  <1>3. IsSeq(x, m) /\ \A j \in 1 .. m : x[j] = d.arenas[b[1]].ring[off + j - 1] BY <1>1, <1>2, BytesIs
  <1>4. IsSeq(y, l) /\ \A j \in 1 .. l : y[j] = d.arenas[b[1]].ring[(off + m) + j - 1] BY <1>1, <1>2, BytesIs
  <1>5. IsSeq(z, n) /\ \A j \in 1 .. n : z[j] = d.arenas[b[1]].ring[off + j - 1] BY <1>1, <1>2, BytesIs
  <1>6. PICK w : w = x \o y OBVIOUS
  <1>7. n = m + l BY <1>0
  <1>8. Joins(w, x, m, y, n) BY <1>2, <1>3, <1>4, <1>6, <1>7, ConcatIs
  <1>9. ASSUME NEW i \in 1 .. n PROVE w[i] = z[i]
    <2>0. /\ w[i] = IF i <= m THEN x[i] ELSE y[i - m]
          /\ z[i] = d.arenas[b[1]].ring[off + i - 1]
      BY <1>5, <1>8 DEF Joins
    <2>1. CASE i <= m
      <3>1. i \in 1 .. m BY <2>1
      <3> QED BY <1>3, <2>0, <2>1, <3>1
    <2>2. CASE ~(i <= m)
      <3>1. i - m \in 1 .. l BY <1>0, <2>2
      <3>2. y[i - m] = d.arenas[b[1]].ring[(off + m) + (i - m) - 1] BY <1>4, <3>1
      <3>3. (off + m) + (i - m) - 1 = off + i - 1 BY <1>2
      <3> QED BY <2>0, <2>2, <3>2, <3>3
    <2> QED BY <2>1, <2>2
  <1>10. IsSeq(w, n) BY <1>8 DEF Joins
  <1>11. w = z BY <1>5, <1>9, <1>10, SeqSame
  <1> QED BY <1>0, <1>1, <1>2, <1>6, <1>11

-----------------------------------------------------------------------------
(* The steps of the specification. *)

LiveInv ==
  /\ IsSeq(live, Len(live)) /\ Len(live) \in Nat /\ begun \in Nat
  /\ LiveQueue(data, live, Len(live), begun)

(* What the codec finds behind its pointers, as FrameFifo sees it.           *)
FramesOf(d, f) == [i \in DOMAIN f |-> Held(d, f[i])]

(* The frames are a sequence as long as that of the pointers.                *)
LEMMA FramesAre ==
  ASSUME NEW d, NEW f, NEW n \in Nat, IsSeq(f, n)
  PROVE  IsSeq(FramesOf(d, f), n) /\ \A i \in 1 .. n : FramesOf(d, f)[i] = Held(d, f[i])
  <1>1. PICK F : F = FramesOf(d, f) OBVIOUS
  <1>2. DOMAIN f = 1 .. n BY DEF IsSeq
  <1>3. F = [i \in 1 .. n |-> Held(d, f[i])] BY <1>1, <1>2 DEF FramesOf
  <1>4. \A i \in 1 .. n : F[i] = Held(d, f[i]) BY <1>3
  <1>5. F = [i \in 1 .. n |-> F[i]] BY <1>3
  <1> QED BY <1>1, <1>4, <1>5, SeqIs

\* G is F and the element e.
Grown(F, G, e, n) == G # <<>> /\ G = Append(F, e) /\ Len(G) = n + 1 /\ G[n + 1] = e

(* A frame that is begun is the newest one of the sequence.                  *)
LEMMA FramesGrow ==
  ASSUME NEW d, NEW q, NEW f, NEW n \in Nat, IsSeq(f, n), NEW t, NEW k, NEW x, Begins(d, q, f, n, t, k, x)
  PROVE  Grown(FramesOf(d, f), FramesOf(q, Append(f, t)), [number |-> k, bytes |-> x], n)
  <1> DEFINE e == [number |-> k, bytes |-> x]
  <1>1. PICK g, F, G, H : /\ g = Append(f, t) /\ F = FramesOf(d, f) /\ G = FramesOf(q, g)
                          /\ H = Append(F, e)
    OBVIOUS
  <1>2. PICK m \in Nat : m = n + 1 OBVIOUS
  <1>3. IsSeq(g, m) /\ Extends(g, f, n, t) BY <1>1, <1>2, AppendIs
  <1>4. IsSeq(F, n) /\ \A i \in 1 .. n : F[i] = Held(d, f[i]) BY <1>1, FramesAre
  <1>5. IsSeq(G, m) /\ \A i \in 1 .. m : G[i] = Held(q, g[i]) BY <1>1, <1>2, <1>3, FramesAre
  <1>6. IsSeq(H, m) /\ Extends(H, F, n, e)
    <2> HIDE DEF e
    <2> QED BY <1>1, <1>2, <1>4, AppendIs
  <1>7. ASSUME NEW i \in 1 .. m PROVE G[i] = H[i]
    <2>1. CASE i \in 1 .. n
      <3>1. g[i] = f[i] /\ H[i] = F[i] BY <1>3, <1>6, <2>1 DEF Extends
      <3>2. Held(q, f[i]) = Held(d, f[i]) BY <2>1 DEF Begins, HoldsBut
      <3> QED BY <1>4, <1>5, <2>1, <3>1, <3>2
    <2>2. CASE i = n + 1
      <3>1. g[i] = t /\ H[i] = e BY <1>3, <1>6, <2>2 DEF Extends
      <3>2. Held(q, t) = e BY DEF Begins
      <3> QED BY <1>5, <3>1, <3>2
    <2> QED BY <1>2, <2>1, <2>2
  <1>8. G = H BY <1>5, <1>6, <1>7, SeqSame
  <1>9. G[n + 1] = e BY <1>6, <1>8 DEF Extends
  <1>10. Len(G) = m BY <1>5 DEF IsSeq
  <1>11. G # <<>>
    <2>1. Len(<<>>) = 0 BY EmptySeq
    <2> QED BY <1>2, <1>10, <2>1
  <1> QED BY <1>1, <1>2, <1>8, <1>9, <1>10, <1>11 DEF Grown

After(x, i) == SubSeq(x, i + 1, Len(x))

(* The frames behind the pointers that are left.                             *)
LEMMA FramesLeft ==
  ASSUME NEW d, NEW q, NEW f, NEW n \in Nat, IsSeq(f, n), NEW i \in 1 .. n, NEW h,
         h = After(f, i), HoldsRest(d, q, f, h, n, i)
  PROVE  FramesOf(q, h) = After(FramesOf(d, f), i)
  <1>0. PICK F : F = FramesOf(d, f) OBVIOUS
  <1>1. PICK m \in Nat : m = n - i OBVIOUS
  <1>2. PICK G, H : G = FramesOf(q, h) /\ H = After(F, i) OBVIOUS
  <1>3. IsSeq(h, m) BY <1>1, RestIs DEF After
  <1>4. IsSeq(F, n) /\ \A j \in 1 .. n : F[j] = Held(d, f[j]) BY <1>0, FramesAre
  <1>5. IsSeq(G, m) /\ \A j \in 1 .. m : G[j] = Held(q, h[j]) BY <1>2, <1>3, FramesAre
  <1>6. IsSeq(H, m) /\ \A j \in 1 .. m : H[j] = F[i + j] BY <1>1, <1>2, <1>4, RestIs DEF After
  <1>7. ASSUME NEW j \in 1 .. m PROVE G[j] = H[j]
    <2>1. i + j \in 1 .. n BY <1>1
    <2>2. Held(q, h[j]) = Held(d, f[i + j]) BY <1>1 DEF HoldsRest
    <2> QED BY <1>4, <1>5, <1>6, <2>1, <2>2
  <1>8. G = H BY <1>5, <1>6, <1>7, SeqSame
  <1> QED BY <1>0, <1>2, <1>8

(* The frames of a queue that holds the same ones.                           *)
LEMMA FramesSame ==
  ASSUME NEW d, NEW q, NEW f, NEW n \in Nat, IsSeq(f, n), HoldsSame(d, q, f, n)
  PROVE  FramesOf(q, f) = FramesOf(d, f)
  <1>1. PICK F, G : F = FramesOf(d, f) /\ G = FramesOf(q, f) OBVIOUS
  <1>2. IsSeq(F, n) /\ \A i \in 1 .. n : F[i] = Held(d, f[i]) BY <1>1, FramesAre
  <1>3. IsSeq(G, n) /\ \A i \in 1 .. n : G[i] = Held(q, f[i]) BY <1>1, FramesAre
  <1>4. \A i \in 1 .. n : F[i] = G[i] BY <1>2, <1>3 DEF HoldsSame
  <1>5. F = G BY <1>2, <1>3, <1>4, SeqSame
  <1> QED BY <1>1, <1>5

(* The empty queue.                                                          *)
LEMMA LiveBegins ==
  ASSUME Init
  PROVE  LiveInv /\ Queue!Init
  <1>1. /\ Slots \in Nat /\ Slots >= 2 /\ RingBytes \in Nat /\ RingBytes > PADDING /\ PADDING \in Nat
    BY SetupAssumption
  <1>2. data = FFusionDataSetup(Slots, RingBytes) /\ live = <<>> /\ begun = 0 BY DEF Init
  <1>3. PICK r : r = Arena(Slots, RingBytes) OBVIOUS
  <1>4. /\ ArenaType(r) /\ r.frameSize = Slots /\ r.frameRead = 0 /\ r.frameWrite = 0
        /\ r.ringSize = RingBytes /\ r.ringRead = 0 /\ r.ringWrite = 0
        /\ \A s \in DOMAIN r.frames : r.frames[s].frameNumber = 0
    BY <1>1, <1>3, ArenaIs
  <1>5. PICK v : v = NoUnparsed OBVIOUS
  <1>6. /\ data.cur = 0 /\ data.unparsed = v /\ data.arenas = [a \in {0} |-> r]
        /\ data \in [arenas : {data.arenas}, cur : Nat, unparsed : {data.unparsed}]
    BY <1>2, <1>3, <1>5 DEF FFusionDataSetup
  <1>7. v.dataSize = 0 /\ v \in [buffer : {v.buffer}, dataSize : Nat] BY <1>5 DEF NoUnparsed
  <1>8. DOMAIN data.arenas = {0} /\ data.arenas[0] = r BY <1>6
  <1>9. DataType(data) BY <1>4, <1>6, <1>7, <1>8 DEF DataType
  <1>10. SlotsInv(data, live, 0)
    <2>1. \A i \in 1 .. 0 : FALSE OBVIOUS
    <2> QED BY <2>1 DEF SlotsInv
  <1>11. HomesInv(data, live, 0) BY DEF HomesInv
  <1>12. RingInv(data, live, 0, 0)
    <2>1. Cur(data) = r BY <1>6, <1>8 DEF Cur
    <2>2. \A i \in 1 .. 0 : FALSE OBVIOUS
    <2>3. r.ringWrite - 0 = 0 BY <1>4
    <2> QED BY <1>1, <1>4, <2>1, <2>2, <2>3 DEF RingInv
  <1>13. QueueInv(data, live, 0, data.unparsed.dataSize) BY <1>6, <1>7, <1>9, <1>10, <1>11, <1>12 DEF QueueInv
  <1>14. NumbersInv(data, live, 0, begun) BY DEF NumbersInv
  <1>15. UniqueInv(data, begun) /\ UnparsedInv(data)
    <2>1. \A a, s : NumberAt(data, a, s) = 0 BY <1>4, <1>8 DEF NumberAt
    <2>2. UniqueInv(data, begun) BY <1>2, <2>1 DEF UniqueInv
    <2> QED BY <1>6, <1>7, <2>2 DEF UnparsedInv
  <1>16. Len(live) = 0 BY <1>2, EmptySeq
  <1>17. IsSeq(live, 0)
    <2>1. live \in Seq({}) BY <1>2, EmptySeq
    <2> QED BY <1>16, <2>1, SeqOfType
  <1>18. LiveInv BY <1>2, <1>13, <1>14, <1>15, <1>16, <1>17 DEF LiveInv, LiveQueue
  <1>19. Unparsed(data) = <<>> BY <1>6, <1>7 DEF Unparsed
  <1>20. Queue!Init
    <2>1. DOMAIN live = {} BY <1>17 DEF IsSeq
    <2>2. FramesOf(data, live) = <<>>
      <3>1. PICK F : F = FramesOf(data, live) OBVIOUS
      <3>2. IsSeq(F, 0) BY <1>17, <3>1, FramesAre
      <3>3. \A i \in 1 .. 0 : F[i] = live[i] OBVIOUS
      <3>4. F = live BY <1>17, <3>2, <3>3, SeqSame
      <3> QED BY <1>2, <3>1, <3>4
    <2> QED BY <1>19, <2>2 DEF Queue!Init, FramesOf, Held
  <1> QED BY <1>18, <1>20

(* BeginBand of a frame from the caller's own data.                          *)
LEMMA FreshIsFresh ==
  ASSUME LiveInv, NEW n \in Sizes, NEW more \in RestSizes, NEW key \in BOOLEAN,
         BeginFresh(n, more, key)
  PROVE  LiveInv' /\ Queue!BeginFresh
  <1>1. n \in Nat /\ n > 0 /\ more \in Nat BY SetupAssumption
  <1>2. PICK d, q, f, g, l, k, t, x, y :
          /\ d = data /\ q = data' /\ f = live /\ g = live' /\ l = Len(live) /\ k = begun /\ t = AppendTarget(data)
          /\ x = Sample(begun + 1, 0, n) /\ y = Sample(begun + 1, n, more)
    OBVIOUS
  <1>3. IsSeq(f, l) /\ l \in Nat /\ k \in Nat /\ LiveQueue(d, f, l, k) BY <1>2 DEF LiveInv
  <1>4. /\ d.unparsed.dataSize = 0 /\ l < MaxLive
        /\ q = Store(Begin(NULL, x, key), NULL, y)
        /\ g = Append(f, t) /\ begun' = k + 1
    BY <1>2 DEF BeginFresh, Began
  <1>5. IsSeq(x, n) /\ IsSeq(y, more) BY <1>1, <1>2, SampleIs
  <1>6. PICK e, p, type : e = Begin(NULL, x, key) /\ BeginsWith(d, e, NULL, x, type, k + 1, p)
    <2>1. PICK e, p, type : /\ e = Begin(NULL, x, key) /\ type = IF key THEN "I" ELSE "P"
                            /\ p = IF key \/ live = <<>> THEN NULL ELSE live[Len(live)]
      OBVIOUS
    <2>2. e = Marked(FFusionDataAppend(data, NULL, x, type), AppendTarget(data), begun + 1, p)
      BY <2>1 DEF Begin, Marked
    <2>3. BeginsWith(d, e, NULL, x, type, k + 1, p) BY <1>2, <2>2 DEF BeginsWith
    <2> QED BY <2>1, <2>3
  <1>7. q = Store(e, NULL, y) BY <1>4, <1>6
  <1>8. IsSeq(g, l + 1) /\ Extends(g, f, l, t) BY <1>3, <1>4, AppendIs
  <1>9. t = AppendTarget(d) /\ l < Slots BY <1>2, <1>3, <1>4, SetupAssumption
  <1>10. HasBegun(d, q, f, g, l, t, k + 1, x, y)
    BY ONLY <1>1, <1>3, <1>4, <1>5, <1>6, <1>7, <1>8, <1>9, FreshStep
  <1>11. LiveQueue(q, g, l + 1, k + 1) /\ Begins(d, q, f, l, t, k + 1, x) /\ Unparsed(q) = y
    BY <1>10 DEF HasBegun
  <1>12. Len(g) = l + 1 BY <1>8 DEF IsSeq
  <1>13. LiveInv' BY <1>2, <1>3, <1>4, <1>8, <1>11, <1>12 DEF LiveInv
  <1>14. PICK F, G : F = FramesOf(d, f) /\ G = FramesOf(q, g) OBVIOUS
  <1>15. Grown(F, G, [number |-> k + 1, bytes |-> x], l) BY <1>3, <1>4, <1>11, <1>14, FramesGrow
  <1>16. G # <<>> /\ G = Append(F, G[Len(G)]) /\ G[Len(G)].bytes = x /\ G[Len(G)].number = k + 1
    BY <1>15 DEF Grown
  <1>17. Unparsed(d) = <<>> BY <1>4 DEF Unparsed
  <1>18. x \o y = Sample(k + 1, 0, Len(x) + Len(y))
    <2>1. Len(x) = n /\ Len(y) = more BY <1>5 DEF IsSeq
    <2>2. x \o y = Sample(k + 1, 0, n + more)
      <3>1. PICK K \in Nat : K = k + 1 BY <1>3
      <3>2. x = Sample(K, 0, n) /\ y = Sample(K, n, more) BY <1>2, <3>1
      <3>3. x \o y = Sample(K, 0, n + more) BY ONLY <1>1, <3>2, SampleSplits
      <3> QED BY <3>1, <3>3
    <2> QED BY <2>1, <2>2
  <1>19. F = FramesOf(data, live) /\ G = FramesOf(data, live)' BY <1>2, <1>14
  <1>20. Unparsed(data) = <<>> /\ Unparsed(data)' = y BY <1>2, <1>11, <1>17
  <1>21. Queue!Grows BY Zenon, <1>16, <1>19 DEF Queue!Grows, Queue!newest, FramesOf, Held
  <1>22. /\ Queue!newest = G[Len(G)] BY <1>19 DEF Queue!newest, FramesOf, Held
  <1> HIDE DEF Queue!Grows, Queue!newest
  <1> QED BY <1>13, <1>16, <1>18, <1>20, <1>21, <1>22 DEF Queue!BeginFresh

(* BeginBand of a frame from the unparsed bytes.                             *)
LEMMA UnparsedIsUnparsed ==
  ASSUME LiveInv, NEW n \in Sizes, NEW key \in BOOLEAN, BeginUnparsed(n, key)
  PROVE  LiveInv' /\ Queue!BeginUnparsed
  <1>1. n \in Nat /\ n > 0 BY SetupAssumption
  <1>2. PICK d, q, f, g, l, k, t :
          /\ d = data /\ q = data' /\ f = live /\ g = live' /\ l = Len(live) /\ k = begun /\ t = AppendTarget(data)
    OBVIOUS
  <1>3. IsSeq(f, l) /\ l \in Nat /\ k \in Nat /\ LiveQueue(d, f, l, k) BY <1>2 DEF LiveInv
  <1>4. PICK u, b, c, x, y :
          /\ u = d.unparsed.dataSize /\ b = d.unparsed.buffer /\ c = <<b[1], b[2] + n>>
          /\ x = Bytes(d, b, n) /\ y = Bytes(d, c, u - n)
    OBVIOUS
  <1>5. u \in Nat BY <1>3, <1>4 DEF LiveQueue, QueueInv, DataType
  <1>6. /\ n <= u /\ l < MaxLive /\ q = Store(Begin(b, x, key), c, y) /\ g = Append(f, t) /\ begun' = k + 1
    BY <1>2, <1>4 DEF BeginUnparsed, Began
  <1>7. n \in 1 .. u /\ u - n \in Nat /\ u > 0 BY <1>1, <1>5, <1>6
  <1>8. IsSeq(x, n) /\ IsSeq(y, u - n) BY <1>1, <1>4, <1>7, BytesIs
  <1>9. PICK e, p, type : e = Begin(b, x, key) /\ BeginsWith(d, e, b, x, type, k + 1, p)
    <2>1. PICK e, p, type : /\ e = Begin(b, x, key) /\ type = IF key THEN "I" ELSE "P"
                            /\ p = IF key \/ live = <<>> THEN NULL ELSE live[Len(live)]
      OBVIOUS
    <2>2. e = Marked(FFusionDataAppend(data, b, x, type), AppendTarget(data), begun + 1, p)
      BY <2>1 DEF Begin, Marked
    <2>3. BeginsWith(d, e, b, x, type, k + 1, p) BY <1>2, <2>2 DEF BeginsWith
    <2> QED BY <2>1, <2>3
  <1>10. q = Store(e, c, y) BY <1>6, <1>9
  <1>11. IsSeq(g, l + 1) /\ Extends(g, f, l, t) BY <1>3, <1>6, AppendIs
  <1>12. t = AppendTarget(d) /\ l < Slots BY <1>2, <1>3, <1>6, SetupAssumption
  <1>13. HasBegun(d, q, f, g, l, t, k + 1, x, y)
    BY ONLY <1>1, <1>3, <1>4, <1>5, <1>7, <1>8, <1>9, <1>10, <1>11, <1>12, UnparsedStep
  <1>14. LiveQueue(q, g, l + 1, k + 1) /\ Begins(d, q, f, l, t, k + 1, x) /\ Unparsed(q) = y
    BY <1>13 DEF HasBegun
  <1>15. Len(g) = l + 1 BY <1>11 DEF IsSeq
  <1>16. LiveInv' BY <1>2, <1>3, <1>6, <1>11, <1>14, <1>15 DEF LiveInv
  <1>17. PICK F, G : F = FramesOf(d, f) /\ G = FramesOf(q, g) OBVIOUS
  <1>18. Grown(F, G, [number |-> k + 1, bytes |-> x], l) BY <1>3, <1>6, <1>14, <1>17, FramesGrow
  <1>19. G # <<>> /\ G = Append(F, G[Len(G)]) /\ G[Len(G)].bytes = x BY <1>18 DEF Grown
  <1>20. Unparsed(d) = x \o y
    <2>1. b = <<d.cur, Cur(d).ringWrite - u>> BY <1>3, <1>4, <1>7 DEF LiveQueue, UnparsedInv, Newest
    <2>2. Cur(d).ringWrite \in Nat BY <1>3 DEF LiveQueue, QueueInv, DataType, ArenaType, Cur
    <2>3. PICK off \in Int : off = Cur(d).ringWrite - u BY <1>5, <2>2
    <2>4. b = <<b[1], off>> /\ n \in 0 .. u BY <1>7, <2>1, <2>3
    <2>5. x \o y = Bytes(d, b, u) BY <1>4, <1>5, <2>4, BytesSplit
    <2>6. u # 0 BY <1>7
    <2>7. Unparsed(d) = Bytes(d, b, u) BY <1>4, <2>6 DEF Unparsed
    <2> QED BY <2>5, <2>7
  <1>21. F = FramesOf(data, live) /\ G = FramesOf(data, live)' BY <1>2, <1>17
  <1>22. Unparsed(data) = x \o y /\ Unparsed(data)' = y BY <1>2, <1>14, <1>20
  <1>23. Queue!Grows BY Zenon, <1>19, <1>21 DEF Queue!Grows, Queue!newest, FramesOf, Held
  <1>24. Queue!newest = G[Len(G)] BY <1>21 DEF Queue!newest, FramesOf, Held
  <1> HIDE DEF Queue!Grows, Queue!newest
  <1> QED BY <1>16, <1>19, <1>22, <1>23, <1>24 DEF Queue!BeginUnparsed

\* The frame f[i] and those before it are given up; h are the pointers left.
Retires(d, q, f, h, i, k) ==
  /\ IsSeq(h, Len(h)) /\ Len(h) \in Nat /\ LiveQueue(q, h, Len(h), k) /\ Unparsed(q) = Unparsed(d)
  /\ i \in 1 .. Len(FramesOf(d, f))
  /\ FramesOf(q, h) = SubSeq(FramesOf(d, f), i + 1, Len(FramesOf(d, f)))

(* A frame is marked read that has no prerequisite.                          *)
LEMMA MarkReadStep ==
  ASSUME NEW d, NEW f, NEW l \in Nat, IsSeq(f, l), NEW k \in Nat, LiveQueue(d, f, l, k), NEW i \in 1 .. l,
         Frame(d, f[i]).prereqFrame = NULL, NEW q, q = FFusionDataMarkRead(d, f[i]), NEW h, h = SubSeq(f, i + 1, Len(f))
  PROVE  Retires(d, q, f, h, i, k)
  <1>1. IsSeq(h, l - i) /\ Drops(h, f, l, i) BY RestIs DEF Drops
  <1>2. LiveQueue(q, h, l - i, k) /\ HoldsRest(d, q, f, h, l, i) /\ Unparsed(q) = Unparsed(d)
    BY <1>1, MarkReadKeeps
  <1>3. Len(h) = l - i /\ l - i \in Nat BY <1>1 DEF IsSeq
  <1>4. PICK F : F = FramesOf(d, f) OBVIOUS
  <1>5. FramesOf(q, h) = SubSeq(F, i + 1, Len(F))
    <2>1. h = After(f, i) BY DEF After
    <2>2. HoldsRest(d, q, f, h, l, i) BY <1>2
    <2>3. IsSeq(f, l) OBVIOUS
    <2>4. FramesOf(q, h) = After(FramesOf(d, f), i) BY ONLY <2>1, <2>2, <2>3, FramesLeft
    <2> QED BY <1>4, <2>4 DEF After
  <1>6. IsSeq(F, l) BY <1>4, FramesAre
  <1>7. Len(F) = l BY <1>6 DEF IsSeq
  <1> QED BY <1>1, <1>2, <1>3, <1>4, <1>5, <1>7 DEF Retires

(* DecodeBand marks a frame read.                                            *)
LEMMA MarkReadRetires ==
  ASSUME LiveInv, NEW i \in 1 .. Len(live), MarkRead(i)
  PROVE  LiveInv' /\ [Queue!Next]_Queue!vars
  <1>1. CASE Frame(data, live[i]).prereqFrame # NULL
    <2>1. data' = data /\ live' = live /\ begun' = begun BY <1>1 DEF MarkRead, FFusionDataMarkRead
    <2> QED BY <2>1 DEF LiveInv, Queue!vars
  <1>2. CASE Frame(data, live[i]).prereqFrame = NULL
    <2>1. PICK d, q, f, h, l, k :
            d = data /\ q = data' /\ f = live /\ h = live' /\ l = Len(live) /\ k = begun
      OBVIOUS
    <2>2. IsSeq(f, l) /\ l \in Nat /\ k \in Nat /\ LiveQueue(d, f, l, k) /\ i \in 1 .. l BY <2>1 DEF LiveInv
    <2>3. /\ q = FFusionDataMarkRead(d, f[i])
          /\ h = SubSeq(f, i + 1, Len(f)) /\ begun' = k /\ Frame(d, f[i]).prereqFrame = NULL
      BY <1>2, <2>1 DEF MarkRead
    <2>4. Retires(d, q, f, h, i, k) BY ONLY <2>2, <2>3, MarkReadStep
    <2>5. /\ IsSeq(h, Len(h)) /\ Len(h) \in Nat /\ LiveQueue(q, h, Len(h), k) /\ Unparsed(q) = Unparsed(d)
          /\ i \in 1 .. Len(FramesOf(d, f))
          /\ FramesOf(q, h) = SubSeq(FramesOf(d, f), i + 1, Len(FramesOf(d, f)))
      BY <2>4 DEF Retires
    <2>6. LiveInv' BY <2>1, <2>2, <2>3, <2>5 DEF LiveInv
    <2>7. PICK F, G : F = FramesOf(d, f) /\ G = FramesOf(q, h) OBVIOUS
    <2>8. F = FramesOf(data, live) /\ G = FramesOf(data, live)' /\ Unparsed(data)' = Unparsed(data)
      BY <2>1, <2>5, <2>7
    <2>9. i \in 1 .. Len(F) /\ G = SubSeq(F, i + 1, Len(F)) BY <2>5, <2>7
    <2>10. Queue!Retire BY <2>8, <2>9 DEF Queue!Retire, FramesOf, Held
    <2> QED BY <2>6, <2>10 DEF Queue!Next
  <1> QED BY <1>1, <1>2

(* A seek drops the unparsed bytes.                                          *)
LEMMA DropForgets ==
  ASSUME LiveInv, DropUnparsed
  PROVE  LiveInv' /\ Queue!Forget
  <1>1. PICK d, q, f, l, k : d = data /\ q = data' /\ f = live /\ l = Len(live) /\ k = begun OBVIOUS
  <1>2. IsSeq(f, l) /\ l \in Nat /\ k \in Nat /\ LiveQueue(d, f, l, k) BY <1>1 DEF LiveInv
  <1>3. q = FFusionDataReadUnparsed(d) /\ live' = f /\ begun' = k BY <1>1 DEF DropUnparsed
  <1>4. QueueInv(d, f, l, d.unparsed.dataSize) /\ NumbersInv(d, f, l, k) BY <1>2 DEF LiveQueue
  <1>5. QueueInv(q, f, l, 0) /\ HoldsSame(d, q, f, l) /\ q.unparsed.dataSize = 0
    BY <1>2, <1>3, <1>4, ReadUnparsedKeeps
  <1>6. \A i \in 1 .. l : Frame(q, f[i]).frameNumber = Frame(d, f[i]).frameNumber
    <2>1. \A i \in 1 .. l : Held(q, f[i]) = Held(d, f[i]) BY ONLY <1>5 DEF HoldsSame
    <2> TAKE i \in 1 .. l
    <2>2. Held(q, f[i]) = Held(d, f[i]) BY <2>1
    <2> QED BY ONLY <2>2 DEF Held
  <1>7. NumbersInv(q, f, l, k) BY <1>4, <1>6 DEF NumbersInv
  <1>8. UniqueInv(q, k) /\ UnparsedInv(q)
    <2>1. SameNumbers(d, q) BY <1>5 DEF HoldsSame
    <2>2. UniqueInv(d, k) BY <1>2 DEF LiveQueue
    <2>3. UniqueInv(q, k) BY <1>2, <2>1, <2>2, UniqueStays
    <2> QED BY <1>5, <2>3 DEF UnparsedInv
  <1>9. LiveQueue(q, f, l, k) BY <1>5, <1>7, <1>8 DEF LiveQueue
  <1>10. LiveInv' BY <1>1, <1>2, <1>3, <1>9 DEF LiveInv
  <1>11. FramesOf(q, f) = FramesOf(d, f) BY <1>2, <1>5, FramesSame
  <1>12. FramesOf(data, live)' = FramesOf(data, live) BY <1>1, <1>3, <1>11
  <1>13. Unparsed(data)' = <<>> BY <1>1, <1>5 DEF Unparsed
  <1>14. Queue!Forget BY <1>12, <1>13 DEF Queue!Forget, FramesOf, Held
  <1> QED BY <1>10, <1>14

(* Every step of the queue is one of the abstract queue, or none.            *)
LEMMA QueueStep ==
  ASSUME LiveInv, [Next]_vars
  PROVE  LiveInv' /\ [Queue!Next]_Queue!vars
  <1>1. ASSUME NEW n \in Sizes, NEW more \in RestSizes, NEW key \in BOOLEAN, BeginFresh(n, more, key)
        PROVE  LiveInv' /\ Queue!Next
    BY <1>1, FreshIsFresh DEF Queue!Next
  <1>2. ASSUME NEW n \in Sizes, NEW key \in BOOLEAN, BeginUnparsed(n, key)
        PROVE  LiveInv' /\ Queue!Next
    BY <1>2, UnparsedIsUnparsed DEF Queue!Next
  <1>3. ASSUME NEW i \in 1 .. Len(live), MarkRead(i) PROVE LiveInv' /\ [Queue!Next]_Queue!vars
    BY <1>3, MarkReadRetires
  <1>4. CASE DropUnparsed BY <1>4, DropForgets DEF Queue!Next
  <1>5. CASE UNCHANGED vars
    <2>1. data' = data /\ live' = live /\ begun' = begun BY <1>5 DEF vars
    <2> QED BY <2>1 DEF LiveInv, Queue!vars
  <1> QED BY <1>1, <1>2, <1>3, <1>4, <1>5 DEF Next

(* The arrays and rings are a queue: what BeginBand was told to begin is     *)
(* found, number and bytes, behind its pointer until it is marked read, and  *)
(* what is not parsed yet waits between the frames unchanged, however often  *)
(* the ring wraps and the array, the ring or both expand, also when the last *)
(* slot of an array is marked read and frameRead is then beyond it.          *)
THEOREM FramesAreAQueue == Spec => ImplementsFrameFifo
  <1>1. Init => LiveInv /\ Queue!Init BY LiveBegins
  <1>2. LiveInv /\ [Next]_vars => LiveInv' /\ [Queue!Next]_Queue!vars BY Zenon, QueueStep
  <1> QED BY <1>1, <1>2, PTL DEF Spec, ImplementsFrameFifo, Queue!Spec

-----------------------------------------------------------------------------
(* FFusionDataFind. *)

(* One turn of an array ends where it began.                                 *)
LEMMA TurnIs ==
  ASSUME NEW size \in Nat, size > 0, NEW x \in 0 .. size - 1
  PROVE  x % size = x /\ (x + size) % size = x /\ (size + size) % size = 0
  OBVIOUS

(* FFusionDataFind meets frameWrite, also from beyond the array.             *)
LEMMA VisitsIs ==
  ASSUME NEW r, ArenaType(r)
  PROVE  Visits(r) \in 0 .. r.frameSize
  <1>1. PICK size, o, w : size = r.frameSize /\ o = r.frameRead /\ w = r.frameWrite OBVIOUS
  <1>2. size \in Nat /\ size > 0 /\ o \in 0 .. size /\ w \in 0 .. size - 1
    BY <1>1, SetupAssumption DEF ArenaType
  <1> DEFINE T == {k \in 0 .. size : VisitedAt(r, k) = w}
  <1>3. T # {}
    <2>1. CASE o = w
      <3>1. VisitedAt(r, 0) = w BY <1>1, <2>1 DEF VisitedAt
      <3> QED BY <1>2, <3>1
    <2>2. CASE o < w
      <3>1. PICK k \in 0 .. size : k = w - o /\ k # 0 /\ o + k = w BY <1>2, <2>2
      <3>2. w % size = w BY <1>2, TurnIs
      <3>3. VisitedAt(r, k) = w BY <1>1, <3>1, <3>2 DEF VisitedAt
      <3> QED BY <3>3
    <2>3. CASE o = w + size
      <3>1. w = 0 /\ o = size BY <1>2, <2>3
      <3>2. (size + size) % size = 0 BY <1>2, TurnIs
      <3>3. VisitedAt(r, size) = w BY <1>1, <1>2, <3>1, <3>2 DEF VisitedAt
      <3> QED BY <1>2, <3>3
    <2>4. CASE o > w /\ o # w + size
      <3>1. PICK k \in 0 .. size : k = (w + size) - o /\ k # 0 /\ o + k = w + size
        <4>1. (w + size) - o \in 0 .. size BY <1>2, <2>4
        <4>2. (w + size) - o # 0 /\ o + ((w + size) - o) = w + size BY <1>2, <2>4
        <4> QED BY <4>1, <4>2
      <3>2. (w + size) % size = w BY <1>2, TurnIs
      <3>3. VisitedAt(r, k) = w BY <1>1, <3>1, <3>2 DEF VisitedAt
      <3> QED BY <3>3
    <2>5. o = w \/ o < w \/ o > w BY <1>2
    <2> QED BY <2>1, <2>2, <2>3, <2>4, <2>5
  <1>4. PICK k \in T : \A j \in T : k <= j
    <2>1. T \in SUBSET Nat BY <1>2
    <2> HIDE DEF T
    <2> QED BY <1>3, <2>1, LeastOf
  <1>5. k \in 0 .. size /\ VisitedAt(r, k) = w BY <1>4
  <1>6. \A j \in 0 .. k - 1 : VisitedAt(r, j) # w
    <2> TAKE j \in 0 .. k - 1
    <2>1. j \in 0 .. size /\ ~(k <= j) BY <1>2, <1>5
    <2> QED BY <1>4, <2>1
  <1> QED BY <1>1, <1>5, <1>6 DEF Visits

(* A frame that is found is in one of the slots with the number.             *)
LEMMA FindHas ==
  ASSUME NEW d, DataType(d), NEW number
  PROVE  \/ FFusionDataFind(d, number) = NULL
         \/ \E a, s : /\ FFusionDataFind(d, number) = <<a, s>>
                      /\ a \in DOMAIN d.arenas /\ s \in DOMAIN d.arenas[a].frames
                      /\ d.arenas[a].frames[s].frameNumber = number
  <1> DEFINE found == {a \in DOMAIN d.arenas : Hits(d.arenas[a], number) # {}}
             last == CHOOSE a \in found : \A b \in found : b <= a
  <1>1. CASE found = {} BY <1>1 DEF FFusionDataFind
  <1>2. CASE found # {}
    <2>1. FFusionDataFind(d, number) = FirstHit(d, last, number) BY <1>2 DEF FFusionDataFind
    <2>2. last \in found
      <3>1. d.cur \in Nat /\ found \subseteq 0 .. d.cur BY DEF DataType
      <3> DEFINE T == {d.cur - a : a \in found}
      <3>2. T \in SUBSET Nat /\ T # {} BY <1>2, <3>1
      <3> HIDE DEF found
      <3>3. PICK x \in T : \A y \in T : x <= y
        <4> HIDE DEF T
        <4> QED BY <3>2, LeastOf
      <3>4. PICK a \in found : x = d.cur - a BY <3>3
      <3>5. \A b \in found : b <= a
        <4> TAKE b \in found
        <4>1. d.cur - a <= d.cur - b BY <3>3, <3>4
        <4> QED BY <3>1, <4>1
      <3> QED BY <3>4, <3>5
    <2>3. PICK a, r, hits : a = last /\ r = d.arenas[a] /\ hits = Hits(r, number) OBVIOUS
    <2>4. a \in DOMAIN d.arenas /\ hits # {} /\ ArenaType(r) BY <2>2, <2>3 DEF DataType
    <2>5. Visits(r) \in 0 .. r.frameSize /\ r.frameSize \in Nat BY <2>4, VisitsIs DEF ArenaType
    <2>6. hits \in SUBSET Nat
      <3>1. PICK v \in Nat : v = Visits(r) BY <2>5
      <3>2. hits \subseteq 0 .. v - 1 BY ONLY <2>3, <3>1 DEF Hits
      <3>3. 0 .. v - 1 \subseteq Nat BY ONLY <3>1
      <3> QED BY ONLY <3>2, <3>3
    <2>7. PICK k \in hits : \A j \in hits : k <= j BY <2>4, <2>6, LeastOf
    <2>8. PICK m : m = CHOOSE j \in hits : \A l \in hits : j <= l OBVIOUS
    <2>9. m \in hits BY <2>7, <2>8
    <2> HIDE DEF last, found
    <2>10. FirstHit(d, a, number) = <<a, VisitedAt(r, m)>> BY <2>3, <2>8 DEF FirstHit
    <2>11. VisitedAt(r, m) \in DOMAIN r.frames /\ r.frames[VisitedAt(r, m)].frameNumber = number
      BY <2>3, <2>9 DEF Hits
    <2> QED BY <2>1, <2>3, <2>4, <2>10, <2>11
  <1> QED BY <1>1, <1>2

(* A seek back in the queue never gets another frame in place of one that is *)
(* in use: what FFusionDataFind gives for its number is that frame or NULL.  *)
THEOREM FindNeverGetsAnother == Spec => []FindGetsNoOther
  <1>1. Init => LiveInv BY LiveBegins
  <1>2. LiveInv /\ [Next]_vars => LiveInv' BY Zenon, QueueStep
  <1>3. LiveInv => FindGetsNoOther
    <2> SUFFICES ASSUME LiveInv, NEW i \in DOMAIN live
                 PROVE  FFusionDataFind(data, Frame(data, live[i]).frameNumber) \in {NULL, live[i]}
      BY DEF FindGetsNoOther
    <2>1. PICK n \in Nat : n = Len(live) BY DEF LiveInv
    <2>2. DOMAIN live = 1 .. n /\ LiveQueue(data, live, n, begun) BY <2>1 DEF LiveInv, IsSeq
    <2>3. PICK number, b, t : number = Frame(data, live[i]).frameNumber /\ b = live[i][1] /\ t = live[i][2] OBVIOUS
    <2>4. DataType(data) /\ Pointer(data, live[i]) /\ UniqueInv(data, begun) /\ number \in 1 .. begun
      BY <2>2, <2>3 DEF LiveQueue, QueueInv, SlotsInv, NumbersInv
    <2>5. live[i] = <<b, t>> BY <2>3, <2>4 DEF Pointer
    <2>6. b \in DOMAIN data.arenas /\ t \in DOMAIN data.arenas[b].frames BY <2>3, <2>4, PointerIsFrame
    <2>7. NumberAt(data, b, t) = number /\ number # 0
      <3>1. NumberAt(data, b, t) = data.arenas[b].frames[t].frameNumber BY <2>6 DEF NumberAt
      <3> QED BY <2>3, <2>4, <3>1 DEF Frame
    <2>8. CASE FFusionDataFind(data, number) = NULL BY <2>3, <2>8
    <2>9. ASSUME NEW a, NEW s, FFusionDataFind(data, number) = <<a, s>>,
                 a \in DOMAIN data.arenas, s \in DOMAIN data.arenas[a].frames,
                 data.arenas[a].frames[s].frameNumber = number
          PROVE  FFusionDataFind(data, number) = live[i]
      <3>1. NumberAt(data, a, s) = NumberAt(data, b, t) /\ NumberAt(data, b, t) # 0
        BY <2>7, <2>9 DEF NumberAt
      <3>2. UniqueInv(data, begun) BY <2>4
      <3>3. \A x, y, z, w : NumberAt(data, x, y) # 0 /\ NumberAt(data, z, w) = NumberAt(data, x, y)
                              => x = z /\ y = w
        BY ONLY Zenon, <3>2 DEF UniqueInv
      <3>4. b = a /\ t = s BY ONLY Zenon, <3>1, <3>3
      <3> QED BY <2>5, <2>9, <3>4
    <2> QED BY <2>3, <2>4, <2>8, <2>9, FindHas
  <1> QED BY <1>1, <1>2, <1>3, PTL DEF Spec
=============================================================================
