--------------------------- MODULE BufferPoolProofs ---------------------------
(***************************************************************************)
(* BufferPoolSpec for every number of buffers, records and references.     *)
(* The inductive invariant is PoolInv: every count is the number of users, *)
(* and what is retained was allocated.  PicInv adds that a buffer shows a  *)
(* picture exactly as long as somebody retains it, unless a decode without *)
(* a picture took it over when nobody did.                                 *)
(*                                                                         *)
(* Both are stated for a set of future frames, which between the two halves *)
(* of setFutureFrame has two members.                                      *)
(***************************************************************************)
EXTENDS BufferPoolSpec, FiniteSetTheorems, WellFoundedInduction, TLAPS

BufferRecord(m) ==
  [frameNumber : Nat, retainCount : 0 .. 255, ffmpegUsing : BOOLEAN,
   picture : {Nothing} \cup 1 .. m, everUsed : BOOLEAN]

PoolRecord(m) ==
  [buffers : [Buffers -> BufferRecord(m)], lastAllocatedBuffer : Buffers,
   returnedTwice : SUBSET Buffers]

Drps == {NoDrp} \cup [buffer : Buffers, picture : {Nothing} \cup Nat]

UsersIn(d, i) == {r \in Records : d[r].buffer = i}

\* Whatever the future frames are, each user is counted once.
Counted(p, d, F, i) ==
  p.buffers[i].retainCount =
    Cardinality(UsersIn(d, i)) + One(p.buffers[i].ffmpegUsing) + One(i \in F)

PoolInv(m, p, d, F) ==
  /\ p \in PoolRecord(m)
  /\ d \in [Records -> Drps]
  /\ \A i \in Buffers : Counted(p, d, F, i)
  /\ \A i \in Buffers : p.buffers[i].retainCount # 0 => p.buffers[i].everUsed

PicInv(p, d, T) ==
  /\ p.returnedTwice \subseteq T
  /\ \A i \in Buffers : p.buffers[i].retainCount = 0 => p.buffers[i].picture = Nothing
  /\ \A i \in Buffers \ T : p.buffers[i].picture = Nothing => p.buffers[i].retainCount = 0
  /\ \A r \in Records : d[r] # NoDrp => d[r].picture = p.buffers[d[r].buffer].picture

-----------------------------------------------------------------------------
(* There are buffers, and fewer users than a count can hold.                 *)
LEMMA Sizes ==
  /\ FFUSION_MAX_BUFFERS \in Nat /\ FFUSION_MAX_BUFFERS >= 1
  /\ Cardinality(Records) \in 0 .. 252
  /\ 0 \in Buffers /\ None \notin Buffers /\ Buffers \subseteq Nat /\ IsFiniteSet(Buffers)
  <1>1. Cardinality(Records) \in Nat BY PoolAssumption, FS_CardinalityType
  <1>2. IsFiniteSet(Buffers) BY PoolAssumption, FS_Interval DEF Buffers
  <1>3. FFUSION_MAX_BUFFERS >= 1 /\ Cardinality(Records) \in 0 .. 252
    BY <1>1, PoolAssumption
  <1>4. 0 \in Buffers /\ None \notin Buffers /\ Buffers \subseteq Nat
    BY <1>3, PoolAssumption DEF Buffers, None
  <1> QED BY <1>2, <1>3, <1>4, PoolAssumption

(* A set of buffers that is not empty has a first one.                       *)
LEMMA FirstOfSome ==
  ASSUME NEW S, S \subseteq Nat, S # {}
  PROVE  \E i \in S : \A j \in S : i <= j
  <1>1. PICK i \in S : \A j \in S : <<j, i>> \notin OpToRel(<, Nat)
    BY WFMin, NatLessThanWellFounded
  <1>2. \A j \in S : ~(j < i) BY <1>1 DEF OpToRel
  <1> QED BY <1>2

(* FFusionGetBuffer's search finds a buffer nobody retains.                  *)
LEMMA FirstFreeIsFree ==
  ASSUME NEW p, Free(p) # {}
  PROVE  FirstFree(p) \in Free(p)
  <1>1. Free(p) \subseteq Nat BY Sizes DEF Free
  <1> QED BY <1>1, FirstOfSome DEF FirstFree

(* The users of a buffer are some of the records.                            *)
LEMMA UsersBound ==
  ASSUME NEW d, NEW i
  PROVE  /\ IsFiniteSet(UsersIn(d, i))
         /\ Cardinality(UsersIn(d, i)) \in 0 .. Cardinality(Records)
  <1>1. UsersIn(d, i) \subseteq Records BY DEF UsersIn
  <1>2. IsFiniteSet(Records) BY PoolAssumption
  <1> QED BY <1>1, <1>2, FS_Subset, FS_CardinalityType

(* A record that takes a buffer is one more user of it, and of no other.     *)
LEMMA HoldUsers ==
  ASSUME NEW d \in [Records -> Drps], NEW r \in Records, d[r] = NoDrp,
         NEW x, x.buffer \in Buffers, NEW j \in Buffers
  PROVE  Cardinality(UsersIn([d EXCEPT ![r] = x], j)) = Cardinality(UsersIn(d, j)) + One(j = x.buffer)
  <1>1. UsersIn([d EXCEPT ![r] = x], j) = IF j = x.buffer THEN UsersIn(d, j) \cup {r} ELSE UsersIn(d, j)
    <2>1. \A s \in Records : [d EXCEPT ![r] = x][s] = IF s = r THEN x ELSE d[s] OBVIOUS
    <2>2. d[r].buffer # j BY Sizes DEF NoDrp
    <2> QED BY <2>1, <2>2 DEF UsersIn
  <1>2. r \notin UsersIn(d, j) BY Sizes DEF UsersIn, NoDrp
  <1>3. Cardinality(UsersIn(d, j) \cup {r}) = Cardinality(UsersIn(d, j)) + 1
    BY <1>2, UsersBound, FS_AddElement
  <1>4. Cardinality(UsersIn(d, j)) \in Nat BY UsersBound, Sizes
  <1> QED BY <1>1, <1>3, <1>4 DEF One

(* A record that is ended is one user less of its buffer, and of no other.   *)
LEMMA DropUsers ==
  ASSUME NEW d \in [Records -> Drps], NEW r \in Records, d[r] # NoDrp, NEW j \in Buffers
  PROVE  /\ Cardinality(UsersIn([d EXCEPT ![r] = NoDrp], j))
              = Cardinality(UsersIn(d, j)) - One(j = d[r].buffer)
         /\ j = d[r].buffer => Cardinality(UsersIn(d, j)) >= 1
  <1>1. UsersIn([d EXCEPT ![r] = NoDrp], j) = UsersIn(d, j) \ {r}
    <2>1. \A s \in Records : [d EXCEPT ![r] = NoDrp][s] = IF s = r THEN NoDrp ELSE d[s] OBVIOUS
    <2>2. NoDrp.buffer # j BY Sizes DEF NoDrp
    <2> QED BY <2>1, <2>2 DEF UsersIn
  <1>2. r \in UsersIn(d, j) <=> j = d[r].buffer BY DEF UsersIn
  <1>3. Cardinality(UsersIn(d, j) \ {r})
          = IF r \in UsersIn(d, j) THEN Cardinality(UsersIn(d, j)) - 1 ELSE Cardinality(UsersIn(d, j))
    BY UsersBound, FS_RemoveElement
  <1>4. Cardinality(UsersIn(d, j) \ {r}) \in Nat
    BY UsersBound, FS_RemoveElement, FS_CardinalityType
  <1>5. Cardinality(UsersIn(d, j)) \in Nat BY UsersBound, Sizes
  <1>6. CASE j = d[r].buffer
    <2>1. Cardinality(UsersIn(d, j) \ {r}) = Cardinality(UsersIn(d, j)) - 1
      BY <1>2, <1>3, <1>6
    <2>2. One(j = d[r].buffer) = 1 BY <1>6 DEF One
    <2>3. Cardinality(UsersIn(d, j)) >= 1 BY <2>1, <1>4, <1>5
    <2> QED BY <1>1, <2>1, <2>2, <2>3
  <1>7. CASE j # d[r].buffer
    <2>1. Cardinality(UsersIn(d, j) \ {r}) = Cardinality(UsersIn(d, j))
      BY <1>2, <1>3, <1>7
    <2>2. One(j = d[r].buffer) = 0 BY <1>7 DEF One
    <2>3. Cardinality(UsersIn(d, j)) = Cardinality(UsersIn(d, j)) - 0 BY <1>5
    <2> QED BY <1>1, <1>7, <2>1, <2>2, <2>3
  <1> QED BY <1>6, <1>7

-----------------------------------------------------------------------------
\* What every function of the pool leaves alone in buffer j.
Same(p, q, j) ==
  /\ q.buffers[j].ffmpegUsing = p.buffers[j].ffmpegUsing
  /\ q.buffers[j].everUsed = p.buffers[j].everUsed

(* retainBuffer counts one more user, as long as there are fewer than 255.   *)
LEMMA Retained ==
  ASSUME NEW m \in Nat, NEW p \in PoolRecord(m), NEW i \in Buffers,
         p.buffers[i].retainCount < 255,
         NEW q, q = retainBuffer(p, i)
  PROVE  /\ q \in PoolRecord(m)
         /\ q.lastAllocatedBuffer = p.lastAllocatedBuffer
         /\ q.returnedTwice = p.returnedTwice
         /\ \A j \in Buffers :
              /\ Same(p, q, j)
              /\ q.buffers[j].picture = p.buffers[j].picture
              /\ q.buffers[j].retainCount = p.buffers[j].retainCount + One(j = i)
  <1>1. p.buffers[i].retainCount \in 0 .. 255 BY DEF PoolRecord, BufferRecord
  <1>2. (p.buffers[i].retainCount + 1) % 256 = p.buffers[i].retainCount + 1 BY <1>1
  <1>3. q = [p EXCEPT !.buffers =
               [p.buffers EXCEPT ![i] =
                  [p.buffers[i] EXCEPT !.retainCount = p.buffers[i].retainCount + 1]]]
    BY <1>2 DEF retainBuffer
  <1>4. [p.buffers[i] EXCEPT !.retainCount = p.buffers[i].retainCount + 1] \in BufferRecord(m)
    BY <1>1 DEF PoolRecord, BufferRecord
  <1>5. q \in PoolRecord(m) BY <1>3, <1>4 DEF PoolRecord
  <1>6. q.buffers = [p.buffers EXCEPT ![i] =
                       [p.buffers[i] EXCEPT !.retainCount = p.buffers[i].retainCount + 1]]
    BY <1>3 DEF PoolRecord
  <1>7. ASSUME NEW j \in Buffers
        PROVE  /\ Same(p, q, j)
               /\ q.buffers[j].picture = p.buffers[j].picture
               /\ q.buffers[j].retainCount = p.buffers[j].retainCount + One(j = i)
    BY <1>6 DEF PoolRecord, BufferRecord, Same, One
  <1> QED BY <1>3, <1>5, <1>7 DEF PoolRecord

(* releaseBuffer counts one user less; the last one gives the memory back.   *)
LEMMA Released ==
  ASSUME NEW m \in Nat, NEW p \in PoolRecord(m), NEW i \in Buffers,
         p.buffers[i].retainCount >= 1,
         NEW q, q = releaseBuffer(p, i)
  PROVE  /\ q \in PoolRecord(m)
         /\ q.lastAllocatedBuffer = p.lastAllocatedBuffer
         /\ q.returnedTwice \subseteq p.returnedTwice \cup {i}
         /\ p.buffers[i].picture # Nothing => q.returnedTwice = p.returnedTwice
         /\ \A j \in Buffers :
              /\ Same(p, q, j)
              /\ q.buffers[j].picture =
                   IF j = i /\ p.buffers[i].retainCount = 1 /\ ~p.buffers[i].ffmpegUsing
                   THEN Nothing ELSE p.buffers[j].picture
              /\ q.buffers[j].retainCount = p.buffers[j].retainCount - One(j = i)
  <1> DEFINE count == p.buffers[i].retainCount - 1
             last  == count = 0 /\ ~p.buffers[i].ffmpegUsing
             pic   == IF last THEN Nothing ELSE p.buffers[i].picture
             again == last /\ p.buffers[i].picture = Nothing
             twice == IF again THEN p.returnedTwice \cup {i} ELSE p.returnedTwice
             b     == [p.buffers[i] EXCEPT !.retainCount = count, !.picture = pic]
  <1>1. p.buffers[i].retainCount \in 0 .. 255 BY DEF PoolRecord, BufferRecord
  <1>2. (p.buffers[i].retainCount + 255) % 256 = count BY <1>1
  <1>3. q = [p EXCEPT !.buffers[i].retainCount = count,
                      !.buffers[i].picture = IF last THEN Nothing ELSE @,
                      !.returnedTwice = IF again THEN @ \cup {i} ELSE @]
    BY <1>2, Zenon DEF releaseBuffer
  <1>4. pic \in {Nothing} \cup 1 .. m BY DEF PoolRecord, BufferRecord
  <1>5. /\ twice \in SUBSET Buffers /\ twice \subseteq p.returnedTwice \cup {i}
        /\ p.buffers[i].picture # Nothing => twice = p.returnedTwice
    <2> HIDE DEF last
    <2> QED BY DEF PoolRecord
  <1>6. q.buffers = [p.buffers EXCEPT ![i] = b]
    <2> DEFINE c  == [p.buffers[i] EXCEPT !.retainCount = count]
               p1 == [p.buffers EXCEPT ![i] = c]
    <2>1. q.buffers = [p1 EXCEPT ![i] = [p1[i] EXCEPT !.picture = IF last THEN Nothing ELSE @]]
      BY <1>3 DEF PoolRecord
    <2>2. p1[i] = c BY DEF PoolRecord
    <2>3. p1[i].picture = p.buffers[i].picture BY <2>2 DEF PoolRecord, BufferRecord
    <2>4. [p1[i] EXCEPT !.picture = IF last THEN Nothing ELSE @] = b
      BY <2>2, <2>3 DEF PoolRecord, BufferRecord
    <2> HIDE DEF b, c
    <2>5. [p1 EXCEPT ![i] = b] = [p.buffers EXCEPT ![i] = b] BY DEF PoolRecord
    <2> QED BY <2>1, <2>4, <2>5
  <1>7. q = [buffers |-> q.buffers, lastAllocatedBuffer |-> p.lastAllocatedBuffer, returnedTwice |-> twice]
    BY <1>3 DEF PoolRecord, BufferRecord
  <1>8. b \in BufferRecord(m)
    <2>1. count \in 0 .. 255 BY <1>1
    <2>2. p.buffers[i] \in BufferRecord(m) BY DEF PoolRecord
    <2> HIDE DEF pic, count
    <2> QED BY <1>4, <2>1, <2>2 DEF BufferRecord
  <1>9. q \in PoolRecord(m)
    <2> HIDE DEF b, twice
    <2> QED BY <1>5, <1>6, <1>7, <1>8 DEF PoolRecord
  <1>10. ASSUME NEW j \in Buffers
         PROVE  /\ Same(p, q, j)
                /\ q.buffers[j].picture =
                     IF j = i /\ p.buffers[i].retainCount = 1 /\ ~p.buffers[i].ffmpegUsing
                     THEN Nothing ELSE p.buffers[j].picture
                /\ q.buffers[j].retainCount = p.buffers[j].retainCount - One(j = i)
    <2>1. CASE j = i BY <1>1, <1>6, <2>1 DEF PoolRecord, BufferRecord, Same, One
    <2>2. CASE j # i
      <3>1. q.buffers[j] = p.buffers[j] BY <1>6, <2>2 DEF PoolRecord
      <3>2. p.buffers[j].retainCount \in 0 .. 255 BY DEF PoolRecord, BufferRecord
      <3>3. One(j = i) = 0 BY <2>2 DEF One
      <3> QED BY <2>2, <3>1, <3>2, <3>3 DEF Same
    <2> QED BY <2>1, <2>2
  <1>11. (count = 0) = (p.buffers[i].retainCount = 1) BY <1>1
  <1>12. q.lastAllocatedBuffer = p.lastAllocatedBuffer /\ q.returnedTwice = twice
    <2> HIDE DEF twice
    <2> QED BY <1>7
  <1> HIDE DEF twice
  <1> QED BY <1>5, <1>9, <1>10, <1>11, <1>12

(* FFusionGetBuffer gives the free buffer it finds one user, libavcodec.     *)
LEMMA Got ==
  ASSUME NEW m \in Nat, NEW p \in PoolRecord(m), Free(p) # {},
         NEW q, q = FFusionGetBuffer(p, m + 1), NEW i, i = FirstFree(p)
  PROVE  /\ i \in Buffers /\ p.buffers[i].retainCount = 0
         /\ q \in PoolRecord(m + 1)
         /\ q.lastAllocatedBuffer = i
         /\ q.returnedTwice = p.returnedTwice \ {i}
         /\ q.buffers[i].retainCount = 1 /\ q.buffers[i].ffmpegUsing
         /\ q.buffers[i].picture = m + 1 /\ q.buffers[i].everUsed
         /\ \A j \in Buffers \ {i} : q.buffers[j] = p.buffers[j]
  <1> DEFINE b == [p.buffers[i] EXCEPT !.picture = m + 1, !.retainCount = 1,
                                       !.ffmpegUsing = TRUE, !.everUsed = TRUE]
  <1>1. i \in Buffers /\ p.buffers[i].retainCount = 0 BY FirstFreeIsFree DEF Free
  <1>2. q = [p EXCEPT !.buffers = [p.buffers EXCEPT ![i] = b], !.lastAllocatedBuffer = i,
                      !.returnedTwice = p.returnedTwice \ {i}]
    BY <1>1 DEF FFusionGetBuffer, PoolRecord, BufferRecord
  <1>3. /\ b \in BufferRecord(m + 1)
        /\ b.retainCount = 1 /\ b.ffmpegUsing /\ b.picture = m + 1 /\ b.everUsed
    <2>1. ASSUME NEW u \in BOOLEAN, NEW v \in BOOLEAN
          PROVE  [p.buffers[i] EXCEPT !.picture = m + 1, !.retainCount = 1,
                    !.ffmpegUsing = u, !.everUsed = v] \in BufferRecord(m + 1)
      <3> DEFINE P == {Nothing} \cup 1 .. m + 1
                 n == m + 1
      <3>1. n \in P /\ 1 \in 0 .. 255 OBVIOUS
      <3>2. p.buffers[i] \in BufferRecord(m) BY <1>1 DEF PoolRecord
      <3>3. BufferRecord(m + 1) = [frameNumber : Nat, retainCount : 0 .. 255, ffmpegUsing : BOOLEAN,
                                   picture : P, everUsed : BOOLEAN]
        BY DEF BufferRecord
      <3> HIDE DEF P, n
      <3>4. [p.buffers[i] EXCEPT !.picture = n, !.retainCount = 1, !.ffmpegUsing = u, !.everUsed = v]
              \in [frameNumber : Nat, retainCount : 0 .. 255, ffmpegUsing : BOOLEAN,
                   picture : P, everUsed : BOOLEAN]
        BY <3>1, <3>2 DEF BufferRecord
      <3> QED BY <3>3, <3>4 DEF n
    <2>2. b \in BufferRecord(m + 1) BY <2>1
    <2> QED BY <1>1, <2>2 DEF PoolRecord, BufferRecord
  <1>4. BufferRecord(m) \subseteq BufferRecord(m + 1)
    <2>1. 1 .. m \subseteq 1 .. m + 1 OBVIOUS
    <2> QED BY <2>1 DEF BufferRecord
  <1> HIDE DEF b
  <1>5. /\ q.buffers = [p.buffers EXCEPT ![i] = b]
        /\ q.lastAllocatedBuffer = i
        /\ q.returnedTwice = p.returnedTwice \ {i}
        /\ p.buffers \in [Buffers -> BufferRecord(m)]
    BY <1>2 DEF PoolRecord
  <1>6. q.buffers \in [Buffers -> BufferRecord(m + 1)] BY <1>1, <1>3, <1>4, <1>5
  <1>7. q \in PoolRecord(m + 1) BY <1>1, <1>2, <1>5, <1>6 DEF PoolRecord
  <1>8. q.buffers[i] = b /\ \A j \in Buffers \ {i} : q.buffers[j] = p.buffers[j]
    BY <1>1, <1>5
  <1> QED BY <1>1, <1>3, <1>5, <1>7, <1>8

Number(p, i, n) == [p EXCEPT !.buffers[i].frameNumber = n]

(* A frame number changes nothing the users of the buffer depend on.         *)
LEMMA Numbered ==
  ASSUME NEW m, NEW p \in PoolRecord(m), NEW i \in Buffers, NEW n \in Nat,
         NEW q, q = Number(p, i, n)
  PROVE  /\ q \in PoolRecord(m)
         /\ q.lastAllocatedBuffer = p.lastAllocatedBuffer
         /\ q.returnedTwice = p.returnedTwice
         /\ \A j \in Buffers :
              /\ Same(p, q, j)
              /\ q.buffers[j].picture = p.buffers[j].picture
              /\ q.buffers[j].retainCount = p.buffers[j].retainCount
  <1>1. [p.buffers[i] EXCEPT !.frameNumber = n] \in BufferRecord(m)
    BY DEF PoolRecord, BufferRecord
  <1>2. q.buffers = [p.buffers EXCEPT ![i] = [p.buffers[i] EXCEPT !.frameNumber = n]]
    BY DEF PoolRecord, Number
  <1>3. q \in PoolRecord(m) BY <1>1, <1>2 DEF PoolRecord, Number
  <1>4. ASSUME NEW j \in Buffers
        PROVE  /\ Same(p, q, j)
               /\ q.buffers[j].picture = p.buffers[j].picture
               /\ q.buffers[j].retainCount = p.buffers[j].retainCount
    BY <1>2 DEF PoolRecord, BufferRecord, Same
  <1> QED BY <1>3, <1>4 DEF PoolRecord, Number

Unmark(p, i) == [p EXCEPT !.buffers[i].ffmpegUsing = FALSE]

(* libavcodec's mark on a buffer is taken off.                               *)
LEMMA Unmarked ==
  ASSUME NEW m, NEW p \in PoolRecord(m), NEW i \in Buffers,
         NEW q, q = Unmark(p, i)
  PROVE  /\ q \in PoolRecord(m)
         /\ q.lastAllocatedBuffer = p.lastAllocatedBuffer
         /\ q.returnedTwice = p.returnedTwice
         /\ ~q.buffers[i].ffmpegUsing
         /\ \A j \in Buffers :
              /\ j # i => q.buffers[j] = p.buffers[j]
              /\ q.buffers[j].everUsed = p.buffers[j].everUsed
              /\ q.buffers[j].picture = p.buffers[j].picture
              /\ q.buffers[j].retainCount = p.buffers[j].retainCount
  <1>1. [p.buffers[i] EXCEPT !.ffmpegUsing = FALSE] \in BufferRecord(m)
    <2>1. ASSUME NEW v \in BOOLEAN
          PROVE  [p.buffers[i] EXCEPT !.ffmpegUsing = v] \in BufferRecord(m)
      BY DEF PoolRecord, BufferRecord
    <2> QED BY <2>1
  <1>2. q.buffers = [p.buffers EXCEPT ![i] = [p.buffers[i] EXCEPT !.ffmpegUsing = FALSE]]
    BY DEF PoolRecord, Unmark
  <1>3. q \in PoolRecord(m) BY <1>1, <1>2 DEF PoolRecord, Unmark
  <1>4. ASSUME NEW j \in Buffers
        PROVE  /\ j # i => q.buffers[j] = p.buffers[j]
               /\ q.buffers[j].everUsed = p.buffers[j].everUsed
               /\ q.buffers[j].picture = p.buffers[j].picture
               /\ q.buffers[j].retainCount = p.buffers[j].retainCount
    BY <1>2 DEF PoolRecord, BufferRecord
  <1>5. ~q.buffers[i].ffmpegUsing BY <1>2 DEF PoolRecord, BufferRecord
  <1> QED BY <1>3, <1>4, <1>5 DEF PoolRecord, Unmark

-----------------------------------------------------------------------------
(* The count of a buffer never gets near what a uint8_t holds, and is not    *)
(* zero while somebody uses the buffer.                                      *)
LEMMA CountBound ==
  ASSUME NEW m, NEW p, NEW d, NEW F, PoolInv(m, p, d, F), NEW i \in Buffers
  PROVE  /\ p.buffers[i].retainCount \in 0 .. Cardinality(Records) + 2
         /\ p.buffers[i].retainCount < 255
         /\ p.buffers[i].ffmpegUsing => p.buffers[i].retainCount >= 1
         /\ i \in F => p.buffers[i].retainCount >= 1 + One(p.buffers[i].ffmpegUsing)
         /\ \A r \in Records :
              d[r].buffer = i => p.buffers[i].retainCount >= 1 + One(p.buffers[i].ffmpegUsing)
  <1>1. Counted(p, d, F, i) BY DEF PoolInv
  <1>2. One(p.buffers[i].ffmpegUsing) \in 0 .. 1 /\ One(i \in F) \in 0 .. 1 BY DEF One
  <1>3. Cardinality(UsersIn(d, i)) \in 0 .. Cardinality(Records) BY UsersBound
  <1>4. ASSUME NEW r \in Records, d[r].buffer = i
        PROVE  Cardinality(UsersIn(d, i)) >= 1
    <2>1. r \in UsersIn(d, i) BY <1>4 DEF UsersIn
    <2>2. Cardinality(UsersIn(d, i)) # 0 BY <2>1, UsersBound, FS_EmptySet
    <2> QED BY <1>3, <2>2, Sizes
  <1>5. p.buffers[i].ffmpegUsing => One(p.buffers[i].ffmpegUsing) = 1 BY DEF One
  <1>6. i \in F => One(i \in F) = 1 BY DEF One
  <1>7. p.buffers[i].retainCount =
          Cardinality(UsersIn(d, i)) + One(p.buffers[i].ffmpegUsing) + One(i \in F)
    BY <1>1 DEF Counted
  <1> QED BY <1>2, <1>3, <1>4, <1>5, <1>6, <1>7, Sizes

(* A record takes a buffer that was allocated.                               *)
LEMMA RecordRetains ==
  ASSUME NEW m \in Nat, NEW p, NEW d, NEW F, PoolInv(m, p, d, F), NEW i \in Buffers,
         p.buffers[i].everUsed, NEW r \in Records, d[r] = NoDrp,
         NEW x \in Drps, x.buffer = i, NEW q, q = retainBuffer(p, i)
  PROVE  PoolInv(m, q, [d EXCEPT ![r] = x], F)
  <1> DEFINE e == [d EXCEPT ![r] = x]
  <1>1. /\ p \in PoolRecord(m) /\ d \in [Records -> Drps]
        /\ p.buffers[i].retainCount < 255
    BY CountBound DEF PoolInv
  <1>2. /\ q \in PoolRecord(m)
        /\ \A j \in Buffers : /\ Same(p, q, j)
                              /\ q.buffers[j].retainCount = p.buffers[j].retainCount + One(j = i)
    BY <1>1, Retained
  <1>3. ASSUME NEW j \in Buffers
        PROVE  Counted(q, e, F, j) /\ (q.buffers[j].retainCount # 0 => q.buffers[j].everUsed)
    <2>1. Cardinality(UsersIn(e, j)) = Cardinality(UsersIn(d, j)) + One(j = i)
      <3>1. x.buffer \in Buffers OBVIOUS
      <3>2. Cardinality(UsersIn(e, j)) = Cardinality(UsersIn(d, j)) + One(j = x.buffer)
        BY <1>1, <3>1, HoldUsers, Zenon
      <3> QED BY <3>2, Zenon
    <2>2. Cardinality(UsersIn(d, j)) \in Nat /\ One(j = i) \in Nat
          /\ One(p.buffers[j].ffmpegUsing) \in Nat /\ One(j \in F) \in Nat
      BY UsersBound, Sizes DEF One
    <2>3. Counted(p, d, F, j) BY DEF PoolInv
    <2>4. Counted(q, e, F, j)
      <3> HIDE DEF e
      <3> QED BY <1>2, <2>1, <2>2, <2>3 DEF Counted, Same
    <2>5. j # i => One(j = i) = 0 BY DEF One
    <2>6. p.buffers[j].retainCount \in Nat BY CountBound
    <2>7. q.buffers[j].retainCount # 0 => q.buffers[j].everUsed
      BY <1>2, <2>5, <2>6 DEF Same, PoolInv
    <2> QED BY <2>4, <2>7
  <1>4. e \in [Records -> Drps] BY <1>1
  <1> QED BY <1>2, <1>3, <1>4 DEF PoolInv

(* A future frame takes a buffer that was allocated.                         *)
LEMMA FutureRetains ==
  ASSUME NEW m \in Nat, NEW p, NEW d, NEW F, PoolInv(m, p, d, F), NEW i \in Buffers,
         p.buffers[i].everUsed, i \notin F, NEW q, q = retainBuffer(p, i)
  PROVE  PoolInv(m, q, d, F \cup {i})
  <1>1. /\ p \in PoolRecord(m) /\ d \in [Records -> Drps]
        /\ p.buffers[i].retainCount < 255
    BY CountBound DEF PoolInv
  <1>2. /\ q \in PoolRecord(m)
        /\ \A j \in Buffers : /\ Same(p, q, j)
                              /\ q.buffers[j].retainCount = p.buffers[j].retainCount + One(j = i)
    BY <1>1, Retained
  <1>3. ASSUME NEW j \in Buffers
        PROVE  Counted(q, d, F \cup {i}, j) /\ (q.buffers[j].retainCount # 0 => q.buffers[j].everUsed)
    <2>1. One(j \in F \cup {i}) = One(j \in F) + One(j = i) BY DEF One
    <2>2. Cardinality(UsersIn(d, j)) \in Nat /\ One(j = i) \in Nat
          /\ One(p.buffers[j].ffmpegUsing) \in Nat /\ One(j \in F) \in Nat
      BY UsersBound, Sizes DEF One
    <2>3. Counted(p, d, F, j) BY DEF PoolInv
    <2>4. Counted(q, d, F \cup {i}, j) BY <1>2, <2>1, <2>2, <2>3 DEF Counted, Same
    <2>5. j # i => One(j = i) = 0 BY DEF One
    <2>6. p.buffers[j].retainCount \in Nat BY CountBound
    <2>7. q.buffers[j].retainCount # 0 => q.buffers[j].everUsed
      BY <1>2, <2>5, <2>6 DEF Same, PoolInv
    <2> QED BY <2>4, <2>7
  <1> QED BY <1>1, <1>2, <1>3 DEF PoolInv

(* A future frame lets its buffer go.                                        *)
LEMMA FutureReleases ==
  ASSUME NEW m \in Nat, NEW p, NEW d, NEW F, PoolInv(m, p, d, F), NEW i \in Buffers,
         i \in F, NEW q, q = releaseBuffer(p, i)
  PROVE  PoolInv(m, q, d, F \ {i})
  <1>1. /\ p \in PoolRecord(m) /\ d \in [Records -> Drps]
    BY DEF PoolInv
  <1>2. p.buffers[i].retainCount >= 1
    <2>1. One(p.buffers[i].ffmpegUsing) \in 0 .. 1 BY DEF One
    <2>2. p.buffers[i].retainCount \in Nat
          /\ p.buffers[i].retainCount >= 1 + One(p.buffers[i].ffmpegUsing) BY CountBound
    <2> QED BY <2>1, <2>2
  <1>3. /\ q \in PoolRecord(m)
        /\ \A j \in Buffers : /\ Same(p, q, j)
                              /\ q.buffers[j].retainCount = p.buffers[j].retainCount - One(j = i)
    BY <1>1, <1>2, Released
  <1>4. ASSUME NEW j \in Buffers
        PROVE  Counted(q, d, F \ {i}, j) /\ (q.buffers[j].retainCount # 0 => q.buffers[j].everUsed)
    <2>1. One(j \in F \ {i}) = One(j \in F) - One(j = i) BY DEF One
    <2>2. Cardinality(UsersIn(d, j)) \in Nat /\ One(j = i) \in Nat
          /\ One(p.buffers[j].ffmpegUsing) \in Nat /\ One(j \in F) \in Nat
      BY UsersBound, Sizes DEF One
    <2>3. Counted(p, d, F, j) BY DEF PoolInv
    <2>4. Counted(q, d, F \ {i}, j) BY <1>3, <2>1, <2>2, <2>3 DEF Counted, Same
    <2>5. j # i => One(j = i) = 0 BY DEF One
    <2>6. p.buffers[j].retainCount \in Nat BY CountBound
    <2>7. q.buffers[j].retainCount # 0 => q.buffers[j].everUsed
      BY <1>2, <1>3, <2>5, <2>6 DEF Same, PoolInv
    <2> QED BY <2>4, <2>7
  <1> QED BY <1>1, <1>3, <1>4 DEF PoolInv

(* A record that ends lets its buffer go.                                    *)
LEMMA RecordReleases ==
  ASSUME NEW m \in Nat, NEW p, NEW d, NEW F, PoolInv(m, p, d, F),
         NEW r \in Records, d[r] # NoDrp, NEW i, i = d[r].buffer,
         NEW q, q = releaseBuffer(p, i)
  PROVE  /\ i \in Buffers
         /\ p.buffers[i].everUsed
         /\ PoolInv(m, q, [d EXCEPT ![r] = NoDrp], F)
  <1> DEFINE e == [d EXCEPT ![r] = NoDrp]
  <1>1. p \in PoolRecord(m) /\ d \in [Records -> Drps] BY DEF PoolInv
  <1>2. i \in Buffers BY <1>1 DEF Drps
  <1>3. p.buffers[i].retainCount >= 1
    <2>1. One(p.buffers[i].ffmpegUsing) \in 0 .. 1 BY DEF One
    <2>2. p.buffers[i].retainCount \in Nat
          /\ p.buffers[i].retainCount >= 1 + One(p.buffers[i].ffmpegUsing) BY <1>2, CountBound
    <2> QED BY <2>1, <2>2
  <1>4. p.buffers[i].everUsed BY <1>2, <1>3 DEF PoolInv
  <1>5. /\ q \in PoolRecord(m)
        /\ \A j \in Buffers : /\ Same(p, q, j)
                              /\ q.buffers[j].retainCount = p.buffers[j].retainCount - One(j = i)
    BY <1>1, <1>2, <1>3, Released
  <1>6. ASSUME NEW j \in Buffers
        PROVE  Counted(q, e, F, j) /\ (q.buffers[j].retainCount # 0 => q.buffers[j].everUsed)
    <2>1. Cardinality(UsersIn(e, j)) = Cardinality(UsersIn(d, j)) - One(j = i)
      BY <1>1, DropUsers
    <2>2. Cardinality(UsersIn(d, j)) \in Nat /\ One(j = i) \in Nat
          /\ One(p.buffers[j].ffmpegUsing) \in Nat /\ One(j \in F) \in Nat
      BY UsersBound, Sizes DEF One
    <2>3. Counted(p, d, F, j) BY DEF PoolInv
    <2>4. Counted(q, e, F, j)
      <3> HIDE DEF e
      <3> QED BY <1>5, <2>1, <2>2, <2>3 DEF Counted, Same
    <2>5. j # i => One(j = i) = 0 BY DEF One
    <2>6. p.buffers[j].retainCount \in Nat BY CountBound
    <2>7. q.buffers[j].retainCount # 0 => q.buffers[j].everUsed
      BY <1>4, <1>5, <2>5, <2>6 DEF Same, PoolInv
    <2> QED BY <2>4, <2>7
  <1>7. e \in [Records -> Drps] BY <1>1 DEF Drps
  <1> QED BY <1>2, <1>4, <1>5, <1>6, <1>7 DEF PoolInv

(* libavcodec lets a picture go.                                             *)
LEMMA CodecLetsGo ==
  ASSUME NEW m \in Nat, NEW p, NEW d, NEW F, PoolInv(m, p, d, F), NEW i \in Buffers,
         p.buffers[i].ffmpegUsing, NEW q, q = FFusionReleaseBuffer(p, i)
  PROVE  PoolInv(m, q, d, F)
  <1> DEFINE u == Unmark(p, i)
  <1>1. q = releaseBuffer(u, i) BY DEF FFusionReleaseBuffer, Unmark
  <1>2. p \in PoolRecord(m) /\ d \in [Records -> Drps] BY DEF PoolInv
  <1>3. /\ u \in PoolRecord(m)
        /\ ~u.buffers[i].ffmpegUsing
        /\ \A j \in Buffers :
             /\ j # i => u.buffers[j] = p.buffers[j]
             /\ u.buffers[j].everUsed = p.buffers[j].everUsed
             /\ u.buffers[j].retainCount = p.buffers[j].retainCount
    BY <1>2, Unmarked
  <1>4. p.buffers[i].retainCount >= 1 BY CountBound
  <1>5. /\ q \in PoolRecord(m)
        /\ \A j \in Buffers : /\ Same(u, q, j)
                              /\ q.buffers[j].retainCount = u.buffers[j].retainCount - One(j = i)
    BY <1>1, <1>3, <1>4, Released
  <1>6. ASSUME NEW j \in Buffers
        PROVE  Counted(q, d, F, j) /\ (q.buffers[j].retainCount # 0 => q.buffers[j].everUsed)
    <2>1. One(q.buffers[j].ffmpegUsing) = One(p.buffers[j].ffmpegUsing) - One(j = i)
      <3>1. CASE j = i
        <4>1. ~q.buffers[j].ffmpegUsing BY <1>3, <1>5, <3>1 DEF Same
        <4> QED BY <3>1, <4>1 DEF One
      <3>2. CASE j # i
        <4>1. q.buffers[j].ffmpegUsing = p.buffers[j].ffmpegUsing BY <1>3, <1>5, <3>2 DEF Same
        <4>2. One(p.buffers[j].ffmpegUsing) \in Nat BY DEF One
        <4>3. One(j = i) = 0 BY <3>2 DEF One
        <4> QED BY <4>1, <4>2, <4>3
      <3> QED BY <3>1, <3>2
    <2>2. Cardinality(UsersIn(d, j)) \in Nat /\ One(j = i) \in Nat
          /\ One(p.buffers[j].ffmpegUsing) \in Nat /\ One(j \in F) \in Nat
      BY UsersBound, Sizes DEF One
    <2>3. Counted(p, d, F, j) BY DEF PoolInv
    <2>4. Counted(q, d, F, j) BY <1>3, <1>5, <2>1, <2>2, <2>3 DEF Counted
    <2>5. j # i => One(j = i) = 0 BY DEF One
    <2>6. p.buffers[j].retainCount \in Nat BY CountBound
    <2>7. p.buffers[j].retainCount # 0 => p.buffers[j].everUsed BY DEF PoolInv
    <2>8. q.buffers[j].retainCount # 0 => q.buffers[j].everUsed
      BY <1>3, <1>4, <1>5, <2>5, <2>6, <2>7 DEF Same
    <2> QED BY <2>4, <2>8
  <1> QED BY <1>2, <1>5, <1>6 DEF PoolInv

(* A new picture: libavcodec is the one user of a buffer that had none.      *)
LEMMA CodecGets ==
  ASSUME NEW m \in Nat, NEW p, NEW d, NEW F, PoolInv(m, p, d, F), Free(p) # {},
         NEW q, q = FFusionGetBuffer(p, m + 1), NEW i, i = FirstFree(p)
  PROVE  PoolInv(m + 1, q, d, F) /\ i \notin F
  <1>1. p \in PoolRecord(m) /\ d \in [Records -> Drps] BY DEF PoolInv
  <1>2. /\ i \in Buffers /\ p.buffers[i].retainCount = 0
        /\ q \in PoolRecord(m + 1)
        /\ q.buffers[i].retainCount = 1 /\ q.buffers[i].ffmpegUsing /\ q.buffers[i].everUsed
        /\ \A j \in Buffers \ {i} : q.buffers[j] = p.buffers[j]
    BY <1>1, Got
  <1>3. Cardinality(UsersIn(d, i)) \in Nat /\ One(p.buffers[i].ffmpegUsing) \in Nat
        /\ One(i \in F) \in Nat
    BY UsersBound, Sizes DEF One
  <1>4. Counted(p, d, F, i) BY <1>2 DEF PoolInv
  <1>5. Cardinality(UsersIn(d, i)) = 0 /\ One(i \in F) = 0 BY <1>2, <1>3, <1>4 DEF Counted
  <1>6. i \notin F BY <1>5 DEF One
  <1>7. Counted(q, d, F, i)
    <2>1. One(q.buffers[i].ffmpegUsing) = 1 BY <1>2 DEF One
    <2> QED BY <1>2, <1>5, <2>1 DEF Counted
  <1>8. ASSUME NEW j \in Buffers \ {i}
        PROVE  Counted(q, d, F, j) /\ (q.buffers[j].retainCount # 0 => q.buffers[j].everUsed)
    <2>1. q.buffers[j] = p.buffers[j] BY <1>2
    <2>2. Counted(p, d, F, j) BY DEF PoolInv
    <2>3. p.buffers[j].retainCount # 0 => p.buffers[j].everUsed BY DEF PoolInv
    <2> QED BY <2>1, <2>2, <2>3 DEF Counted
  <1> QED BY <1>1, <1>2, <1>6, <1>7, <1>8 DEF PoolInv

(* There is a free buffer for a picture: whoever holds a buffer is among the *)
(* references of libavcodec, the records but the one that asks, and the      *)
(* future frame, and these are fewer than the buffers.                       *)
LEMMA BufferForPicture ==
  ASSUME NEW m, NEW p, NEW d, NEW f, PoolInv(m, p, d, {f}),
         Cardinality({i \in Buffers : p.buffers[i].ffmpegUsing}) < CodecRefs,
         NEW r \in Records, d[r] = NoDrp
  PROVE  Free(p) # {}
  <1> DEFINE C    == {i \in Buffers : p.buffers[i].ffmpegUsing}
             Busy == {s \in Records : d[s].buffer \in Buffers}
             Held == {d[s].buffer : s \in Busy}
             All  == C \cup Held \cup {f}
  <1>1. SUFFICES ASSUME Free(p) = {} PROVE FALSE OBVIOUS
  <1>2. Buffers \subseteq All
    <2>1. SUFFICES ASSUME NEW i \in Buffers, i \notin C, i \notin Held, i # f PROVE FALSE
      OBVIOUS
    <2>2. UsersIn(d, i) = {} BY <2>1 DEF UsersIn
    <2>3. Cardinality(UsersIn(d, i)) = 0 BY <2>2, FS_EmptySet
    <2>4. One(p.buffers[i].ffmpegUsing) = 0 /\ One(i \in {f}) = 0 BY <2>1 DEF One
    <2>5. p.buffers[i].retainCount = 0 BY <2>3, <2>4 DEF PoolInv, Counted
    <2> QED BY <1>1, <2>5 DEF Free
  <1>3. IsFiniteSet(C) /\ Cardinality(C) \in Nat BY Sizes, FS_Subset, FS_CardinalityType
  <1>4. IsFiniteSet(Busy) /\ Cardinality(Busy) <= Cardinality(Records) - 1
    <2>1. Busy \subseteq Records \ {r} BY Sizes DEF NoDrp
    <2>2. /\ IsFiniteSet(Records \ {r})
          /\ Cardinality(Records \ {r}) = Cardinality(Records) - 1
      BY PoolAssumption, FS_RemoveElement
    <2> QED BY <2>1, <2>2, FS_Subset
  <1>5. IsFiniteSet(Held) /\ Cardinality(Held) <= Cardinality(Busy)
    <2>1. [s \in Busy |-> d[s].buffer] \in Surjection(Busy, Held) BY DEF Surjection
    <2> QED BY <1>4, <2>1, FS_Surjection
  <1>6. IsFiniteSet(C \cup Held) /\ Cardinality(C \cup Held) <= Cardinality(C) + Cardinality(Held)
    <2>1. IsFiniteSet(C \cup Held)
          /\ Cardinality(C \cup Held) = Cardinality(C) + Cardinality(Held) - Cardinality(C \cap Held)
      BY <1>3, <1>5, FS_Union
    <2>2. Cardinality(C \cap Held) \in Nat BY <1>3, FS_Subset, FS_CardinalityType
    <2>3. Cardinality(Held) \in Nat BY <1>5, FS_CardinalityType
    <2> QED BY <1>3, <2>1, <2>2, <2>3
  <1>7. IsFiniteSet(All) /\ Cardinality(All) <= Cardinality(C \cup Held) + 1
    <2>1. Cardinality(C \cup Held) \in Nat BY <1>6, FS_CardinalityType
    <2>2. IsFiniteSet(All) /\ Cardinality(All) = IF f \in C \cup Held THEN Cardinality(C \cup Held)
                                                ELSE Cardinality(C \cup Held) + 1
      BY <1>6, FS_AddElement, Zenon
    <2> HIDE DEF C, Held, All
    <2> QED BY <2>1, <2>2
  <1>8. Cardinality(Buffers) <= Cardinality(All) BY <1>2, <1>7, FS_Subset
  <1>9. Cardinality(Buffers) = FFUSION_MAX_BUFFERS
    BY Sizes, FS_Interval DEF Buffers
  <1>10. Cardinality(Held) \in Nat /\ Cardinality(Busy) \in Nat /\ Cardinality(C \cup Held) \in Nat
         /\ Cardinality(All) \in Nat
    BY <1>4, <1>5, <1>6, <1>7, FS_CardinalityType
  <1>11. Cardinality(C) < CodecRefs OBVIOUS
  <1> HIDE DEF C, Busy, Held, All
  <1> QED BY <1>3, <1>4, <1>5, <1>6, <1>7, <1>8, <1>9, <1>10, <1>11, Sizes, PoolAssumption

-----------------------------------------------------------------------------
(* One more user of a buffer that shows a picture, or that is taken over:    *)
(* every record still has the picture it was given.                          *)
LEMMA PicturesRetained ==
  ASSUME NEW m \in Nat, NEW p, NEW d, NEW F, PoolInv(m, p, d, F), NEW T, PicInv(p, d, T),
         NEW U, T \subseteq U, NEW i \in Buffers, p.buffers[i].retainCount # 0 \/ i \in U,
         NEW q, q = retainBuffer(p, i),
         NEW e, \A r \in Records : \/ e[r] = d[r]
                                   \/ e[r].buffer = i /\ e[r].picture = p.buffers[i].picture
  PROVE  PicInv(q, e, U)
  <1>1. p \in PoolRecord(m) /\ d \in [Records -> Drps] /\ p.buffers[i].retainCount < 255
    BY CountBound DEF PoolInv
  <1>2. /\ q.returnedTwice = p.returnedTwice
        /\ \A j \in Buffers :
             /\ q.buffers[j].picture = p.buffers[j].picture
             /\ q.buffers[j].retainCount = p.buffers[j].retainCount + One(j = i)
    BY <1>1, Retained
  <1>3. ASSUME NEW j \in Buffers
        PROVE  /\ q.buffers[j].retainCount = 0 => q.buffers[j].picture = Nothing
               /\ j \notin U /\ q.buffers[j].picture = Nothing => q.buffers[j].retainCount = 0
    <2>1. p.buffers[j].retainCount \in Nat BY CountBound
    <2>2. (j = i => One(j = i) = 1) /\ (j # i => One(j = i) = 0) BY DEF One
    <2>3. /\ p.buffers[j].retainCount = 0 => p.buffers[j].picture = Nothing
          /\ j \notin U /\ p.buffers[j].picture = Nothing => p.buffers[j].retainCount = 0
      BY DEF PicInv
    <2>4. CASE j = i
      <3>1. q.buffers[j].retainCount # 0 BY <1>2, <2>1, <2>2, <2>4
      <3>2. j \notin U => p.buffers[j].retainCount # 0 BY <2>4
      <3> QED BY <1>2, <2>3, <3>1, <3>2
    <2>5. CASE j # i
      <3>1. q.buffers[j].retainCount = p.buffers[j].retainCount BY <1>2, <2>1, <2>2, <2>5
      <3> QED BY <1>2, <2>3, <3>1
    <2> QED BY <2>4, <2>5
  <1>4. ASSUME NEW r \in Records, e[r] # NoDrp
        PROVE  e[r].picture = q.buffers[e[r].buffer].picture
    <2>1. CASE e[r] = d[r]
      <3>1. d[r].buffer \in Buffers BY <1>1, <1>4, <2>1 DEF Drps
      <3> QED BY <1>2, <1>4, <2>1, <3>1 DEF PicInv
    <2>2. CASE e[r].buffer = i /\ e[r].picture = p.buffers[i].picture BY <1>2, <2>2
    <2> QED BY <2>1, <2>2
  <1>5. q.returnedTwice \subseteq U BY <1>2 DEF PicInv
  <1> QED BY <1>3, <1>4, <1>5 DEF PicInv

(* One user less: the last one gives the memory back, and nobody is left who *)
(* would draw it.                                                            *)
LEMMA PicturesReleased ==
  ASSUME NEW m \in Nat, NEW p \in PoolRecord(m), NEW d, NEW T, PicInv(p, d, T),
         NEW i \in Buffers, p.buffers[i].retainCount >= 1,
         p.buffers[i].retainCount = 1 => ~p.buffers[i].ffmpegUsing,
         NEW q, q = releaseBuffer(p, i), NEW F, NEW e, PoolInv(m, q, e, F),
         \A r \in Records : e[r] = d[r] \/ e[r] = NoDrp
  PROVE  PicInv(q, e, T)
  <1>1. p.buffers[i].picture # Nothing \/ i \in T BY DEF PicInv
  <1>2. \A j \in Buffers :
          /\ q.buffers[j].picture =
               IF j = i /\ p.buffers[i].retainCount = 1 /\ ~p.buffers[i].ffmpegUsing
               THEN Nothing ELSE p.buffers[j].picture
          /\ q.buffers[j].retainCount = p.buffers[j].retainCount - One(j = i)
    BY Released
  <1>3. q.returnedTwice \subseteq T
    <2>1. /\ q.returnedTwice \subseteq p.returnedTwice \cup {i}
          /\ p.buffers[i].picture # Nothing => q.returnedTwice = p.returnedTwice
      BY Released
    <2>2. p.returnedTwice \subseteq T BY DEF PicInv
    <2> QED BY <1>1, <2>1, <2>2
  <1>4. ASSUME NEW j \in Buffers
        PROVE  /\ q.buffers[j].retainCount = 0 => q.buffers[j].picture = Nothing
               /\ j \notin T /\ q.buffers[j].picture = Nothing => q.buffers[j].retainCount = 0
               /\ q.buffers[j].retainCount # 0 => q.buffers[j].picture = p.buffers[j].picture
    <2>1. p.buffers[j].retainCount \in Nat BY DEF PoolRecord, BufferRecord
    <2>2. (j = i => One(j = i) = 1) /\ (j # i => One(j = i) = 0) BY DEF One
    <2>3. /\ p.buffers[j].retainCount = 0 => p.buffers[j].picture = Nothing
          /\ j \notin T /\ p.buffers[j].picture = Nothing => p.buffers[j].retainCount = 0
      BY DEF PicInv
    <2>4. CASE j = i
      <3>1. q.buffers[j].retainCount = 0 <=> p.buffers[i].retainCount = 1
        BY <1>2, <2>1, <2>2, <2>4
      <3> QED BY <1>1, <1>2, <2>4, <3>1
    <2>5. CASE j # i
      <3>1. q.buffers[j].retainCount = p.buffers[j].retainCount BY <1>2, <2>1, <2>2, <2>5
      <3> QED BY <1>2, <2>3, <2>5, <3>1
    <2> QED BY <2>4, <2>5
  <1>5. ASSUME NEW r \in Records, e[r] # NoDrp
        PROVE  e[r].picture = q.buffers[e[r].buffer].picture
    <2>1. e[r] = d[r] BY <1>5
    <2>2. e[r].buffer \in Buffers BY <1>5 DEF PoolInv, Drps
    <2>3. q.buffers[e[r].buffer].retainCount # 0
      <3>1. One(q.buffers[e[r].buffer].ffmpegUsing) \in Nat BY DEF One
      <3>2. q.buffers[e[r].buffer].retainCount \in Nat
            /\ q.buffers[e[r].buffer].retainCount >= 1 + One(q.buffers[e[r].buffer].ffmpegUsing)
        BY <1>5, <2>2, CountBound
      <3> QED BY <3>1, <3>2
    <2>4. q.buffers[e[r].buffer].picture = p.buffers[e[r].buffer].picture BY <1>4, <2>2, <2>3
    <2> QED BY <1>5, <2>1, <2>4 DEF PicInv
  <1> QED BY <1>3, <1>4, <1>5 DEF PicInv

(* A new picture goes to a buffer that showed none.                          *)
LEMMA PicturesGot ==
  ASSUME NEW m \in Nat, NEW p, NEW d, NEW F, PoolInv(m, p, d, F), NEW T, PicInv(p, d, T),
         Free(p) # {}, NEW q, q = FFusionGetBuffer(p, m + 1)
  PROVE  PicInv(q, d, T \ {FirstFree(p)})
  <1> DEFINE i == FirstFree(p)
  <1>1. p \in PoolRecord(m) /\ d \in [Records -> Drps] BY DEF PoolInv
  <1>2. /\ i \in Buffers /\ p.buffers[i].retainCount = 0
        /\ q.returnedTwice = p.returnedTwice \ {i}
        /\ q.buffers[i].retainCount = 1 /\ q.buffers[i].picture = m + 1
        /\ \A j \in Buffers \ {i} : q.buffers[j] = p.buffers[j]
    BY <1>1, Got
  <1> HIDE DEF i
  <1>3. m + 1 # Nothing BY PoolAssumption
  <1>4. ASSUME NEW r \in Records, d[r] # NoDrp
        PROVE  d[r].buffer \in Buffers \ {i}
    <2>1. d[r].buffer \in Buffers BY <1>1, <1>4 DEF Drps
    <2>2. One(p.buffers[i].ffmpegUsing) \in Nat BY DEF One
    <2>3. d[r].buffer = i => p.buffers[i].retainCount >= 1 + One(p.buffers[i].ffmpegUsing)
      BY <1>2, <1>4, CountBound
    <2> QED BY <1>2, <2>1, <2>2, <2>3
  <1>5. ASSUME NEW j \in Buffers
        PROVE  /\ q.buffers[j].retainCount = 0 => q.buffers[j].picture = Nothing
               /\ j \notin T \ {i} /\ q.buffers[j].picture = Nothing => q.buffers[j].retainCount = 0
    <2>1. CASE j = i BY <1>2, <1>3, <2>1
    <2>2. CASE j # i BY <1>2, <2>2 DEF PicInv
    <2> QED BY <2>1, <2>2
  <1>6. q.returnedTwice \subseteq T \ {i} BY <1>2 DEF PicInv
  <1>7. \A r \in Records : d[r] # NoDrp => d[r].picture = q.buffers[d[r].buffer].picture
    BY <1>2, <1>4 DEF PicInv
  <1> QED BY <1>5, <1>6, <1>7 DEF PicInv, i

(* A frame number changes neither counts nor pictures.                       *)
LEMMA NumberKeeps ==
  ASSUME NEW m, NEW p, NEW d, NEW F, PoolInv(m, p, d, F),
         NEW i \in Buffers, NEW n \in Nat, NEW q, q = Number(p, i, n)
  PROVE  /\ PoolInv(m, q, d, F)
         /\ \A T : PicInv(p, d, T) => PicInv(q, d, T)
         /\ q.lastAllocatedBuffer = p.lastAllocatedBuffer
         /\ \A j \in Buffers : /\ q.buffers[j].everUsed = p.buffers[j].everUsed
                               /\ q.buffers[j].picture = p.buffers[j].picture
  <1>1. p \in PoolRecord(m) /\ d \in [Records -> Drps] BY DEF PoolInv
  <1>2. /\ q \in PoolRecord(m)
        /\ q.lastAllocatedBuffer = p.lastAllocatedBuffer
        /\ q.returnedTwice = p.returnedTwice
        /\ \A j \in Buffers :
             /\ Same(p, q, j)
             /\ q.buffers[j].picture = p.buffers[j].picture
             /\ q.buffers[j].retainCount = p.buffers[j].retainCount
    BY <1>1, Numbered
  <1>3. \A j \in Buffers : Counted(p, d, F, j) => Counted(q, d, F, j)
    BY <1>2 DEF Counted, Same
  <1>4. PoolInv(m, q, d, F) BY <1>2, <1>3 DEF PoolInv, Same
  <1>5. \A r \in Records : d[r] # NoDrp => d[r].buffer \in Buffers BY <1>1 DEF Drps
  <1>6. \A T : PicInv(p, d, T) => PicInv(q, d, T) BY <1>2, <1>5 DEF PicInv
  <1> QED BY <1>2, <1>4, <1>6 DEF Same

(* The set of future frames matters only as far as they are buffers.         *)
LEMMA SameFutures ==
  ASSUME NEW m, NEW p, NEW d, NEW F, PoolInv(m, p, d, F),
         NEW G, \A i \in Buffers : i \in F <=> i \in G
  PROVE  PoolInv(m, p, d, G)
  <1>1. \A i \in Buffers : One(i \in F) = One(i \in G) BY DEF One
  <1>2. \A i \in Buffers : Counted(p, d, F, i) => Counted(p, d, G, i) BY <1>1 DEF Counted
  <1> QED BY <1>2 DEF PoolInv

\* What a step from pool p to pool q has to see to, for records d and future f.
Sound(m, p, q, d, f) ==
  /\ PoolInv(m, q, d, {f})
  /\ \A T : PicInv(p, d, T) => PicInv(q, d, T)
  /\ q.lastAllocatedBuffer = p.lastAllocatedBuffer
  /\ \A j \in Buffers : q.buffers[j].everUsed = p.buffers[j].everUsed

(* setFutureFrame: the new frame is retained, then the old one is released.  *)
LEMMA FutureSet ==
  ASSUME NEW m \in Nat, NEW p, NEW d, NEW old \in Buffers \cup {None}, PoolInv(m, p, d, {old}),
         NEW new \in Buffers \cup {None},
         new # None => new # old /\ p.buffers[new].retainCount # 0,
         NEW q, q = setFutureFrame(p, old, new)
  PROVE  Sound(m, p, q, d, new)
  <1> DEFINE kept == IF new = None THEN p ELSE retainBuffer(p, new)
  <1>0. None \notin Buffers BY Sizes
  <1>1. /\ PoolInv(m, kept, d, {old, new})
        /\ \A T : PicInv(p, d, T) => PicInv(kept, d, T)
        /\ kept.lastAllocatedBuffer = p.lastAllocatedBuffer
        /\ \A j \in Buffers : kept.buffers[j].everUsed = p.buffers[j].everUsed
    <2>1. CASE new = None
      <3>1. PoolInv(m, p, d, {old, new}) BY <1>0, <2>1, SameFutures
      <3> QED BY <2>1, <3>1
    <2>2. CASE new # None
      <3>1. /\ new \in Buffers /\ new \notin {old} /\ p.buffers[new].retainCount # 0
            /\ p.buffers[new].everUsed /\ p.buffers[new].retainCount < 255
            /\ p \in PoolRecord(m) /\ kept = retainBuffer(p, new)
        BY <2>2, CountBound DEF PoolInv
      <3> HIDE DEF kept
      <3>2. PoolInv(m, kept, d, {old} \cup {new}) BY <3>1, FutureRetains
      <3>3. \A T : PicInv(p, d, T) => PicInv(kept, d, T) BY <3>1, PicturesRetained
      <3>4. /\ kept.lastAllocatedBuffer = p.lastAllocatedBuffer
            /\ \A j \in Buffers : kept.buffers[j].everUsed = p.buffers[j].everUsed
        BY <3>1, Retained DEF Same
      <3>5. {old} \cup {new} = {old, new} OBVIOUS
      <3> QED BY <3>2, <3>3, <3>4, <3>5
    <2> QED BY <2>1, <2>2
  <1>2. q = IF old = None THEN kept ELSE releaseBuffer(kept, old) BY DEF setFutureFrame
  <1> HIDE DEF kept
  <1>3. CASE old = None
    <2>1. PoolInv(m, kept, d, {new}) BY <1>0, <1>1, <1>3, SameFutures
    <2> QED BY <1>1, <1>2, <1>3, <2>1 DEF Sound
  <1>4. CASE old # None
    <2>1. /\ old \in Buffers /\ q = releaseBuffer(kept, old) /\ kept \in PoolRecord(m)
      BY <1>1, <1>2, <1>4 DEF PoolInv
    <2>2. /\ kept.buffers[old].retainCount >= 1
          /\ kept.buffers[old].retainCount = 1 => ~kept.buffers[old].ffmpegUsing
      <3>1. kept.buffers[old].retainCount \in Nat
            /\ kept.buffers[old].retainCount >= 1 + One(kept.buffers[old].ffmpegUsing)
        BY <1>1, <2>1, CountBound
      <3>2. /\ One(kept.buffers[old].ffmpegUsing) \in Nat
            /\ kept.buffers[old].ffmpegUsing => One(kept.buffers[old].ffmpegUsing) = 1
        BY DEF One
      <3> QED BY <3>1, <3>2
    <2>3. PoolInv(m, q, d, {old, new} \ {old}) BY <1>1, <2>1, FutureReleases
    <2>4. PoolInv(m, q, d, {new})
      <3>1. \A i \in Buffers : i \in {old, new} \ {old} <=> i \in {new} BY <1>0
      <3> QED BY <2>3, <3>1, SameFutures
    <2>5. \A T : PicInv(kept, d, T) => PicInv(q, d, T)
      BY <1>1, <2>1, <2>2, <2>4, PicturesReleased
    <2>6. /\ q.lastAllocatedBuffer = kept.lastAllocatedBuffer
          /\ \A j \in Buffers : q.buffers[j].everUsed = kept.buffers[j].everUsed
      BY <2>1, <2>2, Released DEF Same
    <2> QED BY <1>1, <2>4, <2>5, <2>6 DEF Sound
  <1> QED BY <1>3, <1>4

-----------------------------------------------------------------------------
IInv ==
  /\ knowsOrder \in BOOLEAN
  /\ made \in Nat
  /\ future \in Buffers \cup {None}
  /\ PoolInv(made, pool, drp, {future})
  /\ made > 0 => pool.buffers[pool.lastAllocatedBuffer].everUsed
  /\ PicInv(pool, drp, taken) /\ taken \subseteq Buffers

(* A record that takes buffer i of pool p, which shows a picture unless it   *)
(* is taken over (it is in U then); it may get a number.                     *)
LEMMA Taken ==
  ASSUME NEW m \in Nat, NEW p, NEW F, PoolInv(m, p, drp, F),
         NEW r \in Records, drp[r] = NoDrp, NEW i \in Buffers, p.buffers[i].everUsed,
         NEW n \in Nat, NEW q, q = retainBuffer(p, i) \/ q = Number(retainBuffer(p, i), i, n),
         Hold(r, q, i)
  PROVE  /\ PoolInv(m, q, drp', F)
         /\ \A T, U : PicInv(p, drp, T) /\ T \subseteq U /\ (p.buffers[i].retainCount # 0 \/ i \in U)
                       => PicInv(q, drp', U)
         /\ q.lastAllocatedBuffer = p.lastAllocatedBuffer
         /\ \A j \in Buffers : q.buffers[j].everUsed = p.buffers[j].everUsed
  <1> DEFINE k == retainBuffer(p, i)
             x == [buffer |-> i, picture |-> p.buffers[i].picture]
             e == [drp EXCEPT ![r] = x]
  <1>1. /\ p \in PoolRecord(m) /\ drp \in [Records -> Drps]
        /\ p.buffers[i].retainCount < 255
    BY CountBound DEF PoolInv
  <1>2. /\ k.lastAllocatedBuffer = p.lastAllocatedBuffer
        /\ \A j \in Buffers : /\ k.buffers[j].everUsed = p.buffers[j].everUsed
                              /\ k.buffers[j].picture = p.buffers[j].picture
    BY <1>1, Retained DEF Same
  <1>3. x \in Drps /\ x.buffer = i /\ x.picture = p.buffers[i].picture
    <2>1. p.buffers[i].picture \in {Nothing} \cup Nat BY <1>1 DEF PoolRecord, BufferRecord
    <2> QED BY <2>1 DEF Drps
  <1> HIDE DEF k, x
  <1>4. PoolInv(m, k, e, F) BY <1>3, RecordRetains DEF k
  <1>5. \A s \in Records : e[s] = drp[s] \/ e[s] = x BY <1>1
  <1> HIDE DEF e
  <1>6. \A T, U : PicInv(p, drp, T) /\ T \subseteq U /\ (p.buffers[i].retainCount # 0 \/ i \in U)
                   => PicInv(k, e, U)
    BY <1>3, <1>5, PicturesRetained DEF k
  <1>7. CASE q = k
    <2>1. drp' = e
      <3>1. [buffer |-> i, picture |-> q.buffers[i].picture] = x BY <1>2, <1>7 DEF x
      <3> QED BY <3>1 DEF Hold, e
    <2> QED BY <1>2, <1>4, <1>6, <1>7, <2>1
  <1>8. CASE q = Number(k, i, n)
    <2>1. /\ PoolInv(m, q, e, F)
          /\ \A U : PicInv(k, e, U) => PicInv(q, e, U)
          /\ q.lastAllocatedBuffer = k.lastAllocatedBuffer
          /\ \A j \in Buffers : /\ q.buffers[j].everUsed = k.buffers[j].everUsed
                                /\ q.buffers[j].picture = k.buffers[j].picture
      BY <1>4, <1>8, NumberKeeps
    <2>2. drp' = e
      <3>1. [buffer |-> i, picture |-> q.buffers[i].picture] = x BY <1>2, <2>1 DEF x
      <3> QED BY <3>1 DEF Hold, e
    <2> QED BY <1>2, <1>6, <2>1, <2>2
  <1> QED BY <1>7, <1>8 DEF k

(* The steps in which libavcodec makes a picture have a buffer for it.       *)
LEMMA PictureMade ==
  ASSUME IInv, CodecMayDecode, NEW r \in Records, drp[r] = NoDrp,
         NEW got, got = FFusionGetBuffer(pool, made + 1), NEW i, i = got.lastAllocatedBuffer
  PROVE  /\ made + 1 \in Nat
         /\ PoolInv(made + 1, got, drp, {future})
         /\ i \in Buffers /\ i # future
         /\ got.buffers[i].everUsed /\ got.buffers[i].retainCount # 0
         /\ PicInv(got, drp, taken \ {i})
  <1>1. PoolInv(made, pool, drp, {future}) /\ made \in Nat BY DEF IInv
  <1>2. Free(pool) # {} BY <1>1, BufferForPicture DEF CodecMayDecode, CodecHolds
  <1>3. /\ i = FirstFree(pool) /\ i \in Buffers
        /\ got.buffers[i].everUsed /\ got.buffers[i].retainCount # 0
    BY <1>1, <1>2, Got DEF PoolInv
  <1>4. PoolInv(made + 1, got, drp, {future}) /\ i \notin {future}
    BY <1>1, <1>2, <1>3, CodecGets
  <1>5. PicInv(got, drp, taken \ {i}) BY <1>1, <1>2, <1>3, PicturesGot DEF IInv
  <1> QED BY <1>1, <1>3, <1>4, <1>5

LEMMA DecodeBandStep ==
  ASSUME IInv, NEW r \in Records, DecodeBand(r)
  PROVE  IInv'
  <1> DEFINE got == FFusionGetBuffer(pool, made + 1)
             i   == got.lastAllocatedBuffer
  <1>1. /\ PoolInv(made + 1, got, drp, {future}) /\ made + 1 \in Nat
        /\ i \in Buffers /\ got.buffers[i].everUsed /\ got.buffers[i].retainCount # 0
        /\ PicInv(got, drp, taken \ {i})
    BY PictureMade DEF DecodeBand
  <1>2. /\ drp[r] = NoDrp /\ made' = made + 1 /\ UNCHANGED <<knowsOrder, future>>
        /\ pool' = retainBuffer(got, i) \/ pool' = Number(retainBuffer(got, i), i, made + 1)
        /\ Hold(r, pool', i) /\ taken' = taken \ {i}
    BY DEF DecodeBand, Number
  <1>3. got.lastAllocatedBuffer = i OBVIOUS
  <1> HIDE DEF got, i
  <1>4. /\ PoolInv(made + 1, pool', drp', {future})
        /\ PicInv(pool', drp', taken')
        /\ pool'.lastAllocatedBuffer = got.lastAllocatedBuffer
        /\ \A j \in Buffers : pool'.buffers[j].everUsed = got.buffers[j].everUsed
    <2>1. /\ PoolInv(made + 1, pool', drp', {future})
          /\ \A T, U : PicInv(got, drp, T) /\ T \subseteq U /\ (got.buffers[i].retainCount # 0 \/ i \in U)
                        => PicInv(pool', drp', U)
          /\ pool'.lastAllocatedBuffer = got.lastAllocatedBuffer
          /\ \A j \in Buffers : pool'.buffers[j].everUsed = got.buffers[j].everUsed
      <3>1. PICK m \in Nat : m = made + 1 BY <1>1
      <3>2. PoolInv(m, got, drp, {future}) BY <1>1, <3>1
      <3>3. pool' = retainBuffer(got, i) \/ pool' = Number(retainBuffer(got, i), i, m) BY <1>2, <3>1
      <3>4. /\ PoolInv(m, pool', drp', {future})
            /\ \A T, U : PicInv(got, drp, T) /\ T \subseteq U /\ (got.buffers[i].retainCount # 0 \/ i \in U)
                          => PicInv(pool', drp', U)
            /\ pool'.lastAllocatedBuffer = got.lastAllocatedBuffer
            /\ \A j \in Buffers : pool'.buffers[j].everUsed = got.buffers[j].everUsed
        <4>1. /\ drp[r] = NoDrp /\ Hold(r, pool', i) /\ i \in Buffers /\ got.buffers[i].everUsed
          BY <1>1, <1>2
        <4>2. CASE pool' = retainBuffer(got, i) BY ONLY SMTT(40), <3>1, <3>2, <4>1, <4>2, Taken
        <4>3. CASE pool' = Number(retainBuffer(got, i), i, m) BY ONLY SMTT(40), <3>1, <3>2, <4>1, <4>3, Taken
        <4> QED BY <3>3, <4>2, <4>3
      <3> QED BY <3>1, <3>4
    <2>2. PicInv(got, drp, taken \ {i}) => PicInv(pool', drp', taken \ {i}) BY <1>1, <2>1
    <2> QED BY <1>1, <1>2, <2>1, <2>2
  <1> QED BY <1>1, <1>2, <1>3, <1>4 DEF IInv

LEMMA DecodeBandNoPictureStep ==
  ASSUME IInv, NEW r \in Records, DecodeBandNoPicture(r)
  PROVE  IInv'
  <1> DEFINE i == pool.lastAllocatedBuffer
  <1>1. /\ PoolInv(made, pool, drp, {future}) /\ made \in Nat
        /\ i \in Buffers /\ pool.buffers[i].everUsed
    BY DEF IInv, PoolInv, PoolRecord, DecodeBandNoPicture
  <1>2. /\ drp[r] = NoDrp /\ UNCHANGED <<knowsOrder, future, made>>
        /\ pool' = Number(retainBuffer(pool, i), i, made)
        /\ Hold(r, pool', i)
        /\ taken \subseteq taken' /\ taken' \subseteq taken \cup {i}
        /\ pool.buffers[i].retainCount # 0 \/ i \in taken'
    BY <1>1 DEF DecodeBandNoPicture, Number, Free
  <1> HIDE DEF i
  <1>3. /\ PoolInv(made, pool', drp', {future})
        /\ PicInv(pool, drp, taken) => PicInv(pool', drp', taken')
        /\ pool'.lastAllocatedBuffer = pool.lastAllocatedBuffer
        /\ \A j \in Buffers : pool'.buffers[j].everUsed = pool.buffers[j].everUsed
    BY <1>1, <1>2, Taken
  <1> QED BY <1>1, <1>2, <1>3 DEF IInv, i

LEMMA PrereqDecodeStep ==
  ASSUME IInv, PrereqDecode
  PROVE  IInv'
  <1> DEFINE got == FFusionGetBuffer(pool, made + 1)
             i   == got.lastAllocatedBuffer
  <1>1. PICK r \in Records : drp[r] = NoDrp BY DEF PrereqDecode
  <1>2. /\ PoolInv(made + 1, got, drp, {future}) /\ made + 1 \in Nat
        /\ i \in Buffers /\ i # future
        /\ got.buffers[i].everUsed /\ got.buffers[i].retainCount # 0
        /\ PicInv(got, drp, taken \ {i})
    BY <1>1, PictureMade DEF PrereqDecode
  <1>3. /\ made' = made + 1 /\ UNCHANGED <<knowsOrder, drp>>
        /\ pool' = setFutureFrame(got, future, i) /\ future' = i /\ taken' = taken \ {i}
    BY DEF PrereqDecode
  <1>4. got.lastAllocatedBuffer = i OBVIOUS
  <1> HIDE DEF got, i
  <1>5. /\ PoolInv(made + 1, pool', drp, {i})
        /\ \A T : PicInv(got, drp, T) => PicInv(pool', drp, T)
        /\ pool'.lastAllocatedBuffer = got.lastAllocatedBuffer
        /\ \A j \in Buffers : pool'.buffers[j].everUsed = got.buffers[j].everUsed
    <2>1. PICK m \in Nat : m = made + 1 BY <1>2
    <2>2. /\ PoolInv(m, got, drp, {future})
          /\ future \in Buffers \cup {None} /\ i \in Buffers \cup {None}
          /\ i # None => i # future /\ got.buffers[i].retainCount # 0
          /\ pool' = setFutureFrame(got, future, i)
      BY <1>2, <1>3, <2>1 DEF IInv
    <2>3. Sound(m, got, pool', drp, i) BY <2>2, FutureSet
    <2> QED BY <2>1, <2>3 DEF Sound
  <1> QED BY <1>2, <1>3, <1>4, <1>5 DEF IInv

LEMMA ShowFutureStep ==
  ASSUME IInv, NEW r \in Records, ShowFuture(r)
  PROVE  IInv'
  <1> DEFINE kept == retainBuffer(pool, future)
  <1>1. /\ PoolInv(made, pool, drp, {future}) /\ made \in Nat /\ future \in Buffers
        /\ drp[r] = NoDrp /\ future' = None /\ UNCHANGED <<knowsOrder, made, taken>>
        /\ pool' = setFutureFrame(kept, future, None) /\ Hold(r, kept, future)
    BY DEF IInv, ShowFuture
  <1>2. pool.buffers[future].retainCount # 0 /\ pool.buffers[future].everUsed
    <2>1. One(pool.buffers[future].ffmpegUsing) \in Nat BY DEF One
    <2>2. pool.buffers[future].retainCount >= 1 + One(pool.buffers[future].ffmpegUsing)
          /\ pool.buffers[future].retainCount \in Nat
      BY <1>1, CountBound
    <2>3. pool.buffers[future].retainCount # 0 BY <2>1, <2>2
    <2> QED BY <1>1, <2>3 DEF PoolInv
  <1>3. /\ PoolInv(made, kept, drp', {future})
        /\ PicInv(pool, drp, taken) => PicInv(kept, drp', taken)
        /\ kept.lastAllocatedBuffer = pool.lastAllocatedBuffer
        /\ \A j \in Buffers : kept.buffers[j].everUsed = pool.buffers[j].everUsed
    BY <1>1, <1>2, Taken
  <1> HIDE DEF kept
  <1>4. /\ PoolInv(made, pool', drp', {None})
        /\ PicInv(kept, drp', taken) => PicInv(pool', drp', taken)
        /\ pool'.lastAllocatedBuffer = kept.lastAllocatedBuffer
        /\ \A j \in Buffers : pool'.buffers[j].everUsed = kept.buffers[j].everUsed
    BY <1>1, <1>3, FutureSet DEF Sound
  <1>5. pool.lastAllocatedBuffer \in Buffers BY <1>1 DEF PoolInv, PoolRecord
  <1> QED BY <1>1, <1>2, <1>3, <1>4, <1>5 DEF IInv

LEMMA WipeFutureStep ==
  ASSUME IInv, WipeFuture
  PROVE  IInv'
  <1>1. /\ PoolInv(made, pool, drp, {future}) /\ made \in Nat /\ future \in Buffers \cup {None}
        /\ future' = None /\ UNCHANGED <<knowsOrder, drp, made, taken>>
        /\ pool' = setFutureFrame(pool, future, None)
    BY DEF IInv, WipeFuture
  <1>2. /\ PoolInv(made, pool', drp, {None})
        /\ PicInv(pool, drp, taken) => PicInv(pool', drp, taken)
        /\ pool'.lastAllocatedBuffer = pool.lastAllocatedBuffer
        /\ \A j \in Buffers : pool'.buffers[j].everUsed = pool.buffers[j].everUsed
    BY <1>1, FutureSet DEF Sound
  <1>3. pool.lastAllocatedBuffer \in Buffers BY <1>1 DEF PoolInv, PoolRecord
  <1> QED BY <1>1, <1>2, <1>3 DEF IInv

LEMMA BeginBandDecodedStep ==
  ASSUME IInv, NEW r \in Records, NEW k, BeginBandDecoded(r, k)
  PROVE  IInv'
  <1>1. PICK i \in BuffersOf(pool, k) : pool' = retainBuffer(pool, i) /\ Hold(r, pool', i)
    BY DEF BeginBandDecoded
  <1>2. /\ PoolInv(made, pool, drp, {future}) /\ made \in Nat
        /\ i \in Buffers /\ pool.buffers[i].retainCount # 0 /\ pool.buffers[i].everUsed
        /\ drp[r] = NoDrp /\ UNCHANGED <<knowsOrder, future, made, taken>>
    BY DEF IInv, PoolInv, BuffersOf, BeginBandDecoded
  <1>3. /\ PoolInv(made, pool', drp', {future})
        /\ PicInv(pool, drp, taken) => PicInv(pool', drp', taken)
        /\ pool'.lastAllocatedBuffer = pool.lastAllocatedBuffer
        /\ \A j \in Buffers : pool'.buffers[j].everUsed = pool.buffers[j].everUsed
    <2>1. /\ PoolInv(made, pool', drp', {future})
          /\ \A T, U : PicInv(pool, drp, T) /\ T \subseteq U /\ (pool.buffers[i].retainCount # 0 \/ i \in U)
                        => PicInv(pool', drp', U)
          /\ pool'.lastAllocatedBuffer = pool.lastAllocatedBuffer
          /\ \A j \in Buffers : pool'.buffers[j].everUsed = pool.buffers[j].everUsed
      BY ONLY <1>1, <1>2, Taken
    <2>2. PicInv(pool, drp, taken) => PicInv(pool', drp', taken) BY <1>2, <2>1
    <2> QED BY <2>1, <2>2
  <1>4. pool.lastAllocatedBuffer \in Buffers BY <1>2 DEF PoolInv, PoolRecord
  <1> QED BY <1>2, <1>3, <1>4 DEF IInv

LEMMA EndBandStep ==
  ASSUME IInv, NEW r \in Records, EndBand(r)
  PROVE  IInv'
  <1> DEFINE i == drp[r].buffer
  <1>1. /\ PoolInv(made, pool, drp, {future}) /\ made \in Nat /\ drp[r] # NoDrp
        /\ drp' = [drp EXCEPT ![r] = NoDrp] /\ UNCHANGED <<knowsOrder, future, made, taken>>
        /\ pool' = IF pool.buffers[i].everUsed THEN releaseBuffer(pool, i) ELSE pool
    BY DEF IInv, EndBand
  <1> HIDE DEF i
  <1>2. i \in Buffers /\ pool.buffers[i].everUsed BY <1>1, RecordReleases DEF i
  <1>3. pool' = releaseBuffer(pool, i) BY <1>1, <1>2
  <1>4. PoolInv(made, pool', drp', {future}) BY <1>1, <1>3, RecordReleases DEF i
  <1>5. /\ pool.buffers[i].retainCount >= 1
        /\ pool.buffers[i].retainCount = 1 => ~pool.buffers[i].ffmpegUsing
    <2>1. pool.buffers[i].retainCount \in Nat
          /\ pool.buffers[i].retainCount >= 1 + One(pool.buffers[i].ffmpegUsing)
      BY <1>1, <1>2, CountBound DEF i
    <2>2. /\ One(pool.buffers[i].ffmpegUsing) \in Nat
          /\ pool.buffers[i].ffmpegUsing => One(pool.buffers[i].ffmpegUsing) = 1
      BY DEF One
    <2> QED BY <2>1, <2>2
  <1>6. pool \in PoolRecord(made) /\ drp \in [Records -> Drps] BY <1>1 DEF PoolInv
  <1>7. \A s \in Records : drp'[s] = drp[s] \/ drp'[s] = NoDrp BY <1>1, <1>6
  <1>8. PicInv(pool, drp, taken) => PicInv(pool', drp', taken)
    BY <1>1, <1>2, <1>3, <1>4, <1>5, <1>6, <1>7, PicturesReleased
  <1>9. /\ pool'.lastAllocatedBuffer = pool.lastAllocatedBuffer
        /\ \A j \in Buffers : pool'.buffers[j].everUsed = pool.buffers[j].everUsed
    BY <1>1, <1>2, <1>3, <1>5, <1>6, Released DEF Same
  <1>10. pool.lastAllocatedBuffer \in Buffers BY <1>6 DEF PoolRecord
  <1> QED BY <1>1, <1>4, <1>8, <1>9, <1>10 DEF IInv

LEMMA CodecReleasesStep ==
  ASSUME IInv, NEW i \in Buffers, CodecReleases(i)
  PROVE  IInv'
  <1> DEFINE u == Unmark(pool, i)
  <1>1. /\ PoolInv(made, pool, drp, {future}) /\ made \in Nat
        /\ pool.buffers[i].ffmpegUsing /\ UNCHANGED <<knowsOrder, future, drp, made, taken>>
        /\ pool' = FFusionReleaseBuffer(pool, i) /\ pool' = releaseBuffer(u, i)
    BY DEF IInv, CodecReleases, CodecHolds, FFusionReleaseBuffer, Unmark
  <1>2. PoolInv(made, pool', drp, {future}) BY <1>1, CodecLetsGo
  <1>3. pool \in PoolRecord(made) /\ drp \in [Records -> Drps] /\ pool.buffers[i].retainCount >= 1
    BY <1>1, CountBound DEF PoolInv
  <1>4. /\ u \in PoolRecord(made)
        /\ u.lastAllocatedBuffer = pool.lastAllocatedBuffer
        /\ u.returnedTwice = pool.returnedTwice
        /\ ~u.buffers[i].ffmpegUsing
        /\ \A j \in Buffers :
             /\ u.buffers[j].everUsed = pool.buffers[j].everUsed
             /\ u.buffers[j].picture = pool.buffers[j].picture
             /\ u.buffers[j].retainCount = pool.buffers[j].retainCount
    BY <1>3, Unmarked
  <1> HIDE DEF u
  <1>5. PicInv(pool, drp, taken) => PicInv(u, drp, taken)
    <2>1. \A r \in Records : drp[r] # NoDrp => drp[r].buffer \in Buffers BY <1>3 DEF Drps
    <2> QED BY <1>4, <2>1 DEF PicInv
  <1>6. PicInv(u, drp, taken) => PicInv(pool', drp, taken)
    BY <1>1, <1>2, <1>3, <1>4, PicturesReleased
  <1>7. /\ pool'.lastAllocatedBuffer = pool.lastAllocatedBuffer
        /\ \A j \in Buffers : pool'.buffers[j].everUsed = pool.buffers[j].everUsed
    BY <1>1, <1>3, <1>4, Released DEF Same
  <1>8. pool.lastAllocatedBuffer \in Buffers BY <1>3 DEF PoolRecord
  <1> QED BY <1>1, <1>2, <1>5, <1>6, <1>7, <1>8 DEF IInv

-----------------------------------------------------------------------------
LEMMA InitIInv == Init => IInv
  <1> SUFFICES ASSUME Init PROVE IInv OBVIOUS
  <1>1. pool \in PoolRecord(0)
    BY Sizes DEF Init, EmptyPool, PoolRecord, BufferRecord
  <1>2. drp \in [Records -> Drps] /\ \A r \in Records : drp[r] = NoDrp BY DEF Init, Drps
  <1>3. ASSUME NEW i \in Buffers
        PROVE  Counted(pool, drp, {None}, i) /\ pool.buffers[i].retainCount = 0
               /\ pool.buffers[i].picture = Nothing
    <2>1. UsersIn(drp, i) = {} BY <1>2, Sizes DEF UsersIn, NoDrp
    <2>2. Cardinality(UsersIn(drp, i)) = 0 BY <2>1, FS_EmptySet
    <2>3. /\ pool.buffers[i].retainCount = 0 /\ pool.buffers[i].picture = Nothing
          /\ One(pool.buffers[i].ffmpegUsing) = 0 /\ One(i \in {None}) = 0
      BY Sizes DEF Init, EmptyPool, One
    <2> QED BY <2>2, <2>3 DEF Counted
  <1>4. PoolInv(0, pool, drp, {None}) BY <1>1, <1>2, <1>3 DEF PoolInv
  <1>5. pool.returnedTwice = {} /\ taken = {} BY DEF Init, EmptyPool
  <1>6. PicInv(pool, drp, taken) BY <1>2, <1>3, <1>5 DEF PicInv
  <1> QED BY <1>4, <1>5, <1>6 DEF Init, IInv

LEMMA NextIInv == IInv /\ [Next]_vars => IInv'
  <1> SUFFICES ASSUME IInv, [Next]_vars PROVE IInv' OBVIOUS
  <1>1. CASE UNCHANGED vars
    BY <1>1 DEF vars, IInv, PoolInv, PicInv, Counted, UsersIn
  <1>2. ASSUME NEW r \in Records, DecodeBand(r) PROVE IInv' BY <1>2, DecodeBandStep
  <1>3. ASSUME NEW r \in Records, DecodeBandNoPicture(r) PROVE IInv'
    BY <1>3, DecodeBandNoPictureStep
  <1>4. ASSUME NEW r \in Records, ShowFuture(r) PROVE IInv' BY <1>4, ShowFutureStep
  <1>5. ASSUME NEW r \in Records, EndBand(r) PROVE IInv' BY <1>5, EndBandStep
  <1>6. ASSUME NEW r \in Records, NEW k \in 1 .. MaxPictures, BeginBandDecoded(r, k) PROVE IInv'
    BY <1>6, BeginBandDecodedStep
  <1>7. CASE PrereqDecode BY <1>7, PrereqDecodeStep
  <1>8. CASE WipeFuture BY <1>8, WipeFutureStep
  <1>9. ASSUME NEW i \in Buffers, CodecReleases(i) PROVE IInv' BY <1>9, CodecReleasesStep
  <1> QED BY <1>1, <1>2, <1>3, <1>4, <1>5, <1>6, <1>7, <1>8, <1>9 DEF Next

LEMMA SpecIInv == Spec => []IInv
  BY InitIInv, NextIInv, PTL DEF Spec

(* A record is free exactly when it has no buffer; what a record holds is in *)
(* the pool.                                                                 *)
LEMMA HoldsBuffer ==
  ASSUME IInv, NEW r \in Records, drp[r] # NoDrp
  PROVE  /\ drp[r].buffer \in Buffers
         /\ pool.buffers[drp[r].buffer].retainCount # 0
  <1>1. drp[r].buffer \in Buffers BY DEF IInv, PoolInv, Drps
  <1>2. One(pool.buffers[drp[r].buffer].ffmpegUsing) \in Nat BY DEF One
  <1>3. /\ pool.buffers[drp[r].buffer].retainCount \in Nat
        /\ pool.buffers[drp[r].buffer].retainCount >= 1 + One(pool.buffers[drp[r].buffer].ffmpegUsing)
    BY <1>1, CountBound DEF IInv
  <1> QED BY <1>1, <1>2, <1>3

(* Types: no count comes near the limit of its uint8_t, and every reference  *)
(* to a buffer is one of the array.                                          *)
THEOREM PoolTypeOK == Spec => []TypeOK
  <1>1. IInv => TypeOK
    <2> SUFFICES ASSUME IInv PROVE TypeOK OBVIOUS
    <2>1. pool \in PoolRecord(made) /\ drp \in [Records -> Drps] BY DEF IInv, PoolInv
    <2>2. \A i \in Buffers : pool.buffers[i].retainCount \in 0 .. Cardinality(Records) + 2
      BY CountBound DEF IInv
    <2>3. \A i \in Buffers : pool.buffers[i].picture \in {Nothing} \cup 1 .. made
      BY <2>1 DEF PoolRecord, BufferRecord
    <2>4. \A r \in Records : drp[r].buffer \in Buffers \cup {None}
      BY <2>1 DEF Drps, NoDrp
    <2> QED BY <2>1, <2>2, <2>3, <2>4 DEF TypeOK, IInv, PoolRecord
  <1> QED BY <1>1, SpecIInv, PTL

(* retainBuffer and releaseBuffer pair up in every order of decodes, draws,  *)
(* ends and releases by libavcodec: a buffer's count is that of its users.   *)
THEOREM CountsAreUsers == Spec => []RetainCountExact
  <1>1. IInv => RetainCountExact
    <2> SUFFICES ASSUME IInv, NEW i \in Buffers
                 PROVE  pool.buffers[i].retainCount = Cardinality(Users(i))
                          + One(pool.buffers[i].ffmpegUsing) + One(future = i)
      BY DEF RetainCountExact
    <2>1. Counted(pool, drp, {future}, i) BY DEF IInv, PoolInv
    <2>2. Users(i) = UsersIn(drp, i) BY DEF Users, UsersIn
    <2>3. One(i \in {future}) = One(future = i) BY DEF One
    <2> QED BY <2>1, <2>2, <2>3 DEF Counted
  <1> QED BY <1>1, SpecIInv, PTL

(* FFusionGetBuffer always finds a buffer, given as many as references and   *)
(* records: that it says nothing when there is none does not matter.         *)
THEOREM NeverOutOfBuffers == Spec => []AlwaysABuffer
  <1>1. IInv => AlwaysABuffer
    BY BufferForPicture DEF IInv, AlwaysABuffer, CodecMayDecode, CodecHolds
  <1> QED BY <1>1, SpecIInv, PTL

(* The memory a record will draw stays what it was until the record has      *)
(* ended, and is a picture unless the record, or one before it, took over a  *)
(* buffer that nobody used any more.                                         *)
THEOREM PicturesStay == Spec => []RecordsKeepPicture
  <1>1. IInv => RecordsKeepPicture
    BY HoldsBuffer DEF IInv, PicInv, RecordsKeepPicture
  <1> QED BY <1>1, SpecIInv, PTL

(* libavcodec gets the memory of each picture back when its last user is     *)
(* done with it, and once, unless its buffer was taken over like that.       *)
THEOREM MemoryReturnedOnce == Spec => []ReturnedOnce
  <1>1. IInv => ReturnedOnce BY DEF IInv, PicInv, ReturnedOnce
  <1> QED BY <1>1, SpecIInv, PTL
=============================================================================
