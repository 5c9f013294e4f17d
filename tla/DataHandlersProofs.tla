-------------------------- MODULE DataHandlersProofs --------------------------
(***************************************************************************)
(* DataHandlers reads like FileReader for every file, every size of block  *)
(* and all requests.  The inductive invariant DataInv says where a read    *)
(* stands: what it has got begins where it was asked for and ends at the   *)
(* position, what is left of it lies before the size that is kept, and     *)
(* both together are what was there when it was asked for.  While nothing  *)
(* has failed, what it has got and what the buffer claims is the file's.   *)
(***************************************************************************)
EXTENDS DataHandlers, TLAPS

Reads == [from : Int, left : Nat, there : Nat, got : Seq(Int)]

DataType ==
  /\ size \in Nat
  /\ library \in {"libebml", "libavformat"}
  /\ h \in [pos : Nat, filesize : Nat, read : Reads, answer : {h.answer}, failed : BOOLEAN]
  /\ buffer \in [offset : Int, size : Nat, bytes : [0 .. ReadSize - 1 -> Int]]
  /\ h.filesize <= size
  /\ buffer.size <= ReadSize

\* A read of the library's, while it runs.
ReadRuns ==
  /\ h.read.from >= 0
  /\ h.read.from + Len(h.read.got) = h.pos
  /\ h.read.left + Len(h.read.got) = h.read.there
  /\ h.read.left > 0 => h.pos + h.read.left <= h.filesize
  /\ library = "libavformat" => h.read.got = <<>>
  /\ ~h.failed => \A k \in 1 .. Len(h.read.got) : h.read.got[k] = h.read.from + k - 1

BufferHolds ==
  ~h.failed /\ buffer.offset # -1 => \A k \in 0 .. buffer.size - 1 : buffer.bytes[k] = buffer.offset + k

DataInv == DataType /\ (h.read # NoRead => ReadRuns) /\ BufferHolds

-----------------------------------------------------------------------------

(* The initial states satisfy the invariant.                                 *)
LEMMA DataInit == Init => DataInv
  <1> SUFFICES ASSUME Init PROVE DataInv OBVIOUS
  <1>1. NoRead \in Reads BY DEF NoRead, Reads
  <1>2. [k \in 0 .. ReadSize - 1 |-> Garbage] \in [0 .. ReadSize - 1 -> Int] BY DEF Garbage
  <1>3. DataType BY <1>1, <1>2, DataAssumption DEF Init, DataType
  <1> QED BY <1>3 DEF Init, DataInv, BufferHolds

(* What Ask leaves of a read that goes past the end is there.                *)
LEMMA CutIsThere ==
  ASSUME NEW s \in Nat, NEW n \in Nat, h.pos \in Nat
  PROVE  /\ CutTo(s, n) \in Nat
         /\ CutTo(s, n) > 0 => h.pos + CutTo(s, n) <= s
         /\ h.pos + n <= s => CutTo(s, n) = n
  BY DEF CutTo, Lesser

(* Ask keeps the invariant.                                                  *)
LEMMA AskKeeps == ASSUME DataInv, NEW n \in Requests, Ask(n) PROVE DataInv'
  <1> DEFINE now == IF h.pos + n > h.filesize THEN Refreshed ELSE h
  <1>1. n \in Nat /\ size \in Nat /\ h.pos \in Nat /\ h.filesize \in Nat /\ h.filesize <= size
    BY DataAssumption DEF DataInv, DataType
  <1>2. now.filesize \in Nat /\ now.filesize <= size /\ CutTo(now.filesize, n) = CutTo(size, n)
    <2>1. CASE h.pos + n > h.filesize BY <1>1, <2>1 DEF DataInv, DataType, Refreshed
    <2>2. CASE ~(h.pos + n > h.filesize)
      <3>1. h.pos + n <= h.filesize /\ h.pos + n <= size BY <1>1, <2>2
      <3> QED BY <1>1, <2>2, <3>1, CutIsThere
    <2> QED BY <2>1, <2>2
  <1> DEFINE read == [from |-> h.pos, left |-> CutTo(now.filesize, n), there |-> CutTo(size, n), got |-> <<>>]
  <1>c. /\ CutTo(size, n) \in Nat /\ CutTo(now.filesize, n) \in Nat /\ <<>> \in Seq(Int)
        /\ CutTo(now.filesize, n) > 0 => h.pos + CutTo(now.filesize, n) <= now.filesize
    <2>1. \A s \in Nat : CutTo(s, n) \in Nat /\ (CutTo(s, n) > 0 => h.pos + CutTo(s, n) <= s)
      BY <1>1, CutIsThere
    <2> HIDE DEF now
    <2> QED BY <1>1, <1>2, <2>1
  <1>3. read \in Reads
    <2> HIDE DEF now
    <2> QED BY <1>1, <1>c DEF Reads
  <1>4. h' = [pos |-> h.pos, filesize |-> now.filesize, read |-> read, answer |-> h.answer, failed |-> h.failed]
    BY DEF Ask, Refreshed, DataInv, DataType
  <1>5. UNCHANGED <<size, library, buffer>> BY DEF Ask, fixed
  <1>6. DataType' BY <1>1, <1>2, <1>3, <1>4, <1>5 DEF DataInv, DataType
  <1>7. ReadRuns'
    <2>1. /\ h'.read.from = h.pos /\ h'.pos = h.pos /\ h'.filesize = now.filesize
          /\ h'.read.left = CutTo(now.filesize, n) /\ h'.read.there = CutTo(size, n) /\ h'.read.got = <<>>
      BY <1>4
    <2>2. Len(h'.read.got) = 0 BY <2>1
    <2> HIDE DEF now
    <2> QED BY <1>1, <1>2, <1>c, <2>1, <2>2 DEF ReadRuns
  <1>8. BufferHolds' BY <1>4, <1>5 DEF DataInv, BufferHolds
  <1> QED BY <1>6, <1>7, <1>8 DEF DataInv

(* Taking from the buffer moves the read on; what is taken is the file's.    *)
LEMMA TakenFits ==
  ASSUME DataInv, h.read # NoRead, library = "libebml"
  PROVE  /\ Taken \in [pos : Nat, filesize : Nat, read : Reads, answer : {h.answer}, failed : BOOLEAN]
         /\ Taken.filesize = h.filesize /\ Taken.failed = h.failed /\ Taken.answer = h.answer
         /\ Taken.read.from = h.read.from /\ Taken.read.there = h.read.there
         /\ Taken.read.from + Len(Taken.read.got) = Taken.pos
         /\ Taken.read.left + Len(Taken.read.got) = Taken.read.there
         /\ Taken.read.left > 0 => Taken.pos + Taken.read.left <= Taken.filesize
         /\ ~h.failed => \A k \in 1 .. Len(Taken.read.got) : Taken.read.got[k] = h.read.from + k - 1
  <1> DEFINE n == IF ContainsOffset(buffer, h.pos) THEN Lesser(buffer.offset + buffer.size - h.pos, h.read.left) ELSE 0
             new == [k \in 1 .. n |-> buffer.bytes[h.pos - buffer.offset + k - 1]]
             got == h.read.got
  <1>1. /\ h.pos \in Nat /\ h.filesize \in Nat /\ h.read.left \in Nat /\ h.read.there \in Nat /\ h.read.from \in Int
        /\ got \in Seq(Int) /\ buffer.offset \in Int /\ buffer.size \in Nat
        /\ buffer.bytes \in [0 .. ReadSize - 1 -> Int] /\ buffer.size <= ReadSize /\ ReadSize \in Nat
    BY DataAssumption DEF DataInv, DataType, Reads
  <1>2. ReadRuns BY DEF DataInv
  <1>3. n \in Nat /\ n <= h.read.left /\
        (n > 0 => buffer.offset # -1 /\ h.pos >= buffer.offset /\ h.pos + n <= buffer.offset + buffer.size)
    <2>1. h.pos \in Nat /\ h.read.left \in Nat /\ buffer.offset \in Int /\ buffer.size \in Nat BY <1>1
    <2>2. CASE ContainsOffset(buffer, h.pos)
      <3>1. n = Lesser(buffer.offset + buffer.size - h.pos, h.read.left) BY <2>2
      <3>2. buffer.offset # -1 /\ h.pos >= buffer.offset /\ h.pos < buffer.offset + buffer.size
        BY <2>2 DEF ContainsOffset
      <3> HIDE DEF n
      <3> QED BY <2>1, <3>1, <3>2 DEF Lesser
    <2>3. CASE ~ContainsOffset(buffer, h.pos)
      <3>1. n = 0 BY <2>3
      <3> QED BY <2>1, <3>1
    <2> QED BY <2>2, <2>3
  <1> HIDE DEF n
  <1>5. new \in Seq(Int) /\ Len(new) = n /\ \A k \in 1 .. n : new[k] = buffer.bytes[h.pos - buffer.offset + k - 1]
    <2>1. ASSUME NEW k \in 1 .. n PROVE h.pos - buffer.offset + k - 1 \in 0 .. ReadSize - 1
      <3>1. buffer.offset <= h.pos /\ h.pos + n <= buffer.offset + buffer.size BY <1>3
      <3>2. h.pos \in Nat /\ buffer.offset \in Int /\ buffer.size \in Nat /\ buffer.size <= ReadSize /\ ReadSize \in Nat
        BY <1>1
      <3> QED BY <1>3, <3>1, <3>2
    <2>2. new \in [1 .. n -> Int] BY <1>1, <2>1
    <2> QED BY <1>3, <2>2
  <1>6. ~h.failed => \A k \in 1 .. n : new[k] = h.pos + k - 1
    <2> SUFFICES ASSUME ~h.failed, NEW k \in 1 .. n PROVE new[k] = h.pos + k - 1 OBVIOUS
    <2>1. h.pos - buffer.offset + k - 1 \in 0 .. buffer.size - 1 /\ buffer.offset # -1
      <3>1. buffer.offset <= h.pos /\ h.pos + n <= buffer.offset + buffer.size /\ buffer.offset # -1 BY <1>3
      <3>2. h.pos \in Nat /\ buffer.offset \in Int /\ buffer.size \in Nat BY <1>1
      <3> QED BY <1>3, <3>1, <3>2
    <2>2. buffer.bytes[h.pos - buffer.offset + k - 1] = buffer.offset + (h.pos - buffer.offset + k - 1)
      BY <2>1 DEF DataInv, BufferHolds
    <2>3. buffer.offset + (h.pos - buffer.offset + k - 1) = h.pos + k - 1 BY <1>1, <1>3
    <2> QED BY <1>5, <2>2, <2>3
  <1> HIDE DEF new
  <1>7. got \o new \in Seq(Int) /\ Len(got \o new) = Len(got) + n /\ Len(got) \in Nat
    <2>1. got \in Seq(Int) /\ new \in Seq(Int) /\ Len(new) = n BY <1>1, <1>5
    <2> HIDE DEF got
    <2> QED BY <2>1
  <1>8. ~h.failed => \A k \in 1 .. Len(got \o new) : (got \o new)[k] = h.read.from + k - 1
    <2> SUFFICES ASSUME ~h.failed, NEW k \in 1 .. Len(got) + n PROVE (got \o new)[k] = h.read.from + k - 1
      BY <1>7
    <2>1. CASE k <= Len(got) BY <1>1, <1>2, <1>5, <2>1 DEF ReadRuns
    <2>2. CASE k > Len(got)
      <3>1. (got \o new)[k] = new[k - Len(got)] BY <1>1, <1>3, <1>5, <1>7, <2>2
      <3>2. k - Len(got) \in 1 .. n BY <1>3, <1>7, <2>2
      <3>3. new[k - Len(got)] = h.pos + (k - Len(got)) - 1 BY <1>6, <3>2
      <3> DEFINE lg == Len(got)
      <3>4. h.read.from + lg = h.pos BY <1>2 DEF ReadRuns
      <3>5. h.read.from \in Int /\ h.pos \in Int /\ lg \in Nat /\ k \in Int BY <1>1, <1>3, <1>7
      <3>6. (got \o new)[k] = h.pos + (k - lg) - 1 BY <3>1, <3>3
      <3> HIDE DEF lg, got
      <3>7. h.pos + (k - lg) - 1 = h.read.from + k - 1 BY <3>4, <3>5
      <3> QED BY <3>6, <3>7
    <2> QED BY <1>7, <2>1, <2>2
  <1>9. Taken = [pos |-> h.pos + n, filesize |-> h.filesize, answer |-> h.answer, failed |-> h.failed,
                 read |-> [from |-> h.read.from, left |-> h.read.left - n, there |-> h.read.there, got |-> got \o new]]
    <2>1. h \in [pos : Nat, filesize : Nat, read : Reads, answer : {h.answer}, failed : BOOLEAN] BY DEF DataInv, DataType
    <2>2. Taken = [h EXCEPT !.pos = @ + n, !.read.left = @ - n, !.read.got = @ \o new] BY DEF Taken, n, new
    <2> HIDE DEF got
    <2> QED BY <2>1, <2>2 DEF Reads, got
  <1>10. h.failed \in BOOLEAN BY DEF DataInv, DataType
  <1>11. Taken.read \in Reads
    <2>1. h.read.left - n \in Nat BY <1>1, <1>3
    <2>2. h.read.from \in Int /\ h.read.there \in Nat BY <1>1
    <2> HIDE DEF got
    <2> QED BY <1>7, <1>9, <2>1, <2>2 DEF Reads
  <1>12. Taken \in [pos : Nat, filesize : Nat, read : Reads, answer : {h.answer}, failed : BOOLEAN]
    <2>1. h.pos + n \in Nat /\ h.filesize \in Nat BY <1>1, <1>3
    <2>2. Taken = [pos |-> h.pos + n, filesize |-> h.filesize, answer |-> h.answer, failed |-> h.failed, read |-> Taken.read]
      BY <1>9
    <2> QED BY <1>10, <1>11, <2>1, <2>2
  <1>13. /\ Taken.read.from + Len(Taken.read.got) = Taken.pos
         /\ Taken.read.left + Len(Taken.read.got) = Taken.read.there
         /\ Taken.read.left > 0 => Taken.pos + Taken.read.left <= Taken.filesize
    <2>1. /\ Taken.read.from = h.read.from /\ Taken.read.left = h.read.left - n /\ Taken.read.there = h.read.there
          /\ Len(Taken.read.got) = Len(got) + n /\ Taken.pos = h.pos + n /\ Taken.filesize = h.filesize
      BY <1>7, <1>9
    <2>2. /\ h.read.from + Len(got) = h.pos /\ h.read.left + Len(got) = h.read.there
          /\ h.read.left > 0 => h.pos + h.read.left <= h.filesize
      BY <1>2 DEF ReadRuns
    <2>3. h.read.from \in Int /\ h.pos \in Nat /\ h.read.left \in Nat /\ h.filesize \in Nat /\ h.read.there \in Nat
      BY <1>1
    <2> HIDE DEF got
    <2>4. n \in Nat /\ n <= h.read.left /\ Len(got) \in Nat BY <1>3, <1>7
    <2>5. Len(got) + n \in Nat BY <2>4
    <2> DEFINE lg == Len(got)
               lt == Len(Taken.read.got)
    <2>6. lt = lg + n /\ lg \in Nat /\ h.read.from + lg = h.pos /\ h.read.left + lg = h.read.there BY <2>1, <2>2, <2>4
    <2> HIDE DEF lg, lt
    <2>7. /\ Taken.read.from + lt = Taken.pos
          /\ Taken.read.left + lt = Taken.read.there
          /\ Taken.read.left > 0 => Taken.pos + Taken.read.left <= Taken.filesize
      <3>1. h.read.left > 0 => h.pos + h.read.left <= h.filesize BY <2>2
      <3>2. Taken.read.from + lt = Taken.pos BY ONLY <2>1, <2>3, <2>4, <2>6
      <3>3. Taken.read.left + lt = Taken.read.there BY ONLY <2>1, <2>3, <2>4, <2>6
      <3>4. Taken.read.left > 0 => Taken.pos + Taken.read.left <= Taken.filesize
        BY ONLY <2>1, <2>3, <2>4, <3>1
      <3> QED BY ONLY <3>2, <3>3, <3>4
    <2> QED BY <2>7 DEF lt
  <1> QED BY <1>8, <1>9, <1>12, <1>13

(* A turn of DataHandlerCallback's loop keeps the invariant.                 *)
LEMMA TurnKeeps == ASSUME DataInv, CallbackTurn PROVE DataInv'
  <1> DEFINE b == GetBuffer(Taken)
  <1>1. UNCHANGED <<size, library>> /\ library = "libebml" /\ h.read # NoRead BY DEF CallbackTurn, fixed
  <1>2. /\ size \in Nat /\ h.filesize <= size /\ ReadSize \in Nat
        /\ buffer \in [offset : Int, size : Nat, bytes : [0 .. ReadSize - 1 -> Int]] /\ buffer.size <= ReadSize
    BY DataAssumption DEF DataInv, DataType
  <1>3. NoRead \in Reads BY DEF NoRead, Reads
  <1>t. /\ Taken \in [pos : Nat, filesize : Nat, read : Reads, answer : {h.answer}, failed : BOOLEAN]
        /\ Taken.filesize = h.filesize /\ Taken.failed = h.failed
    BY <1>1, TakenFits
  <1>4. CASE Taken.read.left = 0 /\ h' = Answered(Taken, Taken.read.got) /\ UNCHANGED buffer
    <2>1. h' = [pos |-> Taken.pos, filesize |-> h.filesize, read |-> NoRead, answer |-> Taken.read.got, failed |-> h.failed]
      BY <1>4, <1>t DEF Answered
    <2>2. DataType' BY <1>1, <1>2, <1>3, <1>4, <1>t, <2>1 DEF DataType
    <2> QED BY <1>4, <2>1, <2>2 DEF DataInv, BufferHolds
  <1>5. ASSUME Taken.read.left > 0
        PROVE  /\ b = [offset |-> Taken.pos, size |-> b.size, bytes |-> buffer.bytes]
               /\ b.size \in Nat /\ b.size <= ReadSize /\ Taken.pos \in Nat
    <2>1. Taken.pos + Taken.read.left <= Taken.filesize BY <1>1, <1>5, TakenFits
    <2>2. Taken.filesize - Taken.pos \in Nat BY <1>5, <1>t, <2>1 DEF Reads
    <2> DEFINE n == Lesser(ReadSize, Taken.filesize - Taken.pos)
    <2>3. b = [buffer EXCEPT !.offset = Taken.pos, !.size = n] BY DEF GetBuffer
    <2> HIDE DEF n
    <2>4. b = [offset |-> Taken.pos, size |-> n, bytes |-> buffer.bytes] /\ b.size = n
      <3> HIDE DEF b
      <3> QED BY <1>2, <2>3
    <2> HIDE DEF b
    <2>5. n \in Nat /\ n <= ReadSize BY <1>2, <2>2 DEF Lesser, n
    <2> QED BY <1>t, <2>4, <2>5
  <1>6. CASE Taken.read.left > 0 /\ h' = Taken /\ buffer' = Filled(b)
    <2> HIDE DEF b
    <2> DEFINE bytes == [k \in DOMAIN b.bytes |-> IF k < b.size THEN b.offset + k ELSE b.bytes[k]]
    <2>1. buffer' = [offset |-> b.offset, size |-> b.size, bytes |-> bytes] BY <1>5, <1>6 DEF Filled
    <2>2. bytes \in [0 .. ReadSize - 1 -> Int] /\ \A k \in 0 .. b.size - 1 : bytes[k] = b.offset + k
      <3>1. DOMAIN b.bytes = 0 .. ReadSize - 1 /\ b.bytes \in [0 .. ReadSize - 1 -> Int] BY <1>2, <1>5, <1>6
      <3>2. b.offset \in Int /\ b.size \in Nat /\ b.size <= ReadSize BY <1>5, <1>6
      <3> QED BY <1>2, <3>1, <3>2
    <2> HIDE DEF bytes
    <2>3. DataType'
      <3>1. buffer' \in [offset : Int, size : Nat, bytes : [0 .. ReadSize - 1 -> Int]] /\ buffer'.size <= ReadSize
        BY <1>5, <1>6, <2>1, <2>2
      <3> QED BY <1>1, <1>2, <1>6, <1>t, <3>1 DEF DataType
    <2>4. ReadRuns'
      <3>1. /\ h'.read.from = h.read.from /\ h'.read.from + Len(h'.read.got) = h'.pos
            /\ h'.read.left + Len(h'.read.got) = h'.read.there
            /\ h'.read.left > 0 => h'.pos + h'.read.left <= h'.filesize
            /\ ~h'.failed => \A k \in 1 .. Len(h'.read.got) : h'.read.got[k] = h'.read.from + k - 1
        BY <1>1, <1>6, TakenFits
      <3> QED BY <1>1, <3>1 DEF DataInv, ReadRuns
    <2>5. BufferHolds' BY <2>1, <2>2 DEF BufferHolds
    <2> QED BY <2>3, <2>4, <2>5 DEF DataInv
  <1>7. CASE Taken.read.left > 0 /\ h' = Thrown(Taken) /\ buffer' = b
    <2>1. h' = [pos |-> Taken.pos, filesize |-> h.filesize, read |-> NoRead, answer |-> Failed, failed |-> TRUE]
      BY <1>7, <1>t DEF Thrown
    <2>2. DataType'
      <3> HIDE DEF b
      <3>1. buffer' \in [offset : Int, size : Nat, bytes : [0 .. ReadSize - 1 -> Int]] /\ buffer'.size <= ReadSize
        BY <1>2, <1>5, <1>7
      <3> QED BY <1>1, <1>2, <1>3, <1>t, <2>1, <3>1 DEF DataType
    <2> QED BY <2>1, <2>2 DEF DataInv, BufferHolds
  <1> QED BY <1>4, <1>6, <1>7 DEF CallbackTurn

(* Every step keeps the invariant.                                           *)
LEMMA DataNext == DataInv /\ [Next]_vars => DataInv'
  <1> SUFFICES ASSUME DataInv, [Next]_vars PROVE DataInv' OBVIOUS
  <1>0. NoRead \in Reads BY DEF NoRead, Reads
  <1>1. CASE Grow
    <2>1. size' \in Nat /\ size' > size /\ UNCHANGED <<library, h, buffer>> BY <1>1, DataAssumption DEF Grow
    <2> QED BY <2>1 DEF DataInv, DataType, ReadRuns, BufferHolds
  <1>2. CASE Seek
    <2>1. UNCHANGED <<size, library, buffer>> /\ h.read = NoRead BY <1>2 DEF Seek, fixed
    <2>2. PICK to \in Nat, f \in {h.filesize, size} :
            h' = [pos |-> to, filesize |-> f, read |-> h.read, answer |-> h.answer, failed |-> h.failed]
      <3> PICK n \in Requests :
            \/ \E to \in {n, h.pos + n} : h' = [h EXCEPT !.pos = to]
            \/ \E to \in {h.pos, size - n, size + n} : to >= 0 /\ h' = [Refreshed EXCEPT !.pos = to]
        BY <1>2 DEF Seek
      <3>1. n \in Nat /\ h.pos \in Nat /\ size \in Nat BY DataAssumption DEF DataInv, DataType
      <3>2. CASE \E to \in {n, h.pos + n} : h' = [h EXCEPT !.pos = to]
        <4>1. PICK to \in {n, h.pos + n} : h' = [h EXCEPT !.pos = to] BY <3>2
        <4>2. to \in Nat BY <3>1, <4>1
        <4>3. h' = [pos |-> to, filesize |-> h.filesize, read |-> h.read, answer |-> h.answer, failed |-> h.failed]
          BY <4>1 DEF DataInv, DataType
        <4> QED BY <4>2, <4>3
      <3>3. CASE \E to \in {h.pos, size - n, size + n} : to >= 0 /\ h' = [Refreshed EXCEPT !.pos = to]
        <4>1. PICK to \in {h.pos, size - n, size + n} : to >= 0 /\ h' = [Refreshed EXCEPT !.pos = to] BY <3>3
        <4>2. to \in Nat BY <3>1, <4>1
        <4>3. h' = [pos |-> to, filesize |-> size, read |-> h.read, answer |-> h.answer, failed |-> h.failed]
          BY <4>1 DEF DataInv, DataType, Refreshed
        <4> QED BY <4>2, <4>3
      <3> QED BY <3>2, <3>3
    <2>3. h' = [pos |-> to, filesize |-> f, read |-> NoRead, answer |-> h.answer, failed |-> h.failed]
      BY <2>1, <2>2
    <2> QED BY <1>0, <2>1, <2>2, <2>3 DEF DataInv, DataType, BufferHolds
  <1>3. CASE CallbackTurn BY <1>3, TurnKeeps
  <1>4. CASE DatarefTurn
    <2>1. UNCHANGED <<size, library, buffer>> /\ library = "libavformat" /\ h.read # NoRead BY <1>4 DEF DatarefTurn, fixed
    <2>2. PICK p \in Nat, a \in {BytesFrom(h.pos, h.read.left), Failed}, f \in BOOLEAN :
            h' = [pos |-> p, filesize |-> h.filesize, read |-> NoRead, answer |-> a, failed |-> f] /\ (h.failed => f)
      <3>1. h.pos \in Nat /\ h.read.left \in Nat /\ h.failed \in BOOLEAN BY DEF DataInv, DataType, Reads
      <3>2. CASE h' = [Answered(h, BytesFrom(h.pos, h.read.left)) EXCEPT !.pos = @ + h.read.left]
        <4>1. h' = [pos |-> h.pos + h.read.left, filesize |-> h.filesize, read |-> NoRead,
                    answer |-> BytesFrom(h.pos, h.read.left), failed |-> h.failed]
          BY <3>2 DEF Answered, DataInv, DataType
        <4>2. h.pos + h.read.left \in Nat BY <3>1
        <4> QED BY <3>1, <4>1, <4>2
      <3>3. CASE h' = Thrown(h)
        <4>1. h' = [pos |-> h.pos, filesize |-> h.filesize, read |-> NoRead, answer |-> Failed, failed |-> TRUE]
          BY <3>3 DEF Thrown, DataInv, DataType
        <4> QED BY <3>1, <4>1
      <3> QED BY <1>4, <3>2, <3>3 DEF DatarefTurn
    <2> QED BY <1>0, <2>1, <2>2 DEF DataInv, DataType, BufferHolds
  <1>5. CASE \E n \in Requests : Ask(n) BY <1>5, AskKeeps
  <1>6. CASE UNCHANGED vars BY <1>6 DEF vars, fixed, DataInv, DataType, ReadRuns, BufferHolds
  <1> QED BY <1>1, <1>2, <1>3, <1>4, <1>5, <1>6 DEF Next

-----------------------------------------------------------------------------

(* DataHandlers begins like FileReader.                                      *)
LEMMA ReadsInit == Init => Reader!Init
  <1> SUFFICES ASSUME Init PROVE Reader!Init OBVIOUS
  <1>1. size \in Nat BY DataAssumption DEF Init
  <1> QED BY <1>1 DEF Init, Reader!Init, Reader!Nothing, NoRead

(* While no read runs, the reader asks for nothing; else for what there was. *)
LEMMA AskedIs ==
  ASSUME DataInv
  PROVE  /\ h.read = NoRead => h.read.from = -1 /\ h.read.there = 0
         /\ h.read # NoRead => h.read.from \in Nat
  BY DEF DataInv, DataType, ReadRuns, NoRead, Reads

(* What is asked for is there.                                               *)
LEMMA AskReads == ASSUME DataInv, NEW n \in Requests, Ask(n) PROVE Reader!Next
  <1>1. n \in Nat /\ size \in Nat /\ h.pos \in Nat BY DataAssumption DEF DataInv, DataType
  <1>2. /\ h'.read.from = h.pos /\ h'.read.there = CutTo(size, n) /\ h'.read # NoRead /\ h'.pos = h.pos
        /\ h'.answer = h.answer /\ h'.failed = h.failed /\ h.read = NoRead /\ UNCHANGED <<size, library>>
    BY <1>1 DEF Ask, fixed, Refreshed, NoRead, DataInv, DataType
  <1>3. Reader!There(size, h.pos, CutTo(size, n)) = CutTo(size, n)
    BY <1>1 DEF Reader!There, CutTo, Lesser
  <1>4. h.read.from = -1 /\ h.read.there = 0 BY <1>2, AskedIs
  <1>5. Reader!Ask(CutTo(size, n)) BY <1>2, <1>3, <1>4 DEF Reader!Ask, Reader!Nothing
  <1> QED BY <1>2, <1>5 DEF Reader!Next

(* A turn of the loop gets on, answers with what was there, or fails.        *)
LEMMA TurnReads == ASSUME DataInv, CallbackTurn PROVE [Reader!Next]_(Reader!vars)
  <1>1. UNCHANGED <<size, library>> /\ library = "libebml" /\ h.read # NoRead BY DEF CallbackTurn, fixed
  <1>2. /\ Taken \in [pos : Nat, filesize : Nat, read : Reads, answer : {h.answer}, failed : BOOLEAN]
        /\ Taken.failed = h.failed /\ Taken.read.from = h.read.from /\ Taken.read.there = h.read.there
        /\ Taken.read.from + Len(Taken.read.got) = Taken.pos
        /\ Taken.read.left + Len(Taken.read.got) = Taken.read.there
        /\ ~h.failed => \A k \in 1 .. Len(Taken.read.got) : Taken.read.got[k] = h.read.from + k - 1
    BY <1>1, TakenFits
  <1>3. /\ Taken.read.left \in Nat /\ Taken.read.got \in Seq(Int) /\ Len(Taken.read.got) \in Nat
        /\ Taken.read.there \in Nat /\ Taken.pos \in Nat /\ Taken.read.from \in Int
    BY <1>2 DEF Reads
  <1>4. h.read.from \in Nat BY <1>1, AskedIs
  <1>5. CASE Taken.read.left = 0 /\ h' = Answered(Taken, Taken.read.got)
    <2>1. /\ h'.read = NoRead /\ h'.pos = Taken.pos /\ h'.answer = Taken.read.got /\ h'.failed = h.failed
          /\ h'.read.from = -1 /\ h'.read.there = 0
      BY <1>2, <1>5 DEF Answered, NoRead
    <2>2. Len(Taken.read.got) = h.read.there /\ Taken.pos = h.read.from + h.read.there BY <1>2, <1>3, <1>5
    <2>3. ASSUME ~h.failed PROVE Taken.read.got = Reader!BytesFrom(h.read.from, h.read.there)
      <3> DEFINE got == Taken.read.got
                 n == h.read.there
      <3>1. got \in Seq(Int) /\ Len(got) = n /\ n \in Nat BY <1>2, <1>3, <2>2
      <3>2. \A k \in 1 .. n : got[k] = h.read.from + k - 1 BY <1>2, <2>2, <2>3
      <3> HIDE DEF got, n
      <3>3. got = [k \in 1 .. n |-> got[k]] BY <3>1
      <3>4. got = [k \in 1 .. n |-> h.read.from + k - 1] BY <3>2, <3>3
      <3> QED BY <3>4 DEF Reader!BytesFrom, got, n
    <2>4. Reader!Answer BY <1>1, <1>4, <2>1, <2>2, <2>3 DEF Reader!Answer, Reader!Nothing
    <2> QED BY <2>4 DEF Reader!Next
  <1>6. CASE h' = Taken
    <2>1. h.read.from = h'.read.from /\ h.read.there = h'.read.there /\ h'.read # NoRead
      BY <1>2, <1>4, <1>6 DEF NoRead
    <2>2. h'.answer = h.answer /\ h'.failed = h.failed BY <1>2, <1>6
    <2> QED BY <1>1, <2>1, <2>2 DEF Reader!vars
  <1>7. CASE h' = Thrown(Taken)
    <2>1. /\ h'.read = NoRead /\ h'.pos = Taken.pos /\ h'.answer = Failed /\ h'.failed = TRUE
          /\ h'.read.from = -1 /\ h'.read.there = 0
      BY <1>2, <1>7 DEF Thrown, NoRead
    <2>2. Taken.pos \in h.read.from .. h.read.from + h.read.there
      <3> DEFINE l == Len(Taken.read.got)
      <3>1. l \in Nat /\ h.read.from + l = Taken.pos /\ Taken.read.left + l = h.read.there BY <1>2, <1>3
      <3> HIDE DEF l
      <3> QED BY <1>2, <1>3, <1>4, <3>1
    <2>3. (library = "libavformat" \/ ~h.failed)' = FALSE BY <1>1, <2>1
    <2>a. (library = "libavformat" \/ ~h.failed)' \in {library = "libavformat" \/ ~h.failed, FALSE} BY <2>3, Zenon
    <2>b. /\ [from |-> h.read.from, count |-> h.read.there] # Reader!Nothing
          /\ [from |-> h'.read.from, count |-> h'.read.there] = Reader!Nothing
      BY <1>4, <2>1 DEF Reader!Nothing
    <2>c. (IF h'.read = NoRead THEN h'.pos ELSE h'.read.from) \in h.read.from .. h.read.from + h.read.there
      BY <2>1, <2>2
    <2>4. Reader!Fail BY <1>1, <2>1, <2>a, <2>b, <2>c, Zenon DEF Reader!Fail, Reader!Failed, Failed
    <2> QED BY <2>4 DEF Reader!Next
  <1> QED BY <1>5, <1>6, <1>7 DEF CallbackTurn

(* A read of the data reference is done at once.                             *)
LEMMA DatarefReads == ASSUME DataInv, DatarefTurn PROVE Reader!Next
  <1>1. UNCHANGED <<size, library>> /\ library = "libavformat" /\ h.read # NoRead BY DEF DatarefTurn, fixed
  <1>2. h \in [pos : Nat, filesize : Nat, read : Reads, answer : {h.answer}, failed : BOOLEAN] BY DEF DataInv, DataType
  <1>3. h.read.got = <<>> /\ h.read.from + Len(h.read.got) = h.pos /\ h.read.left + Len(h.read.got) = h.read.there
    BY <1>1 DEF DataInv, ReadRuns
  <1>4. Len(h.read.got) = 0 /\ h.read.from \in Int /\ h.read.left \in Nat /\ h.pos \in Nat /\ h.read.there \in Nat
    BY <1>2, <1>3 DEF Reads
  <1>5. h.read.from = h.pos /\ h.read.left = h.read.there BY <1>3, <1>4
  <1>6. CASE h' = [Answered(h, BytesFrom(h.pos, h.read.left)) EXCEPT !.pos = @ + h.read.left]
    <2>1. /\ h'.read = NoRead /\ h'.pos = h.pos + h.read.left /\ h'.answer = BytesFrom(h.pos, h.read.left)
          /\ h'.read.from = -1 /\ h'.read.there = 0
      BY <1>2, <1>6 DEF Answered, NoRead
    <2>2. h'.answer = Reader!BytesFrom(h.read.from, h.read.there) BY <1>5, <2>1 DEF BytesFrom, Reader!BytesFrom
    <2>3. Reader!Answer BY <1>1, <1>4, <1>5, <2>1, <2>2 DEF Reader!Answer, Reader!Nothing
    <2> QED BY <2>3 DEF Reader!Next
  <1>7. CASE h' = Thrown(h)
    <2>1. /\ h'.read = NoRead /\ h'.pos = h.pos /\ h'.answer = Failed
          /\ h'.read.from = -1 /\ h'.read.there = 0
      BY <1>2, <1>7 DEF Thrown, NoRead
    <2>2. h.pos \in h.read.from .. h.read.from + h.read.there BY <1>4, <1>5
    <2>3. Reader!Fail BY <1>1, <1>4, <1>5, <2>1, <2>2 DEF Reader!Fail, Reader!Nothing, Reader!Failed, Failed
    <2> QED BY <2>3 DEF Reader!Next
  <1> QED BY <1>6, <1>7 DEF DatarefTurn

(* Every step is one of FileReader's or none.                                *)
LEMMA ReadsNext == DataInv /\ [Next]_vars => [Reader!Next]_(Reader!vars)
  <1> SUFFICES ASSUME DataInv, [Next]_vars PROVE [Reader!Next]_(Reader!vars) OBVIOUS
  <1>1. CASE Grow
    <2>1. size' \in Nat /\ size' > size /\ UNCHANGED <<library, h>> BY <1>1, DataAssumption DEF Grow
    <2>2. Reader!Grow BY <2>1 DEF Reader!Grow
    <2> QED BY <2>2 DEF Reader!Next
  <1>2. CASE Seek
    <2>1. UNCHANGED <<size, library>> /\ h.read = NoRead BY <1>2 DEF Seek, fixed
    <2>2. h'.pos \in Nat BY <1>2, DataNext DEF Next, DataInv, DataType
    <2>3. h'.read = NoRead /\ h'.answer = h.answer /\ h'.failed = h.failed
      BY <1>2, <2>1 DEF Seek, Refreshed, DataInv, DataType
    <2>4. Reader!Seek BY <2>1, <2>2, <2>3, AskedIs DEF Reader!Seek, Reader!Nothing
    <2> QED BY <2>4 DEF Reader!Next
  <1>3. CASE CallbackTurn BY <1>3, TurnReads
  <1>4. CASE DatarefTurn BY <1>4, DatarefReads
  <1>5. CASE \E n \in Requests : Ask(n) BY <1>5, AskReads
  <1>6. CASE UNCHANGED vars BY <1>6 DEF vars, fixed, Reader!vars
  <1> QED BY <1>1, <1>2, <1>3, <1>4, <1>5, <1>6 DEF Next

-----------------------------------------------------------------------------

(* libavformat's reader is given the bytes of the file whatever reads failed *)
(* before.  So is libebml's, through the cache of DataHandlerCallback, until *)
(* a read fails; from then on it is promised only as many bytes as the file  *)
(* has at its place, because the cache claims what was never read.           *)
THEOREM ReadsAlwaysTellFile == Spec => ReadsTellFile
  <1>1. Spec => []DataInv
    <2>1. Init => DataInv BY DataInit
    <2>2. DataInv /\ [Next]_vars => DataInv' BY DataNext
    <2> QED BY <2>1, <2>2, PTL DEF Spec
  <1>2. Init => Reader!Init BY ReadsInit
  <1>3. DataInv /\ [Next]_vars => [Reader!Next]_(Reader!vars) BY ReadsNext
  <1> QED BY <1>1, <1>2, <1>3, PTL DEF Spec, ReadsTellFile, Reader!Spec
=============================================================================
