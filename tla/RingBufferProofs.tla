--------------------------- MODULE RingBufferProofs ---------------------------
(***************************************************************************)
(* RingBuffer for every size of the ring, of the packets and of the data:  *)
(* RingInv is inductive as long as no append fills a ring that does not    *)
(* start at 0 to its last byte (ExactFill = FALSE), and what the class     *)
(* promises its reader follows from it.  RingInv adds two facts to the     *)
(* type invariant: equal indices are 0 (EmptyAtZero), and data that is not *)
(* marked as wrapped is one block (Mirrored).  With the sum of the packet  *)
(* sizes, which is the number of bytes held, it makes the ring a FIFO.     *)
(***************************************************************************)
EXTENDS RingBufferSpec, TLAPS, SequenceTheorems, WellFoundedInduction

-----------------------------------------------------------------------------
(* Induction over the natural numbers.  The rules of the library take the   *)
(* statement as an operator; here it is the set of the numbers it is true   *)
(* of, which is defined in the proof and hidden before the rule is cited.   *)

(* A set of natural numbers has a least one.                                *)
LEMMA LeastOf ==
  ASSUME NEW T \in SUBSET Nat, T # {}
  PROVE  \E x \in T : \A y \in T : x <= y
  <1>1. PICK x \in T : \A y \in T : ~(<<y, x>> \in OpToRel(<, Nat)) BY NatLessThanWellFounded, WFMin
  <1>2. \A y \in T : ~(y < x) BY <1>1 DEF OpToRel
  <1> QED BY <1>2

(* A set with 0 and the successor of each of its numbers has all of them:   *)
(* the least that was missing would have a predecessor that is not.         *)
LEMMA Inductive ==
  ASSUME NEW S, 0 \in S, \A n \in Nat : n \in S => n + 1 \in S
  PROVE  Nat \subseteq S
  <1> SUFFICES ASSUME Nat \ S # {} PROVE FALSE OBVIOUS
  <1>1. PICK x \in Nat \ S : \A y \in Nat \ S : x <= y BY LeastOf
  <1>2. x - 1 \in Nat /\ x - 1 \in S BY <1>1
  <1>3. (x - 1) + 1 = x BY <1>1
  <1> QED BY <1>1, <1>2, <1>3

-----------------------------------------------------------------------------
\* The records of rings whose memory is b and whose packet list is p.
RingRecord(b, p) ==
  [buf : {b}, start : Nat, end : Nat, size : Nat, wrap : {0, 1}, packets : {p}]

(* A record update with values of the right types stays a ring record.       *)
LEMMA IndexUpdate ==
  ASSUME NEW r, NEW b, NEW p, r \in RingRecord(b, p),
         NEW s \in Nat, NEW e \in Nat, NEW w \in {0, 1}, NEW o
  PROVE  [r EXCEPT !.start = s, !.end = e, !.wrap = w, !.packets = o] \in RingRecord(b, o)
BY DEF RingRecord

(* What RingInv says, fact by fact.                                          *)
Facts(r) ==
  /\ r \in RingRecord(r.buf, r.packets)
  /\ r.start \in Nat /\ r.end \in Nat /\ r.size \in Nat /\ r.wrap \in {0, 1}
  /\ DOMAIN r.buf = 0 .. 2 * r.size - 1
  /\ r.start <= r.size
  /\ r.end <= r.size
  /\ r.wrap = 1 => r.end < r.start
  /\ r.start = r.end => r.start = 0
  /\ Mirrored(r)

LEMMA RingFacts ==
  ASSUME NEW r, RingInv(r)
  PROVE  Facts(r)
<1>1. r \in RingRecord(r.buf, r.packets)
  BY DEF RingInv, RingOK, RingRecord
<1> QED BY <1>1 DEF RingInv, RingOK, EmptyAtZero, Facts

LEMMA AvailableFacts ==
  ASSUME NEW r, Facts(r)
  PROVE  GetDataAvailable(r) \in Nat /\ GetDataAvailable(r) <= r.size
BY DEF Facts, GetDataAvailable

(* And what is enough to conclude it.                                        *)
LEMMA RingIntro ==
  ASSUME NEW q, NEW b, NEW p, NEW z \in Nat,
         q \in RingRecord(b, p), q.size = z, DOMAIN b = 0 .. 2 * z - 1,
         q.start <= z, q.end <= z, q.wrap = 1 => q.end < q.start,
         EmptyAtZero(q), Mirrored(q)
  PROVE  RingInv(q)
<1>1. q \in [buf : {q.buf}, start : Nat, end : Nat, size : Nat, wrap : {0, 1},
             packets : {q.packets}]
  BY DEF RingRecord
<1>2. DOMAIN q.buf = 0 .. 2 * q.size - 1
  BY DEF RingRecord
<1>3. RingOK(q)
  BY <1>1, <1>2 DEF RingOK
<1> QED BY <1>3 DEF RingInv

-----------------------------------------------------------------------------
(* Each method keeps RingInv; what it does to the number of bytes available. *)

LEMMA ResetInv ==
  ASSUME NEW r, RingInv(r)
  PROVE  RingInv(Reset(r)) /\ GetDataAvailable(Reset(r)) = 0
<1>f. Facts(r)
  BY RingFacts
<1> DEFINE p == <<>>
           q == [r EXCEPT !.start = 0, !.end = 0, !.wrap = 0, !.packets = p]
<1>1. q.start = 0 /\ q.end = 0 /\ q.size = r.size /\ q.wrap = 0
  BY <1>f DEF Facts, RingRecord
<1>2. q = Reset(r)
  BY DEF Reset
<1> HIDE DEF p
<1>3. q \in RingRecord(r.buf, p)
  BY <1>f, IndexUpdate DEF Facts
<1> HIDE DEF q
<1>4. EmptyAtZero(q) /\ Mirrored(q)
  BY <1>1 DEF EmptyAtZero, Mirrored
<1>5. /\ r.size \in Nat /\ DOMAIN r.buf = 0 .. 2 * r.size - 1
      /\ q.start <= r.size /\ q.end <= r.size
      /\ q.wrap = 1 => q.end < q.start
  BY <1>1, <1>f DEF Facts
<1>6. RingInv(q)
  BY <1>1, <1>3, <1>4, <1>5, RingIntro
<1>7. GetDataAvailable(q) = 0
  BY <1>1 DEF GetDataAvailable
<1> QED BY <1>2, <1>6, <1>7

LEMMA UninitializeInv ==
  ASSUME NEW r, RingInv(r)
  PROVE  RingInv(Uninitialize(r)) /\ GetDataAvailable(Uninitialize(r)) = 0
<1>f. Facts(r)
  BY RingFacts
<1> DEFINE b == [i \in {} |-> Junk]
           q == [r EXCEPT !.size = 0, !.buf = b]
           p == <<>>
           t == [q EXCEPT !.start = 0, !.end = 0, !.wrap = 0, !.packets = p]
<1>1. t = Uninitialize(r)
  BY DEF Uninitialize, Reset
<1>2. DOMAIN b = 0 .. 2 * 0 - 1
  OBVIOUS
<1> HIDE DEF b, p
<1>a. q \in RingRecord(b, r.packets)
  BY <1>f DEF Facts, RingRecord
<1>b. q.size = 0
  BY <1>f DEF Facts, RingRecord
<1> HIDE DEF q
<1>4. t \in RingRecord(b, p)
  BY <1>a, IndexUpdate
<1>5. t.start = 0 /\ t.end = 0 /\ t.wrap = 0 /\ t.size = 0
  BY <1>a, <1>b DEF RingRecord
<1> HIDE DEF t
<1>6. EmptyAtZero(t) /\ Mirrored(t)
  BY <1>5 DEF EmptyAtZero, Mirrored
<1>7. RingInv(t)
  <2>1. t.start <= 0 /\ t.end <= 0 /\ (t.wrap = 1 => t.end < t.start) /\ 0 \in Nat
    BY <1>5
  <2> QED BY <2>1, <1>2, <1>4, <1>5, <1>6, RingIntro
<1>8. GetDataAvailable(t) = 0
  BY <1>5 DEF GetDataAvailable
<1> QED BY <1>1, <1>7, <1>8

LEMMA ZapInv ==
  ASSUME NEW r, RingInv(r), NEW n \in Nat, n <= GetDataAvailable(r)
  PROVE  RingInv(Zap(r, n)) /\ GetDataAvailable(Zap(r, n)) = GetDataAvailable(r) - n
<1>f. Facts(r)
  BY RingFacts
<1> DEFINE all   == n >= GetDataAvailable(r)
           whole == r.start < r.end \/ r.start + n < r.size
           s == IF all THEN 0 ELSE IF whole THEN r.start + n ELSE r.start + n - r.size
           e == IF all THEN 0 ELSE r.end
           w == IF all \/ ~whole THEN 0 ELSE r.wrap
           p == ZapPackets(r.packets, n)
           q == [r EXCEPT !.start = s, !.end = e, !.wrap = w, !.packets = p]
<1>1. q = Zap(r, n)
  BY DEF Zap
<1>2. s \in Nat /\ e \in Nat /\ w \in {0, 1}
  BY <1>f DEF Facts, GetDataAvailable
<1>3. /\ s <= r.size
      /\ e <= r.size
      /\ w = 1 => e < s
      /\ s = e => s = 0
      /\ e < s /\ w = 0 => all \/ (e = r.end /\ r.wrap = 0 /\ r.end < r.start)
  BY <1>f DEF Facts, GetDataAvailable
<1>4. GetDataAvailable(r) - n = IF s < e THEN e - s ELSE IF e < s THEN r.size + e - s ELSE 0
  <2>1. CASE all
    BY <2>1, <1>f, AvailableFacts
  <2>2. CASE ~all /\ whole
    BY <2>2, <1>f DEF Facts, GetDataAvailable
  <2>3. CASE ~all /\ ~whole
    BY <2>3, <1>f DEF Facts, GetDataAvailable
  <2> QED BY <2>1, <2>2, <2>3
<1>5. all => e = 0
  OBVIOUS
<1> HIDE DEF s, e, w, p
<1>6. q \in RingRecord(r.buf, p)
  BY <1>2, <1>f, IndexUpdate DEF Facts
<1>7. q.start = s /\ q.end = e /\ q.wrap = w /\ q.size = r.size /\ q.buf = r.buf
  BY <1>f DEF Facts, RingRecord
<1> HIDE DEF q
<1>8. EmptyAtZero(q) /\ Mirrored(q)
  BY <1>2, <1>3, <1>5, <1>7, <1>f DEF Facts, EmptyAtZero, Mirrored
<1>9. RingInv(q)
  BY <1>3, <1>6, <1>7, <1>8, <1>f, RingIntro DEF Facts
<1>10. GetDataAvailable(q) = GetDataAvailable(r) - n
  BY <1>4, <1>7 DEF GetDataAvailable
<1> QED BY <1>1, <1>9, <1>10

LEMMA GetDataInv ==
  ASSUME NEW r, RingInv(r)
  PROVE  /\ RingInv(GetData(r))
         /\ GetDataAvailable(GetData(r)) = GetDataAvailable(r)
         /\ Contiguous(GetData(r), GetDataAvailable(r)) = Held(r)
<1>f. Facts(r)
  BY RingFacts
<1> DEFINE b == Move(r.buf, 0, r.buf, r.size, r.end)
           q == [r EXCEPT !.buf = b, !.wrap = 0]
<1>1. CASE GetDataAvailable(r) # 0 /\ r.wrap = 1
  <2>1. GetData(r) = q
    BY <1>1 DEF GetData
  <2>2. /\ DOMAIN b = 0 .. 2 * r.size - 1
        /\ \A i \in 0 .. 2 * r.size - 1 :
             b[i] = IF i \in r.size .. r.size + r.end - 1 THEN r.buf[i - r.size] ELSE r.buf[i]
    BY <1>f DEF Facts, Move
  <2> HIDE DEF b
  <2>3. q \in RingRecord(b, r.packets)
    BY <1>f DEF Facts, RingRecord
  <2>4. /\ q.start = r.start /\ q.end = r.end /\ q.wrap = 0 /\ q.size = r.size
        /\ q.buf = b
    BY <1>f DEF Facts, RingRecord
  <2> HIDE DEF q
  <2>a. r.start \in Nat /\ r.end \in Nat /\ r.size \in Nat /\ r.end < r.start /\ r.start <= r.size
    BY <1>1, <1>f DEF Facts
  <2>b. EmptyAtZero(q)
    BY <2>a, <2>4 DEF EmptyAtZero
  <2>c. \A i \in 0 .. r.end - 1 : b[r.size + i] = b[i]
    <3> TAKE i \in 0 .. r.end - 1
    <3> DEFINE m == r.size + i
    <3>0. m \in 0 .. 2 * r.size - 1 /\ m \in r.size .. r.size + r.end - 1
      BY <2>a
    <3>1. b[m] = r.buf[m - r.size]
      <4> HIDE DEF m
      <4> QED BY <3>0, <2>2
    <3>2. b[i] = r.buf[i]
      BY <2>a, <2>2
    <3>3. m - r.size = i
      BY <2>a
    <3>4. b[m] = b[i]
      <4> HIDE DEF m
      <4> QED BY <3>1, <3>2, <3>3
    <3> QED BY <3>4, <2>a
  <2>5. EmptyAtZero(q) /\ Mirrored(q)
    BY <2>b, <2>c, <2>4 DEF Mirrored
  <2>6. RingInv(q)
    BY <2>2, <2>3, <2>4, <2>5, <1>f, RingIntro DEF Facts
  <2>7. GetDataAvailable(q) = GetDataAvailable(r)
    BY <2>4 DEF GetDataAvailable
  <2>8. \A i \in 1 .. GetDataAvailable(r) :
          b[r.start + i - 1] = IF r.start + i - 1 < r.size THEN r.buf[r.start + i - 1]
                               ELSE r.buf[r.start + i - 1 - r.size]
    <3> TAKE i \in 1 .. GetDataAvailable(r)
    <3>1. GetDataAvailable(r) = r.size + r.end - r.start
      BY <2>a DEF GetDataAvailable
    <3> DEFINE m == r.start + i - 1
    <3>0. m \in 0 .. 2 * r.size - 1 /\ (m \in r.size .. r.size + r.end - 1 <=> ~(m < r.size))
      BY <3>1, <2>a
    <3>2. b[m] = IF m < r.size THEN r.buf[m] ELSE r.buf[m - r.size]
      <4> HIDE DEF m
      <4> QED BY <3>0, <2>2
    <3> QED BY <3>2, <2>a
  <2>9. Contiguous(q, GetDataAvailable(r)) = Held(r)
    BY <2>4, <2>7, <2>8, <1>1 DEF Contiguous, Held, DataAt
  <2> QED BY <2>1, <2>6, <2>7, <2>9
<1>2. CASE ~(GetDataAvailable(r) # 0 /\ r.wrap = 1)
  <2>1. GetData(r) = r
    BY <1>2 DEF GetData
  <2>2. \A i \in 1 .. GetDataAvailable(r) :
          r.buf[r.start + i - 1] = IF r.start + i - 1 < r.size THEN r.buf[r.start + i - 1]
                                   ELSE r.buf[r.start + i - 1 - r.size]
    <3> TAKE i \in 1 .. GetDataAvailable(r)
    <3>1. /\ r.start \in Nat /\ r.end \in Nat /\ r.size \in Nat
          /\ r.start <= r.size /\ r.end <= r.size
      BY <1>f DEF Facts
    <3>2. CASE r.end < r.start
      <4>1. GetDataAvailable(r) = r.size + r.end - r.start
        BY <3>1, <3>2 DEF GetDataAvailable
      <4>2. GetDataAvailable(r) # 0
        BY <4>1, <3>1, <3>2
      <4>3. r.wrap = 0
        BY <4>2, <1>2, <1>f DEF Facts
      <4>4. \A j \in 0 .. r.end - 1 : r.buf[r.size + j] = r.buf[j]
        BY <4>3, <3>2, <1>f DEF Facts, Mirrored
      <4>5. CASE r.start + i - 1 >= r.size
        <5> DEFINE j == r.start + i - 1 - r.size
        <5>1. j \in 0 .. r.end - 1 /\ r.size + j = r.start + i - 1
          BY <4>1, <4>5, <3>1
        <5> QED BY <5>1, <4>4, <4>5, <3>1
      <4> QED BY <4>5, <4>1, <3>1
    <3>3. CASE ~(r.end < r.start)
      BY <3>1, <3>3 DEF GetDataAvailable
    <3> QED BY <3>2, <3>3
  <2>3. \A i \in 1 .. GetDataAvailable(r) : DataAt(r) = r.start
    BY <1>f DEF Facts, DataAt
  <2>4. Contiguous(r, GetDataAvailable(r)) = Held(r)
    BY <2>2, <2>3 DEF Contiguous, Held
  <2> QED BY <2>1, <2>4
<1> QED BY <1>1, <1>2
LEMMA ReallocateInv ==
  ASSUME NEW r, RingInv(r), NEW n \in Nat, n > r.size
  PROVE  /\ RingInv(Reallocate(r, n))
         /\ GetDataAvailable(Reallocate(r, n)) = GetDataAvailable(r)
         /\ Reallocate(r, n).start = 0 /\ Reallocate(r, n).size = n
<1>f. Facts(r) /\ GetDataAvailable(r) \in Nat /\ GetDataAvailable(r) <= r.size
  BY RingFacts, AvailableFacts
<1> DEFINE fresh == [i \in 0 .. 2 * n - 1 |-> Junk]
           head  == r.size - r.start
           e     == GetDataAvailable(r)
           b     == IF r.wrap = 1
                    THEN Move(r.buf, 0, Move(r.buf, r.start, fresh, 0, head), head, r.end)
                    ELSE Move(r.buf, r.start, fresh, 0, e)
           q     == [r EXCEPT !.buf = b, !.start = 0, !.end = e, !.size = n, !.wrap = 0]
<1>1. q = Reallocate(r, n)
  <2>1. ~(n <= r.size)
    BY <1>f DEF Facts
  <2> QED BY <2>1 DEF Reallocate
<1>2. DOMAIN b = 0 .. 2 * n - 1
  BY DEF Move
<1>3. e \in Nat /\ e <= n
  BY <1>f DEF Facts
<1> HIDE DEF b, e
<1>4. q \in RingRecord(b, r.packets)
  BY <1>3, <1>f DEF Facts, RingRecord
<1>5. q.start = 0 /\ q.end = e /\ q.size = n /\ q.wrap = 0
  BY <1>f DEF Facts, RingRecord
<1> HIDE DEF q
<1>6. EmptyAtZero(q) /\ Mirrored(q)
  BY <1>3, <1>5 DEF EmptyAtZero, Mirrored
<1>7. q.start <= n /\ q.end <= n /\ (q.wrap = 1 => q.end < q.start)
  BY <1>3, <1>5
<1>8. RingInv(q)
  BY <1>2, <1>4, <1>5, <1>6, <1>7, RingIntro
<1>9. GetDataAvailable(q) = e
  BY <1>3, <1>5 DEF GetDataAvailable
<1> QED BY <1>1, <1>5, <1>8, <1>9 DEF e

LEMMA PutInv ==
  ASSUME NEW r, RingInv(r), NEW data, NEW n \in Nat, n = Len(data),
         GetDataAvailable(r) + n <= r.size, ~FillsExactly(r, n)
  PROVE  /\ RingInv(Put(r, data))
         /\ GetDataAvailable(Put(r, data)) = GetDataAvailable(r) + n
<1>f. Facts(r)
  BY RingFacts
<1> DEFINE whole == r.end + n <= r.size
           tail  == IF whole THEN n ELSE r.size - r.end
           b == [i \in DOMAIN r.buf |->
                   IF i \in r.end .. r.end + tail - 1 THEN data[i - r.end + 1]
                   ELSE IF i \in 0 .. n - tail - 1 THEN data[i + tail + 1]
                   ELSE r.buf[i]]
           e == IF whole THEN r.end + n ELSE n - tail
           w == IF ~whole \/ r.end + n < r.start THEN 1 ELSE r.wrap
           q == [r EXCEPT !.buf = b, !.end = e, !.wrap = w]
<1>1. q = Put(r, data)
  BY DEF Put
<1>2. DOMAIN b = 0 .. 2 * r.size - 1
  BY <1>f DEF Facts
<1> HIDE DEF b
<1>3. r.start = r.end => r.start = 0
  BY <1>f DEF Facts
<1>4. /\ e \in Nat /\ e <= r.size /\ w \in {0, 1}
      /\ w = 1 => e < r.start
      /\ r.start = e => r.start = 0
      /\ e < r.start => w = 1
      /\ GetDataAvailable(r) + n =
           IF r.start < e THEN e - r.start ELSE IF e < r.start THEN r.size + e - r.start ELSE 0
  <2>1. CASE r.start = r.end
    <3>1. r.start = 0 /\ r.end = 0 /\ GetDataAvailable(r) = 0 /\ r.size \in Nat
          /\ r.wrap = 0
      BY <2>1, <1>3, <1>f DEF Facts, GetDataAvailable
    <3>2. whole /\ e = n /\ w = 0 /\ n <= r.size
      BY <3>1
    <3> HIDE DEF e, w
    <3> QED BY <3>1, <3>2
  <2>2. CASE r.start < r.end
    <3>1. /\ GetDataAvailable(r) = r.end - r.start /\ r.wrap = 0
          /\ r.size \in Nat /\ r.end \in Nat /\ r.start \in Nat /\ r.end <= r.size
          /\ r.end - r.start + n <= r.size
      BY <2>2, <1>f DEF Facts, GetDataAvailable
    <3>2. n > 0 /\ r.start # 0 => r.end - r.start + n # r.size
      BY <3>1 DEF FillsExactly
    <3>3. CASE whole
      <4>1. e = r.end + n /\ w = 0 /\ e > r.start /\ e <= r.size
        BY <2>2, <3>1, <3>3
      <4> HIDE DEF e, w
      <4> QED BY <3>1, <4>1
    <3>4. CASE ~whole
      <4>1. e = n - (r.size - r.end) /\ w = 1
        BY <3>4
      <4>2. e \in Nat /\ e < r.start
        BY <2>2, <3>1, <3>2, <3>4, <4>1
      <4> HIDE DEF e, w, whole
      <4> QED BY <2>2, <3>1, <4>1, <4>2
    <3> QED BY <3>3, <3>4
  <2>3. CASE r.end < r.start
    <3>1. /\ GetDataAvailable(r) = r.size + r.end - r.start
          /\ r.size \in Nat /\ r.end \in Nat /\ r.start \in Nat /\ r.start <= r.size
          /\ r.end + n <= r.start
      BY <2>3, <1>f DEF Facts, GetDataAvailable
    <3>2. r.end + n # r.start
      BY <2>3, <3>1 DEF FillsExactly
    <3>3. whole /\ e = r.end + n /\ e < r.start /\ w = 1
      BY <3>1, <3>2
    <3> HIDE DEF e, w, whole
    <3> QED BY <2>3, <3>1, <3>3
  <2> QED BY <2>1, <2>2, <2>3, <1>f DEF Facts
<1> HIDE DEF e, w
<1>5. q \in RingRecord(b, r.packets)
  BY <1>4, <1>f DEF Facts, RingRecord
<1>6. q.start = r.start /\ q.end = e /\ q.size = r.size /\ q.wrap = w
  BY <1>f DEF Facts, RingRecord
<1> HIDE DEF q
<1>7. EmptyAtZero(q) /\ Mirrored(q)
  BY <1>4, <1>6 DEF EmptyAtZero, Mirrored
<1>8. /\ r.size \in Nat /\ q.start <= r.size /\ q.end <= r.size
      /\ q.wrap = 1 => q.end < q.start
  BY <1>4, <1>6, <1>f DEF Facts
<1>9. RingInv(q)
  BY <1>2, <1>5, <1>6, <1>7, <1>8, RingIntro
<1>10. GetDataAvailable(q) = GetDataAvailable(r) + n
  BY <1>4, <1>6 DEF GetDataAvailable
<1> QED BY <1>1, <1>9, <1>10

LEMMA PacketsInv ==
  ASSUME NEW r, RingInv(r), NEW p
  PROVE  /\ RingInv([r EXCEPT !.packets = p])
         /\ GetDataAvailable([r EXCEPT !.packets = p]) = GetDataAvailable(r)
<1>f. Facts(r)
  BY RingFacts
<1> DEFINE q == [r EXCEPT !.packets = p]
<1>1. q \in RingRecord(r.buf, p)
  BY <1>f DEF Facts, RingRecord
<1>2. /\ q.start = r.start /\ q.end = r.end /\ q.size = r.size /\ q.wrap = r.wrap
      /\ q.buf = r.buf
  BY <1>f DEF Facts, RingRecord
<1> HIDE DEF q
<1>3. EmptyAtZero(q) /\ Mirrored(q)
  BY <1>2, <1>f DEF Facts, EmptyAtZero, Mirrored
<1>4. /\ r.size \in Nat /\ DOMAIN r.buf = 0 .. 2 * r.size - 1
      /\ q.start <= r.size /\ q.end <= r.size
      /\ q.wrap = 1 => q.end < q.start
  BY <1>2, <1>f DEF Facts
<1>5. RingInv(q)
  BY <1>1, <1>2, <1>3, <1>4, RingIntro
<1> QED BY <1>2, <1>5 DEF GetDataAvailable, q

LEMMA InInv ==
  ASSUME NEW r, RingInv(r), NEW data, NEW n \in Nat, n = Len(data), ~FillsExactly(r, n)
  PROVE  /\ RingInv(In(r, data))
         /\ GetDataAvailable(In(r, data)) = GetDataAvailable(r) + n
<1>f. r.size \in Nat /\ GetDataAvailable(r) \in Nat /\ GetDataAvailable(r) <= r.size
  BY RingFacts, AvailableFacts DEF Facts
<1> DEFINE need == GetDataAvailable(r) + n
           room == IF need > r.size THEN Reallocate(r, need) ELSE r
           put  == Put(room, data)
<1>1. /\ RingInv(room)
      /\ GetDataAvailable(room) = GetDataAvailable(r)
      /\ GetDataAvailable(room) + n <= room.size
      /\ ~FillsExactly(room, n)
  <2>1. CASE need > r.size
    <3>1. RingInv(room) /\ GetDataAvailable(room) = GetDataAvailable(r)
          /\ room.start = 0 /\ room.size = need
      BY <2>1, <1>f, ReallocateInv
    <3> HIDE DEF room
    <3> QED BY <3>1, <1>f DEF FillsExactly
  <2>2. CASE ~(need > r.size)
    BY <2>2, <1>f
  <2> QED BY <2>1, <2>2
<1> HIDE DEF room
<1>2. RingInv(put) /\ GetDataAvailable(put) = GetDataAvailable(room) + n
  BY <1>1, PutInv
<1> HIDE DEF put
<1> DEFINE o == Append(put.packets, n)
<1> HIDE DEF o
<1>3. RingInv([put EXCEPT !.packets = o]) /\ GetDataAvailable([put EXCEPT !.packets = o]) = GetDataAvailable(put)
  BY <1>2, PacketsInv
<1>4. In(r, data) = [put EXCEPT !.packets = o]
  BY DEF In, o, put, room
<1> QED BY <1>1, <1>2, <1>3, <1>4

(* An append that fills a ring that does not start at 0 to its last byte     *)
(* ends where the data begins, which reads as "empty".                       *)
LEMMA ExactFillLoses ==
  ASSUME NEW r, RingInv(r), NEW data, NEW n \in Nat, n = Len(data), FillsExactly(r, n)
  PROVE  GetDataAvailable(In(r, data)) = 0
<1>f. Facts(r)
  BY RingFacts
<1> DEFINE whole == r.end + n <= r.size
           tail  == IF whole THEN n ELSE r.size - r.end
           b == [i \in DOMAIN r.buf |->
                   IF i \in r.end .. r.end + tail - 1 THEN data[i - r.end + 1]
                   ELSE IF i \in 0 .. n - tail - 1 THEN data[i + tail + 1]
                   ELSE r.buf[i]]
           e == IF whole THEN r.end + n ELSE n - tail
           w == IF ~whole \/ r.end + n < r.start THEN 1 ELSE r.wrap
           q == [r EXCEPT !.buf = b, !.end = e, !.wrap = w]
<1>1. n > 0 /\ r.start # 0 /\ GetDataAvailable(r) + n = r.size
  BY DEF FillsExactly
<1>2. /\ r.size \in Nat /\ r.start \in Nat /\ r.end \in Nat /\ r.end <= r.size /\ r.start <= r.size
      /\ r.start = r.end => r.start = 0
  BY <1>f DEF Facts
<1>3. In(r, data) = [q EXCEPT !.packets = Append(q.packets, n)]
  <2>1. ~(GetDataAvailable(r) + Len(data) > r.size) BY <1>1, <1>2
  <2>2. In(r, data) = [Put(r, data) EXCEPT !.packets = Append(@, Len(data))] BY <2>1 DEF In
  <2>3. Put(r, data) = q BY DEF Put
  <2> HIDE DEF q
  <2> QED BY <2>2, <2>3
<1>4. e = r.start
  <2>1. CASE r.start < r.end
    <3>1. r.end - r.start + n = r.size BY <1>1, <2>1 DEF GetDataAvailable
    <3> QED BY <1>1, <1>2, <2>1, <3>1
  <2>2. CASE r.end < r.start
    <3>1. r.size + r.end - r.start + n = r.size BY <1>1, <1>2, <2>2 DEF GetDataAvailable
    <3> QED BY <1>1, <1>2, <2>2, <3>1
  <2> QED BY <1>1, <1>2, <2>1, <2>2
<1> HIDE DEF b, e, w
<1>5. In(r, data).start = r.start /\ In(r, data).end = e
  BY <1>3, <1>f DEF Facts, RingRecord
<1> QED BY <1>2, <1>4, <1>5 DEF GetDataAvailable

-----------------------------------------------------------------------------
(* RingInv holds in the beginning and every call of RingBufferSpec keeps it. *)

LEMMA InitInv ==
  ASSUME SizesAssumption
  PROVE  RingInv(Initialized(InitialBytes))
<1> DEFINE b == [i \in 0 .. 2 * InitialBytes - 1 |-> Junk]
           p == <<>>
           q == Initialized(InitialBytes)
<1>1. q = [buf |-> b, start |-> 0, end |-> 0, size |-> InitialBytes, wrap |-> 0, packets |-> p]
  BY DEF Initialized
<1>2. DOMAIN b = 0 .. 2 * InitialBytes - 1 /\ InitialBytes \in Nat
  BY DEF SizesAssumption
<1> HIDE DEF b, p, q
<1>3. /\ q \in RingRecord(b, p)
      /\ q.start = 0 /\ q.end = 0 /\ q.size = InitialBytes /\ q.wrap = 0
  BY <1>1, <1>2 DEF RingRecord
<1>4. EmptyAtZero(q) /\ Mirrored(q)
  BY <1>3 DEF EmptyAtZero, Mirrored
<1>5. q.start <= InitialBytes /\ q.end <= InitialBytes /\ (q.wrap = 1 => q.end < q.start)
  BY <1>2, <1>3
<1>6. RingInv(q)
  BY <1>2, <1>3, <1>4, <1>5, RingIntro
<1> QED BY <1>6 DEF q

(* An append that does not fill the ring exactly adds its bytes to those     *)
(* that are available.                                                       *)
LEMMA AppendStep ==
  ASSUME SizesAssumption, ExactFill = FALSE, RingInv(ring),
         NEW n \in PacketSizes, AppendPacket(n)
  PROVE  RingInv(ring') /\ GetDataAvailable(ring') = GetDataAvailable(ring) + n
<1> DEFINE data == [i \in 1 .. n |-> (next + i - 1) % Colours]
<1>1. n \in Nat
  BY DEF SizesAssumption
<1>2. Len(data) = n
  BY <1>1
<1>3. ~FillsExactly(ring, n) /\ ring' = In(ring, data)
  BY DEF AppendPacket
<1> HIDE DEF data
<1> QED BY <1>1, <1>2, <1>3, InInv

LEMMA StepInv ==
  ASSUME SizesAssumption, ExactFill = FALSE, RingInv(ring), [Next]_vars
  PROVE  RingInv(ring')
<1>1. ASSUME NEW n \in PacketSizes, AppendPacket(n) PROVE RingInv(ring')
  BY <1>1, AppendStep
<1>2. ASSUME NEW n \in 0 .. MaxBytes, DropBytes(n) PROVE RingInv(ring')
  <2>1. n \in Nat
    BY DEF SizesAssumption
  <2> QED BY <1>2, <2>1, ZapInv DEF DropBytes
<1>3. CASE ReadAll
  BY <1>3, GetDataInv DEF ReadAll
<1>4. CASE ResetRing
  BY <1>4, ResetInv DEF ResetRing
<1>5. CASE UninitializeRing
  BY <1>5, UninitializeInv DEF UninitializeRing
<1>6. CASE UNCHANGED vars
  BY <1>6 DEF vars
<1> QED BY <1>1, <1>2, <1>3, <1>4, <1>5, <1>6 DEF Next

LEMMA InvariantHolds ==
  ASSUME ExactFill = FALSE
  PROVE  Spec => []RingInv(ring)
<1>1. Init => RingInv(ring)
  BY SizesAssumption, InitInv DEF Init
<1>2. RingInv(ring) /\ [Next]_vars => RingInv(ring)'
  BY SizesAssumption, StepInv
<1> QED BY <1>1, <1>2, PTL DEF Spec

LEMMA NextNumber == Spec => [](next \in 0 .. Colours - 1)
<1>1. Init => next \in 0 .. Colours - 1
  BY SizesAssumption, ColoursAssumption DEF Init, SizesAssumption, ColoursAssumption
<1>2. next \in 0 .. Colours - 1 /\ [Next]_vars => (next \in 0 .. Colours - 1)'
  <2> SUFFICES ASSUME next \in 0 .. Colours - 1, [Next]_vars
               PROVE  next' \in 0 .. Colours - 1
    OBVIOUS
  <2>1. ASSUME NEW n \in PacketSizes, AppendPacket(n) PROVE next' \in 0 .. Colours - 1
    <3>1. n \in Nat /\ Colours \in Nat /\ Colours > 0
      BY SizesAssumption, ColoursAssumption DEF SizesAssumption, ColoursAssumption
    <3>2. next' = (next + n) % Colours
      BY <2>1 DEF AppendPacket
    <3> QED BY <3>1, <3>2
  <2>2. ASSUME NEW n \in 0 .. MaxBytes, DropBytes(n) PROVE next' = next
    BY <2>2 DEF DropBytes
  <2>3. CASE ReadAll \/ ResetRing \/ UninitializeRing
    BY <2>3 DEF ReadAll, ResetRing, UninitializeRing
  <2>4. CASE UNCHANGED vars
    BY <2>4 DEF vars
  <2> QED BY <2>1, <2>2, <2>3, <2>4 DEF Next
<1> QED BY <1>1, <1>2, PTL DEF Spec

(* Every index stays inside the ring and the memory is always its two        *)
(* halves, for every size of the ring and of the packets.                    *)
THEOREM RingStaysOK ==
  ASSUME ExactFill = FALSE
  PROVE  Spec => []TypeOK
<1>1. Spec => []RingInv(ring)
  BY InvariantHolds
<1>2. RingInv(ring) => RingOK(ring)
  BY DEF RingInv
<1> QED BY <1>1, <1>2, NextNumber, PTL DEF TypeOK

(* A reader always gets the whole of the data, in order, as one block.       *)
THEOREM ReaderGetsHeld ==
  ASSUME ExactFill = FALSE
  PROVE  Spec => []ReaderSeesHeld
<1>1. RingInv(ring) => ReaderSeesHeld
  BY GetDataInv DEF ReaderSeesHeld
<1> QED BY <1>1, InvariantHolds, PTL

(* "reallocates the buffer as needed": in every ring that no append filled   *)
(* exactly, the next append of any bytes adds them all, or fills it exactly  *)
(* and then all of the data is lost.                                         *)
THEOREM AppendsAddOrLose ==
  ASSUME ExactFill = FALSE
  PROVE  Spec => []GrowsAsNeeded
<1>1. RingInv(ring) => GrowsAsNeeded
  <2> SUFFICES ASSUME RingInv(ring), NEW data \in Seq(0 .. Colours - 1)
               PROVE  GetDataAvailable(In(ring, data)) =
                        IF FillsExactly(ring, Len(data)) THEN 0 ELSE GetDataAvailable(ring) + Len(data)
    BY DEF GrowsAsNeeded
  <2>1. Len(data) \in Nat OBVIOUS
  <2>2. CASE FillsExactly(ring, Len(data)) BY <2>1, <2>2, ExactFillLoses
  <2>3. CASE ~FillsExactly(ring, Len(data)) BY <2>1, <2>3, InInv
  <2> QED BY <2>2, <2>3
<1> QED BY <1>1, InvariantHolds, PTL

-----------------------------------------------------------------------------
(* The sums of packet sizes that Zap compares with the bytes to drop.        *)

\* g[k] is the sum of the first k sizes.
Sums(g, s, n) == g = [i \in 0 .. n |-> IF i = 0 THEN 0 ELSE g[i - 1] + s[i]]

LEMMA SumsAt ==
  ASSUME NEW g, NEW s, NEW n \in Nat, Sums(g, s, n)
  PROVE  g[0] = 0 /\ \A i \in 1 .. n : g[i] = g[i - 1] + s[i]
  <1>1. \A i \in 0 .. n : g[i] = IF i = 0 THEN 0 ELSE g[i - 1] + s[i] BY DEF Sums
  <1> QED BY <1>1

LEMMA SumsExist == ASSUME NEW s, NEW n \in Nat PROVE \E g : Sums(g, s, n)
  <1> DEFINE S == {k \in Nat : \E g : Sums(g, s, k)}
  <1>1. 0 \in S
    <2>1. Sums([i \in 0 .. 0 |-> 0], s, 0) BY DEF Sums
    <2> QED BY <2>1
  <1>2. ASSUME NEW k \in Nat, k \in S PROVE k + 1 \in S
    <2>1. PICK g : Sums(g, s, k) BY <1>2
    <2> DEFINE h == [i \in 0 .. k + 1 |-> IF i = k + 1 THEN g[k] + s[k + 1] ELSE g[i]]
    <2>2. \A i \in 0 .. k : g[i] = IF i = 0 THEN 0 ELSE g[i - 1] + s[i] BY <2>1 DEF Sums
    <2>3. \A i \in 0 .. k + 1 : h[i] = IF i = 0 THEN 0 ELSE h[i - 1] + s[i] BY <2>2
    <2>4. Sums(h, s, k + 1) BY <2>3 DEF Sums
    <2> QED BY <2>4
  <1> HIDE DEF S
  <1>3. Nat \subseteq S BY <1>1, <1>2, Inductive
  <1> QED BY <1>3 DEF S

LEMMA PrefixIs == ASSUME NEW s, NEW n \in Nat PROVE \E g : Sums(g, s, n) /\ PrefixSum(s, n) = g[n]
  <1>1. \E g : Sums(g, s, n) BY SumsExist
  <1>2. Sums(CHOOSE g : Sums(g, s, n), s, n) BY <1>1
  <1> QED BY <1>2 DEF PrefixSum, Sums

LEMMA SumsAgree ==
  ASSUME NEW s, NEW m \in Nat, NEW n \in Nat, m <= n, NEW g, NEW h, Sums(g, s, m), Sums(h, s, n)
  PROVE  g[m] = h[m]
  <1> DEFINE S == {k \in Nat : k <= m => g[k] = h[k]}
  <1>0. /\ g[0] = 0 /\ \A i \in 1 .. m : g[i] = g[i - 1] + s[i]
        /\ h[0] = 0 /\ \A i \in 1 .. n : h[i] = h[i - 1] + s[i]
    BY SumsAt
  <1>1. 0 \in S BY <1>0
  <1>2. ASSUME NEW k \in Nat, k \in S PROVE k + 1 \in S
    <2> SUFFICES ASSUME k + 1 <= m PROVE g[k + 1] = h[k + 1] OBVIOUS
    <2>1. k + 1 \in 1 .. m /\ k + 1 \in 1 .. n /\ (k + 1) - 1 = k OBVIOUS
    <2>2. g[k + 1] = g[k] + s[k + 1] /\ h[k + 1] = h[k] + s[k + 1] BY <1>0, <2>1
    <2> QED BY <1>2, <2>2
  <1> HIDE DEF S
  <1>3. Nat \subseteq S BY <1>1, <1>2, Inductive
  <1> QED BY <1>3 DEF S

LEMMA PrefixStep ==
  ASSUME NEW s, NEW n \in Nat
  PROVE  PrefixSum(s, 0) = 0 /\ PrefixSum(s, n + 1) = PrefixSum(s, n) + s[n + 1]
  <1>1. PICK f : Sums(f, s, 0) /\ PrefixSum(s, 0) = f[0] BY PrefixIs
  <1>2. PICK g : Sums(g, s, n) /\ PrefixSum(s, n) = g[n] BY PrefixIs
  <1>3. PICK h : Sums(h, s, n + 1) /\ PrefixSum(s, n + 1) = h[n + 1] BY PrefixIs
  <1>4. g[n] = h[n] BY <1>2, <1>3, SumsAgree
  <1>5. h[n + 1] = h[n] + s[n + 1]
    <2>1. \A i \in 1 .. n + 1 : h[i] = h[i - 1] + s[i] BY <1>3, SumsAt
    <2>2. n + 1 \in 1 .. n + 1 /\ (n + 1) - 1 = n OBVIOUS
    <2> QED BY <2>1, <2>2
  <1>6. f[0] = 0 BY <1>1, SumsAt
  <1> QED BY <1>1, <1>2, <1>3, <1>4, <1>5, <1>6

LEMMA PrefixNat ==
  ASSUME NEW s, NEW n \in Nat, \A i \in 1 .. n : s[i] \in Nat
  PROVE  PrefixSum(s, n) \in Nat
  <1> DEFINE S == {k \in Nat : k <= n => PrefixSum(s, k) \in Nat}
  <1>1. 0 \in S BY PrefixStep
  <1>2. ASSUME NEW k \in Nat, k \in S PROVE k + 1 \in S
    <2> SUFFICES ASSUME k + 1 <= n PROVE PrefixSum(s, k + 1) \in Nat OBVIOUS
    <2>1. s[k + 1] \in Nat /\ PrefixSum(s, k) \in Nat BY <1>2
    <2>2. PrefixSum(s, k + 1) = PrefixSum(s, k) + s[k + 1] BY PrefixStep
    <2> QED BY ONLY <2>1, <2>2
  <1> HIDE DEF S
  <1>3. Nat \subseteq S BY <1>1, <1>2, Inductive
  <1> QED BY <1>3 DEF S

\* Of a list that goes on after c sizes as another does after d.
LEMMA PrefixShift ==
  ASSUME NEW s, NEW t, NEW c \in Nat, NEW d \in Nat, NEW n \in Nat,
         \A i \in 1 .. c + n : t[i] \in Nat, \A i \in 1 .. d + n : s[i] \in Nat,
         \A i \in 1 .. n : t[c + i] = s[d + i]
  PROVE  PrefixSum(t, c + n) + PrefixSum(s, d) = PrefixSum(s, d + n) + PrefixSum(t, c)
  <1> DEFINE S == {k \in Nat : k <= n =>
                     PrefixSum(t, c + k) + PrefixSum(s, d) = PrefixSum(s, d + k) + PrefixSum(t, c)}
  <1>0. PrefixSum(t, c) \in Nat /\ PrefixSum(s, d) \in Nat
    <2>1. \A i \in 1 .. c : t[i] \in Nat OBVIOUS
    <2>2. \A i \in 1 .. d : s[i] \in Nat OBVIOUS
    <2> QED BY ONLY <2>1, <2>2, PrefixNat, c \in Nat, d \in Nat
  <1>1. 0 \in S BY <1>0
  <1>2. ASSUME NEW k \in Nat, k \in S PROVE k + 1 \in S
    <2> DEFINE j == k + 1
    <2> SUFFICES ASSUME j <= n
                 PROVE  PrefixSum(t, c + j) + PrefixSum(s, d) = PrefixSum(s, d + j) + PrefixSum(t, c)
      OBVIOUS
    <2>0. /\ c + k \in Nat /\ d + k \in Nat /\ j \in 1 .. n /\ d + j \in 1 .. d + n
          /\ (c + k) + 1 = c + j /\ (d + k) + 1 = d + j
      OBVIOUS
    <2>1. PrefixSum(t, (c + k) + 1) = PrefixSum(t, c + k) + t[(c + k) + 1] BY <2>0, PrefixStep
    <2>2. PrefixSum(s, (d + k) + 1) = PrefixSum(s, d + k) + s[(d + k) + 1] BY <2>0, PrefixStep
    <2>3. PrefixSum(t, c + k) + PrefixSum(s, d) = PrefixSum(s, d + k) + PrefixSum(t, c) BY <1>2
    <2>4. PrefixSum(t, c + k) \in Nat /\ PrefixSum(s, d + k) \in Nat
      <3>1. \A i \in 1 .. c + k : t[i] \in Nat OBVIOUS
      <3>2. \A i \in 1 .. d + k : s[i] \in Nat OBVIOUS
      <3> QED BY ONLY <2>0, <3>1, <3>2, PrefixNat
    <2> HIDE DEF S, j
    <2>5. t[c + j] = s[d + j] /\ s[d + j] \in Nat BY <2>0
    <2>6. PrefixSum(t, c + j) = PrefixSum(t, c + k) + s[d + j] BY ONLY <2>0, <2>1, <2>5, Zenon
    <2>7. PrefixSum(s, d + j) = PrefixSum(s, d + k) + s[d + j] BY ONLY <2>0, <2>2, Zenon
    <2> QED BY ONLY <1>0, <2>3, <2>4, <2>5, <2>6, <2>7
  <1> HIDE DEF S
  <1>3. Nat \subseteq S BY <1>1, <1>2, Inductive
  <1>4. n \in S BY <1>3
  <1> QED BY <1>4 DEF S

\* All the sizes, added up: what Fifo!Total is too.
Whole(s) == PrefixSum(s, Len(s))

LEMMA WholeNat == ASSUME NEW s \in Seq(Nat) PROVE Whole(s) \in Nat
  <1>1. Len(s) \in Nat /\ \A i \in 1 .. Len(s) : s[i] \in Nat OBVIOUS
  <1> QED BY <1>1, PrefixNat DEF Whole

\* The first n elements are sizes; t is what s has after d sizes.
Sizes(s, n) == \A i \in 1 .. n : s[i] \in Nat
GoesOn(t, s, d, n) == \A i \in 1 .. n : t[i] = s[d + i]

\* Of a list that is the end of another.
LEMMA PrefixRest ==
  ASSUME NEW s, NEW t, NEW d \in Nat, NEW n \in Nat,
         Sizes(t, n), Sizes(s, d + n), GoesOn(t, s, d, n)
  PROVE  PrefixSum(t, n) + PrefixSum(s, d) = PrefixSum(s, d + n)
  <1> DEFINE z == 0
  <1>0. /\ \A i \in 1 .. n : t[i] \in Nat
        /\ \A i \in 1 .. d + n : s[i] \in Nat
        /\ \A i \in 1 .. n : t[i] = s[d + i]
    BY DEF Sizes, GoesOn
  <1>1. z \in Nat /\ z + n = n /\ \A i \in 1 .. n : z + i = i OBVIOUS
  <1>2. PrefixSum(t, z) = 0 BY PrefixStep
  <1> HIDE DEF z
  <1>3. \A i \in 1 .. z + n : t[i] \in Nat BY <1>0, <1>1
  <1>4. \A i \in 1 .. n : t[z + i] = s[d + i] BY <1>0, <1>1
  <1>5. PrefixSum(t, z + n) + PrefixSum(s, d) = PrefixSum(s, d + n) + PrefixSum(t, z)
    BY ONLY <1>0, <1>1, <1>3, <1>4, PrefixShift, d \in Nat, n \in Nat
  <1>6. PrefixSum(t, n) + PrefixSum(s, d) = PrefixSum(s, d + n) + 0 BY ONLY <1>1, <1>2, <1>5, Zenon
  <1>7. PrefixSum(s, d + n) \in Nat BY <1>0, PrefixNat, d + n \in Nat
  <1> QED BY ONLY <1>6, <1>7

LEMMA RestSum ==
  ASSUME NEW s \in Seq(Nat), NEW k \in 0 .. Len(s)
  PROVE  /\ SubSeq(s, k + 1, Len(s)) \in Seq(Nat)
         /\ Whole(SubSeq(s, k + 1, Len(s))) + PrefixSum(s, k) = Whole(s)
  <1> DEFINE t == SubSeq(s, k + 1, Len(s))
             n == Len(s) - k
  <1>1. /\ Len(s) \in Nat /\ k \in Nat /\ n \in Nat /\ k + n = Len(s) /\ 0 + n = n /\ 0 \in Nat
        /\ \A i \in 1 .. k + n : s[i] \in Nat
        /\ \A i \in k + 1 .. Len(s) : s[i] \in Nat
    OBVIOUS
  <1>2. t \in Seq(Nat) /\ Len(t) = n /\ \A i \in 1 .. n : t[i] = s[k + i]
    <2>1. k + 1 \in Int /\ Len(s) \in Int OBVIOUS
    <2>2. t \in Seq(Nat) BY ONLY <1>1, <2>1, SubSeqProperties
    <2>3. Len(t) = n OBVIOUS
    <2>4. \A i \in 1 .. n : t[i] = s[k + i] OBVIOUS
    <2> QED BY <2>2, <2>3, <2>4
  <1> HIDE DEF t, n
  <1>3. Sizes(t, n) /\ Sizes(s, k + n) /\ GoesOn(t, s, k, n) BY <1>1, <1>2 DEF Sizes, GoesOn
  <1>4. PrefixSum(t, n) + PrefixSum(s, k) = PrefixSum(s, k + n) BY ONLY <1>1, <1>3, PrefixRest
  <1>7. PrefixSum(t, n) + PrefixSum(s, k) = PrefixSum(s, Len(s)) BY ONLY <1>1, <1>4, Zenon
  <1>9. Whole(t) + PrefixSum(s, k) = Whole(s) BY ONLY <1>2, <1>7, Zenon DEF Whole
  <1> QED BY <1>2, <1>9 DEF t

LEMMA ConsSum ==
  ASSUME NEW s \in Seq(Nat), NEW a \in Nat
  PROVE  <<a>> \o s \in Seq(Nat) /\ Whole(<<a>> \o s) = a + Whole(s)
  <1> DEFINE t == <<a>> \o s
             n == Len(s)
  <1>1. n \in Nat /\ (\A i \in 1 .. 0 + n : s[i] \in Nat) /\ 0 + n = n /\ 0 \in Nat /\ 1 \in Nat OBVIOUS
  <1>2. t \in Seq(Nat) /\ Len(t) = 1 + n /\ t[1] = a /\ \A i \in 1 .. n : t[1 + i] = s[i]
    <2>1. <<a>> \in Seq(Nat) /\ Len(<<a>>) = 1 OBVIOUS
    <2>2. t \in Seq(Nat) BY <2>1, ConcatProperties
    <2>3. Len(t) = 1 + n BY <2>1, ConcatProperties
    <2>4. t[1] = a OBVIOUS
    <2>5. \A i \in 1 .. n : t[1 + i] = s[i] OBVIOUS
    <2> QED BY <2>2, <2>3, <2>4, <2>5
  <1> HIDE DEF t, n
  <1>3. \A i \in 1 .. n : t[1 + i] = s[0 + i] BY <1>2
  <1>4. \A i \in 1 .. 1 + n : t[i] \in Nat BY <1>1, <1>2
  <1>5. PrefixSum(t, 1 + n) + PrefixSum(s, 0) = PrefixSum(s, 0 + n) + PrefixSum(t, 1)
    BY ONLY <1>1, <1>3, <1>4, PrefixShift
  <1>6. PrefixSum(s, 0) = 0 /\ PrefixSum(t, 0) = 0 /\ PrefixSum(t, 0 + 1) = PrefixSum(t, 0) + t[0 + 1]
    BY ONLY <1>1, PrefixStep
  <1>7. PrefixSum(t, 1) = a BY <1>2, <1>6
  <1>8. Whole(s) \in Nat /\ Whole(t) \in Nat BY <1>2, WholeNat
  <1>9. Whole(t) + 0 = Whole(s) + a BY ONLY <1>1, <1>2, <1>5, <1>6, <1>7, Zenon DEF Whole, n
  <1>10. Whole(t) = a + Whole(s) BY ONLY <1>8, <1>9, a \in Nat
  <1> QED BY <1>2, <1>10 DEF t

LEMMA AppendSum ==
  ASSUME NEW s \in Seq(Nat), NEW a \in Nat
  PROVE  Append(s, a) \in Seq(Nat) /\ Whole(Append(s, a)) = Whole(s) + a
  <1> DEFINE t == Append(s, a)
             n == Len(s)
  <1> DEFINE z == 0
  <1>1. n \in Nat /\ z \in Nat /\ z + n = n /\ (\A i \in 1 .. n : s[i] \in Nat /\ z + i = i) OBVIOUS
  <1>2. t \in Seq(Nat) /\ Len(t) = n + 1 /\ t[n + 1] = a /\ \A i \in 1 .. n : t[i] = s[i] OBVIOUS
  <1>3. PrefixSum(s, z) = 0 BY PrefixStep
  <1> HIDE DEF t, n, z
  <1>4. Sizes(t, n) /\ Sizes(s, z + n) /\ GoesOn(t, s, z, n) BY <1>1, <1>2 DEF Sizes, GoesOn
  <1>5. PrefixSum(t, n) + PrefixSum(s, z) = PrefixSum(s, z + n) BY ONLY <1>1, <1>4, PrefixRest
  <1>6. PrefixSum(t, n + 1) = PrefixSum(t, n) + t[n + 1] BY ONLY <1>1, PrefixStep
  <1>7. PrefixSum(t, n) + 0 = PrefixSum(s, n) BY ONLY <1>1, <1>3, <1>5, Zenon
  <1>8. PrefixSum(t, n) \in Nat /\ PrefixSum(s, n) \in Nat BY <1>1, <1>4, PrefixNat DEF Sizes
  <1>9. PrefixSum(t, n) = PrefixSum(s, n) BY ONLY <1>7, <1>8
  <1>10. Whole(t) = Whole(s) + a BY ONLY <1>2, <1>6, <1>9, Zenon DEF Whole, n
  <1> QED BY <1>2, <1>10 DEF t

(* Zap drops whole packets and shortens at most the next one, n bytes in all. *)
LEMMA ZapPacketsIs ==
  ASSUME NEW s \in Seq(Nat), NEW n \in Nat, n <= Whole(s)
  PROVE  /\ ZapPackets(s, n) \in Seq(Nat)
         /\ Whole(ZapPackets(s, n)) + n = Whole(s)
         /\ \E k \in 0 .. Len(s) :
              \/ ZapPackets(s, n) = SubSeq(s, k + 1, Len(s))
              \/ k > 0 /\ \E left \in 1 .. s[k] :
                   ZapPackets(s, n) = <<left>> \o SubSeq(s, k + 1, Len(s))
  <1>1. CASE n = 0
    <2>1. ZapPackets(s, n) = s BY <1>1 DEF ZapPackets
    <2>2. SubSeq(s, 0 + 1, Len(s)) = s BY SubSeqFull
    <2>3. 0 \in 0 .. Len(s) OBVIOUS
    <2>4. Whole(s) + n = Whole(s) BY <1>1, WholeNat
    <2> QED BY <2>1, <2>2, <2>3, <2>4
  <1>2. CASE n # 0
    <2> DEFINE T == {j \in 1 .. Len(s) : PrefixSum(s, j) >= n}
               Found(j) == PrefixSum(s, j) >= n /\ PrefixSum(s, j - 1) < n
               k == CHOOSE j \in 1 .. Len(s) : PrefixSum(s, j) >= n /\ PrefixSum(s, j - 1) < n
               left == PrefixSum(s, k) - n
               rest == SubSeq(s, k + 1, Len(s))
    <2>a. \A j \in 0 .. Len(s) : PrefixSum(s, j) \in Nat
      <3> TAKE j \in 0 .. Len(s)
      <3>1. j \in Nat /\ \A i \in 1 .. j : s[i] \in Nat OBVIOUS
      <3> QED BY ONLY <3>1, PrefixNat
    <2>b. PrefixSum(s, 0) = 0 BY PrefixStep
    <2>c. Len(s) \in Nat OBVIOUS
    <2>1. T # {} /\ T \in SUBSET Nat
      <3>1. Len(s) # 0 BY <1>2, <2>b DEF Whole
      <3>2. Len(s) \in 1 .. Len(s) BY <2>c, <3>1
      <3>3. PrefixSum(s, Len(s)) >= n BY <2>a, <2>c DEF Whole
      <3> QED BY <3>2, <3>3
    <2>2. \E j \in 1 .. Len(s) : PrefixSum(s, j) >= n /\ PrefixSum(s, j - 1) < n
      <3>1. PICK j \in T : \A i \in T : j <= i BY <2>1, LeastOf
      <3>2. j \in 1 .. Len(s) /\ PrefixSum(s, j) >= n BY <3>1
      <3>3. PrefixSum(s, j - 1) < n
        <4>1. CASE j = 1 BY <4>1, <2>b, <1>2
        <4>2. CASE j # 1
          <5>1. j - 1 \in 1 .. Len(s) /\ j - 1 \in 0 .. Len(s) /\ ~(j <= j - 1) BY <3>2, <4>2, <2>c
          <5>2. ~(PrefixSum(s, j - 1) >= n) BY <3>1, <5>1
          <5> QED BY <2>a, <5>1, <5>2
        <4> QED BY <4>1, <4>2
      <3> QED BY <3>2, <3>3
    <2>3. k \in 1 .. Len(s) /\ PrefixSum(s, k) >= n /\ PrefixSum(s, k - 1) < n BY <2>2
    <2>4. ZapPackets(s, n) = IF left = 0 THEN rest ELSE <<left>> \o rest BY <1>2 DEF ZapPackets
    <2> HIDE DEF T, k
    <2>5. k \in 0 .. Len(s) /\ k > 0 /\ k - 1 \in 0 .. Len(s) /\ k - 1 \in Nat /\ (k - 1) + 1 = k BY <2>3, <2>c
    <2>6. PrefixSum(s, (k - 1) + 1) = PrefixSum(s, k - 1) + s[(k - 1) + 1] BY <2>5, PrefixStep
    <2>7. PrefixSum(s, k) = PrefixSum(s, k - 1) + s[k] BY ONLY <2>5, <2>6, Zenon
    <2>8. s[k] \in Nat BY <2>3
    <2>9. PrefixSum(s, k) \in Nat /\ PrefixSum(s, k - 1) \in Nat BY <2>a, <2>5
    <2>10. left \in Nat /\ left <= s[k] BY <2>3, <2>7, <2>8, <2>9
    <2>11. rest \in Seq(Nat) /\ Whole(rest) + PrefixSum(s, k) = Whole(s) BY <2>5, RestSum
    <2>12. left + n = PrefixSum(s, k) BY <2>9
    <2>13. Whole(rest) \in Nat BY <2>11, WholeNat
    <2>14. CASE left = 0
      <3>1. ZapPackets(s, n) = rest BY <2>4, <2>14
      <3>2. PrefixSum(s, k) = n BY <2>9, <2>14
      <3> QED BY <2>5, <2>11, <3>1, <3>2
    <2>15. CASE left # 0
      <3>1. ZapPackets(s, n) = <<left>> \o rest BY <2>4, <2>15
      <3>2. left \in 1 .. s[k] BY <2>8, <2>10, <2>15
      <3> HIDE DEF left, rest
      <3>3. <<left>> \o rest \in Seq(Nat) /\ Whole(<<left>> \o rest) = left + Whole(rest) BY <2>10, <2>11, ConsSum
      <3>4. (left + Whole(rest)) + n = Whole(s) BY ONLY <2>10, <2>11, <2>12, <2>13, n \in Nat
      <3>5. Whole(ZapPackets(s, n)) + n = Whole(s) BY <3>1, <3>3, <3>4
      <3> QED BY <2>5, <3>1, <3>2, <3>3, <3>5 DEF rest
    <2> QED BY <2>14, <2>15
  <1> QED BY <1>1, <1>2

-----------------------------------------------------------------------------
(* The bytes the ring holds, and what each method does to them.              *)

\* The i-th of the bytes the ring holds.
At(r, i) ==
  IF r.start + i - 1 < r.size THEN r.buf[r.start + i - 1] ELSE r.buf[r.start + i - 1 - r.size]

LEMMA HeldAt == ASSUME NEW r PROVE Held(r) = [i \in 1 .. GetDataAvailable(r) |-> At(r, i)]
  BY DEF Held, At

\* A function on 1 .. n is a sequence.
LEMMA IsSeq ==
  ASSUME NEW n \in Nat, NEW f, DOMAIN f = 1 .. n, f = [i \in 1 .. n |-> f[i]]
  PROVE  f \in Seq({f[i] : i \in 1 .. n}) /\ Len(f) = n
  <1> DEFINE S == {f[i] : i \in 1 .. n}
  <1>1. f \in [1 .. n -> S] OBVIOUS
  <1> HIDE DEF S
  <1>2. f \in Seq(S) BY <1>1, SeqDef
  <1>3. Len(f) = n BY <1>1
  <1> QED BY <1>2, <1>3 DEF S

LEMMA HeldIsSeq ==
  ASSUME NEW r, Facts(r)
  PROVE  \E S : Held(r) \in Seq(S) /\ Len(Held(r)) = GetDataAvailable(r)
  <1> DEFINE n == GetDataAvailable(r)
             f == Held(r)
  <1>1. n \in Nat BY AvailableFacts
  <1>2. f = [i \in 1 .. n |-> At(r, i)] BY HeldAt
  <1> HIDE DEF f, n
  <1>3. DOMAIN f = 1 .. n /\ f = [i \in 1 .. n |-> f[i]] BY <1>2
  <1>4. f \in Seq({f[i] : i \in 1 .. n}) /\ Len(f) = n BY ONLY <1>1, <1>3, IsSeq
  <1> QED BY <1>4 DEF f, n

LEMMA HoldsNothing ==
  ASSUME NEW r, GetDataAvailable(r) = 0
  PROVE  Held(r) = <<>>
  <1> DEFINE f == Held(r)
  <1>1. f = [i \in 1 .. 0 |-> At(r, i)] BY HeldAt
  <1> HIDE DEF f
  <1>2. DOMAIN f = 1 .. 0 /\ f = [i \in 1 .. 0 |-> f[i]] BY <1>1
  <1>3. f \in Seq({f[i] : i \in 1 .. 0}) /\ Len(f) = 0 BY ONLY <1>2, IsSeq, 0 \in Nat
  <1>4. f = <<>> BY <1>3, EmptySeq
  <1> QED BY <1>4 DEF f

\* Zap drops the oldest bytes, whether or not the start wraps.
LEMMA ZapHeld ==
  ASSUME NEW r, RingInv(r), NEW n \in Nat, n <= GetDataAvailable(r)
  PROVE  Held(Zap(r, n)) = SubSeq(Held(r), n + 1, Len(Held(r)))
  <1>f. Facts(r) BY RingFacts
  <1> DEFINE all   == n >= GetDataAvailable(r)
             whole == r.start < r.end \/ r.start + n < r.size
             s == IF all THEN 0 ELSE IF whole THEN r.start + n ELSE r.start + n - r.size
             e == IF all THEN 0 ELSE r.end
             w == IF all \/ ~whole THEN 0 ELSE r.wrap
             p == ZapPackets(r.packets, n)
             q == [r EXCEPT !.start = s, !.end = e, !.wrap = w, !.packets = p]
             a == GetDataAvailable(r)
  <1>1. q = Zap(r, n) BY DEF Zap
  <1>2. q.start = s /\ q.size = r.size /\ q.buf = r.buf
    <2> HIDE DEF s, e, w, p
    <2> QED BY <1>f DEF Facts, RingRecord
  <1>3. GetDataAvailable(q) = a - n BY <1>1, ZapInv
  <1>4. a \in Nat /\ a <= r.size /\ n <= a BY <1>f, AvailableFacts
  <1>5. r.start \in Nat /\ r.end \in Nat /\ r.size \in Nat /\ r.start <= r.size /\ r.end <= r.size
    BY <1>f DEF Facts
  <1>6. a = IF r.start < r.end THEN r.end - r.start ELSE IF r.end < r.start THEN r.size + r.end - r.start ELSE 0
    BY DEF GetDataAvailable
  <1>7. \A i \in 1 .. a - n : At(q, i) = At(r, n + i)
    <2> TAKE i \in 1 .. a - n
    <2>1. ~all BY <1>4
    <2>2. CASE whole
      <3>1. q.start = r.start + n BY <1>2, <2>1, <2>2
      <3>2. q.start + i - 1 = r.start + (n + i) - 1 BY <3>1, <1>5
      <3>3. q.start + i - 1 - r.size = r.start + (n + i) - 1 - r.size BY <3>1, <1>5
      <3> HIDE DEF q, s
      <3> QED BY <1>2, <3>2, <3>3, Zenon DEF At
    <2>3. CASE ~whole
      <3>1. q.start = r.start + n - r.size BY <1>2, <2>1, <2>3
      <3>2. r.end <= r.start /\ r.start + n >= r.size /\ a = r.size + r.end - r.start
        <4> HIDE DEF a
        <4> QED BY <1>4, <1>5, <1>6, <2>3
      <3>3. q.start + i - 1 < r.size /\ ~(r.start + (n + i) - 1 < r.size)
            /\ r.start + (n + i) - 1 - r.size = q.start + i - 1
        <4> HIDE DEF a
        <4> QED BY <1>4, <1>5, <3>1, <3>2
      <3> QED BY <1>2, <3>3 DEF At
    <2> QED BY <2>2, <2>3
  <1>8. Held(q) = [i \in 1 .. a - n |-> At(r, n + i)]
    <2>1. Held(q) = [i \in 1 .. GetDataAvailable(q) |-> At(q, i)] BY HeldAt
    <2> HIDE DEF q, a
    <2> QED BY <2>1, <1>3, <1>7
  <1>9. PICK S : Held(r) \in Seq(S) /\ Len(Held(r)) = a BY <1>f, HeldIsSeq
  <1>10. \A i \in 1 .. a : Held(r)[i] = At(r, i) BY HeldAt
  <1> HIDE DEF a, q
  <1>11. SubSeq(Held(r), n + 1, Len(Held(r))) = [i \in 1 .. a - n |-> At(r, n + i)]
    <2> DEFINE h == Held(r)
               g == SubSeq(h, n + 1, a)
    <2>1. n + 1 \in Int /\ a \in Int /\ a - (n + 1) + 1 = a - n BY <1>4
    <2>2. \A i \in n + 1 .. a : h[i] \in S
      <3> HIDE DEF h
      <3> QED BY <1>9 DEF h
    <2>3. /\ g \in Seq(S) /\ Len(g) = IF n + 1 <= a THEN a - (n + 1) + 1 ELSE 0
          /\ \A i \in 1 .. a - (n + 1) + 1 : g[i] = h[n + 1 + i - 1]
      <3> HIDE DEF h
      <3> QED BY <2>1, <2>2, SubSeqProperties
    <2>4. Len(g) = a - n BY <2>1, <2>3, <1>4
    <2>5. \A i \in 1 .. a - n : g[i] = At(r, n + i)
      <3> TAKE i \in 1 .. a - n
      <3>1. n + 1 + i - 1 = n + i /\ n + i \in 1 .. a BY <1>4
      <3>2. g[i] = h[n + i] BY <2>1, <2>3, <3>1
      <3> HIDE DEF g
      <3>3. h[n + i] = At(r, n + i) BY <1>10, <3>1
      <3> QED BY <3>2, <3>3
    <2>6. g = [i \in 1 .. Len(g) |-> g[i]]
      <3> HIDE DEF g
      <3> QED BY <2>3, LenProperties
    <2> HIDE DEF g
    <2>7. g = [i \in 1 .. a - n |-> At(r, n + i)] BY <2>4, <2>5, <2>6
    <2> QED BY <2>7, <1>9 DEF g
  <1> QED BY <1>1, <1>8, <1>11

\* The data is moved as two blocks, or as one that has its copy in the second half.
LEMMA ReallocateHeld ==
  ASSUME NEW r, RingInv(r), NEW n \in Nat, n > r.size
  PROVE  Held(Reallocate(r, n)) = Held(r) /\ Reallocate(r, n).packets = r.packets
  <1>f. Facts(r) /\ GetDataAvailable(r) \in Nat /\ GetDataAvailable(r) <= r.size
    BY RingFacts, AvailableFacts
  <1> DEFINE fresh == [i \in 0 .. 2 * n - 1 |-> Junk]
             head  == r.size - r.start
             a     == GetDataAvailable(r)
             inner == Move(r.buf, r.start, fresh, 0, head)
             b     == IF r.wrap = 1 THEN Move(r.buf, 0, inner, head, r.end)
                      ELSE Move(r.buf, r.start, fresh, 0, a)
             q     == [r EXCEPT !.buf = b, !.start = 0, !.end = a, !.size = n, !.wrap = 0]
  <1>1. q = Reallocate(r, n)
    <2>1. ~(n <= r.size) BY <1>f DEF Facts
    <2> QED BY <2>1 DEF Reallocate
  <1>2. q.start = 0 /\ q.size = n /\ q.buf = b /\ q.packets = r.packets
    <2> HIDE DEF b, a
    <2> QED BY <1>f DEF Facts, RingRecord
  <1>3. GetDataAvailable(q) = a BY <1>1, ReallocateInv
  <1>5. r.start \in Nat /\ r.end \in Nat /\ r.size \in Nat /\ r.start <= r.size /\ r.end <= r.size
        /\ (r.wrap = 1 => r.end < r.start) /\ r.wrap \in {0, 1}
    BY <1>f DEF Facts
  <1>6. a = IF r.start < r.end THEN r.end - r.start ELSE IF r.end < r.start THEN r.size + r.end - r.start ELSE 0
    BY DEF GetDataAvailable
  <1>4. a \in Nat /\ a <= r.size BY <1>f
  <1> HIDE DEF a
  <1>7. \A i \in 1 .. a : b[i - 1] = At(r, i)
    <2> TAKE i \in 1 .. a
    <2>1. i - 1 \in 0 .. 2 * n - 1 /\ i - 1 + 1 = i /\ 0 + (i - 1 - 0) = i - 1 BY <1>4, <1>5
    <2>2. CASE r.wrap = 1
      <3>1. a = r.size + r.end - r.start BY <2>2, <1>5, <1>6
      <3>2. DOMAIN inner = 0 .. 2 * n - 1 BY DEF Move
      <3>3. b[i - 1] = IF i - 1 \in head .. head + r.end - 1 THEN r.buf[0 + (i - 1 - head)] ELSE inner[i - 1]
        <4> HIDE DEF inner
        <4> QED BY <2>1, <2>2, <3>2 DEF Move
      <3>4. inner[i - 1] = IF i - 1 \in 0 .. 0 + head - 1 THEN r.buf[r.start + (i - 1 - 0)] ELSE fresh[i - 1]
        BY <2>1 DEF Move
      <3> HIDE DEF inner, b
      <3>5. CASE r.start + i - 1 < r.size
        <4>1. i - 1 \notin head .. head + r.end - 1 /\ i - 1 \in 0 .. 0 + head - 1
              /\ r.start + (i - 1 - 0) = r.start + i - 1
          BY <3>5, <1>5
        <4>2. b[i - 1] = r.buf[r.start + i - 1] BY <3>3, <3>4, <4>1
        <4> QED BY <3>5, <4>2 DEF At
      <3>6. CASE ~(r.start + i - 1 < r.size)
        <4>1. i - 1 \in head .. head + r.end - 1 /\ 0 + (i - 1 - head) = r.start + i - 1 - r.size
          BY <3>1, <3>6, <1>4, <1>5
        <4>2. b[i - 1] = r.buf[r.start + i - 1 - r.size] BY <3>3, <4>1
        <4> QED BY <3>6, <4>2 DEF At
      <3> QED BY <3>5, <3>6
    <2>3. CASE r.wrap # 1
      <3>1. b[i - 1] = r.buf[r.start + (i - 1 - 0)]
        <4>1. i - 1 \in 0 .. 0 + a - 1 BY <1>4
        <4> QED BY <2>1, <2>3, <4>1 DEF Move
      <3>2. r.start + (i - 1 - 0) = r.start + i - 1 BY <1>5
      <3> HIDE DEF b
      <3>3. CASE r.start + i - 1 < r.size BY <3>1, <3>2, <3>3 DEF At
      <3>4. CASE ~(r.start + i - 1 < r.size)
        <4>1. r.end < r.start /\ a = r.size + r.end - r.start BY <3>4, <1>4, <1>5, <1>6
        <4>2. \A j \in 0 .. r.end - 1 : r.buf[r.size + j] = r.buf[j]
          BY <4>1, <2>3, <1>f, <1>5 DEF Facts, Mirrored
        <4> DEFINE j == r.start + i - 1 - r.size
        <4>3. j \in 0 .. r.end - 1 /\ r.size + j = r.start + i - 1 BY <4>1, <3>4, <1>4, <1>5
        <4>4. r.buf[r.size + j] = r.buf[j]
          <5> HIDE DEF j
          <5> QED BY <4>2, <4>3
        <4>5. b[i - 1] = r.buf[j] BY <3>1, <3>2, <4>3, <4>4
        <4> QED BY <3>4, <4>5 DEF At
      <3> QED BY <3>3, <3>4
    <2> QED BY <2>2, <2>3
  <1> HIDE DEF q, b
  <1>8. \A i \in 1 .. a : At(q, i) = At(r, i)
    <2> TAKE i \in 1 .. a
    <2>1. q.start + i - 1 = i - 1 /\ i - 1 < q.size BY <1>2, <1>4, <1>5
    <2>2. At(q, i) = q.buf[i - 1] BY <2>1 DEF At
    <2> QED BY <1>2, <1>7, <2>2
  <1>9. Held(q) = Held(r)
    <2>1. Held(q) = [i \in 1 .. a |-> At(q, i)] BY <1>3, HeldAt
    <2>2. Held(r) = [i \in 1 .. a |-> At(r, i)] BY HeldAt DEF a
    <2> QED BY <1>8, <2>1, <2>2
  <1> QED BY <1>1, <1>2, <1>9

\* Completing the copy of the wrapped part changes nothing of what is held.
LEMMA GetDataHeld ==
  ASSUME NEW r, RingInv(r)
  PROVE  Held(GetData(r)) = Held(r) /\ GetData(r).packets = r.packets
  <1>f. Facts(r) BY RingFacts
  <1> DEFINE q == GetData(r)
             b == Move(r.buf, 0, r.buf, r.size, r.end)
             t == [r EXCEPT !.buf = b, !.wrap = 0]
  <1>1. RingInv(q) /\ GetDataAvailable(q) = GetDataAvailable(r)
        /\ Contiguous(q, GetDataAvailable(r)) = Held(r)
    BY GetDataInv
  <1>2. t.wrap = 0 /\ t.packets = r.packets
    <2> HIDE DEF b
    <2> QED BY <1>f DEF Facts, RingRecord
  <1>3. q = t \/ (q = r /\ (GetDataAvailable(r) = 0 \/ r.wrap # 1)) BY DEF GetData
  <1> HIDE DEF q, t
  <1>4. q.packets = r.packets /\ (GetDataAvailable(q) = 0 \/ q.wrap # 1) BY <1>1, <1>2, <1>3
  <1>5. GetData(q) = q BY <1>4 DEF GetData
  <1>6. Contiguous(GetData(q), GetDataAvailable(q)) = Held(q) BY <1>1, GetDataInv
  <1> QED BY <1>1, <1>4, <1>5, <1>6 DEF q

\* Where the i-th byte is, and what an append of n bytes puts there: s and e are
\* the indices, z the size of the ring, a the bytes it holds, m go behind e.
Place(s, z, i) == IF s + i - 1 < z THEN s + i - 1 ELSE s + i - 1 - z
Behind(e, z, n) == IF e + n <= z THEN n ELSE z - e
Between(s, e, z, a) ==
  /\ a = IF s < e THEN e - s ELSE IF e < s THEN z + e - s ELSE 0
  /\ s = e => s = 0
Lands(j, e, z, n, m, a, i) ==
  /\ j \in 0 .. 2 * z - 1
  /\ i <= a => j \notin e .. e + m - 1 /\ j \notin 0 .. n - m - 1
  /\ ~(i <= a) => \/ j \in e .. e + m - 1 /\ j - e + 1 = i - a
                  \/ j \notin e .. e + m - 1 /\ j \in 0 .. n - m - 1 /\ j + m + 1 = i - a

LEMMA Places ==
  ASSUME NEW s \in Nat, NEW e \in Nat, NEW z \in Nat, NEW n \in Nat, NEW a \in Nat, NEW i \in 1 .. a + n,
         s <= z, e <= z, Between(s, e, z, a), a + n <= z
  PROVE  Lands(Place(s, z, i), e, z, n, Behind(e, z, n), a, i)
  <1> DEFINE m == Behind(e, z, n)
  <1> DEFINE j == Place(s, z, i)
  <1>1. /\ s + i - 1 < z => j = s + i - 1
        /\ ~(s + i - 1 < z) => j = s + i - 1 - z
    BY DEF Place
  <1>2. /\ e + n <= z => m = n
        /\ ~(e + n <= z) => m = z - e
    BY DEF Behind
  <1> HIDE DEF m
  <1>3. m \in Nat /\ m <= n BY <1>2
  <1> HIDE DEF j
  <1>5. CASE s = e
    <2>1. s = 0 /\ e = 0 /\ a = 0 BY <1>5 DEF Between
    <2>2. j = i - 1 /\ m = n BY <1>1, <1>2, <2>1
    <2>3. Lands(j, e, z, n, m, a, i) BY <2>1, <2>2 DEF Lands
    <2> QED BY <2>3 DEF j, m
  <1>6. CASE s < e
    <2>1. a = e - s BY <1>6 DEF Between
    <2>2. CASE s + i - 1 < z
      <3>1. j = s + i - 1 BY <1>1, <2>2
      <3>2. Lands(j, e, z, n, m, a, i) BY <1>2, <1>3, <1>6, <2>1, <2>2, <3>1 DEF Lands
      <3> QED BY <3>2 DEF j, m
    <2>3. CASE ~(s + i - 1 < z)
      <3>1. j = s + i - 1 - z BY <1>1, <2>3
      <3>2. Lands(j, e, z, n, m, a, i) BY <1>2, <1>3, <1>6, <2>1, <2>3, <3>1 DEF Lands
      <3> QED BY <3>2 DEF j, m
    <2> QED BY <2>2, <2>3
  <1>7. CASE e < s
    <2>1. a = z + e - s BY <1>7 DEF Between
    <2>2. m = n BY <1>2, <1>7, <2>1
    <2>3. CASE s + i - 1 < z
      <3>1. j = s + i - 1 BY <1>1, <2>3
      <3>2. Lands(j, e, z, n, m, a, i) BY <1>7, <2>1, <2>2, <2>3, <3>1 DEF Lands
      <3> QED BY <3>2 DEF j, m
    <2>4. CASE ~(s + i - 1 < z)
      <3>1. j = s + i - 1 - z BY <1>1, <2>4
      <3>2. Lands(j, e, z, n, m, a, i) BY <1>7, <2>1, <2>2, <2>4, <3>1 DEF Lands
      <3> QED BY <3>2 DEF j, m
    <2> QED BY <2>3, <2>4
  <1> QED BY <1>5, <1>6, <1>7

\* h begins with f and goes on with g.
Joined(h, f, g, m, n) == \A i \in 1 .. m + n : h[i] = IF i <= m THEN f[i] ELSE g[i - m]

LEMMA JoinedIs ==
  ASSUME NEW f, NEW g, NEW h, NEW m \in Nat, NEW n \in Nat,
         NEW S, f \in Seq(S), Len(f) = m, NEW T, g \in Seq(T), Len(g) = n, NEW U, h \in Seq(U), Len(h) = m + n,
         Joined(h, f, g, m, n)
  PROVE  h = f \o g
  <1> DEFINE V == S \cup T \cup U
  <1>1. f \in Seq(V) /\ g \in Seq(V) /\ h \in Seq(V) BY SeqMonotonic, S \subseteq V, T \subseteq V, U \subseteq V
  <1> HIDE DEF V
  <1>2. /\ f \o g \in Seq(V) /\ Len(f \o g) = Len(f) + Len(g)
        /\ \A i \in 1 .. Len(f) + Len(g) : (f \o g)[i] = IF i <= Len(f) THEN f[i] ELSE g[i - Len(f)]
    BY <1>1, ConcatProperties
  <1> DEFINE k == f \o g
  <1> HIDE DEF k
  <1>3. k \in Seq(V) /\ Len(k) = Len(h) /\ \A i \in 1 .. Len(h) : h[i] = k[i] BY <1>2 DEF k, Joined
  <1>4. h = k BY ONLY <1>1, <1>3, SeqEqual
  <1> QED BY <1>4 DEF k

\* The data comes behind what was held and overwrites none of it.
LEMMA PutHeld ==
  ASSUME NEW r, RingInv(r), NEW data, NEW n \in Nat, n = Len(data), NEW T, data \in Seq(T),
         GetDataAvailable(r) + n <= r.size, ~FillsExactly(r, n)
  PROVE  Held(Put(r, data)) = Held(r) \o data /\ Put(r, data).packets = r.packets
  <1>f. Facts(r) BY RingFacts
  <1> DEFINE whole == r.end + n <= r.size
             tail  == IF whole THEN n ELSE r.size - r.end
             b == [i \in DOMAIN r.buf |->
                     IF i \in r.end .. r.end + tail - 1 THEN data[i - r.end + 1]
                     ELSE IF i \in 0 .. n - tail - 1 THEN data[i + tail + 1]
                     ELSE r.buf[i]]
             e == IF whole THEN r.end + n ELSE n - tail
             w == IF ~whole \/ r.end + n < r.start THEN 1 ELSE r.wrap
             q == [r EXCEPT !.buf = b, !.end = e, !.wrap = w]
             a == GetDataAvailable(r)
  <1>1. q = Put(r, data) BY DEF Put
  <1>2. q.start = r.start /\ q.size = r.size /\ q.buf = b /\ q.packets = r.packets
    <2> HIDE DEF b, e, w
    <2> QED BY <1>f DEF Facts, RingRecord
  <1>3. RingInv(q) /\ GetDataAvailable(q) = a + n BY <1>1, PutInv
  <1>4. a \in Nat /\ a + n <= r.size BY <1>f, AvailableFacts
  <1>5. r.start \in Nat /\ r.end \in Nat /\ r.size \in Nat /\ r.start <= r.size /\ r.end <= r.size
        /\ DOMAIN r.buf = 0 .. 2 * r.size - 1 /\ (r.start = r.end => r.start = 0)
    BY <1>f DEF Facts
  <1>6. a = IF r.start < r.end THEN r.end - r.start ELSE IF r.end < r.start THEN r.size + r.end - r.start ELSE 0
    BY DEF GetDataAvailable
  <1>7. \A j \in 0 .. 2 * r.size - 1 :
          b[j] = IF j \in r.end .. r.end + tail - 1 THEN data[j - r.end + 1]
                 ELSE IF j \in 0 .. n - tail - 1 THEN data[j + tail + 1]
                 ELSE r.buf[j]
    BY <1>5
  <1> HIDE DEF b, q, a
  <1>8. \A i \in 1 .. a + n : At(q, i) = IF i <= a THEN At(r, i) ELSE data[i - a]
    <2> TAKE i \in 1 .. a + n
    <2> DEFINE j == Place(r.start, r.size, i)
    <2>2. At(q, i) = b[j] BY <1>2 DEF At, Place
    <2>3. At(r, i) = r.buf[j] BY DEF At, Place
    <2>5. Lands(j, r.end, r.size, n, Behind(r.end, r.size, n), a, i)
      <3>1. Between(r.start, r.end, r.size, a) BY <1>5, <1>6 DEF Between
      <3> QED BY ONLY <1>4, <1>5, <3>1, Places, n \in Nat, i \in 1 .. a + n
    <2>6. tail = Behind(r.end, r.size, n) BY DEF Behind
    <2> HIDE DEF j, tail
    <2>4. Lands(j, r.end, r.size, n, tail, a, i) BY ONLY <2>5, <2>6, Zenon
    <2>7. b[j] = IF j \in r.end .. r.end + tail - 1 THEN data[j - r.end + 1]
                 ELSE IF j \in 0 .. n - tail - 1 THEN data[j + tail + 1]
                 ELSE r.buf[j]
      BY <1>7, <2>4 DEF Lands
    <2> QED BY ONLY <2>2, <2>3, <2>4, <2>7 DEF Lands
  <1>9. PICK S : Held(r) \in Seq(S) /\ Len(Held(r)) = a BY <1>f, HeldIsSeq DEF a
  <1>10. PICK U : Held(q) \in Seq(U) /\ Len(Held(q)) = a + n BY <1>3, RingFacts, HeldIsSeq
  <1> DEFINE f == Held(r)
             h == Held(q)
  <1>11. \A i \in 1 .. a + n : h[i] = At(q, i) BY <1>3, HeldAt
  <1>12. \A i \in 1 .. a : f[i] = At(r, i) BY HeldAt DEF a
  <1> HIDE DEF f, h
  <1>13. Joined(h, f, data, a, n)
    <2> SUFFICES \A i \in 1 .. a + n : h[i] = IF i <= a THEN f[i] ELSE data[i - a] BY DEF Joined
    <2> TAKE i \in 1 .. a + n
    <2>1. i <= a => i \in 1 .. a BY <1>4
    <2> QED BY <1>8, <1>11, <1>12, <2>1
  <1>14. f \in Seq(S) /\ Len(f) = a /\ h \in Seq(U) /\ Len(h) = a + n BY <1>9, <1>10 DEF f, h
  <1>15. h = f \o data BY ONLY <1>4, <1>13, <1>14, JoinedIs, n \in Nat, n = Len(data), data \in Seq(T)
  <1> QED BY <1>1, <1>2, <1>15 DEF f, h

LEMMA PacketsHeld == ASSUME NEW r, RingInv(r), NEW p
                     PROVE  Held([r EXCEPT !.packets = p]) = Held(r) /\ [r EXCEPT !.packets = p].packets = p
  <1>f. Facts(r) BY RingFacts
  <1> DEFINE q == [r EXCEPT !.packets = p]
  <1>1. /\ q.start = r.start /\ q.end = r.end /\ q.size = r.size /\ q.buf = r.buf /\ q.packets = p
    BY <1>f DEF Facts, RingRecord
  <1> HIDE DEF q
  <1>2. GetDataAvailable(q) = GetDataAvailable(r) BY <1>1 DEF GetDataAvailable
  <1>3. Held(q) = Held(r) BY <1>1, <1>2, Zenon DEF Held
  <1> QED BY <1>1, <1>3 DEF q

LEMMA InHeld ==
  ASSUME NEW r, RingInv(r), NEW T, NEW data \in Seq(T), ~FillsExactly(r, Len(data))
  PROVE  Held(In(r, data)) = Held(r) \o data /\ In(r, data).packets = Append(r.packets, Len(data))
  <1>f. r.size \in Nat /\ GetDataAvailable(r) \in Nat /\ GetDataAvailable(r) <= r.size
    BY RingFacts, AvailableFacts DEF Facts
  <1> DEFINE n    == Len(data)
             need == GetDataAvailable(r) + n
             room == IF need > r.size THEN Reallocate(r, need) ELSE r
             put  == Put(room, data)
             o    == Append(put.packets, n)
  <1>n. n \in Nat OBVIOUS
  <1>1. /\ RingInv(room) /\ GetDataAvailable(room) + n <= room.size /\ ~FillsExactly(room, n)
        /\ Held(room) = Held(r) /\ room.packets = r.packets
    <2>1. CASE need > r.size
      <3>0. need \in Nat BY <1>f, <1>n
      <3>1. RingInv(room) /\ GetDataAvailable(room) = GetDataAvailable(r) /\ room.start = 0 /\ room.size = need
        BY <2>1, <3>0, ReallocateInv
      <3>2. Held(room) = Held(r) /\ room.packets = r.packets BY <2>1, <3>0, ReallocateHeld
      <3> HIDE DEF room
      <3> QED BY <3>1, <3>2, <1>f, <1>n DEF FillsExactly
    <2>2. CASE ~(need > r.size) BY <2>2, <1>f, <1>n
    <2> QED BY <2>1, <2>2
  <1> HIDE DEF room
  <1>2. RingInv(put) BY <1>1, <1>n, PutInv
  <1>3. Held(put) = Held(r) \o data /\ put.packets = r.packets BY <1>1, <1>n, PutHeld
  <1>4. In(r, data) = [put EXCEPT !.packets = o] BY DEF In, room
  <1>5. o = Append(r.packets, n) BY <1>3
  <1> HIDE DEF put, o
  <1> QED BY <1>2, <1>3, <1>4, <1>5, PacketsHeld

-----------------------------------------------------------------------------
(* The ring as a FIFO, step by step.                                         *)

(* The packets the ring remembers are those its bytes came in.               *)
FifoInv ==
  /\ RingInv(ring)
  /\ ring.packets \in Seq(Nat)
  /\ Whole(ring.packets) = GetDataAvailable(ring)

LEMMA FifoHeld == ASSUME FifoInv PROVE \E S : Held(ring) \in Seq(S) /\ Len(Held(ring)) = GetDataAvailable(ring)
  BY RingFacts, HeldIsSeq DEF FifoInv

LEMMA EmptySum == <<>> \in Seq(Nat) /\ Whole(<<>>) = 0
  <1>1. <<>> \in Seq(Nat) /\ Len(<<>>) = 0 BY EmptySeq
  <1> QED BY <1>1, PrefixStep DEF Whole

LEMMA FifoBegins == Init => FifoInv /\ Fifo!Init
  <1> SUFFICES ASSUME Init PROVE FifoInv /\ Fifo!Init OBVIOUS
  <1>1. RingInv(ring) BY SizesAssumption, InitInv DEF Init
  <1>2. ring.packets = <<>> /\ ring.start = 0 /\ ring.end = 0 BY DEF Init, Initialized
  <1>3. GetDataAvailable(ring) = 0 BY <1>2 DEF GetDataAvailable
  <1>4. Held(ring) = <<>> BY <1>3, HoldsNothing
  <1> QED BY <1>1, <1>2, <1>3, <1>4, EmptySum DEF FifoInv, Fifo!Init

\* A call that leaves nothing in the ring.
LEMMA FifoEmptied ==
  ASSUME RingInv(ring'), GetDataAvailable(ring') = 0, ring'.packets = <<>>
  PROVE  FifoInv' /\ Fifo!Clear
  <1>1. Held(ring') = <<>> BY HoldsNothing
  <1> QED BY <1>1, EmptySum DEF FifoInv, Fifo!Clear

LEMMA FifoAppends ==
  ASSUME ExactFill = FALSE, FifoInv, next \in 0 .. Colours - 1, NEW n \in PacketSizes, AppendPacket(n)
  PROVE  FifoInv' /\ Fifo!Next
  <1> DEFINE data == [i \in 1 .. n |-> (next + i - 1) % Colours]
             B == 0 .. Colours - 1
  <1>1. n \in Nat /\ Colours \in Nat /\ Colours > 0
    BY SizesAssumption, ColoursAssumption DEF SizesAssumption, ColoursAssumption
  <1>2. data \in [1 .. n -> B]
    <2> SUFFICES ASSUME NEW i \in 1 .. n PROVE (next + i - 1) % Colours \in B OBVIOUS
    <2> QED BY <1>1
  <1>3. ~FillsExactly(ring, n) /\ ring' = In(ring, data) BY DEF AppendPacket
  <1>4. RingInv(ring') /\ GetDataAvailable(ring') = GetDataAvailable(ring) + n
    BY SizesAssumption, AppendStep DEF FifoInv
  <1> HIDE DEF data, B
  <1>5. data \in Seq(B) /\ Len(data) = n BY <1>1, <1>2, SeqDef
  <1>6. Held(ring') = Held(ring) \o data /\ ring'.packets = Append(ring.packets, n)
    BY <1>3, <1>5, InHeld DEF FifoInv
  <1>7. Append(ring.packets, n) \in Seq(Nat) /\ Whole(Append(ring.packets, n)) = Whole(ring.packets) + n
    BY <1>1, AppendSum DEF FifoInv
  <1>8. FifoInv' BY <1>4, <1>6, <1>7 DEF FifoInv
  <1>9. PICK S : Held(ring) \in Seq(S) BY FifoHeld
  <1> DEFINE h == Held(ring)
             V == S \cup B
  <1> HIDE DEF h
  <1>10. h \in Seq(S) BY <1>9 DEF h
  <1>11. h \in Seq(V) /\ data \in Seq(V) BY <1>5, <1>10, SeqMonotonic, S \subseteq V, B \subseteq V
  <1> HIDE DEF V
  <1>12. Len(h \o data) = Len(h) + Len(data) /\ Len(h) \in Nat /\ Len(data) \in Nat
    BY <1>11, ConcatProperties, LenProperties
  <1>13. SubSeq(h \o data, Len(h) + 1, Len(h \o data)) = data
    <2> DEFINE k == h \o data
               g == SubSeq(k, Len(h) + 1, Len(h) + n)
    <2>1. k \in Seq(V) /\ Len(k) = Len(h) + n /\ \A i \in 1 .. n : k[Len(h) + i] = data[i]
      <3>1. \A i \in 1 .. Len(h) + Len(data) : k[i] = IF i <= Len(h) THEN h[i] ELSE data[i - Len(h)]
        BY <1>11, ConcatProperties
      <3>2. k \in Seq(V) /\ Len(k) = Len(h) + Len(data) BY <1>11, ConcatProperties
      <3> HIDE DEF k
      <3>3. \A i \in 1 .. n : k[Len(h) + i] = data[i]
        <4> TAKE i \in 1 .. n
        <4> DEFINE j == Len(h) + i
        <4>1. j \in 1 .. Len(h) + Len(data) /\ ~(j <= Len(h)) /\ j - Len(h) = i BY <1>5, <1>12
        <4> HIDE DEF j
        <4>2. k[j] = data[i] BY <3>1, <4>1
        <4> QED BY <4>2 DEF j
      <3> QED BY <1>5, <3>2, <3>3
    <2> HIDE DEF k
    <2>2. g \in Seq(V) /\ Len(g) = n /\ \A i \in 1 .. n : g[i] = data[i]
      <3>1. \A i \in Len(h) + 1 .. Len(h) + n : k[i] \in V BY <2>1, <1>12, ElementOfSeq
      <3>2. Len(h) + 1 \in Int /\ Len(h) + n \in Int /\ (Len(h) + n) - (Len(h) + 1) + 1 = n BY <1>1, <1>12
      <3>3. /\ g \in Seq(V)
            /\ Len(g) = IF Len(h) + 1 <= Len(h) + n THEN (Len(h) + n) - (Len(h) + 1) + 1 ELSE 0
            /\ \A i \in 1 .. (Len(h) + n) - (Len(h) + 1) + 1 : g[i] = k[(Len(h) + 1) + i - 1]
        BY <3>1, <3>2, SubSeqProperties
      <3> HIDE DEF g
      <3>4. \A i \in 1 .. n : (Len(h) + 1) + i - 1 = Len(h) + i BY <1>12
      <3>5. \A i \in 1 .. n : g[i] = data[i] BY <2>1, <3>2, <3>3, <3>4
      <3>6. Len(g) = n BY <1>1, <1>12, <3>2, <3>3
      <3> QED BY <3>3, <3>5, <3>6
    <2> HIDE DEF g
    <2>3. g = data BY <1>5, <1>11, <2>2, SeqEqual
    <2> QED BY <2>1, <2>3 DEF g, k
  <1>14. Len(h \o data) >= Len(h) BY <1>12
  <1>15. Fifo!In(SubSeq(Held(ring'), Len(h) + 1, Len(Held(ring'))))
    <2>1. Fifo!In(data) BY <1>5, <1>6 DEF Fifo!In, B
    <2> QED BY <1>6, <1>13, <2>1 DEF h
  <1>16. Len(Held(ring')) >= Len(Held(ring)) BY <1>6, <1>14 DEF h
  <1> QED BY <1>8, <1>15, <1>16 DEF Fifo!Next, h

LEMMA FifoDrops ==
  ASSUME FifoInv, NEW n \in 0 .. MaxBytes, DropBytes(n)
  PROVE  FifoInv' /\ Fifo!Next
  <1> DEFINE p == ring.packets
             z == ZapPackets(p, n)
  <1>1. n \in Nat /\ n <= GetDataAvailable(ring) /\ ring' = Zap(ring, n)
    BY SizesAssumption DEF SizesAssumption, DropBytes
  <1>2. RingInv(ring') /\ GetDataAvailable(ring') = GetDataAvailable(ring) - n BY <1>1, ZapInv DEF FifoInv
  <1>3. Held(ring') = SubSeq(Held(ring), n + 1, Len(Held(ring))) BY <1>1, ZapHeld DEF FifoInv
  <1>4. ring'.packets = z
    <2>1. Facts(ring) BY RingFacts DEF FifoInv
    <2> HIDE DEF z
    <2> QED BY <1>1, <2>1 DEF Zap, Facts, RingRecord, z
  <1>5. /\ z \in Seq(Nat) /\ Whole(z) + n = Whole(p)
        /\ \E k \in 0 .. Len(p) :
             \/ z = SubSeq(p, k + 1, Len(p))
             \/ k > 0 /\ \E left \in 1 .. p[k] : z = <<left>> \o SubSeq(p, k + 1, Len(p))
    BY <1>1, ZapPacketsIs DEF FifoInv
  <1>6. Len(Held(ring)) = GetDataAvailable(ring) /\ GetDataAvailable(ring) \in Nat
    BY FifoHeld, RingFacts, AvailableFacts DEF FifoInv
  <1>7. Whole(z) = GetDataAvailable(ring')
    <2>1. Whole(z) \in Nat BY <1>5, WholeNat
    <2>2. Whole(z) + n = GetDataAvailable(ring) BY <1>5 DEF FifoInv
    <2> HIDE DEF z
    <2> QED BY ONLY <1>1, <1>2, <1>6, <2>1, <2>2
  <1> HIDE DEF z, p
  <1>8. FifoInv' BY <1>2, <1>4, <1>5, <1>7 DEF FifoInv
  <1>9. PICK S : Held(ring') \in Seq(S) /\ Len(Held(ring')) = GetDataAvailable(ring')
    BY <1>2, RingFacts, HeldIsSeq
  <1>10. Fifo!Total(z) = Len(Held(ring')) BY <1>7, <1>9 DEF Fifo!Total, Whole, PrefixSum
  <1>11. Fifo!Zap(n) BY <1>1, <1>3, <1>4, <1>5, <1>6, <1>10 DEF Fifo!Zap, p
  <1>12. n \in 0 .. Len(Held(ring)) BY <1>1, <1>6
  <1> QED BY <1>8, <1>11, <1>12 DEF Fifo!Next

LEMMA FifoStep ==
  ASSUME ExactFill = FALSE, FifoInv, next \in 0 .. Colours - 1, [Next]_vars
  PROVE  FifoInv' /\ [Fifo!Next]_Fifo!vars
  <1>0. RingInv(ring) BY DEF FifoInv
  <1>1. ASSUME NEW n \in PacketSizes, AppendPacket(n) PROVE FifoInv' /\ Fifo!Next BY <1>1, FifoAppends
  <1>2. ASSUME NEW n \in 0 .. MaxBytes, DropBytes(n) PROVE FifoInv' /\ Fifo!Next BY <1>2, FifoDrops
  <1>3. CASE ReadAll
    <2>1. ring' = GetData(ring) BY <1>3 DEF ReadAll
    <2>2. RingInv(ring') /\ GetDataAvailable(ring') = GetDataAvailable(ring) BY <1>0, <2>1, GetDataInv
    <2>3. Held(ring') = Held(ring) /\ ring'.packets = ring.packets BY <1>0, <2>1, GetDataHeld
    <2> QED BY <2>2, <2>3 DEF FifoInv, Fifo!vars
  <1>4. CASE ResetRing
    <2>1. ring' = Reset(ring) BY <1>4 DEF ResetRing
    <2>2. RingInv(ring') /\ GetDataAvailable(ring') = 0 BY <1>0, <2>1, ResetInv
    <2>3. ring'.packets = <<>>
      <3>1. Facts(ring) BY <1>0, RingFacts
      <3> QED BY <2>1, <3>1 DEF Reset, Facts, RingRecord
    <2> QED BY <2>2, <2>3, FifoEmptied DEF Fifo!Next
  <1>5. CASE UninitializeRing
    <2>1. ring' = Uninitialize(ring) BY <1>5 DEF UninitializeRing
    <2>2. RingInv(ring') /\ GetDataAvailable(ring') = 0 BY <1>0, <2>1, UninitializeInv
    <2>3. ring'.packets = <<>>
      <3>1. Facts(ring) BY <1>0, RingFacts
      <3> QED BY <2>1, <3>1 DEF Uninitialize, Reset, Facts, RingRecord
    <2> QED BY <2>2, <2>3, FifoEmptied DEF Fifo!Next
  <1>6. CASE UNCHANGED vars
    <2>1. ring' = ring BY <1>6 DEF vars
    <2> QED BY <2>1 DEF FifoInv, Fifo!vars
  <1> QED BY <1>1, <1>2, <1>3, <1>4, <1>5, <1>6 DEF Next

(* Through every sequence of calls that the callers may make the ring is a   *)
(* FIFO of bytes that remembers the packets they came in.                    *)
THEOREM RingImplementsFifo ==
  ASSUME ExactFill = FALSE
  PROVE  Spec => ImplementsByteFifo
  <1>1. Init => FifoInv /\ Fifo!Init BY FifoBegins
  <1>2. FifoInv /\ next \in 0 .. Colours - 1 /\ [Next]_vars => FifoInv' /\ [Fifo!Next]_Fifo!vars BY FifoStep
  <1> QED BY <1>1, <1>2, NextNumber, PTL DEF Spec, ImplementsByteFifo, Fifo!Spec
=============================================================================
