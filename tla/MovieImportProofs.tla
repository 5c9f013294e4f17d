-------------------------- MODULE MovieImportProofs --------------------------
(***************************************************************************)
(* A call of import_with_idle stays behind the data that has arrived, for  *)
(* every file whose packets are interleaved, all bounds of frames and      *)
(* whatever arrives meanwhile.  It looks at the margin behind each packet  *)
(* it counts before it reads the next: the invariant keeps that packet in  *)
(* mind over those that are not counted (CalmInv), with the largest packet *)
(* seen (LargestInv), for streams that have or lack a track (MapInv).      *)
(* Then what the calls add up to: the regions of the tracks and the time   *)
(* that is told to be loaded, and last the samples of the media, which are *)
(* the packets of the file whichever way it was imported.                  *)
(***************************************************************************)
EXTENDS MovieImport, TLAPS, WellFoundedInduction, SequenceTheorems

-----------------------------------------------------------------------------
(* Induction over the natural numbers.  The rules of the library take the   *)
(* statement as an operator; here it is the set of the numbers it is true   *)
(* of, which is defined in the proof and hidden before the rule is cited.   *)

(* A set of natural numbers has a least one.                                *)
LEMMA LeastOf ==
  ASSUME NEW T \in SUBSET Nat, T # {}
  PROVE  \E x \in T : \A y \in T : x <= y
  <1>1. PICK x \in T : \A y \in T : ~(<<y, x>> \in OpToRel(<, Nat)) BY NatLessThanWellFounded, WFMin
  <1>2. \A y \in T : ~(y < x) BY <1>1 DEF OpToRel
  <1> QED BY <1>2

(* A set with 0 and the successor of each of its numbers has all of them:   *)
(* the least that was missing would have a predecessor that is not.         *)
LEMMA Inductive ==
  ASSUME NEW S, 0 \in S, \A n \in Nat : n \in S => n + 1 \in S
  PROVE  Nat \subseteq S
  <1> SUFFICES ASSUME Nat \ S # {} PROVE FALSE OBVIOUS
  <1>1. PICK x \in Nat \ S : \A y \in Nat \ S : x <= y BY LeastOf
  <1>2. x - 1 \in Nat /\ x - 1 \in S BY <1>1
  <1>3. (x - 1) + 1 = x BY <1>1
  <1> QED BY <1>1, <1>2, <1>3

-----------------------------------------------------------------------------
\* The streams, from prepare_movie on, by whether they have a track.
IsMap(map) ==
  /\ DOMAIN map = Streams
  /\ \A i \in Streams : "valid" \in DOMAIN map[i] /\ map[i].valid \in BOOLEAN \cap MayBeValid(Stream(i))

Tracks(map) == [i \in Streams |-> map[i].valid]

IsCall(c) ==
  /\ DOMAIN c = DOMAIN NoCall
  /\ c.idling \in BOOLEAN /\ c.minFrames \in Nat /\ c.framesProcessed \in Nat /\ c.availableSize \in Nat
  /\ c.idling /\ c.availableSize = 0 => file.size = 0

TypeInv ==
  /\ file \in Files /\ next \in Nat \ {0} /\ largestPacketSize \in Nat /\ IsCall(call)
  /\ available \in Nat /\ (available = 0 => file.size = 0)

Prepared == phase \in {"prepared", "reading", "returning", "idle"}
MapInv == Prepared => IsMap(stream_map)

\* No counted packet so far is larger than the largest.
Largest(map, n, largest) ==
  \A k \in DOMAIN file.packets :
    k < n /\ Counts(file, Tracks(map), k) => file.packets[k].size <= largest

LargestInv == IF Prepared THEN Largest(stream_map, next, largestPacketSize) ELSE phase \in {"open", "prepare"} => next = 1

\* The last packet counted before packet n left a margin, or all of the file has arrived.
Calm(c, map, n, largest) ==
  c.idling /\ c.framesProcessed >= c.minFrames /\ c.framesProcessed >= 1 =>
    \/ c.availableSize >= file.size
    \/ \E k \in DOMAIN file.packets :
         /\ k < n /\ Counts(file, Tracks(map), k)
         /\ \A j \in k + 1 .. n - 1 : ~Counts(file, Tracks(map), j)
         /\ c.availableSize - EndOf(file.packets[k]) >= Fudge * largest

CalmInv == phase = "reading" => Calm(call, stream_map, next, largestPacketSize)

BehindInv == TypeInv /\ MapInv /\ LargestInv /\ CalmInv

-----------------------------------------------------------------------------

(* The larger and the smaller of two numbers.                                *)
LEMMA MaxOfTwo ==
  ASSUME NEW a \in Int, NEW b \in Int
  PROVE  Max({a, b}) \in {a, b} /\ Max({a, b}) >= a /\ Max({a, b}) >= b
  <1>1. \E x \in {a, b} : \A y \in {a, b} : x >= y OBVIOUS
  <1>2. Max({a, b}) \in {a, b} /\ \A y \in {a, b} : Max({a, b}) >= y BY <1>1 DEF Max
  <1> QED BY <1>2

LEMMA MinOfTwo ==
  ASSUME NEW a \in Int, NEW b \in Int
  PROVE  Min({a, b}) \in {a, b}
  <1>1. \E x \in {a, b} : \A y \in {a, b} : x <= y OBVIOUS
  <1> QED BY <1>1 DEF Min

LEMMA Times == ASSUME NEW a \in Nat, NEW b \in Nat, NEW c \in Nat, a <= b PROVE c * a <= c * b
  <1>1. c * b = c * a + c * (b - a) OBVIOUS
  <1>2. c * (b - a) >= 0 OBVIOUS
  <1> QED BY <1>1, <1>2

LEMMA PacketOf ==
  ASSUME TypeInv, NEW k \in DOMAIN file.packets
  PROVE  /\ k \in Nat \ {0} /\ k <= Len(file.packets) /\ Len(file.packets) \in Nat
         /\ DOMAIN file.packets = 1 .. Len(file.packets)
         /\ file.packets[k].stream \in Streams
         /\ file.packets[k].pos \in Int /\ file.packets[k].size \in Nat
         /\ EndOf(file.packets[k]) <= file.size /\ EndOf(file.packets[k]) \in Int /\ file.size \in Nat
  <1>1. file \in Files BY DEF TypeInv
  <1>2. /\ file.packets = [j \in 1 .. Len(file.packets) |-> file.packets[j]] /\ Len(file.packets) \in Nat
        /\ file.size \in Nat
    BY <1>1, ImportAssumption
  <1>3. DOMAIN file.packets = 1 .. Len(file.packets) BY <1>2
  <1>4. LET p == file.packets[k]
        IN p.stream \in DOMAIN file.streams /\ p.pos \in Int /\ p.size \in Nat /\ EndOf(p) <= file.size
    BY <1>1, ImportAssumption
  <1> QED BY <1>2, <1>3, <1>4 DEF Streams, EndOf

-----------------------------------------------------------------------------

(* What the next packet ends behind the one that left the margin.            *)
LEMMA NextIsNear ==
  ASSUME BehindInv, phase = "reading", next \in DOMAIN file.packets, call.idling,
         call.framesProcessed >= call.minFrames, call.framesProcessed >= 1
  PROVE  EndOf(file.packets[next]) <= call.availableSize
  <1>1. TypeInv /\ IsMap(stream_map) /\ Calm(call, stream_map, next, largestPacketSize)
          /\ Largest(stream_map, next, largestPacketSize)
    BY DEF BehindInv, MapInv, CalmInv, LargestInv, Prepared
  <1>2. next \in Nat \ {0} /\ call.availableSize \in Nat /\ largestPacketSize \in Nat /\ Fudge \in Nat
    BY <1>1, ImportAssumption DEF TypeInv, IsCall
  <1>3. EndOf(file.packets[next]) <= file.size /\ EndOf(file.packets[next]) \in Int /\ file.size \in Nat
    BY <1>1, PacketOf
  <1>4. CASE call.availableSize >= file.size BY <1>2, <1>3, <1>4
  <1>5. CASE \E k \in DOMAIN file.packets :
               /\ k < next /\ Counts(file, Tracks(stream_map), k)
               /\ \A j \in k + 1 .. next - 1 : ~Counts(file, Tracks(stream_map), j)
               /\ call.availableSize - EndOf(file.packets[k]) >= Fudge * largestPacketSize
    <2>1. PICK k \in DOMAIN file.packets :
            /\ k < next /\ Counts(file, Tracks(stream_map), k)
            /\ \A j \in k + 1 .. next - 1 : ~Counts(file, Tracks(stream_map), j)
            /\ call.availableSize - EndOf(file.packets[k]) >= Fudge * largestPacketSize
      BY <1>5
    <2>2. k \in Nat \ {0} /\ DOMAIN file.packets = 1 .. Len(file.packets) /\ EndOf(file.packets[k]) \in Int
      BY <1>1, PacketOf
    <2>3. /\ Tracks(stream_map) \in [DOMAIN file.streams -> BOOLEAN]
          /\ \A i \in DOMAIN file.streams : Tracks(stream_map)[i] \in MayBeValid(file.streams[i])
      BY <1>1 DEF IsMap, Tracks, Streams, Stream
    <2>4. Interleaved(file) BY <1>1, ImportAssumption DEF TypeInv
    <2>5. PICK l \in 1 .. k :
            /\ Counts(file, Tracks(stream_map), l)
            /\ EndOf(file.packets[next]) <= EndOf(file.packets[k]) + Fudge * file.packets[l].size
      BY <2>1, <2>3, <2>4 DEF Interleaved
    <2>6. l \in DOMAIN file.packets /\ l < next BY <1>2, <2>1, <2>2, PacketOf, <1>1
    <2>7. file.packets[l].size <= largestPacketSize /\ file.packets[l].size \in Nat
      BY <1>1, <2>5, <2>6, PacketOf DEF Largest
    <2>8. Fudge * file.packets[l].size <= Fudge * largestPacketSize BY <1>2, <2>7, Times
    <2>9. Fudge * file.packets[l].size \in Nat /\ Fudge * largestPacketSize \in Nat BY <1>2, <2>7
    <2> DEFINE a == EndOf(file.packets[next])
               b == EndOf(file.packets[k])
               c == call.availableSize
               x == Fudge * file.packets[l].size
               y == Fudge * largestPacketSize
    <2>10. a <= b + x /\ x <= y /\ c - b >= y BY <2>1, <2>5, <2>8
    <2>11. a \in Int /\ b \in Int /\ c \in Int /\ x \in Int /\ y \in Int BY <1>2, <1>3, <2>2, <2>9
    <2> HIDE DEF a, b, c, x, y
    <2>12. a <= c BY <2>10, <2>11
    <2> QED BY <2>12 DEF a, c
  <1> QED BY <1>1, <1>4, <1>5 DEF Calm

-----------------------------------------------------------------------------
(* Each action preserves the invariant. *)

LEMMA BehindInit == Init => BehindInv
  <1> SUFFICES ASSUME Init PROVE BehindInv OBVIOUS
  <1>1. file \in Files /\ file.size \in Nat /\ Chunk \in Nat \ {0} BY ImportAssumption DEF Init
  <1>2. available \in Nat /\ (available = 0 => file.size = 0) BY <1>1, MinOfTwo DEF Init
  <1>3. IsCall(NoCall) BY DEF IsCall, NoCall
  <1>4. TypeInv BY <1>1, <1>2, <1>3 DEF TypeInv, Init
  <1> QED BY <1>4 DEF BehindInv, MapInv, LargestInv, CalmInv, Prepared, Init

\* Steps that leave the streams, the packets and the call alone.
Aside == UNCHANGED <<file, stream_map, next, call, largestPacketSize>>

LEMMA AsideKeeps ==
  ASSUME BehindInv, Aside, available' \in Nat, available' = 0 => available = 0,
         phase' = phase \/ phase' \in {"failed", "done"} \/ (phase = "open" /\ phase' = "prepare")
  PROVE  BehindInv'
  <1>1. TypeInv' BY DEF BehindInv, Aside, TypeInv, IsCall
  <1>2. MapInv' BY DEF BehindInv, Aside, MapInv, IsMap, Prepared, Streams, Stream
  <1>3. LargestInv' BY DEF BehindInv, Aside, LargestInv, Largest, Tracks, Counts, Prepared, Streams
  <1>4. CalmInv' BY DEF BehindInv, Aside, CalmInv, Calm, Tracks, Counts, Streams
  <1> QED BY <1>1, <1>2, <1>3, <1>4 DEF BehindInv

LEMMA EndedKeeps ==
  ASSUME BehindInv, ImportFails \/ WrongStreams \/ SkipIndex \/ DetermineHeaderOffset \/ DataArrives
  PROVE  BehindInv'
  <1>0. available \in Nat /\ file.size \in Nat /\ Chunk \in Nat \ {0}
    BY ImportAssumption DEF BehindInv, TypeInv
  <1>1. CASE ImportFails BY <1>0, <1>1, AsideKeeps DEF ImportFails, Ended, Aside, header
  <1>2. CASE WrongStreams BY <1>0, <1>2, AsideKeeps DEF WrongStreams, Ended, Aside, header
  <1>3. CASE DetermineHeaderOffset BY <1>0, <1>3, AsideKeeps DEF DetermineHeaderOffset, Aside
  <1>4. CASE DataArrives
    <2>1. available' \in {available + Chunk, file.size} BY <1>0, <1>4, MinOfTwo DEF DataArrives
    <2> QED BY <1>0, <1>4, <2>1, AsideKeeps DEF DataArrives, Aside, header
  <1>5. CASE SkipIndex BY <1>0, <1>5, AsideKeeps DEF SkipIndex, Ended, Aside, header
  <1> QED BY <1>1, <1>2, <1>3, <1>4, <1>5

\* A map of the same tracks.
LEMMA SameTracks ==
  ASSUME NEW old, NEW map, IsMap(old), DOMAIN map = Streams,
         \A i \in Streams : DOMAIN map[i] = DOMAIN old[i] /\ map[i].valid = old[i].valid
  PROVE  IsMap(map) /\ Tracks(map) = Tracks(old)
  BY DEF IsMap, Tracks

LEMMA PrepareKeeps == ASSUME BehindInv, PrepareMovie PROVE BehindInv'
  <1>1. PICK valid \in [Streams -> BOOLEAN] :
          /\ \A i \in Streams : valid[i] \in MayBeValid(Stream(i))
          /\ stream_map' = [i \in Streams |-> NewStream(valid[i])]
    BY DEF PrepareMovie
  <1>2. IsMap(stream_map') BY <1>1 DEF IsMap, NewStream
  <1>3. next = 1 /\ phase' = "prepared" /\ UNCHANGED <<file, call, next, available, largestPacketSize>>
    BY DEF PrepareMovie, BehindInv, LargestInv, Prepared, header
  <1>4. TypeInv' BY <1>3 DEF BehindInv, TypeInv, IsCall
  <1>5. MapInv' BY <1>2, <1>3 DEF MapInv, IsMap, Streams, Stream
  <1>6. LargestInv'
    <2>1. \A k \in DOMAIN file.packets : ~(k < 1) BY PacketOf DEF BehindInv
    <2> QED BY <1>3, <2>1 DEF LargestInv, Largest, Prepared
  <1> QED BY <1>3, <1>4, <1>5, <1>6 DEF BehindInv, CalmInv

LEMMA IndexKeeps == ASSUME BehindInv, ImportUsingIndex PROVE BehindInv'
  <1>1. phase' = "done" /\ UNCHANGED <<file, call, next, available, largestPacketSize>>
    BY DEF ImportUsingIndex, header
  <1>2. TypeInv' BY <1>1 DEF BehindInv, TypeInv, IsCall
  <1> QED BY <1>1, <1>2 DEF BehindInv, MapInv, LargestInv, CalmInv, Prepared

\* A call begins: it has counted no packet yet.
LEMMA BeginKeeps ==
  ASSUME BehindInv, phase \in {"prepared", "idle"}, NEW idle \in BOOLEAN, NEW min \in Nat, NEW max, NEW add,
         Begin(idle, min, max, add), UNCHANGED <<file, next, available, largestPacketSize>>
  PROVE  BehindInv'
  <1>1. TypeInv /\ IsMap(stream_map) /\ Largest(stream_map, next, largestPacketSize) /\ available \in Nat
    BY DEF BehindInv, MapInv, LargestInv, Prepared, TypeInv
  <1>2. /\ DOMAIN call' = DOMAIN NoCall /\ call'.idling = idle /\ call'.minFrames = min
        /\ call'.framesProcessed = 0 /\ call'.availableSize = IF idle THEN available ELSE 0
    BY DEF Begin, NoCall
  <1>3. TypeInv' BY <1>1, <1>2 DEF TypeInv, IsCall
  <1>4. IsMap(stream_map') /\ Tracks(stream_map') = Tracks(stream_map)
    <2>1. DOMAIN stream_map' = Streams BY DEF Begin
    <2>2. \A i \in Streams : DOMAIN stream_map'[i] = DOMAIN stream_map[i] /\ stream_map'[i].valid = stream_map[i].valid
      BY <1>1 DEF Begin, IsMap
    <2> QED BY <1>1, <2>1, <2>2, SameTracks
  <1>5. phase' = "reading" BY DEF Begin
  <1>6. MapInv' BY <1>4 DEF MapInv, IsMap, Streams, Stream
  <1>7. LargestInv' BY <1>1, <1>4, <1>5 DEF LargestInv, Largest, Prepared, Counts, Tracks, Streams
  <1>8. CalmInv' BY <1>2 DEF CalmInv, Calm
  <1> QED BY <1>3, <1>6, <1>7, <1>8 DEF BehindInv

LEMMA CallsKeep ==
  ASSUME BehindInv, ImportWithIdle \/ \E now \in MovieTimes : Idle(now)
  PROVE  BehindInv'
  <1>1. FirstMin \in Nat /\ 0 \in Nat BY ImportAssumption
  <1>2. CASE ImportWithIdle
    <2>1. CASE withIdle
      <3>1. Begin(TRUE, FirstMin, FirstMax, TRUE) BY <1>2, <2>1 DEF ImportWithIdle
      <3> QED BY <1>1, <1>2, <3>1, BeginKeeps DEF ImportWithIdle, header
    <2>2. CASE ~withIdle
      <3>1. Begin(FALSE, 0, 0, TRUE) BY <1>2, <2>2 DEF ImportWithIdle
      <3> QED BY <1>1, <1>2, <3>1, BeginKeeps DEF ImportWithIdle, header
    <2> QED BY <2>1, <2>2
  <1>3. CASE \E now \in MovieTimes : Idle(now)
    <2>1. PICK now \in MovieTimes : Idle(now) BY <1>3
    <2>2. Begin(TRUE, 0, IdleMax, Due(now)) BY <2>1 DEF Idle
    <2> QED BY <1>1, <2>1, <2>2, BeginKeeps DEF Idle, header
  <1> QED BY <1>2, <1>3

\* The end of a call.
LEMMA EndsKeep ==
  ASSUME BehindInv, ReadEnds \/ Return
  PROVE  BehindInv'
  <1>1. TypeInv /\ IsMap(stream_map) /\ Largest(stream_map, next, largestPacketSize)
    BY DEF BehindInv, MapInv, LargestInv, Prepared, ReadEnds, Return
  <1>2. UNCHANGED <<file, next, available, largestPacketSize>> BY DEF ReadEnds, Return, header
  <1>3. IsCall(call)' 
    <2>1. CASE ReadEnds BY <1>1, <1>2, <2>1 DEF TypeInv, IsCall, ReadEnds, NoCall
    <2>2. CASE Return BY <2>2 DEF IsCall, Return, NoCall
    <2> QED BY <2>1, <2>2
  <1>4. TypeInv' BY <1>1, <1>2, <1>3 DEF TypeInv
  <1>5. /\ DOMAIN stream_map' = Streams
        /\ \A i \in Streams :
             DOMAIN stream_map'[i] = DOMAIN stream_map[i] /\ stream_map'[i].valid = stream_map[i].valid
    <2>1. CASE ReadEnds BY <1>1, <2>1 DEF ReadEnds, IsMap
    <2>2. CASE Return
      <3>1. stream_map' = [i \in Streams |-> Inserted(i)] BY <2>2 DEF Return
      <3>2. ASSUME NEW i \in Streams
            PROVE  DOMAIN Inserted(i) = DOMAIN stream_map[i] /\ Inserted(i).valid = stream_map[i].valid
        BY <1>1 DEF Inserted, IsMap
      <3> QED BY <3>1, <3>2
    <2> QED BY <2>1, <2>2
  <1>6. IsMap(stream_map') /\ Tracks(stream_map') = Tracks(stream_map) BY <1>1, <1>5, SameTracks
  <1>7. MapInv' BY <1>2, <1>6 DEF MapInv, IsMap, Streams, Stream
  <1>8. phase' \in {"returning", "done", "idle"} BY DEF ReadEnds, Return
  <1>9. LargestInv'
    BY <1>1, <1>2, <1>6, <1>8 DEF LargestInv, Largest, Prepared, Counts, Tracks, Streams
  <1> QED BY <1>4, <1>7, <1>8, <1>9 DEF BehindInv, CalmInv

-----------------------------------------------------------------------------
(* A turn of the loop. *)

\* A packet that is not counted changes nothing; one that is becomes the last.
LEMMA NotCounted ==
  ASSUME TypeInv, NEW map, NEW largest \in Nat, next \in DOMAIN file.packets,
         ~Counts(file, Tracks(map), next), Largest(map, next, largest)
  PROVE  Largest(map, next + 1, largest)
  BY PacketOf DEF Largest, TypeInv

LEMMA Counted ==
  ASSUME TypeInv, NEW map, next \in DOMAIN file.packets, Largest(map, next, largestPacketSize)
  PROVE  /\ Max({largestPacketSize, file.packets[next].size}) \in Nat
         /\ Largest(map, next + 1, Max({largestPacketSize, file.packets[next].size}))
  <1> DEFINE new == Max({largestPacketSize, file.packets[next].size})
  <1>1. /\ largestPacketSize \in Nat /\ file.packets[next].size \in Nat
        /\ largestPacketSize \in Int /\ file.packets[next].size \in Int
    BY PacketOf DEF TypeInv
  <1>2. new \in {largestPacketSize, file.packets[next].size} /\ new >= largestPacketSize
          /\ new >= file.packets[next].size
    BY <1>1, MaxOfTwo
  <1> HIDE DEF new
  <1>3. Largest(map, next + 1, new) BY <1>1, <1>2, PacketOf DEF Largest, TypeInv
  <1> QED BY <1>1, <1>2, <1>3 DEF new

\* Over packets that are not counted the last counted one stays in mind.
LEMMA CalmOver ==
  ASSUME TypeInv, NEW map, next \in DOMAIN file.packets, ~Counts(file, Tracks(map), next),
         Calm(call, map, next, largestPacketSize), NEW c,
         c.idling = call.idling, c.minFrames = call.minFrames,
         c.framesProcessed = call.framesProcessed, c.availableSize = call.availableSize
  PROVE  Calm(c, map, next + 1, largestPacketSize)
  <1>1. CASE ~(c.idling /\ c.framesProcessed >= c.minFrames /\ c.framesProcessed >= 1) \/ c.availableSize >= file.size
    BY <1>1 DEF Calm
  <1>2. CASE \E k \in DOMAIN file.packets :
               /\ k < next /\ Counts(file, Tracks(map), k)
               /\ \A j \in k + 1 .. next - 1 : ~Counts(file, Tracks(map), j)
               /\ c.availableSize - EndOf(file.packets[k]) >= Fudge * largestPacketSize
    <2>1. PICK k \in DOMAIN file.packets :
            /\ k < next /\ Counts(file, Tracks(map), k)
            /\ \A j \in k + 1 .. next - 1 : ~Counts(file, Tracks(map), j)
            /\ c.availableSize - EndOf(file.packets[k]) >= Fudge * largestPacketSize
      BY <1>2
    <2>2. k \in Nat /\ next \in Nat BY PacketOf DEF TypeInv
    <2>3. k < next + 1 /\ \A j \in k + 1 .. (next + 1) - 1 : ~Counts(file, Tracks(map), j)
      BY <2>1, <2>2
    <2> QED BY <2>1, <2>3 DEF Calm
  <1> QED BY <1>1, <1>2 DEF Calm

LEMMA ReadKeeps == ASSUME BehindInv, ReadFrame PROVE BehindInv'
  <1> DEFINE p == file.packets[next]
             frames == call.framesProcessed + 1
             largest == Max({largestPacketSize, p.size})
  <1>1. /\ TypeInv /\ IsMap(stream_map) /\ Largest(stream_map, next, largestPacketSize)
        /\ Calm(call, stream_map, next, largestPacketSize) /\ next \in Nat \ {0}
    BY DEF BehindInv, MapInv, LargestInv, CalmInv, Prepared, ReadFrame, TypeInv
  <1>2. next \in DOMAIN file.packets
    <2>1. next <= Len(file.packets) BY DEF ReadFrame
    <2>2. file.packets = [k \in 1 .. Len(file.packets) |-> file.packets[k]] /\ Len(file.packets) \in Nat
      BY <1>1, ImportAssumption DEF TypeInv
    <2>3. DOMAIN file.packets = 1 .. Len(file.packets) BY <2>2
    <2> QED BY <1>1, <2>1, <2>3
  <1>3. p.stream \in Streams /\ p.pos \in Int /\ p.size \in Nat /\ file.size \in Nat BY <1>1, <1>2, PacketOf
  <1>4. next' = next + 1 /\ UNCHANGED file BY DEF ReadFrame, header
  <1>5. available' \in Nat /\ (available' = 0 => file.size = 0)
    <2>1. available \in Nat /\ available \in Int /\ p.pos + p.size \in Int /\ (available = 0 => file.size = 0)
      BY <1>1, <1>3 DEF TypeInv
    <2>2. available' = Max({available, p.pos + p.size}) BY DEF ReadFrame
    <2>3. available' \in {available, p.pos + p.size} /\ available' >= available BY <2>1, <2>2, MaxOfTwo
    <2> QED BY <1>3, <2>1, <2>3
  <1>6. stream_map[p.stream].valid \in BOOLEAN /\ Tracks(stream_map)[p.stream] = stream_map[p.stream].valid
    BY <1>1, <1>3 DEF IsMap, Tracks
  <1>7. CASE ~Counts(file, Tracks(stream_map), next)
    <2>1. UNCHANGED <<phase, stream_map, largestPacketSize>>
      BY <1>3, <1>6, <1>7 DEF ReadFrame, Counts, HasSample
    <2>2. /\ DOMAIN call' = DOMAIN call /\ call'.idling = call.idling /\ call'.minFrames = call.minFrames
          /\ call'.framesProcessed = call.framesProcessed /\ call'.availableSize = call.availableSize
      <3>1. call' = call \/ call' = [call EXCEPT !.firstPts = [@ EXCEPT ![p.stream] = FirstPts(p)]]
        BY <1>3, <1>6, <1>7 DEF ReadFrame, Counts, HasSample
      <3> QED BY <1>1, <3>1 DEF TypeInv, IsCall, NoCall
    <2>3. TypeInv' BY <1>1, <1>4, <1>5, <2>1, <2>2 DEF TypeInv, IsCall
    <2>4. MapInv' BY <1>1, <1>4, <2>1 DEF MapInv, IsMap, Streams, Stream
    <2>5. largestPacketSize \in Nat BY <1>1 DEF TypeInv
    <2>6. Largest(stream_map, next + 1, largestPacketSize) BY <1>1, <1>2, <1>7, <2>5, NotCounted
    <2>7. LargestInv'
      BY <1>4, <2>1, <2>6 DEF LargestInv, Largest, Prepared, Counts, Tracks, Streams, ReadFrame
    <2>8. Calm(call', stream_map, next + 1, largestPacketSize) BY <1>1, <1>2, <1>7, <2>2, CalmOver
    <2>9. CalmInv' BY <1>4, <2>1, <2>8 DEF CalmInv, Calm, Counts, Tracks, Streams
    <2> QED BY <2>3, <2>4, <2>7, <2>9 DEF BehindInv
  <1>8. CASE Counts(file, Tracks(stream_map), next)
    <2>1. /\ largestPacketSize' = largest
          /\ stream_map' = [stream_map EXCEPT ![p.stream] = AddPacket(@, p)]
          /\ phase' = IF RunsShort(p, frames, largest) \/ FrameLimit(frames) THEN "returning" ELSE "reading"
          /\ call' = [[call EXCEPT !.firstPts[p.stream] = FirstPts(p)] EXCEPT !.framesProcessed = frames]
      BY <1>3, <1>6, <1>8 DEF ReadFrame, Counts, HasSample
    <2>2. largest \in Nat /\ Largest(stream_map, next + 1, largest) BY <1>1, <1>2, Counted
    <2> HIDE DEF largest
    <2>3. /\ DOMAIN call' = DOMAIN call /\ call'.idling = call.idling /\ call'.minFrames = call.minFrames
          /\ call'.framesProcessed = frames /\ call'.availableSize = call.availableSize
      BY <1>1, <2>1 DEF TypeInv, IsCall, NoCall
    <2>4. TypeInv' BY <1>1, <1>4, <1>5, <2>1, <2>2, <2>3 DEF TypeInv, IsCall
    <2>5. DOMAIN AddPacket(stream_map[p.stream], p) = DOMAIN stream_map[p.stream]
            /\ AddPacket(stream_map[p.stream], p).valid = stream_map[p.stream].valid
      BY <1>1, <1>3 DEF AddPacket, AddWaiting, IsMap
    <2>6. IsMap(stream_map') /\ Tracks(stream_map') = Tracks(stream_map)
      <3>1. DOMAIN stream_map' = Streams BY <1>1, <2>1 DEF IsMap
      <3>2. \A i \in Streams :
              DOMAIN stream_map'[i] = DOMAIN stream_map[i] /\ stream_map'[i].valid = stream_map[i].valid
        BY <1>1, <2>1, <2>5 DEF IsMap
      <3> QED BY <1>1, <3>1, <3>2, SameTracks
    <2>7. MapInv' BY <1>4, <2>6 DEF MapInv, IsMap, Streams, Stream
    <2>8. LargestInv'
      BY <1>4, <2>1, <2>2, <2>6 DEF LargestInv, Largest, Prepared, Counts, Tracks, Streams
    <2>9. CalmInv'
      <3> SUFFICES ASSUME phase' = "reading", call'.idling, call'.framesProcessed >= call'.minFrames,
                          ~(call'.availableSize >= file.size)
                   PROVE  Calm(call', stream_map', next + 1, largest)
        BY <1>4, <2>1 DEF CalmInv, Calm, Counts, Tracks, Streams
      <3>1. ~RunsShort(p, frames, largest) BY <2>1
      <3>2. call.availableSize \in 1 .. file.size - 1 BY <1>1, <1>3, <2>3 DEF TypeInv, IsCall
      <3>3. ~(Margin(p) < Fudge * largest) BY <2>3, <3>1, <3>2 DEF RunsShort
      <3>4. call.availableSize - EndOf(p) >= Fudge * largest
        <4>1. Fudge \in Nat BY ImportAssumption
        <4>2. Fudge * largest \in Nat BY <2>2, <4>1
        <4>3. Margin(p) = call.availableSize - EndOf(p) /\ Margin(p) \in Int
          BY <1>3, <3>2 DEF Margin, EndOf
        <4> QED BY <3>3, <4>2, <4>3
      <3>5. next < next + 1 /\ \A j \in next + 1 .. (next + 1) - 1 : FALSE BY <1>1
      <3> QED BY <1>2, <1>8, <2>3, <2>6, <3>4, <3>5 DEF Calm
    <2> QED BY <2>4, <2>7, <2>8, <2>9 DEF BehindInv
  <1> QED BY <1>7, <1>8

LEMMA BehindNext == BehindInv /\ [Next]_vars => BehindInv'
  <1> SUFFICES ASSUME BehindInv, [Next]_vars PROVE BehindInv' OBVIOUS
  <1>1. CASE ImportFails \/ WrongStreams \/ SkipIndex \/ DetermineHeaderOffset \/ DataArrives BY <1>1, EndedKeeps
  <1>2. CASE PrepareMovie BY <1>2, PrepareKeeps
  <1>3. CASE ImportUsingIndex BY <1>3, IndexKeeps
  <1>4. CASE ImportWithIdle \/ \E now \in MovieTimes : Idle(now) BY <1>4, CallsKeep
  <1>5. CASE ReadFrame BY <1>5, ReadKeeps
  <1>6. CASE ReadEnds \/ Return BY <1>6, EndsKeep
  <1>7. CASE UNCHANGED vars
    <2>1. available \in Nat BY DEF BehindInv, TypeInv
    <2> QED BY <1>7, <2>1, AsideKeeps DEF vars, header, Aside
  <1> QED BY <1>1, <1>2, <1>3, <1>4, <1>5, <1>6, <1>7 DEF Next

-----------------------------------------------------------------------------

(* "if we're idling, try really not to read past the end of available data": *)
(* for all files whose packets are Interleaved, import_with_idle, after the  *)
(* frames it must read, reads what had arrived when it was called.           *)
THEOREM AlwaysBehindData == Spec => StaysBehindData
  <1>1. Spec => []BehindInv
    <2>1. Init => BehindInv BY BehindInit
    <2>2. BehindInv /\ [Next]_vars => BehindInv' BY BehindNext
    <2> QED BY <2>1, <2>2, PTL DEF Spec
  <1> DEFINE Behind ==
        phase = "reading" /\ next' # next /\ call.idling /\ call.framesProcessed >= Max({call.minFrames, 1})
          => file.packets[next].pos + file.packets[next].size <= call.availableSize
  <1>2. BehindInv /\ [Next]_vars => [Behind]_vars
    <2> SUFFICES ASSUME BehindInv, [Next]_vars, phase = "reading", next' # next, call.idling,
                        call.framesProcessed >= Max({call.minFrames, 1})
                 PROVE  file.packets[next].pos + file.packets[next].size <= call.availableSize
      OBVIOUS
    <2>1. ReadFrame
      BY DEF Next, vars, ImportFails, WrongStreams, Ended, DetermineHeaderOffset, PrepareMovie, ImportUsingIndex, SkipIndex,
             ImportWithIdle, DataArrives, ReadEnds, Return, Idle
    <2>2. next \in DOMAIN file.packets
      <3>1. file \in Files /\ next \in Nat \ {0} BY DEF BehindInv, TypeInv
      <3>2. file.packets = [k \in 1 .. Len(file.packets) |-> file.packets[k]] /\ Len(file.packets) \in Nat
        BY <3>1, ImportAssumption
      <3>3. DOMAIN file.packets = 1 .. Len(file.packets) BY <3>2
      <3> QED BY <2>1, <3>1, <3>3 DEF ReadFrame
    <2>3. call.framesProcessed >= call.minFrames /\ call.framesProcessed >= 1
      <3>1. call.minFrames \in Int /\ 1 \in Int /\ call.framesProcessed \in Int
        BY DEF BehindInv, TypeInv, IsCall
      <3>2. Max({call.minFrames, 1}) \in Int /\ Max({call.minFrames, 1}) >= call.minFrames
              /\ Max({call.minFrames, 1}) >= 1
        BY <3>1, MaxOfTwo
      <3> QED BY <3>1, <3>2
    <2> QED BY <2>2, <2>3, NextIsNear DEF EndOf
  <1> QED BY <1>1, <1>2, PTL DEF Spec, StaysBehindData

-----------------------------------------------------------------------------
(* GetMediaDuration. *)

Sample == [pos : Nat, count : Nat, duration : Nat]

\* g[k] is how long the first k samples last.
UpTo(g, media, n) ==
  g = [k \in 0 .. n |-> IF k = 0 THEN 0 ELSE g[k - 1] + media[k].count * media[k].duration]

LEMMA UpToExists == ASSUME NEW media, NEW n \in Nat PROVE \E g : UpTo(g, media, n)
  <1> DEFINE S == {k \in Nat : \E g : UpTo(g, media, k)}
  <1>1. 0 \in S
    <2>1. UpTo([i \in 0 .. 0 |-> 0], media, 0) BY DEF UpTo
    <2> QED BY <2>1
  <1>2. ASSUME NEW k \in Nat, k \in S PROVE k + 1 \in S
    <2>1. PICK g : UpTo(g, media, k) BY <1>2
    <2> DEFINE h == [i \in 0 .. k + 1 |-> IF i = k + 1 THEN g[k] + media[k + 1].count * media[k + 1].duration ELSE g[i]]
    <2>2. \A i \in 0 .. k : g[i] = IF i = 0 THEN 0 ELSE g[i - 1] + media[i].count * media[i].duration
      BY <2>1 DEF UpTo
    <2>3. \A i \in 0 .. k + 1 : h[i] = IF i = 0 THEN 0 ELSE h[i - 1] + media[i].count * media[i].duration BY <2>2
    <2>4. UpTo(h, media, k + 1) BY <2>3 DEF UpTo
    <2> QED BY <2>4
  <1> HIDE DEF S
  <1>3. Nat \subseteq S BY <1>1, <1>2, Inductive
  <1> QED BY <1>3 DEF S

LEMMA DurationIs ==
  ASSUME NEW media, Len(media) \in Nat
  PROVE  \E g : UpTo(g, media, Len(media)) /\ MediaDuration(media) = g[Len(media)]
  <1>1. \E g : UpTo(g, media, Len(media)) BY UpToExists
  <1>2. UpTo(CHOOSE g : UpTo(g, media, Len(media)), media, Len(media)) BY <1>1
  <1> QED BY <1>2 DEF MediaDuration, UpTo

\* Two such sums of media that begin alike.
LEMMA UpToAgree ==
  ASSUME NEW a, NEW b, NEW m \in Nat, NEW n \in Nat, m <= n, NEW g, NEW h, UpTo(g, a, m), UpTo(h, b, n),
         \A k \in 1 .. m : a[k] = b[k]
  PROVE  \A k \in 0 .. m : g[k] = h[k]
  <1> DEFINE S == {k \in Nat : k <= m => g[k] = h[k]}
  <1>0. /\ \A i \in 0 .. m : g[i] = IF i = 0 THEN 0 ELSE g[i - 1] + a[i].count * a[i].duration
        /\ \A i \in 0 .. n : h[i] = IF i = 0 THEN 0 ELSE h[i - 1] + b[i].count * b[i].duration
    BY DEF UpTo
  <1>1. 0 \in S
    <2>1. 0 \in 0 .. m /\ 0 \in 0 .. n OBVIOUS
    <2>2. g[0] = 0 /\ h[0] = 0 BY <1>0, <2>1
    <2> QED BY <2>2
  <1>2. ASSUME NEW k \in Nat, k \in S PROVE k + 1 \in S
    <2> SUFFICES ASSUME k + 1 <= m PROVE g[k + 1] = h[k + 1] OBVIOUS
    <2>1. g[k + 1] = g[k] + a[k + 1].count * a[k + 1].duration BY <1>0
    <2>2. h[k + 1] = h[k] + b[k + 1].count * b[k + 1].duration BY <1>0
    <2>3. a[k + 1] = b[k + 1] /\ g[k] = h[k] BY <1>2
    <2> QED BY <2>1, <2>2, <2>3
  <1> HIDE DEF S
  <1>3. Nat \subseteq S BY <1>1, <1>2, Inductive
  <1> QED BY <1>3 DEF S

LEMMA DurationIsNat == ASSUME NEW media \in Seq(Sample) PROVE MediaDuration(media) \in Nat
  <1>1. PICK g : UpTo(g, media, Len(media)) /\ MediaDuration(media) = g[Len(media)] BY DurationIs
  <1> DEFINE S == {k \in Nat : k <= Len(media) => g[k] \in Nat}
  <1>2. \A i \in 0 .. Len(media) : g[i] = IF i = 0 THEN 0 ELSE g[i - 1] + media[i].count * media[i].duration
    BY <1>1 DEF UpTo
  <1>3. 0 \in S BY <1>2
  <1>4. ASSUME NEW k \in Nat, k \in S PROVE k + 1 \in S
    <2> SUFFICES ASSUME k + 1 <= Len(media) PROVE g[k + 1] \in Nat OBVIOUS
    <2>0. media[k + 1] \in Sample OBVIOUS
    <2>1. media[k + 1].count \in Nat /\ media[k + 1].duration \in Nat BY <2>0 DEF Sample
    <2>2. media[k + 1].count * media[k + 1].duration \in Nat BY <2>1
    <2> QED BY <1>2, <1>4, <2>2
  <1> HIDE DEF S
  <1>5. Nat \subseteq S BY <1>3, <1>4, Inductive
  <1> QED BY <1>1, <1>5 DEF S

\* A sample more makes the media longer by what it lasts.
LEMMA DurationGrows ==
  ASSUME NEW media \in Seq(Sample), NEW sample \in Sample
  PROVE  /\ MediaDuration(Append(media, sample)) = MediaDuration(media) + sample.count * sample.duration
         /\ MediaDuration(media) \in Nat /\ MediaDuration(Append(media, sample)) \in Nat
         /\ MediaDuration(Append(media, sample)) >= MediaDuration(media)
  <1> DEFINE longer == Append(media, sample)
  <1>1. longer \in Seq(Sample) /\ Len(longer) = Len(media) + 1 /\ longer[Len(media) + 1] = sample
    OBVIOUS
  <1>2. \A k \in 1 .. Len(media) : media[k] = longer[k] OBVIOUS
  <1> HIDE DEF longer
  <1>3. PICK g : UpTo(g, media, Len(media)) /\ MediaDuration(media) = g[Len(media)] BY DurationIs
  <1>4. PICK h : UpTo(h, longer, Len(longer)) /\ MediaDuration(longer) = h[Len(longer)] BY <1>1, DurationIs
  <1>5. g[Len(media)] = h[Len(media)] BY <1>1, <1>2, <1>3, <1>4, UpToAgree
  <1>6. h[Len(media) + 1] = h[Len(media)] + sample.count * sample.duration BY <1>1, <1>4 DEF UpTo
  <1>7. MediaDuration(longer) = MediaDuration(media) + sample.count * sample.duration
    BY <1>1, <1>3, <1>4, <1>5, <1>6
  <1>8. sample.count * sample.duration \in Nat
    <2>1. sample.count \in Nat /\ sample.duration \in Nat BY DEF Sample
    <2> QED BY <2>1
  <1>9. MediaDuration(media) \in Nat BY DurationIsNat
  <1> QED BY <1>7, <1>8, <1>9 DEF longer

LEMMA NoDuration == MediaDuration(<<>>) = 0
  <1>1. PICK g : UpTo(g, <<>>, 0) /\ MediaDuration(<<>>) = g[0] BY DurationIs
  <1>2. g[0] = 0 BY <1>1 DEF UpTo
  <1> QED BY <1>1, <1>2

-----------------------------------------------------------------------------
(* The media and the regions of a track. *)

Fields(s) == DOMAIN s = DOMAIN NewStream(TRUE)

EndOfAll(regions) == IF regions = <<>> THEN 0 ELSE regions[Len(regions)][2]
TrackTo(s) == EndOfAll(s.regions)

Meet(regions) == \A k \in 1 .. Len(regions) : regions[k][1] = IF k = 1 THEN 0 ELSE regions[k - 1][2]

\* Regions meet; they end where the media did when its duration was noted, or does.
Holds(s) ==
  /\ s.media \in Seq(Sample) /\ s.regions \in Seq(Nat \X Nat)
  /\ Meet(s.regions)
  /\ s.duration \in Nat \cup {-1}
  /\ s.duration = -1 => TrackTo(s) = MediaDuration(s.media)
  /\ s.duration # -1 => TrackTo(s) = s.duration /\ s.duration <= MediaDuration(s.media)

\* The sample that waits in stream i is no later than the packets to come.
Waits(s, i, n) ==
  /\ s.lastSample \in Sample /\ s.lastdts \in Int
  /\ s.lastSample.count > 0 =>
       \A k \in DOMAIN file.packets :
         k >= n /\ file.packets[k].stream = i /\ HasSample(file.packets[k]) => s.lastdts <= file.packets[k].dts

Kept(s, i, n) == Fields(s) /\ Holds(s) /\ Waits(s, i, n)

TracksInv ==
  /\ phase \in {"open", "prepare"} => stream_map = <<>>
  /\ phase \in {"reading", "returning", "idle"} => ~hadIndex
  /\ phase = "prepared" => \A i \in DOMAIN stream_map : stream_map[i].valid => stream_map[i].duration = -1
  /\ hadIndex /\ phase = "done" => TrackHoldsMedia
  /\ ~(hadIndex /\ phase = "done") =>
       \A i \in DOMAIN stream_map : stream_map[i].valid => Kept(stream_map[i], i, next)
  /\ phase \in {"reading", "returning"} =>
       \A i \in DOMAIN stream_map : stream_map[i].valid => stream_map[i].duration # -1

LoadedInv ==
  /\ phase \in {"open", "prepare", "prepared"} => loadedTime = 0
  /\ ~hadIndex =>
       /\ loadedTime \in Int
       /\ \A i \in DOMAIN stream_map : stream_map[i].valid => loadedTime <= ToMovie(i, TrackTo(stream_map[i]))

LEMMA NewHolds ==
  ASSUME NEW i, NEW n, NEW valid
  PROVE  Kept(NewStream(valid), i, n) /\ TrackTo(NewStream(valid)) = 0
  BY NoDuration DEF Kept, Fields, Holds, Waits, NewStream, NoSample, Sample, TrackTo, EndOfAll, Meet

LEMMA BeginHolds ==
  ASSUME NEW s, NEW i, NEW n, Kept(s, i, n)
  PROVE  LET t == [s EXCEPT !.duration = IF @ = -1 THEN MediaDuration(s.media) ELSE @]
         IN Kept(t, i, n) /\ t.duration # -1 /\ TrackTo(t) = TrackTo(s)
  <1> DEFINE t == [s EXCEPT !.duration = IF @ = -1 THEN MediaDuration(s.media) ELSE @]
  <1>1. /\ DOMAIN t = DOMAIN s /\ t.media = s.media /\ t.regions = s.regions
        /\ t.lastSample = s.lastSample /\ t.lastdts = s.lastdts
        /\ t.duration = IF s.duration = -1 THEN MediaDuration(s.media) ELSE s.duration
    BY DEF Kept, Fields, NewStream
  <1>2. MediaDuration(s.media) \in Nat BY DurationIsNat DEF Kept, Holds
  <1> HIDE DEF t
  <1>3. TrackTo(t) = TrackTo(s) BY <1>1 DEF TrackTo
  <1>4. Holds(t) /\ t.duration # -1 BY <1>1, <1>2, <1>3 DEF Kept, Holds
  <1>5. Waits(t, i, n) /\ Fields(t) BY <1>1 DEF Kept, Waits, Fields
  <1> QED BY <1>3, <1>4, <1>5 DEF Kept, t

\* A sample more for the media, the duration of which was noted.
LEMMA AppendHolds ==
  ASSUME NEW s, Fields(s), Holds(s), s.duration # -1, NEW sample \in Sample
  PROVE  LET t == [s EXCEPT !.media = Append(@, sample)]
         IN Fields(t) /\ Holds(t) /\ t.duration # -1 /\ TrackTo(t) = TrackTo(s)
  <1> DEFINE t == [s EXCEPT !.media = Append(@, sample)]
  <1>1. /\ DOMAIN t = DOMAIN s /\ t.media = Append(s.media, sample) /\ t.regions = s.regions
        /\ t.duration = s.duration
    BY DEF Fields, NewStream
  <1>2. s.media \in Seq(Sample) BY DEF Holds
  <1>3. /\ MediaDuration(Append(s.media, sample)) >= MediaDuration(s.media)
        /\ MediaDuration(Append(s.media, sample)) \in Nat /\ MediaDuration(s.media) \in Nat
    BY <1>2, DurationGrows
  <1>4. Append(s.media, sample) \in Seq(Sample) BY <1>2
  <1> HIDE DEF t
  <1>5. TrackTo(t) = TrackTo(s) BY <1>1 DEF TrackTo
  <1>6. Holds(t) BY <1>1, <1>3, <1>4, <1>5 DEF Holds
  <1> QED BY <1>1, <1>5, <1>6 DEF Fields, t

\* Members that Holds does not speak of.
LEMMA SameHolds ==
  ASSUME NEW s, NEW t, Fields(s), Holds(s), DOMAIN t = DOMAIN s,
         t.media = s.media, t.regions = s.regions, t.duration = s.duration
  PROVE  Fields(t) /\ Holds(t) /\ TrackTo(t) = TrackTo(s)
  BY DEF Fields, Holds, TrackTo

LEMMA AddWaitingHolds ==
  ASSUME NEW s, Fields(s), Holds(s), s.duration # -1, NEW p, s.lastSample \in Sample, s.lastdts \in Int, p.dts \in Int,
         s.lastSample.count > 0 => s.lastdts <= p.dts, Stream(p.stream).num \in Nat
  PROVE  LET t == AddWaiting(s, p)
         IN Fields(t) /\ Holds(t) /\ t.duration # -1 /\ TrackTo(t) = TrackTo(s)
  <1>1. CASE s.lastSample.count = 0 BY <1>1 DEF AddWaiting
  <1>2. CASE s.lastSample.count # 0
    <2> DEFINE last == [s.lastSample EXCEPT !.duration = (p.dts - s.lastdts) * Stream(p.stream).num]
    <2>1. s.lastSample.count > 0 BY <1>2 DEF Sample
    <2>2. p.dts - s.lastdts \in Nat BY <2>1
    <2>3. (p.dts - s.lastdts) * Stream(p.stream).num \in Nat BY <2>2
    <2>4. last \in Sample BY <2>3 DEF Sample
    <2>5. AddWaiting(s, p) = [s EXCEPT !.media = Append(@, last)] BY <1>2 DEF AddWaiting
    <2> HIDE DEF last
    <2> QED BY <2>4, <2>5, AppendHolds
  <1> QED BY <1>1, <1>2

LEMMA AddPacketHolds ==
  ASSUME TypeInv, next \in DOMAIN file.packets, HasSample(file.packets[next]),
         NEW s, Kept(s, file.packets[next].stream, next), s.duration # -1
  PROVE  LET p == file.packets[next]
             t == AddPacket(s, p)
         IN Kept(t, p.stream, next + 1) /\ t.duration # -1 /\ TrackTo(t) = TrackTo(s)
  <1> DEFINE p == file.packets[next]
             ready == AddWaiting(s, p)
             noted == [ready EXCEPT !.lastdts = p.dts]
             ticks == IF ConstantSize(Stream(p.stream)) THEN 1 ELSE Stream(p.stream).num * p.duration
             waiting == [noted EXCEPT !.lastSample = SampleOf(p)]
             told == [SampleOf(p) EXCEPT !.duration = ticks]
             added == [noted EXCEPT !.lastSample = NoSample, !.media = Append(@, told)]
  <1>1. /\ file \in Files /\ p.stream \in DOMAIN file.streams /\ p.dts \in Int /\ p.duration \in Nat
        /\ p.pos \in Nat /\ p.size \in Nat /\ Stream(p.stream).num \in Nat /\ next \in Nat
    BY PacketOf, TimesAssumption DEF TypeInv, Streams, Stream, HasSample
  <1>2. /\ Fields(s) /\ Holds(s) /\ s.lastSample \in Sample /\ s.lastdts \in Int
        /\ s.lastSample.count > 0 => s.lastdts <= p.dts
    BY <1>1 DEF Kept, Waits
  <1>3. Fields(ready) /\ Holds(ready) /\ ready.duration # -1 /\ TrackTo(ready) = TrackTo(s)
    BY <1>1, <1>2, AddWaitingHolds
  <1> HIDE DEF ready
  <1>4. /\ DOMAIN noted = DOMAIN ready /\ noted.media = ready.media /\ noted.regions = ready.regions
        /\ noted.duration = ready.duration /\ noted.lastdts = p.dts
    BY <1>3 DEF Fields, NewStream
  <1>5. Fields(noted) /\ Holds(noted) /\ noted.duration # -1 /\ TrackTo(noted) = TrackTo(s)
    BY <1>3, <1>4, SameHolds
  <1> HIDE DEF noted
  <1>6. SampleOf(p) \in Sample BY <1>1 DEF SampleOf, SamplesIn, Sample
  <1>7. ticks \in Nat
    <2>1. Stream(p.stream).num * p.duration \in Nat BY <1>1
    <2> QED BY <2>1
  <1> HIDE DEF ticks
  <1>8. told \in Sample BY <1>6, <1>7 DEF Sample
  <1>9. \A k \in DOMAIN file.packets :
          k >= next + 1 /\ file.packets[k].stream = p.stream /\ HasSample(file.packets[k]) => p.dts <= file.packets[k].dts
    <2> TAKE k \in DOMAIN file.packets
    <2>1. k \in Nat BY PacketOf
    <2> HAVE k >= next + 1 /\ file.packets[k].stream = p.stream /\ HasSample(file.packets[k])
    <2>2. next < k BY <1>1, <2>1
    <2> QED BY <1>1, <2>2, TimesAssumption
  <1>10. AddPacket(s, p) = waiting \/ AddPacket(s, p) = added
    BY DEF AddPacket, ready, noted, ticks
  <1>11. Kept(waiting, p.stream, next + 1) /\ waiting.duration # -1 /\ TrackTo(waiting) = TrackTo(s)
    <2>1. /\ DOMAIN waiting = DOMAIN noted /\ waiting.media = noted.media /\ waiting.regions = noted.regions
          /\ waiting.duration = noted.duration /\ waiting.lastdts = p.dts /\ waiting.lastSample = SampleOf(p)
      BY <1>4, <1>5 DEF Fields, NewStream
    <2> HIDE DEF waiting
    <2>2. Fields(waiting) /\ Holds(waiting) /\ TrackTo(waiting) = TrackTo(s) BY <1>5, <2>1, SameHolds
    <2>3. Waits(waiting, p.stream, next + 1) BY <1>1, <1>6, <1>9, <2>1 DEF Waits
    <2> QED BY <1>5, <2>1, <2>2, <2>3 DEF Kept
  <1>12. Kept(added, p.stream, next + 1) /\ added.duration # -1 /\ TrackTo(added) = TrackTo(s)
    <2> DEFINE longer == [noted EXCEPT !.media = Append(@, told)]
    <2> HIDE DEF told
    <2>1. Fields(longer) /\ Holds(longer) /\ longer.duration # -1 /\ TrackTo(longer) = TrackTo(s)
      BY <1>5, <1>8, AppendHolds
    <2>2. /\ DOMAIN added = DOMAIN longer /\ added.media = longer.media /\ added.regions = longer.regions
          /\ added.duration = longer.duration /\ added.lastdts = p.dts /\ added.lastSample = NoSample
      BY <1>4, <1>5 DEF Fields, NewStream
    <2> HIDE DEF added, longer
    <2>3. Fields(added) /\ Holds(added) /\ TrackTo(added) = TrackTo(s) BY <2>1, <2>2, SameHolds
    <2>4. Waits(added, p.stream, next + 1) BY <1>1, <2>2 DEF Waits, NoSample, Sample
    <2> QED BY <2>1, <2>2, <2>3, <2>4 DEF Kept
  <1> QED BY <1>10, <1>11, <1>12

\* A region that begins where the others end.
LEMMA MeetAppended ==
  ASSUME NEW rs \in Seq(Nat \X Nat), Meet(rs), NEW n \in Nat
  PROVE  LET ts == Append(rs, <<EndOfAll(rs), n>>)
         IN ts \in Seq(Nat \X Nat) /\ Meet(ts) /\ EndOfAll(ts) = n
  <1> DEFINE r == <<EndOfAll(rs), n>>
             ts == Append(rs, r)
  <1>1. Len(rs) \in Nat /\ (rs # <<>> => Len(rs) \in 1 .. Len(rs)) /\ (Len(rs) # 0 <=> rs # <<>>) OBVIOUS
  <1>2. EndOfAll(rs) \in Nat
    <2>1. rs # <<>> => rs[Len(rs)] \in Nat \X Nat BY <1>1
    <2> QED BY <2>1 DEF EndOfAll
  <1>3. r \in Nat \X Nat /\ r[1] = EndOfAll(rs) /\ r[2] = n BY <1>2
  <1> HIDE DEF r
  <1>4. /\ ts \in Seq(Nat \X Nat) /\ Len(ts) = Len(rs) + 1 /\ ts[Len(rs) + 1] = r /\ ts # <<>>
        /\ \A k \in 1 .. Len(rs) : ts[k] = rs[k]
    BY <1>3
  <1> HIDE DEF ts
  <1>5. ASSUME NEW k \in 1 .. Len(ts) PROVE ts[k][1] = IF k = 1 THEN 0 ELSE ts[k - 1][2]
    <2>1. CASE k <= Len(rs)
      <3>1. k \in 1 .. Len(rs) /\ (k # 1 => k - 1 \in 1 .. Len(rs)) BY <1>1, <1>4, <2>1
      <3>2. ts[k] = rs[k] /\ (k # 1 => ts[k - 1] = rs[k - 1]) BY <1>4, <3>1
      <3> QED BY <3>1, <3>2 DEF Meet
    <2>2. CASE k = Len(rs) + 1
      <3>1. ts[k][1] = EndOfAll(rs) BY <1>3, <1>4, <2>2
      <3>2. CASE k = 1
        <4>1. rs = <<>> BY <1>1, <2>2, <3>2
        <4> QED BY <3>1, <3>2, <4>1 DEF EndOfAll
      <3>3. CASE k # 1
        <4>1. k - 1 = Len(rs) /\ k - 1 \in 1 .. Len(rs) /\ rs # <<>> BY <1>1, <2>2, <3>3
        <4>2. ts[k - 1] = rs[Len(rs)] BY <1>4, <4>1
        <4> QED BY <3>1, <3>3, <4>1, <4>2 DEF EndOfAll
      <3> QED BY <3>2, <3>3
    <2> QED BY <1>1, <1>4, <2>1, <2>2
  <1>6. Meet(ts) BY <1>5 DEF Meet
  <1>7. EndOfAll(ts) = n BY <1>3, <1>4 DEF EndOfAll
  <1> QED BY <1>4, <1>6, <1>7 DEF ts, r

\* What Return does with a track the samples are given to.
LEMMA InsertHolds ==
  ASSUME NEW i, NEW n, i \in ToTrack, Kept(stream_map[i], i, n), stream_map[i].duration # -1
  PROVE  LET s == stream_map[i]
             t == Inserted(i)
         IN Kept(t, i, n) /\ t.duration = -1 /\ t.media = s.media /\ TrackTo(t) >= TrackTo(s)
              /\ TrackTo(t) = MediaDuration(s.media)
  <1> DEFINE s == stream_map[i]
             duration == MediaDuration(s.media)
             t == Inserted(i)
  <1>1. /\ DOMAIN t = DOMAIN s /\ t.media = s.media /\ t.duration = -1
        /\ t.lastSample = s.lastSample /\ t.lastdts = s.lastdts
        /\ t.regions = IF duration > s.duration THEN Append(s.regions, <<s.duration, duration>>) ELSE s.regions
    BY DEF Inserted, Kept, Fields, NewStream
  <1>2. /\ s.media \in Seq(Sample) /\ s.regions \in Seq(Nat \X Nat) /\ s.duration \in Nat /\ Meet(s.regions)
        /\ EndOfAll(s.regions) = s.duration /\ s.duration <= duration
    BY DEF Kept, Holds, TrackTo
  <1>3. duration \in Nat BY <1>2, DurationIsNat
  <1> HIDE DEF t, duration
  <1>4. CASE duration > s.duration
    <2>1. t.regions = Append(s.regions, <<EndOfAll(s.regions), duration>>) BY <1>1, <1>2, <1>4
    <2>2. t.regions \in Seq(Nat \X Nat) /\ Meet(t.regions) /\ EndOfAll(t.regions) = duration
      BY <1>2, <1>3, <2>1, MeetAppended
    <2>3. Holds(t) BY <1>1, <1>2, <2>2 DEF Holds, TrackTo, duration
    <2> QED BY <1>1, <1>2, <1>3, <1>4, <2>2, <2>3 DEF Kept, Fields, Waits, TrackTo, duration, t
  <1>5. CASE ~(duration > s.duration)
    <2>1. duration = s.duration /\ t.regions = s.regions BY <1>1, <1>2, <1>3, <1>5
    <2>2. TrackTo(t) = TrackTo(s) BY <2>1 DEF TrackTo
    <2>3. TrackTo(t) = duration BY <1>2, <2>1 DEF TrackTo
    <2>4. Holds(t) BY <1>1, <1>2, <2>1, <2>3 DEF Holds, duration
    <2> QED BY <1>1, <1>2, <1>3, <2>1, <2>2, <2>3, <2>4 DEF Kept, Fields, Waits, duration, t
  <1> QED BY <1>4, <1>5

\* ConvertTimeScale keeps the order of times.
LEMMA ToMovieGrows ==
  ASSUME TypeInv, NEW i \in Streams, NEW a \in Nat, NEW b \in Nat, a <= b
  PROVE  ToMovie(i, a) \in Nat /\ ToMovie(i, a) <= ToMovie(i, b) /\ ToMovie(i, 0) = 0
  <1>1. MovieScale \in Nat /\ Stream(i).scale \in Nat \ {0} BY TimesAssumption DEF TypeInv, Stream, Streams
  <1>2. MovieScale * a \in Nat /\ MovieScale * b \in Nat /\ MovieScale * 0 = 0 BY <1>1
  <1>3. MovieScale * a <= MovieScale * b BY <1>1, Times
  <1>4. ASSUME NEW x \in Nat, NEW y \in Nat, NEW c \in Nat \ {0}, x <= y
        PROVE  x \div c \in Nat /\ x \div c <= y \div c /\ 0 \div c = 0
    BY <1>4
  <1> QED BY <1>1, <1>2, <1>3, <1>4 DEF ToMovie

LEMMA KeptTo ==
  ASSUME NEW s, NEW i, NEW n, Kept(s, i, n)
  PROVE  TrackTo(s) \in Nat
  BY DurationIsNat DEF Kept, Holds

\* Steps before there are streams, and those that leave them alone.
LEMMA AsideTracks ==
  ASSUME TracksInv, LoadedInv, UNCHANGED <<file, stream_map, next, loadedTime>>,
         \/ phase \in {"open", "prepare"} /\ phase' \in {"prepare", "failed", "done"}
         \/ UNCHANGED <<phase, hadIndex>>
  PROVE  TracksInv' /\ LoadedInv'
  <1>1. CASE phase \in {"open", "prepare"} /\ phase' \in {"prepare", "failed", "done"}
    <2>1. stream_map = <<>> /\ stream_map' = <<>> /\ loadedTime' = 0 BY <1>1 DEF TracksInv, LoadedInv
    <2>2. DOMAIN stream_map' = {} BY <2>1
    <2> QED BY <1>1, <2>1, <2>2 DEF TracksInv, LoadedInv, TrackHoldsMedia, Valid
  <1>2. CASE UNCHANGED <<phase, hadIndex>>
    <2>1. TrackHoldsMedia' = TrackHoldsMedia BY <1>2 DEF TrackHoldsMedia, Valid, TrackEnd
    <2> QED BY <1>2, <2>1 DEF TracksInv, LoadedInv, Kept, Waits, ToMovie, Stream
  <1> QED BY <1>1, <1>2

LEMMA PrepareTracks == ASSUME BehindInv, TracksInv, LoadedInv, PrepareMovie PROVE TracksInv' /\ LoadedInv'
  <1>1. PICK valid \in [Streams -> BOOLEAN] : stream_map' = [i \in Streams |-> NewStream(valid[i])]
    BY DEF PrepareMovie
  <1>2. /\ phase' = "prepared" /\ loadedTime = 0
        /\ UNCHANGED <<file, next, loadedTime, hadIndex>>
    BY DEF PrepareMovie, LoadedInv, header
  <1>3. ASSUME NEW i \in DOMAIN stream_map'
        PROVE  /\ Kept(stream_map'[i], i, next) /\ TrackTo(stream_map'[i]) = 0 /\ stream_map'[i].duration = -1
               /\ ToMovie(i, 0) = 0
    <2>1. i \in Streams /\ stream_map'[i] = NewStream(valid[i]) BY <1>1
    <2>2. ToMovie(i, 0) = 0 BY <2>1, ToMovieGrows DEF BehindInv
    <2> QED BY <2>1, <2>2, NewHolds DEF NewStream
  <1>4. TracksInv' BY <1>2, <1>3 DEF TracksInv, Kept, Waits
  <1>5. LoadedInv' BY <1>2, <1>3 DEF LoadedInv, ToMovie, Stream
  <1> QED BY <1>4, <1>5

LEMMA IndexTracks == ASSUME BehindInv, TracksInv, LoadedInv, ImportUsingIndex PROVE TracksInv' /\ LoadedInv'
  <1>1. phase' = "done" /\ hadIndex /\ UNCHANGED <<file, hadIndex>> BY DEF ImportUsingIndex, header
  <1>2. DOMAIN stream_map' = Streams /\ IsMap(stream_map) BY DEF ImportUsingIndex, BehindInv, MapInv, Prepared
  <1>3. ASSUME NEW i \in Valid'
        PROVE  /\ stream_map'[i].regions = << <<0, MediaDuration(stream_map'[i].media)>> >>
               /\ stream_map'[i].duration = -1
    <2>1. i \in Streams BY <1>2 DEF Valid
    <2>2. CASE ~stream_map[i].valid
      <3>1. stream_map'[i] = stream_map[i] BY <2>1, <2>2 DEF ImportUsingIndex
      <3> QED BY <2>2, <3>1 DEF Valid
    <2>3. CASE stream_map[i].valid
      <3>1. Kept(stream_map[i], i, next) /\ stream_map[i].duration = -1
        BY <1>1, <1>2, <2>1, <2>3 DEF TracksInv, IsMap, ImportUsingIndex
      <3>2. stream_map'[i] =
              [stream_map[i] EXCEPT !.media = IndexMedia(i), !.offset = StartDelay(i),
                                    !.regions = << <<0, MediaDuration(IndexMedia(i))>> >>]
        BY <2>1, <2>3 DEF ImportUsingIndex
      <3> QED BY <3>1, <3>2 DEF Kept, Fields, NewStream
    <2> QED BY <1>2, <2>1, <2>2, <2>3 DEF IsMap
  <1>4. TrackHoldsMedia'
    <2> SUFFICES ASSUME NEW i \in Valid'
                 PROVE  LET s == stream_map'[i]
                            duration == MediaDuration(s.media)
                        IN /\ \A k \in DOMAIN s.regions :
                                s.regions[k][1] = IF k = 1 THEN 0 ELSE s.regions[k - 1][2]
                           /\ IF s.duration = -1 THEN TrackEnd(i)' = duration
                              ELSE TrackEnd(i)' = s.duration /\ s.duration <= duration
      BY DEF TrackHoldsMedia
    <2>1. TrackEnd(i)' = MediaDuration(stream_map'[i].media) BY <1>3 DEF TrackEnd, Last
    <2> QED BY <1>3, <2>1
  <1> QED BY <1>1, <1>4 DEF TracksInv, LoadedInv

\* A call begins.
LEMMA BeginTracks ==
  ASSUME BehindInv, TracksInv, LoadedInv, ImportWithIdle \/ \E now \in MovieTimes : Idle(now)
  PROVE  TracksInv' /\ LoadedInv'
  <1> DEFINE Noted(s) == [s EXCEPT !.duration = IF @ = -1 THEN MediaDuration(s.media) ELSE @]
  <1>1. /\ phase \in {"prepared", "idle"} /\ phase' = "reading" /\ ~hadIndex
        /\ UNCHANGED <<file, next, loadedTime, hadIndex>>
        /\ stream_map' = [i \in Streams |-> Noted(stream_map[i])]
    BY DEF ImportWithIdle, Idle, Begin, TracksInv, header
  <1> HIDE DEF Noted
  <1>2. DOMAIN stream_map = Streams /\ DOMAIN stream_map' = Streams
    BY <1>1 DEF BehindInv, MapInv, Prepared, IsMap
  <1>3. \A i \in Streams : stream_map[i].valid \in BOOLEAN /\ "valid" \in DOMAIN stream_map[i]
    BY <1>1 DEF BehindInv, MapInv, Prepared, IsMap
  <1>4. ASSUME NEW i \in Streams, stream_map'[i].valid
        PROVE  /\ stream_map[i].valid
               /\ Kept(stream_map'[i], i, next) /\ stream_map'[i].duration # -1
               /\ TrackTo(stream_map'[i]) = TrackTo(stream_map[i])
    <2>1. stream_map'[i] = Noted(stream_map[i]) BY <1>1
    <2>2. stream_map[i].valid BY <1>3, <1>4, <2>1 DEF Noted
    <2>3. Kept(stream_map[i], i, next) BY <1>1, <1>2, <2>2 DEF TracksInv
    <2> QED BY <2>1, <2>2, <2>3, BeginHolds DEF Noted
  <1>5. TracksInv' BY <1>1, <1>2, <1>4 DEF TracksInv, Kept, Waits
  <1>6. LoadedInv' BY <1>1, <1>2, <1>4 DEF LoadedInv, ToMovie, Stream
  <1> QED BY <1>5, <1>6

\* A packet.
LEMMA ReadTracks == ASSUME BehindInv, TracksInv, LoadedInv, ReadFrame PROVE TracksInv' /\ LoadedInv'
  <1> DEFINE p == file.packets[next]
  <1>1. /\ phase = "reading" /\ phase' \in {"reading", "returning"} /\ ~hadIndex
        /\ UNCHANGED <<file, loadedTime, hadIndex>> /\ next' = next + 1 /\ next \in Nat \ {0}
    BY DEF ReadFrame, TracksInv, BehindInv, TypeInv, header
  <1>2. TypeInv /\ IsMap(stream_map) BY <1>1 DEF BehindInv, MapInv, Prepared
  <1>3. next \in DOMAIN file.packets
    <2>1. file.packets = [k \in 1 .. Len(file.packets) |-> file.packets[k]] /\ Len(file.packets) \in Nat
      BY <1>2, ImportAssumption DEF TypeInv
    <2>2. DOMAIN file.packets = 1 .. Len(file.packets) BY <2>1
    <2> QED BY <1>1, <2>2 DEF ReadFrame
  <1>4. p.stream \in Streams /\ p.size \in Nat /\ p.pos \in Int BY <1>2, <1>3, PacketOf
  <1>5. ASSUME NEW i \in Streams, stream_map[i].valid
        PROVE  Kept(stream_map[i], i, next) /\ stream_map[i].duration # -1
    BY <1>1, <1>2, <1>5 DEF TracksInv, IsMap
  <1>6. CASE stream_map' = stream_map /\ ~(stream_map[p.stream].valid /\ HasSample(p))
    <2>1. ASSUME NEW i \in Streams, stream_map[i].valid PROVE Kept(stream_map[i], i, next + 1)
      <3>1. \A k \in DOMAIN file.packets : k \in Nat /\ (k >= next + 1 => k >= next) BY <1>1, <1>3, PacketOf
      <3> QED BY <1>5, <2>1, <3>1 DEF Kept, Waits
    <2>2. TracksInv' BY <1>1, <1>2, <1>5, <1>6, <2>1 DEF TracksInv, Kept, Waits, IsMap, Streams
    <2>3. LoadedInv' BY <1>1, <1>6 DEF LoadedInv, ToMovie, Stream
    <2> QED BY <2>2, <2>3
  <1>7. CASE /\ stream_map' = [stream_map EXCEPT ![p.stream] = AddPacket(@, p)]
             /\ stream_map[p.stream].valid /\ HasSample(p)
    <2>1. /\ Kept(AddPacket(stream_map[p.stream], p), p.stream, next + 1)
          /\ AddPacket(stream_map[p.stream], p).duration # -1
          /\ TrackTo(AddPacket(stream_map[p.stream], p)) = TrackTo(stream_map[p.stream])
      BY <1>2, <1>3, <1>4, <1>5, <1>7, AddPacketHolds
    <2>2. DOMAIN stream_map' = Streams BY <1>2, <1>7 DEF IsMap
    <2>3. ASSUME NEW i \in Streams, stream_map'[i].valid
          PROVE  /\ stream_map[i].valid
                 /\ Kept(stream_map'[i], i, next + 1) /\ stream_map'[i].duration # -1
                 /\ TrackTo(stream_map'[i]) = TrackTo(stream_map[i])
      <3>1. CASE i = p.stream
        <4>1. stream_map'[i] = AddPacket(stream_map[i], p) BY <1>2, <1>7, <3>1 DEF IsMap
        <4> QED BY <1>7, <2>1, <3>1, <4>1
      <3>2. CASE i # p.stream
        <4>1. stream_map'[i] = stream_map[i] BY <1>2, <1>7, <3>2 DEF IsMap
        <4>2. \A k \in DOMAIN file.packets : k \in Nat /\ (k >= next + 1 => k >= next) BY <1>1, <1>3, PacketOf
        <4>3. Kept(stream_map[i], i, next) /\ stream_map[i].duration # -1 BY <1>5, <2>3, <4>1
        <4>4. Kept(stream_map[i], i, next + 1) BY <4>2, <4>3 DEF Kept, Waits
        <4> QED BY <2>3, <4>1, <4>3, <4>4
      <3> QED BY <3>1, <3>2
    <2>4. TracksInv' BY <1>1, <2>2, <2>3 DEF TracksInv, Kept, Waits
    <2>5. LoadedInv' BY <1>1, <1>2, <2>2, <2>3 DEF LoadedInv, ToMovie, Stream, IsMap
    <2> QED BY <2>4, <2>5
  <1>8. \/ stream_map' = stream_map /\ ~(stream_map[p.stream].valid /\ HasSample(p))
        \/ /\ stream_map' = [stream_map EXCEPT ![p.stream] = AddPacket(@, p)]
           /\ stream_map[p.stream].valid /\ HasSample(p)
    BY <1>4 DEF ReadFrame, HasSample
  <1> QED BY <1>6, <1>7, <1>8

\* The end of the file.
LEMMA ReadEndsTracks == ASSUME BehindInv, TracksInv, LoadedInv, ReadEnds PROVE TracksInv' /\ LoadedInv'
  <1>1. /\ phase = "reading" /\ phase' = "returning" /\ ~hadIndex
        /\ UNCHANGED <<file, loadedTime, hadIndex, next>>
    BY DEF ReadEnds, TracksInv, header
  <1>2. TypeInv /\ IsMap(stream_map) BY <1>1 DEF BehindInv, MapInv, Prepared
  <1>3. DOMAIN stream_map' = Streams BY DEF ReadEnds
  <1>4. ASSUME NEW i \in Streams, stream_map'[i].valid
        PROVE  /\ stream_map[i].valid
               /\ Kept(stream_map'[i], i, next) /\ stream_map'[i].duration # -1
               /\ TrackTo(stream_map'[i]) = TrackTo(stream_map[i])
    <2> DEFINE s == stream_map[i]
               t == [s EXCEPT !.media = IF s.lastSample.count > 0 THEN Append(@, s.lastSample) ELSE @]
    <2>1. stream_map'[i] = t BY DEF ReadEnds
    <2>2. s.valid BY <1>2, <1>4, <2>1 DEF IsMap
    <2>3. Kept(s, i, next) /\ s.duration # -1 BY <1>1, <1>2, <2>2 DEF TracksInv, IsMap
    <2>4. CASE s.lastSample.count > 0
      <3> DEFINE u == [s EXCEPT !.media = Append(@, s.lastSample)]
      <3>1. t = u BY <2>3, <2>4 DEF Kept, Fields, NewStream
      <3>2. Fields(u) /\ Holds(u) /\ u.duration # -1 /\ TrackTo(u) = TrackTo(s)
        BY <2>3, AppendHolds DEF Kept, Waits
      <3>3. u.lastSample = s.lastSample /\ u.lastdts = s.lastdts BY <2>3 DEF Kept, Fields, NewStream
      <3> HIDE DEF t, u
      <3>4. Kept(u, i, next) BY <2>3, <3>2, <3>3 DEF Kept, Waits
      <3> QED BY <2>1, <2>2, <3>1, <3>2, <3>4
    <2>5. CASE ~(s.lastSample.count > 0)
      <3>1. /\ DOMAIN t = DOMAIN s /\ t.media = s.media /\ t.regions = s.regions /\ t.duration = s.duration
            /\ t.lastSample = s.lastSample /\ t.lastdts = s.lastdts
        BY <2>3, <2>5 DEF Kept, Fields, NewStream
      <3> HIDE DEF t
      <3>2. Fields(t) /\ Holds(t) /\ TrackTo(t) = TrackTo(s) BY <2>3, <3>1, SameHolds DEF Kept
      <3>3. Kept(t, i, next) BY <2>3, <3>1, <3>2 DEF Kept, Waits
      <3> QED BY <2>1, <2>2, <2>3, <3>1, <3>2, <3>3
    <2> QED BY <2>4, <2>5
  <1>5. TracksInv' BY <1>1, <1>3, <1>4 DEF TracksInv, Kept, Waits
  <1>6. LoadedInv' BY <1>1, <1>2, <1>3, <1>4 DEF LoadedInv, ToMovie, Stream, IsMap
  <1> QED BY <1>5, <1>6

\* The least of a set of times.
LEMMA MinOf ==
  ASSUME NEW T \in SUBSET Nat, T # {}
  PROVE  Min(T) \in T /\ \A y \in T : Min(T) <= y
  <1>1. \E x \in T : \A y \in T : x <= y BY LeastOf
  <1> QED BY <1>1 DEF Min

\* The end of a call.
LEMMA ReturnTracks == ASSUME BehindInv, TracksInv, LoadedInv, Return PROVE TracksInv' /\ LoadedInv'
  <1>1. /\ phase = "returning" /\ phase' \in {"done", "idle"} /\ ~hadIndex
        /\ UNCHANGED <<file, hadIndex, next>>
        /\ stream_map' = [i \in Streams |-> Inserted(i)]
        /\ loadedTime' = IF Shortest > 0 THEN Shortest ELSE loadedTime
    BY DEF Return, TracksInv, header
  <1>2. TypeInv /\ IsMap(stream_map) BY <1>1 DEF BehindInv, MapInv, Prepared
  <1>3. DOMAIN stream_map' = Streams BY <1>1
  <1>4. ASSUME NEW i \in Streams, stream_map[i].valid
        PROVE  Kept(stream_map[i], i, next) /\ stream_map[i].duration # -1
    BY <1>1, <1>2, <1>4 DEF TracksInv, IsMap
  <1>5. ASSUME NEW i \in Streams, stream_map'[i].valid
        PROVE  /\ stream_map[i].valid /\ Kept(stream_map'[i], i, next)
               /\ TrackTo(stream_map'[i]) >= TrackTo(stream_map[i])
               /\ i \in ToTrack => TrackTo(stream_map'[i]) = MediaDuration(stream_map[i].media)
    <2>1. stream_map'[i] = Inserted(i) BY <1>1
    <2>2. CASE i \in ToTrack
      <3>1. stream_map[i].valid BY <2>2 DEF ToTrack
      <3> QED BY <1>4, <2>1, <2>2, <3>1, InsertHolds
    <2>3. CASE i \notin ToTrack
      <3>1. stream_map'[i] = stream_map[i] BY <2>1, <2>3 DEF Inserted
      <3>2. TrackTo(stream_map[i]) \in Nat BY <1>4, <1>5, <3>1, KeptTo
      <3> QED BY <1>4, <1>5, <2>3, <3>1, <3>2
    <2> QED BY <2>2, <2>3
  <1>6. TracksInv' BY <1>1, <1>3, <1>5 DEF TracksInv, Kept, Waits
  <1>7. ASSUME NEW i \in Streams, stream_map'[i].valid
        PROVE  loadedTime \in Int /\ loadedTime <= ToMovie(i, TrackTo(stream_map'[i]))
    <2>1. TrackTo(stream_map[i]) \in Nat /\ TrackTo(stream_map'[i]) \in Nat
      BY <1>4, <1>5, <1>7, KeptTo
    <2>2. ToMovie(i, TrackTo(stream_map[i])) <= ToMovie(i, TrackTo(stream_map'[i]))
            /\ ToMovie(i, TrackTo(stream_map[i])) \in Nat /\ ToMovie(i, TrackTo(stream_map'[i])) \in Nat
      BY <1>2, <1>5, <1>7, <2>1, ToMovieGrows
    <2>3. loadedTime \in Int /\ loadedTime <= ToMovie(i, TrackTo(stream_map[i]))
      BY <1>1, <1>2, <1>5, <1>7 DEF LoadedInv, IsMap
    <2> QED BY <2>2, <2>3
  <1>8. CASE ~(Shortest > 0)
    <2>1. loadedTime' = loadedTime BY <1>1, <1>8
    <2>2. loadedTime \in Int BY <1>1 DEF LoadedInv
    <2> QED BY <1>1, <1>3, <1>6, <1>7, <2>1, <2>2 DEF LoadedInv, ToMovie, Stream
  <1>9. CASE Shortest > 0
    <2> DEFINE Ends == {ToMovie(i, MediaDuration(stream_map[i].media)) : i \in ToTrack}
    <2>1. ToTrack # {} /\ Shortest = Min(Ends) BY <1>9 DEF Shortest
    <2>2. ASSUME NEW i \in ToTrack PROVE ToMovie(i, MediaDuration(stream_map[i].media)) \in Nat
      <3>1. i \in Streams /\ stream_map[i].valid BY DEF ToTrack
      <3>2. MediaDuration(stream_map[i].media) \in Nat BY <1>4, <3>1, DurationIsNat DEF Kept, Holds
      <3> QED BY <1>2, <3>1, <3>2, ToMovieGrows
    <2>3. Ends \subseteq Nat /\ Ends # {} BY <2>1, <2>2
    <2>4. Min(Ends) \in Nat /\ \A y \in Ends : Min(Ends) <= y BY <2>3, MinOf
    <2>5. \A i \in Streams : stream_map[i].valid => i \in ToTrack BY <2>1 DEF ToTrack
    <2>6. ASSUME NEW i \in Streams, stream_map'[i].valid
          PROVE  Shortest <= ToMovie(i, TrackTo(stream_map'[i]))
      <3>1. i \in ToTrack BY <1>5, <2>5, <2>6
      <3>2. TrackTo(stream_map'[i]) = MediaDuration(stream_map[i].media) BY <1>5, <2>6, <3>1
      <3> QED BY <2>1, <2>4, <3>1, <3>2
    <2>7. loadedTime' = Shortest /\ loadedTime' \in Nat BY <1>1, <1>9, <2>1, <2>4
    <2>8. \A i \in Streams : stream_map'[i].valid => loadedTime' <= ToMovie(i, TrackTo(stream_map'[i]))
      BY <2>6, <2>7
    <2>9. phase' \in {"done", "idle"} /\ file' = file BY <1>1
    <2>10. loadedTime' \in Int BY <2>7
    <2> HIDE DEF Ends
    <2> QED BY <1>3, <1>6, <2>8, <2>9, <2>10 DEF LoadedInv, ToMovie, Stream
  <1> QED BY <1>6, <1>8, <1>9

LEMMA TracksInit == Init => TracksInv /\ LoadedInv
  <1> SUFFICES ASSUME Init PROVE TracksInv /\ LoadedInv OBVIOUS
  <1>1. phase = "open" /\ stream_map = <<>> /\ loadedTime = 0 /\ ~hadIndex BY DEF Init
  <1>2. DOMAIN stream_map = {} BY <1>1
  <1> QED BY <1>1, <1>2 DEF TracksInv, LoadedInv

\* A track as the module writes it.
LEMMA TrackEndIs ==
  ASSUME NEW i, Kept(stream_map[i], i, next)
  PROVE  TrackEnd(i) = TrackTo(stream_map[i]) /\ DOMAIN stream_map[i].regions = 1 .. Len(stream_map[i].regions)
  BY DEF TrackEnd, TrackTo, EndOfAll, Last, Kept, Holds

LEMMA TracksHold == ASSUME TracksInv PROVE TrackHoldsMedia
  <1> SUFFICES ASSUME ~(hadIndex /\ phase = "done") PROVE TrackHoldsMedia BY DEF TracksInv
  <1>1. ASSUME NEW i \in Valid PROVE Kept(stream_map[i], i, next) BY DEF TracksInv, Valid
  <1> QED BY <1>1, TrackEndIs DEF TrackHoldsMedia, Kept, Holds, Meet

\* An index that is not used.
LEMMA SkipTracks == ASSUME TracksInv, LoadedInv, SkipIndex PROVE TracksInv' /\ LoadedInv'
  <1>1. phase' = "done" /\ hadIndex /\ UNCHANGED <<hadIndex, file, stream_map>>
    BY DEF SkipIndex, Ended, header
  <1>2. TrackHoldsMedia BY TracksHold
  <1>3. TrackHoldsMedia' BY <1>1, <1>2 DEF TrackHoldsMedia, Valid, TrackEnd, Last
  <1> QED BY <1>1, <1>3 DEF TracksInv, LoadedInv

LEMMA TracksNext == BehindInv /\ TracksInv /\ LoadedInv /\ [Next]_vars => TracksInv' /\ LoadedInv'
  <1> SUFFICES ASSUME BehindInv, TracksInv, LoadedInv, [Next]_vars PROVE TracksInv' /\ LoadedInv' OBVIOUS
  <1>1. CASE ImportFails BY <1>1, AsideTracks DEF ImportFails, Ended, header
  <1>2. CASE WrongStreams BY <1>2, AsideTracks DEF WrongStreams, Ended, header
  <1>3. CASE DetermineHeaderOffset BY <1>3, AsideTracks DEF DetermineHeaderOffset
  <1>4. CASE DataArrives BY <1>4, AsideTracks DEF DataArrives, header
  <1>5. CASE UNCHANGED vars BY <1>5, AsideTracks DEF vars, header
  <1>6. CASE PrepareMovie BY <1>6, PrepareTracks
  <1>7. CASE ImportUsingIndex BY <1>7, IndexTracks
  <1>8. CASE ImportWithIdle \/ \E now \in MovieTimes : Idle(now) BY <1>8, BeginTracks
  <1>9. CASE ReadFrame BY <1>9, ReadTracks
  <1>10. CASE ReadEnds BY <1>10, ReadEndsTracks
  <1>11. CASE Return BY <1>11, ReturnTracks
  <1>12. CASE SkipIndex BY <1>12, SkipTracks
  <1> QED BY <1>1, <1>2, <1>3, <1>4, <1>5, <1>6, <1>7, <1>8, <1>9, <1>10, <1>11, <1>12 DEF Next

LEMMA TracksAlways == Spec => []TracksInv /\ []LoadedInv
  <1>1. Init => BehindInv /\ TracksInv /\ LoadedInv BY BehindInit, TracksInit
  <1>2. BehindInv /\ TracksInv /\ LoadedInv /\ [Next]_vars => (BehindInv /\ TracksInv /\ LoadedInv)'
    BY BehindNext, TracksNext
  <1> QED BY <1>1, <1>2, PTL DEF Spec

(* For all files and all calls of import_with_idle: the regions that        *)
(* InsertMediaIntoTrack makes of a track meet, and they end where the media *)
(* does, or did when its duration was last noted.                           *)
THEOREM TrackAlwaysHoldsMedia == Spec => []TrackHoldsMedia
  <1>1. TracksInv => TrackHoldsMedia BY TracksHold
  <1> QED BY <1>1, TracksAlways, PTL

(* What GetMaxLoadedTime answers never goes beyond the end of a track that  *)
(* is filled packet by packet, so playing up to it shows no gap.            *)
THEOREM LoadedAlwaysThere == Spec => []LoadedIsThere
  <1>1. TracksInv /\ LoadedInv => LoadedIsThere
    <2> SUFFICES ASSUME TracksInv, LoadedInv, ~hadIndex, NEW i \in Valid
                 PROVE  loadedTime <= ToMovie(i, TrackEnd(i))
      BY DEF LoadedIsThere
    <2>1. Kept(stream_map[i], i, next) BY DEF TracksInv, Valid
    <2>2. TrackEnd(i) = TrackTo(stream_map[i]) BY <2>1, TrackEndIs
    <2> QED BY <2>2 DEF LoadedInv, Valid
  <1> QED BY <1>1, TracksAlways, PTL

-----------------------------------------------------------------------------
(* The members of a sequence at some places. *)

\* g[k] is what is picked of the first k members.
PickedTo(g, s, places, n) ==
  g = [k \in 0 .. n |->
         IF k = 0 THEN <<>> ELSE IF k \in places THEN Append(g[k - 1], s[k]) ELSE g[k - 1]]

LEMMA PickedToExists == ASSUME NEW s, NEW places, NEW n \in Nat PROVE \E g : PickedTo(g, s, places, n)
  <1> DEFINE S == {k \in Nat : \E g : PickedTo(g, s, places, k)}
  <1>1. 0 \in S
    <2>1. PickedTo([i \in 0 .. 0 |-> <<>>], s, places, 0) BY DEF PickedTo
    <2> QED BY <2>1
  <1>2. ASSUME NEW k \in Nat, k \in S PROVE k + 1 \in S
    <2>1. PICK g : PickedTo(g, s, places, k) BY <1>2
    <2> DEFINE last == IF k + 1 \in places THEN Append(g[k], s[k + 1]) ELSE g[k]
               h == [i \in 0 .. k + 1 |-> IF i = k + 1 THEN last ELSE g[i]]
    <2>2. \A i \in 0 .. k :
            g[i] = IF i = 0 THEN <<>> ELSE IF i \in places THEN Append(g[i - 1], s[i]) ELSE g[i - 1]
      BY <2>1 DEF PickedTo
    <2>3. \A i \in 0 .. k + 1 :
            h[i] = IF i = 0 THEN <<>> ELSE IF i \in places THEN Append(h[i - 1], s[i]) ELSE h[i - 1]
      BY <2>2
    <2>4. PickedTo(h, s, places, k + 1) BY <2>3 DEF PickedTo
    <2> QED BY <2>4
  <1> HIDE DEF S
  <1>3. Nat \subseteq S BY <1>1, <1>2, Inductive
  <1> QED BY <1>3 DEF S

LEMMA PickedIs ==
  ASSUME NEW s, NEW places, Len(s) \in Nat
  PROVE  \E g : PickedTo(g, s, places, Len(s)) /\ Picked(s, places) = g[Len(s)]
  <1>1. \E g : PickedTo(g, s, places, Len(s)) BY PickedToExists
  <1>2. PickedTo(CHOOSE g : PickedTo(g, s, places, Len(s)), s, places, Len(s)) BY <1>1
  <1> QED BY <1>2 DEF Picked, PickedTo

\* Of two sequences that begin alike the same is picked.
LEMMA PickedToAgree ==
  ASSUME NEW a, NEW b, NEW A, NEW B, NEW m \in Nat, NEW n \in Nat, m <= n,
         NEW g, NEW h, PickedTo(g, a, A, m), PickedTo(h, b, B, n),
         \A k \in 1 .. m : a[k] = b[k] /\ (k \in A <=> k \in B)
  PROVE  g[m] = h[m]
  <1> DEFINE S == {k \in Nat : k <= m => g[k] = h[k]}
  <1>0. /\ \A i \in 0 .. m : g[i] = IF i = 0 THEN <<>> ELSE IF i \in A THEN Append(g[i - 1], a[i]) ELSE g[i - 1]
        /\ \A i \in 0 .. n : h[i] = IF i = 0 THEN <<>> ELSE IF i \in B THEN Append(h[i - 1], b[i]) ELSE h[i - 1]
    BY DEF PickedTo
  <1>1. 0 \in S
    <2>1. 0 \in 0 .. m /\ 0 \in 0 .. n OBVIOUS
    <2>2. g[0] = <<>> /\ h[0] = <<>> BY <1>0, <2>1
    <2> QED BY <2>2
  <1>2. ASSUME NEW k \in Nat, k \in S PROVE k + 1 \in S
    <2> SUFFICES ASSUME k + 1 <= m PROVE g[k + 1] = h[k + 1] OBVIOUS
    <2>1. k + 1 \in 0 .. m /\ k + 1 \in 0 .. n /\ k + 1 # 0 /\ (k + 1) - 1 = k /\ k + 1 \in 1 .. m OBVIOUS
    <2>2. g[k + 1] = IF k + 1 \in A THEN Append(g[k], a[k + 1]) ELSE g[k] BY <1>0, <2>1
    <2>3. h[k + 1] = IF k + 1 \in B THEN Append(h[k], b[k + 1]) ELSE h[k] BY <1>0, <2>1
    <2>4. a[k + 1] = b[k + 1] /\ (k + 1 \in A <=> k + 1 \in B) /\ g[k] = h[k] BY <1>2, <2>1
    <2> QED BY <2>2, <2>3, <2>4
  <1> HIDE DEF S
  <1>3. Nat \subseteq S BY <1>1, <1>2, Inductive
  <1> QED BY <1>3 DEF S

LEMMA NothingPicked == ASSUME NEW places PROVE Picked(<<>>, places) = <<>>
  <1>1. PICK g : PickedTo(g, <<>>, places, 0) /\ Picked(<<>>, places) = g[0] BY PickedIs
  <1> QED BY <1>1 DEF PickedTo

\* What a member more adds, for sequences a and b that begin alike.
LEMMA PickedGrows ==
  ASSUME NEW a, NEW b, NEW A, NEW B, NEW n \in Nat, Len(a) = n, Len(b) = n + 1,
         \A k \in 1 .. n : a[k] = b[k] /\ (k \in A <=> k \in B)
  PROVE  Picked(b, B) = IF n + 1 \in B THEN Append(Picked(a, A), b[n + 1]) ELSE Picked(a, A)
  <1>1. PICK g : PickedTo(g, a, A, n) /\ Picked(a, A) = g[n] BY PickedIs
  <1>2. Len(b) \in Nat OBVIOUS
  <1>3. PICK h : PickedTo(h, b, B, n + 1) /\ Picked(b, B) = h[n + 1] BY <1>2, PickedIs
  <1>4. n + 1 \in Nat /\ n <= n + 1 OBVIOUS
  <1>5. g[n] = h[n] BY <1>1, <1>3, <1>4, PickedToAgree
  <1>6. h[n + 1] = IF n + 1 \in B THEN Append(h[n], b[n + 1]) ELSE h[n]
    <2>1. n + 1 \in 0 .. n + 1 /\ n + 1 # 0 /\ (n + 1) - 1 = n OBVIOUS
    <2>2. h = [k \in 0 .. n + 1 |->
                 IF k = 0 THEN <<>> ELSE IF k \in B THEN Append(h[k - 1], b[k]) ELSE h[k - 1]]
      BY <1>3 DEF PickedTo
    <2>3. h[n + 1] = IF n + 1 = 0 THEN <<>>
                     ELSE IF n + 1 \in B THEN Append(h[(n + 1) - 1], b[n + 1]) ELSE h[(n + 1) - 1]
      BY <2>1, <2>2
    <2> QED BY <2>1, <2>3
  <1> QED BY <1>1, <1>3, <1>5, <1>6

\* The first members of a sequence, and one more.
LEMMA Prefix ==
  ASSUME NEW S, NEW s \in Seq(S), NEW n \in 0 .. Len(s)
  PROVE  /\ SubSeq(s, 1, n) \in Seq(S) /\ Len(SubSeq(s, 1, n)) = n
         /\ \A k \in 1 .. n : SubSeq(s, 1, n)[k] = s[k]
  BY SubSeqProperties

LEMMA PrefixAppend ==
  ASSUME NEW S, NEW s \in Seq(S), NEW n \in Nat, n < Len(s)
  PROVE  SubSeq(s, 1, n + 1) = Append(SubSeq(s, 1, n), s[n + 1])
  <1> DEFINE a == SubSeq(s, 1, n)
             b == SubSeq(s, 1, n + 1)
  <1>1. n \in 0 .. Len(s) /\ n + 1 \in 0 .. Len(s) /\ s[n + 1] \in S OBVIOUS
  <1>2. a \in Seq(S) /\ Len(a) = n /\ \A k \in 1 .. n : a[k] = s[k] BY <1>1, Prefix
  <1>3. b \in Seq(S) /\ Len(b) = n + 1 /\ \A k \in 1 .. n + 1 : b[k] = s[k] BY <1>1, Prefix
  <1> HIDE DEF a, b
  <1> DEFINE c == Append(a, s[n + 1])
  <1>4. c \in Seq(S) /\ Len(c) = n + 1 /\ c[n + 1] = s[n + 1] /\ \A k \in 1 .. n : c[k] = s[k]
    BY <1>1, <1>2
  <1> HIDE DEF c
  <1>5. \A k \in 1 .. n + 1 : b[k] = c[k]
    <2> TAKE k \in 1 .. n + 1
    <2>1. k = n + 1 \/ k \in 1 .. n OBVIOUS
    <2> QED BY <1>3, <1>4, <2>1
  <1>6. b = c BY <1>3, <1>4, <1>5, SeqEqual
  <1> QED BY <1>6 DEF a, b, c

\* What is picked of the first members of a sequence, and of one more.
LEMMA PrefixGrows ==
  ASSUME NEW S, NEW s \in Seq(S), NEW places, NEW n \in 0 .. Len(s) - 1
  PROVE  Picked(SubSeq(s, 1, n + 1), places) =
           IF n + 1 \in places THEN Append(Picked(SubSeq(s, 1, n), places), s[n + 1])
           ELSE Picked(SubSeq(s, 1, n), places)
  <1> DEFINE a == SubSeq(s, 1, n)
             b == SubSeq(s, 1, n + 1)
  <1>1. n \in 0 .. Len(s) /\ n + 1 \in 0 .. Len(s) /\ n \in Nat OBVIOUS
  <1>2. Len(a) = n /\ \A k \in 1 .. n : a[k] = s[k] BY <1>1, Prefix
  <1>3. Len(b) = n + 1 /\ \A k \in 1 .. n + 1 : b[k] = s[k] BY <1>1, Prefix
  <1> HIDE DEF a, b
  <1>4. \A k \in 1 .. n : a[k] = b[k] BY <1>1, <1>2, <1>3
  <1>5. Picked(b, places) = IF n + 1 \in places THEN Append(Picked(a, places), b[n + 1]) ELSE Picked(a, places)
    BY <1>1, <1>2, <1>3, <1>4, PickedGrows
  <1>6. b[n + 1] = s[n + 1] BY <1>1, <1>3
  <1> QED BY <1>5, <1>6 DEF a, b

LEMMA AppendIs ==
  ASSUME NEW S, NEW t \in Seq(S), NEW e \in S
  PROVE  /\ Append(t, e) \in Seq(S) /\ Len(Append(t, e)) = Len(t) + 1 /\ Append(t, e)[Len(t) + 1] = e
         /\ \A j \in 1 .. Len(t) : Append(t, e)[j] = t[j]
  OBVIOUS

\* What is picked comes from the places, and every place is picked.
LEMMA PickedFrom ==
  ASSUME NEW S, NEW s \in Seq(S), NEW places
  PROVE  /\ Picked(s, places) \in Seq(S)
         /\ \A k \in 1 .. Len(s) : k \in places => \E j \in 1 .. Len(Picked(s, places)) : Picked(s, places)[j] = s[k]
         /\ \A j \in 1 .. Len(Picked(s, places)) : \E k \in 1 .. Len(s) : k \in places /\ Picked(s, places)[j] = s[k]
  <1> DEFINE Of(n) == Picked(SubSeq(s, 1, n), places)
             From(n) == /\ Of(n) \in Seq(S)
                        /\ \A k \in 1 .. n : k \in places => \E j \in 1 .. Len(Of(n)) : Of(n)[j] = s[k]
                        /\ \A j \in 1 .. Len(Of(n)) : \E k \in 1 .. n : k \in places /\ Of(n)[j] = s[k]
             T == {n \in Nat : n <= Len(s) => From(n)}
  <1>1. 0 \in T
    <2>1. SubSeq(s, 1, 0) = <<>> BY SubSeqEmpty
    <2>2. Of(0) = <<>> BY <2>1, NothingPicked
    <2> HIDE DEF Of
    <2>3. Len(Of(0)) = 0 /\ Of(0) \in Seq(S)
      <3>1. Len(<<>>) = 0 /\ <<>> \in Seq(S) OBVIOUS
      <3> QED BY <2>2, <3>1, Zenon
    <2>4. From(0) BY <2>3
    <2> HIDE DEF From
    <2> QED BY <2>4
  <1>2. ASSUME NEW n \in Nat, n \in T PROVE n + 1 \in T
    <2> SUFFICES ASSUME n + 1 <= Len(s) PROVE From(n + 1) OBVIOUS
    <2>1. n \in 0 .. Len(s) - 1 /\ n + 1 \in 1 .. Len(s) /\ From(n) BY <1>2
    <2>2. s[n + 1] \in S BY <2>1
    <2>3. Of(n + 1) = IF n + 1 \in places THEN Append(Of(n), s[n + 1]) ELSE Of(n) BY <2>1, PrefixGrows
    <2> HIDE DEF Of
    <2>4. CASE n + 1 \notin places
      <3>1. Of(n + 1) = Of(n) BY <2>3, <2>4
      <3>2. \A k \in 1 .. n + 1 : k \in places => k \in 1 .. n BY <2>1, <2>4
      <3> QED BY <2>1, <3>1, <3>2
    <2>5. CASE n + 1 \in places
      <3>1. /\ Of(n + 1) \in Seq(S) /\ Len(Of(n + 1)) = Len(Of(n)) + 1 /\ Of(n + 1)[Len(Of(n)) + 1] = s[n + 1]
            /\ \A j \in 1 .. Len(Of(n)) : Of(n + 1)[j] = Of(n)[j]
        <4>1. Of(n + 1) = Append(Of(n), s[n + 1]) /\ Of(n) \in Seq(S) BY <2>1, <2>3, <2>5
        <4> DEFINE t == Of(n)
                   u == Of(n + 1)
        <4>2. t \in Seq(S) /\ u = Append(t, s[n + 1]) BY <4>1
        <4> HIDE DEF t, u
        <4>3. /\ u \in Seq(S) /\ Len(u) = Len(t) + 1 /\ u[Len(t) + 1] = s[n + 1]
              /\ \A j \in 1 .. Len(t) : u[j] = t[j]
          BY <2>2, <4>2, AppendIs
        <4> QED BY <4>3 DEF t, u
      <3>2. Len(Of(n)) \in Nat BY <2>1
      <3>3. ASSUME NEW k \in 1 .. n + 1, k \in places PROVE \E j \in 1 .. Len(Of(n + 1)) : Of(n + 1)[j] = s[k]
        <4>1. CASE k = n + 1 BY <3>1, <3>2, <4>1
        <4>2. CASE k \in 1 .. n
          <5>1. PICK j \in 1 .. Len(Of(n)) : Of(n)[j] = s[k] BY <2>1, <3>3, <4>2
          <5>2. j \in 1 .. Len(Of(n + 1)) BY <3>1, <3>2
          <5> QED BY <3>1, <5>1, <5>2
        <4> QED BY <4>1, <4>2
      <3>4. ASSUME NEW j \in 1 .. Len(Of(n + 1)) PROVE \E k \in 1 .. n + 1 : k \in places /\ Of(n + 1)[j] = s[k]
        <4>1. CASE j = Len(Of(n)) + 1 BY <2>1, <2>5, <3>1, <4>1
        <4>2. CASE j \in 1 .. Len(Of(n))
          <5>1. PICK k \in 1 .. n : k \in places /\ Of(n)[j] = s[k] BY <2>1, <4>2
          <5>2. k \in 1 .. n + 1 BY <2>1
          <5> QED BY <3>1, <4>2, <5>1, <5>2
        <4> QED BY <3>1, <3>2, <4>1, <4>2
      <3> QED BY <3>1, <3>3, <3>4
    <2> QED BY <2>4, <2>5
  <1> HIDE DEF T
  <1>3. Nat \subseteq T BY <1>1, <1>2, Inductive
  <1>4. From(Len(s)) BY <1>3 DEF T
  <1>5. Of(Len(s)) = Picked(s, places) BY SubSeqFull
  <1> HIDE DEF Of
  <1> QED BY <1>4, <1>5

-----------------------------------------------------------------------------
(* The packets of a stream. *)

PacketSet == {file.packets[k] : k \in DOMAIN file.packets}

LEMMA PacketsAre ==
  ASSUME file \in Files
  PROVE  /\ file.packets \in Seq(PacketSet) /\ DOMAIN file.packets = 1 .. Len(file.packets)
         /\ Len(file.packets) \in Nat
         /\ \A p \in PacketSet : p.dts \in Int /\ p.duration \in Nat /\ p.pos \in Int /\ p.size \in Nat
  <1> DEFINE n == Len(file.packets)
  <1>1. file.packets = [k \in 1 .. n |-> file.packets[k]] /\ n \in Nat BY ImportAssumption
  <1> HIDE DEF n
  <1>2. DOMAIN file.packets = 1 .. n BY <1>1
  <1>3. file.packets \in [1 .. n -> PacketSet] BY <1>1, <1>2 DEF PacketSet
  <1>4. file.packets \in Seq(PacketSet) BY <1>1, <1>3, SeqDef
  <1>5. \A k \in DOMAIN file.packets :
          /\ file.packets[k].dts \in Int /\ file.packets[k].duration \in Nat
          /\ file.packets[k].pos \in Int /\ file.packets[k].size \in Nat
    BY ImportAssumption, TimesAssumption
  <1> QED BY <1>1, <1>2, <1>4, <1>5 DEF PacketSet, n

\* Those of stream i among the first n packets of the file.
FirstOf(f, i, n) == PacketsOf(i, SubSeq(f.packets, 1, n))

LEMMA FirstOfGrows ==
  ASSUME file \in Files, NEW i, NEW n \in 0 .. Len(file.packets) - 1
  PROVE  FirstOf(file, i, n + 1) =
           IF HasData(file, i, n + 1) THEN Append(FirstOf(file, i, n), file.packets[n + 1]) ELSE FirstOf(file, i, n)
  <1> DEFINE ps == file.packets
             a == SubSeq(ps, 1, n)
             b == SubSeq(ps, 1, n + 1)
             A == {k \in DOMAIN a : a[k].stream = i /\ HasSample(a[k])}
             B == {k \in DOMAIN b : b[k].stream = i /\ HasSample(b[k])}
  <1>1. ps \in Seq(PacketSet) /\ Len(ps) \in Nat BY PacketsAre
  <1>2. n \in 0 .. Len(ps) /\ n + 1 \in 0 .. Len(ps) /\ n \in Nat BY <1>1
  <1>3. a \in Seq(PacketSet) /\ Len(a) = n /\ \A k \in 1 .. n : a[k] = ps[k] BY <1>1, <1>2, Prefix
  <1>4. b \in Seq(PacketSet) /\ Len(b) = n + 1 /\ \A k \in 1 .. n + 1 : b[k] = ps[k] BY <1>1, <1>2, Prefix
  <1>5. FirstOf(file, i, n) = Picked(a, A) /\ FirstOf(file, i, n + 1) = Picked(b, B) BY DEF FirstOf, PacketsOf
  <1> HIDE DEF a, b
  <1>6. DOMAIN a = 1 .. n /\ DOMAIN b = 1 .. n + 1 BY <1>3, <1>4
  <1>7. \A k \in 1 .. n : a[k] = b[k] /\ (k \in A <=> k \in B)
    <2> TAKE k \in 1 .. n
    <2>1. k \in 1 .. n + 1 BY <1>2
    <2>2. a[k] = b[k] BY <1>3, <1>4, <2>1
    <2> QED BY <1>6, <2>1, <2>2
  <1>8. n + 1 \in 1 .. n + 1 /\ b[n + 1] = ps[n + 1] BY <1>2, <1>4
  <1>9. n + 1 \in B <=> HasData(file, i, n + 1) BY <1>6, <1>8 DEF HasData
  <1> HIDE DEF A, B
  <1>10. Picked(b, B) = IF n + 1 \in B THEN Append(Picked(a, A), b[n + 1]) ELSE Picked(a, A)
    BY <1>2, <1>3, <1>4, <1>7, PickedGrows
  <1> QED BY <1>5, <1>8, <1>9, <1>10

LEMMA FirstOfNone == ASSUME NEW i PROVE FirstOf(file, i, 0) = <<>>
  <1>1. SubSeq(file.packets, 1, 0) = <<>> BY SubSeqEmpty
  <1> QED BY <1>1, NothingPicked DEF FirstOf, PacketsOf

LEMMA FirstOfAll == ASSUME file \in Files, NEW i PROVE FirstOf(file, i, Len(file.packets)) = PacketsOf(i, file.packets)
  <1>1. file.packets \in Seq(PacketSet) BY PacketsAre
  <1> QED BY <1>1, SubSeqFull DEF FirstOf

LEMMA FirstOfType == ASSUME file \in Files, NEW i, NEW n \in 0 .. Len(file.packets) PROVE FirstOf(file, i, n) \in Seq(PacketSet)
  <1>1. SubSeq(file.packets, 1, n) \in Seq(PacketSet) BY PacketsAre, Prefix
  <1> QED BY <1>1, PickedFrom DEF FirstOf, PacketsOf

-----------------------------------------------------------------------------
(* What a media tells of its packets. *)

\* A sample for each packet, where it is; all but the last last until the next packet.
Tells(media, ps, num) ==
  /\ Len(media) = Len(ps)
  /\ \A k \in 1 .. Len(ps) : media[k].pos = ps[k].pos
  /\ \A k \in 1 .. Len(ps) - 1 : media[k].count * media[k].duration = (ps[k + 1].dts - ps[k].dts) * num

\* The last one, until packet p.
LastsTo(media, ps, num, p) ==
  Len(ps) > 0 =>
    media[Len(ps)].count * media[Len(ps)].duration = (p.dts - ps[Len(ps)].dts) * num

LEMMA TellsGrows ==
  ASSUME NEW S, NEW media \in Seq(S), NEW P, NEW ps \in Seq(P), NEW num, NEW sample \in S, NEW p \in P,
         Tells(media, ps, num), LastsTo(media, ps, num, p), sample.pos = p.pos
  PROVE  Tells(Append(media, sample), Append(ps, p), num)
  <1> DEFINE m == Append(media, sample)
             q == Append(ps, p)
             n == Len(ps)
  <1>1. n \in Nat /\ Len(media) = n BY DEF Tells
  <1>2. Len(m) = n + 1 /\ m[n + 1] = sample /\ \A k \in 1 .. n : m[k] = media[k] BY <1>1, AppendIs
  <1>3. Len(q) = n + 1 /\ q[n + 1] = p /\ \A k \in 1 .. n : q[k] = ps[k] BY AppendIs
  <1> HIDE DEF m, q
  <1>4. ASSUME NEW k \in 1 .. n + 1 PROVE m[k].pos = q[k].pos
    <2>1. CASE k \in 1 .. n BY <1>2, <1>3, <2>1 DEF Tells
    <2>2. CASE k = n + 1 BY <1>2, <1>3, <2>2
    <2> QED BY <1>1, <2>1, <2>2
  <1>5. ASSUME NEW k \in 1 .. n PROVE m[k].count * m[k].duration = (q[k + 1].dts - q[k].dts) * num
    <2>1. m[k] = media[k] /\ q[k] = ps[k] BY <1>2, <1>3
    <2>2. CASE k = n
      <3>1. n > 0 /\ q[k + 1] = p BY <1>1, <1>3, <2>2
      <3> QED BY <2>1, <2>2, <3>1 DEF LastsTo
    <2>3. CASE k \in 1 .. n - 1
      <3>1. q[k + 1] = ps[k + 1] BY <1>1, <1>3, <2>3
      <3> QED BY <2>1, <2>3, <3>1 DEF Tells
    <2> QED BY <1>1, <2>2, <2>3
  <1>6. (n + 1) - 1 = n BY <1>1
  <1> HIDE DEF n
  <1> QED BY <1>2, <1>3, <1>4, <1>5, <1>6 DEF Tells, m, q

\* The last sample may change how long it is.
LEMMA TellsLast ==
  ASSUME NEW S, NEW media \in Seq(S), NEW P, NEW ps \in Seq(P), NEW num, NEW a \in S, NEW b \in S,
         Tells(Append(media, a), ps, num), a.pos = b.pos
  PROVE  Tells(Append(media, b), ps, num)
  <1> DEFINE n == Len(media)
             ma == Append(media, a)
             mb == Append(media, b)
  <1>1. n \in Nat /\ Len(ma) = n + 1 /\ ma[n + 1] = a /\ \A k \in 1 .. n : ma[k] = media[k] BY AppendIs
  <1>2. Len(mb) = n + 1 /\ mb[n + 1] = b /\ \A k \in 1 .. n : mb[k] = media[k] BY AppendIs
  <1>3. Len(ps) = n + 1 BY <1>1 DEF Tells
  <1> HIDE DEF ma, mb, n
  <1>4. Tells(ma, ps, num) BY DEF ma
  <1>5. \A k \in 1 .. n + 1 : mb[k].pos = ps[k].pos
    <2> TAKE k \in 1 .. n + 1
    <2>1. ma[k].pos = ps[k].pos BY <1>3, <1>4 DEF Tells
    <2>2. k = n + 1 \/ k \in 1 .. n BY <1>1
    <2> QED BY <1>1, <1>2, <2>1, <2>2
  <1>6. \A k \in 1 .. (n + 1) - 1 : mb[k].count * mb[k].duration = (ps[k + 1].dts - ps[k].dts) * num
    <2> TAKE k \in 1 .. (n + 1) - 1
    <2>1. ma[k].count * ma[k].duration = (ps[k + 1].dts - ps[k].dts) * num BY <1>3, <1>4 DEF Tells
    <2>2. k \in 1 .. n BY <1>1
    <2> QED BY <1>1, <1>2, <2>1, <2>2
  <1> QED BY <1>2, <1>3, <1>5, <1>6 DEF Tells, mb

\* The samples before the k-th last as long as it is from the first packet to the k-th.
LEMMA TellsTimes ==
  ASSUME NEW media \in Seq(Sample), NEW P, NEW ps \in Seq(P), \A p \in P : p.dts \in Int, NEW num \in Nat,
         Tells(media, ps, num)
  PROVE  \A k \in 1 .. Len(media) : MediaDuration(SubSeq(media, 1, k - 1)) = (ps[k].dts - ps[1].dts) * num
  <1> DEFINE Time(k) == (ps[k].dts - ps[1].dts) * num
             S == {n \in Nat : n < Len(media) => MediaDuration(SubSeq(media, 1, n)) = Time(n + 1)}
  <1>1. Len(media) \in Nat /\ Len(ps) = Len(media) BY DEF Tells
  <1>2. ASSUME NEW k \in 1 .. Len(media) PROVE ps[k].dts \in Int
    <2>1. ps[k] \in P BY <1>1
    <2> QED BY <2>1
  <1>3. 0 \in S
    <2> SUFFICES ASSUME 0 < Len(media) PROVE MediaDuration(SubSeq(media, 1, 0)) = Time(1) OBVIOUS
    <2>1. SubSeq(media, 1, 0) = <<>> BY SubSeqEmpty
    <2>2. 1 \in 1 .. Len(media) BY <1>1
    <2>3. Time(1) = 0 BY <1>2, <2>2
    <2> HIDE DEF Time
    <2> QED BY <2>1, <2>3, NoDuration
  <1>4. ASSUME NEW n \in Nat, n \in S PROVE n + 1 \in S
    <2> SUFFICES ASSUME n + 1 < Len(media) PROVE MediaDuration(SubSeq(media, 1, n + 1)) = Time(n + 2)
      OBVIOUS
    <2> DEFINE a == SubSeq(media, 1, n)
    <2>1. n \in 0 .. Len(media) /\ n + 1 \in 1 .. Len(media) /\ n + 2 \in 1 .. Len(media) /\ n < Len(media)
            /\ 1 \in 1 .. Len(media)
      BY <1>1
    <2>2. a \in Seq(Sample) /\ media[n + 1] \in Sample BY <2>1, Prefix
    <2>3. SubSeq(media, 1, n + 1) = Append(a, media[n + 1]) BY <1>1, <2>1, PrefixAppend
    <2>4. MediaDuration(a) = Time(n + 1) BY <1>4, <2>1
    <2> HIDE DEF a
    <2>5. MediaDuration(Append(a, media[n + 1])) = MediaDuration(a) + media[n + 1].count * media[n + 1].duration
      BY <2>2, DurationGrows
    <2>6. media[n + 1].count * media[n + 1].duration = (ps[(n + 1) + 1].dts - ps[n + 1].dts) * num
      <3>1. n + 1 \in 1 .. Len(ps) - 1 BY <1>1
      <3> QED BY <3>1 DEF Tells
    <2>7. (n + 1) + 1 = n + 2 OBVIOUS
    <2> DEFINE x == ps[1].dts
               y == ps[n + 1].dts
               z == ps[n + 2].dts
    <2>8. x \in Int /\ y \in Int /\ z \in Int BY <1>2, <2>1
    <2> HIDE DEF x, y, z
    <2>9. (y - x) * num + (z - y) * num = (z - x) * num BY <2>8
    <2> QED BY <2>3, <2>4, <2>5, <2>6, <2>7, <2>9 DEF x, y, z
  <1> HIDE DEF S
  <1>5. Nat \subseteq S BY <1>3, <1>4, Inductive
  <1> TAKE k \in 1 .. Len(media)
  <1>6. k - 1 \in Nat /\ k - 1 < Len(media) /\ (k - 1) + 1 = k BY <1>1
  <1>7. k - 1 \in S BY <1>5, <1>6
  <1> QED BY <1>6, <1>7 DEF S

-----------------------------------------------------------------------------
(* The import along the index. *)

LEMMA OwnType == ASSUME file \in Files, NEW i PROVE OwnPackets(file, i) \in Seq(PacketSet)
  BY PacketsAre, PickedFrom DEF OwnPackets

\* The packets of a stream with data are those with data of its packets.
LEMMA DataOfOwn ==
  ASSUME file \in Files, NEW i
  PROVE  LET own == OwnPackets(file, i)
         IN PacketsOf(i, file.packets) = Picked(own, {k \in DOMAIN own : HasSample(own[k])})
  <1> DEFINE ps == file.packets
             Places == {k \in DOMAIN ps : ps[k].stream = i}
             OwnTo(n) == Picked(SubSeq(ps, 1, n), Places)
             Data(s) == {k \in DOMAIN s : HasSample(s[k])}
             S == {n \in Nat : n <= Len(ps) => FirstOf(file, i, n) = Picked(OwnTo(n), Data(OwnTo(n)))}
  <1>0. ps \in Seq(PacketSet) /\ DOMAIN ps = 1 .. Len(ps) /\ Len(ps) \in Nat BY PacketsAre
  <1>1. 0 \in S
    <2>1. SubSeq(ps, 1, 0) = <<>> BY SubSeqEmpty
    <2>2. OwnTo(0) = <<>> BY <2>1, NothingPicked
    <2> HIDE DEF OwnTo, Data
    <2>3. FirstOf(file, i, 0) = Picked(OwnTo(0), Data(OwnTo(0))) BY <2>2, FirstOfNone, NothingPicked
    <2> QED BY <2>3
  <1>2. ASSUME NEW n \in Nat, n \in S PROVE n + 1 \in S
    <2> SUFFICES ASSUME n + 1 <= Len(ps) PROVE FirstOf(file, i, n + 1) = Picked(OwnTo(n + 1), Data(OwnTo(n + 1)))
      OBVIOUS
    <2> DEFINE a == OwnTo(n)
               b == OwnTo(n + 1)
               p == ps[n + 1]
    <2>1. n \in 0 .. Len(ps) - 1 /\ n \in 0 .. Len(ps) /\ n + 1 \in DOMAIN ps BY <1>0
    <2>2. FirstOf(file, i, n) = Picked(a, Data(a)) BY <1>2, <2>1
    <2>3. b = IF n + 1 \in Places THEN Append(a, p) ELSE a BY <1>0, <2>1, PrefixGrows
    <2>4. a \in Seq(PacketSet)
      <3>1. SubSeq(ps, 1, n) \in Seq(PacketSet) BY <1>0, <2>1, Prefix
      <3> QED BY <3>1, PickedFrom
    <2>5. p \in PacketSet BY <2>1 DEF PacketSet
    <2>6. n + 1 \in Places <=> p.stream = i BY <2>1
    <2>7. FirstOf(file, i, n + 1) = IF HasData(file, i, n + 1) THEN Append(FirstOf(file, i, n), p) ELSE FirstOf(file, i, n)
      BY <2>1, FirstOfGrows
    <2> HIDE DEF OwnTo, Places
    <2>8. CASE p.stream # i BY <2>2, <2>3, <2>6, <2>7, <2>8 DEF HasData
    <2>9. CASE p.stream = i
      <3> DEFINE m == Len(a)
      <3>1. b = Append(a, p) BY <2>3, <2>6, <2>9
      <3>2. /\ m \in Nat /\ b \in Seq(PacketSet) /\ Len(b) = m + 1 /\ b[m + 1] = p
            /\ \A k \in 1 .. m : b[k] = a[k]
        BY <2>4, <2>5, <3>1, AppendIs
      <3> HIDE DEF a, b
      <3>3. DOMAIN a = 1 .. m /\ DOMAIN b = 1 .. m + 1 BY <2>4, <3>2
      <3>4. \A k \in 1 .. m : a[k] = b[k] /\ (k \in Data(a) <=> k \in Data(b)) BY <3>2, <3>3
      <3>5. m + 1 \in Data(b) <=> HasSample(p) BY <3>2, <3>3
      <3> HIDE DEF m
      <3> DEFINE A == Data(a)
                 B == Data(b)
      <3>6. Len(a) = m BY DEF m
      <3>7. Picked(b, Data(b)) = IF m + 1 \in Data(b) THEN Append(Picked(a, Data(a)), b[m + 1]) ELSE Picked(a, Data(a))
        <4>1. \A k \in 1 .. m : a[k] = b[k] /\ (k \in A <=> k \in B) BY <3>4
        <4> HIDE DEF A, B
        <4>0. m \in Nat /\ Len(a) = m /\ Len(b) = m + 1 BY <3>2, <3>6
        <4>2. Picked(b, B) = IF m + 1 \in B THEN Append(Picked(a, A), b[m + 1]) ELSE Picked(a, A)
          BY <4>0, <4>1, PickedGrows, SMTT(40)
        <4> QED BY <4>2 DEF A, B
      <3> HIDE DEF A, B, Data
      <3>8. HasData(file, i, n + 1) <=> HasSample(p) BY <2>9 DEF HasData
      <3>9. FirstOf(file, i, n + 1) = Picked(b, Data(b)) BY <2>2, <2>7, <3>2, <3>5, <3>7, <3>8
      <3> QED BY <3>9 DEF b
    <2> QED BY <2>8, <2>9
  <1> HIDE DEF S
  <1>3. Nat \subseteq S BY <1>1, <1>2, Inductive
  <1>4. FirstOf(file, i, Len(ps)) = Picked(OwnTo(Len(ps)), Data(OwnTo(Len(ps)))) BY <1>0, <1>3 DEF S
  <1>5. OwnTo(Len(ps)) = OwnPackets(file, i) BY <1>0, SubSeqFull DEF OwnPackets
  <1> HIDE DEF OwnTo, Data
  <1>6. PacketsOf(i, ps) = Picked(OwnPackets(file, i), Data(OwnPackets(file, i)))
    BY <1>4, <1>5, FirstOfAll
  <1> QED BY <1>6 DEF Data

\* The entries of the index.
LEMMA EntriesAre ==
  ASSUME file \in Files, NEW i \in Streams, NEW shift \in Int, IndexedBy(file, i, shift)
  PROVE  LET own == OwnPackets(file, i)
             entries == file.index[i]
         IN /\ Len(entries) = Len(own) /\ DOMAIN entries = 1 .. Len(own) /\ DOMAIN own = 1 .. Len(own)
            /\ Len(own) \in Nat
            /\ \A k \in 1 .. Len(own) :
                 /\ own[k] \in PacketSet /\ own[k].dts \in Int /\ own[k].pos \in Nat /\ own[k].pos > 0 /\ own[k].size \in Nat
                 /\ entries[k].timestamp = own[k].dts /\ entries[k].size = own[k].size
                 /\ entries[k].pos = own[k].pos - shift
  <1> DEFINE own == OwnPackets(file, i)
             n == Len(own)
             E(k) == [timestamp |-> own[k].dts, size |-> own[k].size, pos |-> own[k].pos - shift]
             R == {E(k) : k \in 1 .. n}
  <1>1. own \in Seq(PacketSet) BY OwnType
  <1>2. DOMAIN own = 1 .. n /\ n \in Nat /\ \A k \in 1 .. n : own[k] \in PacketSet BY <1>1
  <1>3. file.index[i] = [k \in DOMAIN own |-> E(k)] BY DEF IndexedBy
  <1> HIDE DEF own, n
  <1>4. file.index[i] \in [1 .. n -> R] BY <1>2, <1>3
  <1> HIDE DEF R
  <1>5. file.index[i] \in Seq(R) /\ DOMAIN file.index[i] = 1 .. n BY <1>2, <1>4, SeqDef
  <1>6. Len(file.index[i]) = n BY <1>2, <1>5
  <1>7. ASSUME NEW k \in 1 .. n
        PROVE  /\ file.index[i][k].timestamp = own[k].dts /\ file.index[i][k].size = own[k].size
               /\ file.index[i][k].pos = own[k].pos - shift
    <2>1. file.index[i][k] = E(k) BY <1>2, <1>3
    <2> QED BY <2>1
  <1>8. \A k \in 1 .. n : /\ own[k].dts \in Int /\ own[k].size \in Nat
                          /\ own[k].pos \in Nat /\ own[k].pos > 0
    <2>1. \A k \in DOMAIN own : own[k].pos > 0 BY DEF IndexedBy, own
    <2> QED BY <1>2, <2>1, PacketsAre
  <1> QED BY <1>2, <1>5, <1>6, <1>7, <1>8 DEF own, n

\* What the index is shifted by.
LEMMA HeaderOffsetIs ==
  ASSUME file \in Files, NEW shift \in Int, NEW i \in Streams, NEW k \in DOMAIN file.packets,
         file.packets[k].stream = i, IndexedBy(file, i, shift)
  PROVE  HeaderOffset(file.packets[k]) = shift
  <1> DEFINE p == file.packets[k]
             own == OwnPackets(file, i)
             entries == {j \in DOMAIN file.index[i] : file.index[i][j].timestamp = p.dts}
  <1>1. file.packets \in Seq(PacketSet) /\ DOMAIN file.packets = 1 .. Len(file.packets) BY PacketsAre
  <1>2. PICK j \in 1 .. Len(own) : own[j] = p
    <2> DEFINE places == {x \in DOMAIN file.packets : file.packets[x].stream = i}
    <2>1. k \in places /\ k \in 1 .. Len(file.packets) BY <1>1
    <2> HIDE DEF places
    <2>2. \E j \in 1 .. Len(Picked(file.packets, places)) : Picked(file.packets, places)[j] = p
      <3> DEFINE ps == file.packets
                 picked == Picked(ps, places)
      <3>1. ps \in Seq(PacketSet) BY <1>1
      <3> HIDE DEF ps
      <3>2. \A x \in 1 .. Len(ps) : x \in places => \E j \in 1 .. Len(picked) : picked[j] = ps[x]
        BY ONLY <3>1, PickedFrom
      <3> HIDE DEF picked
      <3>3. k \in 1 .. Len(ps) BY <2>1 DEF ps
      <3>4. \E j \in 1 .. Len(picked) : picked[j] = ps[k] BY <2>1, <3>2, <3>3
      <3> QED BY <3>4 DEF ps, picked
    <2>3. own = Picked(file.packets, places) BY DEF OwnPackets, places
    <2> QED BY <2>2, <2>3
  <1> HIDE DEF own
  <1>3. /\ DOMAIN file.index[i] = 1 .. Len(own) /\ DOMAIN own = 1 .. Len(own) /\ Len(own) \in Nat
        /\ \A x \in 1 .. Len(own) :
             /\ own[x].dts \in Int /\ own[x].pos \in Nat
             /\ file.index[i][x].timestamp = own[x].dts /\ file.index[i][x].pos = own[x].pos - shift
    BY EntriesAre DEF own
  <1>4. \A x, y \in DOMAIN own : x < y => own[x].dts < own[y].dts BY DEF IndexedBy, own
  <1>5. entries = {j}
    <2>1. j \in entries BY <1>2, <1>3
    <2>2. ASSUME NEW x \in entries PROVE x = j
      <3>1. x \in 1 .. Len(own) /\ own[x].dts = own[j].dts BY <1>2, <1>3
      <3>2. x \in DOMAIN own /\ j \in DOMAIN own /\ x \in Nat /\ j \in Nat /\ own[x].dts \in Int
        BY <1>2, <1>3, <3>1
      <3>3. ~(x < j) /\ ~(j < x)
        <4>1. ~(own[x].dts < own[x].dts) BY <3>2
        <4> QED BY <1>4, <3>1, <3>2, <4>1
      <3> QED BY <3>2, <3>3
    <2> QED BY <2>1, <2>2
  <1>6. Min(entries) = j
    <2>1. j \in Int BY <1>3
    <2>2. Min({j}) = j BY <2>1 DEF Min
    <2> QED BY <1>5, <2>2
  <1>7. file.index[i][j].pos = p.pos - shift /\ p.pos \in Int BY <1>2, <1>3
  <1>8. HeaderOffset(p) = p.pos - file.index[i][j].pos
    <2>0. p.stream = i OBVIOUS
    <2> HIDE DEF entries
    <2>1. HeaderOffset(p) = IF entries = {} THEN 0 ELSE p.pos - file.index[i][Min(entries)].pos
      BY <2>0 DEF HeaderOffset, entries
    <2>2. entries # {} BY <1>5
    <2> QED BY <1>6, <2>1, <2>2
  <1> HIDE DEF p
  <1>9. HeaderOffset(p) = shift BY <1>7, <1>8
  <1> QED BY <1>9 DEF p

\* The sample of entry l, when k is the next with data.
LEMMA IndexSampleIs ==
  ASSUME file \in Files, NEW i \in Streams, NEW shift \in Int, IndexedBy(file, i, shift), header_offset = shift,
         Stream(i).type \in {"video", "audio"}, Len(file.index[i]) > 1,
         NEW l \in 1 .. Len(OwnPackets(file, i))
  PROVE  LET own == OwnPackets(file, i)
             sample == IndexSample(i, l)
         IN /\ sample \in Sample /\ sample.pos = own[l].pos
            /\ \A k \in l + 1 .. Len(own) :
                 own[k].size > 0 /\ (\A j \in l + 1 .. k - 1 : ~(own[j].size > 0)) =>
                   sample.count * sample.duration = (own[k].dts - own[l].dts) * Stream(i).num
  <1> DEFINE own == OwnPackets(file, i)
             n == Len(own)
             entries == file.index[i]
             s == Stream(i)
  <1>1. /\ Len(entries) = n /\ DOMAIN entries = 1 .. n /\ DOMAIN own = 1 .. n /\ n \in Nat
        /\ \A k \in 1 .. n :
             /\ own[k].dts \in Int /\ own[k].pos \in Nat /\ own[k].size \in Nat
             /\ entries[k].timestamp = own[k].dts /\ entries[k].size = own[k].size
             /\ entries[k].pos = own[k].pos - shift
    BY EntriesAre
  <1>2. \A k, j \in 1 .. n : k < j => own[k].dts < own[j].dts BY <1>1 DEF IndexedBy
  <1>3. s.type = "video" => s.num = Stream(1).num /\ \A k \in 1 .. n : own[k].dts = own[1].dts + k - 1
    BY <1>1 DEF IndexedBy, Stream
  <1>4. s.type = "audio" =>
          \A k \in 1 .. n : own[k].size > 0 /\ (~s.vbr /\ k < n => SamplesIn(own[k].size) = (own[k + 1].dts - own[k].dts) * s.num)
    BY <1>1 DEF IndexedBy, Stream
  <1>5. s.num \in Nat BY TimesAssumption DEF Streams, Stream
  <1>6. l \in 1 .. n OBVIOUS
  <1>7. header_offset + entries[l].pos = own[l].pos BY <1>1, <1>6
  <1> HIDE DEF own, n, entries, s
  <1> DEFINE Later(k) == k \in l + 1 .. n /\ own[k].size > 0 /\ \A j \in l + 1 .. k - 1 : ~(own[j].size > 0)
  <1>8. CASE s.type = "video"
    <2> DEFINE later == {j \in l + 1 .. Len(entries) : entries[j].size > 0}
               ticks == FrameTicks(i, l)
    <2>1. ticks = (IF later = {} THEN Len(entries) + 1 ELSE Min(later)) - l BY DEF FrameTicks, entries
    <2>2. later \in SUBSET Nat BY <1>1, <1>6
    <2>3. later # {} => Min(later) \in later /\ \A y \in later : Min(later) <= y BY <2>2, MinOf
    <2>4. \A j \in later : j \in Nat /\ j > l BY <1>1, <1>6
    <2>5. ticks \in Nat
      <3>1. CASE later = {} BY <1>1, <1>6, <2>1, <3>1
      <3>2. CASE later # {}
        <4>1. Min(later) \in Nat /\ Min(later) > l BY <2>3, <2>4, <3>2
        <4> HIDE DEF later
        <4> QED BY <1>6, <2>1, <3>2, <4>1
      <3> QED BY <3>1, <3>2
    <2>6. ASSUME NEW k, Later(k) PROVE ticks = k - l
      <3>1. k \in later /\ k \in Nat BY <1>1, <1>6, <2>6
      <3>2. ASSUME NEW j \in later, j < k PROVE FALSE
        <4>1. j \in 1 .. n /\ j \in l + 1 .. k - 1 BY <1>1, <1>6, <3>1, <3>2
        <4>2. own[j].size > 0 BY <1>1, <3>2, <4>1
        <4> QED BY <2>6, <4>1, <4>2
      <3>3. Min(later) \in later /\ Min(later) <= k BY <2>3, <3>1
      <3>4. Min(later) \in Nat /\ ~(Min(later) < k) BY <2>4, <3>2, <3>3
      <3>5. Min(later) = k BY <3>1, <3>3, <3>4
      <3> HIDE DEF later
      <3> QED BY <2>1, <3>1, <3>5
    <2> HIDE DEF later, ticks
    <2>7. IndexSample(i, l) = [pos |-> own[l].pos, count |-> 1, duration |-> s.num * ticks]
      BY <1>3, <1>7, <1>8 DEF IndexSample, s, entries, ticks
    <2>8. s.num * ticks \in Nat BY <1>5, <2>5
    <2>9. IndexSample(i, l) \in Sample BY <1>1, <1>6, <2>7, <2>8 DEF Sample
    <2>10. ASSUME NEW k, Later(k) PROVE 1 * (s.num * ticks) = (own[k].dts - own[l].dts) * s.num
      <3>1. k \in 1 .. n BY <1>1, <1>6, <2>10
      <3>2. own[k].dts - own[l].dts = k - l /\ k \in Nat
        <4>1. own[k].dts = own[1].dts + k - 1 /\ own[l].dts = own[1].dts + l - 1 BY <1>3, <1>6, <1>8, <3>1
        <4>2. own[1].dts \in Int BY <1>1, <1>6
        <4> QED BY <1>6, <3>1, <4>1, <4>2
      <3>3. ticks = k - l BY <2>6, <2>10
      <3> HIDE DEF Later
      <3>4. own[k].dts - own[l].dts = ticks BY <3>2, <3>3
      <3> QED BY <1>5, <2>5, <3>4
    <2> QED BY <2>7, <2>9, <2>10 DEF own, n, s
  <1>9. CASE s.type = "audio"
    <2>1. ASSUME NEW k, Later(k) PROVE k = l + 1 /\ l < n
      <3>1. ~(l + 1 \in l + 1 .. k - 1)
        <4>1. CASE l + 1 \in l + 1 .. k - 1
          <5>1. l + 1 \in 1 .. n BY <1>1, <1>6, <2>1, <4>1
          <5> QED BY <1>4, <1>9, <2>1, <4>1, <5>1
        <4> QED BY <4>1
      <3> QED BY <1>1, <1>6, <2>1, <3>1
    <2>2. CASE s.vbr
      <3> DEFINE x == IF l < Len(entries) THEN l ELSE l - 1
                 gap == own[x + 1].dts - own[x].dts
      <3>1. x \in 1 .. n /\ x + 1 \in 1 .. n
        <4>1. n > 1 BY <1>1 DEF entries
        <4> QED BY <1>1, <1>6, <4>1
      <3>2. own[x].dts \in Int /\ own[x + 1].dts \in Int /\ own[x].dts < own[x + 1].dts BY <1>1, <1>2, <3>1
      <3>3. gap \in Nat BY <3>2
      <3>4. entries[x + 1].timestamp - entries[x].timestamp = gap BY <1>1, <3>1
      <3> HIDE DEF gap
      <3>5. IndexSample(i, l) = [pos |-> own[l].pos, count |-> 1, duration |-> s.num * gap]
        BY <1>7, <1>9, <2>2, <3>4 DEF IndexSample, s, entries
      <3>6. s.num * gap \in Nat BY <1>5, <3>3
      <3>7. IndexSample(i, l) \in Sample BY <1>1, <1>6, <3>5, <3>6 DEF Sample
      <3>8. ASSUME NEW k, Later(k) PROVE 1 * (s.num * gap) = (own[k].dts - own[l].dts) * s.num
        <4>1. x = l BY <1>1, <2>1, <3>8
        <4>2. gap = own[k].dts - own[l].dts BY <2>1, <3>8, <4>1 DEF gap
        <4> QED BY <1>5, <3>3, <4>2
      <3> QED BY <3>5, <3>7, <3>8 DEF own, n, s
    <2>3. CASE ~s.vbr
      <3>1. IndexSample(i, l) = [pos |-> own[l].pos, count |-> own[l].size, duration |-> 1]
        BY <1>1, <1>6, <1>7, <1>9, <2>3 DEF IndexSample, s, entries, SamplesIn
      <3>2. IndexSample(i, l) \in Sample BY <1>1, <1>6, <3>1 DEF Sample
      <3>3. ASSUME NEW k, Later(k) PROVE own[l].size * 1 = (own[k].dts - own[l].dts) * s.num
        <4>1. k = l + 1 /\ l < n BY <2>1, <3>3
        <4>2. own[l].size = (own[l + 1].dts - own[l].dts) * s.num BY <1>4, <1>6, <1>9, <2>3, <4>1 DEF SamplesIn
        <4>3. own[l].size \in Nat BY <1>1, <1>6
        <4> QED BY <4>1, <4>2, <4>3
      <3> QED BY <3>1, <3>2, <3>3 DEF own, n, s
    <2> QED BY <2>2, <2>3
  <1> QED BY <1>8, <1>9 DEF s

\* The samples along the index are those of the packets.
LEMMA IndexTells ==
  ASSUME file \in Files, NEW i \in Streams, NEW shift \in Int, IndexedBy(file, i, shift), header_offset = shift,
         Stream(i).type \in {"video", "audio"}, Len(file.index[i]) > 1
  PROVE  IndexMedia(i) \in Seq(Sample) /\ Tells(IndexMedia(i), PacketsOf(i, file.packets), Stream(i).num)
  <1> DEFINE own == OwnPackets(file, i)
             n == Len(own)
             num == Stream(i).num
             M == [k \in DOMAIN file.index[i] |-> IndexSample(i, k)]
             T == {k \in DOMAIN own : own[k].size > 0}
             Made(q) == Picked(SubSeq(M, 1, q), T)
             Of(q) == Picked(SubSeq(own, 1, q), T)
             FromLast(m, p, q) ==
               Len(p) > 0 =>
                 \E l \in 1 .. q : /\ l \in T /\ \A j \in l + 1 .. q : j \notin T
                                   /\ p[Len(p)] = own[l] /\ m[Len(p)] = M[l]
             R(q) == /\ Made(q) \in Seq(Sample) /\ Of(q) \in Seq(PacketSet)
                     /\ Tells(Made(q), Of(q), num) /\ FromLast(Made(q), Of(q), q)
             S == {q \in Nat : q <= n => R(q)}
  <1>1. /\ DOMAIN file.index[i] = 1 .. n /\ DOMAIN own = 1 .. n /\ n \in Nat
        /\ \A k \in 1 .. n : own[k].dts \in Int /\ own[k].size \in Nat /\ file.index[i][k].size = own[k].size
    BY EntriesAre
  <1>2. own \in Seq(PacketSet) BY OwnType
  <1>3. \A k \in 1 .. n : /\ IndexSample(i, k) \in Sample /\ IndexSample(i, k).pos = own[k].pos
                          /\ \A j \in k + 1 .. n :
                               own[j].size > 0 /\ (\A x \in k + 1 .. j - 1 : ~(own[x].size > 0)) =>
                                 IndexSample(i, k).count * IndexSample(i, k).duration = (own[j].dts - own[k].dts) * num
    BY IndexSampleIs
  <1> HIDE DEF own, n, num
  <1>4. M \in Seq(Sample) /\ Len(M) = n /\ \A k \in 1 .. n : M[k] = IndexSample(i, k)
    <2>1. M \in [1 .. n -> Sample] BY <1>1, <1>3
    <2>2. M \in Seq(Sample) BY <1>1, <2>1, SeqDef
    <2>3. DOMAIN M = 1 .. n /\ \A k \in 1 .. n : M[k] = IndexSample(i, k) BY <1>1
    <2> HIDE DEF M
    <2>4. Len(M) = n BY <1>1, <2>2, <2>3
    <2> QED BY <2>2, <2>3, <2>4
  <1>5. \A k \in 1 .. n : k \in T <=> own[k].size > 0 BY <1>1
  <1> HIDE DEF M, T
  <1>6. 0 \in S
    <2>1. SubSeq(M, 1, 0) = <<>> /\ SubSeq(own, 1, 0) = <<>> BY SubSeqEmpty
    <2>2. Made(0) = <<>> /\ Of(0) = <<>> BY <2>1, NothingPicked
    <2>3. Len(<<>>) = 0 /\ <<>> \in Seq(Sample) /\ <<>> \in Seq(PacketSet) OBVIOUS
    <2>4. Tells(<<>>, <<>>, num) BY <2>3 DEF Tells
    <2>5. FromLast(<<>>, <<>>, 0) BY <2>3
    <2> HIDE DEF Made, Of, FromLast
    <2>6. R(0) BY <2>2, <2>3, <2>4, <2>5, Zenon
    <2> HIDE DEF R
    <2> QED BY <2>6
  <1>7. ASSUME NEW q \in Nat, q \in S PROVE q + 1 \in S
    <2> SUFFICES ASSUME q + 1 <= n PROVE R(q + 1) OBVIOUS
    <2> DEFINE m == Made(q)
               p == Of(q)
               a == M[q + 1]
               b == own[q + 1]
    <2>1. q \in 0 .. n - 1 /\ q + 1 \in 1 .. n /\ R(q) BY <1>1, <1>7
    <2>2. Made(q + 1) = IF q + 1 \in T THEN Append(m, a) ELSE m BY <1>4, <2>1, PrefixGrows
    <2>3. Of(q + 1) = IF q + 1 \in T THEN Append(p, b) ELSE p
      <3>1. q \in 0 .. Len(own) - 1 BY <2>1 DEF n
      <3> QED BY <1>2, <3>1, PrefixGrows
    <2>4. m \in Seq(Sample) /\ p \in Seq(PacketSet) /\ Tells(m, p, num) BY <2>1
    <2>5. FromLast(m, p, q) BY <2>1
    <2>6. a \in Sample /\ a = IndexSample(i, q + 1) /\ b \in PacketSet /\ a.pos = b.pos
      BY <1>2, <1>3, <1>4, <2>1 DEF n
    <2> HIDE DEF Made, Of, m, p, a, b
    <2>7. CASE q + 1 \notin T
      <3>1. Made(q + 1) = m /\ Of(q + 1) = p BY <2>2, <2>3, <2>7
      <3>2. FromLast(m, p, q + 1)
        <4> SUFFICES ASSUME Len(p) > 0
                     PROVE  \E l \in 1 .. q + 1 : /\ l \in T /\ \A j \in l + 1 .. q + 1 : j \notin T
                                                  /\ p[Len(p)] = own[l] /\ m[Len(p)] = M[l]
          OBVIOUS
        <4>1. PICK l \in 1 .. q : /\ l \in T /\ \A j \in l + 1 .. q : j \notin T
                                  /\ p[Len(p)] = own[l] /\ m[Len(p)] = M[l]
          BY <2>5
        <4>2. l \in 1 .. q + 1 BY <4>1
        <4>3. \A j \in l + 1 .. q + 1 : j \notin T
          <5> TAKE j \in l + 1 .. q + 1
          <5>1. j = q + 1 \/ j \in l + 1 .. q BY <4>1
          <5> QED BY <2>7, <4>1, <5>1
        <4> QED BY <4>1, <4>2, <4>3
      <3> HIDE DEF FromLast
      <3> QED BY <2>4, <3>1, <3>2
    <2>8. CASE q + 1 \in T
      <3>1. Made(q + 1) = Append(m, a) /\ Of(q + 1) = Append(p, b) BY <2>2, <2>3, <2>8
      <3>2. LastsTo(m, p, num, b)
        <4> SUFFICES ASSUME Len(p) > 0
                     PROVE  m[Len(p)].count * m[Len(p)].duration = (b.dts - p[Len(p)].dts) * num
          BY DEF LastsTo
        <4>1. PICK l \in 1 .. q : /\ l \in T /\ \A j \in l + 1 .. q : j \notin T
                                  /\ p[Len(p)] = own[l] /\ m[Len(p)] = M[l]
          BY <2>5
        <4>0. l \in Nat /\ 1 <= l /\ l <= q /\ n \in Nat /\ q + 1 <= n BY <1>1, <4>1
        <4>2. l \in 1 .. n /\ q + 1 \in l + 1 .. n BY ONLY <4>0, q \in Nat
        <4>3. own[q + 1].size > 0 BY <1>5, <2>1, <2>8
        <4>4. \A x \in l + 1 .. (q + 1) - 1 : ~(own[x].size > 0)
          <5> TAKE x \in l + 1 .. (q + 1) - 1
          <5>1. x \in l + 1 .. q /\ x \in 1 .. n BY ONLY <4>0, q \in Nat, x \in l + 1 .. (q + 1) - 1
          <5> QED BY <1>5, <4>1, <5>1
        <4>5. IndexSample(i, l).count * IndexSample(i, l).duration = (own[q + 1].dts - own[l].dts) * num
          BY <1>3, <4>2, <4>3, <4>4
        <4>6. M[l] = IndexSample(i, l) BY <1>4, <4>2
        <4> QED BY <4>1, <4>5, <4>6 DEF b
      <3>3. Tells(Append(m, a), Append(p, b), num) BY <2>4, <2>6, <3>2, TellsGrows
      <3>4. Append(m, a) \in Seq(Sample) /\ Append(p, b) \in Seq(PacketSet) BY <2>4, <2>6
      <3>5. FromLast(Append(m, a), Append(p, b), q + 1)
        <4>1. Len(Append(p, b)) = Len(p) + 1 /\ Append(p, b)[Len(p) + 1] = b BY <2>4, <2>6, AppendIs
        <4>2. Len(m) = Len(p) BY <2>4 DEF Tells
        <4>3. Append(m, a)[Len(p) + 1] = a BY <2>4, <2>6, <4>2, AppendIs
        <4>4. \A j \in (q + 1) + 1 .. q + 1 : j \notin T OBVIOUS
        <4>5. q + 1 \in 1 .. q + 1 OBVIOUS
        <4> QED BY <2>8, <4>1, <4>3, <4>4, <4>5 DEF a, b
      <3> HIDE DEF FromLast
      <3> QED BY <3>1, <3>3, <3>4, <3>5
    <2> QED BY <2>7, <2>8
  <1> HIDE DEF S
  <1>8. Nat \subseteq S BY <1>6, <1>7, Inductive
  <1>9. R(n) BY <1>1, <1>8 DEF S
  <1>10. Made(n) = Picked(M, T) /\ Of(n) = Picked(own, T)
    <2>1. SubSeq(M, 1, n) = M /\ SubSeq(own, 1, n) = own BY <1>2, <1>4, SubSeqFull DEF n
    <2> QED BY <2>1
  <1>11. PacketsOf(i, file.packets) = Picked(own, T)
    <2> DEFINE H == {k \in DOMAIN own : HasSample(own[k])}
    <2>1. \A k \in DOMAIN own : own[k].pos > 0 BY EntriesAre DEF own
    <2>2. H = T BY <2>1 DEF T, HasSample
    <2>3. PacketsOf(i, file.packets) = Picked(own, H) BY DataOfOwn DEF own
    <2> HIDE DEF H
    <2> QED BY <2>2, <2>3
  <1>12. IndexMedia(i) = Picked(M, T)
    <2> DEFINE D == {k \in DOMAIN file.index[i] : file.index[i][k].size > 0}
    <2>1. D = T BY <1>1 DEF T
    <2>2. IndexMedia(i) = Picked(M, D) BY DEF IndexMedia, M
    <2> HIDE DEF D
    <2> QED BY <2>1, <2>2
  <1> HIDE DEF Made, Of, FromLast
  <1> QED BY <1>9, <1>10, <1>11, <1>12 DEF num

-----------------------------------------------------------------------------
(* The import packet by packet. *)

\* The media of s with the sample that waits, which at the end of the file was added to it.
Full(s, ended) == IF s.lastSample.count > 0 /\ ~ended THEN Append(s.media, s.lastSample) ELSE s.media

\* Whether packet m of stream i tells how long it lasts, and what it tells.
IsTold(f, i, m) == f.packets[m].duration > 0 /\ TrustPacketDuration(f, i)
ToldTicks(f, i, m) ==
  IF ConstantSize(f.streams[i]) THEN SamplesIn(f.packets[m].size) ELSE f.streams[i].num * f.packets[m].duration

\* The last packet of stream i with data before packet n.
LastBefore(f, i, n, m) ==
  m \in 1 .. n - 1 /\ HasData(f, i, m) /\ \A j \in m + 1 .. n - 1 : ~HasData(f, i, j)

\* The last sample lasts as long as its packet told, or waits for the next to tell it.
LastOK(f, s, i, n, ps) ==
  \/ ps = <<>> /\ s.lastSample.count = 0
  \/ \E m \in DOMAIN f.packets :
       /\ LastBefore(f, i, n, m) /\ Len(ps) > 0 /\ ps[Len(ps)] = f.packets[m]
       /\ \/ /\ s.lastSample.count = 0 /\ IsTold(f, i, m)
             /\ s.media[Len(ps)].count * s.media[Len(ps)].duration = ToldTicks(f, i, m)
          \/ /\ s.lastSample.count > 0 /\ ~IsTold(f, i, m) /\ s.lastdts = f.packets[m].dts
             /\ ConstantSize(f.streams[i]) \/ s.lastSample.count = 1

\* The samples of stream i are those of its packets before packet n.
Imports(f, s, i, n, ended) ==
  /\ Tells(Full(s, ended), FirstOf(f, i, n - 1), f.streams[i].num)
  /\ ~ended => LastOK(f, s, i, n, FirstOf(f, i, n - 1))

LEMMA NewImports ==
  ASSUME NEW i, NEW valid
  PROVE  Imports(file, NewStream(valid), i, 1, FALSE)
  <1> DEFINE s == NewStream(valid)
  <1>1. s.media = <<>> /\ s.lastSample.count = 0 BY DEF NewStream, NoSample
  <1>2. FirstOf(file, i, 1 - 1) = <<>> BY FirstOfNone
  <1> HIDE DEF s
  <1>3. Full(s, FALSE) = <<>> BY <1>1 DEF Full
  <1>4. Tells(<<>>, <<>>, Stream(i).num) BY DEF Tells
  <1> QED BY <1>1, <1>2, <1>3, <1>4 DEF Imports, LastOK, Stream, s

\* A packet of another stream, or one without data.
LEMMA OtherImports ==
  ASSUME TypeInv, next \in DOMAIN file.packets, NEW i, ~HasData(file, i, next), NEW s, Imports(file, s, i, next, FALSE)
  PROVE  Imports(file, s, i, next + 1, FALSE)
  <1>1. next \in Nat \ {0} /\ next - 1 \in 0 .. Len(file.packets) - 1 /\ (next - 1) + 1 = next /\ (next + 1) - 1 = next
    BY PacketOf
  <1>2. FirstOf(file, i, next) = FirstOf(file, i, next - 1)
    <2>1. file \in Files BY DEF TypeInv
    <2>2. ~HasData(file, i, (next - 1) + 1) BY <1>1
    <2>3. FirstOf(file, i, (next - 1) + 1) = FirstOf(file, i, next - 1) BY <1>1, <2>1, <2>2, FirstOfGrows
    <2> QED BY <1>1, <2>3
  <1>3. ASSUME NEW m, LastBefore(file, i, next, m) PROVE LastBefore(file, i, next + 1, m)
    <2>1. m \in 1 .. (next + 1) - 1 /\ HasData(file, i, m) BY <1>1, <1>3 DEF LastBefore
    <2>2. \A j \in m + 1 .. (next + 1) - 1 : ~HasData(file, i, j)
      <3> TAKE j \in m + 1 .. (next + 1) - 1
      <3>1. j = next \/ j \in m + 1 .. next - 1 BY <1>1, <2>1
      <3> QED BY <1>3, <3>1 DEF LastBefore
    <2> QED BY <2>1, <2>2 DEF LastBefore
  <1> DEFINE ps == FirstOf(file, i, next - 1)
  <1>4. Tells(Full(s, FALSE), ps, Stream(i).num) /\ LastOK(file, s, i, next, ps) BY DEF Imports, Stream
  <1>5. FirstOf(file, i, (next + 1) - 1) = ps BY <1>1, <1>2
  <1> HIDE DEF ps
  <1>6. LastOK(file, s, i, next + 1, ps) BY <1>3, <1>4 DEF LastOK, Stream
  <1> QED BY <1>4, <1>5, <1>6 DEF Imports, Stream

\* What waits is added, and lasts until the packet that is read.
LEMMA AddWaitingTells ==
  ASSUME TypeInv, next \in DOMAIN file.packets, NEW i, HasData(file, i, next),
         NEW s, Kept(s, i, next), Imports(file, s, i, next, FALSE)
  PROVE  LET t == AddWaiting(s, file.packets[next])
             ps == FirstOf(file, i, next - 1)
         IN /\ Fields(t) /\ t.media \in Seq(Sample)
            /\ Tells(t.media, ps, Stream(i).num) /\ LastsTo(t.media, ps, Stream(i).num, file.packets[next])
  <1> DEFINE p == file.packets[next]
             t == AddWaiting(s, p)
             ps == FirstOf(file, i, next - 1)
             num == Stream(i).num
             last == [s.lastSample EXCEPT !.duration = (p.dts - s.lastdts) * num]
  <1>1. file \in Files /\ p.stream = i /\ i \in Streams /\ next \in Nat \ {0} /\ p.dts \in Int
    BY PacketOf, PacketsAre DEF TypeInv, HasData, PacketSet
  <1>2. Fields(s) /\ s.media \in Seq(Sample) /\ s.lastSample \in Sample /\ s.lastdts \in Int
    BY DEF Kept, Holds, Waits
  <1>3. num \in Nat BY <1>1, TimesAssumption DEF Streams, Stream
  <1>4. Tells(Full(s, FALSE), ps, num) /\ LastOK(file, s, i, next, ps) BY DEF Imports, Stream
  <1>5. TellsDurations(file) BY <1>1, TellsAssumption
  <1>6. ASSUME NEW m \in DOMAIN file.packets, LastBefore(file, i, next, m)
        PROVE  /\ file.packets[m].dts \in Int /\ file.packets[m].duration \in Nat
               /\ IF ConstantSize(Stream(i))
                  THEN IsTold(file, i, m) /\ SamplesIn(file.packets[m].size) = (p.dts - file.packets[m].dts) * num
                  ELSE IsTold(file, i, m) => file.packets[m].duration = p.dts - file.packets[m].dts
    <2>1. Follows(file, i, m, next) BY <1>1, <1>6 DEF Follows, LastBefore
    <2>2. file.packets[m].dts \in Int /\ file.packets[m].duration \in Nat BY <1>1, PacketsAre DEF PacketSet
    <2> QED BY <1>1, <1>5, <2>1, <2>2 DEF TellsDurations, IsTold, Stream, Streams
  <1>7. ps \in Seq(PacketSet)
    <2>1. next - 1 \in 0 .. Len(file.packets) BY <1>1, PacketOf
    <2> QED BY <1>1, <2>1, FirstOfType
  <1> HIDE DEF ps, num
  <1>8. CASE s.lastSample.count = 0
    <2>1. t = s /\ Full(s, FALSE) = s.media BY <1>8 DEF AddWaiting, Full
    <2>2. LastsTo(s.media, ps, num, p)
      <3> SUFFICES ASSUME Len(ps) > 0
                   PROVE  s.media[Len(ps)].count * s.media[Len(ps)].duration = (p.dts - ps[Len(ps)].dts) * num
        BY DEF LastsTo
      <3>1. ps # <<>> OBVIOUS
      <3>2. PICK m \in DOMAIN file.packets :
              /\ LastBefore(file, i, next, m) /\ ps[Len(ps)] = file.packets[m]
              /\ s.media[Len(ps)].count * s.media[Len(ps)].duration = ToldTicks(file, i, m) /\ IsTold(file, i, m)
        BY <1>4, <1>8, <3>1 DEF LastOK, Stream
      <3>3. ToldTicks(file, i, m) = (p.dts - file.packets[m].dts) * num
        <4>1. CASE ConstantSize(Stream(i)) BY <1>6, <3>2, <4>1 DEF ToldTicks, Stream
        <4>2. CASE ~ConstantSize(Stream(i))
          <5>1. file.packets[m].duration = p.dts - file.packets[m].dts BY <1>6, <3>2, <4>2
          <5>2. ToldTicks(file, i, m) = num * file.packets[m].duration BY <4>2 DEF ToldTicks, Stream, num
          <5>3. file.packets[m].duration \in Nat BY <1>6, <3>2
          <5> QED BY <1>3, <5>1, <5>2, <5>3
        <4> QED BY <4>1, <4>2
      <3> QED BY <3>2, <3>3
    <2> QED BY <1>2, <1>4, <2>1, <2>2 DEF ps, num
  <1>9. CASE s.lastSample.count > 0
    <2> DEFINE u == Append(s.media, last)
    <2>1. s.lastSample.count # 0 BY <1>2, <1>9 DEF Sample
    <2>2. DOMAIN t = DOMAIN s /\ t.media = u
      <3>1. t = [s EXCEPT !.media = Append(@, last)] BY <1>1, <2>1 DEF AddWaiting, num
      <3> HIDE DEF last, t
      <3> QED BY <1>2, <3>1 DEF Fields, NewStream
    <2>3. PICK m \in DOMAIN file.packets :
            /\ LastBefore(file, i, next, m) /\ Len(ps) > 0 /\ ps[Len(ps)] = file.packets[m]
            /\ ~IsTold(file, i, m) /\ s.lastdts = file.packets[m].dts
            /\ ConstantSize(Stream(i)) \/ s.lastSample.count = 1
      BY <1>4, <2>1 DEF LastOK, Stream
    <2>4. s.lastSample.count = 1 BY <1>6, <2>3
    <2>5. last.pos = s.lastSample.pos /\ last.count = 1 /\ last.duration = (p.dts - s.lastdts) * num
      BY <1>2, <2>4 DEF Sample
    <2>6. last \in Sample
      <3>1. s.lastdts <= p.dts BY <1>1, <1>9 DEF Kept, Waits, HasData
      <3>2. p.dts - s.lastdts \in Nat BY <1>1, <1>2, <3>1
      <3>3. (p.dts - s.lastdts) * num \in Nat BY <1>3, <3>2
      <3> QED BY <1>2, <3>3 DEF Sample
    <2> HIDE DEF last
    <2>7. Tells(Append(s.media, s.lastSample), ps, num) BY <1>4, <1>9 DEF Full
    <2>8. Tells(u, ps, num) BY <1>2, <1>7, <2>5, <2>6, <2>7, TellsLast
    <2>9. u \in Seq(Sample) /\ Len(u) = Len(s.media) + 1 /\ u[Len(s.media) + 1] = last BY <1>2, <2>6, AppendIs
    <2>10. Len(ps) = Len(s.media) + 1 BY <2>8, <2>9 DEF Tells
    <2>11. u[Len(ps)] = last BY <2>9, <2>10
    <2> HIDE DEF u, t
    <2>12. 1 * ((p.dts - s.lastdts) * num) = (p.dts - s.lastdts) * num BY <1>1, <1>2, <1>3
    <2>13. u[Len(ps)].count * u[Len(ps)].duration = (p.dts - ps[Len(ps)].dts) * num
      BY <2>3, <2>5, <2>11, <2>12
    <2>14. LastsTo(u, ps, num, p) BY <2>13 DEF LastsTo
    <2>15. Fields(t) BY <1>2, <2>2 DEF Fields
    <2> QED BY <2>2, <2>8, <2>9, <2>14, <2>15 DEF t, ps, num
  <1> QED BY <1>2, <1>8, <1>9 DEF Sample

\* The sample of the packet that is read, which waits or is added.
LEMMA AddPacketTells ==
  ASSUME TypeInv, next \in DOMAIN file.packets, NEW i, HasData(file, i, next),
         NEW s, Kept(s, i, next), Imports(file, s, i, next, FALSE)
  PROVE  Imports(file, AddPacket(s, file.packets[next]), i, next + 1, FALSE)
  <1> DEFINE p == file.packets[next]
             ready == AddWaiting(s, p)
             noted == [ready EXCEPT !.lastdts = p.dts]
             ps == FirstOf(file, i, next - 1)
             num == Stream(i).num
             sample == SampleOf(p)
             ticks == IF ConstantSize(Stream(i)) THEN 1 ELSE num * p.duration
             told == [sample EXCEPT !.duration = ticks]
             waiting == [noted EXCEPT !.lastSample = sample]
             added == [noted EXCEPT !.lastSample = NoSample, !.media = Append(@, told)]
             t == AddPacket(s, p)
  <1>1. /\ file \in Files /\ p.stream = i /\ i \in Streams /\ next \in Nat \ {0} /\ p.dts \in Int
        /\ p.pos \in Nat /\ p.size \in Nat /\ p.size > 0 /\ p.duration \in Nat /\ p \in PacketSet
    BY PacketOf, PacketsAre DEF TypeInv, HasData, HasSample, PacketSet
  <1>2. num \in Nat BY <1>1, TimesAssumption DEF Streams, Stream
  <1>3. Fields(ready) /\ ready.media \in Seq(Sample) /\ Tells(ready.media, ps, num) /\ LastsTo(ready.media, ps, num, p)
    BY AddWaitingTells
  <1>4. next - 1 \in 0 .. Len(file.packets) - 1 /\ (next - 1) + 1 = next /\ (next + 1) - 1 = next /\ next - 1 \in 0 .. Len(file.packets)
    BY <1>1, PacketOf
  <1>5. ps \in Seq(PacketSet) BY <1>1, <1>4, FirstOfType
  <1>6. FirstOf(file, i, (next + 1) - 1) = Append(ps, p)
    <2>1. HasData(file, i, (next - 1) + 1) BY <1>4
    <2>2. FirstOf(file, i, (next - 1) + 1) = Append(FirstOf(file, i, next - 1), file.packets[(next - 1) + 1])
      BY <1>1, <1>4, <2>1, FirstOfGrows
    <2> QED BY <1>4, <2>2
  <1>7. /\ sample \in Sample /\ sample.pos = p.pos /\ sample.count > 0
        /\ ConstantSize(Stream(i)) => sample.count = SamplesIn(p.size)
        /\ ~ConstantSize(Stream(i)) => sample.count = 1
    BY <1>1 DEF SampleOf, SamplesIn, Sample
  <1>8. t = IF IsTold(file, i, next) THEN added ELSE waiting
    <2>1. p.duration = 0 \/ ~TrustPacketDuration(file, p.stream) <=> ~IsTold(file, i, next) BY <1>1 DEF IsTold
    <2> HIDE DEF sample, ready
    <2>2. t = IF p.duration = 0 \/ ~TrustPacketDuration(file, p.stream) THEN waiting ELSE added
      BY <1>1 DEF AddPacket, ready, sample
    <2> QED BY <2>1, <2>2
  <1> HIDE DEF sample, ready, ps, num, ticks, t
  <1>9. DOMAIN noted = DOMAIN ready /\ noted.media = ready.media /\ noted.lastdts = p.dts
    BY <1>3 DEF Fields, NewStream
  <1>10. DOMAIN noted = DOMAIN NewStream(TRUE) BY <1>3, <1>9 DEF Fields
  <1> HIDE DEF noted
  <1>11. Len(Append(ps, p)) = Len(ps) + 1 /\ Append(ps, p)[Len(ps) + 1] = p /\ Len(ps) \in Nat
    BY <1>1, <1>5, AppendIs
  <1>12. LastBefore(file, i, next + 1, next)
    <2>1. next \in 1 .. (next + 1) - 1 /\ \A j \in next + 1 .. (next + 1) - 1 : FALSE BY <1>1
    <2> QED BY <2>1 DEF LastBefore
  <1>13. CASE ~IsTold(file, i, next)
    <2>1. t.media = ready.media /\ t.lastSample = sample /\ t.lastdts = p.dts
      BY <1>8, <1>9, <1>10, <1>13 DEF NewStream
    <2>2. Full(t, FALSE) = Append(ready.media, sample) BY <1>7, <2>1 DEF Full
    <2>3. Tells(Full(t, FALSE), Append(ps, p), num) BY <1>1, <1>3, <1>5, <1>7, <2>2, TellsGrows
    <2>4. LastOK(file, t, i, next + 1, Append(ps, p))
      <3> DEFINE qs == Append(ps, p)
      <3>1. Len(qs) > 0 /\ qs[Len(qs)] = file.packets[next] BY <1>11
      <3> HIDE DEF qs
      <3>2. t.lastSample.count > 0 /\ (ConstantSize(Stream(i)) \/ t.lastSample.count = 1) BY <1>7, <2>1
      <3>3. LastOK(file, t, i, next + 1, qs) BY <1>12, <1>13, <2>1, <3>1, <3>2 DEF LastOK, Stream
      <3> QED BY <3>3 DEF qs
    <2> QED BY <1>6, <2>3, <2>4 DEF Imports, Stream, num, t
  <1>14. CASE IsTold(file, i, next)
    <2>1. t.media = Append(ready.media, told) /\ t.lastSample = NoSample
      <3> HIDE DEF told
      <3> QED BY <1>8, <1>9, <1>10, <1>14 DEF NewStream
    <2>2. ticks \in Nat
      <3>1. num * p.duration \in Nat BY <1>1, <1>2
      <3> QED BY <3>1 DEF ticks
    <2>3. told \in Sample /\ told.pos = p.pos /\ told.count = sample.count /\ told.duration = ticks
      BY <1>7, <2>2 DEF Sample
    <2> HIDE DEF told
    <2>4. told.count * told.duration = ToldTicks(file, i, next)
      <3>1. CASE ConstantSize(Stream(i))
        <4>1. told.count = SamplesIn(p.size) /\ told.duration = 1 BY <1>7, <2>3, <3>1 DEF ticks
        <4>2. told.count \in Nat BY <2>3 DEF Sample
        <4>3. ToldTicks(file, i, next) = SamplesIn(p.size) BY <3>1 DEF ToldTicks, Stream
        <4> QED BY <4>1, <4>2, <4>3
      <3>2. CASE ~ConstantSize(Stream(i))
        <4>1. told.count = 1 /\ told.duration = num * p.duration BY <1>7, <2>3, <3>2 DEF ticks
        <4>2. ToldTicks(file, i, next) = num * p.duration BY <3>2 DEF ToldTicks, Stream, num
        <4>3. num * p.duration \in Nat BY <1>1, <1>2
        <4> QED BY <4>1, <4>2, <4>3
      <3> QED BY <3>1, <3>2
    <2>5. t.lastSample.count = 0 /\ Full(t, FALSE) = t.media BY <2>1 DEF Full, NoSample
    <2>6. Tells(Full(t, FALSE), Append(ps, p), num) BY <1>1, <1>3, <1>5, <2>1, <2>3, <2>5, TellsGrows
    <2>7. LastOK(file, t, i, next + 1, Append(ps, p))
      <3> DEFINE qs == Append(ps, p)
      <3>1. Len(qs) > 0 /\ qs[Len(qs)] = file.packets[next] /\ Len(qs) = Len(ps) + 1 BY <1>11
      <3> HIDE DEF qs
      <3>2. Len(ready.media) = Len(ps) BY <1>3 DEF Tells
      <3>3. t.media[Len(qs)] = told BY <1>3, <2>1, <2>3, <3>1, <3>2, AppendIs
      <3>4. LastOK(file, t, i, next + 1, qs) BY <1>12, <1>14, <2>4, <2>5, <3>1, <3>3 DEF LastOK, Stream
      <3> QED BY <3>4 DEF qs
    <2> QED BY <1>6, <2>6, <2>7 DEF Imports, Stream, num, t
  <1> QED BY <1>13, <1>14

-----------------------------------------------------------------------------
(* The invariant. *)

\* The index of every stream is shifted by header_offset.
OffsetInv ==
  /\ \A i \in Streams : Len(file.index[i]) > 1
  /\ file.kind # "flv" => header_offset \in Int /\ \A i \in Streams : IndexedBy(file, i, header_offset)

\* The media are those of the index, or of the packets read.
MadeOf(f, indexed, map, n, ended) ==
  \A i \in DOMAIN map :
    map[i].valid =>
      IF indexed
      THEN /\ map[i].lastSample.count = 0 /\ map[i].media \in Seq(Sample)
           /\ Tells(map[i].media, IF f.kind = "flv" THEN <<>> ELSE PacketsOf(i, f.packets), f.streams[i].num)
      ELSE Imports(f, map[i], i, n, ended)

MediaInv ==
  /\ phase \in {"open", "prepare", "prepared", "reading", "returning", "idle", "done", "failed"}
  /\ phase \in {"open", "prepare", "failed"} => stream_map = <<>>
  /\ phase \in {"open", "prepare", "prepared"} => next = 1
  /\ next - 1 <= Len(file.packets)
  /\ DOMAIN stream_map \subseteq Streams
  /\ phase = "prepare" \/ Prepared \/ stream_map # <<>> => ValidateDataRef(file)
  /\ phase # "returning" => ~call.ended
  /\ phase \in {"prepare", "prepared"} /\ hadIndex => OffsetInv
  /\ MadeOf(file, hadIndex /\ phase = "done", stream_map, next, call.ended \/ phase = "done")

LEMMA MediaInit == Init => MediaInv
  <1> SUFFICES ASSUME Init PROVE MediaInv OBVIOUS
  <1>1. file \in Files /\ phase = "open" /\ next = 1 /\ stream_map = <<>> /\ ~call.ended BY DEF Init, NoCall
  <1>2. Len(file.packets) \in Nat BY <1>1, PacketsAre
  <1>3. DOMAIN stream_map = {} BY <1>1
  <1> QED BY <1>1, <1>2, <1>3 DEF MediaInv, MadeOf, Stream, Prepared

\* Nothing to speak of is changed, or there are no streams yet.
LEMMA AsideMedia ==
  ASSUME MediaInv, UNCHANGED <<file, stream_map, next, call>>,
         \/ phase \in {"open", "prepare"} /\ phase' \in {"failed", "done"}
         \/ UNCHANGED <<phase, hadIndex, header_offset>>
  PROVE  MediaInv'
  <1>1. CASE phase \in {"open", "prepare"} /\ phase' \in {"failed", "done"}
    <2>1. stream_map' = <<>> BY <1>1 DEF MediaInv
    <2>2. DOMAIN stream_map' = {} BY <2>1
    <2> QED BY <1>1, <2>1, <2>2 DEF MediaInv, MadeOf, Stream, Prepared
  <1>2. CASE UNCHANGED <<phase, hadIndex, header_offset>>
    <2>1. OffsetInv' = OffsetInv BY <1>2 DEF OffsetInv, Streams
    <2>2. MadeOf(file, hadIndex /\ phase = "done", stream_map, next, call.ended \/ phase = "done")' = MadeOf(file, hadIndex /\ phase = "done", stream_map, next, call.ended \/ phase = "done")
      BY <1>2 DEF MadeOf, Imports, FirstOf, LastOK, LastBefore, IsTold, ToldTicks, Stream
    <2>3. Streams' = Streams BY DEF Streams
    <2> QED BY <1>2, <2>1, <2>2, <2>3 DEF MediaInv, Prepared
  <1> QED BY <1>1, <1>2

LEMMA OffsetMedia == ASSUME BehindInv, MediaInv, DetermineHeaderOffset PROVE MediaInv'
  <1>1. /\ phase = "open" /\ phase' = "prepare" /\ ValidateDataRef(file)
        /\ Len(file.streams) \in 1 .. MaxStreams - 1
        /\ UNCHANGED <<file, stream_map, next, call>>
        /\ hadIndex' = \A i \in Streams : Len(file.index[i]) > 1
    BY DEF DetermineHeaderOffset
  <1>2. stream_map' = <<>> /\ DOMAIN stream_map' = {} BY <1>1 DEF MediaInv
  <1>3. TypeInv /\ file \in Files BY DEF BehindInv, TypeInv
  <1>4. ASSUME hadIndex' PROVE OffsetInv'
    <2>1. \A i \in Streams : Len(file.index[i]) > 1 BY <1>1, <1>4
    <2>2. ASSUME file.kind # "flv"
          PROVE  header_offset' \in Int /\ \A i \in Streams : IndexedBy(file, i, header_offset')
      <3>1. Indexed(file) BY <1>3, <2>1, <2>2, TellsAssumption DEF Streams
      <3>2. PICK shift \in -file.size .. file.size : \A i \in Streams : IndexedBy(file, i, shift)
        BY <3>1 DEF Indexed, Streams
      <3>3. shift \in Int
        <4>1. file.size \in Nat BY <1>3, ImportAssumption
        <4> QED BY <4>1
      <3>4. 1 \in Streams
        <4>1. Len(file.streams) \in Nat /\ DOMAIN file.streams = 1 .. Len(file.streams) BY <1>3, TellsAssumption
        <4>2. 1 <= Len(file.streams) BY <1>1, <4>1
        <4> QED BY <4>1, <4>2 DEF Streams
      <3>5. file.index[1] # <<>>
        <4>1. Len(file.index[1]) > 1 BY <2>1, <3>4
        <4>2. ~(Len(<<>>) > 1) OBVIOUS
        <4> QED BY <4>1, <4>2
      <3>6. PICK k \in DOMAIN file.packets : header_offset' = HeaderOffset(file.packets[k])
        BY <2>2, <3>5 DEF DetermineHeaderOffset
      <3>7. file.packets[k].stream \in Streams BY <1>3, PacketOf
      <3>8. header_offset' = shift BY <1>3, <3>2, <3>3, <3>6, <3>7, HeaderOffsetIs
      <3> QED BY <3>2, <3>3, <3>8
    <2> QED BY <1>1, <2>1, <2>2 DEF OffsetInv, Streams
  <1> QED BY <1>1, <1>2, <1>4 DEF MediaInv, MadeOf, Stream, Prepared

LEMMA PrepareMedia == ASSUME MediaInv, PrepareMovie PROVE MediaInv'
  <1>1. PICK valid \in [Streams -> BOOLEAN] : stream_map' = [i \in Streams |-> NewStream(valid[i])]
    BY DEF PrepareMovie
  <1>2. /\ phase = "prepare" /\ phase' = "prepared" /\ UNCHANGED <<file, hadIndex, header_offset, next, call>>
    BY DEF PrepareMovie, header
  <1>3. next = 1 /\ ~call.ended BY <1>2 DEF MediaInv
  <1>4. ASSUME NEW i \in DOMAIN stream_map' PROVE Imports(file, stream_map'[i], i, 1, FALSE)
    <2>1. stream_map'[i] = NewStream(valid[i]) BY <1>1
    <2> QED BY <2>1, NewImports
  <1>5. MadeOf(file', hadIndex' /\ phase' = "done", stream_map', next', call'.ended \/ phase' = "done")
    <2>1. (call'.ended \/ phase' = "done") = FALSE /\ (hadIndex' /\ phase' = "done") = FALSE BY <1>2, <1>3
    <2>2. \A i \in DOMAIN stream_map' : Imports(file', stream_map'[i], i, next', FALSE) BY <1>2, <1>3, <1>4
    <2> QED BY <2>1, <2>2 DEF MadeOf
  <1>6. OffsetInv' = OffsetInv BY <1>2 DEF OffsetInv, Streams
  <1> QED BY <1>1, <1>2, <1>3, <1>5, <1>6 DEF MediaInv, Streams, Prepared

\* An index that is not used.
LEMMA SkipMedia == ASSUME BehindInv, TracksInv, MediaInv, SkipIndex PROVE MediaInv'
  <1>1. /\ phase = "prepared" /\ phase' = "done" /\ hadIndex /\ file.kind = "flv"
        /\ UNCHANGED <<file, stream_map, hadIndex, next, call>>
    BY DEF SkipIndex, Ended, header
  <1>2. next = 1 /\ ~call.ended BY <1>1 DEF MediaInv
  <1>3. ASSUME NEW i \in DOMAIN stream_map, stream_map[i].valid
        PROVE  /\ stream_map[i].lastSample.count = 0 /\ stream_map[i].media \in Seq(Sample)
               /\ Tells(stream_map[i].media, <<>>, Stream(i).num)
    <2>1. Kept(stream_map[i], i, next) BY <1>1, <1>3 DEF TracksInv
    <2>2. Imports(file, stream_map[i], i, 1, FALSE)
      <3>1. (hadIndex /\ phase = "done") = FALSE /\ (call.ended \/ phase = "done") = FALSE BY <1>1, <1>2
      <3>2. MadeOf(file, FALSE, stream_map, 1, FALSE) BY <1>2, <3>1 DEF MediaInv
      <3> QED BY <1>3, <3>2 DEF MadeOf
    <2>3. FirstOf(file, i, 1 - 1) = <<>> BY FirstOfNone
    <2>4. /\ LastOK(file, stream_map[i], i, 1, <<>>)
          /\ Tells(Full(stream_map[i], FALSE), <<>>, Stream(i).num)
      BY <2>2, <2>3 DEF Imports, Stream
    <2>5. ~\E m : m \in 1 .. 1 - 1 OBVIOUS
    <2>6. stream_map[i].lastSample.count = 0 BY <2>4, <2>5 DEF LastOK, Stream, LastBefore
    <2>7. Full(stream_map[i], FALSE) = stream_map[i].media BY <2>6 DEF Full
    <2> QED BY <2>1, <2>4, <2>6, <2>7 DEF Kept, Holds
  <1>4. MadeOf(file, TRUE, stream_map, next, TRUE) BY <1>1, <1>3 DEF MadeOf, Stream
  <1>5. MadeOf(file, hadIndex /\ phase = "done", stream_map, next, call.ended \/ phase = "done")'
    <2>1. (hadIndex' /\ phase' = "done") = TRUE /\ (call'.ended \/ phase' = "done") = TRUE BY <1>1, <1>2
    <2> QED BY <1>1, <1>4, <2>1
  <1> QED BY <1>1, <1>2, <1>5 DEF MediaInv, Streams, Prepared

LEMMA IndexMediaKept == ASSUME BehindInv, TracksInv, MediaInv, ImportUsingIndex PROVE MediaInv'
  <1>1. /\ phase = "prepared" /\ phase' = "done" /\ hadIndex /\ file.kind # "flv"
        /\ UNCHANGED <<file, hadIndex, header_offset, next, call>>
    BY DEF ImportUsingIndex, header
  <1>2. /\ file \in Files /\ IsMap(stream_map) /\ OffsetInv /\ ~call.ended /\ next = 1
        /\ DOMAIN stream_map = Streams
    BY <1>1 DEF BehindInv, TypeInv, MapInv, Prepared, MediaInv, IsMap
  <1>3. DOMAIN stream_map' = Streams BY DEF ImportUsingIndex
  <1>4. ASSUME NEW i \in Streams, stream_map'[i].valid
        PROVE  /\ stream_map'[i].lastSample.count = 0 /\ stream_map'[i].media \in Seq(Sample)
               /\ Tells(stream_map'[i].media, PacketsOf(i, file.packets), Stream(i).num)
    <2>1. stream_map[i].valid
      <3>1. ~stream_map[i].valid => stream_map'[i] = stream_map[i] BY DEF ImportUsingIndex
      <3> QED BY <1>4, <3>1
    <2>2. Kept(stream_map[i], i, next) BY <1>1, <1>2, <2>1 DEF TracksInv
    <2>3. stream_map'[i] =
            [stream_map[i] EXCEPT !.media = IndexMedia(i), !.offset = StartDelay(i),
                                  !.regions = << <<0, MediaDuration(IndexMedia(i))>> >>]
      BY <2>1 DEF ImportUsingIndex
    <2>4. stream_map'[i].media = IndexMedia(i) /\ stream_map'[i].lastSample = stream_map[i].lastSample
      BY <2>2, <2>3 DEF Kept, Fields, NewStream
    <2>5. stream_map[i].lastSample.count = 0
      <3>1. Imports(file, stream_map[i], i, 1, FALSE) BY <1>1, <1>2, <2>1 DEF MediaInv, MadeOf, Stream, Prepared
      <3>2. FirstOf(file, i, 1 - 1) = <<>> BY FirstOfNone
      <3>3. LastOK(file, stream_map[i], i, 1, <<>>) BY <3>1, <3>2 DEF Imports, Stream
      <3>4. ~\E m : m \in 1 .. 1 - 1 OBVIOUS
      <3> QED BY <3>3, <3>4 DEF LastOK, Stream, LastBefore
    <2>6. Stream(i).type \in {"video", "audio"}
      <3>1. TRUE \in MayBeValid(Stream(i)) BY <1>2, <2>1 DEF IsMap
      <3> QED BY <3>1 DEF MayBeValid
    <2>7. header_offset \in Int /\ IndexedBy(file, i, header_offset) /\ Len(file.index[i]) > 1
      BY <1>1, <1>2 DEF OffsetInv
    <2>8. IndexMedia(i) \in Seq(Sample) /\ Tells(IndexMedia(i), PacketsOf(i, file.packets), Stream(i).num)
      BY <1>2, <2>6, <2>7, IndexTells
    <2> QED BY <2>4, <2>5, <2>8
  <1>5. MadeOf(file, hadIndex /\ phase = "done", stream_map, next, call.ended \/ phase = "done")' BY <1>1, <1>3, <1>4 DEF MadeOf, Stream
  <1>6. ValidateDataRef(file) BY <1>1 DEF MediaInv, Prepared
  <1>7. next - 1 <= Len(file.packets) BY DEF MediaInv
  <1> QED BY <1>1, <1>2, <1>3, <1>5, <1>6, <1>7 DEF MediaInv, Streams, Prepared

\* What the invariant says of a stream that is not imported along the index.
LEMMA ImportsOf ==
  ASSUME MediaInv, ~(hadIndex /\ phase = "done"), NEW i \in DOMAIN stream_map, stream_map[i].valid
  PROVE  Imports(file, stream_map[i], i, next, call.ended \/ phase = "done")
  <1>1. (hadIndex /\ phase = "done") = FALSE OBVIOUS
  <1> QED BY <1>1 DEF MediaInv, MadeOf

\* It is kept when each stream has the samples of the packets read.
LEMMA MediaAgain ==
  ASSUME MediaInv, Prepared, file' = file, ~hadIndex', DOMAIN stream_map' \subseteq Streams,
         phase' \in {"reading", "returning", "idle", "done"}, next' - 1 <= Len(file.packets),
         phase' # "returning" => ~call'.ended,
         \A i \in DOMAIN stream_map' :
           stream_map'[i].valid => Imports(file, stream_map'[i], i, next', call'.ended \/ phase' = "done")
  PROVE  MediaInv'
  <1>1. (hadIndex' /\ phase' = "done") = FALSE OBVIOUS
  <1>2. MadeOf(file', hadIndex' /\ phase' = "done", stream_map', next', call'.ended \/ phase' = "done")
    BY <1>1 DEF MadeOf
  <1>3. ValidateDataRef(file') BY DEF MediaInv
  <1>4. Streams' = Streams BY DEF Streams
  <1> QED BY <1>2, <1>3, <1>4 DEF MediaInv

\* Samples do not depend on the regions of the track.
LEMMA SameImports ==
  ASSUME NEW i, NEW n, NEW ended, NEW s, NEW t, Imports(file, s, i, n, ended),
         t.media = s.media, t.lastSample = s.lastSample, t.lastdts = s.lastdts
  PROVE  Imports(file, t, i, n, ended)
  <1>1. Full(t, ended) = Full(s, ended) BY DEF Full
  <1> QED BY <1>1 DEF Imports, LastOK

LEMMA BeginMedia ==
  ASSUME BehindInv, TracksInv, MediaInv, ImportWithIdle \/ \E now \in MovieTimes : Idle(now)
  PROVE  MediaInv'
  <1> DEFINE Noted(s) == [s EXCEPT !.duration = IF @ = -1 THEN MediaDuration(s.media) ELSE @]
  <1>1. /\ phase \in {"prepared", "idle"} /\ phase' = "reading" /\ ~hadIndex
        /\ UNCHANGED <<file, next, hadIndex>>
        /\ stream_map' = [i \in Streams |-> Noted(stream_map[i])]
    BY DEF ImportWithIdle, Idle, Begin, TracksInv, header
  <1>2. ~call'.ended BY DEF ImportWithIdle, Idle, Begin, NoCall
  <1> HIDE DEF Noted
  <1>3. DOMAIN stream_map = Streams /\ DOMAIN stream_map' = Streams
    BY <1>1 DEF BehindInv, MapInv, Prepared, IsMap
  <1>4. \A i \in Streams : "valid" \in DOMAIN stream_map[i]
    BY <1>1 DEF BehindInv, MapInv, Prepared, IsMap
  <1>5. ~call.ended /\ next - 1 <= Len(file.packets) BY <1>1 DEF MediaInv
  <1>6. (call.ended \/ phase = "done") = FALSE /\ (call'.ended \/ phase' = "done") = FALSE BY <1>1, <1>2, <1>5
  <1>7. ASSUME NEW i \in Streams, stream_map'[i].valid PROVE Imports(file, stream_map'[i], i, next, FALSE)
    <2> DEFINE s == stream_map[i]
               t == stream_map'[i]
    <2>1. t = Noted(s) BY <1>1
    <2>2. s.valid BY <1>4, <1>7, <2>1 DEF Noted
    <2>3. Kept(s, i, next) BY <1>1, <1>3, <2>2 DEF TracksInv
    <2>4. Imports(file, s, i, next, FALSE) BY <1>1, <1>3, <1>6, <2>2, ImportsOf
    <2>5. t.media = s.media /\ t.lastSample = s.lastSample /\ t.lastdts = s.lastdts
      BY <2>1, <2>3 DEF Noted, Kept, Fields, NewStream
    <2> HIDE DEF s, t
    <2>6. Imports(file, t, i, next, FALSE) BY <2>4, <2>5, SameImports
    <2> QED BY <2>6 DEF t
  <1> QED BY <1>1, <1>2, <1>3, <1>5, <1>6, <1>7, MediaAgain DEF Prepared

LEMMA ReadMedia == ASSUME BehindInv, TracksInv, MediaInv, ReadFrame PROVE MediaInv'
  <1> DEFINE p == file.packets[next]
  <1>1. /\ phase = "reading" /\ phase' \in {"reading", "returning"} /\ ~hadIndex
        /\ UNCHANGED <<file, hadIndex>> /\ next' = next + 1 /\ next \in Nat \ {0} /\ next <= Len(file.packets)
    BY DEF ReadFrame, TracksInv, BehindInv, TypeInv, header
  <1>2. TypeInv /\ IsMap(stream_map) /\ IsCall(call) BY <1>1 DEF BehindInv, MapInv, Prepared, TypeInv
  <1>3. next \in DOMAIN file.packets
    <2>1. Len(file.packets) \in Nat /\ DOMAIN file.packets = 1 .. Len(file.packets)
      BY <1>2, PacketsAre DEF TypeInv
    <2> QED BY <1>1, <2>1
  <1>4. p.stream \in Streams /\ p.size \in Nat /\ p.pos \in Int /\ next' - 1 <= Len(file.packets) BY <1>1, <1>2, <1>3, PacketOf
  <1>5. ~call.ended BY <1>1 DEF MediaInv
  <1>6. ~call'.ended
    <2>1. call' = call \/ call' = [call EXCEPT !.firstPts[p.stream] = FirstPts(p)]
            \/ call' = [[call EXCEPT !.firstPts[p.stream] = FirstPts(p)] EXCEPT !.framesProcessed = call.framesProcessed + 1]
      BY DEF ReadFrame
    <2> QED BY <1>2, <1>5, <2>1 DEF IsCall, NoCall
  <1>7. (call.ended \/ phase = "done") = FALSE /\ (call'.ended \/ phase' = "done") = FALSE BY <1>1, <1>5, <1>6
  <1>8. ASSUME NEW i \in Streams, stream_map[i].valid
        PROVE  Kept(stream_map[i], i, next) /\ Imports(file, stream_map[i], i, next, FALSE)
    <2>1. i \in DOMAIN stream_map BY <1>2 DEF IsMap
    <2>2. Imports(file, stream_map[i], i, next, call.ended \/ phase = "done") BY <1>1, <1>8, <2>1, ImportsOf
    <2>3. Kept(stream_map[i], i, next) BY <1>1, <1>8, <2>1 DEF TracksInv
    <2> QED BY <1>7, <2>2, <2>3
  <1>9. \/ stream_map' = stream_map /\ ~(stream_map[p.stream].valid /\ HasSample(p))
        \/ /\ stream_map' = [stream_map EXCEPT ![p.stream] = AddPacket(@, p)]
           /\ stream_map[p.stream].valid /\ HasSample(p)
    BY <1>4 DEF ReadFrame, HasSample
  <1>10. DOMAIN stream_map' = Streams BY <1>2, <1>9 DEF IsMap
  <1>11. ASSUME NEW i \in Streams, stream_map'[i].valid PROVE Imports(file, stream_map'[i], i, next + 1, FALSE)
    <2>1. CASE stream_map' = stream_map /\ ~(stream_map[p.stream].valid /\ HasSample(p))
      <3>1. ~HasData(file, i, next) BY <1>11, <2>1 DEF HasData
      <3>2. Imports(file, stream_map[i], i, next, FALSE) BY <1>8, <1>11, <2>1
      <3> QED BY <1>2, <1>3, <2>1, <3>1, <3>2, OtherImports
    <2>2. CASE stream_map' = [stream_map EXCEPT ![p.stream] = AddPacket(@, p)] /\ stream_map[p.stream].valid /\ HasSample(p)
      <3>1. CASE i = p.stream
        <4>1. stream_map'[i] = AddPacket(stream_map[i], p) BY <1>2, <2>2, <3>1 DEF IsMap
        <4>2. HasData(file, i, next) BY <2>2, <3>1 DEF HasData
        <4>3. Kept(stream_map[i], i, next) /\ Imports(file, stream_map[i], i, next, FALSE) BY <1>8, <2>2, <3>1
        <4> QED BY <1>2, <1>3, <4>1, <4>2, <4>3, AddPacketTells
      <3>2. CASE i # p.stream
        <4>1. stream_map'[i] = stream_map[i] BY <1>2, <2>2, <3>2 DEF IsMap
        <4>2. ~HasData(file, i, next) BY <3>2 DEF HasData
        <4>3. Imports(file, stream_map[i], i, next, FALSE) BY <1>8, <1>11, <4>1
        <4> QED BY <1>2, <1>3, <4>1, <4>2, <4>3, OtherImports
      <3> QED BY <3>1, <3>2
    <2> QED BY <1>9, <2>1, <2>2
  <1> QED BY <1>1, <1>4, <1>6, <1>7, <1>10, <1>11, MediaAgain DEF Prepared

LEMMA ReadEndsMedia == ASSUME BehindInv, TracksInv, MediaInv, ReadEnds PROVE MediaInv'
  <1>1. /\ phase = "reading" /\ phase' = "returning" /\ ~hadIndex
        /\ UNCHANGED <<file, hadIndex, next>> /\ call' = [call EXCEPT !.ended = TRUE]
    BY DEF ReadEnds, TracksInv, header
  <1>2. IsMap(stream_map) /\ IsCall(call) BY <1>1 DEF BehindInv, MapInv, Prepared, TypeInv
  <1>3. DOMAIN stream_map' = Streams BY DEF ReadEnds
  <1>4. call'.ended = TRUE BY <1>1, <1>2 DEF IsCall, NoCall
  <1>5. ~call.ended /\ next - 1 <= Len(file.packets) BY <1>1 DEF MediaInv
  <1>6. (call.ended \/ phase = "done") = FALSE /\ (call'.ended \/ phase' = "done") = TRUE BY <1>1, <1>4, <1>5
  <1>7. ASSUME NEW i \in Streams, stream_map'[i].valid PROVE Imports(file, stream_map'[i], i, next, TRUE)
    <2> DEFINE s == stream_map[i]
               t == stream_map'[i]
    <2>1. t = [s EXCEPT !.media = IF s.lastSample.count > 0 THEN Append(@, s.lastSample) ELSE @] BY DEF ReadEnds
    <2>2. s.valid BY <1>2, <1>7, <2>1 DEF IsMap
    <2>3. Kept(s, i, next) BY <1>1, <1>2, <2>2 DEF TracksInv, IsMap
    <2>4. Imports(file, s, i, next, FALSE)
      <3>1. i \in DOMAIN stream_map BY <1>2 DEF IsMap
      <3> QED BY <1>1, <1>6, <2>2, <3>1, ImportsOf
    <2>5. t.media = IF s.lastSample.count > 0 THEN Append(s.media, s.lastSample) ELSE s.media
      BY <2>1, <2>3 DEF Kept, Fields, NewStream
    <2> HIDE DEF s, t
    <2>6. Full(t, TRUE) = Full(s, FALSE) BY <2>5 DEF Full
    <2>7. Imports(file, t, i, next, TRUE) BY <2>4, <2>6 DEF Imports
    <2> QED BY <2>7 DEF t
  <1> QED BY <1>1, <1>3, <1>5, <1>6, <1>7, MediaAgain DEF Prepared

LEMMA ReturnMedia == ASSUME BehindInv, TracksInv, MediaInv, Return PROVE MediaInv'
  <1>1. /\ phase = "returning" /\ phase' = (IF call.ended THEN "done" ELSE "idle") /\ ~hadIndex
        /\ UNCHANGED <<file, hadIndex, next>>
        /\ stream_map' = [i \in Streams |-> Inserted(i)] /\ call' = NoCall
    BY DEF Return, TracksInv, header, Complete
  <1>2. IsMap(stream_map) BY <1>1 DEF BehindInv, MapInv, Prepared
  <1>3. DOMAIN stream_map' = Streams /\ phase' \in {"idle", "done"} /\ ~call'.ended BY <1>1 DEF NoCall
  <1>4. next - 1 <= Len(file.packets) BY DEF MediaInv
  <1>5. (call.ended \/ phase = "done") = (call'.ended \/ phase' = "done") BY <1>1, <1>3
  <1>6. ASSUME NEW i \in Streams, stream_map'[i].valid
        PROVE  Imports(file, stream_map'[i], i, next, call.ended \/ phase = "done")
    <2> DEFINE s == stream_map[i]
               t == stream_map'[i]
    <2>1. t = Inserted(i) BY <1>1
    <2>2. s.valid BY <1>2, <1>6, <2>1 DEF IsMap, Inserted
    <2>3. Kept(s, i, next) BY <1>1, <1>2, <2>2 DEF TracksInv, IsMap
    <2>4. Imports(file, s, i, next, call.ended \/ phase = "done")
      <3>1. i \in DOMAIN stream_map BY <1>2 DEF IsMap
      <3> QED BY <1>1, <2>2, <3>1, ImportsOf
    <2>5. t.media = s.media /\ t.lastSample = s.lastSample /\ t.lastdts = s.lastdts
      BY <2>1, <2>3 DEF Inserted, Kept, Fields, NewStream
    <2> HIDE DEF s, t
    <2>6. Imports(file, t, i, next, call.ended \/ phase = "done") BY <2>4, <2>5, SameImports
    <2> QED BY <2>6 DEF t
  <1>7. \A i \in DOMAIN stream_map' :
          stream_map'[i].valid => Imports(file, stream_map'[i], i, next', call'.ended \/ phase' = "done")
    BY <1>1, <1>3, <1>5, <1>6
  <1> QED BY <1>1, <1>3, <1>4, <1>7, MediaAgain DEF Prepared

LEMMA MediaNext == BehindInv /\ TracksInv /\ MediaInv /\ [Next]_vars => MediaInv'
  <1> SUFFICES ASSUME BehindInv, TracksInv, MediaInv, [Next]_vars PROVE MediaInv' OBVIOUS
  <1>1. CASE ImportFails BY <1>1, AsideMedia DEF ImportFails, Ended, header
  <1>2. CASE WrongStreams BY <1>2, AsideMedia DEF WrongStreams, Ended, header
  <1>3. CASE DetermineHeaderOffset BY <1>3, OffsetMedia
  <1>4. CASE DataArrives BY <1>4, AsideMedia DEF DataArrives, header
  <1>5. CASE UNCHANGED vars BY <1>5, AsideMedia DEF vars, header
  <1>6. CASE PrepareMovie BY <1>6, PrepareMedia
  <1>7. CASE ImportUsingIndex BY <1>7, IndexMediaKept
  <1>8. CASE ImportWithIdle \/ \E now \in MovieTimes : Idle(now) BY <1>8, BeginMedia
  <1>9. CASE ReadFrame BY <1>9, ReadMedia
  <1>10. CASE ReadEnds BY <1>10, ReadEndsMedia
  <1>11. CASE Return BY <1>11, ReturnMedia
  <1>12. CASE SkipIndex BY <1>12, SkipMedia
  <1> QED BY <1>1, <1>2, <1>3, <1>4, <1>5, <1>6, <1>7, <1>8, <1>9, <1>10, <1>11, <1>12 DEF Next

\* The codec that is seen in the header is that of the first stream.
LEMMA NotLeftToApple ==
  ASSUME file \in Files, ValidateDataRef(file), file.streams # <<>>, file.kind = "avi", Stream(1).type = "video"
  PROVE  Stream(1).codec \notin LeftToApple
  <1> DEFINE told == {k \in DOMAIN file.chunks : TellsCodec(file.chunks[k])}
  <1>1. HeaderTells(file) /\ DOMAIN file.chunks \subseteq Nat BY TellsAssumption DEF Stream
  <1>2. PICK k \in DOMAIN file.chunks :
          /\ TellsCodec(file.chunks[k]) /\ file.chunks[k].codec = file.streams[1].codec
          /\ \A j \in DOMAIN file.chunks : j < k => ~TellsCodec(file.chunks[j])
    BY <1>1 DEF HeaderTells
  <1>3. told # {} /\ told \in SUBSET Nat /\ k \in told BY <1>1, <1>2
  <1>4. get_avi_strf_fourcc(file) = file.chunks[Min(told)].codec BY <1>3 DEF get_avi_strf_fourcc
  <1>5. Min(told) = k
    <2>1. Min(told) \in told /\ Min(told) <= k BY <1>3, MinOf
    <2>2. ~(Min(told) < k) BY <1>2, <2>1
    <2>3. Min(told) \in Nat /\ k \in Nat BY <1>3, <2>1
    <2> HIDE DEF told
    <2> QED BY <2>1, <2>2, <2>3
  <1> HIDE DEF told
  <1> QED BY <1>2, <1>4, <1>5 DEF ValidateDataRef, Stream

\* What the invariant says of the samples.
LEMMA SamplesTell ==
  ASSUME BehindInv, TracksInv, MediaInv, NEW i \in Valid
  PROVE  /\ SamplesOf(i) \in Seq(Sample) /\ Imported(i) \in Seq(PacketSet)
         /\ Tells(SamplesOf(i), Imported(i), Stream(i).num)
  <1> DEFINE s == stream_map[i]
             ended == call.ended \/ phase = "done"
             n == Len(file.packets)
  <1>1. /\ file \in Files /\ next \in Nat \ {0} /\ next - 1 <= n /\ n \in Nat
        /\ i \in DOMAIN stream_map /\ s.valid
    BY PacketsAre DEF BehindInv, TypeInv, MediaInv, Valid
  <1>2. next - 1 \in 0 .. n /\ n \in 0 .. n BY <1>1
  <1>3. SamplesOf(i) = s.media \o (IF s.lastSample.count > 0 /\ ~ended THEN <<s.lastSample>> ELSE <<>>)
    BY DEF SamplesOf, Waiting
  <1> HIDE DEF ended
  <1>4. ASSUME ~(hadIndex /\ phase = "done")
        PROVE  /\ s.media \in Seq(Sample) /\ SamplesOf(i) \in Seq(Sample) /\ SamplesOf(i) = Full(s, ended)
               /\ Imports(file, s, i, next, ended)
    <2>1. s.media \in Seq(Sample) /\ s.lastSample \in Sample BY <1>1, <1>4 DEF TracksInv, Kept, Holds, Waits
    <2>2. Imports(file, s, i, next, ended) BY <1>1, <1>4, ImportsOf DEF ended
    <2> HIDE DEF s
    <2>3. s.media \o <<s.lastSample>> = Append(s.media, s.lastSample) /\ s.media \o <<>> = s.media
            /\ Append(s.media, s.lastSample) \in Seq(Sample)
      BY <2>1
    <2> QED BY <1>3, <2>1, <2>2, <2>3 DEF Full
  <1>5. CASE ~hadIndex
    <2>1. Imported(i) = FirstOf(file, i, next - 1) BY <1>5 DEF Imported, FirstOf
    <2>2. FirstOf(file, i, next - 1) \in Seq(PacketSet) BY <1>1, <1>2, FirstOfType DEF n
    <2> QED BY <1>4, <1>5, <2>1, <2>2 DEF Imports, Stream
  <1>6. CASE hadIndex /\ phase # "done"
    <2>1. phase = "prepared"
      <3>1. stream_map # <<>> BY <1>1
      <3> QED BY <1>6, <3>1 DEF MediaInv, TracksInv
    <2>2. next = 1 BY <2>1 DEF MediaInv
    <2>3. Imported(i) = <<>> BY <1>6 DEF Imported
    <2>4. FirstOf(file, i, next - 1) = <<>> BY <2>2, FirstOfNone
    <2>5. <<>> \in Seq(PacketSet) OBVIOUS
    <2>6. Tells(Full(s, ended), <<>>, Stream(i).num) BY <1>4, <1>6, <2>4 DEF Imports, Stream
    <2> QED BY <1>4, <1>6, <2>3, <2>5, <2>6
  <1>7. CASE hadIndex /\ phase = "done"
    <2>1. (hadIndex /\ phase = "done") = TRUE BY <1>7
    <2>2. s.media \in Seq(Sample) /\ Tells(s.media, Imported(i), Stream(i).num)
      BY <1>1, <1>7, <2>1 DEF MediaInv, MadeOf, Stream, Imported
    <2>3. SamplesOf(i) = s.media
      <3>1. SamplesOf(i) = s.media \o <<>> BY <1>3, <1>7 DEF ended
      <3> HIDE DEF s
      <3> QED BY <2>2, <3>1
    <2>4. Imported(i) \in {PacketsOf(i, file.packets), <<>>} BY <1>7 DEF Imported
    <2>5. PacketsOf(i, file.packets) \in Seq(PacketSet) BY <1>1, <1>2, FirstOfAll, FirstOfType DEF n
    <2>6. <<>> \in Seq(PacketSet) OBVIOUS
    <2> QED BY <2>2, <2>3, <2>4, <2>5, <2>6
  <1> QED BY <1>5, <1>6, <1>7

(* For all files that tell their packets as TellsAssumption says, along the  *)
(* index or packet by packet and in however many calls of import_with_idle:  *)
(* the samples of a media are the packets of its stream, each once and in    *)
(* turn, at their place and at their time.                                   *)
THEOREM MediaAlwaysTellsFile == Spec => []MediaTellsFile
  <1>1. Init => BehindInv /\ TracksInv /\ LoadedInv /\ MediaInv BY BehindInit, TracksInit, MediaInit
  <1>2. BehindInv /\ TracksInv /\ LoadedInv /\ MediaInv /\ [Next]_vars
          => (BehindInv /\ TracksInv /\ LoadedInv /\ MediaInv)'
    BY BehindNext, TracksNext, MediaNext
  <1>3. BehindInv /\ TracksInv /\ MediaInv => MediaTellsFile
    <2> SUFFICES ASSUME BehindInv, TracksInv, MediaInv, NEW i \in Valid
                 PROVE  LET ps == Imported(i)
                            ss == SamplesOf(i)
                        IN /\ file.kind = "avi" /\ Stream(1).type = "video" => Stream(1).codec \notin LeftToApple
                           /\ Len(ss) = Len(ps)
                           /\ \A k \in DOMAIN ss :
                                /\ ss[k].pos = ps[k].pos
                                /\ MediaDuration(SubSeq(ss, 1, k - 1)) = (ps[k].dts - ps[1].dts) * Stream(i).num
      BY DEF MediaTellsFile
    <2>1. file \in Files /\ i \in DOMAIN stream_map /\ i \in Streams /\ ValidateDataRef(file)
      <3>1. i \in DOMAIN stream_map BY DEF Valid
      <3>2. stream_map # <<>> BY <3>1
      <3> QED BY <3>1, <3>2 DEF BehindInv, TypeInv, MediaInv
    <2>2. file.streams # <<>> BY <2>1 DEF Streams
    <2>3. file.kind = "avi" /\ Stream(1).type = "video" => Stream(1).codec \notin LeftToApple
      BY <2>1, <2>2, NotLeftToApple
    <2> DEFINE ps == Imported(i)
               ss == SamplesOf(i)
               num == Stream(i).num
    <2>4. ss \in Seq(Sample) /\ ps \in Seq(PacketSet) /\ Tells(ss, ps, num) BY SamplesTell
    <2>5. num \in Nat BY <2>1, TimesAssumption DEF Streams, Stream
    <2>6. \A p \in PacketSet : p.dts \in Int BY <2>1, PacketsAre
    <2> HIDE DEF ps, ss, num
    <2>7. \A k \in 1 .. Len(ss) : MediaDuration(SubSeq(ss, 1, k - 1)) = (ps[k].dts - ps[1].dts) * num
      BY <2>4, <2>5, <2>6, TellsTimes
    <2>8. Len(ss) = Len(ps) /\ DOMAIN ss = 1 .. Len(ss) /\ \A k \in 1 .. Len(ss) : ss[k].pos = ps[k].pos
      BY <2>4 DEF Tells
    <2> QED BY <2>3, <2>7, <2>8 DEF ps, ss, num
  <1> QED BY <1>1, <1>2, <1>3, PTL DEF Spec

=============================================================================
