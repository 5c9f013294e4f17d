------------------------- MODULE FFissionDecoderProofs -------------------------
(***************************************************************************)
(* Whatever the stream, the packets and the requests: the caller hears     *)
(* what was decoded, all of it and in order.  The steps of the proof are   *)
(* about whole samples: while a call wants more, what was left over of the *)
(* packets before has been taken, so that nothing is lost when the next    *)
(* packet is decoded into the same buffer or fails.                        *)
(*                                                                         *)
(* And the frames are decoded in turn: at every moment the stream is cut   *)
(* at two places, where what the parser keeps begins and where the input   *)
(* does, and everything before the first was dealt with.                   *)
(***************************************************************************)
EXTENDS FFissionDecoder, TLAPS, SequenceTheorems, FiniteSetTheorems, WellFoundedInduction

-----------------------------------------------------------------------------
(* Induction over the natural numbers.  The rules of the library take the   *)
(* statement as an operator; here it is the set of the numbers it is true   *)
(* of, which is defined in the proof and hidden before the rule is cited.   *)

(* A set of natural numbers has a least one.                                *)
LEMMA LeastOf ==
  ASSUME NEW T \in SUBSET Nat, T # {}
  PROVE  \E x \in T : \A y \in T : x <= y
  <1>1. PICK x \in T : \A y \in T : ~(<<y, x>> \in OpToRel(<, Nat)) BY NatLessThanWellFounded, WFMin
  <1>2. \A y \in T : ~(y < x) BY <1>1 DEF OpToRel
  <1> QED BY <1>2

(* A set with 0 and the successor of each of its numbers has all of them:   *)
(* the least that was missing would have a predecessor that is not.         *)
LEMMA Inductive ==
  ASSUME NEW S, 0 \in S, \A n \in Nat : n \in S => n + 1 \in S
  PROVE  Nat \subseteq S
  <1> SUFFICES ASSUME Nat \ S # {} PROVE FALSE OBVIOUS
  <1>1. PICK x \in Nat \ S : \A y \in Nat \ S : x <= y BY LeastOf
  <1>2. x - 1 \in Nat /\ x - 1 \in S BY <1>1
  <1>3. (x - 1) + 1 = x BY <1>1
  <1> QED BY <1>1, <1>2, <1>3

-----------------------------------------------------------------------------
(* What of some output was decoded. *)

\* g[k] is what of the first k bytes was decoded.
UpTo(g, out, n) ==
  g = [k \in 0 .. n |-> IF k = 0 THEN <<>> ELSE IF out[k] = Stale THEN g[k - 1] ELSE Append(g[k - 1], out[k])]

LEMMA UpToExists == ASSUME NEW out, NEW n \in Nat PROVE \E g : UpTo(g, out, n)
  <1> DEFINE S == {k \in Nat : \E g : UpTo(g, out, k)}
  <1>1. 0 \in S
    <2>1. UpTo([i \in 0 .. 0 |-> <<>>], out, 0) BY DEF UpTo
    <2> QED BY <2>1
  <1>2. ASSUME NEW k \in Nat, k \in S PROVE k + 1 \in S
    <2>1. PICK g : UpTo(g, out, k) BY <1>2
    <2> DEFINE last == IF out[k + 1] = Stale THEN g[k] ELSE Append(g[k], out[k + 1])
               h == [i \in 0 .. k + 1 |-> IF i = k + 1 THEN last ELSE g[i]]
    <2>2. \A i \in 0 .. k :
            g[i] = IF i = 0 THEN <<>> ELSE IF out[i] = Stale THEN g[i - 1] ELSE Append(g[i - 1], out[i])
      BY <2>1 DEF UpTo
    <2>3. \A i \in 0 .. k + 1 :
            h[i] = IF i = 0 THEN <<>> ELSE IF out[i] = Stale THEN h[i - 1] ELSE Append(h[i - 1], out[i])
      BY <2>2
    <2>4. UpTo(h, out, k + 1) BY <2>3 DEF UpTo
    <2> QED BY <2>4
  <1> HIDE DEF S
  <1>3. Nat \subseteq S BY <1>1, <1>2, Inductive
  <1> QED BY <1>3 DEF S

LEMMA DecodedIs ==
  ASSUME NEW out, Len(out) \in Nat
  PROVE  \E g : UpTo(g, out, Len(out)) /\ Decoded(out) = g[Len(out)]
  <1>1. \E g : UpTo(g, out, Len(out)) BY UpToExists
  <1>2. UpTo(CHOOSE g : UpTo(g, out, Len(out)), out, Len(out)) BY <1>1
  <1> QED BY <1>2 DEF Decoded, UpTo

\* Two such functions of output that begins alike.
LEMMA UpToAgree ==
  ASSUME NEW a, NEW b, NEW m \in Nat, NEW n \in Nat, m <= n, NEW g, NEW h, UpTo(g, a, m), UpTo(h, b, n),
         \A k \in 1 .. m : a[k] = b[k]
  PROVE  \A k \in 0 .. m : g[k] = h[k]
  <1> DEFINE S == {k \in Nat : k <= m => g[k] = h[k]}
  <1>0. /\ \A i \in 0 .. m :
             g[i] = IF i = 0 THEN <<>> ELSE IF a[i] = Stale THEN g[i - 1] ELSE Append(g[i - 1], a[i])
        /\ \A i \in 0 .. n :
             h[i] = IF i = 0 THEN <<>> ELSE IF b[i] = Stale THEN h[i - 1] ELSE Append(h[i - 1], b[i])
    BY DEF UpTo
  <1>1. 0 \in S
    <2>1. 0 \in 0 .. m /\ 0 \in 0 .. n OBVIOUS
    <2>2. g[0] = <<>> /\ h[0] = <<>> BY <1>0, <2>1
    <2> QED BY <2>2
  <1>2. ASSUME NEW k \in Nat, k \in S PROVE k + 1 \in S
    <2> SUFFICES ASSUME k + 1 <= m PROVE g[k + 1] = h[k + 1] OBVIOUS
    <2>1. g[k + 1] = IF a[k + 1] = Stale THEN g[k] ELSE Append(g[k], a[k + 1]) BY <1>0
    <2>2. h[k + 1] = IF b[k + 1] = Stale THEN h[k] ELSE Append(h[k], b[k + 1]) BY <1>0
    <2>3. a[k + 1] = b[k + 1] /\ g[k] = h[k] BY <1>2
    <2> QED BY <2>1, <2>2, <2>3
  <1> HIDE DEF S
  <1>3. Nat \subseteq S BY <1>1, <1>2, Inductive
  <1> QED BY <1>3 DEF S

LEMMA DecodedIsSeq == ASSUME NEW S, NEW out \in Seq(S) PROVE Decoded(out) \in Seq(S)
  <1>1. PICK g : UpTo(g, out, Len(out)) /\ Decoded(out) = g[Len(out)] BY DecodedIs
  <1> DEFINE T == {k \in Nat : k <= Len(out) => g[k] \in Seq(S)}
  <1>2. \A i \in 0 .. Len(out) :
          g[i] = IF i = 0 THEN <<>> ELSE IF out[i] = Stale THEN g[i - 1] ELSE Append(g[i - 1], out[i])
    BY <1>1 DEF UpTo
  <1>3. 0 \in T
    <2>1. g[0] = <<>> BY <1>2
    <2> QED BY <2>1, EmptySeq
  <1>4. ASSUME NEW k \in Nat, k \in T PROVE k + 1 \in T
    <2> SUFFICES ASSUME k + 1 <= Len(out) PROVE g[k + 1] \in Seq(S) OBVIOUS
    <2>1. out[k + 1] \in S /\ g[k] \in Seq(S) BY <1>4
    <2>2. g[k + 1] = IF out[k + 1] = Stale THEN g[k] ELSE Append(g[k], out[k + 1]) BY <1>2
    <2> QED BY <2>1, <2>2
  <1> HIDE DEF T
  <1>5. Nat \subseteq T BY <1>3, <1>4, Inductive
  <1> QED BY <1>1, <1>5 DEF T

LEMMA DecodedNothing == Decoded(<<>>) = <<>>
  <1>1. PICK g : UpTo(g, <<>>, 0) /\ Decoded(<<>>) = g[0] BY DecodedIs
  <1>2. g[0] = <<>> BY <1>1 DEF UpTo
  <1> QED BY <1>1, <1>2

LEMMA DecodedMore ==
  ASSUME NEW S, NEW out \in Seq(S), NEW b \in S
  PROVE  Decoded(Append(out, b)) = IF b = Stale THEN Decoded(out) ELSE Append(Decoded(out), b)
  <1> DEFINE longer == Append(out, b)
  <1>1. longer \in Seq(S) /\ Len(longer) = Len(out) + 1 /\ longer[Len(out) + 1] = b BY AppendProperties
  <1>2. \A k \in 1 .. Len(out) : out[k] = longer[k] OBVIOUS
  <1> HIDE DEF longer
  <1>3. PICK g : UpTo(g, out, Len(out)) /\ Decoded(out) = g[Len(out)] BY DecodedIs
  <1>4. PICK h : UpTo(h, longer, Len(longer)) /\ Decoded(longer) = h[Len(longer)] BY <1>1, DecodedIs
  <1>5. g[Len(out)] = h[Len(out)] BY <1>1, <1>2, <1>3, <1>4, UpToAgree
  <1>6. h[Len(out) + 1] = IF b = Stale THEN h[Len(out)] ELSE Append(h[Len(out)], b)
    <2> DEFINE n == Len(out) + 1
    <2>1. n \in 0 .. Len(longer) /\ n # 0 /\ n - 1 = Len(out) /\ longer[n] = b BY <1>1
    <2>2. \A i \in 0 .. Len(longer) :
            h[i] = IF i = 0 THEN <<>> ELSE IF longer[i] = Stale THEN h[i - 1] ELSE Append(h[i - 1], longer[i])
      BY <1>4 DEF UpTo
    <2> HIDE DEF n
    <2>3. h[n] = IF b = Stale THEN h[Len(out)] ELSE Append(h[Len(out)], b) BY <2>1, <2>2
    <2> QED BY <2>3 DEF n
  <1> QED BY <1>1, <1>3, <1>4, <1>5, <1>6 DEF longer

\* Of two outputs, one after the other, is decoded what is of each.
LEMMA DecodedOfBoth ==
  ASSUME NEW S, NEW s \in Seq(S), NEW t \in Seq(S)
  PROVE  Decoded(s \o t) = Decoded(s) \o Decoded(t)
  <1> DEFINE First(k) == SubSeq(t, 1, k)
             T == {k \in Nat : k <= Len(t) => Decoded(s \o First(k)) = Decoded(s) \o Decoded(First(k))}
  <1>1. 0 \in T
    <2>1. First(0) = <<>> BY SubSeqEmpty
    <2>2. s \o <<>> = s /\ Decoded(s) \o <<>> = Decoded(s) BY DecodedIsSeq, ConcatEmptySeq
    <2> QED BY <2>1, <2>2, DecodedNothing
  <1>2. ASSUME NEW k \in Nat, k \in T PROVE k + 1 \in T
    <2> SUFFICES ASSUME k + 1 <= Len(t)
                 PROVE  Decoded(s \o First(k + 1)) = Decoded(s) \o Decoded(First(k + 1))
      OBVIOUS
    <2> DEFINE b == t[k + 1]
    <2>1. b \in S OBVIOUS
    <2>2. First(k) \in Seq(S) BY SubSeqProperties
    <2>3. First(k + 1) = Append(First(k), b)
      <3>1. First(k + 1) = First((k + 1) - 1) \o <<b>> BY SubSeqRecursiveSecond
      <3>2. (k + 1) - 1 = k OBVIOUS
      <3> QED BY <2>1, <2>2, <3>1, <3>2, AppendIsConcat
    <2>4. Decoded(s \o First(k)) = Decoded(s) \o Decoded(First(k)) BY <1>2
    <2> HIDE DEF First, b
    <2>5. s \o First(k) \in Seq(S) BY <2>2, ConcatProperties
    <2>6. s \o First(k + 1) = Append(s \o First(k), b)
      <3>1. First(k + 1) = First(k) \o <<b>> BY <2>1, <2>2, <2>3, AppendIsConcat
      <3>2. <<b>> \in Seq(S) BY <2>1
      <3>3. s \o (First(k) \o <<b>>) = (s \o First(k)) \o <<b>> BY <2>2, <3>2, ConcatAssociative
      <3> QED BY <2>1, <2>5, <3>1, <3>3, AppendIsConcat
    <2>7. Decoded(s) \in Seq(S) /\ Decoded(First(k)) \in Seq(S) BY <2>2, DecodedIsSeq
    <2>8. CASE b = Stale
      <3>1. Decoded(First(k + 1)) = Decoded(First(k)) BY <2>1, <2>2, <2>3, <2>8, DecodedMore
      <3>2. Decoded(s \o First(k + 1)) = Decoded(s \o First(k)) BY <2>1, <2>5, <2>6, <2>8, DecodedMore
      <3> QED BY <2>4, <3>1, <3>2
    <2>9. CASE b # Stale
      <3>1. Decoded(First(k + 1)) = Append(Decoded(First(k)), b) BY <2>1, <2>2, <2>3, <2>9, DecodedMore
      <3>2. Decoded(s \o First(k + 1)) = Append(Decoded(s) \o Decoded(First(k)), b)
        BY <2>1, <2>4, <2>5, <2>6, <2>9, DecodedMore
      <3>3. <<b>> \in Seq(S) BY <2>1
      <3>4. Append(Decoded(First(k)), b) = Decoded(First(k)) \o <<b>> BY <2>1, <2>7, AppendIsConcat
      <3>5. Decoded(s) \o Decoded(First(k)) \in Seq(S) BY <2>7, ConcatProperties
      <3>6. Append(Decoded(s) \o Decoded(First(k)), b) = (Decoded(s) \o Decoded(First(k))) \o <<b>>
        BY <2>1, <3>5, AppendIsConcat
      <3>7. Decoded(s) \o (Decoded(First(k)) \o <<b>>) = (Decoded(s) \o Decoded(First(k))) \o <<b>>
        BY <2>7, <3>3, ConcatAssociative
      <3> QED BY <3>1, <3>2, <3>4, <3>6, <3>7
    <2> QED BY <2>8, <2>9
  <1> HIDE DEF T
  <1>3. Nat \subseteq T BY <1>1, <1>2, Inductive
  <1>4. Len(t) \in Nat OBVIOUS
  <1>5. Decoded(s \o First(Len(t))) = Decoded(s) \o Decoded(First(Len(t))) BY <1>3, <1>4 DEF T
  <1>6. First(Len(t)) = t BY SubSeqFull
  <1> QED BY <1>5, <1>6

\* Output nobody decoded.
AllStale(out) == \A i \in 1 .. Len(out) : out[i] = Stale

LEMMA DecodedStale == ASSUME NEW S, NEW out \in Seq(S), AllStale(out) PROVE Decoded(out) = <<>>
  <1>1. PICK g : UpTo(g, out, Len(out)) /\ Decoded(out) = g[Len(out)] BY DecodedIs
  <1> DEFINE T == {k \in Nat : k <= Len(out) => g[k] = <<>>}
  <1>2. \A i \in 0 .. Len(out) :
          g[i] = IF i = 0 THEN <<>> ELSE IF out[i] = Stale THEN g[i - 1] ELSE Append(g[i - 1], out[i])
    BY <1>1 DEF UpTo
  <1>3. 0 \in T BY <1>2
  <1>4. ASSUME NEW k \in Nat, k \in T PROVE k + 1 \in T
    <2> SUFFICES ASSUME k + 1 <= Len(out) PROVE g[k + 1] = <<>> OBVIOUS
    <2>1. out[k + 1] = Stale BY DEF AllStale
    <2> QED BY <1>2, <1>4, <2>1
  <1> HIDE DEF T
  <1>5. Nat \subseteq T BY <1>3, <1>4, Inductive
  <1> QED BY <1>1, <1>5 DEF T

-----------------------------------------------------------------------------
(* InterleaveSamples and Copy. *)

Whole(n) == \E k \in Nat : n = k * FrameBytes

LEMMA Wholes ==
  /\ Whole(0)
  /\ \A n \in Nat : n % FrameBytes = 0 => Whole(n)
  /\ \A m, n \in Nat : Whole(m) /\ Whole(n) => Whole(m + n)
  /\ \A m, n \in Nat : Whole(m) /\ Whole(n) /\ n <= m => Whole(m - n)
  <1>1. FrameBytes \in Nat \ {0} BY StreamAssumption
  <1>2. 0 = 0 * FrameBytes BY <1>1
  <1>3. ASSUME NEW n \in Nat, n % FrameBytes = 0 PROVE Whole(n)
    <2>1. n = FrameBytes * (n \div FrameBytes) + (n % FrameBytes) /\ n \div FrameBytes \in Nat BY <1>1
    <2>2. n = (n \div FrameBytes) * FrameBytes BY <1>1, <1>3, <2>1
    <2> QED BY <2>1, <2>2 DEF Whole
  <1>4. ASSUME NEW m \in Nat, NEW n \in Nat, Whole(m), Whole(n) PROVE Whole(m + n)
    <2>1. PICK k \in Nat, l \in Nat : m = k * FrameBytes /\ n = l * FrameBytes BY <1>4 DEF Whole
    <2>2. m + n = (k + l) * FrameBytes /\ k + l \in Nat BY <1>1, <2>1
    <2> QED BY <2>2 DEF Whole
  <1>5. ASSUME NEW m \in Nat, NEW n \in Nat, Whole(m), Whole(n), n <= m PROVE Whole(m - n)
    <2>1. PICK k \in Nat, l \in Nat : m = k * FrameBytes /\ n = l * FrameBytes BY <1>5 DEF Whole
    <2>2. m - n = (k - l) * FrameBytes BY <1>1, <2>1
    <2>3. l <= k BY <1>1, <1>5, <2>1
    <2>4. k - l \in Nat BY <2>3
    <2> QED BY <2>2, <2>4 DEF Whole
  <1> QED BY <1>2, <1>3, <1>4, <1>5 DEF Whole

\* It copies whole samples, and all of an amount that is whole.
LEMMA Interleaved ==
  ASSUME NEW n \in Nat
  PROVE  /\ InterleaveSamples(n) \in 0 .. n /\ Whole(InterleaveSamples(n))
         /\ Whole(n) => InterleaveSamples(n) = n
  <1>1. FrameBytes \in Nat \ {0} BY StreamAssumption
  <1> DEFINE k == n \div FrameBytes
  <1>2. k \in Nat /\ n = FrameBytes * k + (n % FrameBytes) /\ n % FrameBytes \in 0 .. FrameBytes - 1 BY <1>1
  <1>3. InterleaveSamples(n) = k * FrameBytes BY DEF InterleaveSamples
  <1>4. k * FrameBytes = FrameBytes * k /\ k * FrameBytes \in Nat BY <1>1, <1>2
  <1>5. ASSUME Whole(n) PROVE n % FrameBytes = 0
    <2>1. PICK l \in Nat : n = l * FrameBytes BY <1>5 DEF Whole
    <2>2. (l - k) * FrameBytes = n % FrameBytes BY <1>1, <1>2, <2>1
    <2>3. l - k \in Int /\ (l - k >= 1 => (l - k) * FrameBytes >= FrameBytes)
            /\ (l - k <= -1 => (l - k) * FrameBytes < 0)
      BY <1>1, <1>2, <2>1
    <2>4. l - k = 0 BY <1>1, <1>2, <2>2, <2>3
    <2> QED BY <1>1, <2>2, <2>4
  <1> HIDE DEF k
  <1> QED BY <1>2, <1>3, <1>4, <1>5 DEF Whole

LEMMA MinOfTwo ==
  ASSUME NEW a \in Int, NEW b \in Int
  PROVE  Min({a, b}) \in {a, b} /\ Min({a, b}) <= a /\ Min({a, b}) <= b
  <1>1. \E x \in {a, b} : \A y \in {a, b} : x <= y OBVIOUS
  <1>2. Min({a, b}) \in {a, b} /\ \A y \in {a, b} : Min({a, b}) <= y BY <1>1 DEF Min
  <1> QED BY <1>2

\* Output of whole samples, or none that counts.
Even(out) == AllStale(out) \/ Whole(Len(out))

CallOK(c) ==
  /\ DOMAIN c = DOMAIN NoCall /\ {c.size, c.written} \subseteq Nat
  /\ Whole(c.size) /\ Whole(c.written) /\ c.written <= c.size

\* How much a copy takes, and the call after it.
Amount(c, out) == InterleaveSamples(Min({Len(out), c.size - c.written}))
After(c, n) == [c EXCEPT !.written = @ + n]

\* What a copy takes and what it saves; while the call wants more nothing is left that counts.
LEMMA CopyTakes ==
  ASSUME NEW S, NEW c, CallOK(c), NEW out \in Seq(S), Even(out)
  PROVE  LET n == Amount(c, out)
         IN /\ SubSeq(out, 1, n) \in Seq(S) /\ Saved(out, n) \in Seq(S)
            /\ SubSeq(out, 1, n) \o Saved(out, n) = out
            /\ CallOK(After(c, n)) /\ Even(Saved(out, n))
            /\ After(c, n).written < After(c, n).size => AllStale(Saved(out, n))
  <1> DEFINE least == Min({Len(out), c.size - c.written})
             n == InterleaveSamples(least)
             after == After(c, n)
             rest == Saved(out, n)
  <1>0. c.size \in Nat /\ c.written \in Nat /\ c.written <= c.size /\ Whole(c.size) /\ Whole(c.written)
    BY DEF CallOK
  <1>1. least \in {Len(out), c.size - c.written} /\ least <= Len(out) /\ least <= c.size - c.written /\ least \in Nat
    <2>1. Len(out) \in Int /\ c.size - c.written \in Int /\ Len(out) \in Nat /\ c.size - c.written \in Nat BY <1>0
    <2>2. least \in {Len(out), c.size - c.written} /\ least <= Len(out) /\ least <= c.size - c.written
      BY <2>1, MinOfTwo
    <2> QED BY <2>1, <2>2
  <1> HIDE DEF least
  <1>2. n \in 0 .. least /\ Whole(n) /\ (Whole(least) => n = least) BY <1>1, Interleaved
  <1> HIDE DEF n
  <1>3. n \in Nat /\ n <= Len(out) /\ Len(out) \in Nat BY <1>1, <1>2
  <1>4. /\ SubSeq(out, 1, n) \in Seq(S) /\ rest \in Seq(S) /\ Len(rest) = Len(out) - n
        /\ \A i \in 1 .. Len(rest) : rest[i] = out[n + i]
    <2>1. SubSeq(out, 1, n) \in Seq(S) BY <1>3, SubSeqProperties
    <2>2. /\ rest \in Seq(S) /\ Len(rest) = IF n + 1 <= Len(out) THEN Len(out) - (n + 1) + 1 ELSE 0
          /\ \A i \in 1 .. Len(out) - (n + 1) + 1 : rest[i] = out[(n + 1) + i - 1]
      BY <1>3, SubSeqProperties DEF Saved
    <2>3. Len(rest) = Len(out) - n BY <1>3, <2>2
    <2>4. \A i \in 1 .. Len(rest) : (n + 1) + i - 1 = n + i /\ i \in 1 .. Len(out) - (n + 1) + 1 BY <1>3, <2>3
    <2> QED BY <2>1, <2>2, <2>3, <2>4
  <1>5. SubSeq(out, 1, n) \o rest = out
    <2>1. SubSeq(out, 1, n) \o SubSeq(out, n + 1, Len(out)) = SubSeq(out, 1, Len(out))
      <3>1. 1 \in 1 .. Len(out) + 1 /\ n \in 1 - 1 .. Len(out) /\ Len(out) \in n .. Len(out) BY <1>3
      <3> QED BY <3>1, ConcatAdjacentSubSeq
    <2> QED BY <2>1, SubSeqFull DEF Saved
  <1>6. AllStale(out) => AllStale(rest)
    <2>1. \A i \in 1 .. Len(rest) : n + i \in 1 .. Len(out) BY <1>3, <1>4
    <2> QED BY <1>4, <2>1 DEF AllStale
  <1>7. Even(rest)
    <2>1. Whole(Len(out)) => Whole(Len(rest)) BY <1>2, <1>3, <1>4, Wholes
    <2> QED BY <1>6, <2>1 DEF Even
  <1>8. /\ DOMAIN after = DOMAIN NoCall /\ after.size = c.size /\ after.written = c.written + n
    BY DEF CallOK, NoCall, After
  <1>9. CallOK(after)
    <2>1. Whole(c.written + n) BY <1>0, <1>2, <1>3, Wholes
    <2>2. c.written + n <= c.size /\ c.written + n \in Nat BY <1>0, <1>1, <1>2
    <2> QED BY <1>0, <1>8, <2>1, <2>2 DEF CallOK
  <1>10. ASSUME after.written < after.size PROVE AllStale(rest)
    <2> HIDE DEF rest
    <2>0. AllStale(out) \/ Whole(Len(out)) BY DEF Even
    <2> SUFFICES ASSUME Whole(Len(out)) PROVE AllStale(rest) BY <1>6, <2>0
    <2>1. Whole(c.size - c.written) /\ c.size - c.written \in Nat
      <3>1. \A m, k \in Nat : Whole(m) /\ Whole(k) /\ k <= m => Whole(m - k) BY Wholes
      <3>2. Whole(c.size - c.written) BY <1>0, <3>1
      <3>3. c.size - c.written \in Nat BY <1>0
      <3> QED BY <3>2, <3>3
    <2>2. Whole(least) BY <1>1, <2>1
    <2>3. n = least BY <1>2, <2>2
    <2>4. least # c.size - c.written BY <1>0, <1>8, <1>10, <2>3
    <2>5. n = Len(out) BY <1>1, <2>3, <2>4
    <2>6. Len(rest) = 0 BY <1>3, <1>4, <2>5
    <2> QED BY <2>6 DEF AllStale
  <1> QED BY <1>4, <1>5, <1>7, <1>9, <1>10 DEF n, least, Amount

-----------------------------------------------------------------------------
(* The invariant. *)

HeardInv ==
  /\ \E S : {heard, outputBuffer, decoded} \subseteq Seq(S)
  /\ Even(outputBuffer)
  /\ CallOK(call)
  /\ call # NoCall /\ call.written < call.size => AllStale(outputBuffer)
  /\ HeardIsDecoded

\* Steps that leave the output alone.
LEMMA AsideKeeps ==
  ASSUME HeardInv, UNCHANGED <<outputBuffer, decoded, heard>>, call' = call \/ call' = NoCall
  PROVE  HeardInv'
  <1>1. CallOK(NoCall) BY Wholes DEF CallOK, NoCall
  <1> QED BY <1>1 DEF HeardInv, HeardIsDecoded

LEMMA HeardInit == Init => HeardInv
  <1> SUFFICES ASSUME Init PROVE HeardInv OBVIOUS
  <1>1. outputBuffer = <<>> /\ decoded = <<>> /\ heard = <<>> /\ call = NoCall BY DEF Init
  <1>2. {heard, outputBuffer, decoded} \subseteq Seq({}) BY <1>1
  <1>3. CallOK(NoCall) BY Wholes DEF CallOK, NoCall
  <1>4. AllStale(<<>>) BY DEF AllStale
  <1>5. heard \o outputBuffer = <<>> BY <1>1
  <1> QED BY <1>1, <1>2, <1>3, <1>4, <1>5, DecodedNothing DEF HeardInv, HeardIsDecoded, Even

\* A copy of output that was decoded after what is heard so far.
LEMMA CopyKeeps ==
  ASSUME NEW S, heard \in Seq(S), NEW out \in Seq(S), Even(out), NEW c, CallOK(c), Copy(c, out),
         decoded' \in Seq(S), Decoded(heard \o out) = decoded'
  PROVE  HeardInv'
  <1> DEFINE n == Amount(c, out)
             taken == SubSeq(out, 1, n)
             rest == Saved(out, n)
             after == After(c, n)
  <1>1. heard' = heard \o taken /\ outputBuffer' = rest /\ call' = after BY DEF Copy, Amount, After
  <1>2. /\ taken \in Seq(S) /\ rest \in Seq(S) /\ taken \o rest = out
        /\ CallOK(after) /\ Even(rest) /\ (after.written < after.size => AllStale(rest))
    BY CopyTakes
  <1> HIDE DEF taken, rest, after
  <1>3. heard' \in Seq(S) BY <1>1, <1>2, ConcatProperties
  <1>4. heard' \o outputBuffer' = heard \o out
    <2>0. heard \in Seq(S) /\ taken \in Seq(S) /\ rest \in Seq(S) BY <1>2
    <2> HIDE DEF n
    <2>1. (heard \o taken) \o rest = heard \o (taken \o rest) BY ONLY <2>0, ConcatAssociative
    <2> QED BY <1>1, <1>2, <2>1
  <1>5. {heard', outputBuffer', decoded'} \subseteq Seq(S) BY <1>1, <1>2, <1>3
  <1>6. HeardIsDecoded' BY <1>4 DEF HeardIsDecoded
  <1> QED BY <1>1, <1>2, <1>5, <1>6 DEF HeardInv

LEMMA ProduceKeeps ==
  ASSUME HeardInv, NEW size \in Requests, ProduceOutputPackets(size)
  PROVE  HeardInv'
  <1>1. PICK S : {heard, outputBuffer, decoded} \subseteq Seq(S) BY DEF HeardInv
  <1>2. /\ Copy([size |-> size, written |-> 0], outputBuffer) /\ decoded' = decoded
    BY DEF ProduceOutputPackets
  <1>3. CallOK([size |-> size, written |-> 0])
    <2>1. size \in Nat /\ Whole(size) BY RequestAssumption, Wholes
    <2> QED BY <2>1, Wholes DEF CallOK, NoCall
  <1> QED BY <1>1, <1>2, <1>3, CopyKeeps DEF HeardInv, HeardIsDecoded

\* What a packet decodes to.
LEMMA DecodeGives ==
  ASSUME NEW packet, NEW result \in Decode(packet)
  PROVE  Even(result.pcm) /\ \E S : result.pcm \in Seq(S)
  <1>1. OutLen \in Nat /\ outBufSize \in Nat /\ Whole(OutLen) BY StreamAssumption, Wholes
  <1>2. ASSUME NEW x PROVE Fill(x, OutLen) \in Seq({x}) /\ Len(Fill(x, OutLen)) = OutLen BY <1>1 DEF Fill
  <1>3. Fill(Stale, outBufSize) \in Seq({Stale}) /\ AllStale(Fill(Stale, outBufSize)) BY <1>1 DEF Fill, AllStale
  <1>4. ASSUME NEW k, NEW g
        PROVE  PCM(k, g) \in Seq({<<k, i, g>> : i \in 1 .. OutLen}) /\ Len(PCM(k, g)) = OutLen
    BY <1>1 DEF PCM
  <1>5. <<>> \in Seq({}) /\ AllStale(<<>>) BY DEF AllStale
  <1>6. \/ result.pcm = <<>> \/ result.pcm = Fill(Stale, outBufSize) \/ result.pcm = Fill(Noise, OutLen)
        \/ \E k, g : result.pcm = PCM(k, g)
    <2>1. CASE stream.passthrough
      <3>1. result \in produceDTSPassthroughPackets(packet) BY <2>1 DEF Decode
      <3> QED BY <3>1 DEF produceDTSPassthroughPackets
    <2>2. CASE ~stream.passthrough
      <3>1. result \in avcodec_decode_audio3(packet) BY <2>2 DEF Decode
      <3> QED BY <3>1 DEF avcodec_decode_audio3, Broken
    <2> QED BY <2>1, <2>2
  <1>7. CASE result.pcm = <<>> \/ result.pcm = Fill(Stale, outBufSize) BY <1>3, <1>5, <1>7 DEF Even
  <1>8. CASE result.pcm = Fill(Noise, OutLen)
    <2>1. result.pcm \in Seq({Noise}) /\ Len(result.pcm) = OutLen BY <1>2, <1>8
    <2> QED BY <1>1, <2>1 DEF Even
  <1>9. CASE \E k, g : result.pcm = PCM(k, g)
    <2>1. PICK k, g : result.pcm = PCM(k, g) BY <1>9
    <2>2. result.pcm \in Seq({<<k, i, g>> : i \in 1 .. OutLen}) /\ Len(result.pcm) = OutLen BY <1>4, <2>1
    <2> QED BY <1>1, <2>2 DEF Even
  <1> QED BY <1>6, <1>7, <1>8, <1>9

LEMMA DecodeKeeps == ASSUME HeardInv, DecodePacket PROVE HeardInv'
  <1>1. PICK S : {heard, outputBuffer, decoded} \subseteq Seq(S) BY DEF HeardInv
  <1>2. call # NoCall /\ call.written < call.size /\ AllStale(outputBuffer) BY DEF DecodePacket, More, HeardInv
  <1>3. Decoded(heard) = decoded
    <2>1. Decoded(heard \o outputBuffer) = Decoded(heard) \o Decoded(outputBuffer) BY <1>1, DecodedOfBoth
    <2>2. Decoded(outputBuffer) = <<>> BY <1>1, <1>2, DecodedStale
    <2>3. Decoded(heard) \in Seq(S) BY <1>1, DecodedIsSeq
    <2> QED BY <2>1, <2>2, <2>3, ConcatEmptySeq DEF HeardInv, HeardIsDecoded
  <1>4. PICK packet : \E result \in Decode(packet) :
          IF result.len < 0
          THEN /\ outputBuffer' = <<>> /\ call' = NoCall /\ UNCHANGED <<decoded, heard>>
          ELSE /\ Copy(call, result.pcm) /\ decoded' = decoded \o Decoded(result.pcm)
    BY DEF DecodePacket
  <1>5. PICK result \in Decode(packet) :
          IF result.len < 0
          THEN /\ outputBuffer' = <<>> /\ call' = NoCall /\ UNCHANGED <<decoded, heard>>
          ELSE /\ Copy(call, result.pcm) /\ decoded' = decoded \o Decoded(result.pcm)
    BY <1>4
  <1>6. CASE result.len < 0
    <2>1. outputBuffer' = <<>> /\ call' = NoCall /\ UNCHANGED <<decoded, heard>> BY <1>5, <1>6
    <2>2. {heard', outputBuffer', decoded'} \subseteq Seq(S) BY <1>1, <2>1
    <2>3. heard' \o outputBuffer' = heard BY <1>1, <2>1, ConcatEmptySeq
    <2>4. CallOK(NoCall) BY Wholes DEF CallOK, NoCall
    <2>5. AllStale(<<>>) BY DEF AllStale
    <2> QED BY <1>3, <2>1, <2>2, <2>3, <2>4, <2>5 DEF HeardInv, HeardIsDecoded, Even
  <1>7. CASE ~(result.len < 0)
    <2>1. Copy(call, result.pcm) /\ decoded' = decoded \o Decoded(result.pcm) BY <1>5, <1>7
    <2>2. Even(result.pcm) /\ \E T : result.pcm \in Seq(T) BY DecodeGives
    <2>3. PICK T : result.pcm \in Seq(T) BY <2>2
    <2>4. /\ heard \in Seq(S \cup T) /\ decoded \in Seq(S \cup T) /\ result.pcm \in Seq(S \cup T)
      BY <1>1, <2>3, SeqMonotonic
    <2>5. Decoded(result.pcm) \in Seq(S \cup T) BY <2>4, DecodedIsSeq
    <2>6. decoded' \in Seq(S \cup T) BY <2>1, <2>4, <2>5, ConcatProperties
    <2>7. Decoded(heard \o result.pcm) = decoded' BY <1>3, <2>1, <2>4, DecodedOfBoth
    <2>8. CallOK(call) BY DEF HeardInv
    <2> QED BY <2>1, <2>2, <2>4, <2>6, <2>7, <2>8, CopyKeeps
  <1> QED BY <1>6, <1>7

LEMMA ResetKeeps == ASSUME HeardInv, NEW p, Reset(p) PROVE HeardInv'
  <1>1. outputBuffer' = <<>> /\ decoded' = <<>> /\ heard' = <<>> /\ call' = call BY DEF Reset
  <1>2. {heard', outputBuffer', decoded'} \subseteq Seq({}) BY <1>1
  <1>3. AllStale(<<>>) BY DEF AllStale
  <1>4. heard' \o outputBuffer' = <<>> BY <1>1
  <1> QED BY <1>1, <1>2, <1>3, <1>4, DecodedNothing DEF HeardInv, HeardIsDecoded, Even

LEMMA HeardNext == HeardInv /\ [Next]_vars => HeardInv'
  <1> SUFFICES ASSUME HeardInv, [Next]_vars PROVE HeardInv' OBVIOUS
  <1>1. CASE SetMagicCookie BY <1>1, AsideKeeps DEF SetMagicCookie
  <1>2. CASE AppendSome BY <1>2, AsideKeeps DEF AppendSome, AppendInputData
  <1>3. CASE ProduceTooEarly BY <1>3, AsideKeeps DEF ProduceTooEarly
  <1>4. CASE \E size \in Requests : ProduceOutputPackets(size) BY <1>4, ProduceKeeps
  <1>5. CASE DecodePacket BY <1>5, DecodeKeeps
  <1>6. CASE Return BY <1>6, AsideKeeps DEF Return
  <1>7. CASE \E p \in Packets : Reset(p) BY <1>7, ResetKeeps
  <1>8. CASE UNCHANGED vars BY <1>8, AsideKeeps DEF vars
  <1> QED BY <1>1, <1>2, <1>3, <1>4, <1>5, <1>6, <1>7, <1>8 DEF Next, Produce

(* For all streams, ways to cut them into packets and sizes of requests:    *)
(* ProduceOutputPackets gives the caller what libavcodec decoded, in order, *)
(* each byte once, and keeps the rest for the next call.                    *)
THEOREM HeardAlwaysDecoded == Spec => []HeardIsDecoded
  <1>1. HeardInv => HeardIsDecoded BY DEF HeardInv
  <1> QED BY <1>1, HeardInit, HeardNext, PTL DEF Spec

-----------------------------------------------------------------------------
(* Frames, packets and bytes of a stream. *)

End == stream.frames[Len(stream.frames)]

LEMMA StreamIs ==
  ASSUME stream \in Streams
  PROVE  /\ Len(stream.frames) \in Nat \ {0} /\ DOMAIN stream.frames = 1 .. Len(stream.frames)
         /\ Len(stream.packets) \in Nat \ {0} /\ DOMAIN stream.packets = 1 .. Len(stream.packets)
         /\ \A k \in DOMAIN stream.frames : Start(k) \in Nat
         /\ \A p \in DOMAIN stream.packets : Cut(p) \in Nat /\ Cut(p) <= End
         /\ Start(1) = 0 /\ Cut(1) = 0 /\ End \in Nat
         /\ \A k, l \in DOMAIN stream.frames : k < l => Start(k) < Start(l)
         /\ \A p, q \in DOMAIN stream.packets : p < q => Cut(p) < Cut(q)
         /\ stream.parser = "none" => \A p \in DOMAIN stream.packets : \E k \in DOMAIN stream.frames : Cut(p) = Start(k)
         /\ stream.parser \in Parsers /\ stream.damaged \subseteq Frames
  <1>1. StreamOK(stream) BY StreamAssumption
  <1>2. Cuts(stream.frames) /\ Cuts(stream.packets) /\ Last(stream.frames) = Last(stream.packets) BY <1>1 DEF StreamOK
  <1>3. /\ stream.frames \in Seq(Nat) /\ stream.frames # <<>> /\ stream.frames[1] = 0
        /\ \A i, j \in DOMAIN stream.frames : i < j => stream.frames[i] < stream.frames[j]
    BY <1>2 DEF Cuts
  <1>4. /\ stream.packets \in Seq(Nat) /\ stream.packets # <<>> /\ stream.packets[1] = 0
        /\ \A i, j \in DOMAIN stream.packets : i < j => stream.packets[i] < stream.packets[j]
    BY <1>2 DEF Cuts
  <1>5. Len(stream.frames) \in Nat \ {0} /\ DOMAIN stream.frames = 1 .. Len(stream.frames) BY <1>3
  <1>6. Len(stream.packets) \in Nat \ {0} /\ DOMAIN stream.packets = 1 .. Len(stream.packets) BY <1>4
  <1>7. \A k \in DOMAIN stream.frames : Start(k) \in Nat BY <1>3 DEF Start
  <1>8. End = stream.packets[Len(stream.packets)] BY <1>2 DEF Last, End
  <1>9. \A p \in DOMAIN stream.packets : Cut(p) \in Nat /\ Cut(p) <= End
    <2> SUFFICES ASSUME NEW p \in DOMAIN stream.packets PROVE Cut(p) \in Nat /\ Cut(p) <= End OBVIOUS
    <2>1. p = Len(stream.packets) \/ p < Len(stream.packets) BY <1>6
    <2>2. Len(stream.packets) \in DOMAIN stream.packets BY <1>6
    <2>3. stream.packets[p] \in Nat /\ stream.packets[Len(stream.packets)] \in Nat BY <1>4, <2>2
    <2>4. stream.packets[p] <= stream.packets[Len(stream.packets)] BY <1>4, <2>1, <2>2, <2>3
    <2> QED BY <1>8, <2>3, <2>4 DEF Cut
  <1>10. stream.parser = "none" => \A p \in DOMAIN stream.packets : \E k \in DOMAIN stream.frames : Cut(p) = Start(k)
    <2> SUFFICES ASSUME stream.parser = "none", NEW p \in DOMAIN stream.packets
                 PROVE  \E k \in DOMAIN stream.frames : Cut(p) = Start(k)
      OBVIOUS
    <2>1. ToSet(stream.packets) \subseteq ToSet(stream.frames) BY <1>1 DEF StreamOK
    <2>2. stream.packets[p] \in ToSet(stream.frames) BY <2>1 DEF ToSet
    <2> QED BY <2>2 DEF ToSet, Start, Cut
  <1>11. End \in Nat BY <1>5, <1>7 DEF End, Start
  <1>12. stream.parser \in Parsers /\ stream.damaged \subseteq Frames BY <1>1 DEF StreamOK, Frames
  <1> QED BY <1>3, <1>4, <1>5, <1>6, <1>7, <1>9, <1>10, <1>11, <1>12 DEF Start, Cut

\* A frame has its begin and the next one's, and a byte is in one frame.
LEMMA FrameIs ==
  ASSUME stream \in Streams, NEW k \in Frames
  PROVE  /\ k \in Nat \ {0} /\ k \in DOMAIN stream.frames /\ k + 1 \in DOMAIN stream.frames
         /\ Start(k) \in Nat /\ Start(k + 1) \in Nat /\ Start(k) < Start(k + 1) /\ Start(k + 1) <= End
         /\ Size(k) \in Nat \ {0} /\ Size(k) = Start(k + 1) - Start(k)
         /\ \A l \in DOMAIN stream.frames : l <= k \/ k + 1 <= l
         /\ \A l \in DOMAIN stream.frames : (l <= k => Start(l) <= Start(k)) /\ (k + 1 <= l => Start(k + 1) <= Start(l))
  <1>1. /\ Len(stream.frames) \in Nat \ {0} /\ DOMAIN stream.frames = 1 .. Len(stream.frames)
        /\ \A l \in DOMAIN stream.frames : Start(l) \in Nat
        /\ \A m, l \in DOMAIN stream.frames : m < l => Start(m) < Start(l)
    BY StreamIs
  <1>2. k \in Nat \ {0} /\ k \in DOMAIN stream.frames /\ k + 1 \in DOMAIN stream.frames BY <1>1 DEF Frames
  <1>3. Start(k) \in Nat /\ Start(k + 1) \in Nat /\ Start(k) < Start(k + 1) BY <1>1, <1>2
  <1>4. \A m, l \in DOMAIN stream.frames : m <= l => Start(m) <= Start(l)
    <2> SUFFICES ASSUME NEW m \in DOMAIN stream.frames, NEW l \in DOMAIN stream.frames, m <= l
                 PROVE  Start(m) <= Start(l)
      OBVIOUS
    <2>1. m = l \/ m < l BY <1>1
    <2> QED BY <1>1, <2>1
  <1>5. Start(k + 1) <= End
    <2>1. Len(stream.frames) \in DOMAIN stream.frames /\ k + 1 <= Len(stream.frames) BY <1>1, <1>2
    <2> QED BY <1>2, <1>4, <2>1 DEF End, Start
  <1>6. Size(k) = Start(k + 1) - Start(k) BY DEF Size
  <1>7. \A l \in DOMAIN stream.frames : l <= k \/ k + 1 <= l BY <1>1, <1>2
  <1> QED BY <1>2, <1>3, <1>4, <1>5, <1>6, <1>7

\* A byte that the stream has is in a frame.
LEMMA FrameAt ==
  ASSUME stream \in Streams, NEW n \in Nat, n < End
  PROVE  \E k \in Frames : Start(k) <= n /\ n < Start(k + 1)
  <1> DEFINE T == {l \in Nat : l \in DOMAIN stream.frames /\ n < Start(l)}
  <1>1. /\ Len(stream.frames) \in Nat \ {0} /\ DOMAIN stream.frames = 1 .. Len(stream.frames)
        /\ \A l \in DOMAIN stream.frames : Start(l) \in Nat
        /\ Start(1) = 0
    BY StreamIs
  <1>2. Len(stream.frames) \in T BY <1>1 DEF End, Start
  <1>3. PICK l \in T : \A j \in T : l <= j
    <2> HIDE DEF T
    <2>1. T \in SUBSET Nat /\ T # {} BY <1>2 DEF T
    <2> QED BY <2>1, LeastOf
  <1>4. l # 1 /\ l \in 1 .. Len(stream.frames) BY <1>1
  <1>5. l - 1 \in Frames /\ l - 1 \in DOMAIN stream.frames /\ l - 1 \in Nat /\ (l - 1) + 1 = l BY <1>1, <1>4 DEF Frames
  <1>6. l - 1 \notin T BY <1>3, <1>4
  <1>7. Start(l - 1) <= n BY <1>1, <1>5, <1>6
  <1> QED BY <1>3, <1>5, <1>7

LEMMA FrameOfIs ==
  ASSUME stream \in Streams, NEW byte, NEW k \in Frames, byte[1] \in Nat, Start(k) < byte[1], byte[1] <= Start(k + 1)
  PROVE  FrameOf(byte) = k
  <1>1. ASSUME NEW l \in Frames, Start(l) < byte[1], byte[1] <= Start(l + 1) PROVE l = k
    <2>1. /\ k \in Nat /\ l \in Nat /\ l \in DOMAIN stream.frames /\ l + 1 \in DOMAIN stream.frames
          /\ Start(k) \in Nat /\ Start(k + 1) \in Nat /\ Start(l) \in Nat /\ Start(l + 1) \in Nat
      BY FrameIs
    <2>2. l <= k \/ k + 1 <= l BY <2>1
    <2>3. ~(k + 1 <= l) BY <1>1, <2>1, FrameIs
    <2>4. l + 1 <= k \/ l = k BY <2>1, <2>2, <2>3
    <2>5. ~(l + 1 <= k)
      <3> SUFFICES ASSUME l + 1 <= k PROVE FALSE OBVIOUS
      <3>1. k \in DOMAIN stream.frames BY FrameIs
      <3>2. Start(l + 1) <= Start(k) BY <1>1, <3>1, FrameIs
      <3> QED BY <1>1, <2>1, <3>2
    <2> QED BY <2>4, <2>5
  <1> QED BY <1>1 DEF FrameOf

\* The bytes from m to n.
LEMMA BytesAre ==
  ASSUME NEW m \in Nat, NEW n \in Nat, m <= n
  PROVE  /\ Bytes(m, n) \in Seq({<<i, seeks>> : i \in Nat}) /\ Len(Bytes(m, n)) = n - m
         /\ \A i \in 1 .. n - m : Bytes(m, n)[i] = <<m + i, seeks>>
  BY DEF Bytes

\* A sequence that has the bytes from m to n, in turn, is those.
LEMMA BytesIf ==
  ASSUME NEW m \in Nat, NEW n \in Nat, m <= n, NEW S, NEW s \in Seq(S), Len(s) = n - m,
         \A i \in 1 .. n - m : s[i] = <<m + i, seeks>>
  PROVE  s = Bytes(m, n)
  <1>1. DOMAIN s = 1 .. n - m /\ s = [i \in 1 .. Len(s) |-> s[i]] OBVIOUS
  <1>2. s = [i \in 1 .. n - m |-> s[i]] BY <1>1
  <1>3. [i \in 1 .. n - m |-> s[i]] = [i \in 1 .. n - m |-> <<m + i, seeks>>] OBVIOUS
  <1> QED BY <1>2, <1>3 DEF Bytes

LEMMA BytesPart ==
  ASSUME NEW m \in Nat, NEW n \in Nat, NEW a \in 0 .. n - m, m <= n
  PROVE  /\ SubSeq(Bytes(m, n), 1, a) = Bytes(m, m + a)
         /\ SubSeq(Bytes(m, n), a + 1, Len(Bytes(m, n))) = Bytes(m + a, n)
  <1> DEFINE s == Bytes(m, n)
             S == {<<i, seeks>> : i \in Nat}
  <1>1. s \in Seq(S) /\ Len(s) = n - m /\ \A i \in 1 .. n - m : s[i] = <<m + i, seeks>> BY BytesAre
  <1> HIDE DEF s, S
  <1>2. SubSeq(s, 1, a) = Bytes(m, m + a)
    <2>1. SubSeq(s, 1, a) \in Seq(S) /\ Len(SubSeq(s, 1, a)) = a /\ \A i \in 1 .. a : SubSeq(s, 1, a)[i] = s[i]
      BY <1>1
    <2>2. m + a \in Nat /\ m <= m + a /\ (m + a) - m = a /\ \A i \in 1 .. a : SubSeq(s, 1, a)[i] = <<m + i, seeks>>
      BY <1>1, <2>1
    <2> HIDE DEF S
    <2> QED BY <2>1, <2>2, BytesIf
  <1>3. SubSeq(s, a + 1, Len(s)) = Bytes(m + a, n)
    <2> DEFINE t == SubSeq(s, a + 1, Len(s))
    <2>1. t \in Seq(S) /\ Len(t) = (n - m) - a /\ \A i \in 1 .. (n - m) - a : t[i] = s[a + i]
      BY <1>1
    <2>2. \A i \in 1 .. n - (m + a) : a + i \in 1 .. n - m /\ t[i] = <<(m + a) + i, seeks>>
      <3> SUFFICES ASSUME NEW i \in 1 .. n - (m + a) PROVE a + i \in 1 .. n - m /\ t[i] = <<(m + a) + i, seeks>> OBVIOUS
      <3>0. i \in 1 .. (n - m) - a OBVIOUS
      <3>1. a + i \in 1 .. n - m /\ t[i] = s[a + i] BY <2>1, <3>0
      <3>2. s[a + i] = <<m + (a + i), seeks>> BY <1>1, <3>1
      <3>3. m + (a + i) = (m + a) + i OBVIOUS
      <3> QED BY <3>1, <3>2, <3>3
    <2>3. Len(t) = n - (m + a) /\ m + a \in Nat /\ m + a <= n BY <2>1
    <2> HIDE DEF t
    <2> QED BY <2>1, <2>2, <2>3, BytesIf DEF t
  <1> QED BY <1>2, <1>3 DEF s

LEMMA BytesJoin ==
  ASSUME NEW a \in Nat, NEW b \in Nat, NEW c \in Nat, a <= b, b <= c
  PROVE  Bytes(a, b) \o Bytes(b, c) = Bytes(a, c)
  <1> DEFINE S == {<<i, seeks>> : i \in Nat}
             s == Bytes(a, b)
             t == Bytes(b, c)
  <1>1. /\ s \in Seq(S) /\ Len(s) = b - a /\ \A i \in 1 .. b - a : s[i] = <<a + i, seeks>>
        /\ t \in Seq(S) /\ Len(t) = c - b /\ \A i \in 1 .. c - b : t[i] = <<b + i, seeks>>
    BY BytesAre
  <1> HIDE DEF s, t, S
  <1>2. s \o t \in Seq(S) /\ Len(s \o t) = c - a BY <1>1
  <1>3. ASSUME NEW i \in 1 .. c - a PROVE (s \o t)[i] = <<a + i, seeks>>
    <2>1. CASE i <= b - a BY <1>1, <2>1
    <2>2. CASE ~(i <= b - a)
      <3>1. i - (b - a) \in 1 .. c - b /\ (s \o t)[i] = t[i - (b - a)] BY <1>1, <2>2
      <3>2. b + (i - (b - a)) = a + i OBVIOUS
      <3> QED BY <1>1, <3>1, <3>2
    <2> QED BY <2>1, <2>2
  <1>4. a <= c BY <1>1
  <1>5. s \o t = Bytes(a, c) BY <1>2, <1>3, <1>4, BytesIf
  <1> QED BY <1>5 DEF s, t

-----------------------------------------------------------------------------
(* The parser.  What it keeps begins with the begin of a frame, and behind  *)
(* the first o bytes, which are of an earlier restart, it goes on up to the *)
(* data.                                                                    *)

KeptFits(kept, o) ==
  /\ kept # <<>> => StartsFrame(kept[1])
  /\ stream.parser = "length" /\ kept # <<>> => Len(kept) < Size(FrameOf(kept[1]))
  /\ stream.parser = "start" => \A i \in o + 1 .. Len(kept) : i > 1 => ~StartsFrame(kept[i])
  /\ stream.parser = "none" => kept = <<>>

\* Behind the first o, the bytes kept are those of the stream from pos to m.
GoesOn(kept, o, pos, m) ==
  m = pos + (Len(kept) - o) /\ \A i \in o + 1 .. Len(kept) : kept[i] = <<pos + (i - o), seeks>>

\* Frame k begins with one of the bytes behind m and up to n.
Begins(k, m, n) == m <= Start(k) /\ Start(k) < n

LEMMA MinIs ==
  ASSUME NEW T \in SUBSET Nat, T # {}
  PROVE  Min(T) \in T /\ \A y \in T : Min(T) <= y
  <1>1. \E x \in T : \A y \in T : x <= y BY LeastOf
  <1> QED BY <1>1 DEF Min

\* What the parser has, the kept and the new.
LEMMA AllLen ==
  ASSUME NEW S, NEW kept \in Seq(S), NEW m \in Nat, NEW e \in Nat, m < e
  PROVE  /\ kept \o Bytes(m, e) \in Seq(S \cup {<<i, seeks>> : i \in Nat})
         /\ Len(kept \o Bytes(m, e)) = Len(kept) + (e - m)
  <1>0. m <= e OBVIOUS
  <1>1. Bytes(m, e) \in Seq({<<i, seeks>> : i \in Nat}) /\ Len(Bytes(m, e)) = e - m BY <1>0, BytesAre
  <1>2. /\ Bytes(m, e) \in Seq(S \cup {<<i, seeks>> : i \in Nat})
        /\ kept \in Seq(S \cup {<<i, seeks>> : i \in Nat})
    BY <1>1, SeqMonotonic
  <1> QED BY <1>1, <1>2, ConcatProperties

LEMMA AllOld ==
  ASSUME NEW S, NEW kept \in Seq(S), NEW m \in Nat, NEW e \in Nat, m < e, NEW i \in 1 .. Len(kept)
  PROVE  (kept \o Bytes(m, e))[i] = kept[i]
  <1>1. Len(Bytes(m, e)) \in Nat BY BytesAre
  <1> QED BY <1>1

LEMMA AllNew ==
  ASSUME NEW S, NEW kept \in Seq(S), NEW m \in Nat, NEW e \in Nat, m < e, NEW i \in 1 .. e - m
  PROVE  (kept \o Bytes(m, e))[Len(kept) + i] = <<m + i, seeks>>
  <1>0. m <= e OBVIOUS
  <1>1. Bytes(m, e) \in Seq({<<x, seeks>> : x \in Nat}) /\ Len(Bytes(m, e)) = e - m /\ Bytes(m, e)[i] = <<m + i, seeks>>
    BY <1>0, BytesAre
  <1> QED BY <1>1

\* The bytes kept and given are new: nothing is given and all kept, or what is before the
\* begin of a frame is dropped, or the frame that begins with them is given.
LEMMA ParsedFresh ==
  ASSUME stream \in Streams, stream.parser # "none",
         NEW pos \in Nat, NEW m \in Nat, NEW e \in Nat, pos <= m, m < e, e <= End,
         KeptFits(Bytes(pos, m), 0)
  PROVE  LET r == av_parser_parse2(Bytes(pos, m), Bytes(m, e))
         IN /\ r.len \in 0 .. e - m
            /\ \/ r.packet = <<>> /\ r.len = e - m /\ r.kept = Bytes(pos, e) /\ KeptFits(r.kept, 0)
               \/ /\ r.packet = <<>> /\ r.kept = <<>> /\ pos = m
                  /\ \A k \in Frames : ~Begins(k, m, m + r.len)
               \/ \E k \in Frames : /\ r.kept = <<>> /\ pos = Start(k) /\ m + r.len = Start(k + 1)
                                    /\ r.packet = Bytes(Start(k), Start(k + 1))
  <1> DEFINE kept == Bytes(pos, m)
             data == Bytes(m, e)
             all == Bytes(pos, e)
             D == {<<i, seeks>> : i \in Nat}
             r == av_parser_parse2(kept, data)
  <1>0. pos <= e /\ m <= e OBVIOUS
  <1>1. kept \o data = all BY <1>0, BytesJoin
  <1>2. /\ all \in Seq(D) /\ Len(all) = e - pos /\ \A i \in 1 .. e - pos : all[i] = <<pos + i, seeks>>
        /\ data \in Seq(D) /\ Len(data) = e - m /\ \A i \in 1 .. e - m : data[i] = <<m + i, seeks>>
        /\ kept \in Seq(D) /\ Len(kept) = m - pos /\ \A i \in 1 .. m - pos : kept[i] = <<pos + i, seeks>>
    BY <1>0, BytesAre
  <1>10. Len(all) = e - pos /\ Len(data) = e - m /\ Len(kept) = m - pos BY <1>2
  <1>3. all # <<>> /\ DOMAIN all = 1 .. e - pos /\ DOMAIN data = 1 .. e - m /\ 1 \in 1 .. e - pos BY <1>2
  <1>4. \A a \in 0 .. e - pos : SubSeq(all, 1, a) = Bytes(pos, pos + a) BY <1>0, BytesPart
  <1>5. KeptFits(kept, 0) OBVIOUS
  <1>6. ASSUME NEW i \in 1 .. e - pos, NEW k \in Frames, pos + i = Start(k) + 1 PROVE StartsFrame(all[i])
    <2>1. all[i][1] = Start(k) + 1 BY <1>2, <1>6
    <2> QED BY <2>1 DEF StartsFrame
  <1>7. ASSUME NEW i \in 1 .. e - pos, StartsFrame(all[i]) PROVE \E k \in Frames : pos + i = Start(k) + 1
    <2>1. all[i][1] = pos + i BY <1>2
    <2> QED BY <1>7, <2>1 DEF StartsFrame
  <1>8. CASE ~StartsFrame(all[1])
    <2>1. kept = <<>>
      <3> SUFFICES ASSUME kept # <<>> PROVE FALSE OBVIOUS
      <3>1. StartsFrame(kept[1]) BY <1>5 DEF KeptFits
      <3>2. 1 \in 1 .. m - pos BY <1>2
      <3>3. kept[1] = all[1] BY <1>2, <1>3, <3>2
      <3> QED BY <1>8, <3>1, <3>3
    <2>2. Len(kept) = 0 BY <2>1
    <2>3. pos = m BY <1>10, <2>2
    <2>4. r = Resync(data) BY <1>1, <1>3, <1>8 DEF av_parser_parse2
    <2>5. Starts(data) \in SUBSET Nat /\ \A i \in Starts(data) : i \in 1 .. e - m BY <1>3 DEF Starts
    <2>6. r.packet = <<>> /\ r.kept = <<>> BY <2>4 DEF Resync
    <2>7. r.len = IF Starts(data) = {} THEN e - m ELSE Min(Starts(data)) - 1 BY <1>2, <2>4 DEF Resync
    <2>8. Starts(data) # {} => Min(Starts(data)) \in Starts(data) /\ \A y \in Starts(data) : Min(Starts(data)) <= y
      BY <2>5, MinIs
    <2>9. r.len \in 0 .. e - m /\ \A i \in 1 .. r.len : i \notin Starts(data) BY <2>5, <2>7, <2>8
    <2>10. ASSUME NEW k \in Frames, m <= Start(k), Start(k) < m + r.len PROVE FALSE
      <3> DEFINE i == Start(k) + 1 - m
      <3>0. Start(k) \in Nat BY FrameIs
      <3>1. i \in 1 .. r.len /\ i \in 1 .. e - m /\ m + i = Start(k) + 1 BY <2>9, <2>10, <3>0
      <3> HIDE DEF i
      <3>2. data[i] = all[i] /\ i \in 1 .. e - pos BY <1>2, <2>3, <3>1
      <3>3. StartsFrame(data[i]) BY <1>6, <2>3, <3>1, <3>2
      <3> QED BY <1>3, <2>9, <3>1, <3>3 DEF Starts
    <2> HIDE DEF r
    <2> QED BY <2>3, <2>6, <2>9, <2>10 DEF r, Begins
  <1>9. CASE StartsFrame(all[1])
    <2>1. PICK k \in Frames : pos + 1 = Start(k) + 1 BY <1>3, <1>7, <1>9
    <2>2. /\ Start(k) \in Nat /\ Start(k + 1) \in Nat /\ Start(k) < Start(k + 1) /\ pos = Start(k)
          /\ Size(k) = Start(k + 1) - Start(k) /\ Size(k) \in Nat \ {0}
      <3>1. /\ Start(k) \in Nat /\ Start(k + 1) \in Nat /\ Start(k) < Start(k + 1)
            /\ Size(k) = Start(k + 1) - Start(k) /\ Size(k) \in Nat \ {0}
        BY FrameIs
      <3> QED BY <2>1, <3>1
    <2>3. FrameOf(all[1]) = k
      <3>1. all[1][1] = pos + 1 /\ pos + 1 \in Nat BY <1>2, <1>3
      <3>2. Start(k) < all[1][1] /\ all[1][1] <= Start(k + 1) BY <2>2, <3>1
      <3> QED BY <3>1, <3>2, FrameOfIs
    <2>4. kept # <<>> => kept[1] = all[1]
      <3> SUFFICES ASSUME kept # <<>> PROVE kept[1] = all[1] OBVIOUS
      <3>1. 1 \in 1 .. m - pos BY <1>2
      <3> QED BY <1>2, <1>3, <3>1
    <2>5. CASE stream.parser = "length"
      <3>1. r = FrameOfLength(kept, data) BY <1>1, <1>3, <1>9, <2>5 DEF av_parser_parse2
      <3>2. CASE e - pos < Size(k)
        <4>1. r = Swallow(kept, data) BY <1>1, <1>2, <2>3, <3>1, <3>2 DEF FrameOfLength
        <4>2. r.len = e - m /\ r.packet = <<>> /\ r.kept = all BY <1>1, <1>2, <4>1 DEF Swallow
        <4>3. KeptFits(all, 0) BY <1>2, <1>9, <2>3, <2>5, <3>2 DEF KeptFits
        <4>4. e - m \in 0 .. e - m OBVIOUS
        <4> HIDE DEF r
        <4> QED BY <4>2, <4>3, <4>4 DEF r
      <3>3. CASE ~(e - pos < Size(k))
        <4>1. r = [len |-> Size(k) - Len(kept), packet |-> SubSeq(all, 1, Size(k)), kept |-> <<>>]
          BY <1>1, <1>2, <2>3, <3>1, <3>3 DEF FrameOfLength
        <4>2. m - pos < Size(k)
          <5>1. CASE kept = <<>>
            <6>1. Len(kept) = 0 BY <5>1
            <6> QED BY <1>10, <2>2, <6>1
          <5>2. CASE kept # <<>> BY <1>2, <1>5, <2>3, <2>4, <2>5, <5>2 DEF KeptFits
          <5> QED BY <5>1, <5>2
        <4>3. SubSeq(all, 1, Size(k)) = Bytes(pos, pos + Size(k))
          <5>1. Size(k) \in 0 .. e - pos BY <2>2, <3>3
          <5> QED BY <1>4, <5>1
        <4>4. pos + Size(k) = Start(k + 1) BY <2>2
        <4>5. Size(k) - Len(kept) \in 0 .. e - m /\ m + (Size(k) - Len(kept)) = Start(k + 1)
          <5> DEFINE size == Size(k)
          <5>1. size \in Nat /\ size <= e - pos /\ m - pos < size BY <2>2, <3>3, <4>2
          <5>2. pos + size = Start(k + 1) BY <4>4
          <5> HIDE DEF size
          <5>3. size - (m - pos) \in 0 .. e - m /\ m + (size - (m - pos)) = Start(k + 1) BY <5>1, <5>2
          <5> QED BY <1>10, <5>3 DEF size
        <4>6. /\ r.len = Size(k) - Len(kept) /\ r.kept = <<>> /\ r.packet = Bytes(Start(k), Start(k + 1))
          BY <2>2, <4>1, <4>3, <4>4
        <4> HIDE DEF r
        <4> QED BY <2>2, <4>5, <4>6 DEF r
      <3> QED BY <3>2, <3>3
    <2>6. CASE stream.parser = "start"
      <3> DEFINE later == {i \in Starts(all) : i > 1 /\ i > Len(kept)}
      <3>1. r = FrameUpToStart(kept, data) BY <1>1, <1>3, <1>9, <2>6 DEF av_parser_parse2
      <3>2. later \in SUBSET Nat /\ \A i \in later : i \in 1 .. e - pos /\ StartsFrame(all[i])
        BY <1>3 DEF Starts
      <3>3. ASSUME NEW i \in 1 .. e - pos, i > 1, StartsFrame(all[i]) PROVE i \in later
        <4>1. i \in Starts(all) BY <1>3, <3>3 DEF Starts
        <4>2. ~(i <= Len(kept))
          <5> SUFFICES ASSUME i <= Len(kept) PROVE FALSE OBVIOUS
          <5>1. i \in 1 .. m - pos /\ i \in 0 + 1 .. Len(kept) BY <1>2
          <5>2. kept[i] = all[i] BY <1>2, <5>1
          <5> QED BY <1>5, <2>6, <3>3, <5>1, <5>2 DEF KeptFits
        <4> QED BY <1>2, <3>3, <4>1, <4>2
      <3>4. CASE later = {}
        <4>1. r = Swallow(kept, data) BY <1>1, <3>1, <3>4 DEF FrameUpToStart
        <4>2. r.len = e - m /\ r.packet = <<>> /\ r.kept = all BY <1>1, <1>2, <4>1 DEF Swallow
        <4>3. KeptFits(all, 0)
          <5> HIDE DEF later
          <5>1. \A i \in 0 + 1 .. Len(all) : i > 1 => ~StartsFrame(all[i]) BY <1>10, <3>3, <3>4
          <5> QED BY <1>9, <2>6, <5>1 DEF KeptFits
        <4>4. e - m \in 0 .. e - m OBVIOUS
        <4> HIDE DEF r
        <4> QED BY <4>2, <4>3, <4>4 DEF r
      <3>5. CASE later # {}
        <4> DEFINE j == Min(later)
        <4>1. r = [len |-> j - 1 - Len(kept), packet |-> SubSeq(all, 1, j - 1), kept |-> <<>>]
          BY <1>1, <3>1, <3>5 DEF FrameUpToStart
        <4>2. j \in later /\ \A y \in later : j <= y
          <5> HIDE DEF later
          <5> QED BY <3>2, <3>5, MinIs
        <4> HIDE DEF j
        <4>3. j \in 1 .. e - pos /\ StartsFrame(all[j]) /\ j > 1 /\ j > Len(kept) BY <3>2, <4>2
        <4>4. PICK l \in Frames : pos + j = Start(l) + 1 BY <1>7, <4>3
        <4>5. /\ Start(l) \in Nat /\ l \in Nat /\ k \in Nat /\ l \in DOMAIN stream.frames /\ k \in DOMAIN stream.frames
              /\ k + 1 \in DOMAIN stream.frames
          BY FrameIs
        <4>6. ~(l <= k)
          <5> SUFFICES ASSUME l <= k PROVE FALSE OBVIOUS
          <5>1. Start(l) <= Start(k) BY <4>5, FrameIs
          <5>2. pos + j <= pos + 1 /\ j > 1 BY <2>2, <4>3, <4>4, <4>5, <5>1
          <5> QED BY <4>3, <5>2
        <4>7. ~(k + 1 < l)
          <5> SUFFICES ASSUME k + 1 < l PROVE FALSE OBVIOUS
          <5>1. k + 1 \in Frames BY <4>5 DEF Frames
          <5>2. Start(k + 1) < Start(l) BY <4>5, StreamIs
          <5> DEFINE i == Start(k + 1) + 1 - pos
          <5>3. i \in 1 .. e - pos /\ i > 1 /\ i < j /\ pos + i = Start(k + 1) + 1
            <6>1. Start(k + 1) + 1 > pos + 1 /\ Start(k + 1) + 1 < pos + j BY <2>2, <4>4, <4>5, <5>2
            <6>2. j \in 1 .. e - pos BY <4>3
            <6> QED BY <2>2, <6>1, <6>2
          <5> HIDE DEF i
          <5>4. StartsFrame(all[i]) BY <1>6, <5>1, <5>3
          <5>5. i \in later BY <3>3, <5>3, <5>4
          <5> QED BY <4>2, <4>3, <5>3, <5>5
        <4>8. l = k + 1 BY <4>5, <4>6, <4>7
        <4>9. j - 1 \in 0 .. e - pos /\ pos + (j - 1) = Start(k + 1)
          <5>1. pos + j = Start(k + 1) + 1 /\ j \in 1 .. e - pos BY <4>3, <4>4, <4>8
          <5> QED BY <2>2, <5>1
        <4>10. SubSeq(all, 1, j - 1) = Bytes(pos, pos + (j - 1)) BY <1>4, <4>9
        <4>11. j - 1 - Len(kept) \in 0 .. e - m /\ m + (j - 1 - Len(kept)) = Start(k + 1) BY <1>2, <4>3, <4>9
        <4>12. /\ r.len = j - 1 - Len(kept) /\ r.kept = <<>> /\ r.packet = Bytes(Start(k), Start(k + 1))
          BY <2>2, <4>1, <4>9, <4>10
        <4> HIDE DEF r
        <4> QED BY <2>2, <4>11, <4>12 DEF r
      <3> QED BY <3>4, <3>5
    <2>7. stream.parser \in {"length", "start"} BY StreamIs DEF Parsers
    <2> QED BY <2>5, <2>6, <2>7
  <1> QED BY <1>8, <1>9

\* The first o bytes kept are old, and no frame is lost to them but within one's length.
LEMMA ParsedOld ==
  ASSUME stream \in Streams, stream.parser # "none", stream.seeks > 0,
         NEW B, NEW kept \in Seq(B), NEW o \in 1 .. Len(kept), KeptFits(kept, o),
         NEW pos \in Nat, NEW m \in Nat, NEW e \in Nat, m < e, e <= End, GoesOn(kept, o, pos, m)
  PROVE  LET r == av_parser_parse2(kept, Bytes(m, e))
         IN /\ r.len \in 0 .. e - m
            /\ \/ r.packet = <<>> /\ r.len = e - m /\ r.kept = kept \o Bytes(m, e) /\ KeptFits(r.kept, o)
               \/ /\ r.kept = <<>> /\ r.packet # <<>> /\ r.packet[1] = kept[1] /\ StartsFrame(kept[1])
                  /\ \A l \in Frames : Begins(l, pos, m + r.len) => WithinFrame(l, pos)
  <1> DEFINE data == Bytes(m, e)
             all == kept \o data
             n == Len(kept)
             r == av_parser_parse2(kept, data)
  <1>0. all = kept \o Bytes(m, e) OBVIOUS
  <1> HIDE DEF all
  <1>1. /\ \E S : all \in Seq(S)
        /\ Len(all) = n + (e - m) /\ Len(all) \in Nat \ {0} /\ all # <<>> /\ n \in Nat
        /\ \A i \in 1 .. n : all[i] = kept[i]
        /\ \A i \in n + 1 .. Len(all) : all[i] = <<m + (i - n), seeks>>
    <2>1. all \in Seq(B \cup {<<i, seeks>> : i \in Nat}) /\ Len(all) = n + (e - m) BY <1>0, AllLen
    <2>2. \A i \in 1 .. n : all[i] = kept[i] BY <1>0, AllOld
    <2>3. \A i \in 1 .. e - m : all[n + i] = <<m + i, seeks>> BY <1>0, AllNew
    <2>4. n \in Nat OBVIOUS
    <2> HIDE DEF n
    <2>5. ASSUME NEW i \in n + 1 .. Len(all) PROVE all[i] = <<m + (i - n), seeks>>
      <3>1. i - n \in 1 .. e - m /\ n + (i - n) = i BY <2>1, <2>4
      <3> QED BY <2>3, <3>1
    <2>6. Len(all) \in Nat \ {0} BY <2>1, <2>4
    <2>7. all # <<>> BY <2>6, EmptySeq
    <2> QED BY <2>1, <2>2, <2>4, <2>5, <2>6, <2>7
  <1>2. Len(data) = e - m /\ m <= e
    <2>1. m <= e OBVIOUS
    <2> QED BY <2>1, BytesAre
  <1> HIDE DEF data, r, n
  <1>3. o \in 1 .. n /\ m = pos + (n - o) /\ n \in Nat \ {0} /\ 1 \in 1 .. n /\ kept # <<>> /\ DOMAIN all = 1 .. Len(all)
    BY <1>1 DEF n, GoesOn
  <1>13. /\ n \in Nat /\ o \in Nat /\ 1 <= o /\ o <= n /\ m = pos + (n - o)
         /\ Len(all) \in Nat /\ Len(all) = n + (e - m)
    <2>1. Len(all) = n + (e - m) /\ Len(all) \in Nat /\ n \in Nat BY <1>1
    <2> QED BY <1>3, <2>1
  <1>4. ASSUME NEW i \in o + 1 .. Len(all) PROVE all[i] = <<pos + (i - o), seeks>>
    <2>1. CASE i <= n
      <3>1. i \in 1 .. n /\ i \in o + 1 .. Len(kept) BY <1>1, <1>3, <2>1 DEF n
      <3> QED BY <1>1, <3>1 DEF GoesOn
    <2>2. CASE ~(i <= n)
      <3>1. i \in n + 1 .. Len(all) /\ m + (i - n) = pos + (i - o) BY <1>13, <2>2
      <3> QED BY <1>1, <3>1
    <2> QED BY <2>1, <2>2
  <1>5. all[1] = kept[1] /\ StartsFrame(all[1]) BY <1>1, <1>3 DEF KeptFits
  <1>6. PICK k \in Frames : all[1][1] = Start(k) + 1 BY <1>5 DEF StartsFrame
  <1>7. Start(k) \in Nat /\ Start(k + 1) \in Nat /\ Start(k) < Start(k + 1) /\ Size(k) \in Nat \ {0}
    BY FrameIs
  <1>8. FrameOf(all[1]) = k
    <2>1. Start(k) < all[1][1] /\ all[1][1] <= Start(k + 1) /\ all[1][1] \in Nat BY <1>6, <1>7
    <2> QED BY <2>1, FrameOfIs
  <1>9. ASSUME NEW j \in Nat, n <= j, j <= Len(all)
        PROVE  SubSeq(all, 1, j) # <<>> /\ SubSeq(all, 1, j)[1] = kept[1]
    <2>1. Len(SubSeq(all, 1, j)) = j /\ SubSeq(all, 1, j)[1] = all[1] BY <1>1, <1>3, <1>9
    <2>2. Len(SubSeq(all, 1, j)) # 0 BY <1>13, <1>9, <2>1
    <2>3. SubSeq(all, 1, j) # <<>> BY <2>2, EmptySeq
    <2> QED BY <1>5, <2>1, <2>3
  <1>10. CASE stream.parser = "length"
    <2>1. r = FrameOfLength(kept, data) BY <1>1, <1>5, <1>10 DEF av_parser_parse2, r, all
    <2>2. CASE Len(all) < Size(k)
      <3>1. r = Swallow(kept, data) BY <1>8, <2>1, <2>2 DEF FrameOfLength, all
      <3>2. r.len = e - m /\ r.packet = <<>> /\ r.kept = all BY <1>2, <3>1 DEF Swallow, all
      <3>3. KeptFits(all, o) BY <1>1, <1>5, <1>8, <1>10, <2>2 DEF KeptFits
      <3>4. e - m \in 0 .. e - m BY <1>2
      <3> QED BY <3>2, <3>3, <3>4 DEF r, all, data
    <2>3. CASE ~(Len(all) < Size(k))
      <3>1. r = [len |-> Size(k) - n, packet |-> SubSeq(all, 1, Size(k)), kept |-> <<>>]
        BY <1>8, <2>1, <2>3 DEF FrameOfLength, all, n
      <3>2. n < Size(k) BY <1>3, <1>5, <1>8, <1>10 DEF KeptFits, n
      <3>3. SubSeq(all, 1, Size(k)) # <<>> /\ SubSeq(all, 1, Size(k))[1] = kept[1]
        <4>1. Size(k) \in Nat /\ n <= Size(k) /\ Size(k) <= Len(all) BY <1>7, <1>13, <2>3, <3>2
        <4> QED BY <1>9, <4>1
      <3>4. Size(k) - n \in 0 .. e - m
        <4> QED BY <1>7, <1>13, <2>3, <3>2
      <3>5. m + (Size(k) - n) < pos + Size(k) BY <1>7, <1>13
      <3>7. ASSUME NEW l \in Frames, pos <= Start(l), Start(l) < m + (Size(k) - n) PROVE WithinFrame(l, pos)
        <4> DEFINE size == Size(k)
        <4>1. Start(l) \in Nat BY FrameIs
        <4>2. m + (size - n) \in Int /\ size \in Nat BY <1>7, <1>13
        <4>3. m + (size - n) < pos + size /\ Start(l) < m + (size - n) BY <3>5, <3>7
        <4> HIDE DEF size
        <4>4. Start(l) - pos < size BY <4>1, <4>2, <4>3
        <4> QED BY <1>10, <4>4 DEF WithinFrame, size
      <3>8. r.len = Size(k) - n /\ r.kept = <<>> /\ r.packet = SubSeq(all, 1, Size(k)) BY <3>1
      <3> QED BY <1>2, <1>5, <3>3, <3>4, <3>7, <3>8 DEF r, data, Begins
    <2> QED BY <2>2, <2>3
  <1>11. CASE stream.parser = "start"
    <2> DEFINE later == {i \in Starts(all) : i > 1 /\ i > n}
    <2>1. r = FrameUpToStart(kept, data) BY <1>1, <1>5, <1>11 DEF av_parser_parse2, r, all
    <2>2. later \in SUBSET Nat /\ \A i \in later : i \in 1 .. Len(all) /\ i > n
      <3>1. Starts(all) \subseteq 1 .. Len(all) BY <1>3 DEF Starts
      <3> QED BY <3>1
    <2>3. ASSUME NEW i \in o + 1 .. Len(all), StartsFrame(all[i]) PROVE i \in later
      <3>1. i \in Starts(all) /\ i > 1 BY <1>3, <2>3 DEF Starts
      <3>2. ~(i <= n)
        <4> SUFFICES ASSUME i <= n PROVE FALSE OBVIOUS
        <4>1. i \in 1 .. n /\ i \in o + 1 .. Len(kept) BY <1>3 DEF n
        <4>2. kept[i] = all[i] BY <1>1, <4>1
        <4> QED BY <1>11, <2>3, <3>1, <4>1, <4>2 DEF KeptFits
      <3> QED BY <1>3, <3>1, <3>2
    <2>4. CASE later = {}
      <3>1. r = Swallow(kept, data) BY <2>1, <2>4 DEF FrameUpToStart, all, n
      <3>2. r.len = e - m /\ r.packet = <<>> /\ r.kept = all BY <1>2, <3>1 DEF Swallow, all
      <3>3. KeptFits(all, o)
        <4> HIDE DEF later
        <4>1. \A i \in o + 1 .. Len(all) : i > 1 => ~StartsFrame(all[i]) BY <2>3, <2>4
        <4> QED BY <1>5, <1>11, <4>1 DEF KeptFits
      <3>4. e - m \in 0 .. e - m BY <1>2
      <3> QED BY <3>2, <3>3, <3>4 DEF r, all, data
    <2>5. CASE later # {}
      <3> DEFINE j == Min(later)
      <3>1. r = [len |-> j - 1 - n, packet |-> SubSeq(all, 1, j - 1), kept |-> <<>>]
        BY <2>1, <2>5 DEF FrameUpToStart, all, n
      <3>2. j \in later /\ \A y \in later : j <= y
        <4> HIDE DEF later
        <4> QED BY <2>2, <2>5, MinIs
      <3> HIDE DEF j
      <3>3. j \in 1 .. Len(all) /\ j > n /\ j - 1 \in Nat /\ n <= j - 1 /\ j - 1 <= Len(all) BY <1>3, <2>2, <3>2
      <3>4. SubSeq(all, 1, j - 1) # <<>> /\ SubSeq(all, 1, j - 1)[1] = kept[1] BY <1>9, <3>3
      <3>5. j - 1 - n \in 0 .. e - m
        <4>1. Len(all) = n + (e - m) BY <1>1
        <4> QED BY <1>3, <3>3, <4>1
      <3>6. ASSUME NEW i \in Frames, pos <= Start(i), Start(i) < m + (j - 1 - n) PROVE FALSE
        <4> DEFINE x == Start(i) + 1 - pos + o
        <4>1. Start(i) \in Nat BY FrameIs
        <4>2. m + (j - 1 - n) = pos + (j - 1 - o) BY <1>13, <3>3
        <4>3. x \in o + 1 .. Len(all) /\ x < j /\ pos + (x - o) = Start(i) + 1
          <5>1. x < j /\ x >= o + 1 /\ x \in Int BY <1>13, <3>3, <3>6, <4>1, <4>2
          <5>2. pos + (x - o) = Start(i) + 1 BY <1>13, <4>1
          <5> HIDE DEF x
          <5> QED BY <1>13, <3>3, <5>1, <5>2
        <4> HIDE DEF x
        <4>4. all[x] = <<Start(i) + 1, seeks>> BY <1>4, <4>3
        <4>5. StartsFrame(all[x]) BY <4>4 DEF StartsFrame
        <4>6. x \in later BY <2>3, <4>3, <4>5
        <4> HIDE DEF later
        <4>7. j <= x BY <3>2, <4>6
        <4> QED BY <1>3, <3>3, <4>3, <4>7
      <3>7. r.len = j - 1 - n /\ r.kept = <<>> /\ r.packet = SubSeq(all, 1, j - 1) BY <3>1
      <3> QED BY <1>5, <3>4, <3>5, <3>6, <3>7 DEF r, data, Begins
    <2> QED BY <2>4, <2>5
  <1>12. stream.parser \in {"length", "start"} BY StreamIs DEF Parsers
  <1> QED BY <1>10, <1>11, <1>12

-----------------------------------------------------------------------------
(* The ring: its bytes are those of the stream from one on, and its packets *)
(* the last ones appended.                                                  *)

InputFits(in, p, at) ==
  /\ at <= Cut(p) /\ in.data = Bytes(at, Cut(p))
  /\ in.ends \in Seq(Nat) /\ Len(in.ends) < p /\ Cut(p - Len(in.ends)) <= at
  /\ \A j \in 1 .. Len(in.ends) : in.ends[j] > 0 /\ in.ends[j] = Cut(p - Len(in.ends) + j) - at

LEMMA MaxIs ==
  ASSUME NEW n \in Nat, NEW T \in SUBSET (0 .. n), T # {}
  PROVE  Max(T) \in T /\ \A y \in T : y <= Max(T)
  <1> DEFINE U == {n - y : y \in T}
  <1>1. U \in SUBSET Nat /\ U # {}
    <2>1. \A y \in T : y \in 0 .. n OBVIOUS
    <2>2. \A y \in T : n - y \in Nat BY <2>1
    <2> QED BY <2>2
  <1> HIDE DEF U
  <1>2. PICK u \in U : \A v \in U : u <= v BY <1>1, LeastOf
  <1>3. n - u \in T /\ \A y \in T : y <= n - u BY <1>2 DEF U
  <1>4. \E x \in T : \A y \in T : x >= y BY <1>3
  <1> QED BY <1>4 DEF Max

\* The packets that are gone when n bytes are.
LEMMA GoneIs ==
  ASSUME NEW ends \in Seq(Nat), NEW n \in Nat,
         \A i, j \in 1 .. Len(ends) : i < j => ends[i] < ends[j],
         NEW gone, gone = Max({0} \cup {j \in DOMAIN ends : ends[j] <= n})
  PROVE  /\ gone \in 0 .. Len(ends) /\ (gone > 0 => ends[gone] <= n)
         /\ \A j \in gone + 1 .. Len(ends) : ends[j] > n
  <1> DEFINE T == {0} \cup {j \in DOMAIN ends : ends[j] <= n}
  <1>1. T \in SUBSET (0 .. Len(ends)) /\ T # {} /\ Len(ends) \in Nat OBVIOUS
  <1>2. \A j \in 1 .. Len(ends) : ends[j] <= n => j \in T OBVIOUS
  <1>3. \A j \in T : j > 0 => ends[j] <= n OBVIOUS
  <1>4. gone = Max(T) OBVIOUS
  <1> HIDE DEF T
  <1>5. gone \in T /\ \A y \in T : y <= gone BY <1>1, <1>4, MaxIs
  <1>6. ASSUME NEW j \in gone + 1 .. Len(ends) PROVE ends[j] > n
    <2>1. j \in 1 .. Len(ends) /\ ~(j <= gone) BY <1>1, <1>5
    <2> QED BY <1>2, <1>5, <2>1
  <1> QED BY <1>1, <1>3, <1>5, <1>6

LEMMA ZapFits ==
  ASSUME stream \in Streams, NEW in, NEW p \in DOMAIN stream.packets, NEW at \in Nat, InputFits(in, p, at),
         NEW n \in 0 .. Cut(p) - at
  PROVE  InputFits(Zap(in, n), p, at + n)
  <1> DEFINE ends == in.ends
             len == Len(ends)
             gone == Max({0} \cup {j \in DOMAIN ends : ends[j] <= n})
             rest == Zap(in, n).ends
  <1>1. /\ DOMAIN stream.packets = 1 .. Len(stream.packets) /\ Len(stream.packets) \in Nat
        /\ \A q \in DOMAIN stream.packets : Cut(q) \in Nat
        /\ \A q, r \in DOMAIN stream.packets : q < r => Cut(q) < Cut(r)
    BY StreamIs
  <1>2. /\ at <= Cut(p) /\ in.data = Bytes(at, Cut(p)) /\ ends \in Seq(Nat) /\ len < p /\ Cut(p - len) <= at
        /\ \A j \in 1 .. len : ends[j] > 0 /\ ends[j] = Cut(p - len + j) - at
    BY DEF InputFits
  <1>3. len \in Nat /\ p \in Nat /\ Cut(p) \in Nat /\ n \in Nat BY <1>1, <1>2
  <1>4. Zap(in, n).data = Bytes(at + n, Cut(p))
    <2>1. SubSeq(Bytes(at, Cut(p)), n + 1, Len(Bytes(at, Cut(p)))) = Bytes(at + n, Cut(p)) BY <1>2, <1>3, BytesPart
    <2> QED BY <1>2, <2>1 DEF Zap
  <1>5. rest = [j \in 1 .. len - gone |-> ends[gone + j] - n] BY DEF Zap
  <1>6. ASSUME NEW j \in 1 .. len PROVE p - len + j \in DOMAIN stream.packets
    <2>1. p \in 1 .. Len(stream.packets) /\ len < p BY <1>1, <1>2
    <2> HIDE DEF len
    <2> QED BY <1>1, <1>3, <2>1
  <1>7. \A i, j \in 1 .. len : i < j => ends[i] < ends[j]
    <2> SUFFICES ASSUME NEW i \in 1 .. len, NEW j \in 1 .. len, i < j PROVE ends[i] < ends[j] OBVIOUS
    <2>1. p - len + i \in DOMAIN stream.packets /\ p - len + j \in DOMAIN stream.packets /\ p - len + i < p - len + j
      BY <1>3, <1>6
    <2>2. Cut(p - len + i) < Cut(p - len + j) /\ Cut(p - len + i) \in Nat /\ Cut(p - len + j) \in Nat BY <1>1, <2>1
    <2>3. ends[i] = Cut(p - len + i) - at /\ ends[j] = Cut(p - len + j) - at BY <1>2
    <2> QED BY <2>2, <2>3
  <1>8. /\ gone \in 0 .. len /\ (gone > 0 => ends[gone] <= n)
        /\ \A j \in gone + 1 .. len : ends[j] > n
    <2>1. ends \in Seq(Nat) /\ n \in Nat BY <1>2, <1>3
    <2> QED BY <1>7, <2>1, GoneIs
  <1> HIDE DEF gone, rest, ends, len
  <1>9. rest \in Seq(Nat) /\ Len(rest) = len - gone /\ \A j \in 1 .. len - gone : rest[j] > 0 /\ rest[j] = ends[gone + j] - n
    <2>1. ASSUME NEW j \in 1 .. len - gone PROVE gone + j \in gone + 1 .. len /\ gone + j \in 1 .. len
      BY <1>3, <1>8
    <2>2. ASSUME NEW j \in 1 .. len - gone PROVE ends[gone + j] - n \in Nat /\ ends[gone + j] - n > 0
      <3>1. gone + j \in gone + 1 .. len /\ gone + j \in 1 .. len BY <2>1
      <3>2. ends[gone + j] > n /\ ends[gone + j] \in Nat BY <1>2, <1>8, <3>1 DEF len
      <3> QED BY <1>3, <3>2
    <2>3. len - gone \in Nat BY <1>3, <1>8
    <2> QED BY <1>5, <2>2, <2>3
  <1>10. p - (len - gone) = p - len + gone BY <1>3, <1>8
  <1>11. Cut(p - (len - gone)) <= at + n
    <2>1. CASE gone = 0
      <3>1. p - (len - gone) = p - len /\ p - len \in DOMAIN stream.packets BY <1>1, <1>2, <1>3, <2>1
      <3>2. Cut(p - len) \in Nat BY <1>1, <3>1
      <3> QED BY <1>2, <1>3, <3>1, <3>2
    <2>2. CASE gone > 0
      <3>1. gone \in 1 .. len /\ ends[gone] <= n BY <1>3, <1>8, <2>2
      <3>2. ends[gone] = Cut(p - len + gone) - at /\ p - len + gone \in DOMAIN stream.packets BY <1>2, <1>6, <3>1
      <3>3. Cut(p - len + gone) \in Nat BY <1>1, <3>2
      <3> QED BY <1>3, <1>10, <3>1, <3>2, <3>3
    <2> QED BY <1>8, <2>1, <2>2
  <1>12. ASSUME NEW j \in 1 .. len - gone PROVE rest[j] = Cut(p - (len - gone) + j) - (at + n)
    <2>1. gone + j \in 1 .. len /\ p - (len - gone) + j = p - len + (gone + j) BY <1>3, <1>8
    <2>2. ends[gone + j] = Cut(p - len + (gone + j)) - at BY <1>2, <2>1
    <2>3. Cut(p - len + (gone + j)) \in Nat BY <1>1, <1>6, <2>1
    <2>4. rest[j] = ends[gone + j] - n BY <1>9
    <2> QED BY <1>3, <2>1, <2>2, <2>3, <2>4
  <1>13. len - gone < p /\ at + n <= Cut(p) BY <1>2, <1>3, <1>8
  <1> QED BY <1>4, <1>9, <1>11, <1>12, <1>13 DEF InputFits, rest

LEMMA InFits ==
  ASSUME stream \in Streams, NEW in, NEW p \in DOMAIN stream.packets, NEW at \in Nat, InputFits(in, p, at),
         NEW n \in Nat \ {0}, p + n \in DOMAIN stream.packets
  PROVE  InputFits(In(in, p, n), p + n, at)
  <1> DEFINE ends == in.ends
             len == Len(ends)
             more == [j \in 1 .. n |-> Len(in.data) + Cut(p + j) - Cut(p)]
             all == ends \o more
  <1>1. /\ DOMAIN stream.packets = 1 .. Len(stream.packets) /\ Len(stream.packets) \in Nat
        /\ \A q \in DOMAIN stream.packets : Cut(q) \in Nat
        /\ \A q, r \in DOMAIN stream.packets : q < r => Cut(q) < Cut(r)
    BY StreamIs
  <1>2. /\ at <= Cut(p) /\ in.data = Bytes(at, Cut(p)) /\ ends \in Seq(Nat) /\ len < p /\ Cut(p - len) <= at
        /\ \A j \in 1 .. len : ends[j] > 0 /\ ends[j] = Cut(p - len + j) - at
    BY DEF InputFits
  <1>3. len \in Nat /\ p \in Nat /\ Cut(p) \in Nat /\ p < p + n /\ Cut(p + n) \in Nat /\ Cut(p) < Cut(p + n)
    BY <1>1, <1>2
  <1>4. In(in, p, n).data = Bytes(at, Cut(p + n))
    <2>1. Cut(p) <= Cut(p + n) BY <1>3
    <2>2. Bytes(at, Cut(p)) \o Bytes(Cut(p), Cut(p + n)) = Bytes(at, Cut(p + n)) BY <1>2, <1>3, <2>1, BytesJoin
    <2> QED BY <1>2, <2>2 DEF In
  <1>5. Len(in.data) = Cut(p) - at BY <1>2, <1>3, BytesAre
  <1>6. ASSUME NEW j \in 1 .. n
        PROVE  more[j] \in Nat /\ more[j] > 0 /\ more[j] = Cut(p + j) - at
    <2>1. p + j \in DOMAIN stream.packets /\ p < p + j BY <1>1, <1>3
    <2>2. Cut(p + j) \in Nat /\ Cut(p) < Cut(p + j) BY <1>1, <2>1
    <2>3. more[j] = (Cut(p) - at) + Cut(p + j) - Cut(p) BY <1>5
    <2> QED BY <1>2, <1>3, <2>2, <2>3
  <1>7. more \in Seq(Nat) /\ Len(more) = n BY <1>6
  <1>8. In(in, p, n).ends = all BY DEF In
  <1> HIDE DEF more, ends, len
  <1>9. /\ all \in Seq(Nat) /\ Len(all) = len + n
        /\ \A j \in 1 .. len : all[j] = ends[j]
    <2>1. ends \in Seq(Nat) /\ more \in Seq(Nat) /\ Len(ends) = len BY <1>2, <1>7 DEF len
    <2>2. all \in Seq(Nat) /\ Len(all) = Len(ends) + Len(more) BY <2>1, ConcatProperties
    <2>3. \A j \in 1 .. len : all[j] = ends[j] BY <2>1
    <2> QED BY <1>7, <2>1, <2>2, <2>3
  <1>10. \A i \in 1 .. n : all[len + i] = more[i] BY <1>2, <1>7 DEF len
  <1> HIDE DEF all
  <1>11. p + n - (len + n) = p - len BY <1>3
  <1>12. ASSUME NEW j \in 1 .. len + n PROVE all[j] > 0 /\ all[j] = Cut(p - len + j) - at
    <2>1. CASE j <= len
      <3>1. j \in 1 .. len BY <1>3, <2>1
      <3> QED BY <1>2, <1>9, <3>1
    <2>2. CASE ~(j <= len)
      <3> DEFINE i == j - len
      <3>1. i \in 1 .. n /\ j = len + i /\ p - len + j = p + i BY <1>3, <2>2
      <3> HIDE DEF i
      <3> QED BY <1>6, <1>10, <3>1
    <2> QED BY <2>1, <2>2
  <1>13. at <= Cut(p + n) /\ len + n < p + n BY <1>2, <1>3
  <1>14. Len(In(in, p, n).ends) = len + n BY <1>8, <1>9
  <1> DEFINE new == In(in, p, n)
  <1>15. new.data = Bytes(at, Cut(p + n)) /\ new.ends = all BY <1>4, <1>8
  <1> HIDE DEF new
  <1>16. /\ new.ends \in Seq(Nat) /\ Len(new.ends) = len + n
         /\ \A j \in 1 .. len + n : new.ends[j] > 0 /\ new.ends[j] = Cut(p - len + j) - at
    BY <1>9, <1>12, <1>15
  <1>17. Cut(p - len) <= at BY <1>2
  <1>18. InputFits(new, p + n, at)
    <2> DEFINE q == p + n
               l == Len(new.ends)
    <2>0. l = len + n BY <1>16
    <2>1. q - l = p - len BY <1>3, <2>0
    <2>2. at <= Cut(q) /\ l < q /\ new.data = Bytes(at, Cut(q)) /\ new.ends \in Seq(Nat) BY <1>13, <1>15, <1>16
    <2>3. \A j \in 1 .. l : new.ends[j] > 0 /\ new.ends[j] = Cut(p - len + j) - at BY <1>16
    <2> HIDE DEF q
    <2>4. InputFits(new, q, at) BY <1>17, <2>1, <2>2, <2>3 DEF InputFits
    <2> QED BY <2>4 DEF q
  <1> QED BY <1>18 DEF new

-----------------------------------------------------------------------------
(* What a packet decodes to. *)

Output == Nat \X Nat \X Nat \cup {Noise}

\* Output without stale bytes is decoded as it is.
LEMMA DecodedAll ==
  ASSUME NEW S, NEW out \in Seq(S), \A i \in 1 .. Len(out) : out[i] # Stale
  PROVE  Decoded(out) = out
  <1> DEFINE First(k) == SubSeq(out, 1, k)
             T == {k \in Nat : k <= Len(out) => Decoded(First(k)) = First(k)}
  <1>1. 0 \in T
    <2>1. First(0) = <<>> BY SubSeqEmpty
    <2> QED BY <2>1, DecodedNothing
  <1>2. ASSUME NEW k \in Nat, k \in T PROVE k + 1 \in T
    <2> SUFFICES ASSUME k + 1 <= Len(out) PROVE Decoded(First(k + 1)) = First(k + 1) OBVIOUS
    <2> DEFINE b == out[k + 1]
    <2>1. b \in S /\ b # Stale OBVIOUS
    <2>2. First(k) \in Seq(S) BY SubSeqProperties
    <2>3. First(k + 1) = Append(First(k), b)
      <3>1. First(k + 1) = First((k + 1) - 1) \o <<b>> BY <2>1, SubSeqRecursiveSecond
      <3>2. (k + 1) - 1 = k OBVIOUS
      <3> QED BY <2>1, <2>2, <3>1, <3>2, AppendIsConcat
    <2>4. Decoded(First(k)) = First(k) BY <1>2
    <2> HIDE DEF First, b
    <2> QED BY <2>1, <2>2, <2>3, <2>4, DecodedMore
  <1> HIDE DEF T
  <1>3. Nat \subseteq T BY <1>1, <1>2, Inductive
  <1>4. Len(out) \in Nat OBVIOUS
  <1>5. Decoded(First(Len(out))) = First(Len(out)) BY <1>3, <1>4 DEF T
  <1>6. First(Len(out)) = out BY SubSeqFull
  <1> QED BY <1>5, <1>6

LEMMA PCMIs ==
  ASSUME NEW k \in Nat, NEW g \in Nat
  PROVE  /\ PCM(k, g) \in Seq(Output) /\ Len(PCM(k, g)) = OutLen /\ Decoded(PCM(k, g)) = PCM(k, g)
         /\ \A i \in 1 .. OutLen : PCM(k, g)[i] = <<k, i, g>> /\ PCM(k, g)[i] # Noise
  <1>1. OutLen \in Nat BY StreamAssumption
  <1>2. \A i \in 1 .. OutLen : <<k, i, g>> \in Nat \X Nat \X Nat BY <1>1
  <1>3. PCM(k, g) \in Seq(Nat \X Nat \X Nat) /\ Len(PCM(k, g)) = OutLen BY <1>1, <1>2 DEF PCM
  <1>4. \A i \in 1 .. OutLen : PCM(k, g)[i] = <<k, i, g>> BY DEF PCM
  <1>5. \A i \in 1 .. OutLen : PCM(k, g)[i] # Noise /\ PCM(k, g)[i] # Stale BY <1>2, <1>4, MarkAssumption
  <1>6. Decoded(PCM(k, g)) = PCM(k, g) BY <1>3, <1>5, DecodedAll
  <1>7. PCM(k, g) \in Seq(Output) BY <1>3, SeqMonotonic DEF Output
  <1> QED BY <1>3, <1>4, <1>5, <1>6, <1>7

\* Nothing.
LEMMA NoPacket == ASSUME NEW result \in Decode(<<>>) PROVE result.len = 0 /\ Decoded(result.pcm) = <<>>
  <1>1. OutLen \in Nat /\ outBufSize \in Nat BY StreamAssumption
  <1>2. Fill(Stale, outBufSize) \in Seq({Stale}) /\ AllStale(Fill(Stale, outBufSize)) BY <1>1 DEF Fill, AllStale
  <1>3. Decoded(Fill(Stale, outBufSize)) = <<>> BY <1>2, DecodedStale
  <1>4. result.len = 0 /\ (result.pcm = <<>> \/ result.pcm = Fill(Stale, outBufSize))
    BY DEF Decode, produceDTSPassthroughPackets, avcodec_decode_audio3
  <1> QED BY <1>3, <1>4, DecodedNothing

\* A whole frame, and perhaps more behind it.
LEMMA FramePacket ==
  ASSUME stream \in Streams, NEW k \in Frames, NEW e \in Nat, Start(k + 1) <= e,
         NEW packet, packet = Bytes(Start(k), e), NEW result \in Decode(packet)
  PROVE  \/ k \in stream.damaged /\ result.len = -1
         \/ k \notin stream.damaged /\ result.len = Size(k) /\ result.pcm = PCM(k, seeks)
  <1>1. Start(k) \in Nat /\ Start(k + 1) \in Nat /\ Start(k) < Start(k + 1) /\ Size(k) = Start(k + 1) - Start(k)
    BY FrameIs
  <1>2. Len(packet) \in Nat /\ Len(packet) >= Size(k) /\ \A i \in 1 .. Size(k) : packet[i] = <<Start(k) + i, seeks>>
    <2>1. Start(k) <= e BY <1>1
    <2>2. Len(packet) = e - Start(k) /\ \A i \in 1 .. e - Start(k) : packet[i] = <<Start(k) + i, seeks>>
      BY <1>1, <2>1, BytesAre
    <2> QED BY <1>1, <2>2
  <1>3. packet # <<>> /\ packet[1] = <<Start(k) + 1, seeks>>
    <2>1. 1 \in 1 .. Size(k) /\ Len(packet) # 0 BY <1>1, <1>2
    <2> QED BY <1>2, <2>1, EmptySeq
  <1>4. HasFrame(packet, k)
    <2>1. \A i \in 1 .. Size(k) : packet[i][1] = Start(k) + i BY <1>2
    <2>2. Size(k) \in Nat BY <1>1
    <2> QED BY <1>2, <2>1, <2>2 DEF HasFrame
  <1>5. FrameOf(packet[1]) = k
    <2>1. packet[1][1] = Start(k) + 1 BY <1>3
    <2>2. packet[1][1] \in Nat /\ Start(k) < packet[1][1] /\ packet[1][1] <= Start(k + 1) BY <1>1, <2>1
    <2> QED BY <2>2, FrameOfIs
  <1>6. StartsFrame(packet[1]) /\ packet[1][2] = seeks BY <1>3 DEF StartsFrame
  <1>7. CASE stream.passthrough
    <2>1. result \in produceDTSPassthroughPackets(packet) BY <1>7 DEF Decode
    <2> QED BY <1>3, <1>4, <1>5, <1>6, <2>1 DEF produceDTSPassthroughPackets
  <1>8. CASE ~stream.passthrough
    <2>1. result \in avcodec_decode_audio3(packet) BY <1>8 DEF Decode
    <2> QED BY <1>3, <1>4, <1>5, <1>6, <2>1 DEF avcodec_decode_audio3
  <1> QED BY <1>7, <1>8

\* A packet that begins with bytes of an earlier restart gives at most a frame's output,
\* none of it new.
LEMMA OldPacket ==
  ASSUME stream \in Streams, NEW packet, packet # <<>>, StartsFrame(packet[1]),
         packet[1][2] \in Nat, packet[1][2] # seeks, NEW result \in Decode(packet), ~(result.len < 0)
  PROVE  /\ Decoded(result.pcm) \in Seq(Output) /\ Len(Decoded(result.pcm)) <= OutLen
         /\ \A i \in 1 .. Len(Decoded(result.pcm)) :
              Decoded(result.pcm)[i] = Noise \/ Decoded(result.pcm)[i][3] # seeks
  <1> DEFINE g == packet[1][2]
             k == FrameOf(packet[1])
  <1>1. OutLen \in Nat /\ -1 < 0 BY StreamAssumption
  <1>2. k \in Nat
    <2>1. PICK l \in Frames : packet[1][1] = Start(l) + 1 BY DEF StartsFrame
    <2>2. Start(l) \in Nat /\ Start(l + 1) \in Nat /\ Start(l) < Start(l + 1) /\ l \in Nat BY FrameIs
    <2>3. packet[1][1] \in Nat /\ Start(l) < packet[1][1] /\ packet[1][1] <= Start(l + 1) BY <2>1, <2>2
    <2>4. k = l BY <2>3, FrameOfIs
    <2> QED BY <2>2, <2>4
  <1>3. result.pcm = Fill(Noise, OutLen) \/ result.pcm = PCM(k, g)
    <2>1. CASE stream.passthrough
      <3>1. result \in produceDTSPassthroughPackets(packet) BY <2>1 DEF Decode
      <3> QED BY <1>1, <3>1 DEF produceDTSPassthroughPackets
    <2>2. CASE ~stream.passthrough
      <3>1. result \in avcodec_decode_audio3(packet) BY <2>2 DEF Decode
      <3> QED BY <1>1, <3>1 DEF avcodec_decode_audio3, Broken
    <2> QED BY <2>1, <2>2
  <1>4. g \in Nat /\ g # seeks OBVIOUS
  <1> HIDE DEF g, k
  <1>5. CASE result.pcm = Fill(Noise, OutLen)
    <2>1. /\ Fill(Noise, OutLen) \in Seq({Noise}) /\ Len(Fill(Noise, OutLen)) = OutLen
          /\ \A i \in 1 .. OutLen : Fill(Noise, OutLen)[i] = Noise
      BY <1>1 DEF Fill
    <2>2. Decoded(Fill(Noise, OutLen)) = Fill(Noise, OutLen) BY <2>1, DecodedAll, MarkAssumption
    <2>3. Fill(Noise, OutLen) \in Seq(Output) BY <2>1, SeqMonotonic DEF Output
    <2> QED BY <1>1, <1>5, <2>1, <2>2, <2>3
  <1>6. CASE result.pcm = PCM(k, g)
    <2>1. /\ PCM(k, g) \in Seq(Output) /\ Len(PCM(k, g)) = OutLen /\ Decoded(PCM(k, g)) = PCM(k, g)
          /\ \A i \in 1 .. OutLen : PCM(k, g)[i] = <<k, i, g>>
      BY <1>2, <1>4, PCMIs
    <2>2. \A i \in 1 .. OutLen : PCM(k, g)[i][3] = g BY <2>1
    <2> QED BY <1>1, <1>4, <1>6, <2>1, <2>2
  <1> QED BY <1>3, <1>5, <1>6

-----------------------------------------------------------------------------
(* What was decoded, when all frames that begin before pos were dealt with. *)

\* A frame that was due and not decoded.
Missed(k) == OutLen > 0 /\ k \notin Excused /\ from <= Start(k) /\ \A i \in Fresh : decoded[i][1] # k

DecodedFits(pos) ==
  /\ decoded \in Seq(Output)
  /\ \A i \in Fresh : \E k \in Frames, j \in 1 .. OutLen :
       decoded[i] = <<k, j, seeks>> /\ from <= Start(k) /\ Start(k + 1) <= pos
  /\ \A i, j \in Fresh : i < j => Before(decoded[i], decoded[j])
  /\ \A i \in DOMAIN decoded : FreshAt(i) \/ (broken /\ i <= OutLen)
  /\ \A l \in Frames : Missed(l) /\ Start(l) < pos => broken /\ WithinFrame(l, from)

LEMMA DecodedStays ==
  ASSUME NEW pos, DecodedFits(pos), UNCHANGED <<stream, from, seeks, broken, decoded>>
  PROVE  DecodedFits(pos)'
  BY DEF DecodedFits, Missed, WithinFrame, Size, Fresh, FreshAt, Excused, Frames, Packets, Start, Cut

\* Nothing was decoded from what frames begin in but such as are excused.
LEMMA NothingDecoded ==
  ASSUME stream \in Streams, NEW pos \in Nat, NEW to \in Nat, pos <= to, DecodedFits(pos),
         \A k \in Frames : Begins(k, pos, to) => k \in Excused
  PROVE  DecodedFits(to)
  <1>1. ASSUME NEW k \in Frames, Missed(k), Start(k) < to PROVE Start(k) < pos
    <2>1. Start(k) \in Nat BY FrameIs
    <2>2. k \notin Excused BY <1>1 DEF Missed
    <2>3. ~Begins(k, pos, to) BY <2>2
    <2> QED BY <1>1, <2>1, <2>3 DEF Begins
  <1>2. ASSUME NEW i \in Fresh
        PROVE  \E k \in Frames, j \in 1 .. OutLen : decoded[i] = <<k, j, seeks>> /\ from <= Start(k) /\ Start(k + 1) <= to
    <2>1. PICK k \in Frames, j \in 1 .. OutLen : decoded[i] = <<k, j, seeks>> /\ from <= Start(k) /\ Start(k + 1) <= pos
      BY DEF DecodedFits
    <2>2. Start(k + 1) \in Nat BY FrameIs
    <2>3. Start(k + 1) <= to BY <2>1, <2>2
    <2> QED BY <2>1, <2>3
  <1> QED BY <1>1, <1>2 DEF DecodedFits

\* The frame that comes next was decoded.
LEMMA FrameDecoded ==
  ASSUME stream \in Streams, from \in Nat, seeks \in Nat, NEW k \in Frames, from <= Start(k), DecodedFits(Start(k)),
         UNCHANGED <<stream, from, seeks, broken>>, decoded' = decoded \o PCM(k, seeks)
  PROVE  DecodedFits(Start(k + 1))'
  <1> DEFINE n == Len(decoded)
             more == PCM(k, seeks)
  <1>1. /\ k \in Nat /\ Start(k) \in Nat /\ Start(k + 1) \in Nat /\ Start(k) < Start(k + 1)
        /\ k \in DOMAIN stream.frames /\ k + 1 \in DOMAIN stream.frames
    BY FrameIs
  <1>2. more \in Seq(Output) /\ Len(more) = OutLen /\ \A i \in 1 .. OutLen : more[i] = <<k, i, seeks>> /\ more[i] # Noise
    BY <1>1, PCMIs
  <1>3. OutLen \in Nat BY StreamAssumption
  <1>4. decoded \in Seq(Output) /\ n \in Nat /\ DOMAIN decoded = 1 .. n BY DEF DecodedFits
  <1> HIDE DEF more
  <1>5. decoded' = decoded \o more BY DEF more
  <1>6. decoded' \in Seq(Output) /\ Len(decoded') = n + OutLen /\ DOMAIN decoded' = 1 .. n + OutLen
    <2>1. decoded' \in Seq(Output) /\ Len(decoded') = Len(decoded) + Len(more) BY <1>2, <1>4, <1>5, ConcatProperties
    <2> QED BY <1>2, <2>1
  <1>7. \A i \in 1 .. n : decoded'[i] = decoded[i] BY <1>2, <1>4, <1>5
  <1>8. \A i \in 1 .. OutLen : decoded'[n + i] = more[i] BY <1>2, <1>4, <1>5
  <1> HIDE DEF n
  <1>9. ASSUME NEW i \in 1 .. n PROVE (FreshAt(i)' <=> FreshAt(i)) /\ (i \in Fresh' <=> i \in Fresh)
    <2>1. i \in DOMAIN decoded /\ i \in DOMAIN decoded' BY <1>3, <1>4, <1>6
    <2> QED BY <1>7, <2>1 DEF FreshAt, Fresh
  <1>10. ASSUME NEW i \in n + 1 .. n + OutLen
         PROVE  FreshAt(i)' /\ i \in Fresh' /\ i - n \in 1 .. OutLen /\ decoded'[i] = <<k, i - n, seeks>>
    <2>1. i - n \in 1 .. OutLen /\ n + (i - n) = i /\ i \in DOMAIN decoded' BY <1>3, <1>4, <1>6
    <2>2. decoded'[i] = more[i - n] BY <1>8, <2>1
    <2>3. decoded'[i] = <<k, i - n, seeks>> /\ decoded'[i] # Noise BY <1>2, <2>1, <2>2
    <2>4. decoded'[i][3] = seeks BY <2>3
    <2>5. seeks' = seeks OBVIOUS
    <2>6. FreshAt(i)' BY <2>3, <2>4, <2>5 DEF FreshAt
    <2>7. i \in Fresh' BY <2>1, <2>6 DEF Fresh
    <2> QED BY <2>1, <2>3, <2>6, <2>7
  <1>11. \A i \in Fresh' : i \in 1 .. n \/ i \in n + 1 .. n + OutLen BY <1>3, <1>4, <1>6 DEF Fresh
  <1>12. /\ Frames' = Frames /\ (\A l : Start(l)' = Start(l)) /\ Excused' = Excused
         /\ \A l : WithinFrame(l, from)' <=> WithinFrame(l, from)
    BY DEF Frames, Start, Size, WithinFrame, Excused, Packets, Cut
  <1>13. ASSUME NEW i \in Fresh'
         PROVE  \E l \in Frames, j \in 1 .. OutLen :
                  decoded'[i] = <<l, j, seeks>> /\ from <= Start(l) /\ Start(l + 1) <= Start(k + 1)
    <2>1. CASE i \in 1 .. n
      <3>1. i \in Fresh BY <1>9, <2>1
      <3>2. PICK l \in Frames, j \in 1 .. OutLen :
              decoded[i] = <<l, j, seeks>> /\ from <= Start(l) /\ Start(l + 1) <= Start(k)
        BY <3>1 DEF DecodedFits
      <3>3. Start(l + 1) \in Nat BY FrameIs
      <3>4. Start(l + 1) <= Start(k + 1) BY <1>1, <3>2, <3>3
      <3>5. decoded'[i] = <<l, j, seeks>> BY <1>7, <2>1, <3>2
      <3> QED BY <3>2, <3>4, <3>5
    <2>2. CASE i \in n + 1 .. n + OutLen
      <3>1. i - n \in 1 .. OutLen /\ decoded'[i] = <<k, i - n, seeks>> BY <1>10, <2>2
      <3>2. from <= Start(k) /\ Start(k + 1) <= Start(k + 1) BY <1>1
      <3> DEFINE x == i - n
      <3>3. x \in 1 .. OutLen /\ decoded'[i] = <<k, x, seeks>> BY <3>1
      <3> HIDE DEF x
      <3> QED BY <3>2, <3>3
    <2> QED BY <1>11, <2>1, <2>2
  <1>14. ASSUME NEW i \in Fresh', NEW j \in Fresh', i < j PROVE Before(decoded'[i], decoded'[j])
    <2>1. CASE j \in 1 .. n
      <3>1. i \in 1 .. n BY <1>3, <1>4, <1>11, <1>14, <2>1
      <3>2. i \in Fresh /\ j \in Fresh BY <1>9, <2>1, <3>1
      <3>3. Before(decoded[i], decoded[j]) BY <1>14, <3>2 DEF DecodedFits
      <3> QED BY <1>7, <2>1, <3>1, <3>3
    <2>2. CASE i \in 1 .. n /\ j \in n + 1 .. n + OutLen
      <3>1. i \in Fresh BY <1>9, <2>2
      <3>2. PICK l \in Frames, x \in 1 .. OutLen :
              decoded[i] = <<l, x, seeks>> /\ from <= Start(l) /\ Start(l + 1) <= Start(k)
        BY <3>1 DEF DecodedFits
      <3>3. l \in Nat /\ Start(l) \in Nat /\ Start(l + 1) \in Nat /\ Start(l) < Start(l + 1) /\ l \in DOMAIN stream.frames
        BY FrameIs
      <3>4. ~(k <= l)
        <4> SUFFICES ASSUME k <= l PROVE FALSE OBVIOUS
        <4>1. Start(k) <= Start(l) BY <1>1, FrameIs
        <4> QED BY <1>1, <3>2, <3>3, <4>1
      <3>5. decoded'[i][1] = l /\ decoded'[j][1] = k
        <4>1. decoded'[i] = <<l, x, seeks>> BY <1>7, <2>2, <3>2
        <4>2. decoded'[j] = <<k, j - n, seeks>> BY <1>10, <2>2
        <4> QED BY <4>1, <4>2
      <3>6. l < k BY <1>1, <3>3, <3>4
      <3> QED BY <3>5, <3>6 DEF Before
    <2>3. CASE i \in n + 1 .. n + OutLen /\ j \in n + 1 .. n + OutLen
      <3>1. decoded'[i] = <<k, i - n, seeks>> /\ decoded'[j] = <<k, j - n, seeks>> BY <1>10, <2>3
      <3>2. i - n < j - n BY <1>3, <1>4, <1>14, <2>3
      <3>3. decoded'[i][1] = decoded'[j][1] /\ decoded'[i][2] < decoded'[j][2] BY <3>1, <3>2
      <3> QED BY <3>3 DEF Before
    <2> QED BY <1>11, <2>1, <2>2, <2>3
  <1>15. ASSUME NEW i \in DOMAIN decoded' PROVE FreshAt(i)' \/ (broken /\ i <= OutLen)
    <2>1. CASE i \in 1 .. n
      <3>1. FreshAt(i) \/ (broken /\ i <= OutLen) BY <1>4, <2>1 DEF DecodedFits
      <3> QED BY <1>9, <2>1, <3>1
    <2>2. CASE i \in n + 1 .. n + OutLen BY <1>10, <2>2
    <2> QED BY <1>3, <1>4, <1>6, <2>1, <2>2
  <1>16. ASSUME NEW l \in Frames, Missed(l)', Start(l) < Start(k + 1) PROVE Missed(l) /\ Start(l) < Start(k)
    <2>1. /\ OutLen > 0 /\ l \notin Excused /\ from <= Start(l) /\ \A i \in Fresh' : decoded'[i][1] # l
      BY <1>12, <1>16 DEF Missed
    <2>2. l # k
      <3>1. n + 1 \in n + 1 .. n + OutLen BY <1>3, <1>4, <2>1
      <3>2. n + 1 \in Fresh' /\ decoded'[n + 1] = <<k, (n + 1) - n, seeks>> BY <1>10, <3>1
      <3>3. decoded'[n + 1][1] = k BY <3>2
      <3> QED BY <2>1, <3>2, <3>3
    <2>3. \A i \in Fresh : i \in 1 .. n BY <1>4 DEF Fresh
    <2>4. \A i \in Fresh : decoded[i][1] # l BY <1>7, <1>9, <2>1, <2>3
    <2>5. l \in Nat /\ l \in DOMAIN stream.frames /\ Start(l) \in Nat BY FrameIs
    <2>6. ~(k + 1 <= l)
      <3> SUFFICES ASSUME k + 1 <= l PROVE FALSE OBVIOUS
      <3>1. Start(k + 1) <= Start(l) BY <2>5, FrameIs
      <3> QED BY <1>1, <1>16, <2>5, <3>1
    <2>7. l < k BY <1>1, <2>2, <2>5, <2>6
    <2>8. Start(l) < Start(k) BY <1>1, <2>5, <2>7, StreamIs
    <2> QED BY <2>1, <2>4, <2>8 DEF Missed
  <1>17. ASSUME NEW l \in Frames, Missed(l)', Start(l) < Start(k + 1)
         PROVE  broken /\ WithinFrame(l, from)
    <2>1. Missed(l) /\ Start(l) < Start(k) BY <1>16, <1>17
    <2> QED BY <2>1 DEF DecodedFits
  <1> QED BY <1>6, <1>12, <1>13, <1>14, <1>15, <1>17 DEF DecodedFits

\* After a restart the first packet gave output that is not new, and took a length with it.
LEMMA OldDecoded ==
  ASSUME stream \in Streams, NEW to \in Nat, broken, decoded = <<>>, NEW out \in Seq(Output), Len(out) <= OutLen,
         \A i \in 1 .. Len(out) : out[i] = Noise \/ out[i][3] # seeks,
         \A l \in Frames : Begins(l, from, to) => WithinFrame(l, from),
         UNCHANGED <<stream, from, seeks, broken>>, decoded' = decoded \o out
  PROVE  DecodedFits(to)'
  <1>1. decoded' = out BY ConcatEmptySeq
  <1>2. \A i \in DOMAIN out : ~FreshAt(i)' BY <1>1 DEF FreshAt
  <1>3. Fresh' = {} BY <1>1, <1>2 DEF Fresh
  <1>4. /\ Frames' = Frames /\ (\A l : Start(l)' = Start(l))
        /\ \A l : WithinFrame(l, from)' <=> WithinFrame(l, from)
    BY DEF Frames, Start, Size, WithinFrame
  <1>5. \A i \in DOMAIN out : i <= OutLen
    <2>1. DOMAIN out = 1 .. Len(out) /\ Len(out) \in Nat /\ OutLen \in Nat BY StreamAssumption
    <2> QED BY <2>1
  <1>6. ASSUME NEW l \in Frames, Missed(l)', Start(l) < to PROVE WithinFrame(l, from)
    <2>1. from <= Start(l) BY <1>4, <1>6 DEF Missed
    <2> QED BY <1>6, <2>1 DEF Begins
  <1> QED BY <1>1, <1>3, <1>4, <1>5, <1>6 DEF DecodedFits

-----------------------------------------------------------------------------
(* The inductive invariant: the input begins with the byte behind at, the    *)
(* first o bytes of what the parser keeps are old, and those behind them are *)
(* the stream's from pos on.                                                 *)

Reads(at, o, pos) ==
  /\ InputFits(input, next, at)
  /\ stream.parser = "none" => \E k \in DOMAIN stream.frames : at = Start(k)
  /\ o <= Len(parser) /\ KeptFits(parser, o) /\ GoesOn(parser, o, pos, at)
  /\ from <= pos /\ DecodedFits(pos)
  /\ o > 0 => (broken /\ decoded = <<>> /\ pos = from)
  /\ \A i \in 1 .. o : parser[i][2] # seeks

FrameInv ==
  /\ stream \in Streams /\ next \in DOMAIN stream.packets /\ from \in Nat /\ seeks \in Nat
  /\ parser \in Seq(Nat \X Nat) /\ \A i \in DOMAIN parser : parser[i][2] <= seeks
  /\ broken => stream.seeks > 0
  /\ stream.cookie /\ ~magicCookie => (~codec /\ call = NoCall /\ parser = <<>>)
  /\ \E at, o, pos \in Nat : Reads(at, o, pos)

LEMMA InputStays ==
  ASSUME NEW at, NEW p, InputFits(input', p, at), next' = p, UNCHANGED <<stream, seeks>>
  PROVE  InputFits(input, next, at)'
  BY DEF InputFits, Bytes, Cut

LEMMA KeptStays ==
  ASSUME NEW o, NEW n, NEW pos, NEW at, KeptFits(parser', o), GoesOn(parser', o, pos, at), UNCHANGED <<stream, seeks>>
  PROVE  KeptFits(parser, o)' /\ GoesOn(parser, o, pos, at)'
  BY DEF KeptFits, GoesOn, StartsFrame, FrameOf, Size, Start, Frames

\* Steps that leave all of it alone.
LEMMA ReadsStay ==
  ASSUME NEW at, NEW o, NEW pos, Reads(at, o, pos),
         UNCHANGED <<stream, next, input, parser, from, seeks, broken, decoded>>
  PROVE  Reads(at, o, pos)'
  <1>1. DecodedFits(pos)' BY DecodedStays DEF Reads
  <1>2. InputFits(input, next, at)' BY InputStays DEF Reads
  <1>3. KeptFits(parser, o)' /\ GoesOn(parser, o, pos, at)' BY KeptStays DEF Reads
  <1> QED BY <1>1, <1>2, <1>3 DEF Reads, Start

LEMMA FrameStutters ==
  ASSUME FrameInv, UNCHANGED <<stream, next, input, parser, from, seeks, broken, decoded>>,
         (stream.cookie /\ ~magicCookie => (~codec /\ call = NoCall /\ parser = <<>>))'
  PROVE  FrameInv'
  <1>1. PICK at \in Nat, o \in Nat, pos \in Nat : Reads(at, o, pos) BY DEF FrameInv
  <1>2. Reads(at, o, pos)' BY <1>1, ReadsStay
  <1> QED BY <1>2 DEF FrameInv

\* The bytes up to the one at to were taken, and of those before it nothing waits.
LEMMA ReadOn ==
  ASSUME FrameInv, NEW at \in Nat, InputFits(input, next, at), NEW to \in Nat, at <= to, to <= Cut(next), from <= to,
         parser' = <<>>, input' = Zap(input, to - at), UNCHANGED <<stream, next, from, seeks, broken, magicCookie>>,
         ~(stream.cookie /\ ~magicCookie), DecodedFits(to)',
         stream.parser = "none" => \E k \in DOMAIN stream.frames : to = Start(k)
  PROVE  FrameInv'
  <1>1. /\ stream \in Streams /\ next \in DOMAIN stream.packets /\ from \in Nat /\ seeks \in Nat
        /\ broken => stream.seeks > 0
    BY DEF FrameInv
  <1>2. Cut(next) \in Nat BY <1>1, StreamIs
  <1>3. to - at \in 0 .. Cut(next) - at /\ at + (to - at) = to BY <1>2
  <1>4. InputFits(input', next, to) BY <1>1, <1>3, ZapFits
  <1>5. InputFits(input, next, to)' BY <1>4, InputStays
  <1>6. Len(<<>>) = 0 OBVIOUS
  <1>7. KeptFits(<<>>, 0) /\ GoesOn(<<>>, 0, to, to) BY <1>6 DEF KeptFits, GoesOn
  <1>8. KeptFits(parser, 0)' /\ GoesOn(parser, 0, to, to)' BY <1>7, KeptStays
  <1>9. Reads(to, 0, to)' BY <1>1, <1>5, <1>6, <1>8 DEF Reads, Start
  <1>10. parser' \in Seq(Nat \X Nat) /\ DOMAIN parser' = {} OBVIOUS
  <1> QED BY <1>1, <1>9, <1>10 DEF FrameInv

-----------------------------------------------------------------------------
(* A turn of the loop. *)

\* There is input.
LEMMA InputWaits ==
  ASSUME FrameInv, NEW at \in Nat, InputFits(input, next, at), input.ends # <<>>
  PROVE  at < Cut(next) /\ Cut(next) \in Nat /\ Cut(next) <= End
  <1> DEFINE len == Len(input.ends)
  <1>1. stream \in Streams /\ next \in DOMAIN stream.packets BY DEF FrameInv
  <1>2. Cut(next) \in Nat /\ Cut(next) <= End /\ next \in Nat BY <1>1, StreamIs
  <1>3. input.ends \in Seq(Nat) /\ len \in Nat BY DEF InputFits
  <1>4. len # 0 BY <1>3, EmptySeq
  <1>5. len \in 1 .. len BY <1>3, <1>4
  <1>6. input.ends[len] > 0 /\ input.ends[len] = Cut(next - len + len) - at /\ input.ends[len] \in Nat
    BY <1>3, <1>5 DEF InputFits
  <1>7. next - len + len = next BY <1>2, <1>3
  <1> QED BY <1>2, <1>6, <1>7

\* Without a parser the first packet begins with a frame and ends with one.
LEMMA PacketIs ==
  ASSUME FrameInv, stream.parser = "none", NEW at \in Nat, InputFits(input, next, at), input.ends # <<>>,
         NEW j \in DOMAIN stream.frames, at = Start(j)
  PROVE  \E k \in Frames, p \in Packets :
           /\ at = Start(k) /\ Cut(p) <= at /\ Start(k + 1) <= Cut(p + 1) /\ Cut(p + 1) <= Cut(next)
           /\ SubSeq(input.data, 1, input.ends[1]) = Bytes(at, Cut(p + 1))
           /\ \E l \in DOMAIN stream.frames : Cut(p + 1) = Start(l)
           /\ Cut(p + 1) \in Nat
  <1> DEFINE len == Len(input.ends)
             p == next - len
             a == input.ends[1]
  <1>1. stream \in Streams /\ next \in DOMAIN stream.packets BY DEF FrameInv
  <1>2. /\ DOMAIN stream.packets = 1 .. Len(stream.packets) /\ Len(stream.packets) \in Nat
        /\ \A q \in DOMAIN stream.packets : Cut(q) \in Nat
        /\ \A q, r \in DOMAIN stream.packets : q < r => Cut(q) < Cut(r)
        /\ \A q \in DOMAIN stream.packets : \E l \in DOMAIN stream.frames : Cut(q) = Start(l)
        /\ DOMAIN stream.frames = 1 .. Len(stream.frames) /\ Len(stream.frames) \in Nat
    BY <1>1, StreamIs
  <1>3. at < Cut(next) /\ Cut(next) \in Nat /\ Cut(next) <= End BY InputWaits
  <1>4. input.ends \in Seq(Nat) /\ len \in Nat /\ len < next /\ Cut(p) <= at /\ input.data = Bytes(at, Cut(next))
    BY DEF InputFits
  <1>5. len # 0 BY <1>4, EmptySeq
  <1>6. 1 \in 1 .. len BY <1>4, <1>5
  <1>7. a > 0 /\ a = Cut(p + 1) - at BY <1>6 DEF InputFits
  <1> HIDE DEF a, len
  <1>8. p \in Packets /\ p + 1 \in DOMAIN stream.packets /\ p + 1 <= next /\ p \in Nat
    <2>1. next \in 1 .. Len(stream.packets) BY <1>1, <1>2
    <2> QED BY <1>2, <1>4, <1>5, <2>1 DEF Packets
  <1> HIDE DEF p
  <1>9. Cut(p + 1) \in Nat BY <1>2, <1>8
  <1>10. Cut(p + 1) <= Cut(next)
    <2>1. next \in Nat BY <1>1, <1>2
    <2>2. p + 1 = next \/ p + 1 < next BY <1>8, <2>1
    <2> QED BY <1>1, <1>2, <1>8, <1>9, <2>2
  <1>11. a \in 0 .. Cut(next) - at /\ at + a = Cut(p + 1) /\ at <= Cut(next) BY <1>3, <1>7, <1>9, <1>10
  <1>12. SubSeq(input.data, 1, a) = Bytes(at, Cut(p + 1))
    <2>1. SubSeq(Bytes(at, Cut(next)), 1, a) = Bytes(at, at + a) BY <1>3, <1>11, BytesPart
    <2> QED BY <1>4, <1>11, <2>1
  <1>13. PICK l \in DOMAIN stream.frames : Cut(p + 1) = Start(l) BY <1>2, <1>8
  <1>14. at < Start(l) BY <1>7, <1>9, <1>13
  <1>15. j \in Frames
    <2>1. j # Len(stream.frames) BY <1>3 DEF End, Start
    <2> QED BY <1>2, <2>1 DEF Frames
  <1>16. /\ Start(j) \in Nat /\ (l <= j \/ j + 1 <= l) /\ (l <= j => Start(l) <= Start(j))
         /\ (j + 1 <= l => Start(j + 1) <= Start(l))
    BY <1>1, <1>15, FrameIs
  <1>17. Start(l) \in Nat BY <1>9, <1>13
  <1>18. Start(j + 1) <= Cut(p + 1) BY <1>13, <1>14, <1>16, <1>17
  <1>19. Cut(p) <= at BY <1>4 DEF p, len
  <1> QED BY <1>8, <1>9, <1>10, <1>12, <1>13, <1>15, <1>18, <1>19 DEF a

\* What a turn gets of the parser, and leaves of the output decoded.
Parses(parsed) == parsed = av_parser_parse2(parser, input.data)

Takes(result) ==
  IF result.len < 0 THEN decoded' = decoded ELSE decoded' = decoded \o Decoded(result.pcm)

LEMMA DecodeWithoutParser ==
  ASSUME FrameInv, input.ends # <<>>, ~(stream.cookie /\ ~magicCookie), stream.parser = "none",
         NEW result \in Decode(SubSeq(input.data, 1, input.ends[1])), Takes(result),
         parser' = <<>>,
         input' = Zap(input, IF result.len < 0 THEN Len(SubSeq(input.data, 1, input.ends[1])) ELSE result.len),
         UNCHANGED <<stream, next, from, seeks, broken, magicCookie>>
  PROVE  FrameInv'
  <1>1. PICK at \in Nat, o \in Nat, pos \in Nat : Reads(at, o, pos) BY DEF FrameInv
  <1>2. /\ stream \in Streams /\ next \in DOMAIN stream.packets /\ from \in Nat /\ seeks \in Nat
    BY DEF FrameInv
  <1>3. InputFits(input, next, at) /\ from <= pos /\ DecodedFits(pos) BY <1>1 DEF Reads
  <1>4. PICK j \in DOMAIN stream.frames : at = Start(j) BY <1>1 DEF Reads
  <1>5. at = pos
    <2>1. parser = <<>> BY <1>1 DEF Reads, KeptFits
    <2>2. Len(parser) = 0 BY <2>1
    <2>3. o = 0 BY <1>1, <2>2 DEF Reads
    <2>4. at = pos + (Len(parser) - o) BY <1>1 DEF Reads, GoesOn
    <2> QED BY <2>2, <2>3, <2>4
  <1>6. PICK k \in Frames, p \in Packets :
           /\ at = Start(k) /\ Cut(p) <= at /\ Start(k + 1) <= Cut(p + 1) /\ Cut(p + 1) <= Cut(next)
           /\ SubSeq(input.data, 1, input.ends[1]) = Bytes(at, Cut(p + 1))
           /\ \E l \in DOMAIN stream.frames : Cut(p + 1) = Start(l)
           /\ Cut(p + 1) \in Nat
    BY <1>3, <1>4, PacketIs
  <1>7. /\ k \in Nat /\ k + 1 \in DOMAIN stream.frames /\ Start(k) \in Nat /\ Start(k + 1) \in Nat /\ Start(k) < Start(k + 1)
        /\ Size(k) = Start(k + 1) - Start(k) /\ Size(k) \in Nat
    BY <1>2, FrameIs
  <1>8. \/ k \in stream.damaged /\ result.len = -1
        \/ k \notin stream.damaged /\ result.len = Size(k) /\ result.pcm = PCM(k, seeks)
    BY <1>2, <1>6, FramePacket
  <1>9. Cut(next) \in Nat BY <1>2, StreamIs
  <1>10. CASE k \in stream.damaged /\ result.len = -1
    <2> DEFINE to == Cut(p + 1)
    <2>1. to \in Nat /\ at <= to /\ to <= Cut(next) /\ from <= to BY <1>2, <1>3, <1>5, <1>6, <1>7
    <2>2. Len(Bytes(at, to)) = to - at BY <2>1, BytesAre
    <2>3. result.len < 0 BY <1>10
    <2>4. input' = Zap(input, to - at) BY <1>6, <2>2, <2>3
    <2>5. decoded' = decoded BY <2>3 DEF Takes
    <2>6. ASSUME NEW l \in Frames, Begins(l, pos, to) PROVE l \in Excused
      <3>1. l \in Nat /\ l \in DOMAIN stream.frames /\ Start(l) \in Nat BY <1>2, FrameIs
      <3>2. Start(k) <= Start(l) /\ Start(l) < to BY <1>5, <1>6, <2>6 DEF Begins
      <3>3. k <= l
        <4> SUFFICES ASSUME ~(k <= l) PROVE FALSE OBVIOUS
        <4>1. k \in DOMAIN stream.frames /\ l < k BY <1>2, <1>7, <3>1, FrameIs
        <4>2. Start(l) < Start(k) BY <1>2, <3>1, <4>1, StreamIs
        <4> QED BY <1>7, <3>1, <3>2, <4>2
      <3>4. k = l \/ k < l BY <1>7, <3>1, <3>3
      <3>5. CASE k = l BY <1>10, <3>5 DEF Excused
      <3>6. CASE k < l
        <4>1. Cut(p) <= Start(k) /\ Start(l) < Cut(p + 1) BY <1>6, <3>2
        <4> QED BY <1>10, <3>6, <4>1 DEF Excused
      <3> QED BY <3>4, <3>5, <3>6
    <2> HIDE DEF to
    <2>7. pos <= to BY <1>5, <2>1
    <2>8. DecodedFits(to) BY <1>2, <1>3, <2>1, <2>6, <2>7, NothingDecoded
    <2>9. \E l \in DOMAIN stream.frames : to = Start(l) BY <1>6 DEF to
    <2>10. PICK y \in Nat : y = to BY <2>1
    <2>11. DecodedFits(y)' BY <2>5, <2>8, <2>10, DecodedStays
    <2> QED BY <1>3, <2>1, <2>4, <2>9, <2>10, <2>11, ReadOn
  <1>11. CASE k \notin stream.damaged /\ result.len = Size(k) /\ result.pcm = PCM(k, seeks)
    <2> DEFINE to == Start(k + 1)
    <2>1. to \in Nat /\ at <= to /\ to <= Cut(next) /\ from <= to BY <1>2, <1>3, <1>5, <1>6, <1>7, <1>9
    <2>3. ~(result.len < 0) /\ result.len = to - at BY <1>6, <1>7, <1>11
    <2>4. input' = Zap(input, to - at) BY <2>3
    <2>5. decoded' = decoded \o PCM(k, seeks)
      <3>1. Decoded(PCM(k, seeks)) = PCM(k, seeks) BY <1>2, <1>7, PCMIs
      <3> QED BY <1>11, <2>3, <3>1 DEF Takes
    <2>6. DecodedFits(Start(k + 1))'
      <3>1. from <= Start(k) /\ DecodedFits(Start(k)) BY <1>3, <1>5, <1>6
      <3> QED BY <1>2, <2>5, <3>1, FrameDecoded
    <2>7. \E l \in DOMAIN stream.frames : to = Start(l) BY <1>7
    <2>8. Start(k + 1)' = to BY DEF Start
    <2> HIDE DEF to
    <2>9. PICK y \in Nat : y = to BY <2>1
    <2>10. DecodedFits(y)' BY <2>6, <2>8, <2>9
    <2> QED BY <1>3, <2>1, <2>4, <2>7, <2>9, <2>10, ReadOn
  <1> QED BY <1>8, <1>10, <1>11

\* Behind what is kept, and new, the data goes on.
LEMMA DecodeFresh ==
  ASSUME FrameInv, input.ends # <<>>, ~(stream.cookie /\ ~magicCookie), stream.parser # "none",
         NEW at \in Nat, NEW pos \in Nat, Reads(at, 0, pos),
         NEW parsed, Parses(parsed),
         NEW result \in Decode(parsed.packet), Takes(result),
         parser' = parsed.kept, input' = Zap(input, parsed.len),
         UNCHANGED <<stream, next, from, seeks, broken, magicCookie>>
  PROVE  FrameInv'
  <1> DEFINE e == Cut(next)
  <1>1. /\ stream \in Streams /\ next \in DOMAIN stream.packets /\ from \in Nat /\ seeks \in Nat
        /\ parser \in Seq(Nat \X Nat) /\ \A i \in DOMAIN parser : parser[i][2] <= seeks
        /\ broken => stream.seeks > 0
    BY DEF FrameInv
  <1>2. InputFits(input, next, at) /\ from <= pos /\ DecodedFits(pos) /\ KeptFits(parser, 0) /\ GoesOn(parser, 0, pos, at)
    BY DEF Reads
  <1>3. at < e /\ e \in Nat /\ e <= End BY <1>2, InputWaits
  <1>4. pos <= at /\ parser = Bytes(pos, at)
    <2>1. at = pos + (Len(parser) - 0) /\ \A i \in 0 + 1 .. Len(parser) : parser[i] = <<pos + (i - 0), seeks>>
      BY <1>2 DEF GoesOn
    <2>2. Len(parser) \in Nat BY <1>1
    <2>3. pos <= at /\ Len(parser) = at - pos BY <2>1, <2>2
    <2>4. ASSUME NEW i \in 1 .. at - pos PROVE parser[i] = <<pos + i, seeks>>
      <3>1. i \in 0 + 1 .. Len(parser) /\ pos + (i - 0) = pos + i BY <2>3
      <3> QED BY <2>1, <3>1
    <2> QED BY <1>1, <2>3, <2>4, BytesIf
  <1>5. input.data = Bytes(at, e) BY <1>2 DEF InputFits
  <1>6. parsed = av_parser_parse2(Bytes(pos, at), Bytes(at, e)) BY <1>4, <1>5 DEF Parses
  <1>7. KeptFits(Bytes(pos, at), 0) BY <1>2, <1>4
  <1> HIDE DEF e
  <1>8. /\ parsed.len \in 0 .. e - at
        /\ \/ parsed.packet = <<>> /\ parsed.len = e - at /\ parsed.kept = Bytes(pos, e) /\ KeptFits(parsed.kept, 0)
           \/ /\ parsed.packet = <<>> /\ parsed.kept = <<>> /\ pos = at
              /\ \A k \in Frames : ~Begins(k, at, at + parsed.len)
           \/ \E k \in Frames : /\ parsed.kept = <<>> /\ pos = Start(k) /\ at + parsed.len = Start(k + 1)
                                /\ parsed.packet = Bytes(Start(k), Start(k + 1))
    BY <1>1, <1>3, <1>4, <1>6, <1>7, ParsedFresh
  <1>9. PICK to \in Nat : to = at + parsed.len BY <1>8
  <1>10. /\ parsed.len = to - at /\ at <= to /\ to <= e /\ pos <= to /\ from <= to /\ to - at \in 0 .. e - at
         /\ at + (to - at) = to
    <2>1. parsed.len \in 0 .. e - at BY <1>8
    <2>2. from <= pos /\ pos <= at /\ from \in Nat /\ e \in Nat /\ at < e BY <1>1, <1>2, <1>3, <1>4
    <2> QED BY <1>9, <2>1, <2>2
  <1>11. input' = Zap(input, to - at) BY <1>10
  <1>12. CASE parsed.packet = <<>>
    <2>1. result.len = 0 /\ Decoded(result.pcm) = <<>> BY <1>12, NoPacket
    <2>2. decoded \in Seq(Output) BY <1>2 DEF DecodedFits
    <2>3. decoded' = decoded BY <2>1, <2>2, ConcatEmptySeq DEF Takes
    <2>4. CASE parsed.kept = Bytes(pos, e) /\ KeptFits(parsed.kept, 0) /\ parsed.len = e - at
      <3>1. to = e BY <1>3, <1>10, <2>4
      <3>2. InputFits(input', next, to) BY <1>1, <1>2, <1>10, <1>11, ZapFits DEF e
      <3>3. InputFits(input, next, to)' BY <3>2, InputStays
      <3>4. pos <= e BY <1>3, <1>4
      <3>5. /\ parser' \in Seq({<<i, seeks>> : i \in Nat}) /\ Len(parser') = e - pos
            /\ \A i \in 1 .. e - pos : parser'[i] = <<pos + i, seeks>>
        BY <2>4, <3>4, <1>3, BytesAre
      <3>6. GoesOn(parser', 0, pos, to)
        <4>1. to = pos + (Len(parser') - 0) BY <1>3, <3>1, <3>4, <3>5
        <4>2. ASSUME NEW i \in 0 + 1 .. Len(parser') PROVE parser'[i] = <<pos + (i - 0), seeks>>
          <5>1. i \in 1 .. e - pos /\ pos + (i - 0) = pos + i BY <1>3, <3>5
          <5> QED BY <3>5, <5>1
        <4> QED BY <4>1, <4>2 DEF GoesOn
      <3>7. KeptFits(parser', 0) BY <2>4
      <3>8. KeptFits(parser, 0)' /\ GoesOn(parser, 0, pos, to)' BY <3>6, <3>7, KeptStays
      <3>9. DecodedFits(pos)' BY <1>2, <2>3, DecodedStays
      <3>10. parser' \in Seq(Nat \X Nat)
        <4>1. {<<i, seeks>> : i \in Nat} \subseteq Nat \X Nat BY <1>1
        <4> QED BY <3>5, <4>1, SeqMonotonic
      <3>11. \A i \in DOMAIN parser' : parser'[i][2] <= seeks
        <4>1. DOMAIN parser' = 1 .. e - pos BY <1>3, <3>5
        <4>2. \A i \in DOMAIN parser' : parser'[i][2] = seeks BY <3>5, <4>1
        <4> QED BY <1>1, <4>2
      <3>12. 0 <= Len(parser') BY <1>3, <3>4, <3>5
      <3>13. Reads(to, 0, pos)' BY <1>2, <3>3, <3>8, <3>9, <3>12 DEF Reads
      <3> QED BY <1>1, <3>10, <3>11, <3>13 DEF FrameInv
    <2>5. CASE parsed.kept = <<>> /\ pos = at /\ \A k \in Frames : ~Begins(k, at, at + parsed.len)
      <3>1. \A k \in Frames : Begins(k, pos, to) => k \in Excused BY <1>9, <2>5
      <3>2. DecodedFits(to) BY <1>1, <1>2, <1>10, <3>1, NothingDecoded
      <3>3. DecodedFits(to)' BY <2>3, <3>2, DecodedStays
      <3> QED BY <1>2, <1>10, <1>11, <2>5, <3>3, ReadOn DEF e
    <2>6. ASSUME NEW k \in Frames, parsed.packet = Bytes(Start(k), Start(k + 1)) PROVE FALSE
      <3>1. Start(k) \in Nat /\ Start(k + 1) \in Nat /\ Start(k) < Start(k + 1) BY <1>1, FrameIs
      <3>2. Start(k) <= Start(k + 1) BY <3>1
      <3>3. Len(parsed.packet) = Start(k + 1) - Start(k) BY <2>6, <3>1, <3>2, BytesAre
      <3>4. Len(parsed.packet) = 0 BY <1>12
      <3> QED BY <3>1, <3>3, <3>4
    <2> QED BY <1>8, <2>4, <2>5, <2>6
  <1>13. CASE parsed.packet # <<>>
    <2>1. PICK k \in Frames : /\ parsed.kept = <<>> /\ pos = Start(k) /\ at + parsed.len = Start(k + 1)
                              /\ parsed.packet = Bytes(Start(k), Start(k + 1))
      BY <1>8, <1>13
    <2>2. /\ k \in Nat /\ Start(k) \in Nat /\ Start(k + 1) \in Nat /\ Start(k + 1) <= Start(k + 1)
      BY <1>1, FrameIs
    <2>3. \/ k \in stream.damaged /\ result.len = -1
          \/ k \notin stream.damaged /\ result.len = Size(k) /\ result.pcm = PCM(k, seeks)
      BY <1>1, <2>1, <2>2, FramePacket
    <2>4. CASE k \in stream.damaged /\ result.len = -1
      <3>1. result.len < 0 BY <2>4
      <3>2. decoded' = decoded BY <3>1 DEF Takes
      <3>3. ASSUME NEW l \in Frames, Begins(l, pos, to) PROVE l \in Excused
        <4>1. l \in Nat /\ l \in DOMAIN stream.frames /\ Start(l) \in Nat /\ k \in DOMAIN stream.frames BY <1>1, FrameIs
        <4>2. Start(k) <= Start(l) /\ Start(l) < Start(k + 1) BY <1>9, <2>1, <3>3 DEF Begins
        <4>3. ~(k + 1 <= l)
          <5> SUFFICES ASSUME k + 1 <= l PROVE FALSE OBVIOUS
          <5>1. Start(k + 1) <= Start(l) BY <1>1, <4>1, FrameIs
          <5> QED BY <2>2, <4>1, <4>2, <5>1
        <4>4. ~(l < k)
          <5> SUFFICES ASSUME l < k PROVE FALSE OBVIOUS
          <5>1. Start(l) < Start(k) BY <1>1, <4>1, StreamIs
          <5> QED BY <2>2, <4>1, <4>2, <5>1
        <4>5. l = k BY <2>2, <4>1, <4>3, <4>4
        <4> QED BY <2>4, <4>5 DEF Excused
      <3>4. DecodedFits(to) BY <1>1, <1>2, <1>10, <3>3, NothingDecoded
      <3>5. DecodedFits(to)' BY <3>2, <3>4, DecodedStays
      <3> QED BY <1>2, <1>10, <1>11, <2>1, <3>5, ReadOn DEF e
    <2>5. CASE k \notin stream.damaged /\ result.len = Size(k) /\ result.pcm = PCM(k, seeks)
      <3>1. ~(result.len < 0) BY <1>1, <2>5, FrameIs
      <3>2. decoded' = decoded \o PCM(k, seeks)
        <4>1. Decoded(PCM(k, seeks)) = PCM(k, seeks) BY <1>1, <2>2, PCMIs
        <4> QED BY <2>5, <3>1, <4>1 DEF Takes
      <3>3. from <= Start(k) /\ DecodedFits(Start(k)) BY <1>2, <2>1
      <3>4. DecodedFits(Start(k + 1))' BY <1>1, <3>2, <3>3, FrameDecoded
      <3>5. Start(k + 1)' = to BY <1>9, <2>1 DEF Start
      <3>6. DecodedFits(to)' BY <3>4, <3>5
      <3> QED BY <1>2, <1>10, <1>11, <2>1, <3>6, ReadOn DEF e
    <2> QED BY <2>3, <2>4, <2>5
  <1> QED BY <1>12, <1>13

\* The parser keeps bytes of before the restart.
LEMMA DecodeOld ==
  ASSUME FrameInv, input.ends # <<>>, ~(stream.cookie /\ ~magicCookie), stream.parser # "none",
         NEW at \in Nat, NEW pos \in Nat, NEW o \in Nat \ {0}, Reads(at, o, pos),
         NEW parsed, Parses(parsed),
         NEW result \in Decode(parsed.packet), Takes(result),
         parser' = parsed.kept, input' = Zap(input, parsed.len),
         UNCHANGED <<stream, next, from, seeks, broken, magicCookie>>
  PROVE  FrameInv'
  <1> DEFINE e == Cut(next)
  <1>1. /\ stream \in Streams /\ next \in DOMAIN stream.packets /\ from \in Nat /\ seeks \in Nat
        /\ parser \in Seq(Nat \X Nat) /\ \A i \in DOMAIN parser : parser[i][2] <= seeks
        /\ broken => stream.seeks > 0
    BY DEF FrameInv
  <1>2. /\ InputFits(input, next, at) /\ from <= pos /\ DecodedFits(pos) /\ KeptFits(parser, o) /\ GoesOn(parser, o, pos, at)
        /\ broken /\ decoded = <<>> /\ pos = from /\ o <= Len(parser) /\ \A i \in 1 .. o : parser[i][2] # seeks
    BY DEF Reads
  <1>3. at < e /\ e \in Nat /\ e <= End BY <1>2, InputWaits
  <1>4. o \in 1 .. Len(parser) /\ Len(parser) \in Nat /\ 1 \in 1 .. o BY <1>1, <1>2
  <1>5. input.data = Bytes(at, e) BY <1>2 DEF InputFits
  <1>6. parsed = av_parser_parse2(parser, Bytes(at, e)) BY <1>5 DEF Parses
  <1> HIDE DEF e
  <1>7. stream.seeks > 0 BY <1>1, <1>2
  <1>8. /\ parsed.len \in 0 .. e - at
        /\ \/ /\ parsed.packet = <<>> /\ parsed.len = e - at /\ parsed.kept = parser \o Bytes(at, e)
              /\ KeptFits(parsed.kept, o)
           \/ /\ parsed.kept = <<>> /\ parsed.packet # <<>> /\ parsed.packet[1] = parser[1] /\ StartsFrame(parser[1])
              /\ \A l \in Frames : Begins(l, pos, at + parsed.len) => WithinFrame(l, pos)
    <2> DEFINE B == Nat \X Nat
    <2>1. /\ stream \in Streams /\ stream.seeks > 0 /\ parser \in Seq(B) /\ o \in 1 .. Len(parser)
          /\ KeptFits(parser, o) /\ GoesOn(parser, o, pos, at) /\ at < e /\ e \in Nat /\ e <= End
      BY <1>1, <1>2, <1>3, <1>4, <1>7
    <2> DEFINE r == av_parser_parse2(parser, Bytes(at, e))
    <2>2. /\ r.len \in 0 .. e - at
          /\ \/ r.packet = <<>> /\ r.len = e - at /\ r.kept = parser \o Bytes(at, e) /\ KeptFits(r.kept, o)
             \/ /\ r.kept = <<>> /\ r.packet # <<>> /\ r.packet[1] = parser[1] /\ StartsFrame(parser[1])
                /\ \A l \in Frames : Begins(l, pos, at + r.len) => WithinFrame(l, pos)
      <3> HIDE DEF B, r
      <3> QED BY <2>1, ParsedOld DEF r
    <2>3. parsed = r BY <1>6
    <2> HIDE DEF r
    <2> QED BY <2>2, <2>3
  <1>9. PICK to \in Nat : to = at + parsed.len BY <1>8
  <1>10. pos <= at
    <2>1. at = pos + (Len(parser) - o) BY <1>2 DEF GoesOn
    <2> QED BY <1>4, <2>1
  <1>11. /\ parsed.len = to - at /\ at <= to /\ to <= e /\ from <= to /\ to - at \in 0 .. e - at
         /\ at + (to - at) = to
    <2>1. parsed.len \in 0 .. e - at BY <1>8
    <2>2. from <= pos /\ pos <= at /\ from \in Nat /\ e \in Nat /\ at < e BY <1>1, <1>2, <1>3, <1>10
    <2> QED BY <1>9, <2>1, <2>2
  <1>12. input' = Zap(input, to - at) BY <1>11
  <1>13. CASE parsed.packet = <<>>
    <2>1. parsed.len = e - at /\ parsed.kept = parser \o Bytes(at, e) /\ KeptFits(parsed.kept, o) BY <1>8, <1>13
    <2>2. result.len = 0 /\ Decoded(result.pcm) = <<>> BY <1>13, NoPacket
    <2>3. decoded' = decoded BY <1>2, <2>2, ConcatEmptySeq DEF Takes
    <2>4. to = e BY <1>3, <1>11, <2>1
    <2>5. InputFits(input', next, to) BY <1>1, <1>2, <1>11, <1>12, ZapFits DEF e
    <2>6. InputFits(input, next, to)' BY <2>5, InputStays
    <2>7. parser' \in Seq(Nat \X Nat) /\ Len(parser') = Len(parser) + (e - at)
      <3>1. at <= e BY <1>3
      <3>2. Bytes(at, e) \in Seq({<<i, seeks>> : i \in Nat}) /\ Len(Bytes(at, e)) = e - at BY <1>3, <3>1, BytesAre
      <3>3. {<<i, seeks>> : i \in Nat} \subseteq Nat \X Nat BY <1>1
      <3>4. Bytes(at, e) \in Seq(Nat \X Nat) BY <3>2, <3>3, SeqMonotonic
      <3> DEFINE B == Nat \X Nat
                 data == Bytes(at, e)
      <3>5. parser \in Seq(B) /\ data \in Seq(B) /\ Len(data) = e - at /\ parser' = parser \o data BY <1>1, <2>1, <3>2, <3>4
      <3> HIDE DEF B, data
      <3>6. parser \o data \in Seq(B) /\ Len(parser \o data) = Len(parser) + Len(data) BY <3>5, ConcatProperties
      <3> QED BY <3>5, <3>6 DEF B
    <2>8. \A i \in 1 .. Len(parser) : parser'[i] = parser[i] BY <1>1, <1>3, <2>1, AllOld
    <2>9. \A i \in 1 .. e - at : parser'[Len(parser) + i] = <<at + i, seeks>>
      <3>1. \A i \in 1 .. e - at : (parser \o Bytes(at, e))[Len(parser) + i] = <<at + i, seeks>> BY <1>1, <1>3, AllNew
      <3> QED BY <2>1, <3>1
    <2> DEFINE n == Len(parser)
    <2>10. n \in Nat /\ o <= n /\ Len(parser') = n + (e - at) BY <1>4, <2>7
    <2>11. at = pos + (n - o) /\ \A i \in o + 1 .. n : parser[i] = <<pos + (i - o), seeks>> BY <1>2 DEF GoesOn
    <2> HIDE DEF n
    <2>12. ASSUME NEW i \in n + 1 .. n + (e - at) PROVE parser'[i] = <<at + (i - n), seeks>>
      <3>1. i - n \in 1 .. e - at /\ n + (i - n) = i BY <1>3, <2>10
      <3> QED BY <2>9, <3>1 DEF n
    <2>13. GoesOn(parser', o, pos, to)
      <3>1. to = pos + (Len(parser') - o) BY <1>3, <2>4, <2>10, <2>11
      <3>2. ASSUME NEW i \in o + 1 .. Len(parser') PROVE parser'[i] = <<pos + (i - o), seeks>>
        <4>1. CASE i <= n
          <5>1. i \in o + 1 .. n /\ i \in 1 .. n BY <2>10, <4>1
          <5> QED BY <2>8, <2>11, <5>1 DEF n
        <4>2. CASE ~(i <= n)
          <5>1. i \in n + 1 .. n + (e - at) BY <1>3, <2>10, <4>2
          <5>2. at + (i - n) = pos + (i - o) BY <2>10, <2>11, <5>1
          <5> QED BY <2>12, <5>1, <5>2
        <4> QED BY <4>1, <4>2
      <3> QED BY <3>1, <3>2 DEF GoesOn
    <2>14. KeptFits(parser', o) BY <2>1
    <2>15. KeptFits(parser, o)' /\ GoesOn(parser, o, pos, to)' BY <2>13, <2>14, KeptStays
    <2>16. DecodedFits(pos)' BY <1>2, <2>3, DecodedStays
    <2>17. ASSUME NEW i \in DOMAIN parser' PROVE parser'[i][2] <= seeks
      <3>1. i \in 1 .. n + (e - at) BY <2>7, <2>10
      <3>2. CASE i <= n
        <4>1. i \in 1 .. n /\ i \in DOMAIN parser BY <1>1, <2>10, <3>1, <3>2 DEF n
        <4> QED BY <1>1, <2>8, <4>1 DEF n
      <3>3. CASE ~(i <= n)
        <4>1. i \in n + 1 .. n + (e - at) BY <1>3, <2>10, <3>1, <3>3
        <4>2. parser'[i][2] = seeks BY <2>12, <4>1
        <4> QED BY <1>1, <4>2
      <3> QED BY <3>2, <3>3
    <2>18. ASSUME NEW i \in 1 .. o PROVE parser'[i][2] # seeks
      <3>1. i \in 1 .. n BY <2>10
      <3> QED BY <1>2, <2>8, <3>1 DEF n
    <2>19. o <= Len(parser') BY <1>3, <2>10
    <2>20. Reads(to, o, pos)' BY <1>2, <2>3, <2>6, <2>15, <2>16, <2>18, <2>19 DEF Reads
    <2> QED BY <1>1, <2>7, <2>17, <2>20 DEF FrameInv
  <1>14. CASE parsed.packet # <<>>
    <2>1. /\ parsed.kept = <<>> /\ parsed.packet[1] = parser[1] /\ StartsFrame(parser[1])
          /\ \A l \in Frames : Begins(l, from, to) => WithinFrame(l, from)
      BY <1>2, <1>8, <1>9, <1>14
    <2>2. parser[1] \in Nat \X Nat /\ parser[1][2] # seeks BY <1>1, <1>2, <1>4
    <2>3. DecodedFits(to)'
      <3>1. CASE result.len < 0
        <4>1. decoded' = decoded \o <<>> BY <1>2, <3>1, ConcatEmptySeq DEF Takes
        <4>2. <<>> \in Seq(Output) /\ Len(<<>>) = 0 /\ 0 <= OutLen BY StreamAssumption
        <4>3. \A i \in 1 .. Len(<<>>) : <<>>[i] = Noise \/ <<>>[i][3] # seeks BY <4>2
        <4> QED BY <1>1, <1>2, <2>1, <4>1, <4>2, <4>3, OldDecoded
      <3>2. CASE ~(result.len < 0)
        <4>1. /\ Decoded(result.pcm) \in Seq(Output) /\ Len(Decoded(result.pcm)) <= OutLen
              /\ \A i \in 1 .. Len(Decoded(result.pcm)) :
                   Decoded(result.pcm)[i] = Noise \/ Decoded(result.pcm)[i][3] # seeks
          BY <1>1, <1>14, <2>1, <2>2, <3>2, OldPacket
        <4>2. decoded' = decoded \o Decoded(result.pcm) BY <3>2 DEF Takes
        <4> QED BY <1>1, <1>2, <2>1, <4>1, <4>2, OldDecoded
      <3> QED BY <3>1, <3>2
    <2> QED BY <1>2, <1>11, <1>12, <2>1, <2>3, ReadOn DEF e
  <1> QED BY <1>13, <1>14

-----------------------------------------------------------------------------
(* Every step. *)

LEMMA FrameInit == ASSUME Init PROVE FrameInv
  <1>1. stream \in Streams BY DEF Init
  <1>2. /\ DOMAIN stream.packets = 1 .. Len(stream.packets) /\ Len(stream.packets) \in Nat \ {0}
        /\ DOMAIN stream.frames = 1 .. Len(stream.frames) /\ Len(stream.frames) \in Nat \ {0}
        /\ Start(1) = 0 /\ Cut(1) = 0
    BY <1>1, StreamIs
  <1>3. next = 1 /\ input = NoInput /\ parser = <<>> /\ from = 0 /\ seeks = 0 /\ broken = FALSE /\ decoded = <<>>
    BY DEF Init
  <1>4. Len(<<>>) = 0 OBVIOUS
  <1>5. Bytes(0, 0) = <<>>
    <2>1. 0 - 0 = 0 /\ 1 .. 0 = {} OBVIOUS
    <2>2. Bytes(0, 0) = [i \in 1 .. 0 |-> <<0 + i, seeks>>] BY <2>1 DEF Bytes
    <2> QED BY <2>1, <2>2
  <1>6. InputFits(NoInput, 1, 0)
    <2>1. NoInput.data = <<>> /\ NoInput.ends = <<>> BY DEF NoInput
    <2>2. Cut(1 - 0) = 0 BY <1>2
    <2>3. <<>> \in Seq(Nat) OBVIOUS
    <2> QED BY <1>2, <1>4, <1>5, <2>1, <2>2, <2>3 DEF InputFits
  <1>7. KeptFits(<<>>, 0) /\ GoesOn(<<>>, 0, 0, 0) BY <1>4 DEF KeptFits, GoesOn
  <1>8. DecodedFits(0)
    <2>1. DOMAIN decoded = {} /\ decoded \in Seq(Output) BY <1>3
    <2>2. Fresh = {} BY <2>1 DEF Fresh
    <2>3. \A k \in Frames : ~(Start(k) < 0)
      <3>1. \A k \in Frames : Start(k) \in Nat BY <1>1, FrameIs
      <3> QED BY <3>1
    <2> QED BY <2>1, <2>2, <2>3 DEF DecodedFits
  <1>9. 1 \in DOMAIN stream.frames BY <1>2
  <1>10. Reads(0, 0, 0) BY <1>2, <1>3, <1>4, <1>6, <1>7, <1>8, <1>9 DEF Reads
  <1>11. <<>> \in Seq(Nat \X Nat) /\ DOMAIN <<>> = {} OBVIOUS
  <1>12. stream.cookie /\ ~magicCookie => (~codec /\ call = NoCall /\ parser = <<>>) BY DEF Init
  <1>13. next \in DOMAIN stream.packets /\ from \in Nat /\ seeks \in Nat BY <1>2, <1>3
  <1>14. /\ parser \in Seq(Nat \X Nat) /\ \A i \in DOMAIN parser : parser[i][2] <= seeks
         /\ broken => stream.seeks > 0
    BY <1>3, <1>11
  <1> QED BY <1>1, <1>10, <1>12, <1>13, <1>14 DEF FrameInv

LEMMA CookieReads == ASSUME FrameInv, SetMagicCookie PROVE FrameInv'
  <1>1. PICK at \in Nat, o \in Nat, pos \in Nat : Reads(at, o, pos) BY DEF FrameInv
  <1>2. /\ stream \in Streams /\ next \in DOMAIN stream.packets /\ from \in Nat /\ seeks \in Nat
        /\ broken => stream.seeks > 0
    BY DEF FrameInv
  <1>3. /\ ~magicCookie /\ (stream.cookie \/ next = 1) /\ magicCookie' = TRUE /\ parser' = <<>>
        /\ UNCHANGED <<stream, next, input, from, seeks, broken, decoded>>
    BY DEF SetMagicCookie
  <1>4. /\ InputFits(input, next, at) /\ from <= pos /\ DecodedFits(pos) /\ GoesOn(parser, o, pos, at) /\ o <= Len(parser)
        /\ stream.parser = "none" => \E k \in DOMAIN stream.frames : at = Start(k)
    BY <1>1 DEF Reads
  <1>5. Len(parser) \in Nat BY DEF FrameInv
  <1>6. at = pos + (Len(parser) - o) BY <1>4 DEF GoesOn
  <1>7. at = pos
    <2>1. CASE stream.cookie
      <3>1. parser = <<>> BY <1>3, <2>1 DEF FrameInv
      <3>2. Len(parser) = 0 BY <3>1
      <3> QED BY <1>4, <1>6, <3>2
    <2>2. CASE next = 1
      <3>1. Cut(1) = 0 BY <1>2, StreamIs
      <3>2. at <= 0 BY <1>4, <2>2, <3>1 DEF InputFits
      <3> QED BY <1>4, <1>5, <1>6, <3>2
    <2> QED BY <1>3, <2>1, <2>2
  <1>8. Len(<<>>) = 0 OBVIOUS
  <1>9. KeptFits(<<>>, 0) /\ GoesOn(<<>>, 0, pos, at) BY <1>7, <1>8 DEF KeptFits, GoesOn
  <1>10. KeptFits(parser, 0)' /\ GoesOn(parser, 0, pos, at)' BY <1>3, <1>9, KeptStays
  <1>11. InputFits(input, next, at)' BY <1>3, <1>4, InputStays
  <1>12. DecodedFits(pos)' BY <1>3, <1>4, DecodedStays
  <1>13. Reads(at, 0, pos)' BY <1>3, <1>4, <1>8, <1>10, <1>11, <1>12 DEF Reads, Start
  <1>14. parser' \in Seq(Nat \X Nat) /\ DOMAIN parser' = {} BY <1>3
  <1> QED BY <1>2, <1>3, <1>13, <1>14 DEF FrameInv

LEMMA AppendReads == ASSUME FrameInv, AppendSome PROVE FrameInv'
  <1>1. PICK at \in Nat, o \in Nat, pos \in Nat : Reads(at, o, pos) BY DEF FrameInv
  <1>2. PICK n \in 1 .. 2 : AppendInputData(n) BY DEF AppendSome
  <1>3. /\ stream \in Streams /\ next \in DOMAIN stream.packets /\ from \in Nat /\ seeks \in Nat
        /\ parser \in Seq(Nat \X Nat) /\ \A i \in DOMAIN parser : parser[i][2] <= seeks
        /\ broken => stream.seeks > 0
        /\ stream.cookie /\ ~magicCookie => (~codec /\ call = NoCall /\ parser = <<>>)
    BY DEF FrameInv
  <1>4. /\ next + n - 1 \in Packets /\ input' = In(input, next, n) /\ next' = next + n
        /\ UNCHANGED <<stream, codec, magicCookie, parser, call, from, seeks, broken, decoded>>
    BY <1>2 DEF AppendInputData
  <1>5. next + n \in DOMAIN stream.packets
    <2>1. DOMAIN stream.packets = 1 .. Len(stream.packets) /\ Len(stream.packets) \in Nat /\ next \in Nat BY <1>3, StreamIs
    <2> QED BY <1>4, <2>1 DEF Packets
  <1>6. InputFits(input, next, at) BY <1>1 DEF Reads
  <1>7. InputFits(In(input, next, n), next + n, at) BY <1>3, <1>5, <1>6, InFits
  <1>8. InputFits(input', next', at) BY <1>4, <1>7
  <1>9. InputFits(input, next, at)' BY <1>4, <1>8 DEF InputFits, Bytes, Cut
  <1>10. DecodedFits(pos)' BY <1>1, <1>4, DecodedStays DEF Reads
  <1>11. KeptFits(parser, o)' /\ GoesOn(parser, o, pos, at)' BY <1>1, <1>4, KeptStays DEF Reads
  <1>12. Reads(at, o, pos)' BY <1>1, <1>4, <1>9, <1>10, <1>11 DEF Reads, Start
  <1> QED BY <1>3, <1>4, <1>5, <1>12 DEF FrameInv

LEMMA DecodeReads == ASSUME FrameInv, DecodePacket PROVE FrameInv'
  <1>1. PICK at \in Nat, o \in Nat, pos \in Nat : Reads(at, o, pos) BY DEF FrameInv
  <1>2. /\ call # NoCall /\ input.ends # <<>> /\ UNCHANGED <<stream, next, codec, magicCookie, from, seeks, broken>>
    BY DEF DecodePacket, More
  <1>3. ~(stream.cookie /\ ~magicCookie) BY <1>2 DEF FrameInv
  <1>4. CASE stream.parser = "none"
    <2> DEFINE packet == SubSeq(input.data, 1, input.ends[1])
    <2>1. PICK result \in Decode(packet) :
            /\ parser' = <<>>
            /\ input' = Zap(input, IF result.len < 0 THEN Len(packet) ELSE result.len)
            /\ Takes(result)
      BY <1>4 DEF DecodePacket, Consumed, Takes
    <2> QED BY <1>2, <1>3, <1>4, <2>1, DecodeWithoutParser
  <1>5. CASE stream.parser # "none"
    <2> DEFINE parsed == av_parser_parse2(parser, input.data)
    <2>1. PICK result \in Decode(parsed.packet) :
            parser' = parsed.kept /\ input' = Zap(input, parsed.len) /\ Takes(result)
      BY <1>5 DEF DecodePacket, Consumed, Takes
    <2>2. Parses(parsed) BY DEF Parses
    <2> HIDE DEF parsed
    <2>3. CASE o = 0 BY <1>1, <1>2, <1>3, <1>5, <2>1, <2>2, <2>3, DecodeFresh
    <2>4. CASE o # 0 BY <1>1, <1>2, <1>3, <1>5, <2>1, <2>2, <2>4, DecodeOld
    <2> QED BY <2>3, <2>4
  <1> QED BY <1>4, <1>5

LEMMA ResetReads == ASSUME FrameInv, NEW p \in Packets, Reset(p) PROVE FrameInv'
  <1>1. PICK at \in Nat, o \in Nat, pos \in Nat : Reads(at, o, pos) BY DEF FrameInv
  <1>2. /\ stream \in Streams /\ next \in DOMAIN stream.packets /\ from \in Nat /\ seeks \in Nat
        /\ parser \in Seq(Nat \X Nat) /\ \A i \in DOMAIN parser : parser[i][2] <= seeks
        /\ broken => stream.seeks > 0
        /\ stream.cookie /\ ~magicCookie => (~codec /\ call = NoCall /\ parser = <<>>)
    BY DEF FrameInv
  <1>3. /\ seeks < stream.seeks /\ input' = Zap(input, Len(input.data)) /\ next' = p /\ from' = Cut(p)
        /\ seeks' = seeks + 1 /\ broken' = (broken \/ parser # <<>>) /\ decoded' = <<>>
        /\ UNCHANGED <<stream, codec, magicCookie, parser, call>>
    BY DEF Reset
  <1>4. InputFits(input, next, at) /\ KeptFits(parser, o) BY <1>1 DEF Reads
  <1>5. stream.seeks \in Nat BY <1>2, StreamAssumption DEF StreamOK
  <1>6. /\ p \in DOMAIN stream.packets /\ p \in Nat \ {0} /\ Cut(p) \in Nat /\ Cut(next) \in Nat /\ next \in Nat
    <2>1. DOMAIN stream.packets = 1 .. Len(stream.packets) /\ Len(stream.packets) \in Nat BY <1>2, StreamIs
    <2>2. p \in DOMAIN stream.packets /\ p \in Nat \ {0} /\ next \in Nat BY <1>2, <2>1 DEF Packets
    <2> QED BY <1>2, <2>2, StreamIs
  <1>7. input'.data = <<>> /\ input'.ends = <<>>
    <2> DEFINE c == Cut(next)
               l == Len(input'.ends)
    <2>1. at <= c /\ input.data = Bytes(at, c) BY <1>4 DEF InputFits
    <2>2. Len(input.data) = c - at BY <1>6, <2>1, BytesAre
    <2>3. c - at \in 0 .. c - at /\ at + (c - at) = c BY <1>6, <2>1
    <2>4. InputFits(Zap(input, c - at), next, at + (c - at)) BY <1>2, <1>4, <2>3, ZapFits
    <2>5. InputFits(input', next, c) BY <1>3, <2>2, <2>3, <2>4
    <2>6. input'.ends \in Seq(Nat) /\ l \in Nat BY <2>5 DEF InputFits
    <2>7. l = 0
      <3> SUFFICES ASSUME l # 0 PROVE FALSE OBVIOUS
      <3>1. l \in 1 .. l BY <2>6
      <3>2. input'.ends[l] > 0 /\ input'.ends[l] = Cut(next - l + l) - c BY <2>5, <3>1 DEF InputFits
      <3>3. next - l + l = next BY <1>6, <2>6
      <3>4. input'.ends[l] = c - c BY <3>2, <3>3
      <3> QED BY <1>6, <3>2, <3>4
    <2>8. input'.ends = <<>> BY <2>6, <2>7, EmptySeq
    <2>9. c - c = 0 BY <1>6
    <2>10. Bytes(c, c) = [i \in 1 .. 0 |-> <<c + i, seeks>>] BY <2>9 DEF Bytes
    <2>11. Bytes(c, c) = <<>>
      <3>1. 1 .. 0 = {} OBVIOUS
      <3> QED BY <2>10, <3>1
    <2> QED BY <2>5, <2>8, <2>11 DEF InputFits
  <1>8. PICK c \in Nat : c = Cut(p) BY <1>6
  <1>9. seeks' \in Nat /\ seeks < seeks' BY <1>2, <1>3
  <1>10. Cut(p)' = c BY <1>3, <1>8 DEF Cut
  <1>11. InputFits(input, next, c)'
    <2>1. Bytes(c, c)' = <<>>
      <3>1. c - c = 0 OBVIOUS
      <3>2. Bytes(c, c)' = [i \in 1 .. 0 |-> <<c + i, seeks'>>] BY <3>1 DEF Bytes
      <3>3. 1 .. 0 = {} OBVIOUS
      <3> QED BY <3>2, <3>3
    <2>2. Len(input'.ends) = 0 /\ input'.ends \in Seq(Nat) BY <1>7
    <2>3. Cut(next)' = c /\ next' = p BY <1>3, <1>10
    <2>4. p - 0 = p /\ 0 < p BY <1>6
    <2> QED BY <1>7, <2>1, <2>2, <2>3, <2>4 DEF InputFits
  <1>12. PICK n \in Nat : n = Len(parser) BY <1>2
  <1>13. KeptFits(parser', n) /\ GoesOn(parser', n, c, c)
    <2>1. n - n = 0 /\ \A i : i \notin n + 1 .. n OBVIOUS
    <2> QED BY <1>3, <1>4, <1>12, <2>1 DEF KeptFits, GoesOn
  <1>14. KeptFits(parser, n)' /\ GoesOn(parser, n, c, c)'
    <2>1. \A i : i \notin n + 1 .. n OBVIOUS
    <2> QED BY <1>3, <1>12, <1>13, <2>1 DEF KeptFits, GoesOn, StartsFrame, FrameOf, Size, Start, Frames
  <1>15. DecodedFits(c)'
    <2>1. DOMAIN decoded' = {} /\ decoded' \in Seq(Output) BY <1>3
    <2>2. Fresh' = {} BY <2>1 DEF Fresh
    <2>3. Frames' = Frames /\ \A k : Start(k)' = Start(k) BY <1>3 DEF Frames, Start
    <2>4. ASSUME NEW k \in Frames, Missed(k)', Start(k) < c PROVE FALSE
      <3>1. from' <= Start(k) BY <2>3, <2>4 DEF Missed
      <3>2. Start(k) \in Nat BY <1>2, FrameIs
      <3> QED BY <1>3, <1>8, <2>4, <3>1, <3>2
    <2> QED BY <2>1, <2>2, <2>3, <2>4 DEF DecodedFits
  <1>16. ASSUME NEW i \in 1 .. n PROVE parser'[i][2] # seeks'
    <2>1. i \in DOMAIN parser BY <1>2, <1>12
    <2>2. parser[i] \in Nat \X Nat /\ parser[i][2] <= seeks BY <1>2, <2>1
    <2>3. parser[i][2] \in Nat BY <2>2
    <2> QED BY <1>2, <1>3, <1>9, <2>2, <2>3
  <1>17. n > 0 => broken'
    <2> SUFFICES ASSUME n > 0 PROVE broken' OBVIOUS
    <2>1. Len(<<>>) = 0 OBVIOUS
    <2>2. parser # <<>> BY <1>12, <2>1
    <2> QED BY <1>3, <2>2
  <1>18. n <= Len(parser') /\ c <= c /\ from' = c BY <1>3, <1>8, <1>12
  <1>19. stream.parser = "none" => \E k \in DOMAIN stream.frames : c = Start(k) BY <1>2, <1>6, <1>8, StreamIs
  <1>20. Reads(c, n, c)' BY <1>3, <1>11, <1>14, <1>15, <1>16, <1>17, <1>18, <1>19 DEF Reads, Start
  <1>21. ASSUME NEW i \in DOMAIN parser' PROVE parser'[i][2] <= seeks'
    <2>1. parser[i] \in Nat \X Nat /\ parser[i][2] <= seeks BY <1>2, <1>3
    <2>2. parser[i][2] \in Nat BY <2>1
    <2> QED BY <1>2, <1>3, <2>1, <2>2
  <1>22. stream.seeks > 0 BY <1>2, <1>3, <1>5
  <1> QED BY <1>2, <1>3, <1>6, <1>9, <1>18, <1>20, <1>21, <1>22 DEF FrameInv

LEMMA FrameStep == ASSUME FrameInv, [Next]_vars PROVE FrameInv'
  <1>1. CASE SetMagicCookie BY <1>1, CookieReads
  <1>2. CASE AppendSome BY <1>2, AppendReads
  <1>3. CASE Produce
    <2>1. UNCHANGED <<stream, next, input, parser, from, seeks, broken, decoded, magicCookie>>
      BY <1>3 DEF Produce, ProduceTooEarly, ProduceOutputPackets
    <2>2. CASE ProduceTooEarly BY <2>1, <2>2, FrameStutters DEF ProduceTooEarly, FrameInv
    <2>3. CASE \E size \in Requests : ProduceOutputPackets(size)
      <3>1. ~(stream.cookie /\ ~magicCookie) BY <2>3 DEF ProduceOutputPackets, FrameInv
      <3> QED BY <2>1, <3>1, FrameStutters
    <2> QED BY <1>3, <2>2, <2>3 DEF Produce
  <1>4. CASE DecodePacket BY <1>4, DecodeReads
  <1>5. CASE Return
    <2>1. UNCHANGED <<stream, next, input, parser, from, seeks, broken, decoded, magicCookie, codec>> /\ call' = NoCall
      BY <1>5 DEF Return
    <2> QED BY <2>1, FrameStutters DEF FrameInv
  <1>6. CASE \E p \in Packets : Reset(p) BY <1>6, ResetReads
  <1>7. CASE UNCHANGED vars BY <1>7, FrameStutters DEF vars, FrameInv
  <1> QED BY <1>1, <1>2, <1>3, <1>4, <1>5, <1>6, <1>7 DEF Next

\* What the invariant says of the frames decoded.
LEMMA FrameTurns == ASSUME FrameInv PROVE FramesInTurn
  <1> DEFINE heardOf == {decoded[i][1] : i \in Fresh}
             due == {k \in Frames : Start(k) >= from /\ \E l \in heardOf : k <= l}
             lost == (due \ heardOf) \ Excused
             spoilt == DOMAIN decoded \ Fresh
  <1>1. PICK pos \in Nat : DecodedFits(pos) BY DEF FrameInv, Reads
  <1>2. stream \in Streams /\ from \in Nat BY DEF FrameInv
  <1>3. ASSUME NEW k \in lost PROVE k \in Frames /\ Missed(k) /\ Start(k) < pos
    <2>1. k \in Frames /\ Start(k) >= from /\ k \notin heardOf /\ k \notin Excused OBVIOUS
    <2>2. PICK i \in Fresh : k <= decoded[i][1] OBVIOUS
    <2>3. PICK l \in Frames, j \in 1 .. OutLen : decoded[i] = <<l, j, seeks>> /\ Start(l + 1) <= pos
      BY <1>1 DEF DecodedFits
    <2>4. OutLen > 0 BY StreamAssumption
    <2>5. k <= l BY <2>2, <2>3
    <2>6. /\ Start(k) \in Nat /\ k \in DOMAIN stream.frames /\ Start(l) \in Nat /\ Start(l + 1) \in Nat
          /\ Start(l) < Start(l + 1)
      BY <1>2, <2>1, FrameIs
    <2>7. Start(k) <= Start(l) BY <1>2, <2>5, <2>6, FrameIs
    <2>8. from <= Start(k) BY <1>2, <2>1, <2>6
    <2>9. Start(k) < pos BY <2>3, <2>6, <2>7
    <2> QED BY <2>1, <2>4, <2>8, <2>9 DEF Missed
  <1>4. \A l \in lost : broken /\ WithinFrame(l, from) BY <1>1, <1>3 DEF DecodedFits
  <1> HIDE DEF lost
  <1>6. Cardinality(spoilt) <= (IF broken THEN OutLen ELSE 0)
    <2>1. \A i \in spoilt : broken /\ i \in 1 .. OutLen
      <3>1. \A i \in DOMAIN decoded : i \in Nat \ {0} /\ (FreshAt(i) \/ (broken /\ i <= OutLen)) BY <1>1 DEF DecodedFits
      <3>2. \A i \in spoilt : i \in DOMAIN decoded /\ ~FreshAt(i) BY DEF Fresh
      <3> QED BY <3>1, <3>2, StreamAssumption
    <2> HIDE DEF spoilt
    <2>2. CASE broken
      <3>1. spoilt \in SUBSET (1 .. OutLen) BY <2>1
      <3>2. OutLen \in Nat BY StreamAssumption
      <3>3. IsFiniteSet(1 .. OutLen) /\ Cardinality(1 .. OutLen) = OutLen BY <3>2, FS_Interval
      <3>4. Cardinality(spoilt) <= Cardinality(1 .. OutLen) BY <3>1, <3>3, FS_Subset
      <3> QED BY <2>2, <3>3, <3>4
    <2>3. CASE ~broken
      <3>1. spoilt = {} BY <2>1, <2>3
      <3> QED BY <2>3, <3>1, FS_EmptySet
    <2> QED BY <2>2, <2>3
  <1>7. \A i, j \in Fresh : i < j => Before(decoded[i], decoded[j]) BY <1>1 DEF DecodedFits
  <1> QED BY <1>4, <1>6, <1>7 DEF FramesInTurn, lost

(* For all streams, whatever the sizes of their frames, their packets, what *)
(* is damaged and where the caller restarts: DecodePacket takes the frames  *)
(* in turn, none twice and none left out, but for those within one frame's  *)
(* length of where a Reset left a parser that goes by lengths with part of  *)
(* a frame; and without such a Reset nothing old is decoded.                *)
THEOREM FramesAlwaysInTurn == Spec => []FramesInTurn
  <1>1. Init => FrameInv BY FrameInit
  <1>2. FrameInv /\ [Next]_vars => FrameInv' BY FrameStep
  <1>3. FrameInv => FramesInTurn BY FrameTurns
  <1> QED BY <1>1, <1>2, <1>3, PTL DEF Spec

=============================================================================
