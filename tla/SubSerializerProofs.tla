------------------------- MODULE SubSerializerProofs -------------------------
(***************************************************************************)
(* The packets of the serialiser are the timeline of all lines.  The       *)
(* lines it keeps are those of all lines given that end after the packets  *)
(* made, in their order, which makes the first of them the one to ask and  *)
(* the lines that have begun with a packet a beginning of the array (Inv). *)
(***************************************************************************)
EXTENDS SubSerializerSpec, SequenceTheorems, WellFoundedInduction, TLAPS

-----------------------------------------------------------------------------
(* Induction over the natural numbers.  The rules of the library take the   *)
(* statement as an operator; here it is the set of the numbers it is true   *)
(* of, which is defined in the proof and hidden before the rule is cited.   *)

(* A set of natural numbers has a least one.                                *)
LEMMA LeastOf ==
  ASSUME NEW T \in SUBSET Nat, T # {}
  PROVE  \E x \in T : \A y \in T : x <= y
  <1>1. PICK x \in T : \A y \in T : ~(<<y, x>> \in OpToRel(<, Nat)) BY NatLessThanWellFounded, WFMin
  <1>2. \A y \in T : ~(y < x) BY <1>1 DEF OpToRel
  <1> QED BY <1>2

(* A set with 0 and the successor of each of its numbers has all of them:   *)
(* the least that was missing would have a predecessor that is not.         *)
LEMMA Inductive ==
  ASSUME NEW S, 0 \in S, \A n \in Nat : n \in S => n + 1 \in S
  PROVE  Nat \subseteq S
  <1> SUFFICES ASSUME Nat \ S # {} PROVE FALSE OBVIOUS
  <1>1. PICK x \in Nat \ S : \A y \in Nat \ S : x <= y BY LeastOf
  <1>2. x - 1 \in Nat /\ x - 1 \in S BY <1>1
  <1>3. (x - 1) + 1 = x BY <1>1
  <1> QED BY <1>1, <1>2, <1>3

-----------------------------------------------------------------------------
(* The lines kept. *)

Line == [num : Nat, begin : Nat, end : Nat]
Packet == [begin : Nat, end : Nat, text : Seq(Nat)]

Before(a, b) == a.begin < b.begin \/ (a.begin = b.begin /\ a.num < b.num)

\* "sorted by 1. beginning time 2. original insertion order"
Sorted(ls) == \A i, j \in 1 .. Len(ls) : i < j => Before(ls[i], ls[j])

\* What ls is when the lines of G were given and packets made up to time t.
Holds(ls, G, t) ==
  /\ ls \in Seq(Line) /\ G \subseteq Line /\ t \in Nat
  /\ Sorted(ls)
  /\ ToSet(ls) = {l \in G : l.end > t}
  /\ \A l \in G : l.begin < l.end

-----------------------------------------------------------------------------
(* Sequences and minima. *)

\* The least of two numbers.
LEMMA MinOfTwo ==
  ASSUME NEW a \in Int, NEW b \in Int
  PROVE  Min({a, b}) \in {a, b} /\ Min({a, b}) <= a /\ Min({a, b}) <= b
  <1>1. \E x \in {a, b} : \A y \in {a, b} : x <= y
    <2>1. CASE a <= b BY <2>1
    <2>2. CASE b <= a BY <2>2
    <2> QED BY <2>1, <2>2
  <1>2. Min({a, b}) \in {a, b} /\ \A y \in {a, b} : Min({a, b}) <= y BY <1>1 DEF Min
  <1> QED BY <1>2

\* The least of three.
LEMMA MinOfThree ==
  ASSUME NEW a \in Int, NEW b \in Int, NEW c \in Int
  PROVE  /\ Min({a, b, c}) \in {a, b, c}
         /\ Min({a, b, c}) <= a /\ Min({a, b, c}) <= b /\ Min({a, b, c}) <= c
  <1>1. \E x \in {a, b, c} : \A y \in {a, b, c} : x <= y
    <2>1. CASE a <= b /\ a <= c BY <2>1
    <2>2. CASE b <= a /\ b <= c BY <2>2
    <2>3. CASE c <= a /\ c <= b BY <2>3
    <2> QED BY <2>1, <2>2, <2>3
  <1>2. Min({a, b, c}) \in {a, b, c} /\ \A y \in {a, b, c} : Min({a, b, c}) <= y BY <1>1 DEF Min
  <1> QED BY <1>2

\* r is s with e put at i.
Inserted(r, s, i, e) ==
  /\ Len(r) = Len(s) + 1 /\ r[i] = e
  /\ \A k \in 1 .. i - 1 : r[k] = s[k]
  /\ \A k \in i + 1 .. Len(s) + 1 : r[k] = s[k - 1]

\* InsertAt puts the element where it is told, and moves those from there on.
LEMMA InsertAtIs ==
  ASSUME NEW S, NEW s \in Seq(S), NEW i \in 1 .. Len(s) + 1, NEW e \in S
  PROVE  InsertAt(s, i, e) \in Seq(S) /\ Inserted(InsertAt(s, i, e), s, i, e)
  <1> DEFINE a == SubSeq(s, 1, i - 1)
             b == SubSeq(s, i, Len(s))
             m == <<e>>
             am == a \o m
  <1>1. a \in Seq(S) /\ Len(a) = i - 1 /\ \A k \in 1 .. i - 1 : a[k] = s[k] BY SubSeqProperties
  <1>2. b \in Seq(S) /\ Len(b) = Len(s) - i + 1 /\ \A k \in 1 .. Len(s) - i + 1 : b[k] = s[i + k - 1]
    BY SubSeqProperties
  <1>3. m \in Seq(S) /\ Len(m) = 1 /\ m[1] = e OBVIOUS
  <1>4. InsertAt(s, i, e) = am \o b BY DEF InsertAt
  <1> HIDE DEF a, b, m
  <1>5. am \in Seq(S) /\ Len(am) = i /\ am[i] = e /\ \A k \in 1 .. i - 1 : am[k] = s[k]
    <2>1. Len(a) \in Nat /\ Len(a) + 1 = i /\ i \in Nat BY <1>1
    <2>2. am \in Seq(S) /\ Len(am) = Len(a) + Len(m) BY <1>1, <1>3, ConcatProperties
    <2>3. \A k \in 1 .. Len(a) + Len(m) : am[k] = IF k <= Len(a) THEN a[k] ELSE m[k - Len(a)]
      BY <1>1, <1>3, ConcatProperties
    <2>4. am[i] = m[1]
      <3>1. i \in 1 .. Len(a) + Len(m) /\ ~(i <= Len(a)) /\ i - Len(a) = 1 BY <1>3, <2>1
      <3> QED BY <2>3, <3>1
    <2>5. ASSUME NEW k \in 1 .. i - 1 PROVE am[k] = s[k]
      <3>1. k \in 1 .. Len(a) + Len(m) /\ k <= Len(a) BY <1>3, <2>1
      <3> QED BY <1>1, <2>3, <3>1
    <2> QED BY <1>3, <2>1, <2>2, <2>4, <2>5
  <1> HIDE DEF am
  <1>6. /\ am \o b \in Seq(S) /\ Len(am \o b) = Len(s) + 1
        /\ \A k \in 1 .. i : (am \o b)[k] = am[k]
        /\ \A k \in i + 1 .. Len(s) + 1 : (am \o b)[k] = b[k - i]
    BY <1>2, <1>5
  <1>7. ASSUME NEW k \in i + 1 .. Len(s) + 1 PROVE b[k - i] = s[k - 1]
    <2>1. k - i \in 1 .. Len(s) - i + 1 /\ i + (k - i) - 1 = k - 1 OBVIOUS
    <2> QED BY <1>2, <2>1
  <1> QED BY <1>4, <1>5, <1>6, <1>7 DEF Inserted

\* What is in a sequence.
LEMMA ToSetIs == ASSUME NEW s, NEW x PROVE x \in ToSet(s) <=> \E i \in DOMAIN s : x = s[i]
  BY DEF ToSet

-----------------------------------------------------------------------------
(* addLine *)

\* There is a place for a line, and only one.
LEMMA PlaceIs ==
  ASSUME NEW ls \in Seq(Line), Sorted(ls), NEW b \in Nat
  PROVE  \E i \in 1 .. Len(ls) + 1 : /\ \A k \in 1 .. i - 1 : ls[k].begin <= b
                                     /\ \A k \in i .. Len(ls) : b < ls[k].begin
  <1> DEFINE T == {i \in 1 .. Len(ls) + 1 : \A k \in i .. Len(ls) : b < ls[k].begin}
  <1>1. Len(ls) + 1 \in T OBVIOUS
  <1>2. T \in SUBSET Nat /\ T # {} BY <1>1
  <1> HIDE DEF T
  <1>3. PICK i \in T : \A j \in T : i <= j BY <1>2, LeastOf
  <1>4. i \in 1 .. Len(ls) + 1 /\ \A k \in i .. Len(ls) : b < ls[k].begin BY DEF T
  <1>5. ASSUME NEW k \in 1 .. i - 1 PROVE ls[k].begin <= b
    <2>1. i - 1 \in 1 .. Len(ls) + 1 /\ i - 1 \notin T BY <1>3, <1>4, <1>5
    <2>2. PICK j \in i - 1 .. Len(ls) : ~(b < ls[j].begin) BY <2>1 DEF T
    <2>3. j = i - 1 BY <1>4, <2>1, <2>2
    <2>4. ls[j] \in Line /\ ls[k] \in Line /\ j \in 1 .. Len(ls) /\ k \in 1 .. Len(ls) BY <1>4, <2>3
    <2>5. ls[j].begin <= b BY <2>2, <2>4 DEF Line
    <2>6. k = j \/ k < j BY <2>3
    <2>7. k = j \/ Before(ls[k], ls[j]) BY <2>4, <2>6 DEF Sorted
    <2>8. ls[k].begin <= ls[j].begin BY <2>4, <2>7 DEF Before, Line
    <2>9. ls[k].begin \in Nat /\ ls[j].begin \in Nat BY <2>4 DEF Line
    <2> QED BY <2>5, <2>8, <2>9
  <1> QED BY <1>4, <1>5

\* The array with one line more: it is behind all that begin with it, which have lower
\* numbers.
LEMMA AddKeeps ==
  ASSUME NEW ls, NEW G, NEW t, Holds(ls, G, t), NEW l \in Line, l.begin < l.end, l.begin >= t,
         \A o \in G : o.num < l.num
  PROVE  Holds(addLine(ls, l), G \cup {l}, t)
  <1>1. /\ ls \in Seq(Line) /\ G \subseteq Line /\ t \in Nat /\ Sorted(ls)
        /\ ToSet(ls) = {o \in G : o.end > t} /\ \A o \in G : o.begin < o.end
    BY DEF Holds
  <1> DEFINE place(i) == /\ \A k \in 1 .. i - 1 : ls[k].begin <= l.begin
                         /\ \A k \in i .. Len(ls) : l.begin < ls[k].begin
  <1>2. l.begin \in Nat /\ l.end \in Nat /\ l.num \in Nat BY DEF Line
  <1>3. PICK n \in Nat : n = Len(ls) BY <1>1
  <1>4. \E i \in 1 .. n + 1 : place(i) BY <1>1, <1>2, <1>3, PlaceIs
  <1>5. PICK i : i = CHOOSE x \in 1 .. n + 1 : place(x) OBVIOUS
  <1>6. i \in 1 .. n + 1 /\ place(i) BY <1>4, <1>5
  <1>7. PICK r : r = InsertAt(ls, i, l) OBVIOUS
  <1>8. addLine(ls, l) = r
    <2>1. ~(l.begin >= l.end) BY <1>2
    <2> QED BY <1>3, <1>5, <1>7, <2>1 DEF addLine
  <1>9. /\ r \in Seq(Line) /\ Len(r) = n + 1 /\ r[i] = l
        /\ \A k \in 1 .. i - 1 : r[k] = ls[k]
        /\ \A k \in i + 1 .. n + 1 : r[k] = ls[k - 1]
    <2>1. i \in 1 .. Len(ls) + 1 BY <1>3, <1>6
    <2> HIDE DEF place
    <2>2. ls \in Seq(Line) BY <1>1
    <2>3. r \in Seq(Line) /\ Inserted(r, ls, i, l) BY <1>7, <2>1, <2>2, InsertAtIs
    <2> QED BY <1>3, <2>3 DEF Inserted
  <1>10. \A k \in 1 .. n : ls[k] \in Line /\ ls[k] \in G
    <2> TAKE k \in 1 .. n
    <2>1. ls[k] \in Line /\ k \in DOMAIN ls BY <1>1, <1>3
    <2>2. ls[k] \in ToSet(ls) BY <2>1, ToSetIs
    <2> QED BY <1>1, <2>1, <2>2
  <1>11. Sorted(r)
    <2> SUFFICES ASSUME NEW j \in 1 .. n + 1, NEW k \in 1 .. n + 1, j < k PROVE Before(r[j], r[k])
      BY <1>9 DEF Sorted
    <2>0. \A x, y \in 1 .. n : x < y => Before(ls[x], ls[y]) BY <1>1, <1>3 DEF Sorted
    <2>1. CASE k < i
      <3>1. j \in 1 .. i - 1 /\ k \in 1 .. i - 1 /\ j \in 1 .. n /\ k \in 1 .. n BY <1>6, <2>1
      <3> QED BY <1>9, <2>0, <3>1
    <2>2. CASE k = i
      <3>1. j \in 1 .. i - 1 /\ j \in 1 .. n BY <1>6, <2>2
      <3>2. r[j] = ls[j] /\ r[k] = l BY <1>9, <2>2, <3>1
      <3>3. ls[j].begin <= l.begin BY <1>6, <3>1
      <3>4. ls[j].num < l.num /\ ls[j] \in Line BY <1>10, <3>1
      <3> QED BY <1>2, <3>2, <3>3, <3>4 DEF Before, Line
    <2>3. CASE j = i
      <3>1. k \in i + 1 .. n + 1 /\ k - 1 \in i .. n /\ k - 1 \in 1 .. n BY <1>6, <2>3
      <3>2. r[j] = l /\ r[k] = ls[k - 1] BY <1>9, <2>3, <3>1
      <3>3. l.begin < ls[k - 1].begin BY <1>3, <1>6, <3>1
      <3> QED BY <3>2, <3>3 DEF Before
    <2>4. CASE j < i /\ k > i
      <3>1. j \in 1 .. i - 1 /\ j \in 1 .. n /\ k \in i + 1 .. n + 1 /\ k - 1 \in 1 .. n /\ j < k - 1
        BY <1>6, <2>4
      <3> QED BY <1>9, <2>0, <3>1
    <2>5. CASE j > i
      <3>1. /\ j \in i + 1 .. n + 1 /\ k \in i + 1 .. n + 1
            /\ j - 1 \in 1 .. n /\ k - 1 \in 1 .. n /\ j - 1 < k - 1
        BY <1>6, <2>5
      <3> QED BY <1>9, <2>0, <3>1
    <2> QED BY <1>6, <2>1, <2>2, <2>3, <2>4, <2>5
  <1>12. ToSet(r) = {o \in G \cup {l} : o.end > t}
    <2>1. ASSUME NEW o \in ToSet(r) PROVE o \in G \cup {l} /\ o.end > t
      <3>1. PICK k \in 1 .. n + 1 : o = r[k] BY <1>9, ToSetIs
      <3>2. o = l \/ o \in ToSet(ls)
        <4>1. CASE k = i BY <1>9, <3>1, <4>1
        <4>2. CASE k < i
          <5>1. k \in 1 .. i - 1 /\ k \in 1 .. n BY <1>6, <4>2
          <5> QED BY <1>1, <1>3, <1>9, <3>1, <5>1, ToSetIs
        <4>3. CASE k > i
          <5>1. k \in i + 1 .. n + 1 /\ k - 1 \in 1 .. n BY <1>6, <4>3
          <5> QED BY <1>1, <1>3, <1>9, <3>1, <5>1, ToSetIs
        <4> QED BY <1>6, <4>1, <4>2, <4>3
      <3>3. l.end > t BY <1>1, <1>2
      <3> QED BY <1>1, <3>2, <3>3
    <2>2. ASSUME NEW o \in G \cup {l}, o.end > t PROVE o \in ToSet(r)
      <3>1. CASE o = l
        <4>1. i \in DOMAIN r BY <1>6, <1>9
        <4> QED BY <1>9, <3>1, <4>1, ToSetIs
      <3>2. CASE o \in G
        <4>1. o \in ToSet(ls) BY <1>1, <2>2, <3>2
        <4>2. PICK k \in 1 .. n : o = ls[k] BY <1>1, <1>3, <4>1, ToSetIs
        <4>3. CASE k < i
          <5>1. k \in 1 .. i - 1 /\ k \in DOMAIN r BY <1>6, <1>9, <4>3
          <5> QED BY <1>9, <4>2, <5>1, ToSetIs
        <4>4. CASE k >= i
          <5>1. k + 1 \in i + 1 .. n + 1 /\ k + 1 \in DOMAIN r /\ (k + 1) - 1 = k BY <1>6, <1>9, <4>4
          <5> QED BY <1>9, <4>2, <5>1, ToSetIs
        <4> QED BY <1>6, <4>3, <4>4
      <3> QED BY <3>1, <3>2
    <2> QED BY <2>1, <2>2
  <1> QED BY <1>1, <1>8, <1>9, <1>11, <1>12 DEF Holds
-----------------------------------------------------------------------------
(* copyNextRealSerializedPacket *)

\* The turns of the loop up to line n.
Cuts(g, ls, from, n) ==
  g = [i \in 1 .. n |->
         IF i = 1 THEN [begin |-> from, end |-> ls[1].end, text |-> <<ls[1].num>>, broke |-> FALSE]
         ELSE Cut(g[i - 1], ls[i])]

\* The loop over the lines has turns to its end.
LEMMA CutsExist == ASSUME NEW ls, NEW from, NEW n \in Nat PROVE \E g : Cuts(g, ls, from, n)
  <1> DEFINE S == {k \in Nat : \E g : Cuts(g, ls, from, k)}
             first == [begin |-> from, end |-> ls[1].end, text |-> <<ls[1].num>>, broke |-> FALSE]
  <1>1. 0 \in S
    <2>1. Cuts([i \in 1 .. 0 |-> 0], ls, from, 0) BY DEF Cuts
    <2> QED BY <2>1
  <1>2. ASSUME NEW k \in Nat, k \in S PROVE k + 1 \in S
    <2>1. PICK g : Cuts(g, ls, from, k) BY <1>2
    <2> DEFINE h == [i \in 1 .. k + 1 |-> IF i = 1 THEN first ELSE Cut(g[i - 1], ls[i])]
    <2>2. \A i \in 1 .. k : g[i] = IF i = 1 THEN first ELSE Cut(g[i - 1], ls[i])
      BY <2>1 DEF Cuts
    <2>3. \A i \in 1 .. k : h[i] = g[i]
      <3> TAKE i \in 1 .. k
      <3>1. i \in 1 .. k + 1 OBVIOUS
      <3>2. h[i] = IF i = 1 THEN first ELSE Cut(g[i - 1], ls[i]) BY <3>1
      <3> QED BY <2>2, <3>2
    <2>4. \A i \in 1 .. k + 1 : h[i] = IF i = 1 THEN first ELSE Cut(h[i - 1], ls[i])
      <3> TAKE i \in 1 .. k + 1
      <3>1. CASE i = 1 BY <3>1
      <3>2. CASE i # 1
        <4>1. i - 1 \in 1 .. k BY <3>2
        <4>2. h[i] = Cut(g[i - 1], ls[i]) BY <3>2
        <4>3. h[i - 1] = g[i - 1] BY <2>3, <4>1
        <4> QED BY <3>2, <4>2, <4>3
      <3> QED BY <3>1, <3>2
    <2>5. h = [i \in 1 .. k + 1 |-> IF i = 1 THEN first ELSE Cut(h[i - 1], ls[i])]
      <3> DEFINE e == [i \in 1 .. k + 1 |-> IF i = 1 THEN first ELSE Cut(h[i - 1], ls[i])]
      <3>1. DOMAIN h = 1 .. k + 1 /\ DOMAIN e = 1 .. k + 1 OBVIOUS
      <3>2. \A i \in 1 .. k + 1 : e[i] = h[i] BY <2>4
      <3>3. h = [i \in 1 .. k + 1 |-> h[i]] BY <3>1
      <3>4. e = [i \in 1 .. k + 1 |-> e[i]] BY <3>1
      <3> HIDE DEF h, e
      <3>5. h = e BY <3>2, <3>3, <3>4
      <3> QED BY <3>5 DEF e
    <2> HIDE DEF h
    <2>6. Cuts(h, ls, from, k + 1) BY <2>5 DEF Cuts
    <2> QED BY <2>6
  <1> HIDE DEF S
  <1>3. Nat \subseteq S BY <1>1, <1>2, Inductive
  <1> QED BY <1>3 DEF S

\* What a packet is after the turns up to line n: it ends before any of these lines does and
\* before any of them begins, and is made of those that have begun with it or before.
PacketOf(c, ls, from, n) ==
  /\ c \in [begin : {from}, end : Nat, text : Seq(Nat), broke : BOOLEAN]
  /\ from < c.end
  /\ \A i \in 1 .. n : c.end <= ls[i].end /\ (ls[i].begin <= from \/ c.end <= ls[i].begin)
  /\ c.broke => \E i \in 1 .. n : c.end <= ls[i].begin
  /\ Len(c.text) \in 1 .. n
  /\ \A i \in 1 .. Len(c.text) : c.text[i] = ls[i].num /\ ls[i].begin <= from
  /\ \A i \in Len(c.text) + 1 .. n : from < ls[i].begin

\* The lines are records of numbers that end after they begin, and after the last packet.
LEMMA LinesAre ==
  ASSUME NEW ls, NEW G, NEW t, Holds(ls, G, t), NEW i \in 1 .. Len(ls)
  PROVE  /\ ls[i] \in Line /\ ls[i] \in G
         /\ ls[i].num \in Nat /\ ls[i].begin \in Nat /\ ls[i].end \in Nat /\ t \in Nat
         /\ ls[i].begin < ls[i].end /\ t < ls[i].end
  <1>1. ls \in Seq(Line) /\ t \in Nat BY DEF Holds
  <1>2. ls[i] \in Line /\ i \in DOMAIN ls BY <1>1
  <1>3. ls[i] \in ToSet(ls) BY <1>2, ToSetIs
  <1>4. ls[i] \in G /\ ls[i].end > t /\ ls[i].begin < ls[i].end BY <1>3 DEF Holds
  <1> QED BY <1>1, <1>2, <1>4 DEF Line

\* A line that comes later does not begin earlier.
LEMMA LinesInTurn ==
  ASSUME NEW ls, NEW G, NEW t, Holds(ls, G, t), NEW i \in 1 .. Len(ls), NEW j \in 1 .. Len(ls), i <= j
  PROVE  ls[i].begin <= ls[j].begin
  <1>1. ls[i].begin \in Nat /\ ls[j].begin \in Nat BY LinesAre
  <1>2. i = j \/ i < j BY DEF Holds
  <1>3. i = j \/ Before(ls[i], ls[j]) BY <1>2 DEF Holds, Sorted
  <1> QED BY <1>1, <1>3 DEF Before

\* The packet starts as the first line.
LEMMA FirstTurn ==
  ASSUME NEW ls, NEW G, NEW t, Holds(ls, G, t), ls # <<>>, ls[1].begin <= t,
         NEW c, c = [begin |-> t, end |-> ls[1].end, text |-> <<ls[1].num>>, broke |-> FALSE]
  PROVE  PacketOf(c, ls, t, 1)
  <1>1. ls \in Seq(Line) BY DEF Holds
  <1>2. 1 \in 1 .. Len(ls) BY <1>1
  <1>3. ls[1].num \in Nat /\ ls[1].end \in Nat /\ t < ls[1].end BY <1>2, LinesAre
  <1>4. c.text \in Seq(Nat) /\ Len(c.text) = 1 /\ c.text[1] = ls[1].num BY <1>3
  <1> QED BY <1>3, <1>4 DEF PacketOf

\* A turn for the next line: it may end the packet earlier, and joins it when it has begun,
\* in which case all lines before it have joined.
LEMMA NextTurn ==
  ASSUME NEW ls, NEW G, NEW t, Holds(ls, G, t), NEW n \in Nat, n + 1 \in 1 .. Len(ls),
         NEW c, PacketOf(c, ls, t, n), NEW q, q = Cut(c, ls[n + 1])
  PROVE  PacketOf(q, ls, t, n + 1)
  <1> DEFINE l == ls[n + 1]
  <1>1. /\ l.num \in Nat /\ l.begin \in Nat /\ l.end \in Nat /\ t \in Nat /\ l.begin < l.end /\ t < l.end
    BY LinesAre
  <1>2. /\ c \in [begin : {t}, end : Nat, text : Seq(Nat), broke : BOOLEAN]
        /\ t < c.end
        /\ \A i \in 1 .. n : c.end <= ls[i].end /\ (ls[i].begin <= t \/ c.end <= ls[i].begin)
        /\ c.broke => \E i \in 1 .. n : c.end <= ls[i].begin
        /\ Len(c.text) \in 1 .. n
        /\ \A i \in 1 .. Len(c.text) : c.text[i] = ls[i].num /\ ls[i].begin <= t
        /\ \A i \in Len(c.text) + 1 .. n : t < ls[i].begin
    BY DEF PacketOf
  <1>3. /\ c.begin = t /\ c.end \in Nat /\ c.text \in Seq(Nat) /\ c.broke \in BOOLEAN
    BY <1>2
  <1>4. PICK m \in 1 .. n : m = Len(c.text) BY <1>2
  <1>5. \A i \in 1 .. n : i \in 1 .. Len(ls) /\ n + 1 \in 1 .. Len(ls) /\ i <= n + 1 BY DEF Holds
  <1>6. \A i \in 1 .. n : /\ ls[i].begin \in Nat /\ ls[i].end \in Nat /\ ls[i].begin <= l.begin
    BY <1>5, LinesAre, LinesInTurn
  <1>7. \A i \in 1 .. n + 1 : i \in 1 .. n \/ i = n + 1 OBVIOUS
  <1>8. CASE c.broke \/ l.begin >= c.end
    <2>1. c.end <= l.begin
      <3>1. CASE c.broke
        <4>1. PICK i \in 1 .. n : c.end <= ls[i].begin BY <1>2, <3>1
        <4> QED BY <1>1, <1>3, <1>6, <4>1
      <3>2. CASE l.begin >= c.end BY <1>1, <1>3, <3>2
      <3> QED BY <1>8, <3>1, <3>2
    <2>2. q = [c EXCEPT !.broke = TRUE] BY <1>8 DEF Cut
    <2>3. /\ q \in [begin : {t}, end : Nat, text : Seq(Nat), broke : BOOLEAN]
          /\ q.end = c.end /\ q.text = c.text
      BY <1>2, <2>2
    <2>4. c.end <= l.end /\ t < l.begin BY <1>1, <1>2, <1>3, <2>1
    <2>5. \A i \in 1 .. n + 1 : c.end <= ls[i].end /\ (ls[i].begin <= t \/ c.end <= ls[i].begin)
      BY <1>2, <1>7, <2>1, <2>4
    <2>6. \E i \in 1 .. n + 1 : c.end <= ls[i].begin BY <2>1
    <2>7. \A i \in m + 1 .. n + 1 : t < ls[i].begin
      <3>1. \A i \in m + 1 .. n + 1 : i \in m + 1 .. n \/ i = n + 1 OBVIOUS
      <3> QED BY <1>2, <1>4, <2>4, <3>1
    <2>8. m \in 1 .. n + 1 OBVIOUS
    <2> QED BY <1>2, <1>4, <2>3, <2>5, <2>6, <2>7, <2>8 DEF PacketOf
  <1>9. CASE ~(c.broke \/ l.begin >= c.end) /\ l.begin > c.begin
    <2>1. PICK e : e = Min({c.end, l.end, l.begin}) OBVIOUS
    <2>2. e \in {c.end, l.end, l.begin} /\ e <= c.end /\ e <= l.end /\ e <= l.begin
      <3>1. c.end \in Int /\ l.end \in Int /\ l.begin \in Int BY <1>1, <1>3
      <3> QED BY ONLY <2>1, <3>1, MinOfThree
    <2>3. q = [c EXCEPT !.end = e] BY <1>9, <2>1 DEF Cut
    <2>4. e \in Nat /\ t < e BY <1>1, <1>2, <1>3, <1>9, <2>2
    <2>5. /\ q \in [begin : {t}, end : Nat, text : Seq(Nat), broke : BOOLEAN]
          /\ q.end = e /\ q.text = c.text /\ q.broke = c.broke
      BY <1>2, <2>3, <2>4
    <2>6. \A i \in 1 .. n + 1 : e <= ls[i].end /\ (ls[i].begin <= t \/ e <= ls[i].begin)
      <3> TAKE i \in 1 .. n + 1
      <3>1. CASE i \in 1 .. n BY <1>2, <1>3, <1>6, <2>2, <2>4, <3>1
      <3>2. CASE i = n + 1 BY <2>2, <3>2
      <3> QED BY <1>7, <3>1, <3>2
    <2>7. ~q.broke BY <1>9, <2>5
    <2>8. \A i \in m + 1 .. n + 1 : t < ls[i].begin
      <3>1. \A i \in m + 1 .. n + 1 : i \in m + 1 .. n \/ i = n + 1 OBVIOUS
      <3> QED BY <1>2, <1>3, <1>4, <1>9, <3>1
    <2>9. m \in 1 .. n + 1 OBVIOUS
    <2> QED BY <1>2, <1>4, <2>4, <2>5, <2>6, <2>7, <2>8, <2>9 DEF PacketOf
  <1>10. CASE ~(c.broke \/ l.begin >= c.end) /\ ~(l.begin > c.begin)
    <2>1. PICK e : e = Min({c.end, l.end}) OBVIOUS
    <2>2. e \in {c.end, l.end} /\ e <= c.end /\ e <= l.end
      <3>1. c.end \in Int /\ l.end \in Int BY <1>1, <1>3
      <3> QED BY ONLY <2>1, <3>1, MinOfTwo
    <2>3. PICK x : x = Append(c.text, l.num) OBVIOUS
    <2>4. q = [c EXCEPT !.end = e, !.text = x] BY <1>10, <2>1, <2>3 DEF Cut
    <2>5. e \in Nat /\ t < e BY <1>1, <1>2, <1>3, <2>2
    <2>6. m = n
      <3> SUFFICES ASSUME m # n PROVE FALSE OBVIOUS
      <3>1. n \in m + 1 .. n OBVIOUS
      <3>2. t < ls[n].begin BY <1>2, <1>4, <3>1
      <3>3. ls[n].begin \in Nat /\ ls[n].begin <= l.begin BY <1>6
      <3> QED BY <1>1, <1>3, <1>10, <3>2, <3>3
    <2>7. x \in Seq(Nat) /\ Len(x) = n + 1 /\ x[n + 1] = l.num /\ \A i \in 1 .. n : x[i] = c.text[i]
      <3>1. c.text \in Seq(Nat) /\ l.num \in Nat /\ Len(c.text) = n BY <1>1, <1>3, <1>4, <2>6
      <3> QED BY ONLY <2>3, <3>1, n \in Nat, AppendProperties
    <2>8. /\ q \in [begin : {t}, end : Nat, text : Seq(Nat), broke : BOOLEAN]
          /\ q.end = e /\ q.text = x /\ q.broke = c.broke
      BY <1>2, <2>4, <2>5, <2>7
    <2>9. \A i \in 1 .. n + 1 : e <= ls[i].end /\ (ls[i].begin <= t \/ e <= ls[i].begin)
      <3> TAKE i \in 1 .. n + 1
      <3>1. CASE i \in 1 .. n BY <1>2, <1>3, <1>6, <2>2, <2>5, <3>1
      <3>2. CASE i = n + 1 BY <1>1, <1>3, <1>10, <2>2, <3>2
      <3> QED BY <1>7, <3>1, <3>2
    <2>10. ~q.broke BY <1>10, <2>8
    <2>11. \A i \in 1 .. n + 1 : x[i] = ls[i].num /\ ls[i].begin <= t
      <3> TAKE i \in 1 .. n + 1
      <3>1. CASE i \in 1 .. n BY <1>2, <1>4, <2>6, <2>7, <3>1
      <3>2. CASE i = n + 1 BY <1>1, <1>3, <1>10, <2>7, <3>2
      <3> QED BY <1>7, <3>1, <3>2
    <2>12. \A i \in (n + 1) + 1 .. n + 1 : t < ls[i].begin OBVIOUS
    <2>13. n + 1 \in 1 .. n + 1 OBVIOUS
    <2> QED BY <2>5, <2>7, <2>8, <2>9, <2>10, <2>11, <2>12, <2>13 DEF PacketOf
  <1> QED BY <1>8, <1>9, <1>10

\* The packet after the last turn.
LEMMA CutsMakePacket ==
  ASSUME NEW ls, NEW G, NEW t, Holds(ls, G, t), ls # <<>>, ls[1].begin <= t,
         NEW g, Cuts(g, ls, t, Len(ls))
  PROVE  PacketOf(g[Len(ls)], ls, t, Len(ls))
  <1>1. PICK n \in Nat : n = Len(ls) BY DEF Holds
  <1>2. n >= 1 BY <1>1 DEF Holds
  <1> DEFINE first == [begin |-> t, end |-> ls[1].end, text |-> <<ls[1].num>>, broke |-> FALSE]
             S == {k \in Nat : k \in 1 .. n => PacketOf(g[k], ls, t, k)}
  <1>3. \A i \in 1 .. n : g[i] = IF i = 1 THEN first ELSE Cut(g[i - 1], ls[i]) BY <1>1 DEF Cuts
  <1>4. 0 \in S OBVIOUS
  <1>5. ASSUME NEW k \in Nat, k \in S PROVE k + 1 \in S
    <2> SUFFICES ASSUME k + 1 \in 1 .. n PROVE PacketOf(g[k + 1], ls, t, k + 1) OBVIOUS
    <2>1. CASE k = 0
      <3>0. 1 \in 1 .. n BY <1>2
      <3>1. g[1] = first BY ONLY <1>3, <3>0
      <3> HIDE DEF first
      <3>2. first = [begin |-> t, end |-> ls[1].end, text |-> <<ls[1].num>>, broke |-> FALSE] BY DEF first
      <3> QED BY <2>1, <3>1, <3>2, FirstTurn
    <2>2. CASE k # 0
      <3>1. k \in 1 .. n /\ k + 1 # 1 /\ (k + 1) - 1 = k BY <1>1, <2>2
      <3>2. PacketOf(g[k], ls, t, k) BY <1>5, <3>1
      <3>3. g[k + 1] = Cut(g[k], ls[k + 1]) BY <1>3, <3>1
      <3>4. k + 1 \in 1 .. Len(ls) BY <1>1
      <3> QED BY <3>2, <3>3, <3>4, NextTurn
    <2> QED BY <2>1, <2>2
  <1> HIDE DEF S
  <1>6. Nat \subseteq S BY <1>4, <1>5, Inductive
  <1>7. n \in S BY <1>6
  <1> QED BY <1>1, <1>2, <1>7 DEF S
-----------------------------------------------------------------------------
(* The lines that are left. *)

\* The loop that removes the lines that end at e, up to line n.
Lefts(g, ls, e, n) ==
  g = [i \in 0 .. n |-> IF i = 0 THEN <<>>
                        ELSE IF ls[i].end = e THEN g[i - 1]
                        ELSE Append(g[i - 1], ls[i])]

\* The loop that removes lines has turns to its end.
LEMMA LeftsExist == ASSUME NEW ls, NEW e, NEW n \in Nat PROVE \E g : Lefts(g, ls, e, n)
  <1> DEFINE S == {k \in Nat : \E g : Lefts(g, ls, e, k)}
  <1>1. 0 \in S
    <2>1. Lefts([i \in 0 .. 0 |-> <<>>], ls, e, 0) BY DEF Lefts
    <2> QED BY <2>1
  <1>2. ASSUME NEW k \in Nat, k \in S PROVE k + 1 \in S
    <2>1. PICK g : Lefts(g, ls, e, k) BY <1>2
    <2> DEFINE turn(f, i) == IF i = 0 THEN <<>>
                             ELSE IF ls[i].end = e THEN f[i - 1]
                             ELSE Append(f[i - 1], ls[i])
               h == [i \in 0 .. k + 1 |-> turn(g, i)]
    <2>2. g = [i \in 0 .. k |-> turn(g, i)] BY <2>1 DEF Lefts
    <2>3. \A i \in 0 .. k : g[i] = turn(g, i) BY ONLY <2>2
    <2>4. \A i \in 0 .. k + 1 : h[i] = turn(g, i) OBVIOUS
    <2>5. \A i \in 0 .. k : h[i] = g[i]
      <3> HIDE DEF h, turn
      <3> TAKE i \in 0 .. k
      <3>1. i \in 0 .. k + 1 OBVIOUS
      <3> QED BY <2>3, <2>4, <3>1
    <2>6. \A i \in 0 .. k + 1 : turn(g, i) = turn(h, i)
      <3> TAKE i \in 0 .. k + 1
      <3>1. CASE i = 0 BY <3>1
      <3>2. CASE i # 0
        <4>1. i - 1 \in 0 .. k BY <3>2
        <4>2. h[i - 1] = g[i - 1] BY <2>5, <4>1
        <4> HIDE DEF h
        <4> QED BY <3>2, <4>2
      <3> QED BY <3>1, <3>2
    <2>7. h = [i \in 0 .. k + 1 |-> turn(h, i)]
      <3> HIDE DEF turn
      <3>1. \A i \in 0 .. k + 1 : h[i] = turn(h, i) BY <2>4, <2>6
      <3>2. h = [i \in 0 .. k + 1 |-> h[i]] OBVIOUS
      <3> HIDE DEF h
      <3> QED BY <3>1, <3>2
    <2> HIDE DEF h
    <2>8. Lefts(h, ls, e, k + 1) BY <2>7 DEF Lefts
    <2> QED BY <2>8
  <1> HIDE DEF S
  <1>3. Nat \subseteq S BY <1>1, <1>2, Inductive
  <1> QED BY <1>3 DEF S

\* r are those of the first n lines that do not end at e.
LeftOf(r, ls, e, n) ==
  /\ r \in Seq(Line) /\ Sorted(r)
  /\ \A x : x \in ToSet(r) <=> \E i \in 1 .. n : x = ls[i] /\ x.end # e

\* What is in a sequence that one was appended to.
LEMMA ToSetAppend ==
  ASSUME NEW S, NEW s \in Seq(S), NEW y \in S, NEW x
  PROVE  x \in ToSet(Append(s, y)) <=> x \in ToSet(s) \/ x = y
  <1>1. PICK r : r = Append(s, y) OBVIOUS
  <1>2. PICK n \in Nat : n = Len(s) OBVIOUS
  <1>3. /\ r \in Seq(S) /\ Len(r) = n + 1 /\ r[n + 1] = y /\ \A i \in 1 .. n : r[i] = s[i]
    BY <1>1, <1>2, AppendProperties
  <1>4. DOMAIN r = 1 .. n + 1 /\ DOMAIN s = 1 .. n BY <1>2, <1>3
  <1>5. \A i \in 1 .. n + 1 : i \in 1 .. n \/ i = n + 1 OBVIOUS
  <1>6. 1 .. n \subseteq 1 .. n + 1 /\ n + 1 \in 1 .. n + 1 OBVIOUS
  <1>7. (\E i \in 1 .. n + 1 : x = r[i]) <=> (\E i \in 1 .. n : x = s[i]) \/ x = y
    BY <1>3, <1>5, <1>6
  <1>8. x \in ToSet(r) <=> \E i \in 1 .. n + 1 : x = r[i] BY Zenon, <1>4, ToSetIs
  <1>9. x \in ToSet(s) <=> \E i \in 1 .. n : x = s[i] BY Zenon, <1>4, ToSetIs
  <1> QED BY Zenon, <1>1, <1>7, <1>8, <1>9

\* A turn of the loop: the line stays behind those that stay, or goes.
LEMMA LeftGrows ==
  ASSUME NEW ls \in Seq(Line), Sorted(ls), NEW e, NEW n \in Nat, n + 1 \in 1 .. Len(ls),
         NEW r, LeftOf(r, ls, e, n)
  PROVE  LeftOf(IF ls[n + 1].end = e THEN r ELSE Append(r, ls[n + 1]), ls, e, n + 1)
  <1> DEFINE l == ls[n + 1]
  <1>1. /\ r \in Seq(Line) /\ Sorted(r)
        /\ \A x : x \in ToSet(r) <=> \E i \in 1 .. n : x = ls[i] /\ x.end # e
    BY DEF LeftOf
  <1>2. l \in Line OBVIOUS
  <1>3. \A i \in 1 .. n + 1 : i \in 1 .. n \/ i = n + 1 OBVIOUS
  <1>4. 1 .. n \subseteq 1 .. n + 1 /\ n + 1 \in 1 .. n + 1 OBVIOUS
  <1>5. CASE l.end = e
    <2>1. \A x : (\E i \in 1 .. n + 1 : x = ls[i] /\ x.end # e) <=> \E i \in 1 .. n : x = ls[i] /\ x.end # e
      BY <1>3, <1>4, <1>5
    <2> QED BY <1>1, <1>5, <2>1 DEF LeftOf
  <1>6. CASE l.end # e
    <2>1. PICK q : q = Append(r, l) OBVIOUS
    <2>2. PICK m \in Nat : m = Len(r) BY <1>1
    <2>3. q \in Seq(Line) /\ Len(q) = m + 1 /\ q[m + 1] = l /\ \A i \in 1 .. m : q[i] = r[i]
      BY <1>1, <1>2, <2>1, <2>2, AppendProperties
    <2>4. Sorted(q)
      <3> SUFFICES ASSUME NEW i \in 1 .. m + 1, NEW j \in 1 .. m + 1, i < j PROVE Before(q[i], q[j])
        BY <2>3 DEF Sorted
      <3>1. i \in 1 .. m OBVIOUS
      <3>2. CASE j \in 1 .. m BY <1>1, <2>2, <2>3, <3>1, <3>2 DEF Sorted
      <3>3. CASE j = m + 1
        <4>1. i \in DOMAIN r BY <1>1, <2>2, <3>1
        <4>2. r[i] \in ToSet(r) BY <4>1, ToSetIs
        <4>3. PICK k \in 1 .. n : r[i] = ls[k] BY <1>1, <4>2
        <4>4. k \in 1 .. Len(ls) /\ k < n + 1 OBVIOUS
        <4>5. Before(ls[k], l) BY <4>4 DEF Sorted
        <4> QED BY <2>3, <3>1, <3>3, <4>3, <4>5
      <3> QED BY <3>2, <3>3
    <2>5. \A x : x \in ToSet(q) <=> \E i \in 1 .. n + 1 : x = ls[i] /\ x.end # e
      <3> TAKE x
      <3>1. x \in ToSet(q) <=> x \in ToSet(r) \/ x = l BY <1>1, <1>2, <2>1, ToSetAppend
      <3>2. (\E i \in 1 .. n + 1 : x = ls[i] /\ x.end # e)
              <=> (\E i \in 1 .. n : x = ls[i] /\ x.end # e) \/ x = l
        BY <1>3, <1>4, <1>6
      <3> QED BY <1>1, <3>1, <3>2
    <2> QED BY <1>6, <2>1, <2>3, <2>4, <2>5 DEF LeftOf
  <1> QED BY <1>5, <1>6

\* LinesLeft leaves the lines that do not end with the packet, in their order.
LEMMA LinesLeftAre ==
  ASSUME NEW ls \in Seq(Line), Sorted(ls), NEW packet, packet.text # <<>>
  PROVE  LeftOf(LinesLeft(ls, packet), ls, packet.end, Len(ls))
  <1>0. PICK n \in Nat : n = Len(ls) OBVIOUS
  <1>1. PICK e : e = packet.end OBVIOUS
  <1>2. \E g : Lefts(g, ls, e, n) BY LeftsExist
  <1>3. PICK g : g = CHOOSE f : Lefts(f, ls, e, n) OBVIOUS
  <1>4. Lefts(g, ls, e, n) BY <1>2, <1>3
  <1>5. LinesLeft(ls, packet) = g[n] BY <1>0, <1>1, <1>3 DEF LinesLeft, Lefts
  <1>6. \A i \in 0 .. n : g[i] = IF i = 0 THEN <<>>
                                 ELSE IF ls[i].end = e THEN g[i - 1]
                                 ELSE Append(g[i - 1], ls[i])
    BY ONLY <1>4 DEF Lefts
  <1> DEFINE S == {k \in Nat : k <= n => LeftOf(g[k], ls, e, k)}
  <1>7. 0 \in S
    <2>1. g[0] = <<>> BY <1>6
    <2>2. \A x : x \notin ToSet(<<>>) BY ToSetIs
    <2>3. <<>> \in Seq(Line) /\ Len(<<>>) = 0 OBVIOUS
    <2>4. Sorted(<<>>) BY <2>3 DEF Sorted
    <2>5. \A i \in 1 .. 0 : FALSE OBVIOUS
    <2>6. LeftOf(<<>>, ls, e, 0) BY ONLY Zenon, <2>2, <2>3, <2>4, <2>5 DEF LeftOf
    <2> QED BY <2>1, <2>6
  <1>8. ASSUME NEW k \in Nat, k \in S PROVE k + 1 \in S
    <2> SUFFICES ASSUME k + 1 <= n PROVE LeftOf(g[k + 1], ls, e, k + 1) OBVIOUS
    <2>1. k + 1 \in 0 .. n /\ k + 1 # 0 /\ (k + 1) - 1 = k /\ k + 1 \in 1 .. Len(ls) BY <1>0
    <2>2. g[k + 1] = IF ls[k + 1].end = e THEN g[k] ELSE Append(g[k], ls[k + 1]) BY <1>6, <2>1
    <2>3. LeftOf(g[k], ls, e, k) BY <1>8
    <2> QED BY <2>1, <2>2, <2>3, LeftGrows
  <1> HIDE DEF S
  <1>9. Nat \subseteq S BY <1>7, <1>8, Inductive
  <1>10. n \in S BY <1>9
  <1> QED BY <1>0, <1>1, <1>5, <1>10 DEF S
-----------------------------------------------------------------------------
(* getSerializedPacket *)

\* The packet p was made of the lines ls: it follows the packets made up to t, shows what is
\* to be seen of all lines G, and the lines that are left are those that go on after it.
\* While lines still arrive it ends where some line begins.
Made(p, ls, G, t, done) ==
  /\ p \in Packet /\ p.begin = t /\ t < p.end
  /\ Timeline!Shows(p, G)
  /\ Holds(LinesLeft(ls, p), G, p.end)
  /\ done \/ \E o \in G : p.end <= o.begin

\* There is a first line.
LEMMA FirstIs ==
  ASSUME NEW ls, NEW G, NEW t, Holds(ls, G, t), ls # <<>>
  PROVE  1 \in 1 .. Len(ls)
  BY DEF Holds

\* A line that ends later than the packets is among the lines kept.
LEMMA InLines ==
  ASSUME NEW ls, NEW G, NEW t, Holds(ls, G, t), NEW l \in G, l.end > t
  PROVE  \E i \in 1 .. Len(ls) : l = ls[i]
  <1>1. l \in ToSet(ls) BY DEF Holds
  <1>2. DOMAIN ls = 1 .. Len(ls) BY DEF Holds
  <1> QED BY <1>1, <1>2, ToSetIs

\* Nothing is to be seen until the first line begins.
LEMMA EmptyPacket ==
  ASSUME NEW ls, NEW G, NEW t, Holds(ls, G, t), ls # <<>>, ls[1].begin > t, NEW done,
         NEW p, p = [begin |-> t, end |-> ls[1].begin, text |-> <<>>]
  PROVE  Made(p, ls, G, t, done)
  <1>1. 1 \in 1 .. Len(ls) BY FirstIs
  <1>2. ls[1] \in G /\ ls[1].begin \in Nat /\ t \in Nat BY <1>1, LinesAre
  <1>3. PICK b \in Nat : b = ls[1].begin BY <1>2
  <1>4. p.begin = t /\ p.end = b /\ p.text = <<>> /\ p \in Packet BY <1>2, <1>3 DEF Packet
  <1>5. \A i \in 1 .. Len(ls) : b <= ls[i].begin
    <2> TAKE i \in 1 .. Len(ls)
    <2>1. 1 <= i OBVIOUS
    <2> QED BY <1>1, <1>3, <2>1, LinesInTurn
  <1>6. \A l \in G : l.end > t => b <= l.begin /\ b < l.end
    <2> TAKE l \in G
    <2> HAVE l.end > t
    <2>1. PICK i \in 1 .. Len(ls) : l = ls[i] BY InLines
    <2>2. l.begin \in Nat /\ l.end \in Nat /\ l.begin < l.end BY <2>1, LinesAre
    <2>3. b <= l.begin BY <1>5, <2>1
    <2> QED BY <2>2, <2>3
  <1>7. \A l \in G : l.begin \in Nat /\ l.end \in Nat BY DEF Holds, Line
  <1>8. Timeline!Shows(p, G)
    <2> SUFFICES ASSUME NEW z \in t .. b - 1 PROVE Timeline!IsText(<<>>, Timeline!Seen(G, z))
      BY <1>4 DEF Timeline!Shows
    <2>1. ASSUME NEW l \in G, l.begin <= z, z < l.end PROVE FALSE
      <3>1. l.end > t BY <1>2, <1>7, <2>1
      <3>2. b <= l.begin BY <1>6, <3>1
      <3> QED BY <1>2, <1>7, <2>1, <3>2
    <2>2. Timeline!Seen(G, z) = {} BY <2>1 DEF Timeline!Seen
    <2>5. PICK f : f = <<>> OBVIOUS
    <2>6. 1 .. Len(f) = {} BY <2>5
    <2>7. f \in [1 .. Len(f) -> {}] BY <2>5, <2>6
    <2>8. Timeline!IsText(f, {}) BY ONLY Zenon, <2>6, <2>7 DEF Timeline!IsText
    <2> QED BY <2>2, <2>5, <2>8
  <1>9. Holds(ls, G, b)
    <2>1. \A l \in G : l.end > b <=> l.end > t BY <1>2, <1>3, <1>6, <1>7
    <2>2. {l \in G : l.end > b} = {l \in G : l.end > t} BY <2>1
    <2> QED BY <2>2 DEF Holds
  <1>10. LinesLeft(ls, p) = ls BY <1>4 DEF LinesLeft
  <1>11. \E o \in G : b <= o.begin BY <1>2, <1>3
  <1> QED BY <1>2, <1>3, <1>4, <1>8, <1>9, <1>10, <1>11 DEF Made

\* The lines that have begun are shown until one of them ends or another begins.
LEMMA LinesPacket ==
  ASSUME NEW ls, NEW G, NEW t, Holds(ls, G, t), ls # <<>>, NEW done, done \/ canOutput(ls),
         NEW c, PacketOf(c, ls, t, Len(ls)),
         NEW p, p = [begin |-> c.begin, end |-> c.end, text |-> c.text]
  PROVE  Made(p, ls, G, t, done)
  <1>0. PICK n \in Nat : n = Len(ls) BY DEF Holds
  <1>1. /\ c \in [begin : {t}, end : Nat, text : Seq(Nat), broke : BOOLEAN]
        /\ t < c.end
        /\ \A i \in 1 .. n : c.end <= ls[i].end /\ (ls[i].begin <= t \/ c.end <= ls[i].begin)
        /\ Len(c.text) \in 1 .. n
        /\ \A i \in 1 .. Len(c.text) : c.text[i] = ls[i].num /\ ls[i].begin <= t
        /\ \A i \in Len(c.text) + 1 .. n : t < ls[i].begin
    BY <1>0 DEF PacketOf
  <1>2. PICK e \in Nat : e = c.end BY <1>1
  <1>3. PICK k \in 1 .. n : k = Len(c.text) BY <1>1
  <1>4. t \in Nat /\ ls \in Seq(Line) BY DEF Holds
  <1>5. p.begin = t /\ p.end = e /\ p.text = c.text /\ p \in Packet /\ t < e
    BY <1>1, <1>2, <1>4 DEF Packet
  <1>6. \A i \in 1 .. n : /\ ls[i] \in G /\ ls[i] \in Line
                          /\ ls[i].begin \in Nat /\ ls[i].end \in Nat /\ t < ls[i].end
    BY <1>0, LinesAre
  <1>7. \A l \in G : l.begin \in Nat /\ l.end \in Nat BY DEF Holds, Line
  <1>8. Timeline!Shows(p, G)
    <2> SUFFICES ASSUME NEW z \in t .. e - 1 PROVE Timeline!IsText(c.text, Timeline!Seen(G, z))
      BY <1>5 DEF Timeline!Shows
    <2>1. PICK turn : turn = [i \in 1 .. k |-> ls[i]] OBVIOUS
    <2>2. \A i \in 1 .. k : turn[i] = ls[i] /\ i \in 1 .. n BY <2>1
    <2>3. \A i \in 1 .. k : ls[i] \in Timeline!Seen(G, z)
      <3> TAKE i \in 1 .. k
      <3>1. i \in 1 .. n OBVIOUS
      <3>2. ls[i].begin <= t /\ e <= ls[i].end BY <1>1, <1>2, <1>3, <3>1
      <3>3. ls[i].begin <= z /\ z < ls[i].end BY <1>4, <1>6, <3>1, <3>2
      <3> QED BY <1>6, <3>1, <3>3 DEF Timeline!Seen
    <2>4. ASSUME NEW l \in Timeline!Seen(G, z) PROVE \E i \in 1 .. k : l = ls[i]
      <3>1. l \in G /\ l.begin <= z /\ z < l.end BY DEF Timeline!Seen
      <3>2. l.end > t BY <1>4, <1>7, <3>1
      <3>3. PICK i \in 1 .. n : l = ls[i] BY <1>0, <3>1, <3>2, InLines
      <3>4. ~(e <= ls[i].begin) BY <1>4, <1>6, <3>1, <3>3
      <3>5. ls[i].begin <= t BY <1>1, <1>2, <3>4
      <3>6. ASSUME i \in k + 1 .. n PROVE FALSE
        <4>1. t < ls[i].begin BY <1>1, <1>3, <3>6
        <4> QED BY <1>4, <1>6, <3>5, <4>1
      <3>7. i \in 1 .. k BY <3>6
      <3> QED BY <3>3, <3>7
    <2>5. turn \in [1 .. k -> Timeline!Seen(G, z)] BY <2>1, <2>3
    <2>7. \A l \in Timeline!Seen(G, z) : \E i \in 1 .. k : turn[i] = l BY <2>2, <2>4
    <2>8. \A i, j \in 1 .. k : i < j => Timeline!Before(turn[i], turn[j])
      <3>1. \A i, j \in 1 .. n : i < j => Before(ls[i], ls[j]) BY <1>0 DEF Holds, Sorted
      <3> QED BY <2>2, <3>1 DEF Before, Timeline!Before
    <2>9. \A i \in 1 .. k : c.text[i] = turn[i].num BY <1>1, <1>3, <2>2
    <2> QED BY ONLY Zenon, <1>3, <2>5, <2>7, <2>8, <2>9 DEF Timeline!IsText
  <1>9. Holds(LinesLeft(ls, p), G, e)
    <2>1. PICK r : r = LinesLeft(ls, p) OBVIOUS
    <2>2. p.text # <<>> BY <1>3, <1>5
    <2>3. LeftOf(r, ls, e, n)
      <3>1. Sorted(ls) BY DEF Holds
      <3> QED BY <1>0, <1>4, <1>5, <2>1, <2>2, <3>1, LinesLeftAre
    <2>4. ToSet(r) = {l \in G : l.end > e}
      <3>1. ASSUME NEW l \in ToSet(r) PROVE l \in G /\ l.end > e
        <4>1. PICK i \in 1 .. n : l = ls[i] /\ l.end # e BY <2>3 DEF LeftOf
        <4>2. e <= ls[i].end BY <1>1, <1>2
        <4> QED BY <1>6, <4>1, <4>2
      <3>2. ASSUME NEW l \in G, l.end > e PROVE l \in ToSet(r)
        <4>1. l.end > t /\ l.end # e BY <1>4, <1>5, <1>7, <3>2
        <4>2. PICK i \in 1 .. n : l = ls[i] BY <1>0, <4>1, InLines
        <4> QED BY <2>3, <4>1, <4>2 DEF LeftOf
      <3> QED BY <3>1, <3>2
    <2>5. G \subseteq Line /\ \A l \in G : l.begin < l.end BY DEF Holds
    <2> QED BY <2>1, <2>3, <2>4, <2>5 DEF Holds, LeftOf
  <1>10. done \/ \E o \in G : e <= o.begin
    <2> SUFFICES ASSUME canOutput(ls) PROVE \E o \in G : e <= o.begin OBVIOUS
    <2>1. PICK i \in 2 .. n : \A j \in 1 .. i - 1 : ls[i].begin >= ls[j].end BY <1>0 DEF canOutput
    <2>2. 1 \in 1 .. i - 1 /\ 1 \in 1 .. n /\ i \in 1 .. n OBVIOUS
    <2>3. ls[i].begin >= ls[1].end /\ e <= ls[1].end BY <1>1, <1>2, <2>1, <2>2
    <2>4. e <= ls[i].begin BY <1>6, <2>2, <2>3
    <2> QED BY <1>6, <2>2, <2>4
  <1> QED BY <1>5, <1>8, <1>9, <1>10 DEF Made

\* getSerializedPacket makes a packet of its lines, or none.
LEMMA PacketIsMade ==
  ASSUME NEW ls, NEW G, NEW t, Holds(ls, G, t), NEW done,
         NEW p, p = getSerializedPacket(ls, done, t), p # NoPacket
  PROVE  Made(p, ls, G, t, done)
  <1>1. ls # <<>> BY DEF getSerializedPacket
  <1>2. ls[1].begin \in Nat /\ t \in Nat BY <1>1, FirstIs, LinesAre
  <1>3. CASE ls[1].begin > t
    <2>1. p = [begin |-> t, end |-> ls[1].begin, text |-> <<>>] BY <1>1, <1>3 DEF getSerializedPacket
    <2> QED BY <1>1, <1>3, <2>1, EmptyPacket
  <1>4. CASE ~(ls[1].begin > t)
    <2>1. p = copyNextRealSerializedPacket(ls, done, t) BY <1>1, <1>4 DEF getSerializedPacket
    <2>2. done \/ canOutput(ls) BY <2>1 DEF copyNextRealSerializedPacket
    <2>3. PICK n \in Nat : n = Len(ls) BY DEF Holds
    <2>4. \E g : Cuts(g, ls, t, n) BY CutsExist
    <2>5. PICK g : g = CHOOSE f : Cuts(f, ls, t, n) OBVIOUS
    <2>6. Cuts(g, ls, t, n) BY <2>4, <2>5
    <2>7. p = [begin |-> g[n].begin, end |-> g[n].end, text |-> g[n].text]
      BY <2>1, <2>2, <2>3, <2>5 DEF copyNextRealSerializedPacket, Cuts
    <2>8. ls[1].begin <= t BY <1>2, <1>4
    <2>9. PacketOf(g[n], ls, t, n) BY <1>1, <2>3, <2>6, <2>8, CutsMakePacket
    <2> QED BY <1>1, <2>2, <2>3, <2>7, <2>9, LinesPacket
  <1> QED BY <1>3, <1>4
-----------------------------------------------------------------------------
(* The two users. *)

\* The parts of the invariant.  A file makes no packet until it was read as a whole; in a
\* Matroska track some line begins when the packets end, or later, and none comes before it.
Inv ==
  /\ source \in {"file", "matroska"} /\ finished \in BOOLEAN
  /\ num_lines_input \in Nat /\ packets \in Seq(Packet)
  /\ Holds(lines, given, last_end_time)
  /\ \A l \in given : l.num < num_lines_input
  /\ last_end_time = Timeline!UpTo
  /\ source = "file" /\ ~finished => packets = <<>>
  /\ ~finished => packets = <<>> \/ \E o \in given : last_end_time <= o.begin

\* The invariant holds at first.
LEMMA InitInv == Init => Inv
  <1> SUFFICES ASSUME Init PROVE Inv OBVIOUS
  <1>1. /\ source \in {"file", "matroska"} /\ lines = <<>> /\ finished = FALSE /\ last_end_time = 0
        /\ num_lines_input = 0 /\ given = {} /\ packets = <<>>
    BY DEF Init
  <1>2. \A x : x \notin ToSet(<<>>) BY ToSetIs
  <1>3. ToSet(lines) = {l \in given : l.end > last_end_time} BY <1>1, <1>2
  <1>4. Sorted(lines) BY <1>1 DEF Sorted
  <1>5. lines \in Seq(Line) /\ packets \in Seq(Packet) BY <1>1
  <1>6. Holds(lines, given, last_end_time) BY <1>1, <1>3, <1>4, <1>5 DEF Holds
  <1> QED BY <1>1, <1>5, <1>6 DEF Inv, Timeline!UpTo

\* A packet is taken from lines that hold what was given.
LEMMA TakeKeeps ==
  ASSUME Inv, NEW ls, Holds(ls, given', last_end_time), Take(ls)
  PROVE  /\ packets' \in Seq(Packet)
         /\ Holds(lines', given', last_end_time')
         /\ last_end_time' = Timeline!UpTo'
         /\ \/ packets' = packets /\ last_end_time' = last_end_time
            \/ Timeline!Show /\ (finished \/ \E o \in given' : last_end_time' <= o.begin)
  <1>1. packets \in Seq(Packet) /\ last_end_time = Timeline!UpTo BY DEF Inv
  <1>2. PICK p : p = getSerializedPacket(ls, finished, last_end_time) OBVIOUS
  <1>3. CASE p = NoPacket
    <2>1. lines' = ls /\ last_end_time' = last_end_time /\ packets' = packets BY <1>2, <1>3 DEF Take
    <2>2. Timeline!UpTo' = Timeline!UpTo BY <2>1 DEF Timeline!UpTo
    <2> QED BY <1>1, <2>1, <2>2
  <1>4. CASE p # NoPacket
    <2>1. lines' = LinesLeft(ls, p) /\ last_end_time' = p.end /\ packets' = Append(packets, p)
      BY <1>2, <1>4 DEF Take
    <2>2. Made(p, ls, given', last_end_time, finished) BY <1>2, <1>4, PacketIsMade
    <2>3. /\ p \in Packet /\ p.begin = last_end_time /\ last_end_time < p.end
          /\ Timeline!Shows(p, given')
          /\ Holds(lines', given', p.end)
          /\ finished \/ \E o \in given' : p.end <= o.begin
      BY <2>1, <2>2 DEF Made
    <2>4. PICK n \in Nat : n = Len(packets) BY <1>1
    <2>5. packets' \in Seq(Packet) /\ Len(packets') = n + 1 /\ packets'[n + 1] = p
      BY <1>1, <2>1, <2>3, <2>4, AppendProperties
    <2>6. packets' # <<>> /\ packets'[Len(packets')] = p
      <3>1. Len(packets') # 0 BY <2>4, <2>5
      <3>2. Len(<<>>) = 0 OBVIOUS
      <3> QED BY <2>5, <3>1, <3>2
    <2>7. Timeline!UpTo' = p.end BY <2>6 DEF Timeline!UpTo
    <2>8. Timeline!Show BY <1>1, <2>1, <2>3, <2>6 DEF Timeline!Show
    <2> QED BY <2>1, <2>3, <2>5, <2>7, <2>8
  <1> QED BY <1>3, <1>4

\* What a line needs for it to be given.
LEMMA GiveKeeps ==
  ASSUME Inv, NEW l \in Line, l.num = num_lines_input, Given(l), l.begin >= last_end_time
  PROVE  /\ Holds(addLine(lines, l), given', last_end_time)
         /\ num_lines_input' \in Nat /\ \A o \in given' : o.num < num_lines_input'
         /\ Timeline!Give
  <1>1. /\ Holds(lines, given, last_end_time) /\ num_lines_input \in Nat
        /\ \A o \in given : o.num < num_lines_input /\ last_end_time = Timeline!UpTo
    BY DEF Inv
  <1>2. last_end_time = Timeline!UpTo BY DEF Inv
  <1>3. given \subseteq Line BY <1>1 DEF Holds
  <1>4. l.num \in Nat /\ l.begin \in Nat /\ l.end \in Nat /\ \A o \in given : o.num \in Nat
    BY <1>3 DEF Line
  <1>5. CASE l.begin < l.end
    <2>1. num_lines_input' = num_lines_input + 1 /\ given' = given \cup {l} BY <1>5 DEF Given
    <2>2. Holds(addLine(lines, l), given', last_end_time)
      <3>1. \A o \in given : o.num < l.num BY <1>1
      <3> QED BY <1>1, <1>5, <2>1, <3>1, AddKeeps
    <2>3. \A o \in given' : o.num < num_lines_input'
      <3>1. l.num < num_lines_input + 1 BY <1>1
      <3>2. \A o \in given : o.num < num_lines_input + 1 BY <1>1, <1>4
      <3> QED BY <2>1, <3>1, <3>2
    <2>4. Timeline!Give BY <1>2, <2>1 DEF Timeline!Give
    <2> QED BY <1>1, <2>1, <2>2, <2>3, <2>4
  <1>6. CASE ~(l.begin < l.end)
    <2>1. num_lines_input' = num_lines_input /\ given' = given BY <1>6 DEF Given
    <2>2. addLine(lines, l) = lines BY <1>4, <1>6 DEF addLine
    <2>3. Timeline!Give BY <2>1 DEF Timeline!Give
    <2> QED BY <1>1, <2>1, <2>2, <2>3
  <1> QED BY <1>5, <1>6

\* A step of the timeline, or none.
Shown == Timeline!Next \/ UNCHANGED Timeline!vars

\* LoadLine, whose lines may begin anywhere as no packet is made.
LEMMA LoadLineKeeps ==
  ASSUME Inv, NEW begin \in Times, NEW end \in Times, LoadLine(begin, end)
  PROVE  Inv' /\ Shown
  <1>1. PICK l : l = [num |-> num_lines_input, begin |-> begin, end |-> end] OBVIOUS
  <1>2. /\ source = "file" /\ ~finished /\ lines' = addLine(lines, l) /\ Given(l)
        /\ source' = source /\ finished' = finished
        /\ last_end_time' = last_end_time /\ packets' = packets
    BY <1>1 DEF LoadLine
  <1>3. begin \in Nat /\ end \in Nat BY BoundsAssumption DEF Times
  <1>4. num_lines_input \in Nat /\ packets = <<>> /\ last_end_time = 0
    BY <1>2 DEF Inv, Timeline!UpTo
  <1>5. l \in Line /\ l.num = num_lines_input /\ l.begin = begin BY <1>1, <1>3, <1>4 DEF Line
  <1>6. /\ Holds(lines', given', last_end_time)
        /\ num_lines_input' \in Nat /\ \A o \in given' : o.num < num_lines_input'
        /\ Timeline!Give
    BY <1>2, <1>3, <1>4, <1>5, GiveKeeps
  <1>7. Timeline!UpTo' = Timeline!UpTo BY <1>2 DEF Timeline!UpTo
  <1>8. Inv' BY <1>2, <1>4, <1>6, <1>7 DEF Inv
  <1> QED BY <1>2, <1>6, <1>8 DEF Shown, Timeline!Next

\* AddFrame, whose line begins no earlier than the packets end.
LEMMA AddFrameKeeps ==
  ASSUME Inv, NEW pts \in Times, NEW duration \in 0 .. MaxTime - pts, AddFrame(pts, duration)
  PROVE  Inv' /\ Shown
  <1>1. PICK l : l = [num |-> num_lines_input, begin |-> pts, end |-> pts + duration] OBVIOUS
  <1>2. PICK ls : ls = IF duration > 0 THEN addLine(lines, l) ELSE lines OBVIOUS
  <1>3. /\ source = "matroska" /\ ~finished /\ Given(l) /\ Take(ls)
        /\ \A o \in given : o.begin <= pts
        /\ source' = source /\ finished' = finished
    BY <1>1, <1>2 DEF AddFrame
  <1>4. pts \in Nat /\ duration \in Nat /\ pts + duration \in Nat BY BoundsAssumption DEF Times
  <1>5. num_lines_input \in Nat BY DEF Inv
  <1>6. l \in Line /\ l.num = num_lines_input /\ l.begin = pts /\ l.end = pts + duration
    BY <1>1, <1>4, <1>5 DEF Line
  <1>7. pts >= last_end_time
    <2>1. packets = <<>> \/ \E o \in given : last_end_time <= o.begin BY <1>3 DEF Inv
    <2>2. CASE packets = <<>>
      <3>1. last_end_time = 0 BY <2>2 DEF Inv, Timeline!UpTo
      <3> QED BY <1>4, <3>1
    <2>3. CASE \E o \in given : last_end_time <= o.begin
      <3>1. PICK o \in given : last_end_time <= o.begin BY <2>3
      <3>2. o.begin <= pts BY <1>3
      <3>3. last_end_time \in Nat /\ o \in Line BY DEF Inv, Holds
      <3>4. o.begin \in Nat BY <3>3 DEF Line
      <3> QED BY <1>4, <3>1, <3>2, <3>3, <3>4
    <2> QED BY <2>1, <2>2, <2>3
  <1>8. /\ Holds(addLine(lines, l), given', last_end_time)
        /\ num_lines_input' \in Nat /\ \A o \in given' : o.num < num_lines_input'
        /\ Timeline!Give
    BY <1>3, <1>6, <1>7, GiveKeeps
  <1>9. ls = addLine(lines, l)
    <2>1. CASE duration > 0 BY <1>2, <2>1
    <2>2. CASE ~(duration > 0)
      <3>1. l.begin >= l.end BY <1>4, <1>6, <2>2
      <3> QED BY <1>2, <2>2, <3>1 DEF addLine
    <2> QED BY <2>1, <2>2
  <1>10. /\ packets' \in Seq(Packet)
         /\ Holds(lines', given', last_end_time')
         /\ last_end_time' = Timeline!UpTo'
         /\ \/ packets' = packets /\ last_end_time' = last_end_time
            \/ Timeline!Show /\ (finished \/ \E o \in given' : last_end_time' <= o.begin)
    BY <1>3, <1>8, <1>9, TakeKeeps
  <1>11. given \subseteq given' BY <1>8 DEF Timeline!Give
  <1>12. packets' = <<>> \/ \E o \in given' : last_end_time' <= o.begin
    <2>1. packets = <<>> \/ \E o \in given : last_end_time <= o.begin BY <1>3 DEF Inv
    <2> QED BY <1>3, <1>10, <1>11, <2>1
  <1>13. Inv' BY <1>3, <1>8, <1>10, <1>12 DEF Inv
  <1>14. Timeline!Next BY <1>8, <1>10 DEF Timeline!Next
  <1> QED BY <1>13, <1>14 DEF Shown

\* setFinished.
LEMMA FinishedKeeps == ASSUME Inv, setFinished PROVE Inv' /\ Shown
  <1>1. /\ finished' = TRUE /\ source' = source /\ lines' = lines /\ last_end_time' = last_end_time
        /\ num_lines_input' = num_lines_input /\ given' = given /\ packets' = packets
    BY DEF setFinished
  <1>2. Timeline!UpTo' = Timeline!UpTo BY <1>1 DEF Timeline!UpTo
  <1>3. Inv' BY <1>1, <1>2 DEF Inv
  <1> QED BY <1>1, <1>3 DEF Shown, Timeline!vars

\* TakeRest.
LEMMA TakeRestKeeps == ASSUME Inv, TakeRest PROVE Inv' /\ Shown
  <1>1. /\ finished /\ Take(lines) /\ source' = source /\ finished' = finished
        /\ num_lines_input' = num_lines_input /\ given' = given
    BY DEF TakeRest
  <1>2. Holds(lines, given', last_end_time) BY <1>1 DEF Inv
  <1>3. /\ packets' \in Seq(Packet)
        /\ Holds(lines', given', last_end_time')
        /\ last_end_time' = Timeline!UpTo'
        /\ \/ packets' = packets /\ last_end_time' = last_end_time
           \/ Timeline!Show /\ (finished \/ \E o \in given' : last_end_time' <= o.begin)
    BY <1>1, <1>2, TakeKeeps
  <1>4. Inv' BY <1>1, <1>3 DEF Inv
  <1>5. Timeline!Give BY <1>1 DEF Timeline!Give
  <1> QED BY <1>3, <1>4, <1>5 DEF Shown, Timeline!Next

\* Every step keeps the invariant, and is a step of the timeline or none.
LEMMA NextInv == Inv /\ [Next]_vars => Inv' /\ Shown
  <1> SUFFICES ASSUME Inv, [Next]_vars PROVE Inv' /\ Shown OBVIOUS
  <1>1. ASSUME NEW begin \in Times, NEW end \in Times, LoadLine(begin, end) PROVE Inv' /\ Shown
    BY <1>1, LoadLineKeeps
  <1>2. ASSUME NEW pts \in Times, NEW duration \in 0 .. MaxTime - pts, AddFrame(pts, duration)
        PROVE  Inv' /\ Shown
    BY <1>2, AddFrameKeeps
  <1>3. CASE setFinished BY <1>3, FinishedKeeps
  <1>4. CASE TakeRest BY <1>4, TakeRestKeeps
  <1>5. CASE UNCHANGED vars
    <2>1. /\ finished' = finished /\ source' = source /\ lines' = lines /\ last_end_time' = last_end_time
          /\ num_lines_input' = num_lines_input /\ given' = given /\ packets' = packets
      BY <1>5 DEF vars
    <2>2. Timeline!UpTo' = Timeline!UpTo BY <2>1 DEF Timeline!UpTo
    <2>3. Inv' BY <2>1, <2>2 DEF Inv
    <2> QED BY <2>1, <2>3 DEF Shown, Timeline!vars
  <1> QED BY <1>1, <1>2, <1>3, <1>4, <1>5 DEF Next

(* LinesInOrder: the array keeps the order of SubImport.h, by beginning and  *)
(* then by insertion, and holds exactly the lines given that end later than  *)
(* the packets made reach, whatever the lines and their times.               *)
THEOREM LinesStayInOrder == Spec => []LinesInOrder
  <1>1. Inv => LinesInOrder
    <2> SUFFICES ASSUME Inv PROVE LinesInOrder OBVIOUS
    <2>1. Holds(lines, given, last_end_time) BY DEF Inv
    <2>2. ToSet(lines) = {l \in given : l.end > last_end_time} BY <2>1 DEF Holds
    <2>3. \A i \in 2 .. Len(lines) : Before(lines[i - 1], lines[i])
      <3> TAKE i \in 2 .. Len(lines)
      <3>1. i - 1 \in 1 .. Len(lines) /\ i \in 1 .. Len(lines) /\ i - 1 < i BY <2>1 DEF Holds
      <3> QED BY <2>1, <3>1 DEF Holds, Sorted
    <2> QED BY <2>2, <2>3 DEF LinesInOrder, Before
  <1> QED BY <1>1, InitInv, NextInv, PTL DEF Spec

(* ImplementsTimeline: whatever lines a file or a Matroska track has, and    *)
(* however long it is, the packets of getSerializedPacket follow each other  *)
(* without a gap or an overlap, and each is made of exactly the lines to be  *)
(* seen at any time of it, in their order.                                   *)
THEOREM PacketsAreTimeline == Spec => ImplementsTimeline
  <1>1. Init => Timeline!Init BY DEF Init, Timeline!Init
  <1> QED BY <1>1, InitInv, NextInv, PTL DEF Spec, ImplementsTimeline, Timeline!Spec, Shown
=============================================================================
