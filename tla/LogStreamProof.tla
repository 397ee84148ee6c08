--------------------------- MODULE LogStreamProof ---------------------------
(***************************************************************************)
(* Proofs about the log of a session, for every number of lines, streams   *)
(* and rows, every size of the backfill, of the channel, of the buffers    *)
(* and of the page, and both ways to read the file.                        *)
(***************************************************************************)
EXTENDS LogStream, TLAPS, FiniteSetTheorems, SequenceTheorems, WellFoundedInduction

-----------------------------------------------------------------------------
(***************************************************************************)
(* The inductive invariant. A line has one way: it waits in the tail, then *)
(* in the channel, then it is sent. What is sent is below what is in the   *)
(* channel, that is below what the tail holds, and all of it is below the  *)
(* place in the file where the tail reads next.                            *)
(***************************************************************************)
Items(s) == {s[i] : i \in DOMAIN s}
Text   == Chat \cup {OldLine}
Paths  == {"none", "old", "own"}
Units  == 0 .. 3 * MaxLines
Tails  == [at : Stages, path : Paths, off : 0 .. 3 * MaxLines + 1, mark : Units, pend : Seq(Text)]
Queues == {q \in Seq(Rows) : Len(q) <= WireCap}

SrcTypes ==
    /\ plan \in Plans /\ reader \in Readers
    /\ file \in [made : BOOLEAN, first : 1 .. MaxLines + 1, size : Units]
    /\ 3 * (file.first - 1) + file.size <= 3 * MaxLines

AgentTypes ==
    /\ known \in BOOLEAN /\ n \in 0 .. MaxStreams
    /\ tail \in [Streams -> Tails] /\ ch \in [Streams -> Seq(Text)]
    /\ \A e \in Streams : Len(ch[e]) <= ChanCap
    /\ fwd \in [Streams -> {"none", "on", "cancelled", "off"}]
    /\ seq \in [Streams -> Nat]
    /\ torn \subseteq Streams /\ skipped \subseteq Lines

NetTypes ==
    /\ link \in BOOLEAN /\ lost \in BOOLEAN
    /\ wire \in [cur : Queues, old : Queues]

OneEach(R) == \A r, q \in R : r.seq = q.seq => r = q

DashTypes ==
    /\ heard \subseteq Rows /\ IsFiniteSet(heard) /\ rows \subseteq heard /\ absent \subseteq heard
    /\ dash \in {"closed", "open", "live"} /\ gap \in BOOLEAN
    /\ inbox \in Seq(heard) /\ Len(inbox) <= InboxCap
    /\ page \in [at : {"unasked", "read", "applied"}, rows : SUBSET heard]
    /\ logs \subseteq heard /\ Cardinality(logs) <= MaxLogs
    /\ OneEach(page.rows) /\ OneEach(logs)

Types == SrcTypes /\ AgentTypes /\ NetTypes /\ DashTypes

Flight   == Items(wire.cur) \cup Items(wire.old)
Sent(e)  == {r \in heard \cup Flight : r.stream = e}

Ascends(s)  == \A i, j \in DOMAIN s : i < j => s[i] < s[j]
Below(S, T) == \A x \in S, y \in T : x < y
LinesOf(R)  == {r.line : r \in R}

\* Line l is not in what the tail of stream e reads from now on.
Behind(e, l) ==
    \/ l < file.first
    \/ /\ tail[e].path = "own"
       /\ IF tail[e].at = "fill" /\ reader = "complete"
          THEN 3 * (l - file.first) < file.size
          ELSE 3 * (l - file.first) < tail[e].off /\ tail[e].off <= file.size

\* The channel continues what is sent, the tail continues the channel.
ChanInv(e) == Ascends(ch[e]) /\ Below(LinesOf(Sent(e)), Items(ch[e]))
TailInv(e) ==
    /\ Ascends(tail[e].pend)
    /\ Below(LinesOf(Sent(e)) \cup Items(ch[e]), Items(tail[e].pend))
    /\ \A l \in LinesOf(Sent(e)) \cup Items(ch[e]) \cup Items(tail[e].pend) : Behind(e, l)

NumberInv(e) == InOrder(Sent(e)) /\ \A r \in Sent(e) : r.seq <= seq[e]

StreamInv(e) == NumberInv(e) /\ ChanInv(e) /\ (fwd[e] = "on" => TailInv(e))

OrderInv == \A e \in Streams \ torn : StreamInv(e)

\* A stream that has not started has left nothing; a tail that is not sending
\* holds nothing.
StageOK(e) ==
    /\ e > n => fwd[e] = "none"
    /\ fwd[e] = "none" \/ (fwd[e] = "on" /\ tail[e].at = "backfill")
          => ch[e] = <<>> /\ Sent(e) = {}
    /\ tail[e].at \in {"read", "emit"} => tail[e].path = "own"
    /\ tail[e].at \notin {"fill", "emit"} => tail[e].pend = <<>>

StageInv == \A e \in Streams : StageOK(e)

\* How far the tail of stream 1 has come: to the end of the text it sends, to
\* its offset. The offset of the scanner is at the end of a line.
Reached(l) ==
    IF tail[1].at = "fill"
    THEN 3 * (l - 1) + 2 <= tail[1].mark
    ELSE tail[1].at \in {"wait", "read", "emit"} /\ 3 * (l - 1) < tail[1].off

\* Every line it has reached is somewhere.
FileInv ==
    n = 1 /\ ~Damaged /\ fwd[1] = "on" /\ tail[1].path = "own" =>
        /\ \A l \in Chat : Reached(l) =>
              l \in skipped \cup LinesOf(Sent(1)) \cup Items(ch[1]) \cup Items(tail[1].pend)
        /\ reader = "scanner" => tail[1].off % 3 = 0
        /\ reader = "scanner" /\ tail[1].at = "fill" => tail[1].mark = tail[1].off

\* Every row is on the screen, or on its way to it, or was not in the store when
\* the page was read. Rows leave the store and lines do not leave heard: it is
\* what the server has read that is bounded by the page and that has one row for
\* each number.
ScreenInv ==
    /\ dash = "closed" => page.at = "unasked"
    /\ page.at # "read" => page.rows = {}
    /\ dash # "live" => inbox = <<>>
    /\ n <= 1 /\ ~Damaged /\ ~gap /\ Cardinality(heard) <= PageLimit /\ page.at # "unasked" =>
          heard \subseteq logs \cup page.rows \cup Items(inbox) \cup absent

IInv == Types /\ StageInv /\ OrderInv /\ FileInv /\ ScreenInv

-----------------------------------------------------------------------------
(***************************************************************************)
(* The constants.                                                          *)
(***************************************************************************)
LEMMA Bounds ==
    /\ MaxLines \in Nat
    /\ Backfill \in Nat \ {0} /\ ChanCap \in Nat \ {0} /\ WireCap \in Nat \ {0}
    /\ InboxCap \in Nat \ {0} /\ PageLimit \in Nat \ {0} /\ MaxLogs \in Nat \ {0}
    /\ MaxStreams \in Nat \ {0} /\ PageLimit <= MaxLogs
  BY LogStreamAssumption

\* Lines are numbers, and there are finitely many.
LEMMA TextFacts ==
    /\ Chat \subseteq Lines /\ Chat \subseteq Text /\ Text \subseteq Nat /\ OldLine \in Text
    /\ Text \subseteq Lines \cup {OldLine} /\ \A l \in Lines : l \in Nat /\ 1 <= l /\ l <= MaxLines
  BY LogStreamAssumption DEF Text, OldLine, Lines

LEMMA ChatFinite == \A S \in SUBSET Chat : IsFiniteSet(S)
<1>1. IsFiniteSet(Lines)
  BY Bounds, FS_Interval DEF Lines
<1> QED
  BY <1>1, TextFacts, FS_Subset

-----------------------------------------------------------------------------
(***************************************************************************)
(* Sequences.                                                              *)
(***************************************************************************)
LEMMA EmptyFacts ==
    /\ Items(<<>>) = {} /\ Ascends(<<>>) /\ Len(<<>>) = 0 /\ \A S : <<>> \in Seq(S)
  BY DEF Items, Ascends

LEMMA AppendFacts ==
    ASSUME NEW S, NEW q \in Seq(S), NEW e \in S
    PROVE  /\ Append(q, e) \in Seq(S) /\ Len(q) \in Nat /\ Len(Append(q, e)) = Len(q) + 1
           /\ Items(Append(q, e)) = Items(q) \cup {e}
<1>1. /\ Append(q, e) \in Seq(S) /\ Len(q) \in Nat /\ Len(Append(q, e)) = Len(q) + 1
      /\ DOMAIN q = 1 .. Len(q) /\ DOMAIN Append(q, e) = 1 .. (Len(q) + 1)
      /\ Append(q, e)[Len(q) + 1] = e
      /\ \A i \in 1 .. Len(q) : Append(q, e)[i] = q[i]
  OBVIOUS
<1>2. ASSUME NEW i \in DOMAIN Append(q, e) PROVE Append(q, e)[i] \in Items(q) \cup {e}
  BY <1>1 DEF Items
<1>3. ASSUME NEW i \in DOMAIN q PROVE q[i] \in Items(Append(q, e))
  BY <1>1 DEF Items
<1>4. e \in Items(Append(q, e))
  BY <1>1 DEF Items
<1> QED
  BY <1>1, <1>2, <1>3, <1>4 DEF Items

LEMMA AscendsAppend ==
    ASSUME NEW q \in Seq(Text), Ascends(q), NEW e \in Text, \A x \in Items(q) : x < e
    PROVE  Ascends(Append(q, e))
<1>1. /\ Len(q) \in Nat /\ DOMAIN q = 1 .. Len(q) /\ DOMAIN Append(q, e) = 1 .. (Len(q) + 1)
      /\ Append(q, e)[Len(q) + 1] = e
      /\ \A i \in 1 .. Len(q) : Append(q, e)[i] = q[i] /\ q[i] \in Items(q)
  BY DEF Items
<1> QED
  BY <1>1 DEF Ascends

LEMMA TailFacts ==
    ASSUME NEW S, NEW q \in Seq(S), q # <<>>
    PROVE  /\ Tail(q) \in Seq(S) /\ Head(q) \in S
           /\ Len(q) \in Nat \ {0} /\ Len(Tail(q)) = Len(q) - 1
           /\ Items(q) = {Head(q)} \cup Items(Tail(q))
<1>1. /\ Tail(q) \in Seq(S) /\ Len(q) \in Nat \ {0} /\ Len(Tail(q)) = Len(q) - 1
      /\ DOMAIN q = 1 .. Len(q) /\ DOMAIN Tail(q) = 1 .. (Len(q) - 1)
      /\ Head(q) = q[1] /\ Head(q) \in S
      /\ \A i \in 1 .. (Len(q) - 1) : Tail(q)[i] = q[i + 1]
  OBVIOUS
<1>2. ASSUME NEW i \in DOMAIN q PROVE q[i] \in {Head(q)} \cup Items(Tail(q))
  <2>1. CASE i = 1
    BY <1>1, <2>1
  <2>2. CASE i # 1
    <3>1. i - 1 \in 1 .. (Len(q) - 1) /\ (i - 1) + 1 = i
      BY <1>1, <2>2
    <3>2. Tail(q)[i - 1] = q[i] /\ i - 1 \in DOMAIN Tail(q)
      BY <1>1, <3>1
    <3> QED
      BY <3>2 DEF Items
  <2> QED
    BY <2>1, <2>2
<1>3. ASSUME NEW i \in DOMAIN Tail(q) PROVE Tail(q)[i] \in Items(q)
  <2>1. i + 1 \in DOMAIN q /\ Tail(q)[i] = q[i + 1]
    BY <1>1
  <2> QED
    BY <2>1 DEF Items
<1>4. Head(q) \in Items(q)
  BY <1>1 DEF Items
<1> QED
  BY <1>1, <1>2, <1>3, <1>4 DEF Items

LEMMA AscendsTail ==
    ASSUME NEW q \in Seq(Text), q # <<>>, Ascends(q)
    PROVE  Ascends(Tail(q)) /\ \A x \in Items(Tail(q)) : Head(q) < x
<1>1. /\ Len(q) \in Nat \ {0} /\ DOMAIN q = 1 .. Len(q) /\ DOMAIN Tail(q) = 1 .. (Len(q) - 1)
      /\ Head(q) = q[1]
      /\ \A i \in 1 .. (Len(q) - 1) : Tail(q)[i] = q[i + 1]
  OBVIOUS
<1>2. \A i \in DOMAIN Tail(q) : i + 1 \in DOMAIN q /\ 1 \in DOMAIN q /\ 1 < i + 1
  BY <1>1
<1>3. \A i, j \in DOMAIN Tail(q) : i < j => i + 1 < j + 1
  BY <1>1
<1>4. Ascends(Tail(q))
  BY <1>1, <1>2, <1>3 DEF Ascends
<1>5. \A i \in DOMAIN Tail(q) : Head(q) < Tail(q)[i]
  BY <1>1, <1>2 DEF Ascends
<1> QED
  BY <1>4, <1>5 DEF Items

LEMMA PrefixFacts ==
    ASSUME NEW S, NEW q \in Seq(S), NEW k \in 0 .. Len(q)
    PROVE  /\ SubSeq(q, 1, k) \in Seq(S) /\ Len(SubSeq(q, 1, k)) = k
           /\ Items(SubSeq(q, 1, k)) \subseteq Items(q)
           /\ k = Len(q) => Items(SubSeq(q, 1, k)) = Items(q)
<1>1. /\ SubSeq(q, 1, k) \in Seq(S) /\ Len(SubSeq(q, 1, k)) = k
      /\ DOMAIN q = 1 .. Len(q) /\ DOMAIN SubSeq(q, 1, k) = 1 .. k
      /\ \A i \in 1 .. k : SubSeq(q, 1, k)[i] = q[i]
  OBVIOUS
<1>2. \A i \in DOMAIN SubSeq(q, 1, k) : i \in DOMAIN q /\ SubSeq(q, 1, k)[i] = q[i]
  BY <1>1
<1>3. k = Len(q) => \A i \in DOMAIN q : i \in DOMAIN SubSeq(q, 1, k) /\ SubSeq(q, 1, k)[i] = q[i]
  BY <1>1
<1> QED
  BY <1>1, <1>2, <1>3 DEF Items

\* The last k elements: d elements are left out.
LEMMA LastNFacts ==
    ASSUME NEW S, NEW q \in Seq(S), NEW k \in Nat \ {0}
    PROVE  \E d \in Nat : /\ d <= Len(q) /\ (d = 0 \/ Len(q) - d = k)
                          /\ LastN(q, k) \in Seq(S) /\ DOMAIN LastN(q, k) = 1 .. (Len(q) - d)
                          /\ \A i \in 1 .. (Len(q) - d) : LastN(q, k)[i] = q[i + d]
<1>1. PICK m \in Nat : m = Len(q)
  OBVIOUS
<1>2. PICK d \in Nat : IF m > k THEN d = m - k ELSE d = 0
  <2>1. CASE m > k
    <3>1. m - k \in Nat
      BY <2>1
    <3> QED
      BY <2>1, <3>1
  <2>2. CASE ~(m > k)
    BY <2>2
  <2> QED
    BY <2>1, <2>2
<1>3. d <= m /\ (d = 0 \/ m - d = k) /\ d + 1 = IF m > k THEN m - k + 1 ELSE 1
  BY <1>2
<1>4. LastN(q, k) = SubSeq(q, d + 1, m)
  BY <1>1, <1>3 DEF LastN
<1>5. /\ SubSeq(q, d + 1, m) \in Seq(S) /\ Len(SubSeq(q, d + 1, m)) = m - d
      /\ \A i \in 1 .. (m - d) : SubSeq(q, d + 1, m)[i] = q[i + d]
  <2>1. \A i \in d + 1 .. m : q[i] \in S
    BY <1>1
  <2>2. d + 1 \in Int /\ m \in Int
    OBVIOUS
  <2>3. /\ SubSeq(q, d + 1, m) \in Seq(S)
        /\ Len(SubSeq(q, d + 1, m)) = IF d + 1 <= m THEN m - (d + 1) + 1 ELSE 0
        /\ \A i \in 1 .. m - (d + 1) + 1 : SubSeq(q, d + 1, m)[i] = q[(d + 1) + i - 1]
    BY <2>1, <2>2, SubSeqProperties
  <2>4. m - (d + 1) + 1 = m - d /\ (d + 1 <= m \/ m - d = 0)
    BY <1>3
  <2>5. \A i \in 1 .. (m - d) : (d + 1) + i - 1 = i + d
    OBVIOUS
  <2> QED
    BY <2>3, <2>4, <2>5
<1>6. DOMAIN SubSeq(q, d + 1, m) = 1 .. (m - d)
  BY <1>5
<1> QED
  BY <1>1, <1>3, <1>4, <1>5, <1>6

-----------------------------------------------------------------------------
(***************************************************************************)
(* Ascending sequences.                                                    *)
(***************************************************************************)

\* A set of numbers has a least one.
LEMMA Least ==
    ASSUME NEW T \in SUBSET Nat, T # {}
    PROVE  \E x \in T : \A y \in T : x <= y
<1>1. PICK x \in T : \A y \in T : ~(<<y, x>> \in OpToRel(<, Nat))
  BY NatLessThanWellFounded, WFMin
<1>2. \A y \in T : ~(y < x)
  BY <1>1 DEF OpToRel
<1> QED
  BY <1>2

\* An ascending sequence of lines grows by one or more at every place.
LEMMA Grows ==
    ASSUME NEW q \in Seq(Text), Ascends(q), NEW i \in DOMAIN q, NEW d \in Nat, i + d \in DOMAIN q
    PROVE  q[i] + d <= q[i + d]
<1>1. DOMAIN q = 1 .. Len(q) /\ Len(q) \in Nat /\ \A k \in DOMAIN q : q[k] \in Nat
  <2>1. DOMAIN q = 1 .. Len(q) /\ Len(q) \in Nat /\ \A k \in DOMAIN q : q[k] \in Text
    OBVIOUS
  <2>2. \A x \in Text : x \in Nat
    BY TextFacts
  <2> QED
    BY <2>1, <2>2
<1> DEFINE T == {c \in Nat : i + c \in DOMAIN q /\ ~(q[i] + c <= q[i + c])}
<1>2. SUFFICES ASSUME T # {} PROVE FALSE
  OBVIOUS
<1>3. PICK c \in T : \A b \in T : c <= b
  BY <1>2, Least
<1>4. c # 0
  <2>1. i \in Nat /\ q[i] \in Nat
    BY <1>1
  <2>2. i + 0 = i /\ q[i] + 0 <= q[i]
    BY <2>1
  <2>3. ~(q[i] + c <= q[i + c])
    BY <1>3
  <2> QED
    BY <2>2, <2>3
<1>5. c - 1 \in Nat /\ i + (c - 1) \in DOMAIN q /\ i + (c - 1) < i + c
  <2>1. c \in Nat /\ i + c \in DOMAIN q
    BY <1>3
  <2> QED
    BY <1>1, <1>4, <2>1
<1>6. q[i] + (c - 1) <= q[i + (c - 1)]
  BY <1>3, <1>5
<1>7. q[i + (c - 1)] < q[i + c]
  BY <1>5, <1>3 DEF Ascends
<1> HIDE DEF T
<1>8. q[i] \in Nat /\ q[i + (c - 1)] \in Nat /\ q[i + c] \in Nat /\ c \in Nat
  BY <1>1, <1>3, <1>5 DEF T
<1>9. q[i] + c <= q[i + c]
  <2>1. \A a, b, x, y \in Nat : x >= 1 /\ a + (x - 1) <= b /\ b < y => a + x <= y
    OBVIOUS
  <2>2. c >= 1
    BY <1>4, <1>8
  <2> QED
    BY <1>6, <1>7, <1>8, <2>1, <2>2
<1> QED
  BY <1>3, <1>9 DEF T

\* It has each line once.
LEMMA AscendingFacts ==
    ASSUME NEW S \in SUBSET Chat, NEW s \in Ascending(S)
    PROVE  s \in Seq(Text) /\ Ascends(s) /\ Items(s) = S
<1>1. IsFiniteSet(S)
  BY ChatFinite
<1>2. PICK k \in Nat : k = Cardinality(S)
  BY <1>1, FS_CardinalityType
<1>3. s \in [1 .. k -> S] /\ \A i, j \in 1 .. k : i < j => s[i] < s[j]
  BY <1>2 DEF Ascending
<1>4. s \in Seq(Text)
  <2>1. \A x \in S : x \in Text
    BY TextFacts
  <2>2. s \in [1 .. k -> Text]
    BY <1>3, <2>1
  <2> QED
    BY <2>2
<1>5. \A i \in 1 .. k : s[i] \in Nat
  <2>1. \A i \in 1 .. k : s[i] \in S
    BY <1>3
  <2> QED
    BY <2>1, TextFacts
<1>6. \A i, j \in 1 .. k : s[i] = s[j] => i = j
  <2>1. \A i, j \in 1 .. k : i < j \/ j < i \/ i = j
    OBVIOUS
  <2>2. \A i, j \in 1 .. k : s[i] = s[j] => ~(s[i] < s[j]) /\ ~(s[j] < s[i])
    BY <1>5
  <2> QED
    BY <1>3, <2>1, <2>2
<1>7. s \in Injection(1 .. k, S)
  BY <1>3, <1>6 DEF Injection, IsInjective
<1>8. Cardinality(1 .. k) = k
  BY FS_Interval
<1>9. s \in Surjection(1 .. k, S)
  BY <1>1, <1>2, <1>7, <1>8, FS_Injection
<1> QED
  BY <1>3, <1>4, <1>9 DEF Surjection, Items, Ascends

-----------------------------------------------------------------------------
(***************************************************************************)
(* Reading. A line is whole when the file has its text.                    *)
(***************************************************************************)
LEMMA Thirds ==
    ASSUME NEW x \in Nat
    PROVE  \E k \in Nat, m \in 0 .. 2 : k = x \div 3 /\ m = x % 3 /\ x = 3 * k + m
<1>1. PICK k \in Int : k = x \div 3
  OBVIOUS
<1>2. PICK m \in Int : m = x % 3
  OBVIOUS
<1>3. x = 3 * k + m /\ m \in 0 .. 2
  BY <1>1, <1>2
<1>4. k \in Nat
  BY <1>3
<1> QED
  BY <1>1, <1>2, <1>3, <1>4

LEMMA FileFacts ==
    ASSUME SrcTypes
    PROVE  /\ MaxLines \in Nat /\ reader \in {"scanner", "complete"}
           /\ file.first \in Nat /\ 1 <= file.first /\ file.size \in Nat
           /\ file.size <= 3 * MaxLines /\ 3 * (file.first - 1) + file.size <= 3 * MaxLines
           /\ Started \in Nat /\ file.size <= 3 * Started /\ 3 * Started <= file.size + 2
<1>1. /\ MaxLines \in Nat /\ reader \in {"scanner", "complete"}
      /\ file.first \in Nat /\ 1 <= file.first /\ file.size \in Nat
      /\ file.size <= 3 * MaxLines /\ 3 * (file.first - 1) + file.size <= 3 * MaxLines
  BY LogStreamAssumption DEF SrcTypes, Units
<1>2. PICK x \in Nat : x = file.size + 2
  BY <1>1
<1>3. PICK k \in Nat, m \in 0 .. 2 : k = x \div 3 /\ m = x % 3 /\ x = 3 * k + m
  BY Thirds
<1>4. x <= 3 * k + 2 /\ 3 * k <= x
  BY <1>3
<1> QED
  BY <1>1, <1>2, <1>3, <1>4 DEF Started

Whole(l) == l \in Chat /\ l >= file.first /\ 3 * (l - file.first) + 2 <= file.size

LEMMA RenderedFacts ==
    ASSUME NEW from, NEW to, NEW s \in Rendered(from, to)
    PROVE  /\ s \in Seq(Text) /\ Ascends(s)
           /\ \A l : l \in Items(s) <=> /\ l \in Chat /\ l >= file.first
                                        /\ from <= 3 * (l - file.first)
                                        /\ 3 * (l - file.first) + 2 <= to
<1> DEFINE S == {l \in Chat : /\ l >= file.first
                              /\ from <= 3 * (l - file.first)
                              /\ 3 * (l - file.first) + 2 <= to}
<1>1. S \in SUBSET Chat /\ s \in Ascending(S)
  BY DEF Rendered
<1>2. \A l : l \in S <=> /\ l \in Chat /\ l >= file.first
                         /\ from <= 3 * (l - file.first)
                         /\ 3 * (l - file.first) + 2 <= to
  OBVIOUS
<1> HIDE DEF S
<1> QED
  BY <1>1, <1>2, AscendingFacts

\* The offset stays or grows; it passes the end of the file only when the
\* scanner takes an unterminated line, else it is behind all whole lines.
LEMMA ConsumedFacts ==
    ASSUME SrcTypes, NEW from \in 0 .. 3 * MaxLines + 1
    PROVE  LET end == Consumed(from, file.size)
           IN  /\ end \in 0 .. 3 * MaxLines + 1 /\ from <= end
               /\ file.size <= from => end = from
               /\ end # from => file.size > from
               /\ reader = "scanner" /\ file.size > from =>
                     end = file.size + 1 \/ (end = file.size /\ end % 3 = 0)
               /\ reader = "complete" /\ file.size > from => end <= file.size
               /\ reader = "complete" => end = from \/ end % 3 = 0
<1>1. PICK z \in Nat : z = file.size /\ z <= 3 * MaxLines
  BY FileFacts
<1>2. MaxLines \in Nat /\ reader \in {"scanner", "complete"}
  BY FileFacts
<1>3. PICK k \in Nat, m \in 0 .. 2 : k = z \div 3 /\ m = z % 3 /\ z = 3 * k + m
  BY Thirds
<1>4. (3 * k) % 3 = 0
  OBVIOUS
<1>5. CASE z <= from
  BY <1>1, <1>2, <1>5 DEF Consumed
<1>6. CASE z > from /\ reader = "scanner"
  <2>1. Consumed(from, z) = IF z % 3 = 0 THEN z ELSE z + 1
    BY <1>6 DEF Consumed, ScannerEnd
  <2> QED
    BY <1>1, <1>2, <1>6, <2>1
<1>7. CASE z > from /\ reader = "complete"
  <2>1. Consumed(from, z) = IF 3 * k > from THEN 3 * k ELSE from
    BY <1>3, <1>7 DEF Consumed, LastNewline
  <2>2. PICK y \in Nat : y = 3 * k /\ y <= z /\ y % 3 = 0
    BY <1>3, <1>4
  <2> QED
    BY <1>1, <1>2, <1>7, <2>1, <2>2
<1> QED
  BY <1>1, <1>2, <1>5, <1>6, <1>7

\* The backfill: whole lines in order; those it leaves out are before it.
LEMMA BackfillFacts ==
    ASSUME SrcTypes, NEW s \in BackfillLines
    PROVE  /\ s \in Seq(Text) /\ Ascends(s)
           /\ \A l \in Items(s) : Whole(l)
           /\ \A l : Whole(l) => l \in Items(s) \cup BeforeBackfill
<1>k. Backfill \in Nat \ {0}
  BY Bounds
<1>f. PICK f \in Nat, z \in Nat, k \in Nat :
         /\ f = file.first /\ z = file.size /\ k = Started
         /\ z <= 3 * k /\ 3 * k <= z + 2
  BY FileFacts
<1>n. \A l : l \in Chat => l \in Nat
  BY TextFacts
<1>b. ASSUME NEW l \in Chat, l >= f, l <= f + k - 1 - Backfill PROVE l \in BeforeBackfill
  BY <1>b, <1>f, <1>n, <1>k DEF BeforeBackfill
<1>1. CASE reader = "scanner"
  <2>1. PICK t \in Rendered(0, file.size) : s = LastN(t, Backfill)
    BY <1>1 DEF BackfillLines, RenderTail
  <2>2. t \in Seq(Text) /\ Ascends(t) /\ \A l : l \in Items(t) <=> Whole(l)
    <3>1. \A l : Whole(l) <=> /\ l \in Chat /\ l >= file.first
                              /\ 0 <= 3 * (l - file.first)
                              /\ 3 * (l - file.first) + 2 <= file.size
      BY <1>f, <1>n DEF Whole
    <3> QED
      BY <3>1, RenderedFacts
  <2>3. PICK d \in Nat :
           /\ d <= Len(t) /\ (d = 0 \/ Len(t) - d = Backfill)
           /\ s \in Seq(Text) /\ DOMAIN s = 1 .. (Len(t) - d)
           /\ \A i \in 1 .. (Len(t) - d) : s[i] = t[i + d]
    BY <1>k, <2>1, <2>2, LastNFacts
  <2>4. PICK m \in Nat : m = Len(t) /\ DOMAIN t = 1 .. m
    BY <2>2
  <2>c. \A i \in 1 .. (m - d) : i + d \in 1 .. m /\ i \in Nat
    OBVIOUS
  <2>d. DOMAIN s = 1 .. (m - d) /\ \A i \in 1 .. (m - d) : s[i] = t[i + d]
    BY <2>3, <2>4
  <2>5. \A i \in DOMAIN s : i + d \in DOMAIN t /\ s[i] = t[i + d]
    BY <2>4, <2>c, <2>d
  <2>6. \A i, j \in DOMAIN s : i < j => i + d < j + d
    BY <2>3, <2>4
  <2>7. Ascends(s)
    BY <2>2, <2>5, <2>6 DEF Ascends
  <2>8. \A l \in Items(s) : Whole(l)
    BY <2>2, <2>5 DEF Items
  <2>9. ASSUME NEW l, Whole(l) PROVE l \in Items(s) \cup BeforeBackfill
    <3>1. PICK i \in 1 .. m : t[i] = l
      BY <2>2, <2>4, <2>9 DEF Items
    <3>2. CASE i > d
      <4>1. i - d \in DOMAIN s /\ (i - d) + d = i
        BY <2>3, <2>4, <3>2
      <4>2. s[i - d] = l
        BY <2>5, <3>1, <4>1
      <4> QED
        BY <4>1, <4>2 DEF Items
    <3>3. CASE i <= d
      <4>1. m - i \in Nat /\ i + (m - i) = m /\ m \in DOMAIN t /\ m - i >= Backfill
        BY <1>k, <2>3, <2>4, <3>3
      <4>2. t[i] + (m - i) <= t[m]
        BY <2>2, <2>4, <4>1, Grows
      <4>3. Whole(t[m])
        BY <2>2, <4>1 DEF Items
      <4>4. l \in Nat /\ t[m] \in Nat /\ l >= f /\ l \in Chat /\ 3 * (t[m] - f) + 2 <= z /\ t[m] >= f
        BY <1>f, <1>n, <2>9, <4>3 DEF Whole
      <4>5. t[m] - f <= k - 1
        BY <1>f, <4>4
      <4>6. l <= f + k - 1 - Backfill
        BY <1>k, <3>1, <4>1, <4>2, <4>4, <4>5
      <4> QED
        BY <1>b, <4>4, <4>6
    <3> QED
      BY <3>2, <3>3
  <2> QED
    BY <2>3, <2>7, <2>8, <2>9
<1>2. CASE reader = "complete"
  <2>1. s \in Rendered(3 * (Started - Backfill), file.size)
    BY <1>2 DEF BackfillLines, TailLines
  <2>2. /\ s \in Seq(Text) /\ Ascends(s)
        /\ \A l : l \in Items(s) <=> /\ l \in Chat /\ l >= file.first
                                     /\ 3 * (Started - Backfill) <= 3 * (l - file.first)
                                     /\ 3 * (l - file.first) + 2 <= file.size
    BY <2>1, RenderedFacts
  <2>3. ASSUME NEW l, Whole(l), l \notin Items(s) PROVE l \in BeforeBackfill
    <3>1. l \in Chat /\ l \in Nat /\ l >= f /\ ~(3 * (k - Backfill) <= 3 * (l - f))
      BY <1>f, <1>n, <2>2, <2>3 DEF Whole
    <3>2. l <= f + k - 1 - Backfill
      BY <1>k, <3>1
    <3> QED
      BY <1>b, <3>1, <3>2
  <2>4. \A l \in Items(s) : Whole(l)
    BY <2>2 DEF Whole
  <2> QED
    BY <2>2, <2>3, <2>4
<1> QED
  BY <1>1, <1>2, FileFacts

-----------------------------------------------------------------------------
(***************************************************************************)
(* What the steps of a tail do.                                            *)
(***************************************************************************)
LEMMA RecordFacts ==
    ASSUME AgentTypes, NEW e \in Streams
    PROVE  /\ tail[e] \in Tails /\ tail[e].at \in Stages /\ tail[e].path \in Paths
           /\ tail[e].off \in 0 .. 3 * MaxLines + 1 /\ tail[e].mark \in Units
           /\ tail[e].pend \in Seq(Text) /\ ch[e] \in Seq(Text) /\ Len(ch[e]) <= ChanCap
<1>1. tail[e] \in Tails /\ ch[e] \in Seq(Text) /\ Len(ch[e]) <= ChanCap
  BY DEF AgentTypes
<1> QED
  BY <1>1 DEF Tails

LEMMA BackfillDoes ==
    ASSUME Types, NEW e \in Streams, TailBackfill(e)
    PROVE  \E t \in Tails :
              /\ tail' = [tail EXCEPT ![e] = t]
              /\ t.at = "fill" /\ t.path = tail[e].path /\ Ascends(t.pend)
              /\ t.path # "own" => Items(t.pend) = {OldLine}
              /\ t.path = "own" =>
                    /\ t.mark = file.size /\ \A l \in Items(t.pend) : Whole(l)
                    /\ \A l : Whole(l) => l \in Items(t.pend) \cup skipped'
              /\ t.path = "own" /\ reader = "scanner" /\ e \notin torn' =>
                    t.off = file.size /\ t.off % 3 = 0
              /\ torn \subseteq torn' /\ torn' \subseteq Streams
              /\ skipped \subseteq skipped' /\ skipped' \subseteq Lines
<1>f. PICK z \in Units : z = file.size
  BY DEF Types, SrcTypes
<1>u. z \in Nat /\ 0 \in 0 .. 3 * MaxLines + 1 /\ 0 \in Units /\ SrcTypes /\ AgentTypes
  BY <1>f, Bounds DEF Types, Units
<1>t. /\ tail[e] \in Tails /\ torn \subseteq Streams /\ skipped \subseteq Lines
  BY DEF Types, AgentTypes
<1>1. PICK off : off = IF tail[e].path = "own" /\ reader = "scanner"
                       THEN Consumed(0, file.size) ELSE 0
  OBVIOUS
<1>2. PICK s : /\ s \in IF tail[e].path = "own" THEN BackfillLines ELSE {<<OldLine>>}
               /\ tail' = [tail EXCEPT ![e] =
                     [tail[e] EXCEPT !.at = "fill", !.off = off, !.pend = s,
                                     !.mark = IF tail[e].path = "own" THEN file.size ELSE 0]]
               /\ torn' = IF off > file.size THEN torn \cup {e} ELSE torn
               /\ skipped' = IF tail[e].path = "own" THEN skipped \cup BeforeBackfill ELSE skipped
  BY <1>1 DEF TailBackfill, SetTail
<1>3. off \in 0 .. 3 * MaxLines + 1
  BY <1>1, <1>u, ConsumedFacts
<1>4. CASE tail[e].path = "own"
  <2>1. /\ s \in Seq(Text) /\ Ascends(s)
        /\ \A l \in Items(s) : Whole(l)
        /\ \A l : Whole(l) => l \in Items(s) \cup BeforeBackfill
    BY <1>2, <1>4, <1>u, BackfillFacts
  <2>2. BeforeBackfill \subseteq Lines
    BY TextFacts DEF BeforeBackfill
  <2>3. skipped' = skipped \cup BeforeBackfill
    BY <1>2, <1>4
  <2>4. ASSUME reader = "scanner", e \notin torn' PROVE off = z /\ off % 3 = 0
    <3>1. ~(off > z)
      BY <1>2, <1>f, <2>4
    <3>2. /\ z <= 0 => off = 0
          /\ z > 0 => off = z + 1 \/ (off = z /\ off % 3 = 0)
      BY <1>1, <1>4, <1>f, <1>u, <2>4, ConsumedFacts
    <3>3. 0 % 3 = 0
      OBVIOUS
    <3> QED
      BY <1>u, <3>1, <3>2, <3>3
  <2>5. PICK t : t = [tail[e] EXCEPT !.at = "fill", !.off = off, !.pend = s, !.mark = z]
    OBVIOUS
  <2>6. /\ t.at = "fill" /\ t.path = tail[e].path /\ t.off = off /\ t.pend = s /\ t.mark = z
        /\ t \in Tails
    BY <1>3, <1>f, <1>t, <2>1, <2>5 DEF Tails, Stages
  <2>7. tail' = [tail EXCEPT ![e] = t]
    BY <1>2, <1>4, <1>f, <2>5
  <2>8. torn \subseteq torn' /\ torn' \subseteq Streams
    BY <1>2, <1>t
  <2> QED
    BY <1>4, <1>f, <1>t, <2>1, <2>2, <2>3, <2>4, <2>6, <2>7, <2>8
<1>5. CASE tail[e].path # "own"
  <2>1. s = <<OldLine>> /\ off = 0 /\ skipped' = skipped
    BY <1>1, <1>2, <1>5
  <2>2. s \in Seq(Text) /\ Ascends(s) /\ Items(s) = {OldLine}
    <3>1. s \in Seq(Text) /\ DOMAIN s = {1} /\ s[1] = OldLine
      BY <2>1, TextFacts
    <3> QED
      BY <3>1 DEF Items, Ascends
  <2>3. PICK t : t = [tail[e] EXCEPT !.at = "fill", !.off = off, !.pend = s, !.mark = 0]
    OBVIOUS
  <2>4. /\ t.at = "fill" /\ t.path = tail[e].path /\ t.off = off /\ t.pend = s
        /\ t \in Tails
    BY <1>3, <1>t, <1>u, <2>2, <2>3 DEF Tails, Stages
  <2>5. tail' = [tail EXCEPT ![e] = t]
    BY <1>2, <1>5, <2>3
  <2>6. torn \subseteq torn' /\ torn' \subseteq Streams
    BY <1>2, <1>t
  <2> QED
    BY <1>5, <1>t, <2>1, <2>2, <2>4, <2>5, <2>6
<1> QED
  BY <1>4, <1>5

LEMMA EmitDoes ==
    ASSUME Types, NEW e \in Streams, TailEmit(e)
    PROVE  \E t \in Tails, x \in Text :
              /\ tail' = [tail EXCEPT ![e] = t]
              /\ t.at = tail[e].at /\ t.path = tail[e].path /\ t.off = tail[e].off
              /\ t.mark = tail[e].mark /\ t.pend = Tail(tail[e].pend)
              /\ x = Head(tail[e].pend) /\ tail[e].pend # <<>>
              /\ ch' = [ch EXCEPT ![e] = Append(ch[e], x)]
              /\ ch'[e] = Append(ch[e], x) /\ ch'[e] \in Seq(Text) /\ Len(ch'[e]) <= ChanCap
<1>t. /\ tail[e] \in Tails /\ tail[e].pend \in Seq(Text) /\ ch[e] \in Seq(Text) /\ Len(ch[e]) \in Nat
      /\ ch \in [Streams -> Seq(Text)]
  BY RecordFacts DEF Types, AgentTypes
<1>1. /\ tail' = [tail EXCEPT ![e] = [tail[e] EXCEPT !.pend = Tail(tail[e].pend)]]
      /\ ch' = [ch EXCEPT ![e] = Append(ch[e], Head(tail[e].pend))]
      /\ tail[e].pend # <<>> /\ Len(ch[e]) < ChanCap
  BY DEF TailEmit, SetTail, Types, AgentTypes, Tails
<1>2. PICK x : x = Head(tail[e].pend)
  OBVIOUS
<1>3. x \in Text /\ Tail(tail[e].pend) \in Seq(Text)
  BY <1>1, <1>2, <1>t, TailFacts
<1>4. ch'[e] = Append(ch[e], x)
  BY <1>1, <1>2, <1>t
<1>5. Append(ch[e], x) \in Seq(Text) /\ Len(Append(ch[e], x)) = Len(ch[e]) + 1
  BY <1>3, <1>t, AppendFacts
<1>6. Len(ch'[e]) <= ChanCap
  BY <1>1, <1>4, <1>5, <1>t, Bounds
<1>7. PICK t : t = [tail[e] EXCEPT !.pend = Tail(tail[e].pend)]
  OBVIOUS
<1>8. /\ t.at = tail[e].at /\ t.path = tail[e].path /\ t.off = tail[e].off
      /\ t.mark = tail[e].mark /\ t.pend = Tail(tail[e].pend) /\ t \in Tails
  BY <1>3, <1>7, <1>t DEF Tails
<1> QED
  BY <1>1, <1>2, <1>3, <1>4, <1>5, <1>6, <1>7, <1>8

LEMMA FilledDoes ==
    ASSUME Types, NEW e \in Streams, TailFilled(e)
    PROVE  \E t \in Tails :
              /\ tail' = [tail EXCEPT ![e] = t]
              /\ tail[e].at = "fill" /\ tail[e].pend = <<>>
              /\ t.at = "wait" /\ t.path = tail[e].path /\ t.pend = <<>>
              /\ IF t.path = "own" /\ reader = "complete"
                 THEN /\ t.off = file.size
                      /\ \A l \in Lines : l >= file.first /\ 3 * (l - file.first) < file.size =>
                            3 * (l - file.first) + 2 <= tail[e].mark \/ l \in skipped'
                 ELSE t.off = tail[e].off
              /\ skipped \subseteq skipped' /\ skipped' \subseteq Lines
<1>t. /\ tail[e] \in Tails /\ skipped \subseteq Lines /\ tail[e].mark \in Nat
      /\ 0 \in Units /\ file.size \in 0 .. 3 * MaxLines + 1 /\ file.first \in Nat /\ file.size \in Nat
  <2>1. tail[e] \in Tails /\ skipped \subseteq Lines /\ tail[e].mark \in Units
    BY RecordFacts DEF Types, AgentTypes
  <2>2. file.first \in Nat /\ file.size \in Nat /\ file.size <= 3 * MaxLines /\ MaxLines \in Nat
    BY FileFacts DEF Types
  <2> QED
    BY <2>1, <2>2 DEF Units
<1>l. \A l \in Lines : l \in Nat
  BY TextFacts
<1>1. PICK off : off = IF tail[e].path = "own" /\ reader = "complete" THEN file.size ELSE tail[e].off
  OBVIOUS
<1>2. off \in 0 .. 3 * MaxLines + 1
  BY <1>1, <1>t DEF Tails
<1>3. PICK t : t = [tail[e] EXCEPT !.at = "wait", !.mark = 0, !.off = off]
  OBVIOUS
<1>4. /\ tail' = [tail EXCEPT ![e] = t]
      /\ tail[e].at = "fill" /\ tail[e].pend = <<>>
  BY <1>1, <1>3, <1>t DEF TailFilled, SetTail, Tails
<1>5. /\ t.at = "wait" /\ t.path = tail[e].path /\ t.pend = <<>> /\ t.off = off /\ t \in Tails
  BY <1>2, <1>3, <1>4, <1>t DEF Tails, Stages
<1>6. CASE tail[e].path = "own" /\ reader = "complete"
  <2>1. skipped' = skipped \cup Between(tail[e].mark, file.size)
    BY <1>6 DEF TailFilled
  <2>2. /\ Between(tail[e].mark, file.size) \subseteq Lines
        /\ \A l \in Lines : /\ l >= file.first /\ 3 * (l - file.first) + 2 > tail[e].mark
                            /\ 3 * (l - file.first) < file.size
                            => l \in Between(tail[e].mark, file.size)
    BY DEF Between
  <2>3. \A l \in Lines : 3 * (l - file.first) + 2 <= tail[e].mark \/ 3 * (l - file.first) + 2 > tail[e].mark
    BY <1>l, <1>t
  <2> QED
    BY <1>1, <1>4, <1>5, <1>6, <1>t, <2>1, <2>2, <2>3
<1>7. CASE ~(tail[e].path = "own" /\ reader = "complete")
  <2>1. skipped' = skipped
    BY <1>7 DEF TailFilled
  <2> QED
    BY <1>1, <1>4, <1>5, <1>7, <1>t, <2>1
<1> QED
  BY <1>6, <1>7

LEMMA TickDoes ==
    ASSUME Types, NEW e \in Streams, TailTick(e)
    PROVE  \E t \in Tails :
              /\ tail' = [tail EXCEPT ![e] = t]
              /\ tail[e].at = "wait" /\ tail[e].path = "own"
              /\ t.at \in {"wait", "read"} /\ t.path = "own" /\ t.pend = tail[e].pend
              /\ t.off = tail[e].off \/ (t.off = 0 /\ file.size < tail[e].off)
<1>t. tail[e] \in Tails /\ 0 \in 0 .. 3 * MaxLines + 1
  BY RecordFacts, Bounds DEF Types
<1>1. PICK off : off = IF file.size < tail[e].off THEN 0 ELSE tail[e].off
  OBVIOUS
<1>2. PICK a : a = IF file.size = off THEN "wait" ELSE "read"
  OBVIOUS
<1>3. PICK t : t = [tail[e] EXCEPT !.off = off, !.at = a]
  OBVIOUS
<1>4. /\ tail' = [tail EXCEPT ![e] = t]
      /\ tail[e].at = "wait" /\ tail[e].path = "own"
  BY <1>1, <1>2, <1>3 DEF TailTick, SetTail
<1>5. off \in 0 .. 3 * MaxLines + 1 /\ a \in {"wait", "read"}
  BY <1>1, <1>2, <1>t DEF Tails
<1>6. t.at = a /\ t.path = "own" /\ t.pend = tail[e].pend /\ t.off = off /\ t \in Tails
  BY <1>3, <1>4, <1>5, <1>t DEF Tails, Stages
<1> QED
  BY <1>1, <1>4, <1>5, <1>6

LEMMA DoneDoes ==
    ASSUME Types, NEW e \in Streams, TailDone(e)
    PROVE  \E t \in Tails :
              /\ tail' = [tail EXCEPT ![e] = t]
              /\ tail[e].at = "emit" /\ tail[e].pend = <<>>
              /\ t.at = "wait" /\ t.path = tail[e].path /\ t.pend = <<>> /\ t.off = tail[e].off
<1>t. tail[e] \in Tails
  BY RecordFacts DEF Types
<1>1. PICK t : t = [tail[e] EXCEPT !.at = "wait"]
  OBVIOUS
<1>2. tail' = [tail EXCEPT ![e] = t] /\ tail[e].at = "emit" /\ tail[e].pend = <<>>
  BY <1>1 DEF TailDone, SetTail
<1>3. t.at = "wait" /\ t.path = tail[e].path /\ t.pend = <<>> /\ t.off = tail[e].off /\ t \in Tails
  BY <1>1, <1>2, <1>t DEF Tails, Stages
<1> QED
  BY <1>2, <1>3

LEMMA ReadDoes ==
    ASSUME Types, NEW e \in Streams, TailRead(e)
    PROVE  \E t \in Tails :
              /\ tail' = [tail EXCEPT ![e] = t]
              /\ tail[e].at = "read"
              /\ t.at = "emit" /\ t.path = tail[e].path /\ Ascends(t.pend)
              /\ tail[e].off <= t.off
              /\ e \notin torn' => t.off = tail[e].off \/ (t.off <= file.size /\ t.off % 3 = 0)
              /\ e \notin torn' => \A l \in Items(t.pend) :
                    /\ l \in Chat /\ l >= file.first /\ tail[e].off <= 3 * (l - file.first)
                    /\ 3 * (l - file.first) < t.off /\ t.off <= file.size
              /\ e \notin torn' => \A l \in Chat :
                    /\ l >= file.first /\ tail[e].off <= 3 * (l - file.first)
                    /\ 3 * (l - file.first) < t.off
                    => l \in Items(t.pend)
              /\ torn \subseteq torn' /\ torn' \subseteq Streams
<1>f. PICK z \in Nat, f \in Nat : z = file.size /\ f = file.first
  BY FileFacts DEF Types
<1>r. reader \in {"scanner", "complete"} /\ MaxLines \in Nat
  BY FileFacts DEF Types
<1>t. tail[e] \in Tails /\ torn \subseteq Streams
  BY RecordFacts DEF Types, AgentTypes
<1>o. PICK o \in 0 .. 3 * MaxLines + 1 : o = tail[e].off
  BY <1>t DEF Tails
<1>1. PICK end : end = Consumed(o, z)
  OBVIOUS
<1>2. PICK s : /\ s \in ReadFrom(o, z)
               /\ tail' = [tail EXCEPT ![e] = [tail[e] EXCEPT !.at = "emit", !.off = end, !.pend = s]]
               /\ torn' = IF end > z THEN torn \cup {e} ELSE torn
               /\ tail[e].at = "read"
  BY <1>1, <1>o, <1>f DEF TailRead, SetTail
<1>3. /\ end \in 0 .. 3 * MaxLines + 1 /\ o <= end
      /\ z <= o => end = o
      /\ end # o => z > o
      /\ reader = "scanner" /\ z > o => end = z + 1 \/ (end = z /\ end % 3 = 0)
      /\ reader = "complete" /\ z > o => end <= z
      /\ reader = "complete" => end = o \/ end % 3 = 0
  BY <1>1, <1>f, ConsumedFacts DEF Types
<1>4. PICK to : to = (IF reader = "scanner" THEN z ELSE end) /\ s \in Rendered(o, to)
  BY <1>1, <1>2 DEF ReadFrom
<1>5. /\ s \in Seq(Text) /\ Ascends(s)
      /\ \A l : l \in Items(s) <=> /\ l \in Chat /\ l >= f
                                   /\ o <= 3 * (l - f)
                                   /\ 3 * (l - f) + 2 <= to
  BY <1>4, <1>f, RenderedFacts
<1>6. PICK t : t = [tail[e] EXCEPT !.at = "emit", !.off = end, !.pend = s]
  OBVIOUS
<1>7. /\ t.at = "emit" /\ t.path = tail[e].path /\ t.off = end /\ t.pend = s /\ t \in Tails
  BY <1>3, <1>5, <1>6, <1>t DEF Tails, Stages
<1>8. tail' = [tail EXCEPT ![e] = t]
  BY <1>2, <1>6
<1>9. torn \subseteq torn' /\ torn' \subseteq Streams
  BY <1>2, <1>t
<1>10. ASSUME e \notin torn' PROVE end <= z \/ end = o
  BY <1>10, <1>2, <1>3, <1>r
<1>11. ASSUME e \notin torn' PROVE end = o \/ (end <= z /\ end % 3 = 0)
  BY <1>10, <1>11, <1>2, <1>3, <1>r
<1>12. ASSUME e \notin torn', NEW l \in Items(s)
       PROVE  l \in Chat /\ l >= f /\ o <= 3 * (l - f) /\ 3 * (l - f) < end /\ end <= z
  <2>1. l \in Chat /\ l \in Nat /\ l >= f /\ o <= 3 * (l - f) /\ 3 * (l - f) + 2 <= to
    BY <1>5, <1>12, TextFacts
  <2>2. CASE reader = "scanner"
    <3>1. z > o
      BY <1>4, <2>1, <2>2
    <3>2. end = z
      BY <1>2, <1>3, <1>12, <2>2, <3>1
    <3> QED
      BY <1>4, <2>1, <2>2, <3>2
  <2>3. CASE reader = "complete"
    <3>1. to = end /\ end # o
      BY <1>3, <1>4, <2>1, <2>3
    <3>2. end <= z
      BY <1>3, <2>3, <3>1
    <3> QED
      BY <1>3, <2>1, <3>1, <3>2
  <2> QED
    BY <1>r, <2>2, <2>3
<1>13. ASSUME e \notin torn', NEW l \in Chat, l >= f, o <= 3 * (l - f), 3 * (l - f) < end
       PROVE  l \in Items(s)
  <2>0. l \in Nat
    BY TextFacts
  <2>1. end # o /\ end \in Nat
    BY <1>3, <1>13, <2>0
  <2>2. end % 3 = 0 /\ end <= z
    BY <1>11, <1>13, <2>1
  <2>3. PICK k \in Nat : end = 3 * k
    BY <2>1, <2>2, Thirds
  <2>4. 3 * (l - f) + 2 <= end
    BY <1>13, <2>0, <2>3
  <2>5. to \in Nat /\ end <= to
    BY <1>4, <2>1, <2>2
  <2>6. 3 * (l - f) + 2 <= to
    BY <2>0, <2>1, <2>4, <2>5
  <2> QED
    BY <1>5, <1>13, <2>6
<1> QED
  BY <1>2, <1>3, <1>5, <1>7, <1>8, <1>9, <1>11, <1>12, <1>13, <1>f, <1>o

-----------------------------------------------------------------------------
(***************************************************************************)
(* Merging.                                                                *)
(***************************************************************************)
Merged(a, b) == b \cup {r \in a : \A q \in b : q.seq # r.seq}

LEMMA MergeFacts ==
    ASSUME heard \subseteq Rows, IsFiniteSet(heard), NEW a \in SUBSET heard, NEW b \in SUBSET heard,
           OneEach(a), OneEach(b)
    PROVE  /\ Merge(a, b) \subseteq heard /\ OneEach(Merge(a, b))
           /\ Cardinality(Merge(a, b)) <= MaxLogs
           /\ Cardinality(heard) <= MaxLogs => Merge(a, b) = Merged(a, b)
<1> DEFINE all == Merged(a, b)
<1> DEFINE above(r) == {q \in all : q.seq > r.seq}
<1>1. all \subseteq heard /\ OneEach(all)
  BY DEF Merged, OneEach
<1>2. Merge(a, b) = {r \in all : Cardinality(above(r)) < MaxLogs}
  BY DEF Merge, Merged
<1>3. \A S : S \subseteq heard => IsFiniteSet(S) /\ Cardinality(S) \in Nat
  BY FS_Subset, FS_CardinalityType
<1>4. \A r : above(r) \subseteq all /\ r \notin above(r)
  BY <1>1 DEF Rows
<1>5. \A r \in heard : r.seq \in Nat
  BY DEF Rows
<1> HIDE DEF all
<1>6. Merge(a, b) \subseteq all /\ OneEach(Merge(a, b))
  BY <1>1, <1>2 DEF OneEach
<1>7. Cardinality(Merge(a, b)) <= MaxLogs
  <2>1. CASE Merge(a, b) = {}
    BY <2>1, FS_EmptySet, Bounds
  <2>2. CASE Merge(a, b) # {}
    <3>1. {r.seq : r \in Merge(a, b)} \in SUBSET Nat /\ {r.seq : r \in Merge(a, b)} # {}
      BY <1>1, <1>5, <1>6, <2>2
    <3>2. PICK m \in {r.seq : r \in Merge(a, b)} : \A k \in {r.seq : r \in Merge(a, b)} : m <= k
      BY <3>1, Least
    <3>3. PICK r \in Merge(a, b) : r.seq = m
      BY <3>2
    <3>4. ASSUME NEW q \in Merge(a, b), q # r PROVE q \in above(r)
      <4>1. q.seq # r.seq /\ r.seq <= q.seq /\ q \in all
        BY <1>6, <3>2, <3>3, <3>4 DEF OneEach
      <4>2. q.seq \in Nat /\ r.seq \in Nat
        BY <1>1, <1>5, <1>6
      <4> QED
        BY <4>1, <4>2
    <3>5. Merge(a, b) \ {r} \subseteq above(r)
      BY <3>4
    <3> HIDE DEF above
    <3>6. above(r) \subseteq heard /\ Merge(a, b) \subseteq heard
      BY <1>1, <1>4, <1>6
    <3>7. Cardinality(Merge(a, b) \ {r}) <= Cardinality(above(r))
      BY <1>3, <3>5, <3>6, FS_Subset
    <3>8. Cardinality(Merge(a, b) \ {r}) = Cardinality(Merge(a, b)) - 1
      BY <1>3, <3>6, FS_RemoveElement
    <3>9. Cardinality(above(r)) < MaxLogs
      BY <1>2
    <3>10. /\ Cardinality(Merge(a, b)) \in Nat /\ Cardinality(above(r)) \in Nat
           /\ Cardinality(Merge(a, b)) - 1 <= Cardinality(above(r))
      BY <1>3, <3>6, <3>7, <3>8
    <3> QED
      BY <3>9, <3>10, Bounds
  <2> QED
    BY <2>1, <2>2
<1>8. ASSUME Cardinality(heard) <= MaxLogs, NEW r \in all PROVE Cardinality(above(r)) < MaxLogs
  <2>1. r \in heard /\ above(r) \subseteq heard \ {r}
    BY <1>1, <1>4
  <2> HIDE DEF above
  <2>2. Cardinality(heard \ {r}) = Cardinality(heard) - 1
    BY <2>1, FS_RemoveElement
  <2>3. Cardinality(above(r)) <= Cardinality(heard \ {r})
    BY <1>3, <2>1, FS_Subset
  <2>4. Cardinality(heard) \in Nat /\ Cardinality(above(r)) \in Nat
    BY <1>3, <2>1
  <2> QED
    BY <1>8, <2>2, <2>3, <2>4, Bounds
<1> HIDE DEF above
<1>9. Cardinality(heard) <= MaxLogs => Merge(a, b) = all
  BY <1>2, <1>8
<1> QED
  BY <1>1, <1>6, <1>7, <1>9 DEF all

-----------------------------------------------------------------------------
(***************************************************************************)
(* Types.                                                                  *)
(***************************************************************************)
LEMMA SeqMono ==
    ASSUME NEW S, NEW T, S \subseteq T, NEW q \in Seq(S)
    PROVE  q \in Seq(T)
<1>1. Len(q) \in Nat /\ DOMAIN q = 1 .. Len(q) /\ q = [i \in 1 .. Len(q) |-> q[i]]
  OBVIOUS
<1>2. \A i \in 1 .. Len(q) : q[i] \in T
  OBVIOUS
<1> QED
  BY <1>1, <1>2

LEMMA TypesInit == Init => Types
<1> SUFFICES ASSUME Init PROVE Types
  OBVIOUS
<1> USE DEF Init
<1>1. SrcTypes
  BY Bounds DEF SrcTypes, Units
<1>2. AgentTypes
  <2>1. NoTail \in Tails
    BY Bounds, EmptyFacts DEF NoTail, Tails, Stages, Paths, Units
  <2>2. Len(<<>>) <= ChanCap /\ <<>> \in Seq(Text)
    BY Bounds, EmptyFacts
  <2>3. tail \in [Streams -> Tails] /\ ch \in [Streams -> Seq(Text)]
    BY <2>1, <2>2
  <2>4. \A e \in Streams : Len(ch[e]) <= ChanCap
    BY <2>2
  <2>5. n \in 0 .. MaxStreams
    BY Bounds
  <2> QED
    BY <2>3, <2>4, <2>5 DEF AgentTypes
<1>3. NetTypes
  <2>1. <<>> \in Queues
    BY Bounds, EmptyFacts DEF Queues
  <2> QED
    BY <2>1 DEF NetTypes
<1>4. DashTypes
  <2>1. Cardinality({}) = 0 /\ IsFiniteSet({})
    BY FS_EmptySet
  <2>2. OneEach({}) /\ Len(<<>>) = 0 /\ <<>> \in Seq(heard)
    BY EmptyFacts DEF OneEach
  <2>3. inbox \in Seq(heard) /\ Len(inbox) <= InboxCap
    BY <2>2, Bounds
  <2>4. page \in [at : {"unasked", "read", "applied"}, rows : SUBSET heard] /\ page.rows = {}
    BY DEF NoPage
  <2>5. Cardinality(logs) <= MaxLogs /\ IsFiniteSet(heard) /\ OneEach(page.rows) /\ OneEach(logs)
    BY <2>1, <2>2, <2>4, Bounds
  <2> QED
    BY <2>3, <2>4, <2>5 DEF DashTypes
<1> QED
  BY <1>1, <1>2, <1>3, <1>4 DEF Types

LEMMA TypesTail ==
    ASSUME Types, NEW e \in Streams, TailStep(e)
    PROVE  AgentTypes'
<1>0. AgentTypes
  BY DEF Types
<1>1. ASSUME NEW t \in Tails, tail' = [tail EXCEPT ![e] = t] PROVE tail' \in [Streams -> Tails]
  BY <1>0, <1>1 DEF AgentTypes
<1>2. CASE TailBackfill(e)
  <2>1. UNCHANGED <<known, n, ch, fwd, seq>>
    BY <1>2 DEF TailBackfill
  <2>2. tail' \in [Streams -> Tails] /\ torn' \subseteq Streams /\ skipped' \subseteq Lines
    BY <1>1, <1>2, BackfillDoes
  <2> QED
    BY <1>0, <2>1, <2>2 DEF AgentTypes
<1>3. CASE TailEmit(e)
  <2>1. UNCHANGED <<known, n, fwd, seq, torn, skipped>>
    BY <1>3 DEF TailEmit
  <2>2. PICK x \in Text : /\ tail' \in [Streams -> Tails]
                          /\ ch' = [ch EXCEPT ![e] = Append(ch[e], x)]
                          /\ ch'[e] \in Seq(Text) /\ Len(ch'[e]) <= ChanCap
    BY <1>1, <1>3, EmitDoes
  <2>3. \A d \in Streams : d # e => ch'[d] = ch[d]
    BY <1>0, <2>2 DEF AgentTypes
  <2>4. \A d \in Streams : ch'[d] \in Seq(Text) /\ Len(ch'[d]) <= ChanCap
    BY <1>0, <2>2, <2>3 DEF AgentTypes
  <2>5. ch' \in [Streams -> Seq(Text)]
    BY <1>0, <2>2, <2>4 DEF AgentTypes
  <2> QED
    BY <1>0, <2>1, <2>2, <2>4, <2>5 DEF AgentTypes
<1>4. CASE TailFilled(e)
  <2>1. UNCHANGED <<known, n, ch, fwd, seq, torn>>
    BY <1>4 DEF TailFilled
  <2>2. tail' \in [Streams -> Tails] /\ skipped' \subseteq Lines
    BY <1>1, <1>4, FilledDoes
  <2> QED
    BY <1>0, <2>1, <2>2 DEF AgentTypes
<1>5. CASE TailTick(e)
  <2>1. UNCHANGED <<known, n, ch, fwd, seq, torn, skipped>>
    BY <1>5 DEF TailTick
  <2>2. tail' \in [Streams -> Tails]
    BY <1>1, <1>5, TickDoes
  <2> QED
    BY <1>0, <2>1, <2>2 DEF AgentTypes
<1>6. CASE TailRead(e)
  <2>1. UNCHANGED <<known, n, ch, fwd, seq, skipped>>
    BY <1>6 DEF TailRead
  <2>2. tail' \in [Streams -> Tails] /\ torn' \subseteq Streams
    BY <1>1, <1>6, ReadDoes
  <2> QED
    BY <1>0, <2>1, <2>2 DEF AgentTypes
<1>7. CASE TailDone(e)
  <2>1. UNCHANGED <<known, n, ch, fwd, seq, torn, skipped>>
    BY <1>7 DEF TailDone
  <2>2. tail' \in [Streams -> Tails]
    BY <1>1, <1>7, DoneDoes
  <2> QED
    BY <1>0, <2>1, <2>2 DEF AgentTypes
<1> QED
  BY <1>2, <1>3, <1>4, <1>5, <1>6, <1>7 DEF TailStep

LEMMA WireFacts ==
    ASSUME NetTypes
    PROVE  /\ wire.cur \in Seq(Rows) /\ wire.old \in Seq(Rows)
           /\ Len(wire.cur) <= WireCap /\ Len(wire.old) <= WireCap
  BY DEF NetTypes, Queues

LEMMA ForwardDoes ==
    ASSUME Types, NEW e \in Streams, Forward(e)
    PROVE  \E x \in Text :
              /\ x = Head(ch[e]) /\ ch[e] # <<>> /\ ch[e] \in Seq(Text) /\ Alive(e)
              /\ ch' = [ch EXCEPT ![e] = Tail(ch[e])] /\ ch'[e] = Tail(ch[e])
              /\ seq' = [seq EXCEPT ![e] = seq[e] + 1] /\ seq'[e] = seq[e] + 1
              /\ Row(e, seq[e] + 1, x) \in Rows
              /\ NetTypes'
              /\ \/ Flight' = Flight \cup {Row(e, seq[e] + 1, x)}
                 \/ Flight' = Flight /\ lost' = TRUE
<1>t. ch[e] \in Seq(Text) /\ ch \in [Streams -> Seq(Text)] /\ seq \in [Streams -> Nat] /\ NetTypes
  BY DEF Types, AgentTypes
<1>1. /\ ch' = [ch EXCEPT ![e] = Tail(ch[e])] /\ seq' = [seq EXCEPT ![e] = seq[e] + 1]
      /\ ch[e] # <<>> /\ Alive(e) /\ link' = link
  BY DEF Forward
<1>2. ch'[e] = Tail(ch[e]) /\ seq'[e] = seq[e] + 1 /\ seq[e] + 1 \in Nat
  BY <1>1, <1>t
<1>3. PICK x \in Text : x = Head(ch[e])
  BY <1>1, <1>t, TailFacts
<1>4. PICK r \in Rows : r = Row(e, seq[e] + 1, x)
  <2>1. x \in Lines \cup {OldLine}
    BY TextFacts
  <2> QED
    BY <1>2, <2>1 DEF Row, Rows
<1>5. CASE link
  <2>1. /\ Len(wire.cur) < WireCap /\ lost' = lost
        /\ wire' = [wire EXCEPT !.cur = Append(wire.cur, r)]
    BY <1>1, <1>2, <1>3, <1>4, <1>5 DEF Forward
  <2>2. wire'.cur = Append(wire.cur, r) /\ wire'.old = wire.old
    BY <2>1, <1>t DEF NetTypes
  <2>3. /\ Append(wire.cur, r) \in Seq(Rows) /\ Len(Append(wire.cur, r)) = Len(wire.cur) + 1
        /\ Len(wire.cur) \in Nat /\ Items(Append(wire.cur, r)) = Items(wire.cur) \cup {r}
    BY <1>t, WireFacts, AppendFacts
  <2>4. Append(wire.cur, r) \in Queues
    BY <2>1, <2>3, Bounds DEF Queues
  <2>5. NetTypes'
    BY <1>1, <1>t, <2>1, <2>4 DEF NetTypes
  <2>6. Flight' = Flight \cup {r}
    BY <2>2, <2>3 DEF Flight
  <2> QED
    BY <1>1, <1>2, <1>3, <1>4, <1>t, <2>5, <2>6
<1>6. CASE ~link
  <2>1. wire' = wire /\ lost' = TRUE
    BY <1>6 DEF Forward
  <2>2. NetTypes' /\ Flight' = Flight
    BY <1>1, <1>t, <2>1 DEF NetTypes, Flight
  <2> QED
    BY <1>1, <1>2, <1>3, <1>4, <1>t, <2>1, <2>2
<1> QED
  BY <1>5, <1>6

LEMMA ServerDoes ==
    ASSUME Types, NEW c \in {"cur", "old"}, ServerReads(c)
    PROVE  \E r \in Rows :
              /\ r = Head(wire[c]) /\ heard' = heard \cup {r} /\ r \in Flight
              /\ NetTypes' /\ Flight = Flight' \cup {r}
              /\ UNCHANGED lost
<1>t. NetTypes
  BY DEF Types
<1>1. /\ wire[c] # <<>> /\ wire' = [wire EXCEPT ![c] = Tail(wire[c])]
      /\ heard' = heard \cup {Head(wire[c])} /\ UNCHANGED <<link, lost>>
  BY DEF ServerReads
<1>2. CASE c = "cur"
  <2>1. wire.cur # <<>> /\ wire'.cur = Tail(wire.cur) /\ wire'.old = wire.old
        /\ wire' = [wire EXCEPT !.cur = Tail(wire.cur)]
    BY <1>1, <1>2, <1>t DEF NetTypes
  <2>2. /\ Tail(wire.cur) \in Seq(Rows) /\ Head(wire.cur) \in Rows
        /\ Len(wire.cur) \in Nat \ {0} /\ Len(Tail(wire.cur)) = Len(wire.cur) - 1
        /\ Items(wire.cur) = {Head(wire.cur)} \cup Items(Tail(wire.cur))
    BY <1>t, <2>1, WireFacts, TailFacts
  <2>3. Len(Tail(wire.cur)) <= WireCap
    BY <1>t, <2>2, WireFacts, Bounds
  <2>4. NetTypes'
    BY <1>1, <1>t, <2>1, <2>2, <2>3 DEF NetTypes, Queues
  <2>5. Flight = Flight' \cup {Head(wire.cur)}
    BY <2>1, <2>2 DEF Flight
  <2> QED
    BY <1>1, <1>2, <2>2, <2>4, <2>5
<1>3. CASE c = "old"
  <2>1. wire.old # <<>> /\ wire'.old = Tail(wire.old) /\ wire'.cur = wire.cur
        /\ wire' = [wire EXCEPT !.old = Tail(wire.old)]
    BY <1>1, <1>3, <1>t DEF NetTypes
  <2>2. /\ Tail(wire.old) \in Seq(Rows) /\ Head(wire.old) \in Rows
        /\ Len(wire.old) \in Nat \ {0} /\ Len(Tail(wire.old)) = Len(wire.old) - 1
        /\ Items(wire.old) = {Head(wire.old)} \cup Items(Tail(wire.old))
    BY <1>t, <2>1, WireFacts, TailFacts
  <2>3. Len(Tail(wire.old)) <= WireCap
    BY <1>t, <2>2, WireFacts, Bounds
  <2>4. NetTypes'
    BY <1>1, <1>t, <2>1, <2>2, <2>3 DEF NetTypes, Queues
  <2>5. Flight = Flight' \cup {Head(wire.old)}
    BY <2>1, <2>2 DEF Flight
  <2> QED
    BY <1>1, <1>3, <2>2, <2>4, <2>5
<1> QED
  BY <1>2, <1>3

LEMMA BreakDoes ==
    ASSUME Types, Break
    PROVE  NetTypes' /\ Flight' \subseteq Flight /\ (lost => lost') /\ (~lost' => Flight' = Flight)
<1>t. NetTypes
  BY DEF Types
<1>1. PICK k \in 0 .. Len(wire.cur) :
         /\ wire' = [cur |-> <<>>, old |-> SubSeq(wire.cur, 1, k)]
         /\ lost' = (lost \/ k < Len(wire.cur))
         /\ link' = FALSE /\ wire.old = <<>>
  BY DEF Break
<1>2. /\ SubSeq(wire.cur, 1, k) \in Seq(Rows) /\ Len(SubSeq(wire.cur, 1, k)) = k
      /\ Items(SubSeq(wire.cur, 1, k)) \subseteq Items(wire.cur)
      /\ k = Len(wire.cur) => Items(SubSeq(wire.cur, 1, k)) = Items(wire.cur)
  BY <1>t, WireFacts, PrefixFacts
<1>3. Len(wire.cur) \in Nat /\ Len(wire.cur) <= WireCap /\ k <= Len(wire.cur)
  BY <1>t, WireFacts
<1>4. Len(SubSeq(wire.cur, 1, k)) <= WireCap /\ Len(<<>>) <= WireCap
  BY <1>2, <1>3, Bounds, EmptyFacts
<1>5. lost' \in BOOLEAN
  BY <1>1, <1>t DEF NetTypes
<1>6. NetTypes'
  BY <1>1, <1>2, <1>4, <1>5, EmptyFacts DEF NetTypes, Queues
<1>7. wire'.cur = <<>> /\ wire'.old = SubSeq(wire.cur, 1, k) /\ wire.old = <<>>
  BY <1>1
<1>8. Flight' = Items(SubSeq(wire.cur, 1, k)) /\ Flight = Items(wire.cur)
  BY <1>7, EmptyFacts DEF Flight
<1>9. ~lost' => k = Len(wire.cur)
  <2>1. ~lost' => ~(k < Len(wire.cur))
    BY <1>1, Zenon
  <2> QED
    BY <1>3, <2>1
<1> QED
  BY <1>1, <1>2, <1>6, <1>8, <1>9

\* Every step keeps the types, by the part of the state it changes.
LEMMA TypesAgent ==
    ASSUME Types, Discover \/ DiscoverMisses \/ \E e \in Streams : StreamStep(e)
    PROVE  Types'
<1>0. SrcTypes /\ AgentTypes /\ NetTypes /\ DashTypes
  BY DEF Types
<1>1. ASSUME UNCHANGED <<srcVars, dashVars, heard, rows>> PROVE SrcTypes' /\ DashTypes'
  BY <1>0, <1>1 DEF srcVars, dashVars, SrcTypes, DashTypes, OneEach
<1>2. ASSUME UNCHANGED netVars PROVE NetTypes'
  BY <1>0, <1>2 DEF netVars, NetTypes
<1>n. NoTail \in Tails
  BY Bounds, EmptyFacts DEF NoTail, Tails, Stages, Paths, Units
<1>3. CASE Discover
  <2>1. UNCHANGED <<srcVars, dashVars, heard, rows, netVars, ch, torn, skipped, seq>> /\ known' = TRUE
    BY <1>3 DEF Discover
  <2>2. CASE NewestFile = "none"
    <3>1. UNCHANGED <<n, tail, fwd>>
      BY <1>3, <2>2 DEF Discover
    <3> QED
      BY <1>0, <1>1, <1>2, <2>1, <3>1 DEF Types, AgentTypes
  <2>3. CASE NewestFile # "none"
    <3>1. /\ n < MaxStreams /\ n' = n + 1 /\ fwd' = [fwd EXCEPT ![n + 1] = "on"]
          /\ tail' = [tail EXCEPT ![n + 1] = [NoTail EXCEPT !.at = "backfill", !.path = NewestFile]]
      BY <1>3, <2>3 DEF Discover, SetTail
    <3>2. [NoTail EXCEPT !.at = "backfill", !.path = NewestFile] \in Tails
      BY <1>n, <2>3 DEF NewestFile, Tails, Stages, Paths
    <3>3. n' \in 0 .. MaxStreams
      BY <1>0, <3>1, Bounds DEF AgentTypes
    <3>4. tail' \in [Streams -> Tails] /\ fwd' \in [Streams -> {"none", "on", "cancelled", "off"}]
      BY <1>0, <3>1, <3>2 DEF AgentTypes
    <3> QED
      BY <1>0, <1>1, <1>2, <2>1, <3>3, <3>4 DEF Types, AgentTypes
  <2> QED
    BY <2>2, <2>3
<1>4. CASE DiscoverMisses
  <2>1. /\ UNCHANGED <<srcVars, dashVars, heard, rows, netVars, ch, torn, skipped, seq, n>> /\ known' = FALSE
        /\ fwd' = [e \in Streams |-> IF fwd[e] = "on" THEN "cancelled" ELSE fwd[e]]
        /\ tail' = [e \in Streams |-> NoTail]
    BY <1>4 DEF DiscoverMisses
  <2>2. tail' \in [Streams -> Tails] /\ fwd' \in [Streams -> {"none", "on", "cancelled", "off"}]
    BY <1>0, <1>n, <2>1 DEF AgentTypes
  <2> QED
    BY <1>0, <1>1, <1>2, <2>1, <2>2 DEF Types, AgentTypes
<1>5. ASSUME NEW e \in Streams, StreamStep(e) PROVE Types'
  <2>1. CASE TailStep(e)
    <3>1. UNCHANGED <<srcVars, dashVars, heard, rows, netVars>>
      BY <2>1 DEF TailStep, TailBackfill, TailEmit, TailFilled, TailTick, TailRead, TailDone
    <3> QED
      BY <1>1, <1>2, <2>1, <3>1, TypesTail DEF Types
  <2>2. CASE Forward(e)
    <3>1. UNCHANGED <<srcVars, dashVars, heard, rows, known, n, tail, torn, skipped, fwd>>
      BY <2>2 DEF Forward
    <3>2. PICK x \in Text :
             /\ ch[e] # <<>> /\ ch[e] \in Seq(Text)
             /\ ch' = [ch EXCEPT ![e] = Tail(ch[e])] /\ ch'[e] = Tail(ch[e])
             /\ seq' = [seq EXCEPT ![e] = seq[e] + 1] /\ seq'[e] = seq[e] + 1 /\ NetTypes'
      BY <2>2, ForwardDoes
    <3>3. ch'[e] \in Seq(Text) /\ Len(ch'[e]) <= ChanCap
      <4>1. /\ Tail(ch[e]) \in Seq(Text)
            /\ Len(ch[e]) \in Nat \ {0} /\ Len(Tail(ch[e])) = Len(ch[e]) - 1
        BY <3>2, TailFacts
      <4>2. Len(ch[e]) <= ChanCap
        BY <1>0 DEF AgentTypes
      <4> QED
        BY <3>2, <4>1, <4>2, Bounds
    <3>4. \A d \in Streams : ch'[d] \in Seq(Text) /\ Len(ch'[d]) <= ChanCap
      BY <1>0, <3>2, <3>3 DEF AgentTypes
    <3>5. ch' \in [Streams -> Seq(Text)] /\ seq' \in [Streams -> Nat]
      BY <1>0, <3>2, <3>4 DEF AgentTypes
    <3> QED
      BY <1>0, <1>1, <3>1, <3>2, <3>4, <3>5 DEF Types, AgentTypes
  <2>3. CASE ForwarderExits(e)
    <3>1. /\ UNCHANGED <<srcVars, dashVars, heard, rows, netVars, known, n, tail, torn, skipped, seq>>
          /\ fwd' = [fwd EXCEPT ![e] = "off"] /\ ch' = [ch EXCEPT ![e] = <<>>]
      BY <2>3 DEF ForwarderExits
    <3>2. <<>> \in Seq(Text) /\ Len(<<>>) <= ChanCap
      BY EmptyFacts, Bounds
    <3>3. \A d \in Streams : ch'[d] \in Seq(Text) /\ Len(ch'[d]) <= ChanCap
      BY <1>0, <3>1, <3>2 DEF AgentTypes
    <3>4. ch' \in [Streams -> Seq(Text)] /\ fwd' \in [Streams -> {"none", "on", "cancelled", "off"}]
      BY <1>0, <3>1, <3>3 DEF AgentTypes
    <3> QED
      BY <1>0, <1>1, <1>2, <3>1, <3>3, <3>4 DEF Types, AgentTypes
  <2> QED
    BY <1>5, <2>1, <2>2, <2>3 DEF StreamStep
<1> QED
  BY <1>3, <1>4, <1>5

LEMMA TypesSource ==
    ASSUME Types, (\E k \in 1 .. 3 : Write(k)) \/ Rotate
    PROVE  Types'
<1>0. SrcTypes /\ AgentTypes /\ NetTypes /\ DashTypes
  BY DEF Types
<1>1. UNCHANGED <<plan, reader, known, n, tailVars, fwd, seq, netVars, heard, rows, dashVars>>
  BY DEF Write, Rotate
<1>2. AgentTypes' /\ NetTypes' /\ DashTypes'
  BY <1>0, <1>1 DEF AgentTypes, NetTypes, DashTypes, tailVars, netVars, dashVars, OneEach
<1>3. PICK f \in Nat, z \in Nat : /\ f = file.first /\ z = file.size /\ 1 <= f
                                 /\ z <= 3 * MaxLines /\ 3 * (f - 1) + z <= 3 * MaxLines
  BY <1>0, FileFacts
<1>4. PICK k \in Nat, m \in 0 .. 2 : k = z \div 3 /\ m = z % 3 /\ z = 3 * k + m
  BY Thirds
<1>5. NextLine = f + k
  BY <1>3, <1>4 DEF NextLine
<1>p. z = 3 * k + m /\ m >= 0 /\ m <= 2 /\ m \in Nat /\ MaxLines \in Nat
  BY <1>4, Bounds
<1>t. file \in [made : BOOLEAN, first : 1 .. MaxLines + 1, size : Units]
  BY <1>0 DEF SrcTypes
<1>6. ASSUME NEW i \in 1 .. 3, Write(i) PROVE SrcTypes'
  <2>1. /\ f + k <= MaxLines /\ (i = 1 \/ i = 3 - m)
        /\ file' = [file EXCEPT !.made = TRUE, !.size = z + i]
    BY <1>3, <1>4, <1>5, <1>6 DEF Write
  <2>2. i + m <= 3 /\ i \in Nat
    BY <1>p, <2>1
  <2>3. 3 * (f - 1) + (z + i) <= 3 * MaxLines
    BY <1>p, <2>1, <2>2
  <2>4. 3 * (f - 1) >= 0
    BY <1>3
  <2>5. z + i \in Units
    BY <1>p, <2>2, <2>3, <2>4 DEF Units
  <2>6. file'.first = f /\ file'.size = z + i
    BY <1>3, <1>t, <2>1
  <2>7. file' \in [made : BOOLEAN, first : 1 .. MaxLines + 1, size : Units]
    BY <1>t, <2>1, <2>5
  <2> QED
    BY <1>0, <1>1, <2>3, <2>6, <2>7 DEF SrcTypes
<1>7. ASSUME Rotate PROVE SrcTypes'
  <2>1. m = 0 /\ file' = [file EXCEPT !.first = f + k, !.size = 0]
    BY <1>3, <1>4, <1>5, <1>7 DEF Rotate
  <2>2. 3 * (f + k - 1) + 0 <= 3 * MaxLines
    BY <1>3, <1>p, <2>1
  <2>3. f + k \in 1 .. MaxLines + 1 /\ 0 \in Units
    BY <1>3, <1>p, <2>2 DEF Units
  <2>4. file'.first = f + k /\ file'.size = 0
    BY <1>t, <2>1
  <2>5. file' \in [made : BOOLEAN, first : 1 .. MaxLines + 1, size : Units]
    BY <1>t, <2>1, <2>3
  <2> QED
    <3>1. 3 * (file'.first - 1) + file'.size <= 3 * MaxLines
      BY <2>2, <2>4
    <3>2. plan' \in Plans /\ reader' \in Readers
      BY <1>0, <1>1 DEF SrcTypes
    <3> QED
      BY <2>5, <3>1, <3>2 DEF SrcTypes
<1> QED
  BY <1>2, <1>6, <1>7 DEF Types

\* The pages that can be read, and what is left of them.
LEMMA PageFacts ==
    ASSUME rows \subseteq Rows, IsFiniteSet(rows), NEW P \in Pages, NEW M \in Distinct(P)
    PROVE  /\ M \subseteq rows /\ OneEach(M)
           /\ Cardinality(rows) <= PageLimit /\ OneEach(rows) => M = rows
<1>1. P \subseteq rows /\ M \subseteq P /\ OneEach(M) /\ \A r \in P : \E q \in M : q.seq = r.seq
  BY DEF Pages, Distinct, OneEach
<1>2. ASSUME Cardinality(rows) <= PageLimit, OneEach(rows) PROVE M = rows
  <2>1. Cardinality(P) = Cardinality(rows)
    <3>1. Cardinality(P) = IF Cardinality(rows) < PageLimit THEN Cardinality(rows) ELSE PageLimit
      BY DEF Pages
    <3>2. Cardinality(rows) \in Nat
      BY FS_CardinalityType
    <3> QED
      BY <1>2, <3>1, <3>2, Bounds
  <2>2. P = rows
    BY <1>1, <2>1, FS_Subset
  <2>3. \A r \in rows : r \in M
    BY <1>1, <1>2, <2>2 DEF OneEach
  <2> QED
    BY <1>1, <2>3
<1> QED
  BY <1>1, <1>2

LEMMA TypesServer ==
    ASSUME Types, ServerStep
    PROVE  Types'
<1>0. SrcTypes /\ AgentTypes /\ NetTypes /\ DashTypes
  BY DEF Types
<1>1. PICK c \in {"cur", "old"} : ServerReads(c)
  BY DEF ServerStep
<1>2. PICK r \in Rows : r = Head(wire[c]) /\ heard' = heard \cup {r} /\ NetTypes'
  BY <1>1, ServerDoes
<1>3. UNCHANGED <<srcVars, known, n, tailVars, fwd, seq, page, logs, absent>>
  BY <1>1 DEF ServerReads
<1>4. SrcTypes' /\ AgentTypes'
  BY <1>0, <1>3 DEF SrcTypes, AgentTypes, srcVars, tailVars
<1>r. rows' \subseteq rows \cup {r}
  BY <1>1, <1>2 DEF ServerReads
<1>5. /\ heard' \subseteq Rows /\ IsFiniteSet(heard') /\ heard \subseteq heard' /\ r \in heard'
      /\ rows' \subseteq heard' /\ absent' \subseteq heard'
  BY <1>0, <1>2, <1>3, <1>r, FS_AddElement DEF DashTypes
<1>6. inbox \in Seq(heard') /\ Len(inbox) \in Nat /\ Len(inbox) <= InboxCap
  BY <1>0, <1>5, SeqMono DEF DashTypes
<1>7. PICK full \in BOOLEAN :
         /\ full <=> (dash = "live" /\ Len(inbox) >= InboxCap)
         /\ dash' = (IF full THEN "open" ELSE dash)
         /\ inbox' = (IF dash # "live" \/ full THEN <<>> ELSE Append(inbox, r))
         /\ gap' = (gap \/ full \/ (dash = "open" /\ page.at # "unasked"))
  BY <1>1, <1>2 DEF ServerReads
<1>8. inbox' \in Seq(heard') /\ Len(inbox') <= InboxCap
  <2>1. CASE dash # "live" \/ full
    BY <1>7, <2>1, EmptyFacts, Bounds
  <2>2. CASE ~(dash # "live" \/ full)
    <3>1. inbox' = Append(inbox, r) /\ Len(inbox) < InboxCap
      BY <1>6, <1>7, <2>2, Bounds
    <3>2. Append(inbox, r) \in Seq(heard') /\ Len(Append(inbox, r)) = Len(inbox) + 1
      BY <1>5, <1>6, AppendFacts
    <3> QED
      BY <1>6, <3>1, <3>2, Bounds
  <2> QED
    BY <2>1, <2>2
<1>9. page' \in [at : {"unasked", "read", "applied"}, rows : SUBSET heard'] /\ logs' \subseteq heard'
  BY <1>0, <1>3, <1>5 DEF DashTypes
<1>10. dash' \in {"closed", "open", "live"} /\ gap' \in BOOLEAN
  BY <1>0, <1>7 DEF DashTypes
<1>11. Cardinality(logs') <= MaxLogs /\ OneEach(page.rows)' /\ OneEach(logs)'
  BY <1>0, <1>3 DEF DashTypes, OneEach
<1>12. DashTypes'
  BY <1>5, <1>8, <1>9, <1>10, <1>11 DEF DashTypes
<1> QED
  BY <1>2, <1>4, <1>12 DEF Types

LEMMA TypesRest ==
    ASSUME Types, DashStep \/ OpenPage \/ ClosePage \/ DashDrops
    PROVE  Types'
<1>0. SrcTypes /\ AgentTypes /\ NetTypes /\ DashTypes
  BY DEF Types
<1>1. UNCHANGED <<srcVars, known, n, tailVars, fwd, seq, netVars, heard, rows>>
  BY DEF DashStep, DashConnects, ReadPage, ApplyPage, Receive, OpenPage, ClosePage, DashDrops
<1>2. SrcTypes' /\ AgentTypes' /\ NetTypes' /\ heard' = heard /\ rows' = rows
  BY <1>0, <1>1 DEF SrcTypes, AgentTypes, NetTypes, srcVars, tailVars, netVars
<1>d. /\ heard \subseteq Rows /\ IsFiniteSet(heard) /\ logs \in SUBSET heard /\ page.rows \in SUBSET heard
      /\ rows \subseteq heard /\ IsFiniteSet(rows) /\ absent \subseteq heard /\ {} \subseteq heard
      /\ OneEach(page.rows) /\ OneEach(logs) /\ inbox \in Seq(heard) /\ Len(inbox) <= InboxCap
  BY <1>0, FS_Subset DEF DashTypes
<1>e. /\ <<>> \in Seq(heard) /\ Len(<<>>) <= InboxCap /\ OneEach({}) /\ Cardinality({}) <= MaxLogs
      /\ NoPage \in [at : {"unasked", "read", "applied"}, rows : SUBSET heard] /\ NoPage.rows = {}
  BY EmptyFacts, FS_EmptySet, Bounds DEF OneEach, NoPage
<1>3. CASE OpenPage \/ DashConnects \/ ClosePage \/ DashDrops
  <2>1. CASE OpenPage \/ DashConnects
    <3>1. UNCHANGED <<inbox, page, logs, gap, absent>> /\ dash' \in {"open", "live"}
      BY <2>1 DEF OpenPage, DashConnects
    <3> QED
      BY <1>0, <1>2, <3>1 DEF Types, DashTypes, OneEach
  <2>2. CASE ClosePage
    <3>1. dash' = "closed" /\ inbox' = <<>> /\ page' = NoPage /\ logs' = {} /\ gap' = FALSE
          /\ absent' = {}
      BY <2>2 DEF ClosePage
    <3>2. DashTypes'
      BY <1>d, <1>e, <1>2, <3>1 DEF DashTypes
    <3> QED
      BY <1>2, <3>2 DEF Types
  <2>3. CASE DashDrops
    <3>1. dash' = "open" /\ inbox' = <<>> /\ UNCHANGED <<page, logs, absent>> /\ gap' \in BOOLEAN
      BY <2>3 DEF DashDrops
    <3>2. DashTypes'
      BY <1>0, <1>e, <1>2, <3>1 DEF DashTypes, OneEach
    <3> QED
      BY <1>2, <3>2 DEF Types
  <2> QED
    BY <1>3, <2>1, <2>2, <2>3
<1>4. CASE ReadPage
  <2>p. PICK P \in Pages : \E M \in Distinct(P) :
           page' = [at |-> "read", rows |-> M] /\ UNCHANGED <<dash, inbox, logs, gap>>
    BY <1>4 DEF ReadPage
  <2>1. PICK M \in Distinct(P) :
           page' = [at |-> "read", rows |-> M] /\ UNCHANGED <<dash, inbox, logs, gap>>
    BY <2>p
  <2>2. M \subseteq heard /\ OneEach(M)
    BY <1>0, <1>d, PageFacts DEF DashTypes
  <2>a. absent' \subseteq heard
    BY <1>4 DEF ReadPage
  <2>3. DashTypes'
    BY <1>0, <1>2, <2>1, <2>2, <2>a DEF DashTypes, OneEach
  <2> QED
    BY <1>2, <2>3 DEF Types
<1>5. CASE ApplyPage
  <2>1. /\ logs' = Merge(logs, page.rows) /\ page' = [at |-> "applied", rows |-> {}]
        /\ UNCHANGED <<dash, inbox, gap, absent>>
    BY <1>5 DEF ApplyPage
  <2>2. logs' \subseteq heard /\ OneEach(logs') /\ Cardinality(logs') <= MaxLogs
    BY <1>d, <2>1, MergeFacts
  <2>3. DashTypes'
    BY <1>0, <1>2, <1>e, <2>1, <2>2 DEF DashTypes, OneEach
  <2> QED
    BY <1>2, <2>3 DEF Types
<1>6. CASE Receive
  <2>1. /\ logs' = Merge(logs, {Head(inbox)}) /\ inbox' = Tail(inbox) /\ inbox # <<>>
        /\ UNCHANGED <<dash, page, gap, absent>>
    BY <1>6 DEF Receive
  <2>2. /\ Head(inbox) \in heard /\ Tail(inbox) \in Seq(heard)
        /\ Len(inbox) \in Nat \ {0} /\ Len(Tail(inbox)) = Len(inbox) - 1
    BY <1>d, <2>1, TailFacts
  <2>3. {Head(inbox)} \in SUBSET heard /\ OneEach({Head(inbox)})
    BY <2>2 DEF OneEach
  <2>4. logs' \subseteq heard /\ OneEach(logs') /\ Cardinality(logs') <= MaxLogs
    BY <1>d, <2>1, <2>3, MergeFacts
  <2>5. inbox' \in Seq(heard) /\ Len(inbox') <= InboxCap
    BY <1>d, <2>1, <2>2, Bounds
  <2>6. DashTypes'
    BY <1>0, <1>2, <2>1, <2>4, <2>5 DEF DashTypes, OneEach
  <2> QED
    BY <1>2, <2>6 DEF Types
<1> QED
  BY <1>3, <1>4, <1>5, <1>6 DEF DashStep

\* Rows leave the store.
LEMMA StoreFrame ==
    ASSUME rows \subseteq heard, Prune \/ DeleteMachine
    PROVE  /\ rows' \subseteq heard
           /\ UNCHANGED <<srcVars, known, n, tailVars, fwd, seq, netVars, heard, dashVars>>
  BY DEF Prune, DeleteMachine

LEMMA TypesStore ==
    ASSUME Types, Prune \/ DeleteMachine
    PROVE  Types'
<1>0. SrcTypes /\ AgentTypes /\ NetTypes /\ DashTypes
  BY DEF Types
<1>1. /\ rows' \subseteq heard
      /\ UNCHANGED <<srcVars, known, n, tailVars, fwd, seq, netVars, heard, dashVars>>
  BY <1>0, StoreFrame DEF DashTypes
<1>2. SrcTypes' /\ AgentTypes' /\ NetTypes'
  BY <1>0, <1>1 DEF SrcTypes, AgentTypes, NetTypes, srcVars, tailVars, netVars
<1>3. DashTypes'
  BY <1>0, <1>1 DEF DashTypes, OneEach, dashVars
<1> QED
  BY <1>2, <1>3 DEF Types

LEMMA TypesNet ==
    ASSUME Types, Connect \/ Break \/ AgentRestarts
    PROVE  Types'
<1>0. SrcTypes /\ AgentTypes /\ NetTypes /\ DashTypes
  BY DEF Types
<1>1. UNCHANGED <<srcVars, dashVars, heard, rows, torn, skipped, seq, n>>
  BY DEF Connect, Break, AgentRestarts, tailVars
<1>2. SrcTypes' /\ DashTypes'
  BY <1>0, <1>1 DEF SrcTypes, DashTypes, OneEach, srcVars, dashVars
<1>3. CASE Connect
  <2>1. UNCHANGED <<known, tail, ch, fwd, wire, lost>> /\ link' = TRUE
    BY <1>3 DEF Connect, tailVars
  <2>2. AgentTypes' /\ NetTypes'
    BY <1>0, <1>1, <2>1 DEF AgentTypes, NetTypes
  <2> QED
    BY <1>2, <2>2 DEF Types
<1>4. CASE Break
  <2>1. UNCHANGED <<known, tail, ch, fwd>>
    BY <1>4 DEF Break, tailVars
  <2>2. AgentTypes' /\ NetTypes'
    BY <1>0, <1>1, <1>4, <2>1, BreakDoes DEF AgentTypes
  <2> QED
    BY <1>2, <2>2 DEF Types
<1>5. CASE AgentRestarts
  <2>1. /\ known' = FALSE /\ link' = FALSE /\ lost' = (lost \/ wire.cur # <<>>)
        /\ fwd' = [e \in Streams |-> IF Alive(e) THEN "off" ELSE fwd[e]]
        /\ tail' = [e \in Streams |-> NoTail]
        /\ ch' = [e \in Streams |-> <<>>]
        /\ wire' = [wire EXCEPT !.cur = <<>>]
    BY <1>5 DEF AgentRestarts
  <2>2. NoTail \in Tails
    BY Bounds, EmptyFacts DEF NoTail, Tails, Stages, Paths, Units
  <2>3. <<>> \in Seq(Text) /\ Len(<<>>) <= ChanCap /\ <<>> \in Queues
    BY EmptyFacts, Bounds DEF Queues
  <2>4. tail' \in [Streams -> Tails] /\ ch' \in [Streams -> Seq(Text)]
        /\ \A e \in Streams : Len(ch'[e]) <= ChanCap
    BY <2>1, <2>2, <2>3
  <2>5. fwd' \in [Streams -> {"none", "on", "cancelled", "off"}]
    BY <1>0, <2>1 DEF AgentTypes
  <2>6. AgentTypes'
    BY <1>0, <1>1, <2>1, <2>4, <2>5 DEF AgentTypes
  <2>7. lost' \in BOOLEAN /\ wire' \in [cur : Queues, old : Queues]
    BY <1>0, <2>1, <2>3 DEF NetTypes
  <2> QED
    BY <1>2, <2>1, <2>6, <2>7 DEF Types, NetTypes
<1> QED
  BY <1>3, <1>4, <1>5

LEMMA TypesStep == Types /\ [Next]_vars => Types'
<1> SUFFICES ASSUME Types, [Next]_vars PROVE Types'
  OBVIOUS
<1>1. CASE UNCHANGED vars
  BY <1>1 DEF vars, Types, SrcTypes, AgentTypes, NetTypes, DashTypes, OneEach
<1>2. CASE Next
  BY <1>2, TypesAgent, TypesSource, TypesServer, TypesRest, TypesStore, TypesNet DEF Next, Environment
<1> QED
  BY <1>1, <1>2

-----------------------------------------------------------------------------
(***************************************************************************)
(* Frames: what a step that leaves a stream alone, or ends it, keeps.      *)
(***************************************************************************)
LEMMA SentFacts ==
    ASSUME Types, NEW e
    PROVE  /\ Sent(e) \subseteq Rows /\ heard \subseteq Rows /\ Flight \subseteq Rows
           /\ LinesOf(Sent(e)) \subseteq Nat
           /\ \A r \in Sent(e) : r.seq \in Nat /\ r.line \in Nat
<1>1. wire.cur \in Seq(Rows) /\ wire.old \in Seq(Rows) /\ heard \subseteq Rows
  BY WireFacts DEF Types, DashTypes
<1>2. Flight \subseteq Rows
  BY <1>1 DEF Flight, Items
<1>3. Sent(e) \subseteq Rows
  BY <1>1, <1>2 DEF Sent
<1>4. \A r \in Rows : r.seq \in Nat /\ r.line \in Nat
  BY TextFacts DEF Rows, OldLine
<1> QED
  BY <1>1, <1>2, <1>3, <1>4 DEF LinesOf

LEMMA ItemsFacts ==
    ASSUME Types, NEW e \in Streams
    PROVE  /\ Items(ch[e]) \subseteq Nat /\ Items(tail[e].pend) \subseteq Nat
           /\ Items(ch[e]) \subseteq Text /\ Items(tail[e].pend) \subseteq Text
<1>1. ch[e] \in Seq(Text) /\ tail[e].pend \in Seq(Text)
  BY RecordFacts DEF Types
<1>2. Items(ch[e]) \subseteq Text /\ Items(tail[e].pend) \subseteq Text
  BY <1>1 DEF Items
<1> QED
  BY <1>2, TextFacts

LEMMA SentShrinks ==
    ASSUME heard' \cup Flight' \subseteq heard \cup Flight, NEW e
    PROVE  Sent(e)' \subseteq Sent(e)
  BY DEF Sent

LEMMA StreamFrame ==
    ASSUME Types, NEW d \in Streams, StreamInv(d), Sent(d)' \subseteq Sent(d), seq'[d] = seq[d],
           ch'[d] = ch[d] \/ ch'[d] = <<>>,
           fwd'[d] = "on" => /\ fwd[d] = "on" /\ tail'[d].pend = tail[d].pend
                             /\ \A l \in Nat : Behind(d, l) => Behind(d, l)'
    PROVE  StreamInv(d)'
<1>1. Items(ch'[d]) \subseteq Items(ch[d]) /\ Ascends(ch'[d])
  <2>1. Ascends(ch[d])
    BY DEF StreamInv, ChanInv
  <2> QED
    BY <2>1, EmptyFacts
<1>2. LinesOf(Sent(d)') \subseteq LinesOf(Sent(d))
  BY DEF LinesOf
<1>3. NumberInv(d)'
  BY DEF StreamInv, NumberInv, InOrder
<1>4. ChanInv(d)'
  BY <1>1, <1>2 DEF StreamInv, ChanInv, Below, LinesOf
<1>5. ASSUME fwd'[d] = "on" PROVE TailInv(d)'
  <2>1. TailInv(d) /\ tail'[d].pend = tail[d].pend
    BY <1>5 DEF StreamInv
  <2>2. Ascends(tail'[d].pend)
    BY <2>1 DEF TailInv
  <2>3. Items(tail'[d].pend) = Items(tail[d].pend)
    BY <2>1
  <2>4. Below(LinesOf(Sent(d)') \cup Items(ch'[d]), Items(tail'[d].pend))
    BY <1>1, <1>2, <2>1, <2>3 DEF TailInv, Below
  <2>5. ASSUME NEW l \in LinesOf(Sent(d)') \cup Items(ch'[d]) \cup Items(tail'[d].pend)
        PROVE  Behind(d, l)'
    <3>1. l \in LinesOf(Sent(d)) \cup Items(ch[d]) \cup Items(tail[d].pend)
      BY <1>1, <1>2, <2>3, <2>5
    <3>2. l \in Nat /\ Behind(d, l)
      BY <2>1, <3>1, SentFacts, ItemsFacts DEF TailInv
    <3> QED
      BY <1>5, <3>2
  <2> QED
    BY <2>2, <2>4, <2>5 DEF TailInv, LinesOf
<1> QED
  BY <1>3, <1>4, <1>5 DEF StreamInv

LEMMA StageFrame ==
    ASSUME NEW d \in Streams, StageOK(d), n' = n, Sent(d)' \subseteq Sent(d),
           ch'[d] = ch[d] \/ ch'[d] = <<>>,
           fwd'[d] = fwd[d] \/ (fwd'[d] \notin {"none", "on"} /\ fwd[d] # "none"),
           tail'[d] = tail[d] \/ tail'[d] = NoTail
    PROVE  StageOK(d)'
<1>1. CASE tail'[d] = tail[d]
  BY <1>1 DEF StageOK
<1>2. CASE tail'[d] = NoTail
  <2>1. tail'[d].at = "none" /\ tail'[d].pend = <<>>
    BY <1>2 DEF NoTail
  <2> QED
    BY <2>1 DEF StageOK
<1> QED
  BY <1>1, <1>2

\* The file grows or is truncated: the lines behind a tail stay behind it.
LEMMA BehindGrows ==
    ASSUME Types, (\E k \in 1 .. 3 : Write(k)) \/ Rotate, NEW d \in Streams,
           NEW l \in Nat, Behind(d, l)
    PROVE  Behind(d, l)'
<1>1. PICK f \in Nat, z \in Nat : f = file.first /\ z = file.size
  BY FileFacts DEF Types
<1>2. UNCHANGED <<tail, reader>>
  BY DEF Write, Rotate, tailVars
<1>3. PICK o \in Nat : o = tail[d].off
  BY RecordFacts, Bounds DEF Types
<1>t. file \in [made : BOOLEAN, first : 1 .. MaxLines + 1, size : Units]
  BY DEF Types, SrcTypes
<1>4. CASE \E k \in 1 .. 3 : Write(k)
  <2>1. PICK k \in 1 .. 3 : file' = [file EXCEPT !.made = TRUE, !.size = z + k]
    BY <1>1, <1>4 DEF Write
  <2>2. file'.first = f /\ file'.size = z + k
    BY <1>1, <1>t, <2>1
  <2>3. \A a \in Int : (a < z => a < z + k) /\ (a <= z => a <= z + k)
    OBVIOUS
  <2>4. 3 * (l - f) \in Int
    OBVIOUS
  <2> QED
    BY <1>1, <1>2, <1>3, <2>2, <2>3, <2>4 DEF Behind
<1>5. CASE Rotate
  <2>1. PICK k \in Nat, m \in 0 .. 2 : k = z \div 3 /\ m = z % 3 /\ z = 3 * k + m
    BY Thirds
  <2>2. m = 0 /\ file' = [file EXCEPT !.first = f + k, !.size = 0]
    BY <1>1, <1>5, <2>1 DEF Rotate, NextLine
  <2>3. file'.first = f + k /\ z = 3 * k
    <3>1. file'.first = f + k
      BY <1>t, <2>2
    <3>2. z = 3 * k
      BY <2>1, <2>2
    <3> QED
      BY <3>1, <3>2
  <2>4. l < f \/ 3 * (l - f) < z
    <3>1. l < f \/ 3 * (l - f) < z \/ (3 * (l - f) < o /\ o <= z)
      BY <1>1, <1>3 DEF Behind
    <3> QED
      BY <3>1
  <2>5. l < f + k
    BY <2>3, <2>4
  <2> QED
    BY <2>3, <2>5 DEF Behind
<1> QED
  BY <1>4, <1>5

-----------------------------------------------------------------------------
(***************************************************************************)
(* Order.                                                                  *)
(***************************************************************************)

\* What a step of a tail leaves alone.
LEMMA TailStepKeeps ==
    ASSUME Types, NEW e \in Streams, TailStep(e)
    PROVE  /\ UNCHANGED <<srcVars, known, n, fwd, seq, netVars, heard, rows, dashVars>>
           /\ fwd[e] = "on" /\ tail[e].at # "none"
           /\ Sent(e)' = Sent(e) /\ \A d : Sent(d)' = Sent(d)
           /\ \A d \in Streams \ {e} : tail'[d] = tail[d] /\ ch'[d] = ch[d]
           /\ torn \subseteq torn'
<1>t. tail \in [Streams -> Tails] /\ ch \in [Streams -> Seq(Text)]
  BY DEF Types, AgentTypes
<1>1. /\ UNCHANGED <<srcVars, known, n, fwd, seq, netVars, heard, rows, dashVars>>
      /\ fwd[e] = "on" /\ tail[e].at # "none"
  BY DEF TailStep, TailBackfill, TailEmit, TailFilled, TailTick, TailRead, TailDone
<1>2. \A d : Sent(d)' = Sent(d)
  BY <1>1 DEF Sent, Flight, netVars
<1>3. \A d \in Streams \ {e} : tail'[d] = tail[d] /\ ch'[d] = ch[d]
  <2>1. ASSUME NEW t \in Tails, tail' = [tail EXCEPT ![e] = t]
        PROVE  \A d \in Streams \ {e} : tail'[d] = tail[d]
    BY <1>t, <2>1
  <2>2. CASE TailEmit(e)
    <3>1. PICK x \in Text : /\ \A d \in Streams \ {e} : tail'[d] = tail[d]
                            /\ ch' = [ch EXCEPT ![e] = Append(ch[e], x)]
      BY <2>1, <2>2, EmitDoes
    <3> QED
      BY <1>t, <3>1
  <2>3. CASE TailBackfill(e)
    BY <2>1, <2>3, BackfillDoes DEF TailBackfill
  <2>4. CASE TailFilled(e)
    BY <2>1, <2>4, FilledDoes DEF TailFilled
  <2>5. CASE TailTick(e)
    BY <2>1, <2>5, TickDoes DEF TailTick
  <2>6. CASE TailRead(e)
    BY <2>1, <2>6, ReadDoes DEF TailRead
  <2>7. CASE TailDone(e)
    BY <2>1, <2>7, DoneDoes DEF TailDone
  <2> QED
    BY <2>2, <2>3, <2>4, <2>5, <2>6, <2>7 DEF TailStep
<1>4. torn \subseteq torn'
  <2>1. CASE TailBackfill(e)
    BY <2>1, BackfillDoes
  <2>2. CASE TailRead(e)
    BY <2>2, ReadDoes
  <2>3. CASE TailEmit(e) \/ TailFilled(e) \/ TailTick(e) \/ TailDone(e)
    BY <2>3 DEF TailEmit, TailFilled, TailTick, TailDone
  <2> QED
    BY <2>1, <2>2, <2>3 DEF TailStep
<1> QED
  BY <1>1, <1>2, <1>3, <1>4

\* The lines on the way stay behind the tail.
LEMMA HeldFrame ==
    ASSUME Types, NEW e \in Streams, TailInv(e), Sent(e)' = Sent(e), ch'[e] = ch[e],
           tail'[e].pend = tail[e].pend \/ tail'[e].pend = <<>>,
           \A l \in Nat : Behind(e, l) => Behind(e, l)'
    PROVE  TailInv(e)'
<1>1. Items(tail'[e].pend) \subseteq Items(tail[e].pend) /\ Ascends(tail'[e].pend)
  BY EmptyFacts DEF TailInv
<1>2. LinesOf(Sent(e)') = LinesOf(Sent(e)) /\ Items(ch'[e]) = Items(ch[e])
  OBVIOUS
<1>3. \A l \in LinesOf(Sent(e)) \cup Items(ch[e]) \cup Items(tail[e].pend) : l \in Nat /\ Behind(e, l)
  BY SentFacts, ItemsFacts DEF TailInv
<1>4. Below(LinesOf(Sent(e)') \cup Items(ch'[e]), Items(tail'[e].pend))
  BY <1>1, <1>2 DEF TailInv, Below
<1>5. \A l \in LinesOf(Sent(e)') \cup Items(ch'[e]) \cup Items(tail'[e].pend) : Behind(e, l)'
  BY <1>1, <1>2, <1>3
<1> QED
  BY <1>1, <1>4, <1>5 DEF TailInv, LinesOf

LEMMA OrderTail ==
    ASSUME Types, NEW e \in Streams, StageOK(e), StreamInv(e), TailStep(e), e \notin torn'
    PROVE  StreamInv(e)'
<1>0. /\ UNCHANGED <<file, reader>> /\ fwd'[e] = fwd[e] /\ seq'[e] = seq[e]
      /\ fwd[e] = "on" /\ Sent(e)' = Sent(e)
  BY TailStepKeeps DEF srcVars
<1>i. TailInv(e) /\ ChanInv(e) /\ NumberInv(e)
  BY <1>0 DEF StreamInv
<1>n. NumberInv(e)'
  BY <1>0, <1>i DEF NumberInv
<1>c. ch'[e] = ch[e] => ChanInv(e)'
  BY <1>0, <1>i DEF ChanInv, LinesOf
<1>f. PICK f \in Nat, z \in Nat : f = file.first /\ z = file.size /\ 1 <= f
  BY FileFacts DEF Types
<1>r. reader \in {"scanner", "complete"}
  BY FileFacts DEF Types
<1>t. tail \in [Streams -> Tails] /\ tail[e] \in Tails /\ tail[e].off \in Nat
  BY RecordFacts, Bounds DEF Types, AgentTypes
<1>x. \A t : tail' = [tail EXCEPT ![e] = t] => tail'[e] = t
  BY <1>t
<1>1. CASE TailBackfill(e)
  <2>1. PICK t \in Tails :
           /\ tail'[e] = t /\ t.at = "fill" /\ Ascends(t.pend)
           /\ t.path # "own" => Items(t.pend) = {OldLine}
           /\ t.path = "own" => \A l \in Items(t.pend) : Whole(l)
           /\ t.path = "own" /\ reader = "scanner" => t.off = file.size
    BY <1>1, <1>x, BackfillDoes
  <2>2. ch'[e] = ch[e] /\ ch[e] = <<>> /\ Sent(e) = {}
    BY <1>0, <1>1 DEF TailBackfill, StageOK
  <2>3. LinesOf(Sent(e)') = {} /\ Items(ch'[e]) = {}
    BY <1>0, <2>2, EmptyFacts DEF LinesOf
  <2>4. ASSUME NEW l \in Items(t.pend) PROVE Behind(e, l)'
    <3>1. CASE t.path = "own"
      <4>1. l \in Nat /\ l >= f /\ 3 * (l - f) + 2 <= z
        BY <1>f, <2>1, <2>4, <3>1, TextFacts DEF Whole
      <4>2. 3 * (l - f) < z
        BY <4>1
      <4>3. reader = "complete" \/ t.off = z
        BY <1>f, <1>r, <2>1, <3>1
      <4>4. file'.first = f /\ file'.size = z /\ reader' = reader
        BY <1>0, <1>f
      <4> QED
        BY <2>1, <3>1, <4>2, <4>3, <4>4 DEF Behind
    <3>2. CASE t.path # "own"
      <4>1. l = 0 /\ file'.first = f
        BY <1>0, <1>f, <2>1, <2>4, <3>2 DEF OldLine
      <4>2. l < file'.first
        BY <1>f, <4>1
      <4> QED
        BY <4>2 DEF Behind
    <3> QED
      BY <3>1, <3>2
  <2>5. TailInv(e)'
    BY <2>1, <2>3, <2>4 DEF TailInv, Below, LinesOf
  <2> QED
    BY <1>c, <1>n, <2>2, <2>5 DEF StreamInv
<1>2. CASE TailEmit(e)
  <2>1. PICK t \in Tails, x \in Text :
           /\ tail'[e] = t /\ t.at = tail[e].at /\ t.path = tail[e].path /\ t.off = tail[e].off
           /\ t.pend = Tail(tail[e].pend) /\ x = Head(tail[e].pend) /\ tail[e].pend # <<>>
           /\ ch'[e] = Append(ch[e], x)
    BY <1>2, <1>x, EmitDoes
  <2>2. tail[e].pend \in Seq(Text) /\ ch[e] \in Seq(Text) /\ Ascends(tail[e].pend) /\ Ascends(ch[e])
    BY <1>i, RecordFacts DEF Types, TailInv, ChanInv
  <2>3. Items(tail[e].pend) = {x} \cup Items(t.pend)
    BY <2>1, <2>2, TailFacts
  <2>4. Ascends(t.pend) /\ \A y \in Items(t.pend) : x < y
    BY <2>1, <2>2, AscendsTail
  <2>5. Items(ch'[e]) = Items(ch[e]) \cup {x}
    BY <2>1, <2>2, AppendFacts
  <2>6. Below(LinesOf(Sent(e)) \cup Items(ch[e]), {x} \cup Items(t.pend))
    BY <1>i, <2>3 DEF TailInv
  <2>7. Ascends(ch'[e])
    <3>1. \A y \in Items(ch[e]) : y < x
      BY <2>6 DEF Below
    <3> QED
      BY <2>1, <2>2, <3>1, AscendsAppend
  <2>8. LinesOf(Sent(e)') = LinesOf(Sent(e))
    BY <1>0
  <2>9. Below(LinesOf(Sent(e)'), Items(ch'[e]))
    BY <1>i, <2>5, <2>6, <2>8 DEF ChanInv, Below
  <2>10. Below(LinesOf(Sent(e)') \cup Items(ch'[e]), Items(t.pend))
    BY <2>4, <2>5, <2>6, <2>8 DEF Below
  <2>11. \A l \in LinesOf(Sent(e)) \cup Items(ch[e]) \cup Items(tail[e].pend) : Behind(e, l)
    BY <1>i DEF TailInv
  <2>12. \A l : Behind(e, l) => Behind(e, l)'
    BY <1>0, <2>1 DEF Behind
  <2>13. \A l \in LinesOf(Sent(e)') \cup Items(ch'[e]) \cup Items(t.pend) : Behind(e, l)'
    BY <2>3, <2>5, <2>8, <2>11, <2>12
  <2>14. TailInv(e)' /\ ChanInv(e)'
    BY <2>1, <2>4, <2>7, <2>9, <2>10, <2>13 DEF TailInv, ChanInv, LinesOf
  <2> QED
    BY <1>n, <2>14 DEF StreamInv
<1>3. CASE TailFilled(e)
  <2>1. PICK t \in Tails :
           /\ tail'[e] = t /\ tail[e].at = "fill" /\ t.at = "wait" /\ t.path = tail[e].path
           /\ t.pend = <<>>
           /\ IF t.path = "own" /\ reader = "complete" THEN t.off = file.size ELSE t.off = tail[e].off
    BY <1>3, <1>x, FilledDoes
  <2>2. ch'[e] = ch[e]
    BY <1>3 DEF TailFilled
  <2>3. ASSUME NEW l \in Nat, Behind(e, l) PROVE Behind(e, l)'
    <3>1. file'.first = f /\ file'.size = z /\ reader' = reader
      BY <1>0, <1>f
    <3> QED
      BY <1>f, <1>r, <2>1, <2>3, <3>1 DEF Behind
  <2>4. TailInv(e)'
    BY <1>0, <1>i, <2>1, <2>2, <2>3, HeldFrame
  <2> QED
    BY <1>c, <1>n, <2>2, <2>4 DEF StreamInv
<1>4. CASE TailTick(e)
  <2>1. PICK t \in Tails :
           /\ tail'[e] = t /\ tail[e].at = "wait" /\ t.at \in {"wait", "read"}
           /\ t.path = tail[e].path /\ t.pend = tail[e].pend
           /\ t.off = tail[e].off \/ (t.off = 0 /\ file.size < tail[e].off)
    BY <1>4, <1>x, TickDoes
  <2>2. ch'[e] = ch[e]
    BY <1>4 DEF TailTick
  <2>3. ASSUME NEW l \in Nat, Behind(e, l) PROVE Behind(e, l)'
    <3>1. file'.first = f /\ file'.size = z /\ reader' = reader
      BY <1>0, <1>f
    <3>2. l < f \/ (tail[e].path = "own" /\ 3 * (l - f) < tail[e].off /\ tail[e].off <= z)
      BY <1>f, <2>1, <2>3 DEF Behind
    <3>3. z < tail[e].off => l < f
      BY <1>t, <3>2
    <3> QED
      BY <1>f, <2>1, <3>1, <3>2, <3>3 DEF Behind
  <2>4. TailInv(e)'
    BY <1>0, <1>i, <2>1, <2>2, <2>3, HeldFrame
  <2> QED
    BY <1>c, <1>n, <2>2, <2>4 DEF StreamInv
<1>5. CASE TailRead(e)
  <2>1. PICK t \in Tails :
           /\ tail'[e] = t /\ tail[e].at = "read" /\ t.at = "emit" /\ t.path = tail[e].path
           /\ Ascends(t.pend) /\ tail[e].off <= t.off
           /\ t.off = tail[e].off \/ t.off <= file.size
           /\ \A l \in Items(t.pend) :
                 /\ l \in Chat /\ l >= file.first /\ tail[e].off <= 3 * (l - file.first)
                 /\ 3 * (l - file.first) < t.off /\ t.off <= file.size
    BY <1>5, <1>x, ReadDoes
  <2>2. ch'[e] = ch[e]
    BY <1>5 DEF TailRead
  <2>3. tail[e].path = "own"
    BY <2>1 DEF StageOK
  <2>f. file'.first = f /\ file'.size = z /\ reader' = reader
    BY <1>0, <1>f
  <2>o. t.off \in Nat /\ Items(t.pend) \subseteq Nat
    <3>1. t.off \in Nat
      BY Bounds DEF Tails
    <3>2. \A l \in Items(t.pend) : l \in Chat
      BY <2>1
    <3>3. \A l \in Chat : l \in Nat
      BY TextFacts
    <3> QED
      BY <3>1, <3>2, <3>3
  <2>4. ASSUME NEW l \in Nat, Behind(e, l)
        PROVE  Behind(e, l)' /\ \A y \in Items(t.pend) : l < y
    <3>1. l < f \/ (3 * (l - f) < tail[e].off /\ tail[e].off <= z)
      BY <1>f, <2>1, <2>4 DEF Behind
    <3>2. l < f \/ (3 * (l - f) < t.off /\ t.off <= z)
      BY <1>f, <1>t, <2>1, <2>o, <3>1
    <3>3. Behind(e, l)'
      BY <2>1, <2>3, <2>f, <3>2 DEF Behind
    <3>4. ASSUME NEW y \in Items(t.pend) PROVE l < y
      <4>1. y \in Nat /\ y >= f /\ tail[e].off <= 3 * (y - f)
        BY <1>f, <2>1, <2>o
      <4> QED
        BY <1>t, <3>1, <4>1
    <3> QED
      BY <3>3, <3>4
  <2>5. ASSUME NEW l \in Items(t.pend) PROVE Behind(e, l)'
    <3>1. 3 * (l - f) < t.off /\ t.off <= z
      BY <1>f, <2>1
    <3> QED
      BY <2>1, <2>3, <2>f, <3>1 DEF Behind
  <2>6. \A l \in LinesOf(Sent(e)) \cup Items(ch[e]) :
           Behind(e, l)' /\ \A y \in Items(t.pend) : l < y
    <3>1. \A l \in LinesOf(Sent(e)) \cup Items(ch[e]) : l \in Nat /\ Behind(e, l)
      BY <1>i, SentFacts, ItemsFacts DEF TailInv
    <3> QED
      BY <2>4, <3>1
  <2>7. LinesOf(Sent(e)') = LinesOf(Sent(e))
    BY <1>0
  <2>8. TailInv(e)'
    BY <2>1, <2>2, <2>5, <2>6, <2>7 DEF TailInv, Below, LinesOf
  <2> QED
    BY <1>c, <1>n, <2>2, <2>8 DEF StreamInv
<1>6. CASE TailDone(e)
  <2>1. PICK t \in Tails :
           /\ tail'[e] = t /\ tail[e].at = "emit" /\ t.at = "wait" /\ t.path = tail[e].path
           /\ t.pend = <<>> /\ t.off = tail[e].off
    BY <1>6, <1>x, DoneDoes
  <2>2. ch'[e] = ch[e]
    BY <1>6 DEF TailDone
  <2>3. \A l \in Nat : Behind(e, l) => Behind(e, l)'
    BY <1>0, <2>1 DEF Behind
  <2>4. TailInv(e)'
    BY <1>0, <1>i, <2>1, <2>2, <2>3, HeldFrame
  <2> QED
    BY <1>c, <1>n, <2>2, <2>4 DEF StreamInv
<1> QED
  BY <1>1, <1>2, <1>3, <1>4, <1>5, <1>6 DEF TailStep

LEMMA StageTail ==
    ASSUME Types, NEW e \in Streams, StageOK(e), TailStep(e)
    PROVE  StageOK(e)'
<1>0. n' = n /\ fwd'[e] = fwd[e] /\ fwd[e] = "on"
  BY TailStepKeeps
<1>x. \A t : tail' = [tail EXCEPT ![e] = t] => tail'[e] = t
  BY DEF Types, AgentTypes
<1>1. CASE TailBackfill(e)
  <2>1. tail'[e].at = "fill"
    BY <1>1, <1>x, BackfillDoes
  <2> QED
    BY <1>0, <2>1 DEF StageOK
<1>2. CASE TailEmit(e)
  <2>1. tail'[e].at = tail[e].at /\ tail'[e].path = tail[e].path
    BY <1>2, <1>x, EmitDoes
  <2>2. tail[e].at \in {"fill", "emit"}
    BY <1>2 DEF TailEmit
  <2> QED
    BY <1>0, <2>1, <2>2 DEF StageOK
<1>3. CASE TailFilled(e)
  <2>1. tail'[e].at = "wait" /\ tail'[e].pend = <<>>
    BY <1>3, <1>x, FilledDoes
  <2> QED
    BY <1>0, <2>1 DEF StageOK
<1>4. CASE TailTick(e)
  <2>1. /\ tail[e].at = "wait" /\ tail'[e].at \in {"wait", "read"} /\ tail'[e].path = "own"
        /\ tail'[e].pend = tail[e].pend
    BY <1>4, <1>x, TickDoes
  <2> QED
    BY <1>0, <2>1 DEF StageOK
<1>5. CASE TailRead(e)
  <2>1. tail[e].at = "read" /\ tail'[e].at = "emit" /\ tail'[e].path = tail[e].path
    BY <1>5, <1>x, ReadDoes
  <2> QED
    BY <1>0, <2>1 DEF StageOK
<1>6. CASE TailDone(e)
  <2>1. tail'[e].at = "wait" /\ tail'[e].pend = <<>>
    BY <1>6, <1>x, DoneDoes
  <2> QED
    BY <1>0, <2>1 DEF StageOK
<1> QED
  BY <1>1, <1>2, <1>3, <1>4, <1>5, <1>6 DEF TailStep

LEMMA OrderForward ==
    ASSUME Types, NEW e \in Streams, StreamInv(e), Forward(e)
    PROVE  StreamInv(e)'
<1>1. PICK x \in Text :
         /\ x = Head(ch[e]) /\ ch[e] # <<>> /\ ch[e] \in Seq(Text)
         /\ ch'[e] = Tail(ch[e]) /\ seq'[e] = seq[e] + 1
         /\ Flight' \subseteq Flight \cup {Row(e, seq[e] + 1, x)}
  BY ForwardDoes
<1>2. UNCHANGED <<file, reader, tail, fwd, heard, rows>>
  BY DEF Forward, srcVars
<1>3. PICK k \in Nat : k = seq[e]
  BY DEF Types, AgentTypes
<1>r. PICK r : r = Row(e, k + 1, x)
  OBVIOUS
<1>4. r = Row(e, k + 1, x) /\ r.seq = k + 1 /\ r.line = x /\ r.stream = e
  BY <1>r DEF Row
<1>5. Sent(e)' \subseteq Sent(e) \cup {r}
  BY <1>1, <1>2, <1>3, <1>4 DEF Sent
<1>6. Items(ch[e]) = {x} \cup Items(ch'[e])
  BY <1>1, TailFacts
<1>7. Ascends(ch'[e]) /\ \A y \in Items(ch'[e]) : x < y
  BY <1>1, AscendsTail DEF StreamInv, ChanInv
<1>8. Below(LinesOf(Sent(e)), {x} \cup Items(ch'[e]))
  BY <1>6 DEF StreamInv, ChanInv
<1>9. LinesOf(Sent(e)') \subseteq LinesOf(Sent(e)) \cup {x}
  BY <1>4, <1>5 DEF LinesOf
<1>10. NumberInv(e)'
  <2>1. \A q \in Sent(e) : q.seq \in Nat /\ q.seq <= k /\ q.line < x
    BY <1>3, <1>8, SentFacts DEF StreamInv, NumberInv, Below, LinesOf
  <2>2. \A q \in Sent(e) : q.seq < k + 1 /\ q.seq # k + 1 /\ ~(k + 1 < q.seq) /\ q.seq <= k + 1
    BY <2>1
  <2>3. \A p, q \in Sent(e) : (p.seq = q.seq => p = q) /\ (p.seq < q.seq => p.line < q.line)
    BY DEF StreamInv, NumberInv, InOrder
  <2>4. ASSUME NEW p \in Sent(e)', NEW q \in Sent(e)'
        PROVE  (p.seq = q.seq => p = q) /\ (p.seq < q.seq => p.line < q.line)
    <3>1. CASE p = r
      <4>1. ~(k + 1 < k + 1)
        OBVIOUS
      <4> QED
        BY <1>4, <1>5, <2>2, <2>4, <3>1, <4>1
    <3>2. CASE p # r
      BY <1>4, <1>5, <2>1, <2>2, <2>3, <2>4, <3>2
    <3> QED
      BY <3>1, <3>2
  <2>5. \A q \in Sent(e)' : q.seq <= k + 1
    BY <1>4, <1>5, <2>2
  <2> QED
    BY <1>1, <1>3, <2>4, <2>5 DEF NumberInv, InOrder
<1>11. ChanInv(e)'
  BY <1>7, <1>8, <1>9 DEF ChanInv, Below, LinesOf
<1>12. ASSUME fwd'[e] = "on" PROVE TailInv(e)'
  <2>1. TailInv(e)
    BY <1>2, <1>12 DEF StreamInv
  <2>2. LinesOf(Sent(e)') \cup Items(ch'[e]) \subseteq LinesOf(Sent(e)) \cup Items(ch[e])
    BY <1>6, <1>9
  <2>3. \A l : Behind(e, l) => Behind(e, l)'
    BY <1>2 DEF Behind
  <2>4. tail'[e].pend = tail[e].pend
    BY <1>2
  <2>5. Below(LinesOf(Sent(e)') \cup Items(ch'[e]), Items(tail'[e].pend))
    BY <2>1, <2>2, <2>4 DEF TailInv, Below
  <2>6. \A l \in LinesOf(Sent(e)') \cup Items(ch'[e]) \cup Items(tail'[e].pend) : Behind(e, l)'
    BY <2>1, <2>2, <2>3, <2>4 DEF TailInv
  <2> QED
    BY <2>1, <2>4, <2>5, <2>6 DEF TailInv, LinesOf
<1> QED
  BY <1>10, <1>11, <1>12 DEF StreamInv

\* A step of the agent.
LEMMA OrderAgent ==
    ASSUME Types, StageInv, OrderInv,
           Discover \/ DiscoverMisses \/ \E e \in Streams : StreamStep(e)
    PROVE  StageInv' /\ OrderInv'
<1>0. \A d \in Streams : StageOK(d) /\ (d \notin torn => StreamInv(d))
  BY DEF StageInv, OrderInv
<1>t. /\ tail \in [Streams -> Tails] /\ ch \in [Streams -> Seq(Text)] /\ seq \in [Streams -> Nat]
      /\ fwd \in [Streams -> {"none", "on", "cancelled", "off"}] /\ n \in 0 .. MaxStreams
  BY DEF Types, AgentTypes
<1>s. ASSUME UNCHANGED <<heard, rows, netVars>> PROVE \A d : Sent(d)' = Sent(d)
  BY <1>s DEF Sent, Flight, netVars
<1>1. CASE Discover
  <2>1. UNCHANGED <<srcVars, heard, rows, netVars, ch, torn, seq>>
    BY <1>1 DEF Discover
  <2>b. ASSUME NEW d \in Streams, tail'[d] = tail[d] PROVE \A l : Behind(d, l) => Behind(d, l)'
    BY <2>1, <2>b DEF Behind, srcVars
  <2>2. CASE NewestFile = "none"
    <3>1. UNCHANGED <<n, tail, fwd>>
      BY <1>1, <2>2 DEF Discover
    <3>2. \A d \in Streams : StageOK(d)' /\ (StreamInv(d) => StreamInv(d)')
      BY <1>0, <1>s, <2>1, <2>b, <3>1, StreamFrame, StageFrame
    <3> QED
      BY <1>0, <2>1, <3>2 DEF StageInv, OrderInv
  <2>3. CASE NewestFile # "none"
    <3>1. /\ n < MaxStreams /\ n' = n + 1 /\ fwd' = [fwd EXCEPT ![n + 1] = "on"]
          /\ tail' = [tail EXCEPT ![n + 1] = [NoTail EXCEPT !.at = "backfill", !.path = NewestFile]]
      BY <1>1, <2>3 DEF Discover, SetTail
    <3>2. PICK e \in Streams : e = n + 1
      BY <1>t, <3>1, Bounds DEF Streams
    <3>3. e > n /\ ~(e > n') /\ \A d \in Streams : d > n' => d > n
      BY <1>t, <3>1, <3>2, Bounds DEF Streams
    <3>4. \A d \in Streams \ {e} : tail'[d] = tail[d] /\ fwd'[d] = fwd[d]
      BY <1>t, <3>1, <3>2
    <3>5. fwd'[e] = "on" /\ tail'[e] = [NoTail EXCEPT !.at = "backfill", !.path = NewestFile]
      BY <1>t, <3>1, <3>2
    <3>6. tail'[e].at = "backfill" /\ tail'[e].pend = <<>>
      BY <3>5 DEF NoTail
    <3>7. ch[e] = <<>> /\ Sent(e) = {} /\ ch'[e] = <<>> /\ Sent(e)' = {}
      BY <1>0, <1>s, <2>1, <3>3 DEF StageOK
    <3>8. StageOK(e)'
      BY <3>3, <3>5, <3>6, <3>7 DEF StageOK
    <3>9. StreamInv(e)'
      <4>1. /\ Items(ch'[e]) = {} /\ Ascends(ch'[e]) /\ LinesOf(Sent(e)') = {}
            /\ Items(tail'[e].pend) = {} /\ Ascends(tail'[e].pend)
        BY <3>6, <3>7, EmptyFacts DEF LinesOf
      <4>2. NumberInv(e)'
        BY <3>7 DEF NumberInv, InOrder
      <4>3. ChanInv(e)' /\ TailInv(e)'
        BY <4>1 DEF ChanInv, TailInv, Below, LinesOf
      <4> QED
        BY <4>2, <4>3 DEF StreamInv
    <3>10. ASSUME NEW d \in Streams \ {e} PROVE StageOK(d)' /\ (StreamInv(d) => StreamInv(d)')
      <4>1. StageOK(d)'
        BY <1>0, <1>s, <2>1, <3>3, <3>4 DEF StageOK
      <4>2. StreamInv(d) => StreamInv(d)'
        BY <1>s, <2>1, <2>b, <3>4, StreamFrame
      <4> QED
        BY <4>1, <4>2
    <3> QED
      BY <1>0, <2>1, <3>8, <3>9, <3>10 DEF StageInv, OrderInv
  <2> QED
    BY <2>2, <2>3
<1>2. CASE DiscoverMisses
  <2>1. /\ UNCHANGED <<srcVars, heard, rows, netVars, ch, torn, seq, n>>
        /\ fwd' = [e \in Streams |-> IF fwd[e] = "on" THEN "cancelled" ELSE fwd[e]]
        /\ tail' = [e \in Streams |-> NoTail]
    BY <1>2 DEF DiscoverMisses
  <2>2. ASSUME NEW d \in Streams PROVE StageOK(d)' /\ (StreamInv(d) => StreamInv(d)')
    <3>1. fwd'[d] = (IF fwd[d] = "on" THEN "cancelled" ELSE fwd[d]) /\ tail'[d] = NoTail
      BY <2>1
    <3>2. fwd'[d] # "on" /\ (fwd'[d] = fwd[d] \/ (fwd'[d] = "cancelled" /\ fwd[d] # "none"))
      BY <3>1
    <3>3. StageOK(d)'
      BY <1>0, <1>s, <2>1, <3>1, <3>2, StageFrame
    <3>4. StreamInv(d) => StreamInv(d)'
      BY <1>s, <2>1, <3>2, StreamFrame
    <3> QED
      BY <3>3, <3>4
  <2> QED
    BY <1>0, <2>1, <2>2 DEF StageInv, OrderInv
<1>3. ASSUME NEW e \in Streams, StreamStep(e) PROVE StageInv' /\ OrderInv'
  <2>1. CASE TailStep(e)
    <3>1. /\ UNCHANGED <<srcVars, n, fwd, seq>> /\ \A d : Sent(d)' = Sent(d)
          /\ \A d \in Streams \ {e} : tail'[d] = tail[d] /\ ch'[d] = ch[d]
          /\ torn \subseteq torn'
      BY <2>1, TailStepKeeps
    <3>2. StageOK(e)' /\ (e \notin torn' => StreamInv(e)')
      BY <1>0, <2>1, <3>1, StageTail, OrderTail
    <3>3. ASSUME NEW d \in Streams \ {e} PROVE StageOK(d)' /\ (StreamInv(d) => StreamInv(d)')
      <4>1. \A l : Behind(d, l) => Behind(d, l)'
        BY <3>1 DEF Behind, srcVars
      <4>2. StageOK(d)'
        BY <1>0, <3>1, StageFrame
      <4>3. StreamInv(d) => StreamInv(d)'
        BY <3>1, <4>1, StreamFrame
      <4> QED
        BY <4>2, <4>3
    <3> QED
      BY <1>0, <3>1, <3>2, <3>3 DEF StageInv, OrderInv
  <2>2. CASE Forward(e)
    <3>1. UNCHANGED <<srcVars, heard, rows, n, tail, torn, fwd>>
      BY <2>2 DEF Forward
    <3>2. PICK x \in Text :
             /\ ch[e] # <<>> /\ Alive(e)
             /\ ch' = [ch EXCEPT ![e] = Tail(ch[e])] /\ seq' = [seq EXCEPT ![e] = seq[e] + 1]
             /\ Flight' \subseteq Flight \cup {Row(e, seq[e] + 1, x)}
      BY <2>2, ForwardDoes
    <3>3. StageOK(e)'
      <4>1. fwd[e] # "none" /\ ~(fwd[e] = "on" /\ tail[e].at = "backfill")
        BY <1>0, <3>2 DEF StageOK, Alive
      <4> QED
        BY <1>0, <3>1, <4>1 DEF StageOK
    <3>4. ASSUME NEW d \in Streams \ {e} PROVE StageOK(d)' /\ (StreamInv(d) => StreamInv(d)')
      <4>1. ch'[d] = ch[d] /\ seq'[d] = seq[d]
        BY <1>t, <3>2
      <4>2. Sent(d)' \subseteq Sent(d)
        BY <3>1, <3>2 DEF Sent, Row
      <4>3. \A l : Behind(d, l) => Behind(d, l)'
        BY <3>1 DEF Behind, srcVars
      <4>4. StageOK(d)'
        BY <1>0, <3>1, <4>1, <4>2, StageFrame
      <4>5. StreamInv(d) => StreamInv(d)'
        BY <3>1, <4>1, <4>2, <4>3, StreamFrame
      <4> QED
        BY <4>4, <4>5
    <3> QED
      BY <1>0, <2>2, <3>1, <3>3, <3>4, OrderForward DEF StageInv, OrderInv
  <2>3. CASE ForwarderExits(e)
    <3>1. /\ UNCHANGED <<srcVars, heard, rows, netVars, n, tail, torn, seq>> /\ fwd[e] = "cancelled"
          /\ fwd' = [fwd EXCEPT ![e] = "off"] /\ ch' = [ch EXCEPT ![e] = <<>>]
      BY <2>3 DEF ForwarderExits
    <3>2. ASSUME NEW d \in Streams PROVE StageOK(d)' /\ (StreamInv(d) => StreamInv(d)')
      <4>1. ch'[d] = ch[d] \/ ch'[d] = <<>>
        BY <1>t, <3>1
      <4>2. fwd'[d] = fwd[d] \/ (fwd'[d] = "off" /\ fwd[d] # "none")
        BY <1>t, <3>1
      <4>3. \A l : Behind(d, l) => Behind(d, l)'
        BY <3>1 DEF Behind, srcVars
      <4>4. StageOK(d)'
        BY <1>0, <1>s, <3>1, <4>1, <4>2, StageFrame
      <4>5. StreamInv(d) => StreamInv(d)'
        BY <1>s, <3>1, <4>1, <4>2, <4>3, StreamFrame
      <4> QED
        BY <4>4, <4>5
    <3> QED
      BY <1>0, <3>1, <3>2 DEF StageInv, OrderInv
  <2> QED
    BY <1>3, <2>1, <2>2, <2>3 DEF StreamStep
<1> QED
  BY <1>1, <1>2, <1>3

\* A step of the file, of a connection, of the server or of the dashboard.
LEMMA OrderRest ==
    ASSUME Types, StageInv, OrderInv,
           \/ (\E k \in 1 .. 3 : Write(k)) \/ Rotate
           \/ Connect \/ Break \/ AgentRestarts
           \/ ServerStep \/ DashStep \/ OpenPage \/ ClosePage \/ DashDrops \/ Prune \/ DeleteMachine
    PROVE  StageInv' /\ OrderInv'
<1>0. \A d \in Streams : StageOK(d) /\ (d \notin torn => StreamInv(d))
  BY DEF StageInv, OrderInv
<1>1. UNCHANGED <<n, torn, seq>>
  BY DEF Write, Rotate, Connect, Break, AgentRestarts, ServerStep, ServerReads, DashStep,
         DashConnects, ReadPage, ApplyPage, Receive, OpenPage, ClosePage, DashDrops, Prune,
         DeleteMachine, tailVars
<1>2. heard' \cup Flight' \subseteq heard \cup Flight
  <2>1. CASE Break
    BY <2>1, BreakDoes DEF Break
  <2>2. CASE ServerStep
    <3>1. PICK c \in {"cur", "old"} : ServerReads(c)
      BY <2>2 DEF ServerStep
    <3>2. PICK r \in Rows : heard' = heard \cup {r} /\ r \in Flight /\ Flight = Flight' \cup {r}
      BY <3>1, ServerDoes
    <3> QED
      BY <3>2
  <2>3. CASE AgentRestarts
    <3>1. heard' = heard /\ wire' = [wire EXCEPT !.cur = <<>>]
      BY <2>3 DEF AgentRestarts
    <3>2. wire'.cur = <<>> /\ wire'.old = wire.old
      BY <3>1 DEF Types, NetTypes
    <3> QED
      BY <3>1, <3>2, EmptyFacts DEF Flight
  <2>4. CASE \/ (\E k \in 1 .. 3 : Write(k)) \/ Rotate \/ Connect
             \/ DashStep \/ OpenPage \/ ClosePage \/ DashDrops \/ Prune \/ DeleteMachine
    <3>1. UNCHANGED <<heard, wire>>
      BY <2>4 DEF Write, Rotate, Connect, DashStep, DashConnects, ReadPage, ApplyPage, Receive,
                  OpenPage, ClosePage, DashDrops, Prune, DeleteMachine, netVars
    <3> QED
      BY <3>1 DEF Flight
  <2> QED
    BY <2>1, <2>2, <2>3, <2>4
<1>3. ASSUME NEW d \in Streams
      PROVE  /\ ch'[d] = ch[d] \/ ch'[d] = <<>>
             /\ fwd'[d] = fwd[d] \/ (fwd'[d] = "off" /\ fwd[d] # "none")
             /\ tail'[d] = tail[d] \/ tail'[d] = NoTail
             /\ fwd'[d] = "on" => /\ fwd[d] = "on" /\ tail'[d] = tail[d]
                                  /\ \A l \in Nat : Behind(d, l) => Behind(d, l)'
  <2>1. CASE AgentRestarts
    <3>1. /\ fwd' = [e \in Streams |-> IF Alive(e) THEN "off" ELSE fwd[e]]
          /\ tail' = [e \in Streams |-> NoTail] /\ ch' = [e \in Streams |-> <<>>]
      BY <2>1 DEF AgentRestarts
    <3>2. fwd'[d] = (IF Alive(d) THEN "off" ELSE fwd[d]) /\ tail'[d] = NoTail /\ ch'[d] = <<>>
      BY <3>1
    <3> QED
      BY <3>2 DEF Alive
  <2>2. CASE (\E k \in 1 .. 3 : Write(k)) \/ Rotate
    <3>1. UNCHANGED <<ch, fwd, tail>>
      BY <2>2 DEF Write, Rotate, tailVars
    <3>2. \A l \in Nat : Behind(d, l) => Behind(d, l)'
      BY <2>2, BehindGrows
    <3> QED
      BY <3>1, <3>2
  <2>3. CASE \/ Connect \/ Break
             \/ ServerStep \/ DashStep \/ OpenPage \/ ClosePage \/ DashDrops \/ Prune \/ DeleteMachine
    <3>1. UNCHANGED <<ch, fwd, tail, file, reader>>
      BY <2>3 DEF Connect, Break, ServerStep, ServerReads, DashStep, DashConnects, ReadPage,
                  ApplyPage, Receive, OpenPage, ClosePage, DashDrops, Prune, DeleteMachine, tailVars, srcVars
    <3> QED
      BY <3>1 DEF Behind
  <2> QED
    BY <2>1, <2>2, <2>3
<1>4. ASSUME NEW d \in Streams PROVE StageOK(d)' /\ (StreamInv(d) => StreamInv(d)')
  <2>1. Sent(d)' \subseteq Sent(d) /\ seq'[d] = seq[d]
    BY <1>1, <1>2, SentShrinks
  <2>2. StageOK(d)'
    BY <1>0, <1>1, <1>3, <2>1, StageFrame
  <2>3. StreamInv(d) => StreamInv(d)'
    BY <1>3, <2>1, StreamFrame
  <2> QED
    BY <2>2, <2>3
<1> QED
  BY <1>0, <1>1, <1>4 DEF StageInv, OrderInv

LEMMA OrderInit == Init => StageInv /\ OrderInv
<1> SUFFICES ASSUME Init PROVE StageInv /\ OrderInv
  OBVIOUS
<1>1. /\ n = 0 /\ heard = {} /\ wire = [cur |-> <<>>, old |-> <<>>]
      /\ \A e \in Streams : tail[e] = NoTail /\ ch[e] = <<>> /\ fwd[e] = "none"
  BY DEF Init
<1>2. \A e : Sent(e) = {}
  BY <1>1, EmptyFacts DEF Sent, Flight
<1>3. \A e \in Streams : StageOK(e)
  BY <1>1, <1>2 DEF StageOK, NoTail
<1>4. \A e \in Streams : StreamInv(e)
  BY <1>1, <1>2, EmptyFacts DEF StreamInv, NumberInv, ChanInv, InOrder, Below, LinesOf
<1> QED
  BY <1>3, <1>4 DEF StageInv, OrderInv

LEMMA OrderStep == Types /\ StageInv /\ OrderInv /\ [Next]_vars => StageInv' /\ OrderInv'
<1> SUFFICES ASSUME Types, StageInv, OrderInv, [Next]_vars PROVE StageInv' /\ OrderInv'
  OBVIOUS
<1>1. CASE UNCHANGED vars
  <2>1. UNCHANGED <<heard, rows, wire, n, ch, seq, fwd, tail, file, reader, torn>>
    BY <1>1 DEF vars
  <2>2. \A e : Sent(e)' = Sent(e)
    BY <2>1 DEF Sent, Flight
  <2>3. \A e \in Streams : StageOK(e)' /\ (StreamInv(e) => StreamInv(e)')
    <3>1. \A d : \A l : Behind(d, l) => Behind(d, l)'
      BY <2>1 DEF Behind
    <3> QED
      BY <2>1, <2>2, <3>1, StageFrame, StreamFrame DEF StageInv
  <2> QED
    BY <2>1, <2>3 DEF StageInv, OrderInv
<1>2. CASE Next
  BY <1>2, OrderAgent, OrderRest DEF Next, Environment
<1> QED
  BY <1>1, <1>2

-----------------------------------------------------------------------------
(***************************************************************************)
(* From the file to the store.                                             *)
(***************************************************************************)
LEMMA DamageStays ==
    ASSUME Types, Damaged, [Next]_vars
    PROVE  Damaged'
<1>1. CASE lost
  <2>1. CASE UNCHANGED lost
    BY <1>1, <2>1 DEF Damaged
  <2>2. CASE Break \/ AgentRestarts \/ \E e \in Streams : Forward(e)
    <3>1. lost'
      BY <1>1, <2>2, BreakDoes DEF AgentRestarts, Forward
    <3> QED
      BY <3>1 DEF Damaged
  <2>3. UNCHANGED lost \/ Break \/ AgentRestarts \/ \E e \in Streams : Forward(e)
    BY TailStepKeeps
       DEF Next, Environment, Write, Rotate, Discover, DiscoverMisses, Connect, ServerStep, ServerReads,
           DashStep, DashConnects, ReadPage, ApplyPage, Receive, OpenPage, ClosePage, DashDrops,
           Prune, DeleteMachine, StreamStep, ForwarderExits, netVars, vars
  <2> QED
    BY <2>1, <2>2, <2>3
<1>2. CASE file.first > 1
  <2>1. CASE Rotate
    <3>1. PICK f \in Nat, z \in Nat : f = file.first /\ z = file.size
      BY FileFacts DEF Types
    <3>2. PICK k \in Nat, m \in 0 .. 2 : k = z \div 3 /\ m = z % 3 /\ z = 3 * k + m
      BY Thirds
    <3>3. file' = [file EXCEPT !.first = f + k, !.size = 0]
      BY <2>1, <3>1, <3>2 DEF Rotate, NextLine
    <3>4. file'.first = f + k
      BY <3>3 DEF Types, SrcTypes
    <3>5. f + k > 1
      BY <1>2, <3>1
    <3> QED
      BY <3>4, <3>5 DEF Damaged
  <2>2. CASE \E k \in 1 .. 3 : Write(k)
    <3>1. file'.first = file.first
      BY <2>2 DEF Write, Types, SrcTypes
    <3> QED
      BY <1>2, <3>1 DEF Damaged
  <2>3. CASE UNCHANGED file
    BY <1>2, <2>3 DEF Damaged
  <2>4. UNCHANGED file \/ Rotate \/ \E k \in 1 .. 3 : Write(k)
    BY TailStepKeeps
       DEF Next, Environment, Discover, DiscoverMisses, Connect, Break, AgentRestarts, ServerStep,
           ServerReads, DashStep, DashConnects, ReadPage, ApplyPage, Receive, OpenPage, ClosePage,
           DashDrops, Prune, DeleteMachine, StreamStep, Forward, ForwarderExits, srcVars, vars
  <2> QED
    BY <2>1, <2>2, <2>3, <2>4
<1>3. CASE torn # {}
  <2>1. torn \subseteq torn'
    BY TailStepKeeps
       DEF Next, Environment, Write, Rotate, Discover, DiscoverMisses, Connect, Break, AgentRestarts,
           ServerStep, ServerReads, DashStep, DashConnects, ReadPage, ApplyPage, Receive, OpenPage,
           ClosePage, DashDrops, Prune, DeleteMachine, StreamStep, Forward, ForwarderExits, tailVars, vars
  <2> QED
    BY <1>3, <2>1 DEF Damaged
<1> QED
  BY <1>1, <1>2, <1>3 DEF Damaged

LEMMA FileFrame ==
    ASSUME FileInv, n' = n, Damaged => Damaged', fwd'[1] = "on" => fwd[1] = "on" /\ tail'[1] = tail[1],
           reader' = reader, skipped \subseteq skipped',
           ~Damaged' => LinesOf(Sent(1)) \cup Items(ch[1]) \subseteq LinesOf(Sent(1)') \cup Items(ch'[1])
    PROVE  FileInv'
<1> SUFFICES ASSUME n' = 1, ~Damaged', fwd'[1] = "on", tail'[1].path = "own"
             PROVE  /\ \A l \in Chat : Reached(l)' =>
                          l \in skipped' \cup LinesOf(Sent(1)') \cup Items(ch'[1]) \cup Items(tail'[1].pend)
                    /\ reader' = "scanner" => tail'[1].off % 3 = 0
                    /\ reader' = "scanner" /\ tail'[1].at = "fill" => tail'[1].mark = tail'[1].off
  BY DEF FileInv, LinesOf
<1>1. n = 1 /\ ~Damaged /\ fwd[1] = "on" /\ tail'[1] = tail[1] /\ tail[1].path = "own"
  OBVIOUS
<1>2. \A l : Reached(l)' = Reached(l)
  BY <1>1 DEF Reached
<1> QED
  BY <1>1, <1>2 DEF FileInv

LEMMA FileTail ==
    ASSUME Types, StageInv, FileInv, TailStep(1), 1 \in Streams
    PROVE  FileInv'
<1>0. /\ UNCHANGED <<srcVars, n, fwd>> /\ Sent(1)' = Sent(1)
      /\ fwd[1] = "on" /\ StageOK(1)
  BY TailStepKeeps DEF StageInv
<1> SUFFICES ASSUME n' = 1, ~Damaged', fwd'[1] = "on", tail'[1].path = "own"
             PROVE  /\ \A l \in Chat : Reached(l)' =>
                          l \in skipped' \cup LinesOf(Sent(1)') \cup Items(ch'[1]) \cup Items(tail'[1].pend)
                    /\ reader' = "scanner" => tail'[1].off % 3 = 0
                    /\ reader' = "scanner" /\ tail'[1].at = "fill" => tail'[1].mark = tail'[1].off
  BY DEF FileInv, LinesOf
<1>x. \A t : tail' = [tail EXCEPT ![1] = t] => tail'[1] = t
  BY DEF Types, AgentTypes
<1>d. ~Damaged
  <2>1. [Next]_vars
    BY DEF Next, StreamStep
  <2> QED
    BY <2>1, DamageStays
<1>f. PICK z \in Nat : z = file.size /\ file.first = 1
  BY <1>d, FileFacts DEF Types, Damaged
<1>n. 1 \notin torn' /\ n = 1 /\ reader' = reader /\ reader \in {"scanner", "complete"}
  BY <1>0, FileFacts DEF Damaged, srcVars, Types
<1>l. \A l \in Chat : l \in Nat /\ l >= 1 /\ l \in Lines
  BY TextFacts
<1>s. LinesOf(Sent(1)') = LinesOf(Sent(1))
  BY <1>0
<1>p. tail[1].path = "own" =>
         /\ \A l \in Chat : Reached(l) =>
               l \in skipped \cup LinesOf(Sent(1)) \cup Items(ch[1]) \cup Items(tail[1].pend)
         /\ reader = "scanner" => tail[1].off % 3 = 0
         /\ reader = "scanner" /\ tail[1].at = "fill" => tail[1].mark = tail[1].off
  BY <1>0, <1>d, <1>n DEF FileInv
<1>o. tail[1].off \in Nat
  BY RecordFacts, Bounds DEF Types
<1>1. CASE TailBackfill(1)
  <2>1. PICK t \in Tails :
           /\ tail'[1] = t /\ t.at = "fill" /\ t.path = tail[1].path
           /\ t.path = "own" => /\ t.mark = file.size
                                /\ \A l : Whole(l) => l \in Items(t.pend) \cup skipped'
           /\ t.path = "own" /\ reader = "scanner" => t.off = file.size /\ t.off % 3 = 0
    BY <1>1, <1>n, <1>x, BackfillDoes
  <2>2. ASSUME NEW l \in Chat, Reached(l)' PROVE Whole(l)
    <3>1. 3 * (l - 1) + 2 <= z
      BY <1>f, <2>1, <2>2 DEF Reached
    <3> QED
      BY <1>f, <1>l, <3>1 DEF Whole
  <2> QED
    BY <1>n, <2>1, <2>2
<1>2. CASE TailEmit(1)
  <2>0. PICK t \in Tails, x \in Text :
           /\ tail' = [tail EXCEPT ![1] = t] /\ t.at = tail[1].at /\ t.path = tail[1].path
           /\ t.off = tail[1].off /\ t.mark = tail[1].mark /\ t.pend = Tail(tail[1].pend)
           /\ x = Head(tail[1].pend) /\ tail[1].pend # <<>> /\ ch'[1] = Append(ch[1], x)
    BY <1>2, EmitDoes
  <2>1. tail'[1] = t
    BY <1>x, <2>0
  <2>2. tail[1].pend \in Seq(Text) /\ ch[1] \in Seq(Text)
    BY RecordFacts DEF Types
  <2>3. Items(tail[1].pend) = {x} \cup Items(t.pend)
    BY <2>0, <2>2, TailFacts
  <2>4. Items(ch'[1]) = Items(ch[1]) \cup {x}
    BY <2>0, <2>2, AppendFacts
  <2>5. \A l : Reached(l)' = Reached(l)
    BY <2>0, <2>1 DEF Reached
  <2>6. skipped' = skipped
    BY <1>2 DEF TailEmit
  <2> QED
    BY <1>n, <1>p, <1>s, <2>0, <2>1, <2>3, <2>4, <2>5, <2>6
<1>3. CASE TailFilled(1)
  <2>1. PICK t \in Tails :
           /\ tail'[1] = t /\ tail[1].at = "fill" /\ tail[1].pend = <<>>
           /\ t.at = "wait" /\ t.path = tail[1].path /\ t.pend = <<>>
           /\ IF t.path = "own" /\ reader = "complete"
              THEN /\ t.off = file.size
                   /\ \A l \in Lines : l >= file.first /\ 3 * (l - file.first) < file.size =>
                         3 * (l - file.first) + 2 <= tail[1].mark \/ l \in skipped'
              ELSE t.off = tail[1].off
           /\ skipped \subseteq skipped'
    BY <1>3, <1>x, FilledDoes
  <2>2. ch'[1] = ch[1]
    BY <1>3 DEF TailFilled
  <2>3. ASSUME NEW l \in Chat, Reached(l)' PROVE Reached(l) \/ l \in skipped'
    <3>1. 3 * (l - 1) < t.off
      BY <2>1, <2>3 DEF Reached
    <3>2. CASE reader = "complete"
      BY <1>f, <1>l, <2>1, <3>1, <3>2 DEF Reached
    <3>3. CASE reader = "scanner"
      <4>1. PICK o \in Nat : o = tail[1].off /\ o = t.off /\ o = tail[1].mark /\ o % 3 = 0
        BY <1>o, <1>p, <2>1, <3>3
      <4>2. PICK k \in Nat : o = 3 * k
        BY <4>1, Thirds
      <4>3. 3 * (l - 1) + 2 <= o
        BY <1>l, <3>1, <4>1, <4>2
      <4> QED
        BY <2>1, <4>1, <4>3 DEF Reached
    <3> QED
      BY <1>n, <3>2, <3>3
  <2>4. reader = "scanner" => t.off % 3 = 0
    BY <1>p, <2>1
  <2> QED
    BY <1>n, <1>p, <1>s, <2>1, <2>2, <2>3, <2>4
<1>4. CASE TailTick(1)
  <2>1. PICK t \in Tails :
           /\ tail'[1] = t /\ tail[1].at = "wait" /\ t.at \in {"wait", "read"}
           /\ tail[1].path = "own" /\ t.pend = tail[1].pend
           /\ t.off = tail[1].off \/ (t.off = 0 /\ file.size < tail[1].off)
    BY <1>4, <1>x, TickDoes
  <2>2. ch'[1] = ch[1] /\ skipped' = skipped
    BY <1>4 DEF TailTick
  <2>3. ASSUME NEW l \in Chat, Reached(l)' PROVE Reached(l)
    <3>1. 3 * (l - 1) < t.off
      BY <2>1, <2>3 DEF Reached
    <3>2. t.off # 0
      BY <1>l, <3>1
    <3> QED
      BY <2>1, <3>1, <3>2 DEF Reached
  <2>4. reader = "scanner" => t.off % 3 = 0
    <3>1. 0 % 3 = 0
      OBVIOUS
    <3> QED
      BY <1>p, <2>1, <3>1
  <2> QED
    BY <1>n, <1>p, <1>s, <2>1, <2>2, <2>3, <2>4
<1>5. CASE TailRead(1)
  <2>1. PICK t \in Tails :
           /\ tail'[1] = t /\ tail[1].at = "read" /\ t.at = "emit" /\ t.path = tail[1].path
           /\ t.off = tail[1].off \/ t.off % 3 = 0
           /\ \A l \in Chat : /\ l >= file.first /\ tail[1].off <= 3 * (l - file.first)
                              /\ 3 * (l - file.first) < t.off
                              => l \in Items(t.pend)
    BY <1>5, <1>n, <1>x, ReadDoes
  <2>2. ch'[1] = ch[1] /\ skipped' = skipped
    BY <1>5 DEF TailRead
  <2>3. tail[1].pend = <<>>
    BY <1>0, <2>1 DEF StageOK
  <2>4. ASSUME NEW l \in Chat, Reached(l)' PROVE Reached(l) \/ l \in Items(t.pend)
    <3>1. 3 * (l - 1) < t.off
      BY <2>1, <2>4 DEF Reached
    <3>2. 3 * (l - 1) < tail[1].off \/ tail[1].off <= 3 * (l - 1)
      BY <1>l, <1>o
    <3> QED
      BY <1>f, <1>l, <2>1, <3>1, <3>2 DEF Reached
  <2> QED
    BY <1>n, <1>p, <1>s, <2>1, <2>2, <2>3, <2>4, EmptyFacts
<1>6. CASE TailDone(1)
  <2>1. PICK t \in Tails :
           /\ tail'[1] = t /\ tail[1].at = "emit" /\ tail[1].pend = <<>>
           /\ t.at = "wait" /\ t.path = tail[1].path /\ t.pend = <<>> /\ t.off = tail[1].off
    BY <1>6, <1>x, DoneDoes
  <2>2. ch'[1] = ch[1] /\ skipped' = skipped
    BY <1>6 DEF TailDone
  <2>3. \A l : Reached(l)' => Reached(l)
    BY <2>1 DEF Reached
  <2> QED
    BY <1>n, <1>p, <1>s, <2>1, <2>2, <2>3
<1> QED
  BY <1>1, <1>2, <1>3, <1>4, <1>5, <1>6 DEF TailStep

LEMMA FileInit == Init => FileInv
<1> SUFFICES ASSUME Init PROVE FileInv
  OBVIOUS
<1>1. n = 0
  BY DEF Init
<1> QED
  BY <1>1 DEF FileInv

\* The lines of stream 1 that are sent or in its channel stay so, unless the
\* step loses one.
LEMMA FileServer ==
    ASSUME Types, ServerStep \/ Break
    PROVE  ~Damaged' => Sent(1) \subseteq Sent(1)'
<1>1. CASE Break
  <2>1. heard' = heard /\ (~lost' => Flight' = Flight)
    BY <1>1, BreakDoes DEF Break
  <2> QED
    BY <2>1 DEF Damaged, Sent
<1>2. CASE ServerStep
  <2>1. PICK c \in {"cur", "old"} : ServerReads(c)
    BY <1>2 DEF ServerStep
  <2>2. PICK r \in Rows : heard' = heard \cup {r} /\ Flight = Flight' \cup {r}
    BY <2>1, ServerDoes
  <2> QED
    BY <2>2 DEF Sent
<1> QED
  BY <1>1, <1>2

LEMMA FileForward ==
    ASSUME Types, NEW e \in Streams, Forward(e), 1 \in Streams
    PROVE  ~Damaged' => LinesOf(Sent(1)) \cup Items(ch[1]) \subseteq LinesOf(Sent(1)') \cup Items(ch'[1])
<1> SUFFICES ASSUME ~Damaged'
             PROVE  LinesOf(Sent(1)) \cup Items(ch[1]) \subseteq LinesOf(Sent(1)') \cup Items(ch'[1])
  OBVIOUS
<1>1. PICK x \in Text :
         /\ x = Head(ch[e]) /\ ch[e] # <<>> /\ ch[e] \in Seq(Text)
         /\ ch' = [ch EXCEPT ![e] = Tail(ch[e])] /\ ch'[e] = Tail(ch[e])
         /\ Flight' = Flight \cup {Row(e, seq[e] + 1, x)} \/ lost' = TRUE
  BY ForwardDoes
<1>2. PICK r : r = Row(e, seq[e] + 1, x)
  OBVIOUS
<1>3. Flight' = Flight \cup {r} /\ heard' = heard
  BY <1>1, <1>2 DEF Forward, Damaged
<1>4. Sent(1) \subseteq Sent(1)'
  BY <1>3 DEF Sent
<1>5. CASE e = 1
  <2>1. r \in Sent(1)' /\ r.line = x
    BY <1>2, <1>3, <1>5 DEF Sent, Row
  <2>2. Items(ch[1]) = {x} \cup Items(ch'[1])
    BY <1>1, <1>5, TailFacts
  <2> QED
    BY <1>4, <2>1, <2>2 DEF LinesOf
<1>6. CASE e # 1
  <2>1. ch'[1] = ch[1]
    BY <1>1, <1>6 DEF Types, AgentTypes
  <2> QED
    BY <1>4, <2>1 DEF LinesOf
<1> QED
  BY <1>5, <1>6

LEMMA FileStep == Types /\ StageInv /\ FileInv /\ [Next]_vars => FileInv'
<1> SUFFICES ASSUME Types, StageInv, FileInv, [Next]_vars PROVE FileInv'
  OBVIOUS
<1>1. 1 \in Streams
  BY Bounds DEF Streams
<1>2. Damaged => Damaged'
  BY DamageStays
<1>t. /\ tail \in [Streams -> Tails] /\ fwd \in [Streams -> {"none", "on", "cancelled", "off"}]
      /\ ch \in [Streams -> Seq(Text)] /\ n \in 0 .. MaxStreams
  BY DEF Types, AgentTypes
<1>3. CASE TailStep(1)
  BY <1>1, <1>3, FileTail
<1>4. ASSUME NEW e \in Streams \ {1}, TailStep(e) PROVE FileInv'
  <2>1. /\ UNCHANGED <<reader, n, fwd>> /\ Sent(1)' = Sent(1)
        /\ tail'[1] = tail[1] /\ ch'[1] = ch[1]
    BY <1>1, <1>4, TailStepKeeps DEF srcVars
  <2>2. skipped \subseteq skipped'
    BY <1>4 DEF TailStep, TailBackfill, TailEmit, TailFilled, TailTick, TailRead, TailDone
  <2> QED
    BY <1>2, <2>1, <2>2, FileFrame
<1>5. ASSUME NEW e \in Streams, Forward(e) PROVE FileInv'
  <2>1. UNCHANGED <<reader, n, fwd, tail, skipped>>
    BY <1>5 DEF Forward, srcVars
  <2> QED
    BY <1>1, <1>2, <1>5, <2>1, FileForward, FileFrame
<1>6. ASSUME NEW e \in Streams, ForwarderExits(e) PROVE FileInv'
  <2>1. /\ UNCHANGED <<reader, n, tail, skipped, heard, rows, wire>> /\ fwd[e] = "cancelled"
        /\ fwd' = [fwd EXCEPT ![e] = "off"] /\ ch' = [ch EXCEPT ![e] = <<>>]
    BY <1>6 DEF ForwarderExits, srcVars, netVars
  <2>2. CASE e = 1
    <3>1. fwd'[1] = "off"
      BY <1>t, <2>1, <2>2
    <3> QED
      BY <3>1 DEF FileInv
  <2>3. CASE e # 1
    <3>1. fwd'[1] = fwd[1] /\ ch'[1] = ch[1]
      BY <1>1, <1>t, <2>1, <2>3
    <3>2. Sent(1)' = Sent(1)
      BY <2>1 DEF Sent, Flight
    <3> QED
      BY <1>2, <2>1, <3>1, <3>2, FileFrame
  <2> QED
    BY <2>2, <2>3
<1>7. CASE DiscoverMisses \/ AgentRestarts
  <2>1. \/ fwd' = [e \in Streams |-> IF fwd[e] = "on" THEN "cancelled" ELSE fwd[e]]
        \/ fwd' = [e \in Streams |-> IF Alive(e) THEN "off" ELSE fwd[e]]
    BY <1>7 DEF DiscoverMisses, AgentRestarts
  <2>2. fwd'[1] # "on"
    BY <1>1, <2>1 DEF Alive
  <2> QED
    BY <2>2 DEF FileInv
<1>8. CASE Discover
  <2>1. UNCHANGED <<reader, ch, skipped, heard, rows, wire>>
    BY <1>8 DEF Discover, srcVars, netVars
  <2>2. Sent(1)' = Sent(1)
    BY <2>1 DEF Sent, Flight
  <2>3. CASE UNCHANGED <<n, tail, fwd>>
    BY <1>2, <2>1, <2>2, <2>3, FileFrame
  <2>4. CASE n' = n + 1 /\ n # 0
    <3>1. n' # 1
      BY <1>t, <2>4, Bounds
    <3> QED
      BY <3>1 DEF FileInv
  <2>5. CASE n = 0 /\ tail' = [tail EXCEPT ![n + 1] = [NoTail EXCEPT !.at = "backfill", !.path = NewestFile]]
    <3>1. n + 1 = 1
      BY <2>5
    <3>2. tail'[1] = [NoTail EXCEPT !.at = "backfill", !.path = NewestFile]
      BY <1>1, <1>t, <2>5, <3>1
    <3>3. tail'[1].at = "backfill" /\ tail'[1].off = 0
      BY <3>2 DEF NoTail
    <3>4. \A l : ~Reached(l)'
      BY <3>3 DEF Reached
    <3>5. 0 % 3 = 0
      OBVIOUS
    <3> QED
      BY <3>3, <3>4, <3>5 DEF FileInv
  <2> QED
    BY <1>8, <2>3, <2>4, <2>5 DEF Discover, SetTail
<1>9. CASE ServerStep \/ Break
  <2>1. UNCHANGED <<reader, n, fwd, tail, ch, skipped>>
    BY <1>9 DEF ServerStep, ServerReads, Break, srcVars, tailVars
  <2>2. ~Damaged' => Sent(1) \subseteq Sent(1)'
    BY <1>9, FileServer
  <2>3. ~Damaged' => LinesOf(Sent(1)) \cup Items(ch[1]) \subseteq LinesOf(Sent(1)') \cup Items(ch'[1])
    BY <2>1, <2>2 DEF LinesOf
  <2> QED
    BY <1>2, <2>1, <2>3, FileFrame
<1>10. CASE \/ (\E k \in 1 .. 3 : Write(k)) \/ Rotate \/ Connect \/ DashStep
            \/ OpenPage \/ ClosePage \/ DashDrops \/ Prune \/ DeleteMachine \/ UNCHANGED vars
  <2>1. UNCHANGED <<reader, n, fwd, tail, ch, skipped, heard, wire>>
    BY <1>10 DEF Write, Rotate, Connect, DashStep, DashConnects, ReadPage, ApplyPage, Receive,
                 OpenPage, ClosePage, DashDrops, Prune, DeleteMachine, srcVars, netVars, tailVars, vars
  <2>2. Sent(1)' = Sent(1)
    BY <2>1 DEF Sent, Flight
  <2> QED
    BY <1>2, <2>1, <2>2, FileFrame
<1> QED
  BY <1>3, <1>4, <1>5, <1>6, <1>7, <1>8, <1>9, <1>10 DEF Next, StreamStep, Environment

-----------------------------------------------------------------------------
(***************************************************************************)
(* From the store to the screen. While only stream 1 has run, two rows     *)
(* never have the same number: no row replaces another.                    *)
(***************************************************************************)
LEMMA OneRow ==
    ASSUME Types, StageInv, OrderInv, n <= 1, torn = {}
    PROVE  OneEach(heard)
<1>1. 1 \in Streams \ torn
  BY Bounds DEF Streams
<1>2. ASSUME NEW r \in heard PROVE r \in Sent(1)
  <2>1. r.stream \in Streams
    BY DEF Types, DashTypes, Rows
  <2>2. r \in Sent(r.stream)
    BY DEF Sent
  <2>3. ~(r.stream > n)
    BY <2>1, <2>2 DEF StageInv, StageOK
  <2>4. r.stream \in Nat /\ r.stream >= 1 /\ n \in Nat
    BY <2>1, Bounds DEF Streams, Types, AgentTypes
  <2>5. r.stream = 1
    BY <2>3, <2>4
  <2> QED
    BY <2>2, <2>5
<1>3. InOrder(Sent(1))
  BY <1>1 DEF OrderInv, StreamInv, NumberInv
<1> QED
  BY <1>2, <1>3 DEF InOrder, OneEach

\* A merge then keeps everything.
LEMMA MergeKeeps ==
    ASSUME Types, OneEach(heard), Cardinality(heard) <= PageLimit, NEW b \in SUBSET heard
    PROVE  Merge(logs, b) = logs \cup b
<1>1. /\ heard \subseteq Rows /\ IsFiniteSet(heard) /\ logs \in SUBSET heard /\ OneEach(logs)
      /\ OneEach(b)
  BY DEF Types, DashTypes, OneEach
<1>2. Cardinality(heard) <= MaxLogs
  BY <1>1, FS_CardinalityType, Bounds
<1>3. Merge(logs, b) = Merged(logs, b)
  BY <1>1, <1>2, MergeFacts
<1>4. \A r \in logs : r \in b \/ \A q \in b : q.seq # r.seq
  BY <1>1 DEF OneEach
<1> QED
  BY <1>1, <1>3, <1>4 DEF Merged

LEMMA ScreenInit == Init => ScreenInv
  BY DEF Init, ScreenInv, NoPage

\* A row arrives: it is sent to the dashboard, or the dashboard has a gap.
LEMMA ScreenServer ==
    ASSUME Types, ScreenInv, ServerStep
    PROVE  ScreenInv'
<1>1. PICK c \in {"cur", "old"} : ServerReads(c)
  BY DEF ServerStep
<1>2. PICK r \in Rows : r = Head(wire[c]) /\ heard' = heard \cup {r}
  BY <1>1, ServerDoes
<1>3. PICK full \in BOOLEAN : full = (dash = "live" /\ Len(inbox) >= InboxCap)
  OBVIOUS
<1>4. /\ dash' = IF full THEN "open" ELSE dash
      /\ inbox' = IF dash # "live" \/ full THEN <<>> ELSE Append(inbox, r)
      /\ gap' = (gap \/ full \/ (dash = "open" /\ page.at # "unasked"))
      /\ UNCHANGED <<n, page, logs, absent>>
  BY <1>1, <1>2, <1>3 DEF ServerReads
<1>5. [Next]_vars
  BY DEF Next
<1>6. Damaged => Damaged'
  BY <1>5, DamageStays
<1>7. /\ dash' = "closed" => page'.at = "unasked"
      /\ page'.at # "read" => page'.rows = {}
      /\ dash' # "live" => inbox' = <<>>
  BY <1>3, <1>4 DEF ScreenInv
<1>8. ASSUME n' <= 1, ~Damaged', ~gap', Cardinality(heard') <= PageLimit, page'.at # "unasked"
      PROVE  heard' \subseteq logs' \cup page'.rows \cup Items(inbox') \cup absent'
  <2>1. ~gap /\ ~full /\ ~(dash = "open" /\ page.at # "unasked")
    BY <1>4, <1>8, Zenon
  <2>2. dash = "live"
    BY <1>4, <1>8, <2>1 DEF ScreenInv, Types, DashTypes
  <2>3. Items(inbox') = Items(inbox) \cup {r}
    <3>1. inbox' = Append(inbox, r)
      BY <1>4, <2>1, <2>2
    <3>2. inbox \in Seq(heard \cup {r}) /\ r \in heard \cup {r}
      BY SeqMono DEF Types, DashTypes
    <3> QED
      BY <3>1, <3>2, AppendFacts
  <2>4. Cardinality(heard) <= PageLimit
    <3>1. IsFiniteSet(heard) /\ IsFiniteSet(heard \cup {r})
      BY FS_AddElement DEF Types, DashTypes
    <3>2. /\ Cardinality(heard) <= Cardinality(heard \cup {r})
          /\ Cardinality(heard) \in Nat /\ Cardinality(heard \cup {r}) \in Nat
      BY <3>1, FS_Subset, FS_CardinalityType
    <3> QED
      BY <1>2, <1>8, <3>2, Bounds
  <2>5. heard \subseteq logs \cup page.rows \cup Items(inbox) \cup absent
    BY <1>4, <1>6, <1>8, <2>1, <2>4 DEF ScreenInv
  <2> QED
    BY <1>2, <1>4, <2>3, <2>5
<1> QED
  BY <1>7, <1>8 DEF ScreenInv

LEMMA ScreenDash ==
    ASSUME Types, StageInv, OrderInv, ScreenInv, DashStep \/ OpenPage \/ ClosePage \/ DashDrops
    PROVE  ScreenInv'
<1>0. UNCHANGED <<n, file, lost, torn, heard, rows>>
  BY DEF DashStep, DashConnects, ReadPage, ApplyPage, Receive, OpenPage, ClosePage, DashDrops,
         srcVars, tailVars, netVars
<1>1. Damaged' = Damaged
  BY <1>0 DEF Damaged
<1>d. /\ heard \subseteq Rows /\ IsFiniteSet(heard) /\ page.rows \in SUBSET heard
      /\ inbox \in Seq(heard) /\ page \in [at : {"unasked", "read", "applied"}, rows : SUBSET heard]
      /\ dash \in {"closed", "open", "live"} /\ rows \subseteq heard
  BY DEF Types, DashTypes
<1>2. n <= 1 /\ ~Damaged => OneEach(heard)
  BY OneRow DEF Damaged
<1>3. CASE OpenPage \/ DashConnects
  <2>1. UNCHANGED <<inbox, page, logs, gap, absent>> /\ dash # "live" /\ dash' # "closed"
    BY <1>3 DEF OpenPage, DashConnects
  <2> QED
    BY <1>0, <1>1, <2>1 DEF ScreenInv
<1>4. CASE ClosePage
  <2>1. inbox' = <<>> /\ page' = NoPage
    BY <1>4 DEF ClosePage
  <2> QED
    BY <2>1 DEF ScreenInv, NoPage
<1>5. CASE DashDrops
  <2>1. dash' = "open" /\ inbox' = <<>> /\ UNCHANGED <<page, logs, absent>>
    BY <1>5 DEF DashDrops
  <2>2. ~gap' => ~gap /\ inbox' = inbox
    BY <1>5, Zenon DEF DashDrops
  <2> QED
    BY <1>0, <1>1, <2>1, <2>2 DEF ScreenInv
<1>6. CASE ReadPage
  <2>p. PICK P \in Pages : \E M \in Distinct(P) : page' = [at |-> "read", rows |-> M]
    BY <1>6 DEF ReadPage
  <2>1. PICK M \in Distinct(P) : page' = [at |-> "read", rows |-> M]
    BY <2>p
  <2>2. IsFiniteSet(rows) /\ Cardinality(rows) <= Cardinality(heard) /\ rows \subseteq Rows
        /\ Cardinality(rows) \in Nat /\ Cardinality(heard) \in Nat
    BY <1>d, FS_Subset, FS_CardinalityType
  <2>3. Cardinality(heard) <= PageLimit /\ OneEach(heard) => M = rows
    <3>1. Cardinality(heard) <= PageLimit => Cardinality(rows) <= PageLimit
      BY <2>2, Bounds
    <3>2. OneEach(heard) => OneEach(rows)
      BY <1>d DEF OneEach
    <3> QED
      BY <2>2, <3>1, <3>2, PageFacts
  <2>4. dash # "closed" /\ UNCHANGED <<dash, inbox, logs, gap>> /\ absent' = heard \ rows
    BY <1>6 DEF ReadPage
  <2>5. OneEach(heard) /\ Cardinality(heard) <= PageLimit => heard \subseteq page'.rows \cup absent'
    BY <2>1, <2>3, <2>4
  <2> QED
    BY <1>0, <1>1, <1>2, <2>1, <2>4, <2>5 DEF ScreenInv
<1>7. CASE ApplyPage
  <2>1. /\ logs' = Merge(logs, page.rows) /\ page' = [at |-> "applied", rows |-> {}]
        /\ UNCHANGED <<dash, inbox, gap, absent>> /\ page.at = "read"
    BY <1>7 DEF ApplyPage
  <2>2. OneEach(heard) /\ Cardinality(heard) <= PageLimit => logs' = logs \cup page.rows
    BY <1>d, <2>1, MergeKeeps
  <2> QED
    BY <1>0, <1>1, <1>2, <2>1, <2>2 DEF ScreenInv
<1>8. CASE Receive
  <2>1. /\ logs' = Merge(logs, {Head(inbox)}) /\ inbox' = Tail(inbox) /\ inbox # <<>>
        /\ UNCHANGED <<dash, page, gap, absent>> /\ dash = "live"
    BY <1>8 DEF Receive
  <2>2. Head(inbox) \in heard /\ Items(inbox) = {Head(inbox)} \cup Items(Tail(inbox))
    BY <1>d, <2>1, TailFacts
  <2>3. OneEach(heard) /\ Cardinality(heard) <= PageLimit => logs' = logs \cup {Head(inbox)}
    BY <2>1, <2>2, MergeKeeps
  <2> QED
    BY <1>0, <1>1, <1>2, <2>1, <2>2, <2>3 DEF ScreenInv
<1> QED
  BY <1>3, <1>4, <1>5, <1>6, <1>7, <1>8 DEF DashStep

LEMMA ScreenStep == Types /\ StageInv /\ OrderInv /\ ScreenInv /\ [Next]_vars => ScreenInv'
<1> SUFFICES ASSUME Types, StageInv, OrderInv, ScreenInv, [Next]_vars PROVE ScreenInv'
  OBVIOUS
<1>1. Damaged => Damaged'
  BY DamageStays
<1>2. ASSUME UNCHANGED <<heard, dash, inbox, page, logs, gap, absent>>, n' = n \/ n' = n + 1 PROVE ScreenInv'
  <2>1. n' <= 1 => n <= 1
    BY <1>2, Bounds DEF Types, AgentTypes
  <2> QED
    BY <1>1, <1>2, <2>1 DEF ScreenInv
<1>3. CASE \E e \in Streams : TailStep(e)
  BY <1>2, <1>3, TailStepKeeps DEF dashVars
<1>4. CASE \/ Discover \/ Connect \/ (\E e \in Streams : Forward(e) \/ ForwarderExits(e))
           \/ (\E k \in 1 .. 3 : Write(k)) \/ Rotate \/ DiscoverMisses \/ Break \/ AgentRestarts
           \/ Prune \/ DeleteMachine \/ UNCHANGED vars
  <2>1. UNCHANGED <<heard, dash, inbox, page, logs, gap, absent>> /\ (n' = n \/ n' = n + 1)
    BY <1>4 DEF Discover, Connect, Forward, ForwarderExits, Write, Rotate, DiscoverMisses, Break,
                AgentRestarts, Prune, DeleteMachine, dashVars, vars
  <2> QED
    BY <1>2, <2>1
<1>5. CASE ServerStep \/ DashStep \/ OpenPage \/ ClosePage \/ DashDrops
  BY <1>5, ScreenServer, ScreenDash
<1> QED
  BY <1>3, <1>4, <1>5 DEF Next, StreamStep, Environment

-----------------------------------------------------------------------------
(***************************************************************************)
(* The theorems.                                                           *)
(***************************************************************************)
LEMMA InductiveInit == Init => IInv
  BY TypesInit, OrderInit, FileInit, ScreenInit DEF IInv

LEMMA InductiveStep == IInv /\ [Next]_vars => IInv'
  BY TypesStep, OrderStep, FileStep, ScreenStep DEF IInv

\* In every reachable state of a session's log the inductive invariant holds:
\* the line that the tail has passed is skipped, in the channel, on a
\* connection or read by the server, in the order of the file.
THEOREM Inductive == Spec => []IInv
<1>1. Init => IInv
  BY InductiveInit
<1>2. IInv /\ [Next]_vars => IInv'
  BY InductiveStep
<1> QED
  BY <1>1, <1>2, PTL DEF Spec

LEMMA TypesImply == Types => TypeOK
<1> SUFFICES ASSUME Types PROVE TypeOK
  OBVIOUS
<1>1. \A e \in Streams :
         /\ tail[e].at \in Stages /\ tail[e].path \in {"none", "old", "own"}
         /\ tail[e].off \in 0 .. 3 * MaxLines + 1 /\ tail[e].mark \in 0 .. 3 * MaxLines
         /\ tail[e].pend \in Seq(Chat \cup {OldLine})
         /\ ch[e] \in Seq(Chat \cup {OldLine}) /\ Len(ch[e]) <= ChanCap
  BY DEF Types, AgentTypes, Tails, Paths, Units, Text
<1>2. \A c \in {"cur", "old"} : wire[c] \in Seq(Rows) /\ Len(wire[c]) <= WireCap
  <2>1. wire["cur"] = wire.cur /\ wire["old"] = wire.old
    OBVIOUS
  <2> QED
    BY <2>1, WireFacts DEF Types
<1>3. inbox \in Seq(Rows)
  BY SeqMono DEF Types, DashTypes
<1> QED
  BY <1>1, <1>2, <1>3 DEF TypeOK, Types, SrcTypes, AgentTypes, NetTypes, DashTypes, Units

\* Every variable has its type and every buffer of the way keeps its bound: the
\* provider's channel, the dashboard's buffer, the lines the dashboard keeps.
THEOREM LogStreamTypes == Spec => []TypeOK
<1>1. IInv => TypeOK
  BY TypesImply DEF IInv
<1> QED
  BY <1>1, Inductive, PTL

LEMMA OrderImplies == IInv => StreamInOrder
<1> SUFFICES ASSUME IInv, NEW e \in Streams \ torn
             PROVE  InOrder({r \in rows : r.stream = e})
  BY DEF StreamInOrder
<1>1. InOrder(Sent(e))
  BY DEF IInv, OrderInv, StreamInv, NumberInv
<1>2. {r \in rows : r.stream = e} \subseteq Sent(e)
  BY DEF IInv, Types, DashTypes, Sent
<1> QED
  BY <1>1, <1>2 DEF InOrder

\* What one stream of startLogStream stores has different numbers, and the
\* numbers are in the order of the file's lines: no line is stored twice or
\* before an earlier one, through truncations, lost messages, reconnections and
\* restarts of the agent, for every reader and every number of streams.
THEOREM StreamOrder == Spec => []StreamInOrder
<1>1. IInv => StreamInOrder
  BY OrderImplies
<1> QED
  BY <1>1, Inductive, PTL

LEMMA LossImplies == IInv => NothingLost
<1> SUFFICES ASSUME IInv, CaughtUp, n = 1, ~Damaged, ~gap, Cardinality(heard) <= PageLimit,
                    NEW l \in Chat, l < NextLine, l \notin skipped,
                    l \notin {r.line : r \in absent}
             PROVE  \E r \in logs : r.line = l
  BY DEF NothingLost
<1>1. 1 \in Streams /\ l \in Nat
  BY Bounds, TextFacts DEF Streams
<1>2. /\ fwd[1] = "on" /\ tail[1].at = "wait" /\ tail[1].path = "own" /\ ch[1] = <<>>
      /\ wire.cur = <<>> /\ wire.old = <<>> /\ inbox = <<>> /\ page.at = "applied"
      /\ tail[1].off >= 3 * (file.size \div 3)
  BY DEF CaughtUp
<1>3. Reached(l)
  <2>1. PICK z \in Nat : z = file.size /\ file.first = 1
    BY FileFacts DEF IInv, Types, Damaged
  <2>2. PICK k \in Nat : k = z \div 3
    BY Thirds
  <2>3. PICK o \in Nat : o = tail[1].off
    BY <1>1, RecordFacts, Bounds DEF IInv, Types
  <2>4. l < 1 + k
    BY <2>1, <2>2 DEF NextLine
  <2>5. o >= 3 * k
    BY <1>2, <2>1, <2>2, <2>3
  <2>6. 3 * (l - 1) < o
    BY <1>1, <2>4, <2>5
  <2> QED
    BY <1>2, <2>3, <2>6 DEF Reached
<1>4. tail[1].pend = <<>>
  BY <1>1, <1>2 DEF IInv, StageInv, StageOK
<1>5. l \in LinesOf(Sent(1))
  <2>1. l \in skipped \cup LinesOf(Sent(1)) \cup Items(ch[1]) \cup Items(tail[1].pend)
    BY <1>2, <1>3 DEF IInv, FileInv
  <2> QED
    BY <1>2, <1>4, <2>1, EmptyFacts
<1>6. PICK r \in heard : r.line = l
  BY <1>2, <1>5, EmptyFacts DEF LinesOf, Sent, Flight
<1>7. heard \subseteq logs \cup absent
  BY <1>2, EmptyFacts DEF IInv, ScreenInv
<1>8. r \notin absent
  BY <1>6
<1> QED
  BY <1>6, <1>7, <1>8

\* When the tail has read the file, the connections and buffers are empty and
\* the page is applied, the dashboard shows every line with a newline that the
\* provider has not skipped, unless a message was lost, the file was truncated,
\* the reader took an unterminated line, the dashboard missed a broadcast or the
\* page was too small, and except the lines that were not in the store when the
\* page was read: AppendLog failed (agent_handler.go:47), retention or a
\* deletion of the machine removed them. A line is shown although the store
\* refuses it, or removes it, once the page is read.
THEOREM NothingLostCorrect == Spec => []NothingLost
<1>1. IInv => NothingLost
  BY LossImplies
<1> QED
  BY <1>1, Inductive, PTL
=============================================================================
