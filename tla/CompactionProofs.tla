-------------------------- MODULE CompactionProofs --------------------------
(***************************************************************************)
(* Proofs about Compaction, for conversations of any length, messages of   *)
(* any sizes and any limit. What compact_history returns is computed by    *)
(* recursion on the history. The provers know no induction, so the value   *)
(* is given explicitly instead (Compacted): the rounds stop at the first   *)
(* message that is not simply dropped. This solves the recursive equation  *)
(* (CompactedSolves), and every solution agrees with it, for there is no   *)
(* first round in which the two could part (RoundsStop).                   *)
(***************************************************************************)
EXTENDS Compaction, SequenceTheorems, WellFoundedInduction, TLAPS

\* The history from its i-th message on.
From(messages, i) == SubSeq(messages, i, Len(messages))

\* The loop ends with these messages, whether or not the first is cut.
Stops(messages) ==
  Len(messages) <= 1 \/ ~ Full(messages) \/ Head(messages).size > Keep

Ended(messages) ==
  IF Len(messages) <= 1 \/ ~ Full(messages) THEN messages
  ELSE <<Truncated(Head(messages))>> \o Tail(messages)

\* The messages before the i-th are dropped, and no more.
DropsTo(messages, i) ==
  /\ i \in 1 .. Len(messages) + 1
  /\ Stops(From(messages, i))
  /\ \A j \in 1 .. i - 1 : ~ Stops(From(messages, j))

\* What a round makes of the messages, if f is what the rounds after it do.
Round(f, messages) ==
  IF Len(messages) <= 1 \/ ~ Full(messages) THEN messages
  ELSE IF Head(messages).size > Keep THEN <<Truncated(Head(messages))>> \o Tail(messages)
  ELSE f[Tail(messages)]

Solves(f) == f = [messages \in Seq(Message) |-> Round(f, messages)]

Compacted ==
  [messages \in Seq(Message) |->
     Ended(From(messages, CHOOSE i \in 1 .. Len(messages) + 1 : DropsTo(messages, i)))]

\* Messages are said in turn.
SaidInTurn == \A i \in DOMAIN said : said[i].turn = i

CompactionInv == HistoryTypeOK /\ SaidInTurn /\ RecentTurnsAreIntact

-----------------------------------------------------------------------------
(* What compact_history returns.                                           *)

\* A non-empty set of natural numbers has a least element.
LEMMA LeastExists ==
  ASSUME NEW T, T \subseteq Nat, T # {}
  PROVE  \E i \in T : \A j \in T : i <= j
<1>1. PICK i \in T : \A j \in T : ~ (<<j, i>> \in OpToRel(<, Nat))
  BY WFMin, NatLessThanWellFounded
<1>2. ASSUME NEW j \in T PROVE i <= j
  <2>1. i \in Nat /\ j \in Nat
    OBVIOUS
  <2>2. ~ (j < i)
    BY <1>1, <2>1 DEF OpToRel
  <2>3. QED
    BY <2>1, <2>2
<1>3. QED
  BY <1>2

\* The parts of a history, and the parts of these.
LEMMA FromProperties ==
  ASSUME NEW h, h \in Seq(Message), NEW i, i \in 1 .. Len(h) + 1
  PROVE  /\ From(h, i) \in Seq(Message)
         /\ Len(From(h, i)) = Len(h) - i + 1
         /\ i <= Len(h) => Head(From(h, i)) = h[i] /\ Tail(From(h, i)) = From(h, i + 1)
<1>1. From(h, i) \in Seq(Message) /\ Len(From(h, i)) = Len(h) - i + 1
  <2>1. \A j \in i .. Len(h) : h[j] \in Message
    BY ElementOfSeq
  <2>2. QED
    BY <2>1, SubSeqProperties, LenProperties DEF From
<1>2. ASSUME i <= Len(h)
      PROVE  Head(From(h, i)) = h[i] /\ Tail(From(h, i)) = From(h, i + 1)
  <2>1. i \in 1 .. Len(h) /\ Len(h) \in i .. Len(h)
    BY <1>2, LenProperties
  <2>2. QED
    BY <2>1, HeadTailOfSubSeq DEF From
<1>3. QED
  BY <1>1, <1>2

\* A message of a part is one of the history, further on.
LEMMA FromAt ==
  ASSUME NEW h \in Seq(Message), NEW i \in 1 .. Len(h) + 1, NEW j \in 1 .. Len(h) - i + 1
  PROVE  From(h, i)[j] = h[i + j - 1]
<1>1. \A k \in i .. Len(h) : h[k] \in Message
  BY ElementOfSeq, LenProperties
<1>2. i \in Int /\ Len(h) \in Int
  BY LenProperties
<1>3. QED
  BY <1>1, <1>2, SubSeqProperties DEF From

\* Without its first message a part is the next part.
LEMMA FromNext ==
  ASSUME NEW h, h \in Seq(Message), NEW i, i \in 1 .. Len(h), NEW n, n = i + 1
  PROVE  Head(From(h, i)) = h[i] /\ Tail(From(h, i)) = From(h, n)
<1>1. Len(h) \in Nat
  BY LenProperties
<1>2. i \in 1 .. Len(h) + 1 /\ i <= Len(h)
  BY <1>1
<1>3. QED
  BY <1>2, FromProperties

\* The whole of a history is its part from the first message on.
LEMMA FromOne ==
  ASSUME NEW h \in Seq(Message)
  PROVE  From(h, 1) = h
  BY SubSeqFull DEF From

\* There is exactly one place to stop at.
LEMMA DropsToOnePlace ==
  ASSUME NEW h \in Seq(Message)
  PROVE  /\ \E i : DropsTo(h, i)
         /\ \A i, j : DropsTo(h, i) /\ DropsTo(h, j) => i = j
<1> DEFINE T == {i \in 1 .. Len(h) + 1 : Stops(From(h, i))}
<1>1. Len(h) \in Nat
  BY LenProperties
<1>2. Len(h) + 1 \in T
  BY <1>1, FromProperties DEF Stops
<1>3. PICK i \in T : \A j \in T : i <= j
  <2>1. T \subseteq Nat /\ T # {}
    BY <1>1, <1>2
  <2> HIDE DEF T
  <2>2. QED
    BY <2>1, LeastExists
<1>4. DropsTo(h, i)
  BY <1>1, <1>3 DEF DropsTo
<1>5. ASSUME NEW j, NEW k, DropsTo(h, j), DropsTo(h, k) PROVE j = k
  BY <1>1, <1>5 DEF DropsTo
<1>6. QED
  BY <1>4, <1>5

\* The explicit value solves the equation.
LEMMA CompactedSolves == Solves(Compacted)
<1>1. ASSUME NEW h \in Seq(Message)
      PROVE  Compacted[h] = Round(Compacted, h)
  <2> DEFINE k == CHOOSE i \in 1 .. Len(h) + 1 : DropsTo(h, i)
  <2>1. DropsTo(h, k) /\ Compacted[h] = Ended(From(h, k))
    <3>1. \E i \in 1 .. Len(h) + 1 : DropsTo(h, i)
      BY DropsToOnePlace DEF DropsTo
    <3>2. QED
      BY <3>1 DEF Compacted
  <2> HIDE DEF k
  <2>2. Len(h) \in Nat /\ From(h, 1) = h
    BY FromOne, LenProperties
  <2>3. CASE Stops(h)
    <3>1. k = 1
      BY <2>1, <2>2, <2>3, DropsToOnePlace DEF DropsTo
    <3>2. QED
      BY <2>1, <2>2, <2>3, <3>1 DEF Stops, Ended, Round
  <2>4. CASE ~ Stops(h)
    <3>1. /\ Len(h) > 1 /\ Tail(h) = From(h, 2) /\ From(h, 2) \in Seq(Message)
          /\ Len(From(h, 2)) = Len(h) - 1
          /\ \A i \in 1 .. Len(h) - 1 : From(h, 2)[i] = h[i + 1]
      <4>1. Len(h) > 1
        BY <2>2, <2>4 DEF Stops
      <4>2. 2 \in 1 .. Len(h) + 1 /\ 1 \in 1 .. Len(h) + 1
        BY <2>2, <4>1
      <4>3. Tail(h) = From(h, 2)
        <5>1. 1 \in 1 .. Len(h) /\ 2 = 1 + 1
          BY <2>2, <4>1
        <5>2. Tail(From(h, 1)) = From(h, 2)
          BY <5>1, FromNext
        <5>3. QED
          BY <2>2, <5>2
      <4>4. From(h, 2) \in Seq(Message) /\ Len(From(h, 2)) = Len(h) - 2 + 1
        <5> DEFINE n == 2
        <5>1. n \in 1 .. Len(h) + 1
          BY <4>2
        <5> HIDE DEF n
        <5>2. From(h, n) \in Seq(Message) /\ Len(From(h, n)) = Len(h) - n + 1
          BY <5>1, FromProperties
        <5>3. QED
          BY <5>2 DEF n
      <4>5. ASSUME NEW i \in 1 .. Len(h) - 1 PROVE From(h, 2)[i] = h[i + 1]
        <5>1. i \in 1 .. Len(h) - 2 + 1 /\ i + 1 = 2 + i - 1
          BY <2>2
        <5>2. QED
          BY <4>2, <5>1, FromAt
      <4>6. QED
        BY <2>2, <4>1, <4>3, <4>4, <4>5
    <3> DEFINE t == From(h, 2)
               m == CHOOSE i \in 1 .. Len(t) + 1 : DropsTo(t, i)
    <3>2. DropsTo(t, m) /\ Compacted[t] = Ended(From(t, m))
      <4>1. \E i \in 1 .. Len(t) + 1 : DropsTo(t, i)
        BY <3>1, DropsToOnePlace DEF DropsTo
      <4>2. QED
        BY <3>1, <4>1 DEF Compacted
    <3> HIDE DEF m
    <3>3. \A i \in 1 .. Len(h) : From(t, i) = From(h, i + 1)
      <4>1. ASSUME NEW i \in 1 .. Len(h) PROVE From(t, i) = From(h, i + 1)
        <5>1. /\ i \in 1 .. Len(t) + 1 /\ i + 1 \in 1 .. Len(h) + 1
              /\ From(t, i) \in Seq(Message) /\ From(h, i + 1) \in Seq(Message)
              /\ Len(From(t, i)) = Len(h) - i /\ Len(From(h, i + 1)) = Len(h) - i
          <6>1. /\ i \in 1 .. Len(t) + 1 /\ i + 1 \in 1 .. Len(h) + 1
                /\ Len(t) - i + 1 = Len(h) - i /\ Len(h) - (i + 1) + 1 = Len(h) - i
            BY <2>2, <3>1
          <6>2. From(t, i) \in Seq(Message) /\ Len(From(t, i)) = Len(t) - i + 1
            BY <3>1, <6>1, FromProperties
          <6>3. /\ From(h, i + 1) \in Seq(Message)
                /\ Len(From(h, i + 1)) = Len(h) - (i + 1) + 1
            BY <6>1, FromProperties
          <6>4. QED
            BY <6>1, <6>2, <6>3
        <5>2. ASSUME NEW j \in 1 .. Len(h) - i PROVE From(t, i)[j] = From(h, i + 1)[j]
          <6>1. From(t, i)[j] = t[i + j - 1]
            <7>1. j \in 1 .. Len(t) - i + 1
              BY <2>2, <3>1
            <7>2. QED
              BY <3>1, <5>1, <7>1, FromAt
          <6>2. t[i + j - 1] = h[i + j]
            <7>1. i + j - 1 \in 1 .. Len(h) - 1 /\ (i + j - 1) + 1 = i + j
              BY <2>2
            <7>2. QED
              BY <3>1, <7>1
          <6>3. From(h, i + 1)[j] = h[i + j]
            <7>1. j \in 1 .. Len(h) - (i + 1) + 1 /\ i + j = (i + 1) + j - 1
              BY <2>2
            <7>2. QED
              BY <5>1, <7>1, FromAt
          <6>4. QED
            BY <6>1, <6>2, <6>3
        <5>3. QED
          BY <5>1, <5>2, SeqEqual
      <4>2. QED
        BY <4>1
    <3> HIDE DEF t
    <3>4. DropsTo(h, m + 1)
      <4>1. m \in 1 .. Len(h) /\ Stops(From(t, m)) /\ \A j \in 1 .. m - 1 : ~ Stops(From(t, j))
        BY <2>2, <3>1, <3>2 DEF DropsTo, t
      <4>2. Stops(From(h, m + 1))
        BY <3>3, <4>1
      <4>3. ASSUME NEW j \in 1 .. (m + 1) - 1 PROVE ~ Stops(From(h, j))
        <5>1. CASE j = 1
          BY <2>2, <2>4, <5>1
        <5>2. CASE j # 1
          <6>1. j - 1 \in 1 .. m - 1 /\ j - 1 \in 1 .. Len(h) /\ (j - 1) + 1 = j
            BY <2>2, <4>1, <5>2
          <6>2. From(t, j - 1) = From(h, j)
            BY <3>3, <6>1
          <6>3. QED
            BY <4>1, <6>1, <6>2
        <5>3. QED
          BY <5>1, <5>2
      <4>4. QED
        BY <2>2, <4>1, <4>2, <4>3 DEF DropsTo
    <3>5. k = m + 1 /\ From(h, k) = From(t, m)
      BY <2>1, <2>2, <3>1, <3>2, <3>3, <3>4, DropsToOnePlace DEF DropsTo, t
    <3>6. Round(Compacted, h) = Compacted[t]
      BY <2>4, <3>1 DEF Round, Stops, t
    <3>7. QED
      BY <2>1, <3>2, <3>5, <3>6
  <2>5. QED
    BY <2>3, <2>4
<1>2. Compacted = [h \in Seq(Message) |-> Compacted[h]]
  BY DEF Compacted
<1> DEFINE c == Compacted
<1>3. c = [h \in Seq(Message) |-> Round(c, h)]
  <2> HIDE DEF c
  <2>1. \A h \in Seq(Message) : c[h] = Round(c, h)
    BY <1>1 DEF c
  <2>2. c = [h \in Seq(Message) |-> c[h]]
    BY <1>2 DEF c
  <2>3. QED
    BY <2>1, <2>2
<1>4. QED
  BY <1>3 DEF Solves

\* compact_history is a solution of the equation.
LEMMA CompactHistorySolves ==
  \E f : Solves(f) /\ \A messages : compact_history(messages) = f[messages]
<1> DEFINE f == CHOOSE f : f = [rest \in Seq(Message) |-> Round(f, rest)]
<1>1. f = [rest \in Seq(Message) |-> Round(f, rest)]
  BY CompactedSolves DEF Solves
<1>2. ASSUME NEW messages PROVE compact_history(messages) = f[messages]
  BY DEF compact_history, Round
<1>3. QED
  BY <1>1, <1>2 DEF Solves

\* Every solution takes the history to its end from the first message on that
\* is not dropped.
LEMMA RoundsStop ==
  ASSUME NEW f, Solves(f), NEW h \in Seq(Message), NEW i, DropsTo(h, i)
  PROVE  f[h] = Ended(From(h, i))
<1> DEFINE T == {j \in 1 .. i : f[From(h, j)] # f[h]}
<1>1. /\ Len(h) \in Nat /\ From(h, 1) = h
      /\ i \in 1 .. Len(h) + 1 /\ Stops(From(h, i))
  BY FromOne, LenProperties DEF DropsTo
<1>2. \A s \in Seq(Message) : f[s] = Round(f, s)
  BY DEF Solves
<1>3. T = {}
  <2>1. SUFFICES ASSUME T # {} PROVE FALSE
    OBVIOUS
  <2>2. PICK j \in T : \A k \in T : j <= k
    <3>1. T \subseteq Nat
      BY <1>1
    <3> HIDE DEF T
    <3>2. QED
      BY <2>1, <3>1, LeastExists
  <2>3. j # 1
    BY <1>1, <2>2
  <2> DEFINE k == j - 1
  <2>4. k \in 1 .. i - 1 /\ k \in 1 .. Len(h) /\ k \notin T /\ j = k + 1
    BY <1>1, <2>2, <2>3
  <2>5. f[From(h, k)] = f[h]
    BY <1>1, <2>4
  <2> HIDE DEF T, k
  <2>6. From(h, k) \in Seq(Message) /\ Tail(From(h, k)) = From(h, j)
    <3>1. k \in 1 .. Len(h) + 1
      BY <1>1, <2>4
    <3>2. QED
      BY <2>4, <3>1, FromProperties, FromNext
  <2>7. ~ Stops(From(h, k))
    BY <2>4 DEF DropsTo
  <2>8. f[From(h, k)] = f[From(h, j)]
    <3>1. f[From(h, k)] = Round(f, From(h, k))
      BY <1>2, <2>6
    <3>2. QED
      BY <2>6, <2>7, <3>1 DEF Round, Stops
  <2>9. QED
    BY <2>2, <2>5, <2>8 DEF T
<1>4. f[From(h, i)] = f[h]
  BY <1>1, <1>3
<1> HIDE DEF T
<1>5. f[From(h, i)] = Ended(From(h, i))
  <2>1. From(h, i) \in Seq(Message)
    BY <1>1, FromProperties
  <2>2. QED
    BY <1>1, <1>2, <2>1 DEF Round, Ended, Stops
<1>6. QED
  BY <1>4, <1>5

\* The last round leaves all messages but the first as they are, and cuts that
\* one only if there are others and no room.
LEMMA EndedKeeps ==
  ASSUME NEW s \in Seq(Message), Stops(s)
  PROVE  /\ Ended(s) \in Seq(Message) /\ Len(Ended(s)) = Len(s)
         /\ \A j \in 2 .. Len(s) : Ended(s)[j] = s[j]
         /\ \/ Ended(s) = s /\ (Len(s) <= 1 \/ ~ Full(s))
            \/ Len(s) > 1 /\ Full(s) /\ Ended(s)[1] = Truncated(s[1])
<1>1. CASE Len(s) <= 1 \/ ~ Full(s)
  BY <1>1 DEF Ended
<1>2. CASE ~ (Len(s) <= 1 \/ ~ Full(s))
  <2> DEFINE c == <<Truncated(s[1])>>
  <2>1. Len(s) \in Nat /\ Len(s) > 1 /\ s # <<>> /\ Head(s) = s[1] /\ s[1] \in Message
    BY <1>2, LenProperties, ElementOfSeq
  <2>2. c \in Seq(Message) /\ Len(c) = 1 /\ c[1] = Truncated(s[1])
    <3>1. Truncated(s[1]) \in Message
      BY <2>1 DEF Truncated, Message
    <3>2. QED
      BY <3>1
  <2>3. /\ Tail(s) \in Seq(Message) /\ Len(Tail(s)) = Len(s) - 1
        /\ \A j \in 1 .. Len(s) - 1 : Tail(s)[j] = s[j + 1]
    BY <2>1, HeadTailProperties
  <2>4. Ended(s) = c \o Tail(s)
    BY <1>2, <2>1 DEF Ended
  <2> HIDE DEF c
  <2>5. /\ c \o Tail(s) \in Seq(Message) /\ Len(c \o Tail(s)) = Len(s)
        /\ \A j \in 1 .. Len(s) :
             (c \o Tail(s))[j] = IF j <= 1 THEN c[j] ELSE Tail(s)[j - 1]
    <3> DEFINE u == Tail(s)
    <3>1. u \in Seq(Message) /\ Len(u) = Len(s) - 1
      BY <2>3
    <3> HIDE DEF u
    <3>2. /\ c \o u \in Seq(Message) /\ Len(c \o u) = Len(c) + Len(u)
          /\ \A j \in 1 .. Len(c) + Len(u) :
               (c \o u)[j] = IF j <= Len(c) THEN c[j] ELSE u[j - Len(c)]
      BY <2>2, <3>1, ConcatProperties
    <3>3. Len(c) + Len(u) = Len(s)
      BY <2>1, <2>2, <3>1
    <3>4. QED
      BY <2>2, <3>2, <3>3 DEF u
  <2>6. ASSUME NEW j \in 2 .. Len(s) PROVE Ended(s)[j] = s[j]
    <3>1. j \in 1 .. Len(s) /\ ~ (j <= 1) /\ j - 1 \in 1 .. Len(s) - 1 /\ (j - 1) + 1 = j
      BY <2>1
    <3>2. QED
      BY <2>3, <2>4, <2>5, <3>1
  <2>7. QED
    BY <1>2, <2>1, <2>2, <2>4, <2>5, <2>6
<1>3. QED
  BY <1>1, <1>2

\* What a compaction returns, and what it drops.
LEMMA HistoryIsCompacted ==
  ASSUME NEW h \in Seq(Message), NEW kept, kept = compact_history(h)
  PROVE  \E i \in 1 .. Len(h) + 1 :
           /\ DropsTo(h, i) /\ kept \in Seq(Message) /\ Len(kept) = Len(h) - i + 1
           /\ \A j \in 2 .. Len(kept) : kept[j] = h[i + j - 1]
           /\ \/ kept = From(h, i) /\ (Len(kept) <= 1 \/ ~ Full(kept))
              \/ Len(kept) > 1 /\ Full(From(h, i)) /\ kept[1] = Truncated(h[i])
<1>1. PICK f : Solves(f) /\ \A messages : compact_history(messages) = f[messages]
  BY CompactHistorySolves
<1>2. PICK i : DropsTo(h, i)
  BY DropsToOnePlace
<1>3. i \in 1 .. Len(h) + 1 /\ kept = Ended(From(h, i))
  BY <1>1, <1>2, RoundsStop DEF DropsTo
<1>4. From(h, i) \in Seq(Message) /\ Len(From(h, i)) = Len(h) - i + 1
  BY <1>3, FromProperties
<1> DEFINE s == From(h, i)
<1>5. s \in Seq(Message) /\ Stops(s) /\ Len(s) = Len(h) - i + 1 /\ Len(h) \in Nat
  BY <1>2, <1>4, LenProperties DEF DropsTo
<1>6. ASSUME NEW j \in 1 .. Len(s) PROVE s[j] = h[i + j - 1]
  BY <1>3, <1>5, FromAt
<1> HIDE DEF s
<1>7. /\ Ended(s) \in Seq(Message) /\ Len(Ended(s)) = Len(s)
      /\ \A j \in 2 .. Len(s) : Ended(s)[j] = s[j]
      /\ \/ Ended(s) = s /\ (Len(s) <= 1 \/ ~ Full(s))
         \/ Len(s) > 1 /\ Full(s) /\ Ended(s)[1] = Truncated(s[1])
  BY <1>5, EndedKeeps
<1>8. kept = Ended(s)
  BY <1>3 DEF s
<1>9. \A j \in 2 .. Len(kept) : kept[j] = h[i + j - 1]
  BY <1>5, <1>6, <1>7, <1>8
<1>10. Len(s) > 1 => s[1] = h[i]
  <2>1. ASSUME Len(s) > 1 PROVE s[1] = h[i]
    <3>1. 1 \in 1 .. Len(s) /\ i + 1 - 1 = i
      BY <1>3, <1>5, <2>1
    <3>2. QED
      BY <1>6, <3>1
  <2>2. QED
    BY <2>1
<1>11. \/ kept = s /\ (Len(kept) <= 1 \/ ~ Full(kept))
       \/ Len(kept) > 1 /\ Full(s) /\ kept[1] = Truncated(h[i])
  BY <1>7, <1>8, <1>10
<1>12. QED
  BY <1>2, <1>3, <1>5, <1>7, <1>8, <1>9, <1>11 DEF s

\* An empty history is never full.
LEMMA EmptyIsNotFull ==
  ASSUME limit \in Nat
  PROVE  ~ Full(<<>>)
<1> DEFINE D == DOMAIN <<>>
           sum == CHOOSE f : f =
                    [s \in SUBSET D |->
                       IF s = {} THEN 0 ELSE f[s \ {Max(s)}] + (<<>>[Max(s)]).size]
<1>1. total_chars(<<>>) = sum[D]
  BY DEF total_chars, FoldLeft, MapThenFoldSet
<1>2. D = {}
  OBVIOUS
<1> HIDE DEF D
<1>3. sum[D] = 0
  <2> DEFINE zero == [s \in SUBSET D |-> 0]
  <2>1. zero = [s \in SUBSET D |->
                  IF s = {} THEN 0 ELSE zero[s \ {Max(s)}] + (<<>>[Max(s)]).size]
    BY <1>2
  <2> HIDE DEF zero
  <2>2. sum = [s \in SUBSET D |->
                 IF s = {} THEN 0 ELSE sum[s \ {Max(s)}] + (<<>>[Max(s)]).size]
    BY <2>1
  <2> HIDE DEF sum
  <2>3. QED
    BY <1>2, <2>2
<1>4. QED
  BY <1>1, <1>3 DEF Full, NoLimit

-----------------------------------------------------------------------------
(* The theorems.                                                           *)

\* A compaction of any history loses what it has to and no more.
LEMMA CompactionsAreExact ==
  ASSUME HistoryTypeOK
  PROVE  CompactionIsExact
<1> DEFINE h == history
           kept == compact_history(h)
           dropped == Len(h) - Len(kept)
<1>1. h \in Seq(Message) /\ Len(h) \in Nat /\ limit \in Nat
  BY CompactionAssumption, LenProperties DEF HistoryTypeOK
<1>2. PICK i \in 1 .. Len(h) + 1 :
        /\ DropsTo(h, i) /\ kept \in Seq(Message) /\ Len(kept) = Len(h) - i + 1
        /\ \/ kept = From(h, i) /\ (Len(kept) <= 1 \/ ~ Full(kept))
           \/ Len(kept) > 1 /\ Full(From(h, i)) /\ kept[1] = Truncated(h[i])
  BY <1>1, HistoryIsCompacted
<1> HIDE DEF kept, h
<1>3. dropped = i - 1
  BY <1>1, <1>2
<1>4. ASSUME NEW j \in 1 .. i - 1 PROVE Full(From(h, j)) /\ h[j].size <= Keep
  <2>1. j \in 1 .. Len(h) /\ j \in 1 .. Len(h) + 1 /\ ~ Stops(From(h, j))
    BY <1>1, <1>2 DEF DropsTo
  <2>2. Head(From(h, j)) = h[j]
    BY <1>1, <2>1, FromNext
  <2>3. h[j].size \in Int
    <3>1. h[j] \in Message
      BY <1>1, <2>1, ElementOfSeq
    <3>2. h[j].size \in Sizes \cup {Keep + Wrap}
      BY <3>1 DEF Message
    <3>3. Sizes \cup {Keep + Wrap} \subseteq Int
      BY CompactionAssumption
    <3>4. QED
      BY <3>2, <3>3
  <2>4. QED
    BY <2>1, <2>2, <2>3, CompactionAssumption DEF Stops
<1>5. dropped > 0 => Full(SubSeq(h, dropped, Len(h)))
  <2>1. ASSUME dropped > 0 PROVE Full(From(h, dropped))
    BY <1>2, <1>3, <1>4, <2>1
  <2>2. QED
    BY <2>1 DEF From
<1>6. kept # <<>> /\ kept[1] # h[dropped + 1] => Full(SubSeq(h, dropped + 1, Len(h)))
  <2>1. ASSUME kept # <<>>, kept[1] # h[i] PROVE Full(From(h, i))
    <3>1. CASE kept = From(h, i)
      <4>1. Len(kept) \in Nat \ {0}
        BY <1>2, <2>1, EmptySeq
      <4>2. 1 \in 1 .. Len(h) - i + 1 /\ i + 1 - 1 = i
        BY <1>1, <1>2, <4>1
      <4>3. From(h, i)[1] = h[i + 1 - 1]
        BY <1>1, <1>2, <4>2, FromAt
      <4>4. QED
        BY <2>1, <3>1, <4>2, <4>3
    <3>2. QED
      BY <1>2, <3>1
  <2>2. dropped + 1 = i
    BY <1>1, <1>2, <1>3
  <2>3. QED
    BY <2>1, <2>2 DEF From
<1>7. \A j \in 1 .. dropped : h[j].size <= Keep
  BY <1>3, <1>4
<1>8. ~ Full(kept) \/ Len(kept) = 1 \/ kept[1].cut
  <2>1. CASE Len(kept) = 0
    BY <1>1, <1>2, <2>1, EmptySeq, EmptyIsNotFull
  <2>2. CASE kept[1] = Truncated(h[i]) /\ Len(kept) > 1
    <3>1. i \in 1 .. Len(h)
      BY <1>1, <1>2, <2>2
    <3>2. h[i] \in Message
      BY <1>1, <3>1, ElementOfSeq
    <3>3. QED
      BY <2>2, <3>2 DEF Truncated, Message
  <2>3. QED
    <3>1. Len(kept) \in Nat
      BY <1>2, LenProperties
    <3>2. QED
      BY <1>2, <2>1, <2>2, <3>1
<1>9. QED
  BY <1>5, <1>6, <1>7, <1>8 DEF CompactionIsExact, h, kept

\* A conversation begins with nothing said.
LEMMA InitIsSound == HistoryInit => CompactionInv
<1>1. SUFFICES ASSUME HistoryInit PROVE CompactionInv
  OBVIOUS
<1>2. HistoryTypeOK
  BY <1>1, EmptySeq DEF HistoryInit, HistoryTypeOK
<1>3. QED
  BY <1>1, <1>2 DEF HistoryInit, CompactionInv, SaidInTurn, RecentTurnsAreIntact

\* A message that is said goes to the end of both.
LEMMA SayIsSound ==
  ASSUME CompactionInv, Say
  PROVE  CompactionInv'
<1> DEFINE dropped == Len(said) - Len(history)
<1>1. /\ said \in Seq(Message) /\ history \in Seq(Message) /\ limit \in Limits
      /\ Len(said) \in Nat /\ Len(history) \in Nat
      /\ DOMAIN said = 1 .. Len(said) /\ DOMAIN history = 1 .. Len(history)
  BY LenProperties DEF CompactionInv, HistoryTypeOK
<1>2. PICK size \in Sizes :
        /\ Len(said) < MaxMessages
        /\ said' = Append(said, [turn |-> Len(said) + 1, size |-> size, cut |-> FALSE])
        /\ history' = Append(history, [turn |-> Len(said) + 1, size |-> size, cut |-> FALSE])
        /\ limit' = limit
  BY DEF Say
<1> DEFINE m == [turn |-> Len(said) + 1, size |-> size, cut |-> FALSE]
<1>3. m \in Message /\ m.turn = Len(said) + 1 /\ ~ m.cut
  BY <1>1, <1>2, CompactionAssumption DEF Message
<1>4. said' = Append(said, m) /\ history' = Append(history, m)
  BY <1>2
<1> HIDE DEF m
<1>5. /\ said' \in Seq(Message) /\ Len(said') = Len(said) + 1
      /\ DOMAIN said' = 1 .. Len(said) + 1 /\ said'[Len(said) + 1] = m
      /\ \A i \in 1 .. Len(said) : said'[i] = said[i]
  BY <1>1, <1>3, <1>4, AppendProperties, LenProperties
<1>6. /\ history' \in Seq(Message) /\ Len(history') = Len(history) + 1
      /\ DOMAIN history' = 1 .. Len(history) + 1 /\ history'[Len(history) + 1] = m
      /\ \A i \in 1 .. Len(history) : history'[i] = history[i]
  BY <1>1, <1>3, <1>4, AppendProperties, LenProperties
<1>7. HistoryTypeOK'
  <2>1. ASSUME NEW i \in 1 .. Len(history) + 1, history'[i].cut
        PROVE  history'[i].size = Keep + Wrap
    <3>1. i \in 1 .. Len(history)
      BY <1>1, <1>3, <1>6, <2>1
    <3>2. QED
      BY <1>1, <1>6, <2>1, <3>1 DEF CompactionInv, HistoryTypeOK
  <2>2. QED
    BY <1>1, <1>2, <1>5, <1>6, <2>1 DEF HistoryTypeOK
<1>8. SaidInTurn'
  <2>1. ASSUME NEW i \in 1 .. Len(said) + 1 PROVE said'[i].turn = i
    <3>1. CASE i = Len(said) + 1
      BY <1>3, <1>5, <3>1
    <3>2. CASE i # Len(said) + 1
      <4>1. i \in 1 .. Len(said)
        BY <1>1, <3>2
      <4>2. QED
        BY <1>1, <1>5, <4>1 DEF CompactionInv, SaidInTurn
    <3>3. QED
      BY <3>1, <3>2
  <2>2. QED
    BY <1>5, <2>1 DEF SaidInTurn
<1>9. RecentTurnsAreIntact'
  <2>1. dropped >= 0 /\ dropped \in Int /\ Len(said') - Len(history') = dropped
    BY <1>1, <1>5, <1>6 DEF CompactionInv, RecentTurnsAreIntact
  <2>2. history' # <<>>
    BY <1>1, <1>3, <1>4, AppendProperties
  <2>3. ASSUME NEW i \in 1 .. Len(history) + 1
        PROVE  IF i = 1 /\ Len(history') > 1 THEN history'[i].turn = dropped + 1
               ELSE history'[i] = said'[dropped + i]
    <3>1. CASE i = Len(history) + 1
      <4>1. dropped + i = Len(said) + 1
        BY <1>1, <3>1
      <4>2. i = 1 => ~ (Len(history') > 1)
        BY <1>1, <1>6, <3>1
      <4>3. QED
        BY <1>5, <1>6, <3>1, <4>1, <4>2
    <3>2. CASE i # Len(history) + 1
      <4>1. i \in 1 .. Len(history) /\ history'[i] = history[i]
        BY <1>1, <1>6, <3>2
      <4>2. dropped + i \in 1 .. Len(said) /\ said'[dropped + i] = said[dropped + i]
        <5> DEFINE n == dropped + i
        <5>1. n \in 1 .. Len(said)
          BY <1>1, <2>1, <4>1
        <5> HIDE DEF n
        <5>2. said'[n] = said[n]
          BY <1>5, <5>1
        <5>3. QED
          BY <5>1, <5>2 DEF n
      <4>3. IF i = 1 /\ Len(history) > 1 THEN history[i].turn = dropped + 1
            ELSE history[i] = said[dropped + i]
        BY <1>1, <4>1 DEF CompactionInv, RecentTurnsAreIntact
      <4>4. said[dropped + i].turn = dropped + i
        BY <1>1, <4>2 DEF CompactionInv, SaidInTurn
      <4>5. CASE i = 1
        <5>1. Len(history') > 1 /\ dropped + i = dropped + 1
          BY <1>1, <1>6, <4>1, <4>5
        <5>2. history[i].turn = dropped + 1
          BY <4>3, <4>4, <4>5, <5>1
        <5>3. QED
          BY <4>1, <4>5, <5>1, <5>2
      <4>6. CASE i # 1
        BY <4>1, <4>2, <4>3, <4>6
      <4>7. QED
        BY <4>5, <4>6
    <3>3. QED
      BY <3>1, <3>2
  <2> HIDE DEF dropped
  <2>4. QED
    BY <1>6, <2>1, <2>2, <2>3 DEF RecentTurnsAreIntact
<1>10. QED
  BY <1>7, <1>8, <1>9 DEF CompactionInv

\* A compaction keeps the end of the history, and with it the end of what was
\* said. The last message is not cut, since a message is cut before others only.
LEMMA CompactIsSound ==
  ASSUME CompactionInv, Compact
  PROVE  CompactionInv'
<1> DEFINE h == history
           kept == compact_history(h)
           dropped == Len(said) - Len(h)
<1>1. /\ said \in Seq(Message) /\ h \in Seq(Message) /\ limit \in Limits
      /\ Len(said) \in Nat /\ Len(h) \in Nat
      /\ DOMAIN said = 1 .. Len(said) /\ DOMAIN h = 1 .. Len(h)
  BY LenProperties DEF CompactionInv, HistoryTypeOK
<1>2. PICK d \in 1 .. Len(h) + 1 :
        /\ DropsTo(h, d) /\ kept \in Seq(Message) /\ Len(kept) = Len(h) - d + 1
        /\ \A j \in 2 .. Len(kept) : kept[j] = h[d + j - 1]
        /\ \/ kept = From(h, d) /\ (Len(kept) <= 1 \/ ~ Full(kept))
           \/ Len(kept) > 1 /\ Full(From(h, d)) /\ kept[1] = Truncated(h[d])
  BY <1>1, HistoryIsCompacted
<1>3. history' = kept /\ said' = said /\ limit' = limit
  BY DEF Compact
<1>4. /\ dropped >= 0 /\ (said # <<>> => h # <<>>)
      /\ \A i \in 1 .. Len(h) :
           IF i = 1 /\ Len(h) > 1 THEN h[i].turn = dropped + 1 ELSE h[i] = said[dropped + i]
  BY <1>1 DEF CompactionInv, RecentTurnsAreIntact
<1>5. \A i \in 1 .. Len(h) : h[i].cut => h[i].size = Keep + Wrap
  BY <1>1 DEF CompactionInv, HistoryTypeOK
<1> HIDE DEF kept, h
<1>6. DOMAIN kept = 1 .. Len(kept) /\ Len(kept) \in Nat
  BY <1>2, LenProperties
<1>7. ASSUME NEW j \in 1 .. Len(kept)
      PROVE  \/ j = 1 /\ Len(kept) > 1 /\ kept[j] = Truncated(h[d])
             \/ kept[j] = h[d + j - 1]
  <2>1. CASE j = 1
    <3>1. CASE kept = From(h, d)
      <4>1. j \in 1 .. Len(h) - d + 1
        BY <1>2
      <4>2. QED
        BY <1>1, <3>1, <4>1, FromAt
    <3>2. QED
      BY <1>2, <2>1, <3>1
  <2>2. CASE j # 1
    <3>1. j \in 2 .. Len(kept)
      BY <1>6, <2>2
    <3>2. QED
      BY <1>2, <3>1
  <2>3. QED
    BY <2>1, <2>2
<1>8. ASSUME NEW j \in 1 .. Len(kept), NEW n, n = d + j - 1
      PROVE  /\ n \in 1 .. Len(h) /\ h[n] \in Message /\ h[n].turn = dropped + n
             /\ kept[j].turn = h[n].turn
             /\ n > 1 \/ Len(h) = 1 => h[n] = said[dropped + n]
             /\ kept[j].cut => kept[j].size = Keep + Wrap
  <2>1. n \in 1 .. Len(h)
    BY <1>1, <1>2, <1>8
  <2>2. h[n] \in Message
    BY <1>1, <2>1, ElementOfSeq
  <2>3. n > 1 \/ Len(h) = 1 => h[n] = said[dropped + n]
    BY <1>1, <1>4, <2>1
  <2>4. h[n].turn = dropped + n
    <3>1. CASE n = 1 /\ Len(h) > 1
      <4>1. h[n].turn = dropped + 1
        BY <1>4, <2>1, <3>1
      <4>2. QED
        BY <3>1, <4>1
    <3>2. CASE ~ (n = 1 /\ Len(h) > 1)
      <4>1. h[n] = said[dropped + n]
        BY <1>4, <2>1, <3>2
      <4>2. dropped + n \in 1 .. Len(said)
        BY <1>1, <1>4, <2>1
      <4>3. said[dropped + n].turn = dropped + n
        BY <1>1, <4>2 DEF CompactionInv, SaidInTurn
      <4>4. QED
        BY <4>1, <4>3
    <3>3. QED
      BY <3>1, <3>2
  <2>5. CASE j = 1 /\ kept[j] = Truncated(h[d])
    <3>1. n = d
      BY <1>2, <1>8, <2>5
    <3>2. QED
      BY <2>1, <2>2, <2>3, <2>4, <2>5, <3>1 DEF Truncated, Message
  <2>6. CASE kept[j] = h[d + j - 1]
    BY <1>5, <1>8, <2>1, <2>2, <2>3, <2>4, <2>6
  <2>7. QED
    BY <1>7, <2>5, <2>6
<1>9. ASSUME NEW j \in 1 .. Len(kept)
      PROVE  /\ kept[j].turn = dropped + (d + j - 1)
             /\ kept[j].cut => kept[j].size = Keep + Wrap
             /\ ~ (j = 1 /\ Len(kept) > 1) => kept[j] = said[dropped + (d + j - 1)]
  <2> DEFINE n == d + j - 1
  <2>1. n = d + j - 1
    OBVIOUS
  <2>2. ~ (j = 1 /\ Len(kept) > 1) => n > 1 \/ Len(h) = 1
    BY <1>1, <1>2
  <2>3. ~ (j = 1 /\ Len(kept) > 1) => kept[j] = h[n]
    BY <1>7
  <2> HIDE DEF n
  <2>4. /\ h[n].turn = dropped + n /\ kept[j].turn = h[n].turn
        /\ n > 1 \/ Len(h) = 1 => h[n] = said[dropped + n]
        /\ kept[j].cut => kept[j].size = Keep + Wrap
    BY <1>8, <2>1
  <2>5. QED
    BY <2>2, <2>3, <2>4 DEF n
<1>10. HistoryTypeOK'
  BY <1>1, <1>2, <1>3, <1>6, <1>9 DEF HistoryTypeOK
<1>11. SaidInTurn'
  BY <1>3 DEF CompactionInv, SaidInTurn
<1>12. h # <<>> => kept # <<>>
  <2>1. SUFFICES ASSUME h # <<>>, kept = <<>> PROVE FALSE
    OBVIOUS
  <2>2. Len(kept) = 0 /\ Len(h) > 0
    BY <1>1, <2>1, EmptySeq
  <2>3. Len(h) \in 1 .. d - 1 /\ Len(h) \in 1 .. Len(h) + 1
    BY <1>1, <1>2, <2>2
  <2>4. Len(From(h, Len(h))) = Len(h) - Len(h) + 1
    BY <1>1, <2>3, FromProperties
  <2>5. Stops(From(h, Len(h)))
    BY <1>1, <2>4 DEF Stops
  <2>6. QED
    BY <1>2, <2>3, <2>5 DEF DropsTo
<1>13. RecentTurnsAreIntact'
  <2> DEFINE gone == Len(said) - Len(kept)
  <2>1. gone = dropped + (d - 1) /\ gone >= 0 /\ gone \in Int
    BY <1>1, <1>2, <1>4
  <2>2. ASSUME NEW j \in 1 .. Len(kept)
        PROVE  IF j = 1 /\ Len(kept) > 1 THEN kept[j].turn = gone + 1
               ELSE kept[j] = said[gone + j]
    <3>1. dropped + (d + j - 1) = gone + j
      BY <1>1, <1>2, <2>1
    <3> HIDE DEF gone, dropped
    <3>2. /\ kept[j].turn = gone + j
          /\ ~ (j = 1 /\ Len(kept) > 1) => kept[j] = said[gone + j]
      BY <1>9, <3>1
    <3>3. QED
      BY <3>2
  <2> HIDE DEF dropped
  <2>3. QED
    BY <1>3, <1>4, <1>6, <1>12, <2>1, <2>2 DEF RecentTurnsAreIntact
<1>14. QED
  BY <1>10, <1>11, <1>13 DEF CompactionInv

\* The invariant holds of every conversation.
THEOREM Invariance == HistorySpec => []CompactionInv
<1>1. CompactionInv /\ [HistoryNext]_historyVars => CompactionInv'
  <2>1. SUFFICES ASSUME CompactionInv, [HistoryNext]_historyVars PROVE CompactionInv'
    OBVIOUS
  <2>2. CASE Say
    BY <2>1, <2>2, SayIsSound
  <2>3. CASE Compact
    BY <2>1, <2>3, CompactIsSound
  <2>4. CASE UNCHANGED historyVars
    BY <2>1, <2>4 DEF CompactionInv, HistoryTypeOK, SaidInTurn, RecentTurnsAreIntact, historyVars
  <2>5. QED
    BY <2>1, <2>2, <2>3, <2>4 DEF HistoryNext
<1>2. QED
  BY <1>1, InitIsSound, PTL DEF HistorySpec

\* The history keeps its shape, whatever is said and compacted.
THEOREM TypeCorrect == HistorySpec => []HistoryTypeOK
<1>1. CompactionInv => HistoryTypeOK
  BY DEF CompactionInv
<1>2. QED
  BY <1>1, Invariance, PTL

\* "preserving recent turns" (core/loop.py): however often it is compacted, the
\* history is the end of the conversation, in its own words but for the oldest
\* message.
THEOREM RecentTurnsAreKept == HistorySpec => []RecentTurnsAreIntact
<1>1. CompactionInv => RecentTurnsAreIntact
  BY DEF CompactionInv
<1>2. QED
  BY <1>1, Invariance, PTL

\* "once utilization crosses threshold" (core/loop.py): no message is dropped or
\* cut without need, and no need is left that dropping could meet.
THEOREM CompactionLosesNoMore == HistorySpec => []CompactionIsExact
<1>1. CompactionInv => CompactionIsExact
  BY CompactionsAreExact DEF CompactionInv
<1>2. QED
  BY <1>1, Invariance, PTL

=============================================================================
