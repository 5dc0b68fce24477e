-------------------------- MODULE RetrievalProofs --------------------------
(***************************************************************************)
(* Proofs about Retrieval, for any corpus, query and k: what search        *)
(* returns is an answer as IsAnswer has it, which says nothing of sorting. *)
(* sorted is computed by recursion over the documents. The provers know no *)
(* induction, so that a first document at which something goes wrong takes *)
(* its place: there is none at which the recursion has no value            *)
(* (SortingIsDefined), and none at which its value is not ranked           *)
(* (SortedIsRanked). Ranks are counted by a bijection between the places   *)
(* of the chunks and their documents (RanksAreCounted).                    *)
(***************************************************************************)
EXTENDS Retrieval, FiniteSetTheorems, SequenceTheorems, WellFoundedInduction, TLAPS

\* The corpus is a sequence, and the query has a finite number of terms.
Searchable(query) ==
  /\ Len(Corpus) \in Nat /\ DOMAIN Corpus = 1 .. Len(Corpus)
  /\ IsFiniteSet(DOMAIN query)

Chunk == [id : 1 .. Len(Corpus), score : Nat]

\* What stands before what: more terms, or as many and earlier in the corpus.
Ahead(c, d) == c.score > d.score \/ (c.score = d.score /\ c.id < d.id)

\* The chunks are the matches among the first n documents, in order.
Ranked(query, n, chunks) ==
  /\ chunks \in Seq(Chunk)
  /\ \A i \in 1 .. Len(chunks) :
       /\ chunks[i].id <= n
       /\ chunks[i].score > 0 /\ chunks[i].score = score(query, chunks[i].id)
  /\ \A i, j \in 1 .. Len(chunks) : i < j => Ahead(chunks[i], chunks[j])
  /\ \A d \in 1 .. n : score(query, d) > 0 => \E i \in 1 .. Len(chunks) : chunks[i].id = d

\* t is s with e inserted after the first p elements.
HasInserted(S, s, p, e, t) ==
  /\ t \in Seq(S) /\ Len(t) = Len(s) + 1 /\ t[p + 1] = e
  /\ \A i \in 1 .. p : t[i] = s[i]
  /\ \A i \in p + 2 .. Len(s) + 1 : t[i] = s[i - 1]

\* The chunks after document d, if f has those after the document before.
AfterDoc(query, f, d) ==
  IF d = 0 THEN <<>>
  ELSE IF score(query, d) = 0 THEN f[d - 1]
  ELSE Placed(f[d - 1], [id |-> d, score |-> score(query, d)])

Solves(query, n, f) == f = [d \in 0 .. n |-> AfterDoc(query, f, d)]

-----------------------------------------------------------------------------
(* Numbers, scores, and what is inserted where.                            *)

\* A non-empty set of natural numbers has a least element.
LEMMA LeastExists ==
  ASSUME NEW T, T \subseteq Nat, T # {}
  PROVE  \E i \in T : \A j \in T : i <= j
<1>1. PICK i \in T : \A j \in T : ~ (<<j, i>> \in OpToRel(<, Nat))
  BY WFMin, NatLessThanWellFounded
<1>2. ASSUME NEW j \in T PROVE i <= j
  <2>1. i \in Nat /\ j \in Nat
    OBVIOUS
  <2>2. ~ (j < i)
    BY <1>1, <2>1 DEF OpToRel
  <2>3. QED
    BY <2>1, <2>2
<1>3. QED
  BY <1>2

\* A set of numbers from 1 on without a gap is an interval.
LEMMA NoGaps ==
  ASSUME NEW n \in Nat, NEW T, T \subseteq 1 .. n,
         \A i \in T : \A j \in 1 .. i : j \in T
  PROVE  Cardinality(T) \in 0 .. n /\ T = 1 .. Cardinality(T)
<1> DEFINE U == (1 .. n + 1) \ T
<1>1. U \subseteq Nat /\ n + 1 \in U
  OBVIOUS
<1>2. PICK m \in U : \A j \in U : m <= j
  <2> HIDE DEF U
  <2>1. QED
    BY <1>1, LeastExists
<1>3. m \in 1 .. n + 1 /\ m \notin T
  OBVIOUS
<1>4. T = 1 .. m - 1
  <2>1. ASSUME NEW j \in 1 .. m - 1 PROVE j \in T
    <3>1. j \in 1 .. n + 1 /\ ~ (m <= j)
      BY <1>3
    <3>2. QED
      BY <1>2, <3>1
  <2>2. ASSUME NEW j \in T PROVE j \in 1 .. m - 1
    <3>1. j \in 1 .. n
      OBVIOUS
    <3>2. j >= m => m \in 1 .. j
      BY <1>3, <3>1
    <3>3. QED
      BY <1>3, <3>1, <3>2
  <2>3. QED
    BY <2>1, <2>2
<1>5. Cardinality(1 .. m - 1) = m - 1
  BY <1>3, FS_Interval
<1>6. QED
  BY <1>3, <1>4, <1>5

\* A score is a number, and more than zero only for a term that occurs.
LEMMA ScoreCounts ==
  ASSUME NEW query, IsFiniteSet(DOMAIN query), NEW d
  PROVE  /\ score(query, d) \in Nat
         /\ score(query, d) > 0 => \E j \in DOMAIN query : query[j] \in Corpus[d]
<1> DEFINE T == {i \in DOMAIN query : query[i] \in Corpus[d]}
<1>1. IsFiniteSet(T)
  BY FS_Subset
<1>2. Cardinality(T) \in Nat /\ (Cardinality(T) > 0 => T # {})
  BY <1>1, FS_CardinalityType, FS_EmptySet
<1>3. QED
  BY <1>2 DEF score

\* InsertAt leaves what is before the place, and moves what is after by one.
LEMMA Inserted ==
  ASSUME NEW S, NEW s \in Seq(S), NEW e \in S, NEW p \in 0 .. Len(s),
         NEW t, t = InsertAt(s, p + 1, e)
  PROVE  HasInserted(S, s, p, e, t)
<1> DEFINE front == SubSeq(s, 1, p)
           back == SubSeq(s, p + 1, Len(s))
           one == <<e>>
<1>1. Len(s) \in Nat /\ p \in Nat /\ \A i \in 1 .. Len(s) : s[i] \in S
  BY LenProperties, ElementOfSeq
<1>2. /\ front \in Seq(S) /\ Len(front) = p
      /\ \A i \in 1 .. p : front[i] = s[i]
  <2>1. \A i \in 1 .. p : s[i] \in S
    BY <1>1
  <2>2. /\ front \in Seq(S) /\ Len(front) = IF 1 <= p THEN p - 1 + 1 ELSE 0
        /\ \A i \in 1 .. p - 1 + 1 : front[i] = s[1 + i - 1]
    BY <1>1, <2>1, SubSeqProperties
  <2>3. QED
    BY <1>1, <2>2
<1>3. /\ back \in Seq(S) /\ Len(back) = Len(s) - p
      /\ \A i \in 1 .. Len(s) - p : back[i] = s[p + i]
  <2> DEFINE m == p + 1
  <2>1. m \in Int /\ \A i \in m .. Len(s) : s[i] \in S
    BY <1>1
  <2> HIDE DEF m
  <2>2. /\ SubSeq(s, m, Len(s)) \in Seq(S)
        /\ Len(SubSeq(s, m, Len(s))) = IF m <= Len(s) THEN Len(s) - m + 1 ELSE 0
        /\ \A i \in 1 .. Len(s) - m + 1 : SubSeq(s, m, Len(s))[i] = s[m + i - 1]
    BY <1>1, <2>1, SubSeqProperties
  <2>3. QED
    BY <1>1, <2>2 DEF m
<1>4. one \in Seq(S) /\ Len(one) = 1 /\ one[1] = e
  OBVIOUS
<1> HIDE DEF front, back, one
<1>5. /\ front \o one \in Seq(S) /\ Len(front \o one) = p + 1
      /\ \A i \in 1 .. p + 1 : (front \o one)[i] = IF i <= p THEN front[i] ELSE one[i - p]
  <2>1. /\ front \o one \in Seq(S) /\ Len(front \o one) = Len(front) + Len(one)
        /\ \A i \in 1 .. Len(front) + Len(one) :
             (front \o one)[i] = IF i <= Len(front) THEN front[i] ELSE one[i - Len(front)]
    BY <1>2, <1>4, ConcatProperties
  <2>2. Len(front) = p /\ Len(front) + Len(one) = p + 1
    BY <1>1, <1>2, <1>4
  <2>3. QED
    BY <2>1, <2>2
<1> DEFINE head == front \o one
<1>6. head \in Seq(S) /\ Len(head) = p + 1 /\ head[p + 1] = e /\ \A i \in 1 .. p : head[i] = s[i]
  BY <1>1, <1>2, <1>4, <1>5
<1>7. t = head \o back
  <2>1. (p + 1) - 1 = p
    BY <1>1
  <2>2. QED
    BY <2>1 DEF InsertAt, front, back, one
<1> HIDE DEF head
<1>8. /\ t \in Seq(S) /\ Len(t) = Len(s) + 1
      /\ \A i \in 1 .. Len(s) + 1 : t[i] = IF i <= p + 1 THEN head[i] ELSE back[i - (p + 1)]
  <2>1. /\ head \o back \in Seq(S) /\ Len(head \o back) = Len(head) + Len(back)
        /\ \A i \in 1 .. Len(head) + Len(back) :
             (head \o back)[i] = IF i <= Len(head) THEN head[i] ELSE back[i - Len(head)]
    BY <1>3, <1>6, ConcatProperties
  <2>2. Len(head) = p + 1 /\ Len(head) + Len(back) = Len(s) + 1
    BY <1>1, <1>3, <1>6
  <2>3. QED
    BY <1>7, <2>1, <2>2
<1>9. t[p + 1] = e /\ \A i \in 1 .. p : t[i] = s[i]
  BY <1>1, <1>6, <1>8
<1>10. ASSUME NEW i \in p + 2 .. Len(s) + 1 PROVE t[i] = s[i - 1]
  <2> DEFINE j == i - (p + 1)
  <2>1. j \in 1 .. Len(s) - p /\ p + j = i - 1
    BY <1>1
  <2>2. t[i] = back[j]
    BY <1>1, <1>8
  <2> HIDE DEF j
  <2>3. back[j] = s[p + j]
    BY <1>3, <2>1
  <2>4. QED
    BY <2>1, <2>2, <2>3
<1>11. QED
  BY <1>8, <1>9, <1>10 DEF HasInserted

-----------------------------------------------------------------------------
(* What sorted returns.                                                    *)

\* The recursion over the documents has a value.
LEMMA SortingIsDefined ==
  ASSUME NEW query, NEW n \in Nat
  PROVE  \E f : Solves(query, n, f)
<1> DEFINE T == {m \in Nat : ~ \E f : Solves(query, m, f)}
<1>1. SUFFICES ASSUME T # {} PROVE FALSE
  OBVIOUS
<1>2. PICK m \in T : \A j \in T : m <= j
  <2> HIDE DEF T
  <2>1. T \subseteq Nat
    BY DEF T
  <2>2. QED
    BY <1>1, <2>1, LeastExists
<1>3. m # 0
  <2> DEFINE f == [d \in 0 .. 0 |-> <<>>]
  <2>1. Solves(query, 0, f)
    BY DEF Solves, AfterDoc
  <2>2. QED
    BY <2>1
<1> DEFINE k == m - 1
<1>4. k \in Nat /\ k \notin T /\ m = k + 1
  BY <1>2, <1>3
<1>5. PICK f : Solves(query, k, f)
  BY <1>4
<1> HIDE DEF k
<1> DEFINE g == [d \in 0 .. m |-> IF d = m THEN AfterDoc(query, f, m) ELSE f[d]]
<1>6. ASSUME NEW d \in 0 .. m PROVE g[d] = AfterDoc(query, g, d)
  <2>1. CASE d = 0
    <3>1. g[0] = f[0] /\ f[0] = <<>>
      BY <1>3, <1>4, <1>5, <2>1 DEF Solves, AfterDoc
    <3>2. QED
      BY <2>1, <3>1 DEF AfterDoc
  <2>2. CASE d # 0
    <3>1. d - 1 \in 0 .. k /\ g[d - 1] = f[d - 1]
      BY <1>4, <2>2
    <3>2. AfterDoc(query, g, d) = AfterDoc(query, f, d)
      BY <3>1 DEF AfterDoc
    <3>3. d # m => g[d] = AfterDoc(query, f, d)
      BY <1>4, <1>5 DEF Solves
    <3>4. QED
      BY <3>2, <3>3
  <2>3. QED
    BY <2>1, <2>2
<1>7. g = [d \in 0 .. m |-> g[d]]
  OBVIOUS
<1>8. Solves(query, m, g)
  <2> HIDE DEF g
  <2>1. QED
    BY <1>6, <1>7 DEF Solves
<1>9. QED
  BY <1>8

\* sorted is the value after the last document.
LEMMA SortedSolves ==
  ASSUME NEW query, Searchable(query)
  PROVE  \E f : Solves(query, Len(Corpus), f) /\ sorted(query) = f[Len(Corpus)]
<1> DEFINE f == CHOOSE f : f = [d \in 0 .. Len(Corpus) |-> AfterDoc(query, f, d)]
<1>1. f = [d \in 0 .. Len(Corpus) |-> AfterDoc(query, f, d)]
  BY SortingIsDefined DEF Searchable, Solves
<1>2. sorted(query) = f[Len(Corpus)]
  BY DEF sorted, AfterDoc
<1>3. QED
  BY <1>1, <1>2 DEF Solves

\* A match that is placed among those before it is at its rank.
LEMMA PlacedIsRanked ==
  ASSUME NEW query, Searchable(query), NEW n \in Nat, n < Len(Corpus),
         NEW s, Ranked(query, n, s), NEW c,
         c = [id |-> n + 1, score |-> score(query, n + 1)], c.score > 0
  PROVE  Ranked(query, n + 1, Placed(s, c))
<1> DEFINE ahead == {i \in DOMAIN s : s[i].score >= c.score}
           p == Cardinality(ahead)
           t == Placed(s, c)
<1>1. /\ s \in Seq(Chunk) /\ Len(s) \in Nat /\ DOMAIN s = 1 .. Len(s)
      /\ \A i \in 1 .. Len(s) : s[i] \in Chunk
  BY LenProperties, ElementOfSeq DEF Ranked
<1>2. \A i \in 1 .. Len(s) : s[i].id \in 1 .. Len(Corpus) /\ s[i].score \in Nat
  BY <1>1 DEF Chunk
<1>3. c \in Chunk /\ c.id = n + 1 /\ c.score = score(query, n + 1) /\ c.score \in Nat
  BY ScoreCounts DEF Searchable, Chunk
<1>4. p \in 0 .. Len(s) /\ ahead = 1 .. p
  <2>1. ASSUME NEW i \in ahead, NEW j \in 1 .. i PROVE j \in ahead
    <3>1. i \in 1 .. Len(s) /\ j \in 1 .. Len(s) /\ s[i].score >= c.score
      BY <1>1
    <3>2. j < i => Ahead(s[j], s[i])
      BY <3>1 DEF Ranked
    <3>3. s[j].score >= s[i].score
      BY <1>2, <3>1, <3>2 DEF Ahead
    <3>4. QED
      BY <1>1, <1>2, <1>3, <3>1, <3>3
  <2>2. ahead \subseteq 1 .. Len(s)
    BY <1>1
  <2> HIDE DEF ahead
  <2>3. QED
    BY <1>1, <2>1, <2>2, NoGaps
<1>5. ASSUME NEW i \in 1 .. Len(s)
      PROVE  (i <= p => s[i].score >= c.score) /\ (i > p => s[i].score < c.score)
  <2>1. i \in ahead <=> i <= p
    BY <1>4
  <2>2. i \in ahead <=> s[i].score >= c.score
    BY <1>1
  <2> HIDE DEF ahead, p
  <2>3. p \in Nat
    BY <1>1, <1>4
  <2>4. QED
    BY <1>2, <1>3, <2>1, <2>2, <2>3
<1>6. t = InsertAt(s, p + 1, c)
  BY DEF Placed
<1> HIDE DEF ahead, p, t
<1>7. /\ t \in Seq(Chunk) /\ Len(t) = Len(s) + 1 /\ t[p + 1] = c
      /\ \A i \in 1 .. p : t[i] = s[i]
      /\ \A i \in p + 2 .. Len(s) + 1 : t[i] = s[i - 1]
  <2>1. s \in Seq(Chunk) /\ c \in Chunk /\ p \in 0 .. Len(s)
    BY <1>1, <1>3, <1>4
  <2>2. HasInserted(Chunk, s, p, c, t)
    BY <1>6, <2>1, Inserted
  <2>3. QED
    BY <2>2 DEF HasInserted
<1>8. ASSUME NEW i \in 1 .. Len(t)
      PROVE  \/ i = p + 1 /\ t[i] = c
             \/ i <= p /\ i \in 1 .. Len(s) /\ t[i] = s[i]
             \/ i > p + 1 /\ i - 1 \in 1 .. Len(s) /\ i - 1 > p /\ t[i] = s[i - 1]
  BY <1>1, <1>4, <1>7
<1>9. ASSUME NEW i \in 1 .. Len(t)
      PROVE  /\ t[i].id <= n + 1 /\ t[i].score > 0
             /\ t[i].score = score(query, t[i].id)
  <2>1. ASSUME NEW j \in 1 .. Len(s)
        PROVE  s[j].id <= n + 1 /\ s[j].score > 0 /\ s[j].score = score(query, s[j].id)
    BY <1>2 DEF Ranked
  <2>2. QED
    BY <1>3, <1>8, <2>1
<1>10. ASSUME NEW i \in 1 .. Len(t), NEW j \in 1 .. Len(t), i < j
       PROVE  Ahead(t[i], t[j])
  <2>1. \A a, b \in 1 .. Len(s) : a < b => Ahead(s[a], s[b])
    BY DEF Ranked
  <2>2. ASSUME NEW a \in 1 .. Len(s), a <= p PROVE Ahead(s[a], c)
    <3>1. s[a].score >= c.score /\ s[a].id < c.id
      BY <1>2, <1>3, <1>5, <2>2 DEF Ranked
    <3>2. QED
      BY <1>2, <1>3, <3>1 DEF Ahead
  <2>3. ASSUME NEW b \in 1 .. Len(s), b > p PROVE Ahead(c, s[b])
    BY <1>2, <1>3, <1>5, <2>3 DEF Ahead
  <2>4. i \in Nat /\ j \in Nat /\ p \in Nat
    BY <1>1, <1>4, <1>7
  <2>5. CASE i <= p
    <3>1. t[i] = s[i] /\ i \in 1 .. Len(s)
      BY <1>8, <2>4, <2>5
    <3>2. CASE j <= p
      BY <1>8, <1>10, <2>1, <2>4, <3>1, <3>2
    <3>3. CASE j = p + 1
      BY <1>7, <2>2, <2>5, <3>1, <3>3
    <3>4. CASE j > p + 1
      <4>1. t[j] = s[j - 1] /\ j - 1 \in 1 .. Len(s) /\ i < j - 1
        BY <1>8, <2>4, <2>5, <3>4
      <4>2. QED
        BY <2>1, <3>1, <4>1
    <3>5. QED
      BY <2>4, <3>2, <3>3, <3>4
  <2>6. CASE i = p + 1
    <3>1. t[j] = s[j - 1] /\ j - 1 \in 1 .. Len(s) /\ j - 1 > p
      BY <1>8, <1>10, <2>4, <2>6
    <3>2. QED
      BY <1>7, <2>3, <2>6, <3>1
  <2>7. CASE i > p + 1
    <3>1. /\ t[i] = s[i - 1] /\ i - 1 \in 1 .. Len(s)
          /\ t[j] = s[j - 1] /\ j - 1 \in 1 .. Len(s) /\ i - 1 < j - 1
      BY <1>8, <1>10, <2>4, <2>7
    <3>2. QED
      BY <2>1, <3>1
  <2>8. QED
    BY <2>4, <2>5, <2>6, <2>7
<1>11. ASSUME NEW d \in 1 .. n + 1, score(query, d) > 0
       PROVE  \E i \in 1 .. Len(t) : t[i].id = d
  <2>1. CASE d = n + 1
    <3>1. p + 1 \in 1 .. Len(t) /\ t[p + 1].id = d
      BY <1>1, <1>3, <1>4, <1>7, <2>1
    <3>2. QED
      BY <3>1
  <2>2. CASE d # n + 1
    <3>1. d \in 1 .. n
      BY <2>2
    <3>2. PICK i \in 1 .. Len(s) : s[i].id = d
      BY <1>11, <3>1 DEF Ranked
    <3>3. CASE i <= p
      <4>1. i \in 1 .. p /\ i \in 1 .. Len(t)
        BY <1>1, <1>4, <1>7, <3>3
      <4>2. QED
        BY <1>7, <3>2, <4>1
    <3>4. CASE i > p
      <4> DEFINE j == i + 1
      <4>1. j \in p + 2 .. Len(s) + 1 /\ j \in 1 .. Len(t) /\ j - 1 = i
        BY <1>1, <1>4, <1>7, <3>4
      <4> HIDE DEF j
      <4>2. t[j] = s[i]
        BY <1>7, <4>1
      <4>3. QED
        BY <3>2, <4>1, <4>2
    <3>5. QED
      BY <1>1, <1>4, <3>3, <3>4
  <2>3. QED
    BY <2>1, <2>2
<1>12. QED
  BY <1>7, <1>9, <1>10, <1>11 DEF Ranked, t

\* sorted ranks the matches among all documents: there is no first n at which
\* the chunks after document n are not ranked.
LEMMA SortedIsRanked ==
  ASSUME NEW query, Searchable(query)
  PROVE  Ranked(query, Len(Corpus), sorted(query))
<1> DEFINE size == Len(Corpus)
<1>1. size \in Nat
  BY DEF Searchable
<1>2. PICK f : Solves(query, size, f) /\ sorted(query) = f[size]
  BY SortedSolves
<1>3. ASSUME NEW n \in 0 .. size PROVE f[n] = AfterDoc(query, f, n)
  BY <1>2 DEF Solves
<1> DEFINE T == {n \in 0 .. size : ~ Ranked(query, n, f[n])}
<1>4. SUFFICES ASSUME T # {} PROVE FALSE
  BY <1>1, <1>2
<1>5. PICK m \in T : \A j \in T : m <= j
  <2>1. T \subseteq Nat
    BY <1>1
  <2> HIDE DEF T
  <2>2. QED
    BY <1>4, <2>1, LeastExists
<1>6. m # 0
  <2>1. f[0] = <<>>
    <3>1. 0 \in 0 .. size
      BY <1>1
    <3>2. f[0] = AfterDoc(query, f, 0)
      BY <1>3, <3>1
    <3>3. QED
      BY <3>2 DEF AfterDoc
  <2>2. Ranked(query, 0, <<>>)
    BY DEF Ranked
  <2>3. QED
    BY <2>1, <2>2
<1> DEFINE n == m - 1
<1>7. n \in Nat /\ n < size /\ m = n + 1 /\ n \in 0 .. size /\ n \notin T
  BY <1>1, <1>5, <1>6
<1>8. Ranked(query, n, f[n])
  BY <1>7
<1>9. ~ Ranked(query, m, f[m])
  OBVIOUS
<1>10. f[m] = IF score(query, m) = 0 THEN f[n]
              ELSE Placed(f[n], [id |-> m, score |-> score(query, m)])
  BY <1>3, <1>6 DEF AfterDoc
<1>11. score(query, m) \in Nat
  BY ScoreCounts DEF Searchable
<1> HIDE DEF T, n, size
<1>12. CASE score(query, m) = 0
  <2>1. f[n] \in Seq(Chunk) /\ Len(f[n]) \in Nat /\ \A i \in 1 .. Len(f[n]) : f[n][i] \in Chunk
    BY <1>8, LenProperties, ElementOfSeq DEF Ranked
  <2>2. \A i \in 1 .. Len(f[n]) : f[n][i].id \in Nat
    BY <1>1, <2>1 DEF Chunk, size
  <2>3. \A i \in 1 .. Len(f[n]) : f[n][i].id <= n + 1
    BY <1>7, <1>8, <2>2 DEF Ranked
  <2>4. \A d \in 1 .. n + 1 : score(query, d) > 0 => d \in 1 .. n
    BY <1>7, <1>12
  <2>5. Ranked(query, n + 1, f[n])
    BY <1>8, <2>3, <2>4 DEF Ranked
  <2>6. QED
    BY <1>7, <1>9, <1>10, <1>12, <2>5
<1>13. CASE score(query, m) # 0
  <2> DEFINE c == [id |-> n + 1, score |-> score(query, n + 1)]
  <2>1. c.score > 0
    BY <1>7, <1>11, <1>13
  <2>2. n < Len(Corpus)
    BY <1>7 DEF size
  <2> HIDE DEF c
  <2>3. Ranked(query, n + 1, Placed(f[n], c))
    BY <1>7, <1>8, <2>1, <2>2, PlacedIsRanked DEF c
  <2>4. QED
    BY <1>7, <1>9, <1>10, <1>13, <2>3 DEF c
<1>14. QED
  BY <1>12, <1>13

-----------------------------------------------------------------------------
(* What search returns.                                                    *)

\* The documents that match a query.
Matching(query) == {d \in DOMAIN Corpus : score(query, d) > 0}

\* A function that takes no value twice counts what it takes.
LEMMA ValuesAreCounted ==
  ASSUME NEW n \in Nat, NEW f, DOMAIN f = 1 .. n,
         \A i, j \in 1 .. n : f[i] = f[j] => i = j
  PROVE  Cardinality({f[i] : i \in 1 .. n}) = n
<1> DEFINE S == 1 .. n
           T == {f[i] : i \in S}
           g == [i \in S |-> f[i]]
<1>1. g \in [S -> T] /\ (\A t \in T : \E i \in S : g[i] = t) /\ \A i, j \in S : g[i] = g[j] => i = j
  OBVIOUS
<1>2. IsFiniteSet(S) /\ Cardinality(S) = n
  BY FS_Interval
<1> HIDE DEF g, S, T
<1>3. g \in Bijection(S, T)
  BY <1>1 DEF Bijection, Injection, Surjection, IsInjective
<1>4. ExistsBijection(S, T)
  BY <1>3 DEF ExistsBijection
<1>5. Cardinality(T) = n
  BY <1>2, <1>4, FS_Bijection
<1>6. QED
  BY <1>5 DEF S, T

\* The rank of a chunk is its place, and all matches are there.
LEMMA RanksAreCounted ==
  ASSUME NEW query, Searchable(query), NEW s, Ranked(query, Len(Corpus), s)
  PROVE  /\ Len(s) = Cardinality(Matching(query))
         /\ \A i \in 1 .. Len(s) : Cardinality(Before(query, s[i].id)) = i - 1
<1> DEFINE size == Len(s)
           f == [i \in 1 .. size |-> s[i].id]
<1>1. size \in Nat /\ DOMAIN Corpus = 1 .. Len(Corpus) /\ Len(Corpus) \in Nat
  BY LenProperties DEF Ranked, Searchable
<1>2. ASSUME NEW i \in 1 .. size
      PROVE  /\ s[i].id \in DOMAIN Corpus /\ s[i].id \in Nat /\ s[i].score \in Nat
             /\ s[i].score > 0 /\ s[i].score = score(query, s[i].id)
  <2>1. s \in Seq(Chunk) /\ s[i].score > 0 /\ s[i].score = score(query, s[i].id)
    BY DEF Ranked
  <2>2. s[i] \in Chunk
    BY <2>1, ElementOfSeq
  <2>3. QED
    BY <1>1, <2>1, <2>2 DEF Chunk
<1>3. ASSUME NEW i \in 1 .. size, NEW j \in 1 .. size, i < j
      PROVE  Ahead(s[i], s[j]) /\ ~ Ahead(s[j], s[i]) /\ s[i].id # s[j].id
  <2>1. Ahead(s[i], s[j])
    BY <1>3 DEF Ranked
  <2>2. QED
    BY <1>2, <2>1 DEF Ahead
<1>4. \A d \in Matching(query) : \E i \in 1 .. size : s[i].id = d
  BY <1>1 DEF Ranked, Matching
<1>5. ASSUME NEW i \in 1 .. size, NEW j \in 1 .. size, f[i] = f[j] PROVE i = j
  <2>1. s[i].id = s[j].id
    BY <1>5
  <2>2. i < j \/ j < i \/ i = j
    BY <1>1
  <2>3. QED
    BY <1>3, <2>1, <2>2
<1>6. ASSUME NEW n \in 0 .. size
      PROVE  Cardinality({s[i].id : i \in 1 .. n}) = n
  <2> DEFINE g == [i \in 1 .. n |-> s[i].id]
  <2>1. n \in Nat /\ DOMAIN g = 1 .. n
    BY <1>1
  <2>2. \A i, j \in 1 .. n : g[i] = g[j] => i = j
    BY <1>1, <1>5
  <2>3. {s[i].id : i \in 1 .. n} = {g[i] : i \in 1 .. n}
    OBVIOUS
  <2> HIDE DEF g
  <2>4. QED
    BY <2>1, <2>2, <2>3, ValuesAreCounted
<1>7. Matching(query) = {s[i].id : i \in 1 .. size}
  BY <1>2, <1>4 DEF Matching
<1>8. ASSUME NEW i \in 1 .. size
      PROVE  Cardinality(Before(query, s[i].id)) = i - 1
  <2>1. ASSUME NEW j \in 1 .. i - 1 PROVE s[j].id \in Before(query, s[i].id)
    <3>1. j \in 1 .. size /\ j < i
      BY <1>1
    <3>2. QED
      BY <1>2, <1>3, <3>1 DEF Before, Ahead
  <2>2. ASSUME NEW d \in Before(query, s[i].id) PROVE \E j \in 1 .. i - 1 : s[j].id = d
    <3>1. /\ d \in DOMAIN Corpus
          /\ \/ score(query, d) > score(query, s[i].id)
             \/ score(query, d) = score(query, s[i].id) /\ d < s[i].id
      BY DEF Before
    <3>2. score(query, d) \in Nat /\ score(query, d) > 0
      BY <1>2, <3>1, ScoreCounts DEF Searchable
    <3>3. PICK j \in 1 .. size : s[j].id = d
      BY <1>4, <3>1, <3>2 DEF Matching
    <3>4. Ahead(s[j], s[i])
      BY <1>2, <3>1, <3>3 DEF Ahead
    <3>5. j < i
      <4>1. ~ (i < j)
        BY <1>3, <3>4
      <4>2. i # j
        BY <1>2, <3>4 DEF Ahead
      <4>3. QED
        BY <1>1, <4>1, <4>2
    <3>6. QED
      BY <1>1, <3>3, <3>5
  <2>3. Before(query, s[i].id) = {s[j].id : j \in 1 .. i - 1}
    BY <2>1, <2>2
  <2>4. QED
    BY <1>1, <1>6, <2>3
<1>9. Cardinality(Matching(query)) = size
  BY <1>1, <1>6, <1>7
<1>10. QED
  BY <1>8, <1>9

\* Python's slice keeps the first elements: k of them, or all but -k.
LEMMA UptoKeepsTheFirst ==
  ASSUME NEW S, NEW s \in Seq(S), NEW k \in Int
  PROVE  /\ upto(s, k) \in Seq(S)
         /\ Len(upto(s, k)) = IF k >= 0 THEN Min({k, Len(s)}) ELSE IF Len(s) + k >= 0 THEN Len(s) + k ELSE 0
         /\ Len(upto(s, k)) <= Len(s)
         /\ \A i \in 1 .. Len(upto(s, k)) : upto(s, k)[i] = s[i]
<1> DEFINE n == IF k >= 0 THEN Min({k, Len(s)}) ELSE Len(s) + k
           t == SubSeq(s, 1, n)
<1>1. Len(s) \in Nat /\ \A i \in 1 .. Len(s) : s[i] \in S
  BY LenProperties, ElementOfSeq
<1>2. ASSUME NEW a \in Int, NEW b \in Int
      PROVE  Min({a, b}) = IF a <= b THEN a ELSE b
  BY DEF Min
<1>3. n \in Int /\ n <= Len(s) /\ (k >= 0 => n >= 0)
  BY <1>1, <1>2
<1>4. IF k >= 0 THEN n = Min({k, Len(s)}) ELSE n = Len(s) + k
  OBVIOUS
<1> HIDE DEF n
<1>5. \A i \in 1 .. n : s[i] \in S
  BY <1>1, <1>3
<1>6. /\ t \in Seq(S) /\ Len(t) = IF 1 <= n THEN n - 1 + 1 ELSE 0
      /\ \A i \in 1 .. n - 1 + 1 : t[i] = s[1 + i - 1]
  BY <1>3, <1>5, SubSeqProperties
<1>7. /\ Len(t) = IF n >= 0 THEN n ELSE 0
      /\ \A i \in 1 .. Len(t) : t[i] = s[i]
  BY <1>3, <1>6
<1> HIDE DEF t
<1>8. /\ Len(t) = IF k >= 0 THEN Min({k, Len(s)}) ELSE IF Len(s) + k >= 0 THEN Len(s) + k ELSE 0
      /\ Len(t) <= Len(s)
  BY <1>1, <1>3, <1>4, <1>7
<1>9. t = upto(s, k)
  BY DEF t, n, upto
<1>10. QED
  BY <1>6, <1>7, <1>8, <1>9

\* "Returns up to k chunks, each with its id, text, and a naive relevance
\* score": whatever corpus there is and whatever is asked for, search returns
\* the matches that rank best, in order, and each has a term of the query; they
\* are k, or all, unless k is negative.
THEOREM SearchIsGrounded ==
  ASSUME NEW Terms, Corpus \in Seq(SUBSET Terms), NEW query \in Seq(Terms), NEW k \in Int
  PROVE  IsAnswer(search(query, k), query, k)
<1> DEFINE s == sorted(query)
           chunks == search(query, k)
           size == Cardinality(Matching(query))
<1>1. Searchable(query)
  <2>1. DOMAIN query = 1 .. Len(query) /\ Len(query) \in Nat
    OBVIOUS
  <2>2. QED
    BY <2>1, FS_Interval DEF Searchable
<1>2. Ranked(query, Len(Corpus), s)
  BY <1>1, SortedIsRanked
<1>3. s \in Seq(Chunk) /\ Len(s) \in Nat /\ Len(Corpus) \in Nat
  BY <1>1, <1>2, LenProperties DEF Ranked, Searchable
<1>4. Len(s) = size /\ \A i \in 1 .. Len(s) : Cardinality(Before(query, s[i].id)) = i - 1
  BY <1>1, <1>2, RanksAreCounted
<1> HIDE DEF s
<1>5. /\ chunks \in Seq(Chunk)
      /\ k >= 0 => Len(chunks) = Min({k, Len(s)})
      /\ Len(chunks) <= Len(s)
      /\ \A i \in 1 .. Len(chunks) : chunks[i] = s[i]
  BY <1>3, UptoKeepsTheFirst DEF search, s
<1> HIDE DEF chunks
<1>6. DOMAIN chunks = 1 .. Len(chunks) /\ Len(chunks) \in Nat /\ Len(chunks) <= Len(s)
  BY <1>5, LenProperties
<1>7. ASSUME NEW i \in DOMAIN chunks
      PROVE  /\ chunks[i].id \in Matching(query)
             /\ chunks[i].score = score(query, chunks[i].id)
             /\ Cardinality(Before(query, chunks[i].id)) = i - 1
             /\ \E t \in fetch_chunk(chunks[i].id) : \E j \in DOMAIN query : query[j] = t
  <2>1. i \in 1 .. Len(s) /\ chunks[i] = s[i] /\ s[i] \in Chunk
    <3>1. i \in 1 .. Len(chunks) /\ i \in 1 .. Len(s)
      BY <1>3, <1>6
    <3>2. chunks[i] = s[i]
      BY <1>5, <3>1
    <3>3. QED
      BY <1>3, <3>1, <3>2, ElementOfSeq
  <2>2. s[i].score > 0 /\ s[i].score = score(query, s[i].id)
    BY <1>2, <2>1 DEF Ranked
  <2>3. s[i].id \in DOMAIN Corpus
    BY <1>1, <2>1 DEF Chunk, Searchable
  <2>4. \E j \in DOMAIN query : query[j] \in fetch_chunk(s[i].id)
    BY <1>1, <2>2, <2>3, ScoreCounts DEF Searchable, fetch_chunk
  <2>5. QED
    BY <1>4, <2>1, <2>2, <2>3, <2>4 DEF Matching
<1>8. QED
  BY <1>4, <1>5, <1>7 DEF IsAnswer, Matching, chunks
=============================================================================
