------------------------------ MODULE Retrieval ------------------------------
(***************************************************************************)
(* retrieval/mcp_server/__main__.py: the keyword search that the MCP       *)
(* server offers to the retrieval agent. A text is abstracted to the terms *)
(* that occur in it, and a chunk to the number of its document and its     *)
(* score.                                                                  *)
(***************************************************************************)
EXTENDS Integers, SequencesExt

CONSTANT Corpus   \* the documents in their order, each as a set of terms

\* `sum(1 for t in terms if t in text)`: a term asked for twice counts twice.
score(query, doc) == Cardinality({i \in DOMAIN query : query[i] \in Corpus[doc]})

\* scored.sort(key=score, reverse=True) is stable: a match comes after those of
\* as many terms, or more, that stand before it in the corpus.
Placed(chunks, chunk) ==
  LET ahead == {i \in DOMAIN chunks : chunks[i].score >= chunk.score}
  IN  InsertAt(chunks, Cardinality(ahead) + 1, chunk)

sorted(query) ==
  LET upToDoc[d \in 0 .. Len(Corpus)] ==
        IF d = 0 THEN <<>>
        ELSE IF score(query, d) = 0 THEN upToDoc[d - 1]
        ELSE Placed(upToDoc[d - 1], [id |-> d, score |-> score(query, d)])
  IN  upToDoc[Len(Corpus)]

\* Python's s[:k]: a negative k leaves out the last ones.
upto(s, k) == SubSeq(s, 1, IF k >= 0 THEN Min({k, Len(s)}) ELSE Len(s) + k)

\* Cuts the matches before they are sorted. (A name that ends in _bug is a
\* deliberately wrong variant of the definition after it.)
search_bug(query, k) ==
  LET first == {d \in DOMAIN Corpus : score(query, d) > 0 /\ d <= k}
  IN  SelectSeq(sorted(query), LAMBDA chunk : chunk.id \in first)

search(query, k) == upto(sorted(query), k)

fetch_chunk(id) == IF id \in DOMAIN Corpus THEN Corpus[id] ELSE {}

-----------------------------------------------------------------------------
(* What an answer should be, without sorting anything.                     *)

\* The documents that stand before d: better matches, or equal and earlier.
Before(query, d) ==
  {c \in DOMAIN Corpus : \/ score(query, c) > score(query, d)
                         \/ score(query, c) = score(query, d) /\ c < d}

\* A chunk is a document that matches, with its score, at the place that its
\* rank gives it; nothing is left out that the k asked for has room for; and
\* whoever fetches the chunk finds a term of the query in it. No number of
\* chunks is asked for if k is negative: the answer then has more than the "up
\* to k chunks" that the tool promises.
IsAnswer(chunks, query, k) ==
  LET matching == {d \in DOMAIN Corpus : score(query, d) > 0}
  IN  /\ k >= 0 => Len(chunks) = Min({k, Cardinality(matching)})
      /\ \A i \in DOMAIN chunks :
           /\ chunks[i].id \in matching
           /\ chunks[i].score = score(query, chunks[i].id)
           /\ Cardinality(Before(query, chunks[i].id)) = i - 1
           /\ \E t \in fetch_chunk(chunks[i].id) : \E j \in DOMAIN query : query[j] = t
=============================================================================
