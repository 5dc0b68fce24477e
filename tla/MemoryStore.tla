---------------------------- MODULE MemoryStore ----------------------------
(***************************************************************************)
(* memory/pgvector_store.py over the memory_items table: PgVectorMemory-   *)
(* Store, as used by several processes at once. Every method awaits the    *)
(* embedding or the database in between its statements, so the steps of    *)
(* concurrent methods interleave. The database is Postgres at its default  *)
(* isolation level: a statement sees what is committed when it starts, an  *)
(* UPDATE waits for the row locks of other transactions and then writes    *)
(* over whatever they left, and now() is the time the transaction began.   *)
(*                                                                         *)
(* One clock stands for the clocks of the processes and of the server.     *)
(* Embeddings are left out: which facts a recall finds near its query is   *)
(* left open, and so is how many of them, up to the limit.                 *)
(***************************************************************************)
EXTENDS Integers, FiniteSets

CONSTANTS
  Clients,    \* one method call each at a time
  Items,      \* MemoryItems, by id
  Scopes,
  K,          \* the number of facts a recall asks for
  MaxClock,   \* bound of the exploration: the clock stops here
  NoRow, Null

VARIABLES
  clock,  \* wall-clock time
  rows,   \* the committed contents of memory_items, by id
  op      \* the method call each client has under way

vars == <<clock, rows, op>>

Row == [scope : Scopes, valid_from : 0 .. MaxClock, valid_to : 0 .. MaxClock \cup {Null}]

ASSUME StoreAssumption ==
  K \in Nat /\ MaxClock \in Nat /\ Null \notin Nat /\ NoRow \notin Row

\* `items` is the batch of remember, the answer of recall, and in invalidate
\* what the predicate matches, which the SELECT narrows down to to_close; `at`
\* is the time stamp of the call.
Op == [pc : {"idle", "embedding", "inserting", "querying", "answered",
             "began", "selected", "updated", "closed"},
       scope : Scopes \cup {Null}, items : SUBSET Items, at : 0 .. MaxClock \cup {Null}]

Idle == [pc |-> "idle", scope |-> Null, items |-> {}, at |-> Null]

Stored    == {i \in Items : rows[i] # NoRow}
Live      == {i \in Stored : rows[i].valid_to = Null}
In(scope) == {i \in Stored : rows[i].scope = scope}

Init ==
  /\ clock = 0
  /\ rows = [i \in Items |-> NoRow]
  /\ op = [c \in Clients |-> Idle]

Goes(c, state) == op' = [op EXCEPT ![c] = state]

-----------------------------------------------------------------------------
(* remember(items, scope). A name that ends in _bug is a deliberately      *)
(* wrong variant of the definition after it.                               *)

Remember(c, scope) ==
  /\ op[c].pc = "idle"
  /\ \E batch \in (SUBSET Items) \ {{}} :
       Goes(c, [Idle EXCEPT !.pc = "embedding", !.scope = scope, !.items = batch])
  /\ UNCHANGED <<clock, rows>>

\* The vectors are there; the facts are taken to be valid from now on.
Embedded(c) ==
  /\ op[c].pc = "embedding"
  /\ Goes(c, [op[c] EXCEPT !.pc = "inserting", !.at = clock])
  /\ UNCHANGED <<clock, rows>>

\* The item's own valid_from, which nobody sets.
NewRow_bug(c) == [scope |-> op[c].scope, valid_from |-> Null, valid_to |-> Null]

NewRow(c) == [scope |-> op[c].scope, valid_from |-> op[c].at, valid_to |-> Null]

\* executemany is one transaction; ON CONFLICT (id) DO NOTHING.
Insert(c) ==
  /\ op[c].pc = "inserting"
  /\ rows' = [i \in Items |-> IF i \in op[c].items \ Stored THEN NewRow(c) ELSE rows[i]]
  /\ Goes(c, Idle)
  /\ UNCHANGED clock

-----------------------------------------------------------------------------
(* recall(query, scope, k).                                                *)

Recall(c, scope) ==
  /\ op[c].pc = "idle"
  /\ Goes(c, [Idle EXCEPT !.pc = "querying", !.scope = scope])
  /\ UNCHANGED <<clock, rows>>

\* Leaves out "AND valid_to IS NULL".
Nearest_bug(scope) == {nearest \in SUBSET In(scope) : Cardinality(nearest) <= K}

\* WHERE scope = $1 AND valid_to IS NULL ORDER BY embedding <=> $2 LIMIT $3. The
\* HNSW index of the table finds a limited number of the nearest rows of all,
\* approximately, and the WHERE is applied to those: fewer than k may be left.
Nearest(scope) == {nearest \in SUBSET (Live \cap In(scope)) : Cardinality(nearest) <= K}

Answer(c) ==
  /\ op[c].pc = "querying"
  /\ \E nearest \in Nearest(op[c].scope) :
       Goes(c, [op[c] EXCEPT !.pc = "answered", !.at = clock, !.items = nearest])
  /\ UNCHANGED <<clock, rows>>

\* The method returns what it has found, or how much it has closed.
Taken(c) ==
  /\ op[c].pc \in {"answered", "closed"}
  /\ Goes(c, Idle)
  /\ UNCHANGED <<clock, rows>>

-----------------------------------------------------------------------------
(* invalidate(predicate): BEGIN, SELECT, UPDATE, COMMIT.                   *)

Begin(c, scope) ==
  /\ op[c].pc = "idle"
  /\ \E matching \in SUBSET Items :
       Goes(c, [Idle EXCEPT !.pc = "began", !.scope = scope, !.items = matching, !.at = clock])
  /\ UNCHANGED <<clock, rows>>

\* Closes what the predicate matches in any scope.
Select_bug(c) ==
  LET to_close == op[c].items \cap Live
  IN  /\ op[c].pc = "began"
      /\ Goes(c, [op[c] EXCEPT !.items = to_close,
                               !.pc = IF to_close = {} THEN "closed" ELSE "selected"])
      /\ UNCHANGED <<clock, rows>>

\* The predicate is applied to what the SELECT finds live in the scope; if
\* nothing matches, the transaction ends here.
Select(c) ==
  LET to_close == op[c].items \cap Live \cap In(op[c].scope)
  IN  /\ op[c].pc = "began"
      /\ Goes(c, [op[c] EXCEPT !.items = to_close,
                               !.pc = IF to_close = {} THEN "closed" ELSE "selected"])
      /\ UNCHANGED <<clock, rows>>

Locked(c) == {i \in Items : \E d \in Clients \ {c} : op[d].pc = "updated" /\ i \in op[d].items}

Update(c) ==
  /\ op[c].pc = "selected"
  /\ op[c].items \cap Locked(c) = {}
  /\ Goes(c, [op[c] EXCEPT !.pc = "updated"])
  /\ UNCHANGED <<clock, rows>>

\* Closes the scope instead of the facts the predicate matched.
Commit_bug(c) ==
  /\ op[c].pc = "updated"
  /\ rows' = [i \in Items |-> IF i \in In(op[c].scope)
                              THEN [rows[i] EXCEPT !.valid_to = op[c].at] ELSE rows[i]]
  /\ Goes(c, [op[c] EXCEPT !.pc = "closed"])
  /\ UNCHANGED clock

\* A row that was written once the COMMIT is through, for all to see.
Commit(c) ==
  /\ op[c].pc = "updated"
  /\ rows' = [i \in Items |-> IF i \in op[c].items
                              THEN [rows[i] EXCEPT !.valid_to = op[c].at] ELSE rows[i]]
  /\ Goes(c, [op[c] EXCEPT !.pc = "closed"])
  /\ UNCHANGED clock

-----------------------------------------------------------------------------
\* The embedding, the connection or the process fails: the method raises and
\* an open transaction is rolled back. A call whose effect is committed but
\* not acknowledged looks, from here on, like one that returned.
Fail(c) ==
  /\ op[c].pc \notin {"idle", "answered", "closed"}
  /\ Goes(c, Idle)
  /\ UNCHANGED <<clock, rows>>

Time == clock < MaxClock /\ clock' = clock + 1 /\ UNCHANGED <<rows, op>>

Next ==
  \/ \E c \in Clients :
       \/ \E s \in Scopes : Remember(c, s) \/ Recall(c, s) \/ Begin(c, s)
       \/ Embedded(c) \/ Insert(c)
       \/ Answer(c) \/ Taken(c)
       \/ Select(c) \/ Update(c) \/ Commit(c)
       \/ Fail(c)
  \/ Time

Spec == Init /\ [][Next]_vars

-----------------------------------------------------------------------------
(* Properties.                                                             *)

\* The table and the calls under way have their shape.
TypeOK ==
  /\ clock \in 0 .. MaxClock
  /\ rows \in [Items -> Row \cup {NoRow}]
  /\ op \in [Clients -> Op]

\* "Facts are closed out, never hard-deleted": whatever calls overlap, fail or
\* are retried, a row stays, keeps what it says and since when, is never live
\* again, and is closed only by an invalidate that was shown it and matched it.
HistoryIsKept ==
  [][\A i \in Stored :
       /\ rows'[i] # NoRow
       /\ [rows'[i] EXCEPT !.valid_to = Null] = [rows[i] EXCEPT !.valid_to = Null]
       /\ rows[i].valid_to # Null => rows'[i].valid_to # Null
       /\ rows'[i].valid_to # rows[i].valid_to =>
            \E c \in Clients : /\ op[c].pc = "updated" /\ i \in op[c].items
                               /\ op[c].scope = rows[i].scope]_rows

\* What the abstract store sees of the rows and of the calls under way.
FactsOf == [i \in Items |->
              IF rows[i] = NoRow THEN [scope |-> Null, state |-> "unknown"]
              ELSE [scope |-> rows[i].scope,
                    state |-> IF rows[i].valid_to = Null THEN "live" ELSE "closed"]]

StateOf(pc) ==
  CASE pc = "idle"                       -> "none"
    [] pc \in {"embedding", "inserting"} -> "learning"
    [] pc = "querying"                   -> "asked"
    [] pc = "answered"                   -> "told"
    [] pc = "began"                      -> "forgetting"
    [] pc \in {"selected", "updated"}    -> "looked"
    [] pc = "closed"                     -> "forgotten"

CallsOf == [c \in Clients |-> [state |-> StateOf(op[c].pc),
                              scope |-> op[c].scope, items |-> op[c].items]]

Facts == INSTANCE FactStore WITH facts <- FactsOf, calls <- CallsOf

\* memory/store.py's MemoryStore: however calls overlap, fail or are repeated,
\* a fact is learned once and closed for good, the facts of a batch appear
\* together, a recall is answered with up to K facts of its scope that were
\* all live at one moment of the call, and an invalidation that returns has
\* closed all that were live in its scope, and matched, at one moment of it,
\* and closed them together.
FactStoreSpec == Facts!Spec

-----------------------------------------------------------------------------
(* What the documentation says, and the code does not do; see the README.  *)

\* init.sql: "what did the agent know and when" is answerable from the rows:
\* what a recall gave the agent is recorded as valid at that time.
KnowledgeIsAnswerable ==
  \A c \in Clients : op[c].pc = "answered" =>
    \A i \in op[c].items :
      /\ rows[i].valid_from <= op[c].at
      /\ rows[i].valid_to = Null \/ op[c].at <= rows[i].valid_to
=============================================================================
