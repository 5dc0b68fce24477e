------------------------- MODULE MemoryStoreProofs -------------------------
(***************************************************************************)
(* Proofs about MemoryStore, for any clients, facts, scopes and K. What    *)
(* rows say is changed by two steps only, Insert and Commit, so the proofs *)
(* rest on what a call knows when it comes to one of them (CallsAreSound): *)
(* that the facts it closes are stored, and in its scope.                  *)
(***************************************************************************)
EXTENDS MemoryStore, TLAPS

\* A call under way has a scope, one with a time stamp took it from the clock,
\* and an invalidation past its SELECT holds what that has found.
CallIsSound(o) ==
  /\ IF o.pc = "idle" THEN o = Idle ELSE o.scope \in Scopes
  /\ o.pc \in {"inserting", "began", "selected", "updated"} => o.at \in 0 .. MaxClock
  /\ o.pc \in {"selected", "updated"} =>
       \A i \in o.items : rows[i] # NoRow /\ rows[i].scope = o.scope

CallsAreSound == \A c \in Clients : CallIsSound(op[c])

StoreInv == TypeOK /\ CallsAreSound

\* What every step of the store keeps of its rows.
RowsKeep ==
  \A i \in Items : rows[i] # NoRow => rows'[i] # NoRow /\ rows'[i].scope = rows[i].scope

-----------------------------------------------------------------------------
(* Lemmas about the operators.                                             *)

\* What is about to be stored is a row, live, in the scope of its call.
LEMMA NewRowIsLive ==
  ASSUME NEW c \in Clients, StoreInv, op[c].pc = "inserting"
  PROVE  NewRow(c) \in Row /\ NewRow(c) # NoRow /\ NewRow(c).valid_to = Null
         /\ NewRow(c).scope = op[c].scope
<1>1. op[c].scope \in Scopes /\ op[c].at \in 0 .. MaxClock
  BY DEF StoreInv, CallsAreSound, CallIsSound
<1>2. NewRow(c) \in Row
  BY <1>1 DEF NewRow, Row
<1>3. QED
  BY <1>2, StoreAssumption DEF NewRow

\* Closing a row changes nothing else about it.
LEMMA ClosedRow ==
  ASSUME NEW r \in Row, NEW t \in 0 .. MaxClock
  PROVE  LET closed == [r EXCEPT !.valid_to = t]
         IN  /\ closed \in Row /\ closed # NoRow
             /\ closed.scope = r.scope /\ closed.valid_from = r.valid_from
             /\ closed.valid_to = t /\ closed.valid_to # Null
             /\ [closed EXCEPT !.valid_to = Null] = [r EXCEPT !.valid_to = Null]
<1>1. [r EXCEPT !.valid_to = t] \in Row
  BY DEF Row
<1>2. t # Null
  BY StoreAssumption
<1>3. QED
  BY <1>1, <1>2, StoreAssumption DEF Row

\* An answer is a set of facts that are live in the scope.
LEMMA NearestAreLive ==
  ASSUME NEW scope, NEW nearest \in Nearest(scope)
  PROVE  nearest \subseteq Live \cap In(scope) /\ nearest \subseteq Items
  BY DEF Nearest, Live, In, Stored

\* A call that goes on takes its client with it and leaves the others alone.
LEMMA GoesIsSound ==
  ASSUME StoreInv, RowsKeep, NEW c \in Clients, NEW state \in Op, Goes(c, state),
         CallIsSound(state)'
  PROVE  op' \in [Clients -> Op] /\ CallsAreSound'
<1>1. op' \in [Clients -> Op] /\ op'[c] = state /\ \A d \in Clients \ {c} : op'[d] = op[d]
  BY DEF StoreInv, TypeOK, Goes
<1>2. ASSUME NEW d \in Clients \ {c} PROVE CallIsSound(op[d])'
  <2>1. CallIsSound(op[d]) /\ op'[d] = op[d] /\ op[d].items \subseteq Items
    BY <1>1 DEF StoreInv, TypeOK, CallsAreSound, Op
  <2>2. QED
    BY <2>1 DEF CallIsSound, RowsKeep
<1>3. QED
  BY <1>1, <1>2 DEF CallsAreSound, CallIsSound

\* A client that is idle holds nothing.
LEMMA IdleIsSound == Idle \in Op /\ CallIsSound(Idle) /\ Idle.pc = "idle"
  BY DEF Idle, Op, CallIsSound


-----------------------------------------------------------------------------
(* The invariant.                                                          *)

\* The empty table with no call under way.
LEMMA InitIsSound == Init => StoreInv
<1> SUFFICES ASSUME Init PROVE StoreInv
  OBVIOUS
<1>1. TypeOK
  BY IdleIsSound, StoreAssumption DEF Init, TypeOK
<1>2. CallsAreSound
  BY IdleIsSound DEF Init, CallsAreSound
<1>3. QED
  BY <1>1, <1>2 DEF StoreInv

\* A step that writes no row and takes a call on to a sound one.
LEMMA CallStep ==
  ASSUME StoreInv, NEW c \in Clients, NEW state \in Op, Goes(c, state), CallIsSound(state),
         UNCHANGED <<clock, rows>>
  PROVE  StoreInv'
<1>1. RowsKeep
  BY DEF RowsKeep
<1>2. CallIsSound(state)'
  BY DEF CallIsSound
<1>3. op' \in [Clients -> Op] /\ CallsAreSound'
  BY <1>1, <1>2, GoesIsSound
<1>4. QED
  BY <1>3 DEF StoreInv, TypeOK

\* The call that a client has under way is sound and has its shape.
LEMMA CallUnderWay ==
  ASSUME StoreInv, NEW c \in Clients
  PROVE  op[c] \in Op /\ CallIsSound(op[c])
  BY DEF StoreInv, TypeOK, CallsAreSound

\* The inserted facts are rows, and the others stay.
LEMMA InsertIsSound == ASSUME StoreInv, NEW c \in Clients, Insert(c) PROVE StoreInv' /\ RowsKeep
<1>1. \A i \in Items : rows'[i] = IF i \in op[c].items \ Stored THEN NewRow(c) ELSE rows[i]
  BY DEF Insert
<1>2. rows' \in [Items -> Row \cup {NoRow}]
  <2>1. rows \in [Items -> Row \cup {NoRow}]
    BY DEF StoreInv, TypeOK
  <2>2. NewRow(c) \in Row
    BY NewRowIsLive DEF Insert
  <2>3. QED
    BY <2>1, <2>2 DEF Insert
<1>3. RowsKeep
  BY <1>1 DEF RowsKeep, Stored
<1>4. CallIsSound(Idle)'
  BY DEF Idle, CallIsSound
<1>5. op' \in [Clients -> Op] /\ CallsAreSound'
  BY <1>3, <1>4, IdleIsSound, GoesIsSound DEF Insert
<1>6. QED
  BY <1>2, <1>3, <1>5 DEF Insert, StoreInv, TypeOK

\* A commit replaces rows by rows, which differ in valid_to alone.
LEMMA CommitClosesRows ==
  ASSUME StoreInv, NEW c \in Clients, Commit(c), NEW i \in Items
  PROVE  /\ i \notin op[c].items => rows'[i] = rows[i]
         /\ i \in op[c].items =>
              /\ rows[i] # NoRow /\ rows[i].scope = op[c].scope
              /\ rows'[i] \in Row /\ rows'[i] # NoRow /\ rows'[i].scope = rows[i].scope
              /\ rows'[i].valid_to # Null
              /\ [rows'[i] EXCEPT !.valid_to = Null] = [rows[i] EXCEPT !.valid_to = Null]
<1>1. CallIsSound(op[c]) /\ op[c].pc = "updated"
  BY CallUnderWay DEF Commit
<1>2. rows \in [Items -> Row \cup {NoRow}]
  BY DEF StoreInv, TypeOK
<1>3. rows'[i] = IF i \in op[c].items THEN [rows[i] EXCEPT !.valid_to = op[c].at] ELSE rows[i]
  BY DEF Commit
<1>4. CASE i \notin op[c].items
  BY <1>3, <1>4
<1>5. CASE i \in op[c].items
  <2> DEFINE closed == [rows[i] EXCEPT !.valid_to = op[c].at]
  <2>1. /\ rows[i] \in Row /\ rows[i] # NoRow /\ rows[i].scope = op[c].scope
        /\ op[c].at \in 0 .. MaxClock
    BY <1>1, <1>2, <1>5 DEF CallIsSound
  <2>2. /\ closed \in Row /\ closed # NoRow /\ closed.scope = rows[i].scope
        /\ closed.valid_to # Null
        /\ [closed EXCEPT !.valid_to = Null] = [rows[i] EXCEPT !.valid_to = Null]
    BY <2>1, ClosedRow
  <2>3. rows'[i] = closed
    BY <1>3, <1>5
  <2> HIDE DEF closed
  <2>4. QED
    BY <1>5, <2>1, <2>2, <2>3
<1>6. QED
  BY <1>4, <1>5

\* The closed facts are rows, and the others stay.
LEMMA CommitIsSound == ASSUME StoreInv, NEW c \in Clients, Commit(c) PROVE StoreInv' /\ RowsKeep
<1>0. rows \in [Items -> Row \cup {NoRow}]
  BY DEF StoreInv, TypeOK
<1>1. \A i \in Items : /\ rows'[i] \in Row \cup {NoRow}
                       /\ rows[i] # NoRow => rows'[i] # NoRow /\ rows'[i].scope = rows[i].scope
  <2> TAKE i \in Items
  <2>1. CASE i \in op[c].items
    BY <2>1, CommitClosesRows
  <2>2. CASE i \notin op[c].items
    BY <2>2, <1>0, CommitClosesRows
  <2>3. QED
    BY <2>1, <2>2
<1>2. \E f : rows' = [i \in Items |-> f[i]]
  <2> DEFINE f == [i \in Items |-> IF i \in op[c].items
                                   THEN [rows[i] EXCEPT !.valid_to = op[c].at] ELSE rows[i]]
  <2>1. rows' = f
    BY DEF Commit
  <2>2. f = [i \in Items |-> f[i]]
    OBVIOUS
  <2> HIDE DEF f
  <2>3. rows' = [i \in Items |-> f[i]]
    BY <2>1, <2>2
  <2>4. QED
    BY <2>3
<1>3. rows' \in [Items -> Row \cup {NoRow}]
  BY <1>1, <1>2
<1>4. RowsKeep
  BY <1>1 DEF RowsKeep
<1>5. PICK o \in Op : o.pc = "closed" /\ o.scope \in Scopes /\ Goes(c, o)
  <2> DEFINE o == [op[c] EXCEPT !.pc = "closed"]
  <2>1. o \in Op /\ o.pc = "closed" /\ o.scope \in Scopes /\ Goes(c, o)
    BY CallUnderWay DEF Commit, Op, CallIsSound
  <2> HIDE DEF o
  <2>2. QED
    BY <2>1
<1>6. CallIsSound(o)'
  BY <1>5 DEF CallIsSound
<1>7. op' \in [Clients -> Op] /\ CallsAreSound'
  BY <1>4, <1>5, <1>6, GoesIsSound
<1>8. QED
  BY <1>3, <1>4, <1>7 DEF Commit, StoreInv, TypeOK

\* Whatever a step is, the calls under way stay sound.
LEMMA NextIsSound == StoreInv /\ [Next]_vars => StoreInv'
<1> SUFFICES ASSUME StoreInv, [Next]_vars PROVE StoreInv'
  OBVIOUS
<1> USE DEF CallIsSound
<1>1. ASSUME NEW c \in Clients, NEW s \in Scopes, Remember(c, s) PROVE StoreInv'
  <2>1. PICK batch \in (SUBSET Items) \ {{}} :
          Goes(c, [Idle EXCEPT !.pc = "embedding", !.scope = s, !.items = batch])
    BY <1>1 DEF Remember
  <2> DEFINE o == [Idle EXCEPT !.pc = "embedding", !.scope = s, !.items = batch]
  <2>2. o \in Op /\ CallIsSound(o)
    BY DEF Idle, Op
  <2>3. QED
    BY <1>1, <2>1, <2>2, CallStep DEF Remember
<1>2. ASSUME NEW c \in Clients, NEW s \in Scopes, Recall(c, s) PROVE StoreInv'
  <2> DEFINE o == [Idle EXCEPT !.pc = "querying", !.scope = s]
  <2>1. o \in Op /\ CallIsSound(o)
    BY DEF Idle, Op
  <2>2. QED
    BY <1>2, <2>1, CallStep DEF Recall
<1>3. ASSUME NEW c \in Clients, NEW s \in Scopes, Begin(c, s) PROVE StoreInv'
  <2>1. PICK matching \in SUBSET Items :
          Goes(c, [Idle EXCEPT !.pc = "began", !.scope = s, !.items = matching, !.at = clock])
    BY <1>3 DEF Begin
  <2> DEFINE o == [Idle EXCEPT !.pc = "began", !.scope = s, !.items = matching, !.at = clock]
  <2>2. o \in Op /\ CallIsSound(o)
    BY DEF Idle, Op, StoreInv, TypeOK
  <2>3. QED
    BY <1>3, <2>1, <2>2, CallStep DEF Begin
<1>4. ASSUME NEW c \in Clients, Embedded(c) PROVE StoreInv'
  <2> DEFINE o == [op[c] EXCEPT !.pc = "inserting", !.at = clock]
  <2>1. o \in Op /\ CallIsSound(o)
    BY <1>4, CallUnderWay DEF Embedded, Op, StoreInv, TypeOK
  <2>2. QED
    BY <1>4, <2>1, CallStep DEF Embedded
<1>5. ASSUME NEW c \in Clients, Insert(c) PROVE StoreInv'
  BY <1>5, InsertIsSound
<1>6. ASSUME NEW c \in Clients, Answer(c) PROVE StoreInv'
  <2>1. PICK nearest \in Nearest(op[c].scope) :
          Goes(c, [op[c] EXCEPT !.pc = "answered", !.at = clock, !.items = nearest])
    BY <1>6 DEF Answer
  <2> DEFINE o == [op[c] EXCEPT !.pc = "answered", !.at = clock, !.items = nearest]
  <2>2. nearest \subseteq Items
    BY NearestAreLive
  <2>3. o \in Op /\ CallIsSound(o)
    BY <1>6, <2>2, CallUnderWay DEF Answer, Op, StoreInv, TypeOK
  <2>4. QED
    BY <1>6, <2>1, <2>3, CallStep DEF Answer
<1>7. ASSUME NEW c \in Clients, Taken(c) \/ Fail(c) PROVE StoreInv'
  BY <1>7, IdleIsSound, CallStep DEF Taken, Fail
<1>8. ASSUME NEW c \in Clients, Select(c) PROVE StoreInv'
  <2> DEFINE to_close == op[c].items \cap Live \cap In(op[c].scope)
             pc == IF to_close = {} THEN "closed" ELSE "selected"
             o == [op[c] EXCEPT !.items = to_close, !.pc = pc]
  <2>1. /\ to_close \subseteq Items /\ pc \in {"closed", "selected"}
        /\ \A i \in to_close : rows[i] # NoRow /\ rows[i].scope = op[c].scope
    BY DEF Live, In, Stored
  <2>2. Goes(c, o) /\ op[c].pc = "began" /\ UNCHANGED <<clock, rows>>
    BY <1>8 DEF Select
  <2> HIDE DEF to_close, pc
  <2>3. /\ o \in Op /\ o.pc = pc /\ o.items = to_close /\ o.scope = op[c].scope
        /\ op[c].scope \in Scopes /\ o.at \in 0 .. MaxClock
    BY <2>1, <2>2, CallUnderWay DEF Op
  <2> HIDE DEF o
  <2>4. CallIsSound(o)
    BY <2>1, <2>3
  <2>5. QED
    BY <2>2, <2>3, <2>4, CallStep
<1>9. ASSUME NEW c \in Clients, Update(c) PROVE StoreInv'
  <2> DEFINE o == [op[c] EXCEPT !.pc = "updated"]
  <2>1. o \in Op /\ CallIsSound(o)
    BY <1>9, CallUnderWay DEF Update, Op
  <2>2. QED
    BY <1>9, <2>1, CallStep DEF Update
<1>10. ASSUME NEW c \in Clients, Commit(c) PROVE StoreInv'
  BY <1>10, CommitIsSound
<1>11. CASE Time
  BY <1>11, StoreAssumption DEF Time, StoreInv, TypeOK, CallsAreSound
<1>12. CASE UNCHANGED vars
  BY <1>12 DEF vars, StoreInv, TypeOK, CallsAreSound
<1>13. QED
  BY <1>1, <1>2, <1>3, <1>4, <1>5, <1>6, <1>7, <1>8, <1>9, <1>10, <1>11, <1>12 DEF Next

\* In every state the calls under way are sound.
LEMMA Invariance == Spec => []StoreInv
  BY InitIsSound, NextIsSound, PTL DEF Spec

-----------------------------------------------------------------------------
(* What becomes of one row.                                                *)

\* The part of HistoryIsKept that is about one row.
RowIsKept(i) ==
  /\ rows'[i] # NoRow
  /\ [rows'[i] EXCEPT !.valid_to = Null] = [rows[i] EXCEPT !.valid_to = Null]
  /\ rows[i].valid_to # Null => rows'[i].valid_to # Null
  /\ rows'[i].valid_to # rows[i].valid_to =>
       \E c \in Clients : /\ op[c].pc = "updated" /\ i \in op[c].items
                          /\ op[c].scope = rows[i].scope

\* Only Insert and Commit write rows.
LEMMA RowsAreWritten ==
  ASSUME [Next]_vars, rows' # rows
  PROVE  \E c \in Clients : Insert(c) \/ Commit(c)
  BY DEF Next, vars, Remember, Recall, Begin, Embedded, Answer, Taken, Select, Update, Fail, Time

\* Insert leaves what is stored alone, and Commit closes what its call was
\* shown and holds.
LEMMA NextKeepsRows ==
  ASSUME StoreInv, [Next]_vars, rows' # rows
  PROVE  \A i \in Stored : RowIsKept(i)
<1> SUFFICES ASSUME NEW i \in Stored PROVE RowIsKept(i)
  OBVIOUS
<1>1. i \in Items /\ rows[i] # NoRow
  BY DEF Stored
<1>2. ASSUME NEW c \in Clients, Insert(c) PROVE RowIsKept(i)
  <2>1. rows'[i] = rows[i]
    BY <1>1, <1>2 DEF Insert
  <2>2. QED
    BY <1>1, <2>1 DEF RowIsKept
<1>3. ASSUME NEW c \in Clients, Commit(c) PROVE RowIsKept(i)
  <2>1. CASE i \notin op[c].items
    <3>1. rows'[i] = rows[i]
      BY <1>1, <1>3, <2>1, CommitClosesRows
    <3>2. QED
      BY <1>1, <3>1 DEF RowIsKept
  <2>2. CASE i \in op[c].items
    <3>1. op[c].pc = "updated"
      BY <1>3 DEF Commit
    <3>2. QED
      BY <1>1, <1>3, <2>2, <3>1, CommitClosesRows DEF RowIsKept
  <2>3. QED
    BY <2>1, <2>2
<1>4. QED
  BY <1>2, <1>3, RowsAreWritten

-----------------------------------------------------------------------------
(* The refinement.                                                         *)

\* What the abstract store sees of one row, and of one call.
FactOf(row) ==
  IF row = NoRow THEN [scope |-> Null, state |-> "unknown"]
  ELSE [scope |-> row.scope, state |-> IF row.valid_to = Null THEN "live" ELSE "closed"]

CallOf(o) == [state |-> StateOf(o.pc), scope |-> o.scope, items |-> o.items]

\* The mapping goes row by row and call by call.
LEMMA MappingIsPointwise ==
  /\ FactsOf = [i \in Items |-> FactOf(rows[i])]
  /\ FactsOf' = [i \in Items |-> FactOf(rows'[i])]
  /\ CallsOf = [c \in Clients |-> CallOf(op[c])]
  /\ CallsOf' = [c \in Clients |-> CallOf(op'[c])]
  BY DEF FactsOf, FactOf, CallsOf, CallOf

\* A step that writes no row is not seen in the facts.
LEMMA FactsStay == ASSUME UNCHANGED rows PROVE FactsOf' = FactsOf
  BY MappingIsPointwise

\* Where a call goes on, the abstract store sees its new state, and no other.
LEMMA CallsMove ==
  ASSUME StoreInv, NEW c \in Clients, NEW o, Goes(c, o)
  PROVE  /\ CallsOf' = [CallsOf EXCEPT ![c] = CallOf(o)]
         /\ CallsOf[c] = CallOf(op[c])
         /\ CallOf(o) = CallOf(op[c]) => CallsOf' = CallsOf
<1>1. op'[c] = o /\ \A d \in Clients \ {c} : op'[d] = op[d]
  BY DEF Goes, StoreInv, TypeOK
<1>2. CallsOf' = [d \in Clients |-> IF d = c THEN CallOf(o) ELSE CallOf(op[d])]
  BY <1>1, MappingIsPointwise
<1>3. CallsOf = [d \in Clients |-> CallOf(op[d])]
  BY MappingIsPointwise
<1> HIDE DEF CallOf
<1>4. QED
  BY <1>2, <1>3

\* What is seen of a call at each of its awaits.
LEMMA StatesOf ==
  /\ StateOf("querying") = "asked" /\ StateOf("answered") = "told"
  /\ StateOf("began") = "forgetting" /\ StateOf("closed") = "forgotten"
  /\ StateOf("selected") = "looked" /\ StateOf("updated") = "looked"
  /\ StateOf("embedding") = "learning" /\ StateOf("inserting") = "learning"
  BY DEF StateOf

\* A client is idle where no call of it is seen.
LEMMA IdleIsNoCall ==
  /\ CallOf(Idle) = Facts!NoCall
  /\ \A o \in Op : o.pc # "idle" => CallOf(o) # Facts!NoCall
<1>1. CallOf(Idle) = Facts!NoCall
  BY DEF CallOf, StateOf, Idle, Facts!NoCall
<1>2. ASSUME NEW o \in Op, o.pc # "idle" PROVE CallOf(o).state # "none"
  BY <1>2 DEF CallOf, StateOf, Op
<1>3. Facts!NoCall.state = "none"
  BY DEF Facts!NoCall
<1>4. QED
  BY <1>1, <1>2, <1>3

\* What is live in a scope is the same for both stores.
LEMMA LiveAgrees == ASSUME NEW scope PROVE Facts!LiveIn(scope) = Live \cap In(scope)
<1>1. ASSUME NEW i \in Items
      PROVE  FactOf(rows[i]) = [scope |-> scope, state |-> "live"] <=> i \in Live \cap In(scope)
  BY DEF FactOf, Live, In, Stored
<1>2. Facts!LiveIn(scope) = {i \in Items : FactOf(rows[i]) = [scope |-> scope, state |-> "live"]}
  BY MappingIsPointwise DEF Facts!LiveIn
<1>3. Live \cap In(scope) \subseteq Items
  BY DEF Live, Stored
<1>4. QED
  BY <1>1, <1>2, <1>3

\* A method that is called by an idle client is a call that starts.
LEMMA MethodStarts ==
  ASSUME StoreInv, NEW c \in Clients, op[c].pc = "idle", NEW o, Goes(c, o),
         CallOf(o) \in Facts!Call, UNCHANGED rows
  PROVE  Facts!Starts(c)
<1>1. op[c] = Idle
  BY CallUnderWay DEF CallIsSound
<1>2. CallsOf[c] = Facts!NoCall /\ CallsOf' = [CallsOf EXCEPT ![c] = CallOf(o)]
  BY <1>1, CallsMove, IdleIsNoCall
<1>3. QED
  BY <1>2, FactsStay DEF Facts!Starts

\* remember, recall and invalidate start with a batch, nothing, a predicate.
LEMMA MethodsStart ==
  ASSUME StoreInv, NEW c \in Clients, NEW s \in Scopes,
         Remember(c, s) \/ Recall(c, s) \/ Begin(c, s)
  PROVE  Facts!Starts(c)
<1>1. CASE Remember(c, s)
  <2>1. PICK batch \in (SUBSET Items) \ {{}} :
          Goes(c, [Idle EXCEPT !.pc = "embedding", !.scope = s, !.items = batch])
    BY <1>1 DEF Remember
  <2> DEFINE o == [Idle EXCEPT !.pc = "embedding", !.scope = s, !.items = batch]
  <2>2. CallOf(o) \in Facts!Call
    BY DEF CallOf, StateOf, Idle, Facts!Call
  <2> HIDE DEF o
  <2>3. QED
    BY <1>1, <2>1, <2>2, MethodStarts DEF Remember, o
<1>2. CASE Recall(c, s)
  <2> DEFINE o == [Idle EXCEPT !.pc = "querying", !.scope = s]
  <2>1. CallOf(o) \in Facts!Call
    BY DEF CallOf, StateOf, Idle, Facts!Call
  <2>2. Goes(c, o) /\ op[c].pc = "idle" /\ UNCHANGED rows
    BY <1>2 DEF Recall
  <2> HIDE DEF o
  <2>3. QED
    BY <2>1, <2>2, MethodStarts
<1>3. CASE Begin(c, s)
  <2>1. PICK matching \in SUBSET Items :
          Goes(c, [Idle EXCEPT !.pc = "began", !.scope = s, !.items = matching, !.at = clock])
    BY <1>3 DEF Begin
  <2> DEFINE o == [Idle EXCEPT !.pc = "began", !.scope = s, !.items = matching, !.at = clock]
  <2>2. CallOf(o) \in Facts!Call
    BY DEF CallOf, StateOf, Idle, Facts!Call
  <2> HIDE DEF o
  <2>3. QED
    BY <1>3, <2>1, <2>2, MethodStarts DEF Begin, o
<1>4. QED
  BY <1>1, <1>2, <1>3

\* The embedding of a batch and the UPDATE are not seen.
LEMMA AwaitsAreUnseen ==
  ASSUME StoreInv, NEW c \in Clients, Embedded(c) \/ Update(c)
  PROVE  UNCHANGED <<FactsOf, CallsOf>>
<1>1. ASSUME NEW o, Goes(c, o), UNCHANGED rows, StateOf(o.pc) = StateOf(op[c].pc),
             o.scope = op[c].scope, o.items = op[c].items
      PROVE  UNCHANGED <<FactsOf, CallsOf>>
  <2>1. CallOf(o) = CallOf(op[c])
    BY <1>1 DEF CallOf
  <2>2. QED
    BY <1>1, <2>1, CallsMove, FactsStay
<1>2. CASE Embedded(c)
  <2> DEFINE o == [op[c] EXCEPT !.pc = "inserting", !.at = clock]
  <2>1. /\ Goes(c, o) /\ UNCHANGED rows /\ op[c].pc = "embedding"
        /\ o.pc = "inserting" /\ o.scope = op[c].scope /\ o.items = op[c].items
    BY <1>2, CallUnderWay DEF Embedded, Op
  <2> HIDE DEF o
  <2>2. QED
    BY <1>1, <2>1, StatesOf
<1>3. CASE Update(c)
  <2> DEFINE o == [op[c] EXCEPT !.pc = "updated"]
  <2>1. /\ Goes(c, o) /\ UNCHANGED rows /\ op[c].pc = "selected"
        /\ o.pc = "updated" /\ o.scope = op[c].scope /\ o.items = op[c].items
    BY <1>3, CallUnderWay DEF Update, Op
  <2> HIDE DEF o
  <2>2. QED
    BY <1>1, <2>1, StatesOf
<1>4. QED
  BY <1>2, <1>3

\* An INSERT that skips the ids it finds is what learning a batch means.
LEMMA InsertLearns ==
  ASSUME StoreInv, NEW c \in Clients, Insert(c)
  PROVE  Facts!Learn(c)
<1>1. /\ CallsOf' = [CallsOf EXCEPT ![c] = Facts!NoCall]
      /\ CallsOf[c] = CallOf(op[c])
  BY CallsMove, IdleIsNoCall DEF Insert
<1>2. CallOf(op[c]).state = "learning"
  BY DEF CallOf, StateOf, Insert
<1>3. CallOf(op[c]).items = op[c].items /\ CallOf(op[c]).scope = op[c].scope
  BY DEF CallOf
<1>4. ASSUME NEW i \in Items
      PROVE  FactOf(rows'[i]) = IF i \in op[c].items /\ FactOf(rows[i]).state = "unknown"
                                THEN [scope |-> op[c].scope, state |-> "live"] ELSE FactOf(rows[i])
  <2>1. rows'[i] = IF i \in op[c].items \ Stored THEN NewRow(c) ELSE rows[i]
    BY DEF Insert
  <2>2. FactOf(rows[i]).state = "unknown" <=> i \notin Stored
    BY DEF FactOf, Stored
  <2>3. FactOf(NewRow(c)) = [scope |-> op[c].scope, state |-> "live"]
    BY NewRowIsLive DEF FactOf, Insert
  <2> HIDE DEF FactOf
  <2>4. QED
    BY <2>1, <2>2, <2>3
<1>5. FactsOf' = [i \in Items |-> IF i \in op[c].items /\ FactsOf[i].state = "unknown"
                                  THEN [scope |-> op[c].scope, state |-> "live"] ELSE FactsOf[i]]
  <2> HIDE DEF FactOf
  <2>1. QED
    BY <1>4, MappingIsPointwise
<1> HIDE DEF CallOf
<1>6. QED
  BY <1>1, <1>2, <1>3, <1>5 DEF Facts!Learn

\* The SELECT of a recall is the moment at which the abstract store answers.
LEMMA AnswerTells == ASSUME StoreInv, NEW c \in Clients, Answer(c) PROVE Facts!Tell(c)
<1>1. PICK nearest \in Nearest(op[c].scope) :
        Goes(c, [op[c] EXCEPT !.pc = "answered", !.at = clock, !.items = nearest])
  BY DEF Answer
<1> DEFINE o == [op[c] EXCEPT !.pc = "answered", !.at = clock, !.items = nearest]
           was == CallOf(op[c])
<1>2. op[c] \in Op /\ op[c].pc = "querying"
  BY CallUnderWay DEF Answer
<1>3. was.state = "asked" /\ was.scope = op[c].scope
  BY <1>2 DEF CallOf, StateOf
<1>4. CallOf(o) = [state |-> "told", scope |-> was.scope, items |-> nearest]
  <2>1. o.pc = "answered" /\ o.scope = op[c].scope /\ o.items = nearest
    BY <1>2 DEF Op
  <2> HIDE DEF o
  <2>2. QED
    BY <1>3, <2>1, StatesOf DEF CallOf
<1>5. /\ CallsOf' = [CallsOf EXCEPT ![c] = CallOf(o)]
      /\ CallsOf[c] = was /\ FactsOf' = FactsOf
  BY <1>1, CallsMove, FactsStay DEF Answer
<1>6. nearest \subseteq Facts!LiveIn(was.scope) /\ Facts!Cardinality(nearest) <= K
  <2>1. Facts!Cardinality(nearest) = Cardinality(nearest)
    BY DEF Facts!Cardinality, Cardinality
  <2>2. QED
    BY <1>1, <1>3, <2>1, NearestAreLive, LiveAgrees DEF Nearest
<1> HIDE DEF o, was
<1>7. CallsOf' = [CallsOf EXCEPT ![c] = [state |-> "told", scope |-> CallsOf[c].scope,
                                         items |-> nearest]]
  BY <1>4, <1>5
<1>8. QED
  BY <1>3, <1>5, <1>6, <1>7 DEF Facts!Tell

\* The SELECT of an invalidation is the moment that counts for it.
LEMMA SelectLooks == ASSUME StoreInv, NEW c \in Clients, Select(c) PROVE Facts!Look(c)
<1> DEFINE to_close == op[c].items \cap Live \cap In(op[c].scope)
           o == [op[c] EXCEPT !.items = to_close,
                              !.pc = IF to_close = {} THEN "closed" ELSE "selected"]
           was == CallOf(op[c])
<1>1. Goes(c, o) /\ op[c].pc = "began" /\ op[c] \in Op /\ UNCHANGED rows
  BY CallUnderWay DEF Select
<1>2. was.state = "forgetting" /\ was.scope = op[c].scope /\ was.items = op[c].items
  BY <1>1 DEF CallOf, StateOf
<1>3. to_close = was.items \cap Facts!LiveIn(was.scope)
  BY <1>2, LiveAgrees
<1>4. CallOf(o) = [state |-> IF to_close = {} THEN "forgotten" ELSE "looked",
                     scope |-> was.scope, items |-> to_close]
  <2> HIDE DEF to_close
  <2>1. /\ o.pc = IF to_close = {} THEN "closed" ELSE "selected"
        /\ o.scope = op[c].scope /\ o.items = to_close
    BY <1>1 DEF Op
  <2>2. StateOf(o.pc) = IF to_close = {} THEN "forgotten" ELSE "looked"
    <3> HIDE DEF o
    <3>1. QED
      BY <2>1, StatesOf
  <2> HIDE DEF o
  <2>3. QED
    BY <1>2, <2>1, <2>2 DEF CallOf
<1>5. /\ CallsOf' = [CallsOf EXCEPT ![c] = CallOf(o)]
      /\ CallsOf[c] = was /\ FactsOf' = FactsOf
  BY <1>1, CallsMove, FactsStay
<1> HIDE DEF to_close, o, was
<1>6. CallsOf' =
        [CallsOf EXCEPT ![c] = [state |-> IF to_close = {} THEN "forgotten" ELSE "looked",
                                scope |-> CallsOf[c].scope, items |-> to_close]]
  BY <1>4, <1>5
<1>7. QED
  BY <1>2, <1>3, <1>5, <1>6 DEF Facts!Look

\* A commit closes all that its call has found, in one step.
LEMMA CommitForgets == ASSUME StoreInv, NEW c \in Clients, Commit(c) PROVE Facts!Forget(c)
<1> DEFINE o == [op[c] EXCEPT !.pc = "closed"]
           was == CallOf(op[c])
<1>1. Goes(c, o) /\ op[c].pc = "updated" /\ op[c] \in Op
  BY CallUnderWay DEF Commit
<1>2. was.state = "looked" /\ was.items = op[c].items
  BY <1>1 DEF CallOf, StateOf
<1>3. CallOf(o) = [was EXCEPT !.state = "forgotten"]
  BY <1>1 DEF CallOf, StateOf, Op
<1>4. /\ CallsOf' = [CallsOf EXCEPT ![c] = CallOf(o)]
      /\ CallsOf[c] = was
  BY <1>1, CallsMove
<1>5. ASSUME NEW i \in Items
      PROVE  FactOf(rows'[i]) = IF i \in op[c].items
                                THEN [FactOf(rows[i]) EXCEPT !.state = "closed"]
                                ELSE FactOf(rows[i])
  <2>1. CASE i \notin op[c].items
    BY <2>1, CommitClosesRows
  <2>2. CASE i \in op[c].items
    BY <2>2, CommitClosesRows DEF FactOf
  <2>3. QED
    BY <2>1, <2>2
<1>6. FactsOf' = [i \in Items |-> IF i \in op[c].items
                                  THEN [FactsOf[i] EXCEPT !.state = "closed"] ELSE FactsOf[i]]
  <2> HIDE DEF FactOf
  <2>1. QED
    BY <1>5, MappingIsPointwise
<1> HIDE DEF o, was
<1>7. CallsOf' = [CallsOf EXCEPT ![c].state = "forgotten"]
  BY <1>3, <1>4
<1>8. QED
  BY <1>2, <1>4, <1>6, <1>7 DEF Facts!Forget

\* A call that returns, or fails, was under way.
LEMMA CallReturns ==
  ASSUME StoreInv, NEW c \in Clients, Taken(c) \/ Fail(c)
  PROVE  Facts!Return(c)
<1>1. Goes(c, Idle) /\ UNCHANGED rows /\ op[c].pc # "idle" /\ op[c] \in Op
  BY CallUnderWay DEF Taken, Fail
<1>2. CallsOf[c] # Facts!NoCall /\ CallsOf' = [CallsOf EXCEPT ![c] = Facts!NoCall]
  BY <1>1, CallsMove, IdleIsNoCall
<1>3. QED
  BY <1>1, <1>2, FactsStay DEF Facts!Return

\* Every step is one of the abstract store, or none.
LEMMA NextIsAbstract ==
  StoreInv /\ [Next]_vars => [Facts!Next]_<<FactsOf, CallsOf>>
<1> SUFFICES ASSUME StoreInv, [Next]_vars
             PROVE  Facts!Next \/ UNCHANGED <<FactsOf, CallsOf>>
  OBVIOUS
<1>1. ASSUME NEW c \in Clients, NEW s \in Scopes,
             Remember(c, s) \/ Recall(c, s) \/ Begin(c, s)
      PROVE  Facts!Next
  BY <1>1, MethodsStart DEF Facts!Next
<1>2. ASSUME NEW c \in Clients, Embedded(c) \/ Update(c)
      PROVE  UNCHANGED <<FactsOf, CallsOf>>
  BY <1>2, AwaitsAreUnseen
<1>3. ASSUME NEW c \in Clients,
             Insert(c) \/ Answer(c) \/ Select(c) \/ Commit(c) \/ Taken(c) \/ Fail(c)
      PROVE  Facts!Next
  BY <1>3, InsertLearns, AnswerTells, SelectLooks, CommitForgets, CallReturns DEF Facts!Next
<1>4. CASE UNCHANGED <<rows, op>>
  BY <1>4, MappingIsPointwise
<1>5. QED
  BY <1>1, <1>2, <1>3, <1>4 DEF Next, Time, vars

\* An empty table with no call under way is an empty store.
LEMMA InitIsAbstract == Init => Facts!Init
  BY DEF Init, Facts!Init, FactsOf, CallsOf, StateOf, Idle, Facts!NoCall

-----------------------------------------------------------------------------
(* The theorems.                                                           *)

\* The table and the calls under way have their shape, whatever overlaps.
THEOREM TypeCorrect == Spec => []TypeOK
  BY Invariance, PTL DEF StoreInv

\* Facts are closed out, never deleted, altered or opened again, and closed
\* only by an invalidate that was shown them: pgvector_store.py, with any
\* number of clients.
THEOREM HistoryIsSafe == Spec => HistoryIsKept
<1>1. StoreInv /\ [Next]_vars => [\A i \in Stored : RowIsKept(i)]_rows
  BY NextKeepsRows
<1>2. QED
  BY <1>1, Invariance, PTL DEF Spec, HistoryIsKept, RowIsKept

\* PgVectorMemoryStore is a store of facts as memory/store.py promises one:
\* however its methods overlap, fail or are repeated, a batch is learned as a
\* whole, a recall tells only of facts that were live in its scope at one
\* moment, up to K of them, and an invalidation closes all that were live and
\* matched at one moment before it returns.
THEOREM ImplementsFactStore == Spec => FactStoreSpec
  BY InitIsAbstract, NextIsAbstract, Invariance, PTL DEF Spec, FactStoreSpec, Facts!Spec

=============================================================================
