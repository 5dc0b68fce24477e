------------------------------ MODULE FactStore ------------------------------
(***************************************************************************)
(* What memory/store.py promises of a MemoryStore, whoever implements it   *)
(* and however many use it at once: a fact is learned once, is live until  *)
(* it is closed, and is never live again; a recall answers with up to K    *)
(* live facts of its scope; and an invalidation that returns has closed    *)
(* "all live items matching predicate". For both, what is live is taken as *)
(* it stands at one moment between the call and its end.                   *)
(***************************************************************************)
EXTENDS Integers, FiniteSets

CONSTANTS Clients, Items, Scopes, K, Null

VARIABLES
  facts,   \* what is known of each fact
  calls    \* the call each client has under way

Fact   == [scope : Scopes \cup {Null}, state : {"unknown", "live", "closed"}]
NoCall == [state |-> "none", scope |-> Null, items |-> {}]

\* `items` are the batch to learn, or all that the predicate matches.
Call ==
  [state : {"learning", "forgetting"}, scope : Scopes, items : SUBSET Items]
    \cup [state : {"asked"}, scope : Scopes, items : {{}}]

Init ==
  /\ facts = [i \in Items |-> [scope |-> Null, state |-> "unknown"]]
  /\ calls = [c \in Clients |-> NoCall]

LiveIn(scope) == {i \in Items : facts[i] = [scope |-> scope, state |-> "live"]}

Starts(c) ==
  /\ calls[c] = NoCall
  /\ \E call \in Call : calls' = [calls EXCEPT ![c] = call]
  /\ UNCHANGED facts

\* Those of the batch that are known are left as they are.
Learn(c) ==
  /\ calls[c].state = "learning"
  /\ facts' = [i \in Items |->
                 IF i \in calls[c].items /\ facts[i].state = "unknown"
                 THEN [scope |-> calls[c].scope, state |-> "live"] ELSE facts[i]]
  /\ calls' = [calls EXCEPT ![c] = NoCall]

Tell(c) ==
  /\ calls[c].state = "asked"
  /\ \E items \in SUBSET LiveIn(calls[c].scope) :
       /\ Cardinality(items) <= K
       /\ calls' = [calls EXCEPT ![c] = [state |-> "told", scope |-> @.scope, items |-> items]]
  /\ UNCHANGED facts

\* The moment that counts for an invalidation.
Look(c) ==
  LET matched == calls[c].items \cap LiveIn(calls[c].scope)
  IN  /\ calls[c].state = "forgetting"
      /\ calls' = [calls EXCEPT
                     ![c] = [state |-> IF matched = {} THEN "forgotten" ELSE "looked",
                             scope |-> @.scope, items |-> matched]]
      /\ UNCHANGED facts

Forget(c) ==
  /\ calls[c].state = "looked"
  /\ facts' = [i \in Items |-> IF i \in calls[c].items
                               THEN [facts[i] EXCEPT !.state = "closed"] ELSE facts[i]]
  /\ calls' = [calls EXCEPT ![c].state = "forgotten"]

\* With a result, if there is one, or with an exception.
Return(c) ==
  /\ calls[c] # NoCall
  /\ calls' = [calls EXCEPT ![c] = NoCall]
  /\ UNCHANGED facts

Next ==
  \E c \in Clients :
    Starts(c) \/ Learn(c) \/ Tell(c) \/ Look(c) \/ Forget(c) \/ Return(c)

Spec == Init /\ [][Next]_<<facts, calls>>
=============================================================================
