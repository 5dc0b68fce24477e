---------------------------- MODULE Compaction ----------------------------
(***************************************************************************)
(* core/loop.py: compact_history, and a conversation that is kept in check *)
(* by it, as its comments have it: messages are appended, and the history  *)
(* may be compacted at any time. A message is which turn it came from and  *)
(* how many characters it is shown with.                                   *)
(***************************************************************************)
EXTENDS Integers, Sequences, SequencesExt

CONSTANTS
  Keep,        \* characters that are kept of a truncated message: 200 in the code
  Wrap,        \* characters of "[compacted: ...", which replace the rest
  Sizes,       \* sizes of the messages appended
  Limits,      \* characters at which utilization is the threshold, or NoLimit
  MaxMessages  \* bound on the messages of one conversation

\* max_context_tokens is 0.
NoLimit == 0

ASSUME CompactionAssumption ==
  /\ Keep \in Nat /\ Wrap \in Nat \ {0}
  /\ Sizes \subseteq Nat \ {0} /\ Limits \subseteq Nat /\ MaxMessages \in Nat

VARIABLES
  limit,
  said,      \* observation: every message ever appended
  history    \* the messages kept

historyVars == <<limit, said, history>>

Message == [turn : 1 .. MaxMessages, size : Sizes \cup {Keep + Wrap}, cut : BOOLEAN]

total_chars(messages) ==
  FoldLeft(LAMBDA chars, message : chars + message.size, 0, messages)

\* estimate_utilization >= threshold.
Full(messages) == limit # NoLimit /\ total_chars(messages) >= limit

\* Wraps the message without slicing it. (A name that ends in _bug is a
\* deliberately wrong variant of the definition after it.)
Truncated_bug(message) == [message EXCEPT !.size = @ + Wrap, !.cut = TRUE]

Truncated(message) == [message EXCEPT !.size = Keep + Wrap, !.cut = TRUE]

\* Goes on to the next message after a cut.
compact_history_on_bug(messages) ==
  LET rounds[rest \in Seq(Message)] ==
        IF Len(rest) <= 1 \/ ~ Full(rest) THEN rest
        ELSE IF Head(rest).size > Keep THEN <<Truncated(Head(rest))>> \o rounds[Tail(rest)]
        ELSE rounds[Tail(rest)]
  IN  rounds[messages]

\* Does not look at the utilization again.
compact_history_once_bug(messages) ==
  LET rounds[rest \in Seq(Message)] ==
        IF Len(rest) <= 1 \/ ~ Full(messages) THEN rest
        ELSE IF Head(rest).size > Keep THEN <<Truncated(Head(rest))>> \o Tail(rest)
        ELSE rounds[Tail(rest)]
  IN  rounds[messages]

\* The rounds of the loop: a short message is dropped; a long one is cut, which
\* is the last round.
compact_history(messages) ==
  LET rounds[rest \in Seq(Message)] ==
        IF Len(rest) <= 1 \/ ~ Full(rest) THEN rest
        ELSE IF Head(rest).size > Keep THEN <<Truncated(Head(rest))>> \o Tail(rest)
        ELSE rounds[Tail(rest)]
  IN  rounds[messages]

HistoryInit ==
  /\ limit \in Limits
  /\ said = <<>> /\ history = <<>>

Say ==
  /\ Len(said) < MaxMessages
  /\ \E size \in Sizes :
       LET message == [turn |-> Len(said) + 1, size |-> size, cut |-> FALSE]
       IN  /\ said' = Append(said, message)
           /\ history' = Append(history, message)
  /\ UNCHANGED limit

Compact ==
  /\ history' = compact_history(history)
  /\ UNCHANGED <<limit, said>>

HistoryNext == Say \/ Compact

HistorySpec == HistoryInit /\ [][HistoryNext]_historyVars

-----------------------------------------------------------------------------
(* Properties.                                                             *)

\* The history has its shape; a message is as long as it was said, or cut.
HistoryTypeOK ==
  /\ limit \in Limits
  /\ said \in Seq(Message) /\ history \in Seq(Message)
  /\ \A i \in DOMAIN history : history[i].cut => history[i].size = Keep + Wrap

\* "preserving recent turns": whatever was compacted how often, the history is
\* the end of the conversation, without a gap, with the last message in it,
\* and only its oldest message may be in other words than it was said.
RecentTurnsAreIntact ==
  LET dropped == Len(said) - Len(history)
  IN  /\ dropped >= 0 /\ (said # <<>> => history # <<>>)
      /\ \A i \in DOMAIN history :
           IF i = 1 /\ Len(history) > 1
           THEN history[i].turn = dropped + 1
           ELSE history[i] = said[dropped + i]

\* "once utilization crosses threshold": a compaction drops or cuts a message
\* only if, with it and those after it, the history was full; what it drops is
\* short; and it ends with room, with a single message, or with the oldest
\* message cut.
CompactionIsExact ==
  LET kept == compact_history(history)
      dropped == Len(history) - Len(kept)
  IN  /\ dropped > 0 => Full(SubSeq(history, dropped, Len(history)))
      /\ kept # <<>> /\ kept[1] # history[dropped + 1] =>
           Full(SubSeq(history, dropped + 1, Len(history)))
      /\ \A i \in 1 .. dropped : history[i].size <= Keep
      /\ ~ Full(kept) \/ Len(kept) = 1 \/ kept[1].cut

-----------------------------------------------------------------------------
(* What the documentation says, and the code does not do; see the README.  *)

\* "the simplest policy that helps"; "oldest entry is now short; re-evaluate
\* utilization on the next call": of a full history of several messages a
\* compaction leaves less.
CompactionHelps ==
  Full(history) /\ Len(history) > 1 =>
    total_chars(compact_history(history)) < total_chars(history)
=============================================================================
