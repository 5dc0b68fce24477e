--------------------------- MODULE MC_MemoryStore ---------------------------
(***************************************************************************)
(* Two clients, two facts and two scopes: every pair of methods overlaps.  *)
(***************************************************************************)
EXTENDS MemoryStore, TLC

\* Facts are alike, and so are clients.
Alike == Permutations(Items) \cup Permutations(Clients)
=============================================================================
