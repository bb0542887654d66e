---------------------------- MODULE MCSessionTable ----------------------------
(***************************************************************************)
(* SessionTable with model values; sessions and clients are interchangeable *)
(* in it, so the safety runs use both symmetries.                          *)
(***************************************************************************)
EXTENDS SessionTable, TLC

CONSTANT MaxInRuns     \* bound: sessions followed when the server is restarted

Symmetry == Permutations(Sessions) \cup Permutations(Clients)

\* All sessions in one run of the server, or fewer of them across a restart.
Followed == run = 1 \/ Cardinality({s \in Sessions : task[s].pc # "none"}) <= MaxInRuns

TableSpec == Init /\ [][Next /\ Followed']_vars
===============================================================================
