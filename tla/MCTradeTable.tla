---------------------------- MODULE MCTradeTable ----------------------------
(* A small instance of TradeTable for TLC. *)
EXTENDS TradeTable, TLC

CONSTANTS console, handler, c1, c2, r1, r2

\* Threads, channels and rows are only compared.
Alike == Permutations(Threads) \cup Permutations(Channels) \cup Permutations(Rows)
=============================================================================
