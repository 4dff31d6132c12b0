----------------------------- MODULE MCTickets ------------------------------
(* Two editors of two tickets, so that their reads and writes interleave,   *)
(* and two dispatchers, so that one ticket can be run twice.                *)
EXTENDS Tickets, TLC

Symmetry == Permutations(Workers) \cup Permutations(Dispatchers)
=============================================================================
