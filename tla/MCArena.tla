------------------------------- MODULE MCArena -------------------------------
(***************************************************************************)
(* Arenas of every kind whose first block holds a few words behind its     *)
(* header of eight, with requests that fit in it, that need alignment, and *)
(* that are larger than a whole block.                                     *)
(***************************************************************************)
EXTENDS BaseArena

Caps == {16, 32, 64}
AllKinds == {"linear", "exponential", "fixed"}
AllRequests == {[size |-> 2, align |-> 4], [size |-> 5, align |-> 1], [size |-> 17, align |-> 2]}
=============================================================================
