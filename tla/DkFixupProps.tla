---------------------------- MODULE DkFixupProps -----------------------------
(***************************************************************************)
(* What must hold of the linked lists while den and det are rewritten.     *)
(***************************************************************************)
EXTENDS DkFixup

(* No clause is part of itself.  dk_check_clause and dk_emit_expr recurse  *)
(* over these lists and would never return; den/det moves the clauses      *)
(* before the current one under it while the current one is still linked.  *)
Acyclic == NoCircle(Heap)

(* Every clause is linked from exactly one place, so that none is lost and *)
(* none is checked and emitted twice, although den/det relinks three of    *)
(* them in turn (dk_fixup_den_det_clause_list).                            *)
EveryClauseOnce == LinkedOnce(Heap)

(* The last pointer of every list is the end of the chain that begins with *)
(* its first one: dk_check_clause_list takes a list with first = last for  *)
(* a single clause, and the type of a list from its last expression.       *)
LastEndsChain == LastsEnd(Heap)

(* A den or det stands for the clause that came just before its own in the *)
(* text (dk_tests.dk, "subexpr"), however the lists were relinked since.   *)
DetIsPrevious ==
    \A p \in ListParts(Heap) :
        LET made == parts[p[1]][p[2]] IN made.flag => text.next[made.last] = p[1]

(* The walk ends, although it follows pointers it changes: with the end of *)
(* the list, or on a null pointer.                                         *)
FixupEnds == <>(stack = <<>> \/ trap = "null")
=============================================================================
