------------------------------- MODULE MCEmit --------------------------------
(***************************************************************************)
(* The emitter alone, with a body buffer that heap_realloc may move.       *)
(***************************************************************************)
EXTENDS DkEmitProps, MCTrees

Sizes        == [w \in {1, 2, 4} |-> IF w = 1 THEN 31 ELSE IF w = 2 THEN 63 ELSE 127]
ExprsOfTrees == ExprsOf(Trees)
StmtsOfTrees == StmtsOf(Trees)
FuncsOfTrees == FuncsOf(Trees)

(* Trees with and without control flow, and one the emitter refuses.       *)
EmitTrees    == GoodTrees \cup {BadAssign, Empty, Minus, WhileTest(5)}
=============================================================================
