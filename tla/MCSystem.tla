------------------------------ MODULE MCSystem ------------------------------
(***************************************************************************)
(* Programs to compile and run, for TLC.                                   *)
(***************************************************************************)
EXTENDS DkSystemMeaning, MCTrees

Sizes      == [w \in {1, 2, 4} |-> IF w = 1 THEN 31 ELSE IF w = 2 THEN 63 ELSE 127]
Five       == {5}
Zero       == {0}
ZeroFive   == {0, 5}

ExprsOfTrees == ExprsOf(Trees)
StmtsOfTrees == StmtsOf(Trees)
FuncsOfTrees == FuncsOf(Trees)

(* The programs of the tests and the pairs of statements.                  *)
TestsAndPairs == GoodTrees \cup Pairs
AllExprsUsed  == ExprsOf(GoodTrees) \cup PairExprs
AllStmtsUsed  == StmtsOf(GoodTrees) \cup PairStmts
AllFuncsUsed  == FuncsOf(GoodTrees) \cup PairFuncs

(* The trees are such as dk_check_tree lets pass, and what the theorems    *)
(* about compiled programs ask of them: none divides, the first function   *)
(* takes no argument, and no function has more locals than an activation   *)
(* holds, but for the tree that is there to show what happens then.        *)
Locals     == 0..LocalSize-1
Intrinsics == (BinOps \cup UnOps) \ {"UDIV", "IDIV"}

ASSUME TreesAreChecked ==
    \A t \in Trees \ {ManyLocals(LocalSize)} :
        /\ Fits([tree |-> t, exprs |-> ExprsOf({t}), stmts |-> StmtsOf({t}),
                 locals |-> Locals, opcodes |-> Intrinsics])
        /\ t # <<>> /\ t[1].args = <<>>

(* What dk_tests.dk expects of a program: these lines in this order, and   *)
(* all of them when it exits.                                              *)
Prints(lines) ==
    LET expected == [i \in DOMAIN lines |-> <<"heltal", lines[i]>>]
    IN  IsPrefix(output, expected) /\ (status = "exit" => output = expected)

(* dk_tests.dk, "while loop": prints 1 to 5, whatever A holds at first.    *)
WhileTestPasses == Prints(<<1, 2, 3, 4, 5>>)

(* dk_tests.dk, "if": prints 1 and 4, wherever in the body its code lies.  *)
IfTestPasses == Prints(<<1, 4>>)

WhileTrees == {WhileTest(5)}
MinusTrees == {Minus}
LocalTrees == {ManyLocals(LocalSize)}
IfTrees    == {IfTest}
=============================================================================
