------------------------------ MODULE MCTrees ------------------------------
(***************************************************************************)
(* Checked trees of small dansk programs, several of them the programs of  *)
(* README.md and dk_tests.dk with smaller numbers, and a small grammar     *)
(* that combines the statements in every way.                              *)
(***************************************************************************)
EXTENDS DkBytecode, SequencesExt

Lit(n)      == [kind |-> "literal", value |-> n]
Loc(off)    == [kind |-> "local", off |-> off]
Op2(op, a, b) == [kind |-> "func", op |-> [kind |-> "opcode", opcode |-> op], args |-> <<a, b>>]
Op1(op, a)  == [kind |-> "func", op |-> [kind |-> "opcode", opcode |-> op], args |-> <<a>>]
CallF(id, args) == [kind |-> "func", op |-> [kind |-> "symbol", symbol_id |-> id], args |-> args]
PrintI(a)    == CallF(NativeBase, <<a>>)
PrintF(a)   == CallF(NativeBase + 1, <<a>>)
PrintB(a)   == CallF(NativeBase + 2, <<a>>)
List(exprs) == [kind |-> "list", exprs |-> exprs]
Assign(r, l) == [kind |-> "assign", args |-> <<r, l>>]

Decl        == [kind |-> "decl"]
Do(e)       == [kind |-> "expr", expr |-> e]
Give(e)     == [kind |-> "return", expr |-> e]
If(e, then, else) == [kind |-> "if", expr |-> e, then |-> then, else_ |-> else]
While(e, then)    == [kind |-> "while", expr |-> e, then |-> then]
Func(id, args, stmts) == [symbol_id |-> id, args |-> args, stmts |-> stmts]
A == Loc(0)
B == Loc(1)
C == Loc(2)

(* README.md: the square of a number, computed by another function.        *)
Readme == << Func(1, <<>>, <<Decl, Do(Assign(Lit(7), A)), Do(List(<<CallF(2, <<A>>), PrintI(CallF(2, <<A>>))>>))>>),
             Func(2, <<0>>, <<Decl, Do(Assign(Op2("IMUL", A, A), B)), Give(B)>>) >>

(* dk_tests.dk, "if": two conditions, both branches of each.               *)
IfTest == << Func(1, <<>>, << If(Lit(1), <<Do(PrintI(Lit(1)))>>, <<Do(PrintI(Lit(2)))>>),
                              If(Lit(0), <<Do(PrintI(Lit(3)))>>, <<Do(PrintI(Lit(4)))>>) >>) >>

(* dk_tests.dk, "Fibonacci", up to a smaller limit.                        *)
Fibonacci(limit) == << Func(1, <<>>, << Decl, Decl, Decl,
    Do(Assign(Lit(1), A)), Do(Assign(Lit(1), B)),
    While(Op2("LT", A, Lit(limit)),
        << Do(PrintI(A)), Do(Assign(A, C)), Do(Assign(Op2("ADD", A, B), A)), Do(Assign(C, B)) >>) >>) >>

(* dk_tests.dk, "expr list": a list as an argument, "det" as its value.    *)
ExprList == << Func(1, <<>>, << Do(CallF(2, <<Lit(1)>>)),
                  Do(PrintI(List(<<CallF(2, <<Lit(10)>>), CallF(2, <<Lit(20)>>)>>))) >>),
               Func(2, <<0>>, << Do(PrintI(A)), Give(Op2("ADD", A, Lit(1))) >>) >>

(* Recursion with operands of the caller below the callee's argument, and  *)
(* a function that returns from inside an if inside a while.               *)
Recursive(n) == << Func(1, <<>>, << Do(PrintI(Op2("SUB", Lit(30), CallF(2, <<Lit(n)>>)))) >>),
                   Func(2, <<0>>, << If(Op2("EQ", A, Lit(0)), <<Give(Lit(0))>>, <<>>),
                                     Give(Op2("ADD", A, CallF(2, <<Op2("SUB", A, Lit(1))>>))) >>) >>
Nested == << Func(1, <<>>, << Do(PrintI(CallF(2, <<Lit(4)>>))), Do(PrintI(CallF(3, <<>>))) >>),
             Func(2, <<0>>, << Decl, Do(Assign(Lit(0), B)),
                While(Lit(1), << If(Op2("GT", B, A), <<Give(B)>>, <<Do(Assign(Op2("ADD", B, Lit(3)), B))>>),
                                 While(Op2("LT", B, Lit(2)), <<Do(Assign(Op2("ADD", B, Lit(1)), B))>>) >>) >>),
             Func(3, <<>>, << If(Lit(0), <<Give(Lit(5))>>, <<>>) >>) >>

(* Claims and floats: what a comparison pushes is used as a condition.     *)
Claims == << Func(1, <<>>, <<
    Do(PrintB(Op2("FLT", Lit(One), Lit(2 * One)))),
    Do(PrintB(Op1("NOT", Op2("FGT", Lit(One), Lit(2 * One))))),
    Do(PrintB(Op2("AND", Op2("FEQ", Lit(One), Lit(One)), Op2("LT", Lit(1), Lit(2))))),
    If(Op2("FLT", Lit(One), Lit(2 * One)), <<Do(PrintF(Op2("FADD", Lit(One), Lit(One))))>>, <<>>),
    Do(PrintI(Op1("F2I", Op2("FMUL", Lit(2 * One), Op1("I2F", Lit(3)))))) >>) >>

Empty == << >>

GoodTrees == {Readme, IfTest, Fibonacci(20), ExprList, Recursive(3), Nested, Claims}

(* A function with two parameters: its prelude stores the last argument in *)
(* the first parameter.                                                    *)
Minus == << Func(1, <<>>, <<Do(PrintI(CallF(2, <<Lit(10), Lit(3)>>)))>>),
            Func(2, <<0, 1>>, <<Give(Op2("SUB", A, B))>>) >>

(* dk_tests.dk, "while loop": A is read before it is assigned.             *)
WhileTest(limit) == << Func(1, <<>>, << Decl,
    While(Op2("LT", A, Lit(limit)),
        << Do(Assign(Op2("ADD", A, Lit(1)), A)), Do(PrintI(A)) >>) >>) >>

(* One local more than an activation has room for.                         *)
ManyLocals(n) == << Func(1, <<>>, << Do(Assign(Lit(1), Loc(n))), Do(PrintI(Loc(n))) >>) >>

BadAssign  == << Func(1, <<>>, << Do(Assign(Lit(2), Lit(3))) >>) >>

-----------------------------------------------------------------------------
(* The nodes a set of trees is made of, down to the depth of the deepest    *)
(* tree here (TreeAssumption fails if that is not deep enough).            *)

WithParts(exprs) ==
    exprs \cup UNION {IF e.kind \in {"func", "assign"} THEN Range(e.args)
                      ELSE IF e.kind = "list" THEN Range(e.exprs) ELSE {} : e \in exprs}
WithBodies(stmts) ==
    stmts \cup UNION {IF s.kind = "if" THEN Range(s.then) \cup Range(s.else_)
                      ELSE IF s.kind = "while" THEN Range(s.then) ELSE {} : s \in stmts}

AllStmts(stmts) == WithBodies(WithBodies(WithBodies(stmts)))
AllExprs(stmts) == WithParts(WithParts(WithParts(WithParts(
                       {s.expr : s \in {s \in stmts : s.kind # "decl"}}))))
FuncsOf(trees)  == UNION {Range(t) : t \in trees}
StmtsOf(trees)  == AllStmts(UNION {Range(f.stmts) : f \in FuncsOf(trees)})
ExprsOf(trees)  == AllExprs(StmtsOf(trees))

-----------------------------------------------------------------------------
(* Every pair of statements of a small grammar, after A = 0.               *)

Increment == Do(Assign(Op2("ADD", A, Lit(1)), A))
Helper    == Func(2, <<0>>, <<If(Op2("LT", A, Lit(1)), <<Give(Lit(7))>>, <<>>),
                              Do(PrintI(A)), Give(Op2("ADD", A, A))>>)
Values    == {A, Op2("SUB", Lit(90), CallF(2, <<A>>)),
               List(<<Op2("SUB", Lit(90), CallF(2, <<Lit(1)>>)), A>>)}
Simple    == {Do(PrintI(e)) : e \in Values} \cup {Give(CallF(2, <<A>>)), Do(Assign(List(<<A, Lit(3)>>), B))}
Blocks    == {<<>>} \cup {<<s>> : s \in Simple}
Branching(blocks, others) ==
    {If(Op2("LT", A, Lit(1)), b, c) : b \in blocks, c \in others}
Looping(blocks) ==
    {While(Op2("LT", A, Lit(2)), b \o <<Increment>>) : b \in blocks}
Compound  == Branching(Blocks, Blocks) \cup Looping(Blocks)
Nesting   == {<<s>> : s \in Branching({<<>>, <<Give(Lit(5))>>, <<Do(PrintI(B))>>},
                                      {<<>>, <<Give(B)>>}) \cup Looping({<<>>, <<Do(PrintI(B))>>})}
Main(stmts) == Func(1, <<>>, <<Decl, Do(Assign(Lit(0), A)), Do(Assign(Lit(4), B))>> \o stmts)
Firsts    == Simple \cup Compound
Seconds   == {Do(PrintI(B))} \cup Looping(Nesting) \cup Branching(Nesting, {<<Do(PrintI(A))>>})
Pairs     == {<<Main(<<s, t>>), Helper>> : s \in Firsts, t \in Seconds}

PairFuncs == {Main(<<s, t>>) : s \in Firsts, t \in Seconds} \cup {Helper}
PairStmts == AllStmts(Firsts \cup Seconds \cup Range(Main(<<>>).stmts) \cup Range(Helper.stmts))
PairExprs == AllExprs(PairStmts)
=============================================================================
