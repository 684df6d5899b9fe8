----------------------------- MODULE MCRuntime ------------------------------
(***************************************************************************)
(* Small programs for dk_run_program, assembled by hand with every         *)
(* instruction one position long.  Each is written the way dk_emit_tree    *)
(* would: arguments stored by a prelude, a value pushed before RET.        *)
(***************************************************************************)
EXTENDS DkRuntimeProps

I0(op)    == [opcode |-> op, operand |-> 0]
I1(op, n) == [opcode |-> op, operand |-> n]

Assemble(symbols, insts) ==
    [symbols |-> symbols,
     code    |-> [pos \in 0..Len(insts)-1 |->
                    [opcode  |-> insts[pos+1].opcode,
                     operand |-> insts[pos+1].operand,
                     next    |-> pos + 1]]]

PrintInt   == I1("CALL", NativeBase)
PrintFloat == I1("CALL", NativeBase + 1)
PrintBool  == I1("CALL", NativeBase + 2)
Main       == [id |-> 1, pos |-> 0]

(* main prints sum(n), sum(A) = A = 0 ? 0 : sum(A - 1) + A: A is read      *)
(* again after the recursive call.                                         *)
Sum(n) == Assemble(<<Main, [id |-> 2, pos |-> 5]>>,
    << I1("LDI", n), I1("CALL", 2), PrintInt, I0("NOP"), I0("RET"),
       I1("STL", 0), I1("LDL", 0), I1("BR", 10), I1("LDI", 0), I0("RET"),
       I1("LDL", 0), I1("LDI", 1), I0("SUB"), I1("CALL", 2),
       I1("LDL", 0), I0("ADD"), I0("RET") >>)

(* main counts its local 1 from n down to 0 and prints on the way.         *)
Loop(n) == Assemble(<<Main>>,
    << I1("LDI", n), I0("DUP"), I1("STL", 1), I0("POP"),
       I1("LDL", 1), I0("NOT"), I1("BR", 15),
       I1("LDL", 1), PrintInt, I0("POP"),
       I1("LDL", 1), I1("LDI", 1), I0("SUB"), I1("STL", 1),
       I1("BR", 4),
       I1("LDI", 1), I0("RET") >>)

(* Every arithmetic opcode on two operands, each result printed.           *)
Arith(op, a, b) == Assemble(<<Main>>,
    << I1("LDI", a), I1("LDI", b), I0(op), I0("DUP"), PrintInt, I0("POP"),
       I0("DUP"), PrintFloat, I0("POP"), PrintBool, I0("RET") >>)

Cast == Assemble(<<Main>>,
    << I1("LDI", 3), I0("I2F"), I0("DUP"), PrintFloat, I0("POP"), I0("F2I"),
       PrintInt, I0("RET") >>)

(* f stores into its local and returns; g prints a local it never set.     *)
Leftover == Assemble(<<Main, [id |-> 2, pos |-> 4], [id |-> 3, pos |-> 9]>>,
    << I1("CALL", 2), I0("POP"), I1("CALL", 3), I0("RET"),
       I1("LDI", 9), I0("DUP"), I1("STL", 1), I0("NOP"), I0("RET"),
       I1("LDL", 1), PrintInt, I0("RET") >>)

(* Two symbols with one id (the last wins), a word left on the data stack  *)
(* at the end, and a branch whose operand was never patched.               *)
Twice    == Assemble(<<Main, [id |-> 2, pos |-> 4], [id |-> 2, pos |-> 7]>>,
    << I1("LDI", 1), I1("CALL", 2), PrintInt, I0("RET"),
       I1("LDI", 7), I0("RET"), I0("NOP"), I1("LDI", 8), I0("RET") >>)
Unpatched == Assemble(<<Main>>,
    << I1("LDL", 0), I1("BR", 6), I1("LDI", 1), I1("STL", 0), I1("LDI", 1), I1("BR", WordMax),
       I1("LDI", 0), I0("RET") >>)

(* One program for each thing the interpreter refuses.                     *)
BadLocal  == Assemble(<<Main>>, << I1("LDL", LocalSize), I0("RET") >>)
BadStore  == Assemble(<<Main, [id |-> 2, pos |-> 2]>>,
    << I1("CALL", 2), I0("RET"), I1("LDI", 5), I1("STL", LocalSize), I0("RET") >>)
BadSymbol == Assemble(<<Main>>, << I1("CALL", 5), I0("RET") >>)
Underflow == Assemble(<<Main>>, << I1("LDI", 2), I0("ADD"), I0("RET") >>)
RunsOff   == Assemble(<<Main>>, << I1("LDI", 2) >>)
DivZero   == {Arith(op, 4, 0) : op \in {"UDIV", "IDIV", "FDIV"}}
DivMin    == Arith("IDIV", (WordMax \div 2) + 1, WordMax)

Operands     == {<<0, 1>>, <<2, 3>>, <<WordMax, 2>>, <<(WordMax \div 2) + 1, 3>>}
Plain        == {Arith(op, ab[1], ab[2]) : op \in BinOps, ab \in Operands}
Refused      == {BadLocal, BadStore, BadSymbol, Underflow, RunsOff, DivMin} \cup DivZero
AllPrograms  == Plain \cup Refused \cup
                {Sum(3), Sum(1), Loop(3), Cast, Leftover, Twice, Unpatched}
DeepPrograms == {Sum(n) : n \in {2, 5, 7}} \cup {Leftover, Twice}
DeepSum      == {Sum(7)}
AnyPrograms  == AllPrograms \cup DeepPrograms
Boundaries   == {0, 5}
=============================================================================
