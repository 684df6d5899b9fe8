----------------------------- MODULE DkBytecode -----------------------------
(***************************************************************************)
(* The bytecode program that dk_emit_tree produces and dk_run_program      *)
(* executes (dk_program, dk_bc_symbol, dk_bc_opcode_infos).  The body is   *)
(* seen decoded: code maps the position of each instruction to its opcode, *)
(* its operand (0 where it has none) and the position after it.            *)
(***************************************************************************)
EXTENDS DkWord, Sequences

CONSTANT NativeBase   \* 0xdeadbeef: the symbol id of the first built-in print

ASSUME NativeAssumption == NativeBase \in Nat /\ NativeBase + 2 <= WordMax

WithOperand == {"LDI", "LDL", "STL", "CALL", "BR"}
Opcode      == {"NOP", "POP", "DUP", "RET"} \cup BinOps \cup UnOps \cup WithOperand

Symbol      == [id : Nat, pos : Nat]
Instruction == [opcode : Opcode, operand : Word, next : Nat]

IsProgram(p) ==
    /\ p.symbols \in Seq(Symbol)
    /\ \A pos \in DOMAIN p.code : pos \in Nat /\ p.code[pos] \in Instruction

(* print heltal, print flyder and print paastand, in that order of ids.    *)
Natives == {NativeBase, NativeBase + 1, NativeBase + 2}

(* What str_list_push_fmt adds to the output for the popped word a.  The   *)
(* word of a heltal is formatted unsigned.                                 *)
Printed(id, a) ==
    CASE id = NativeBase     -> <<"heltal", a>>
      [] id = NativeBase + 1 -> <<"flyder", f64_from_u64(a)>>
      [] id = NativeBase + 2 -> <<"paastand", a # 0>>

(* Lines of output, and the one that reports a wrong data stack at exit.   *)
WrongSize  == <<"size">>
OutputLine == {WrongSize} \cup ({"heltal"} \X Word) \cup ({"flyder"} \X Int)
                          \cup ({"paastand"} \X BOOLEAN)

(* CALL scans every symbol and keeps the last one with the wanted id.      *)
HasSymbol(p, id) == \E i \in DOMAIN p.symbols : p.symbols[i].id = id
SymbolPos(p, id) ==
    LET last == CHOOSE i \in DOMAIN p.symbols :
                    /\ p.symbols[i].id = id
                    /\ \A j \in DOMAIN p.symbols : j > i => p.symbols[j].id # id
    IN  p.symbols[last].pos

(* How many words an instruction pops off the data stack.                  *)
Pops(p, inst) ==
    IF inst.opcode \in BinOps THEN 2
    ELSE IF \/ inst.opcode \in UnOps \cup {"POP", "DUP", "STL", "BR"}
            \/ inst.opcode = "CALL" /\ inst.operand \in Natives
         THEN 1 ELSE 0
=============================================================================
