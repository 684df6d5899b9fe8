------------------------------- MODULE DkEmit -------------------------------
(***************************************************************************)
(* dk_emit_tree: the checked tree of user functions becomes bytecode.      *)
(*                                                                         *)
(* The recursion of dk_emit_expr and dk_emit_stmt_list is kept as a stack  *)
(* of work items, the C call stack read top first: an instruction or a     *)
(* tree node still to be emitted, or the rest of an IF or WHILE with the C *)
(* locals (start_pos, else_pos, end_pos) it still needs.  else_pos and     *)
(* end_pos are raw pointers to the operand of an emitted BR; they are      *)
(* written through after more code was pushed, which may have moved the    *)
(* body: such a write goes to freed memory and the operand stays U64_MAX.  *)
(*                                                                         *)
(* Tree nodes (after dk_check_tree) are records with a kind:               *)
(*   expr  literal [value], local [off], func [op, args], list [exprs],    *)
(*         assign [args]; op is [opcode] of an intrinsic or [symbol_id]    *)
(*   stmt  decl, expr [expr], return [expr], if [expr, then, else_],       *)
(*         while [expr, then]                                              *)
(*   function [symbol_id, args: the offsets of its ARG locals, stmts]      *)
(* Every type has a size above 0, so every expression leaves a word.       *)
(***************************************************************************)
EXTENDS DkBytecode, DkBuffer, SequencesExt

CONSTANTS Trees,            \* the trees that may be compiled
          Exprs, Statements, Funcs,  \* the nodes they are made of
          Widths,           \* largest operand of each encoded size (U8_MAX, U16_MAX, ...)
          BodyMoves         \* may heap_realloc move the body

IsExpr(e) ==
    \/ e.kind = "literal" /\ e.value \in Word
    \/ e.kind = "local"   /\ e.off \in Word
    \/ /\ e.kind = "func" /\ e.args \in Seq(Exprs)
       /\ \/ e.op.kind = "opcode" /\ e.op.opcode \in Opcode \ (WithOperand \cup {"RET"})
          \/ e.op.kind = "symbol" /\ e.op.symbol_id \in Word
    \/ e.kind = "list"    /\ e.exprs \in Seq(Exprs) \ {<<>>}
    \/ e.kind = "assign"  /\ e.args \in Seq(Exprs) /\ Len(e.args) = 2

IsStmt(s) ==
    \/ s.kind = "decl"
    \/ s.kind \in {"expr", "return"} /\ s.expr \in Exprs
    \/ s.kind = "if" /\ s.expr \in Exprs /\ s.then \in Seq(Statements) /\ s.else_ \in Seq(Statements)
    \/ s.kind = "while" /\ s.expr \in Exprs /\ s.then \in Seq(Statements)

IsFunc(f) == f.symbol_id \in Word /\ f.args \in Seq(Word) /\ f.stmts \in Seq(Statements)

ASSUME TreeAssumption ==
    /\ \A e \in Exprs : IsExpr(e)
    /\ \A s \in Statements : IsStmt(s)
    /\ \A f \in Funcs : IsFunc(f)
    /\ Trees \subseteq Seq(Funcs)

ASSUME EmitAssumption ==
    /\ Widths \in [{1, 2, 4} -> Word] /\ Widths[1] <= Widths[2] /\ Widths[2] <= Widths[4]
    /\ InitialCapacity >= 11   \* no emission step grows the body twice
    /\ BodyMoves \subseteq BOOLEAN

VARIABLES funcs,    \* functions not yet emitted
          work,     \* what remains of the current one
          symbols,  \* the head buffer
          body,     \* the header of the body buffer
          code,     \* its instructions by position
          error     \* the assertion that stopped the emitter, or "none"

emitVars == <<funcs, work, symbols, body, code, error>>

Unpatched == WordMax   \* dk_emit_u64(e, U64_MAX)

IfStatements    == {s \in Statements : s.kind = "if"}
WhileStatements == {s \in Statements : s.kind = "while"}

WorkItem ==
    [item : {"inst"}, opcode : Opcode \ {"BR"}, operand : Word]
    \cup [item : {"expr"}, expr : Exprs]
    \cup [item : {"stmt"}, stmt : Statements]
    \cup [item : {"if"}, stmt : IfStatements]
    \cup [item : {"while"}, stmt : WhileStatements, start_pos : Nat]
    \cup [item : {"if_else"}, stmt : IfStatements, else_pos : Pointer]
    \cup [item : {"if_end"}, end_pos : Pointer]
    \cup [item : {"while_end"}, start_pos : Nat, end_pos : Pointer]

EmitTypeOK ==
    /\ funcs \in Seq(Funcs)
    /\ work \in Seq(WorkItem)
    /\ symbols \in Seq(Symbol)
    /\ body \in Buffer /\ body.size <= body.capacity
    /\ DOMAIN code \subseteq 0..body.size-1
    /\ \A p \in DOMAIN code : code[p] \in [opcode : Opcode, operand : Nat, next : Nat]
    /\ error \in {"none", "lvalue"}

-----------------------------------------------------------------------------
(* Work items.                                                             *)

InstItem(op, operand) == [item |-> "inst", opcode |-> op, operand |-> operand]
Plain(op)      == InstItem(op, 0)
ExprItem(e)    == [item |-> "expr", expr |-> e]
StmtItem(s)    == [item |-> "stmt", stmt |-> s]
Stmts(stmts)   == [i \in DOMAIN stmts |-> StmtItem(stmts[i])]

(* dk_emit_inst1 and dk_emit_inst2: a prefix byte and an operand of the    *)
(* smallest size that holds it.                                            *)
OperandWidth(op, operand) ==
    IF op \notin WithOperand THEN 0
    ELSE IF operand <= Widths[1] THEN 1
    ELSE IF operand <= Widths[2] THEN 2
    ELSE IF operand <= Widths[4] THEN 4 ELSE 8

(* Not the code: a 64-bit operand pushed as 32 bits.                       *)
PushInstNarrow(b, width, moved) ==
    LET prefix == Push(b, 1, moved)
    IN  IF width = 0 THEN prefix ELSE Push(prefix, IF width = 8 THEN 4 ELSE width, moved)

(* The body after an instruction of the given operand width was pushed,    *)
(* first the prefix byte and then the operand.                             *)
PushInst(b, width, moved) ==
    LET prefix == Push(b, 1, moved)
    IN  IF width = 0 THEN prefix ELSE Push(prefix, width, moved)

(* How the interpreter's fetch decodes it: the operand_size in the prefix   *)
(* byte says how many bytes of operand to skip.                            *)
After(pos, width) == pos + 1 + width

With(c, pos, op, operand, next) ==
    [p \in DOMAIN c \cup {pos} |->
        IF p = pos THEN [opcode |-> op, operand |-> operand, next |-> next] ELSE c[p]]

Top      == Head(work)
Is(item) == error = "none" /\ work # <<>> /\ Top.item = item

(* dk_emit_expr, one level.                                                *)
Expand(e) ==
    CASE e.kind = "literal" -> <<InstItem("LDI", e.value)>>
      [] e.kind = "local"   -> <<InstItem("LDL", e.off)>>
      [] e.kind = "func"    ->
            [i \in DOMAIN e.args |-> ExprItem(e.args[i])] \o
            << IF e.op.kind = "opcode" THEN Plain(e.op.opcode)
               ELSE InstItem("CALL", e.op.symbol_id) >>
      [] e.kind = "list"    ->
            [i \in 1..2 * Len(e.exprs) - 1 |->
                IF i % 2 = 1 THEN ExprItem(e.exprs[(i + 1) \div 2]) ELSE Plain("POP")]
      [] e.kind = "assign"  ->
            << ExprItem(e.args[1]), Plain("DUP"), InstItem("STL", Last(e.args).off) >>

(* Not the code: the value of an expression statement stays on the stack;  *)
(* a DECL is not stepped over.                                             *)
ExpandStmtKeepingValue(s) ==
    CASE s.kind = "decl"   -> <<>>
      [] s.kind = "expr"   -> <<ExprItem(s.expr)>>
      [] s.kind = "return" -> <<ExprItem(s.expr), Plain("RET")>>
ExpandStmtStuckOnDecl(s) ==
    CASE s.kind = "decl"   -> <<StmtItem(s)>>
      [] s.kind = "expr"   -> <<ExprItem(s.expr), Plain("POP")>>
      [] s.kind = "return" -> <<ExprItem(s.expr), Plain("RET")>>

(* dk_emit_stmt_list, the statements without control flow.                 *)
ExpandStmt(s) ==
    CASE s.kind = "decl"   -> <<>>
      [] s.kind = "expr"   -> <<ExprItem(s.expr), Plain("POP")>>
      [] s.kind = "return" -> <<ExprItem(s.expr), Plain("RET")>>

-----------------------------------------------------------------------------
Replace(items)    == work' = items \o Tail(work)
KeepBody          == UNCHANGED <<funcs, symbols, body, code, error>>

EmitInst ==
    /\ Is("inst")
    /\ LET width == OperandWidth(Top.opcode, Top.operand)
       IN  /\ \E moved \in BodyMoves : body' = PushInst(body, width, moved)
           /\ code' = With(code, body.size, Top.opcode, Top.operand, After(body.size, width))
    /\ Replace(<<>>)
    /\ UNCHANGED <<funcs, symbols, error>>

EmitExpr ==
    /\ Is("expr")
    /\ Top.expr.kind = "assign" => Last(Top.expr.args).kind = "local"
    /\ Replace(Expand(Top.expr))
    /\ KeepBody

(* assert(lvalue->kind == DK_EXPR_KIND_LOCAL)                              *)
EmitBadAssign ==
    /\ Is("expr") /\ Top.expr.kind = "assign" /\ Last(Top.expr.args).kind # "local"
    /\ error' = "lvalue"
    /\ UNCHANGED <<funcs, work, symbols, body, code>>

EmitStmt ==
    /\ Is("stmt") /\ Top.stmt.kind \in {"decl", "expr", "return"}
    /\ Replace(ExpandStmt(Top.stmt))
    /\ KeepBody

(* The condition of an IF or WHILE; what follows it is a work item that    *)
(* remembers the statement and, for a WHILE, where its condition begins.   *)
Rest == IF Top.stmt.kind = "if" THEN [item |-> "if", stmt |-> Top.stmt]
        ELSE [item |-> "while", stmt |-> Top.stmt, start_pos |-> body.size]

(* Not the code: branches to the end when the condition holds.             *)
EmitConditionWithoutNot ==
    /\ Is("stmt") /\ Top.stmt.kind \in {"if", "while"}
    /\ Replace(<<ExprItem(Top.stmt.expr), Rest>>)
    /\ KeepBody

EmitCondition ==
    /\ Is("stmt") /\ Top.stmt.kind \in {"if", "while"}
    /\ Replace(<<ExprItem(Top.stmt.expr), Plain("NOT"), Rest>>)
    /\ KeepBody

(* A BR with a 64-bit operand to be filled in: the branch is emitted at    *)
(* the end of b, and hole is the pointer dk_emit_u64 returned.             *)
Branched(b, moved)    == PushInst(b, 8, moved)
HolePointer(b, moved) == Pushed(Push(b, 1, moved), Branched(b, moved))

(* *pos = e->body.size: filled in, or lost in freed memory.                *)
Patch(c, b, pos) ==
    IF Stale(b, pos) THEN c ELSE [c EXCEPT ![pos.off - 1].operand = b.size]

EmitBranch(moved, rest) ==
    /\ body' = Branched(body, moved)
    /\ code' = With(code, body.size, "BR", Unpatched, After(body.size, 8))
    /\ Replace(Stmts(Top.stmt.then) \o <<rest>>)
    /\ UNCHANGED <<funcs, symbols, error>>

EmitIf ==
    /\ Is("if")
    /\ \E moved \in BodyMoves : EmitBranch(moved,
          [item |-> "if_else", stmt |-> Top.stmt, else_pos |-> HolePointer(body, moved)])

EmitWhile ==
    /\ Is("while")
    /\ \E moved \in BodyMoves : EmitBranch(moved,
          [item |-> "while_end", start_pos |-> Top.start_pos, end_pos |-> HolePointer(body, moved)])

(* The end of the then part: LDI 1, BR over the else part, and the first   *)
(* branch is patched to the beginning of the else part.                    *)
EmitIfElse ==
    /\ Is("if_else")
    /\ \E moved \in BodyMoves :
          LET width == OperandWidth("LDI", 1)
              b1 == PushInst(body, width, moved)
              b2 == Branched(b1, moved)
              c1 == With(code, body.size, "LDI", 1, After(body.size, width))
              c2 == With(c1, b1.size, "BR", Unpatched, After(b1.size, 8))
          IN  /\ body' = b2
              /\ code' = Patch(c2, b2, Top.else_pos)
              /\ Replace(Stmts(Top.stmt.else_) \o
                         <<[item |-> "if_end", end_pos |-> HolePointer(b1, moved)]>>)
    /\ UNCHANGED <<funcs, symbols, error>>

(* Not the code: the branch over the else part is never patched.           *)
EmitIfEndWithoutPatch ==
    /\ Is("if_end")
    /\ Replace(<<>>)
    /\ UNCHANGED <<funcs, symbols, body, code, error>>

EmitIfEnd ==
    /\ Is("if_end")
    /\ code' = Patch(code, body, Top.end_pos)
    /\ Replace(<<>>)
    /\ UNCHANGED <<funcs, symbols, body, error>>

(* The end of a WHILE: LDI 1 and a branch back to start_pos, whose operand *)
(* has the smallest size, then the exit branch is patched.                 *)
EmitWhileEnd ==
    /\ Is("while_end")
    /\ \E moved \in BodyMoves :
          LET width == OperandWidth("LDI", 1)
              back  == OperandWidth("BR", Top.start_pos)
              b1 == PushInst(body, width, moved)
              b2 == PushInst(b1, back, moved)
              c1 == With(code, body.size, "LDI", 1, After(body.size, width))
              c2 == With(c1, b1.size, "BR", Top.start_pos, After(b1.size, back))
          IN  /\ body' = b2
              /\ code' = Patch(c2, b2, Top.end_pos)
              /\ Replace(<<>>)
    /\ UNCHANGED <<funcs, symbols, error>>

(* One function of dk_emit_tree: its symbol, the prelude that stores the   *)
(* arguments in the order of the locals, the body, and the epilogue.       *)
Prelude(func) == [i \in DOMAIN func.args |-> InstItem("STL", func.args[i])]
Epilogue      == <<InstItem("LDI", 0), Plain("RET")>>

FuncWith(items) ==
    /\ error = "none" /\ work = <<>> /\ funcs # <<>>
    /\ symbols' = Append(symbols, [id |-> Head(funcs).symbol_id, pos |-> body.size])
    /\ work' = items
    /\ funcs' = Tail(funcs)
    /\ UNCHANGED <<body, code, error>>

(* Not the code: a function without its epilogue, or without a value.      *)
EmitFuncWithoutEpilogue == FuncWith(Prelude(Head(funcs)) \o Stmts(Head(funcs).stmts))
EmitFuncWithoutValue    == FuncWith(Prelude(Head(funcs)) \o Stmts(Head(funcs).stmts) \o <<Plain("RET")>>)

EmitFunc == FuncWith(Prelude(Head(funcs)) \o Stmts(Head(funcs).stmts) \o Epilogue)

EmitNext == \/ EmitInst \/ EmitExpr \/ EmitBadAssign \/ EmitStmt \/ EmitCondition \/ EmitIf
            \/ EmitWhile \/ EmitIfElse \/ EmitIfEnd \/ EmitWhileEnd \/ EmitFunc

EmitInit ==
    /\ funcs \in Trees
    /\ work = <<>> /\ symbols = <<>> /\ body = EmptyBuffer /\ code = <<>>
    /\ error = "none"

EmitSpec == EmitInit /\ [][EmitNext]_emitVars

Emitted == funcs = <<>> /\ work = <<>>
Program == [symbols |-> symbols, code |-> code]
=============================================================================
