---------------------------- MODULE DkEmitProps -----------------------------
(***************************************************************************)
(* What must hold of dk_emit_tree, whatever checked tree it is given.      *)
(***************************************************************************)
EXTENDS DkEmit

(* Every instruction of the body ends where another begins or where the    *)
(* body ends, so the interpreter never decodes from the middle of one.     *)
Contiguous ==
    \A p \in DOMAIN code : code[p].next \in DOMAIN code \cup {body.size}

(* The holes still to be patched are the operands of emitted branches, and *)
(* no two work items patch the same one.  else_pos and end_pos live across *)
(* the emission of whole statement lists (dk_emit_stmt_list).              *)
HoleOf(w) == IF w.item = "if_else" THEN {w.else_pos.off}
             ELSE IF w.item \in {"if_end", "while_end"} THEN {w.end_pos.off} ELSE {}
Holes     == UNION {HoleOf(work[i]) : i \in DOMAIN work}

HolesAreBranches ==
    /\ \A off \in Holes : /\ off - 1 \in DOMAIN code
                          /\ code[off - 1].opcode = "BR"
                          /\ code[off - 1].next = off + 8
    /\ \A i, j \in DOMAIN work : i # j => HoleOf(work[i]) \cap HoleOf(work[j]) = {}

(* A branch goes to the start of an instruction or to where the next one   *)
(* will be emitted, or it is unpatched.  While the body buffer has never   *)
(* moved (it is in its first block), it is unpatched only as long as a     *)
(* work item still holds its hole (else_pos, end_pos of dk_emit_stmt_list). *)
BranchesPatched ==
    \A p \in DOMAIN code :
        code[p].opcode = "BR" =>
            \/ code[p].operand \in DOMAIN code \cup {body.size}
            \/ code[p].operand = Unpatched /\ (body.block <= 1 => p + 1 \in Holes)

(* When the body was never moved, every branch of the finished program     *)
(* stays inside its function: no symbol lies between the branch and its    *)
(* target (the epilogue of dk_emit_tree gives even an empty else part at   *)
(* the end of a function a target).                                        *)
SameFunction(p, q) == \A i \in DOMAIN symbols : symbols[i].pos <= p <=> symbols[i].pos <= q

BranchesStayInside ==
    Emitted /\ body.block <= 1 => \A p \in DOMAIN code :
        code[p].opcode = "BR" => /\ code[p].operand \in DOMAIN code
                                 /\ SameFunction(p, code[p].operand)
-----------------------------------------------------------------------------
(* The data stack of compiled code.  In a tree that dk_check_tree let pass *)
(* a call passes what the function takes, and an intrinsic has its one or  *)
(* two arguments.  Such a tree comes with its nodes, a record of the tree, *)
(* the exprs and stmts in it, the locals they use, and the opcodes of the  *)
(* intrinsics they call.                                                   *)

Takes(tree, id, count) ==
    IF id \in Natives THEN count = 1
    ELSE \E i \in DOMAIN tree : tree[i].symbol_id = id /\ Len(tree[i].args) = count

OpFits(nodes, e) ==
    \/ /\ e.op.kind = "opcode" /\ e.op.opcode \in nodes.opcodes
       /\ Len(e.args) = (IF e.op.opcode \in BinOps THEN 2 ELSE 1)
    \/ e.op.kind = "symbol" /\ Takes(nodes.tree, e.op.symbol_id, Len(e.args))

ExprFits(nodes, e) ==
    /\ e.kind = "local" => e.off \in nodes.locals
    /\ e.kind \in {"func", "assign"} => Range(e.args) \subseteq nodes.exprs
    /\ e.kind = "list" => Range(e.exprs) \subseteq nodes.exprs
    /\ e.kind = "func" => OpFits(nodes, e)

StmtFits(nodes, s) ==
    /\ s.kind # "decl" => s.expr \in nodes.exprs
    /\ s.kind \in {"if", "while"} => Range(s.then) \subseteq nodes.stmts
    /\ s.kind = "if" => Range(s.else_) \subseteq nodes.stmts

FuncFits(nodes, f) == Range(f.args) \subseteq nodes.locals /\ Range(f.stmts) \subseteq nodes.stmts

Fits(nodes) ==
    /\ nodes.exprs \subseteq Exprs /\ nodes.stmts \subseteq Statements
    /\ nodes.opcodes \subseteq BinOps \cup UnOps
    /\ \A e \in nodes.exprs : ExprFits(nodes, e)
    /\ \A s \in nodes.stmts : StmtFits(nodes, s)
    /\ \A i \in DOMAIN nodes.tree : FuncFits(nodes, nodes.tree[i])
    /\ \A i, j \in DOMAIN nodes.tree : nodes.tree[i].symbol_id = nodes.tree[j].symbol_id => i = j

(* A tree that dk_check_tree let pass, its locals and the opcodes of its   *)
(* intrinsics being some of these.                                         *)
Nodes(locals, opcodes) ==
    {n \in [tree : Trees, exprs : SUBSET Exprs, stmts : SUBSET Statements,
            locals : {locals}, opcodes : {opcodes}] : Fits(n)}

Checked(t, locals, opcodes) == \E n \in Nodes(locals, opcodes) : n.tree = t

(* An instruction that finds a words of its activation on the data stack   *)
(* leaves b of them there.                                                 *)
Shifts(nodes, op, operand, a, b) ==
    \/ op = "LDI" /\ b = a + 1
    \/ op = "LDL" /\ operand \in nodes.locals /\ b = a + 1
    \/ op = "STL" /\ operand \in nodes.locals /\ b = a - 1 /\ a >= 1
    \/ op = "DUP" /\ b = a + 1 /\ a >= 1
    \/ op = "POP" /\ b = a - 1 /\ a >= 1
    \/ op \in BinOps \cap nodes.opcodes /\ b = a - 1 /\ a >= 2
    \/ op \in (UnOps \cap nodes.opcodes) \cup {"NOT"} /\ b = a /\ a >= 1
    \/ op = "CALL" /\ Takes(nodes.tree, operand, a + 1 - b) /\ b >= 1
    \/ op \in {"RET", "BR"} /\ a = 1 /\ b = 0

(* depth says how many words an activation has on the data stack when it   *)
(* reaches a position, by whatever path: its arguments where its function  *)
(* begins, one where it returns or branches, none where a branch goes.     *)
Balanced(nodes, p, depth) ==
    /\ \A pos \in DOMAIN p.code :
          LET inst == p.code[pos]
          IN  IF inst.opcode = "RET" THEN depth[pos] = 1
              ELSE /\ inst.next \in DOMAIN p.code
                   /\ Shifts(nodes, inst.opcode, inst.operand, depth[pos], depth[inst.next])
                   /\ inst.opcode = "BR" => inst.operand \in DOMAIN p.code /\ depth[inst.operand] = 0
    /\ Len(p.symbols) = Len(nodes.tree)
    /\ \A i \in DOMAIN p.symbols :
          /\ p.symbols[i].id = nodes.tree[i].symbol_id
          /\ p.symbols[i].pos \in DOMAIN p.code
          /\ depth[p.symbols[i].pos] = Len(nodes.tree[i].args)
    /\ IF p.symbols = <<>> THEN DOMAIN p.code = {} ELSE p.symbols[1].pos = 0

(* The body never left its first block, and no position in it is U64_MAX,  *)
(* which stands for a target not known yet.                                *)
InPlace == body.block <= 1 /\ body.size < Unpatched
=============================================================================
