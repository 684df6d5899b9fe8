---------------------------- MODULE DkReference -----------------------------
(***************************************************************************)
(* What a checked tree means, evaluated directly on the tree: arguments    *)
(* from left to right and bound to the parameters in the order they are    *)
(* written, locals starting at 0, a list giving its last expression, a     *)
(* return leaving its function, a function without one giving 0.  This is  *)
(* the definition the compiled program is compared with; it translates no  *)
(* code.  A result is [env, out, val]; ret tells whether a statement       *)
(* returned.  The trees given to it terminate.                             *)
(***************************************************************************)
EXTENDS DkBytecode, SequencesExt

CONSTANT MaxLocals   \* locals a function may have

FuncOf(tree, id) == tree[CHOOSE i \in DOMAIN tree : tree[i].symbol_id = id]

Apply(op, vals) == IF op \in BinOps THEN Calc(op, vals[1], vals[2]) ELSE CalcUnary(op, vals[1])

RECURSIVE Eval(_, _, _, _), EvalAll(_, _, _, _), Exec(_, _, _, _), Run(_, _, _, _)

(* The values of exprs from left to right, as vals.                        *)
EvalAll(tree, env, out, exprs) ==
    IF exprs = <<>> THEN [env |-> env, out |-> out, vals |-> <<>>]
    ELSE LET first == Eval(tree, env, out, Head(exprs))
             rest  == EvalAll(tree, first.env, first.out, Tail(exprs))
         IN  [rest EXCEPT !.vals = <<first.val>> \o @]

Eval(tree, env, out, e) ==
    CASE e.kind = "literal" -> [env |-> env, out |-> out, val |-> e.value]
      [] e.kind = "local"   -> [env |-> env, out |-> out, val |-> env[e.off]]
      [] e.kind = "list"    -> LET r == EvalAll(tree, env, out, e.exprs)
                               IN  [env |-> r.env, out |-> r.out, val |-> Last(r.vals)]
      [] e.kind = "assign"  -> LET r == Eval(tree, env, out, e.args[1])
                               IN  [r EXCEPT !.env = [@ EXCEPT ![Last(e.args).off] = r.val]]
      [] e.kind = "func"    ->
            LET r == EvalAll(tree, env, out, e.args) IN
            IF e.op.kind = "opcode"
            THEN [env |-> r.env, out |-> r.out, val |-> Apply(e.op.opcode, r.vals)]
            ELSE IF e.op.symbol_id \in Natives
            THEN [env |-> r.env, val |-> 0,
                  out |-> Append(r.out, Printed(e.op.symbol_id, r.vals[1]))]
            ELSE LET call == Run(tree, e.op.symbol_id, r.vals, r.out)
                 IN  [env |-> r.env, out |-> call.out, val |-> call.val]

Exec(tree, env, out, stmts) ==
    IF stmts = <<>> THEN [env |-> env, out |-> out, ret |-> FALSE, val |-> 0]
    ELSE LET s == Head(stmts) IN
         IF s.kind = "decl" THEN Exec(tree, env, out, Tail(stmts))
         ELSE LET c    == Eval(tree, env, out, s.expr)
                  then == IF s.kind = "if" /\ c.val = 0 THEN s.else_
                          ELSE IF s.kind \in {"if", "while"} /\ c.val # 0 THEN s.then
                          ELSE <<>>
                  body == Exec(tree, c.env, c.out, then)
                  more == IF s.kind = "while" /\ c.val # 0 THEN stmts ELSE Tail(stmts)
              IN  IF s.kind = "return"
                  THEN [env |-> c.env, out |-> c.out, ret |-> TRUE, val |-> c.val]
                  ELSE IF body.ret THEN body
                  ELSE Exec(tree, body.env, body.out, more)

Run(tree, id, vals, out) ==
    LET func  == FuncOf(tree, id)
        bound == {func.args[i] : i \in DOMAIN func.args}
        env   == [off \in 0..MaxLocals-1 |->
                    IF off \in bound
                    THEN vals[CHOOSE i \in DOMAIN func.args : func.args[i] = off] ELSE 0]
        r     == Exec(tree, env, out, func.stmts)
    IN  [out |-> r.out, val |-> r.val]

(* The output of a whole program: its first function, without arguments.   *)
Meaning(tree) == Run(tree, tree[1].symbol_id, <<>>, <<>>).out
=============================================================================
