------------------------------- MODULE DkCheck -------------------------------
(***************************************************************************)
(* The checker: dk_check_tree.  Signatures of all functions first, then    *)
(* all bodies; words become locals where there is one of that name, and    *)
(* what is left of a clause is the pattern of the function it calls.       *)
(*                                                                         *)
(* A type is its name; the type of dk_null_func has no name.  A pattern is *)
(* a sequence of [name, type], type "" for a word.  A list is a sequence   *)
(* of clauses, a clause a sequence of parts: words, literals and lists.    *)
(* Words are lower case, ae, oe and aa written out.  Null is the type of a *)
(* function whose signature has not been checked yet.  Expressions refer   *)
(* to each other by their places in the order they are finished.           *)
(***************************************************************************)
EXTENDS Integers, Sequences

CONSTANTS Names,        \* words, names and types
          Lists,        \* the clause lists, those in parentheses as well
          Statements,   \* the statements, those of blocks as well
          Trees         \* sequences of user functions, as they are parsed

Null  == "null"
Types == {"heltal", "flyder", "paastand", "$any"}

Keywords ==
    {"laeg", "sammen", "med", "traek", "fra", "gang", "del", "er", "mindre", "end", "stoerre", "lig", "enten", "eller",
     "baade", "og", "ikke", "stoeb", "som", "heltal", "flyder", "gem", "i", "print", "a", "b", "src", "dst"}

ClausePart ==
    [kind : {"word"}, word : Names] \cup [kind : {"literal"}, type : Types \ {"$any"}]
    \cup [kind : {"list"}, list : Lists]

PatternPart == [name : Names, type : Names]
UserFunc == [kind : {"user"}, pattern : Seq(PatternPart), returns : Names, stmts : Seq(Statements)]

(* What the parser hands over: no list is empty.                           *)
ASSUME CheckAssumption ==
    /\ Types \cup Keywords \cup {"", Null} \subseteq Names
    /\ Lists \subseteq Seq(Seq(ClausePart)) \ {<<>>}
    /\ \A s \in Statements : IF s.kind = "decl" THEN {s.name, s.type} \subseteq Names
                             ELSE s.clauses \in Lists /\ s.then \in Seq(Statements) /\ s.else \in Seq(Statements)
    /\ Trees \subseteq Seq(UserFunc)

VARIABLES funcs,    \* the functions, user functions first
          sigs,     \* how many signatures are checked
          bodies,   \* how many bodies are checked
          symbols,  \* func->symbol_id of the checked signatures
          counter,  \* c->symbol_id_counter
          params,   \* parts of the pattern that are still to be declared
          todo,     \* statements of the body that is being checked
          locals,   \* c->locals: name, type, offset and DK_LOCAL_FLAG_ARG
          count,    \* c->locals.count
          slots,    \* func->locals of the checked bodies
          work,     \* the lists that are being checked, the innermost first
          nodes,    \* the expressions, each with its function
          roots,    \* stmt->expr
          errs,     \* for each error the function it was reported in
          pc, trap

signatureVars == <<funcs, sigs, symbols, counter>>
clauseVars    == <<work, nodes, roots>>
checkVars == <<signatureVars, clauseVars, bodies, params, todo, locals, count, slots, errs, pc, trap>>

-----------------------------------------------------------------------------
(* The built-in functions.  dk_pattern_from_str reads their patterns.      *)
W(word)     == [name |-> word, type |-> ""]
T(name, ty) == [name |-> name, type |-> ty]

Opcode(ret, pattern) == [kind |-> "opcode", pattern |-> pattern, returns |-> ret, stmts |-> <<>>]
Arith(ty) ==
    << Opcode(ty, <<W("laeg"), T("a", ty), W("sammen"), W("med"), T("b", ty)>>),
       Opcode(ty, <<W("traek"), T("a", ty), W("fra"), T("b", ty)>>),
       Opcode(ty, <<W("gang"), T("a", ty), W("med"), T("b", ty)>>),
       Opcode(ty, <<W("del"), T("a", ty), W("med"), T("b", ty)>>) >>
Comparison(ty) ==
    << Opcode("paastand", <<T("a", ty), W("er"), W("mindre"), W("end"), T("b", ty)>>),
       Opcode("paastand", <<T("a", ty), W("er"), W("stoerre"), W("end"), T("b", ty)>>),
       Opcode("paastand", <<T("a", ty), W("er"), W("lig"), W("med"), T("b", ty)>>) >>
Logic ==
    << Opcode("paastand", <<W("enten"), T("a", "paastand"), W("eller"), T("b", "paastand")>>),
       Opcode("paastand", <<W("baade"), T("a", "paastand"), W("og"), T("b", "paastand")>>),
       Opcode("paastand", <<W("ikke"), T("a", "paastand")>>) >>
Casts ==
    << Opcode("heltal", <<W("stoeb"), T("a", "flyder"), W("som"), W("heltal")>>),
       Opcode("flyder", <<W("stoeb"), T("a", "heltal"), W("som"), W("flyder")>>) >>
Assign ==
    << [kind |-> "assign", returns |-> "heltal", stmts |-> <<>>,
        pattern |-> <<W("gem"), T("src", "$any"), W("i"), T("dst", "$any")>>] >>
NativePrint(ty) == << [kind |-> "native", returns |-> "heltal", stmts |-> <<>>, pattern |-> <<W("print"), T("a", ty)>>] >>

Builtins == Arith("heltal") \o Arith("flyder") \o Comparison("heltal") \o Comparison("flyder")
            \o Logic \o Casts \o Assign \o NativePrint("heltal") \o NativePrint("flyder") \o NativePrint("paastand")

-----------------------------------------------------------------------------
FirstIndex(S)  == IF S = {} THEN 0 ELSE CHOOSE i \in S : \A j \in S : i <= j
FuncType(f)    == IF f <= sigs THEN funcs[f].returns ELSE Null
ResolveLocal(word) == FirstIndex({i \in DOMAIN locals : locals[i].name = word})

(* Not the code: only the words of a pattern are compared.                 *)
MatchesWords(want, f) ==
    LET cand == funcs[f].pattern
    IN  /\ Len(want) = Len(cand)
        /\ \A i \in DOMAIN want : ~want[i].typed => want[i].name = cand[i].name

(* dk_resolve_func compares a wanted type with the type of the part, "" for *)
(* a word, and a wanted word with its name, which typed parts have as well. *)
Matches(want, f) ==
    LET cand == funcs[f].pattern
    IN  /\ Len(want) = Len(cand)
        /\ \A i \in DOMAIN want :
              IF want[i].typed THEN want[i].name = cand[i].type \/ (cand[i].type = "$any" /\ f <= sigs)
                               ELSE want[i].name = cand[i].name

ResolveFunc(want) == FirstIndex({f \in DOMAIN funcs : Matches(want, f)})

-----------------------------------------------------------------------------
(* Expressions.  A call has its function, 0 for dk_null_func, and what was *)
(* looked up.                                                              *)
NoLocal == [name |-> "", type |-> "", off |-> 0, arg |-> FALSE]
Expr(kind, ty) ==
    [kind |-> kind, in |-> bodies + 1, type |-> ty, local |-> NoLocal, callee |-> 0, want |-> <<>>, kids |-> <<>>]

LocalExpr(local)         == [Expr("local", local.type) EXCEPT !.local = local]
CallExpr(f, want, args)  == [Expr("func", IF f = 0 THEN "" ELSE FuncType(f)) EXCEPT !.callee = f, !.want = want, !.kids = args]
AssignExpr(f, want, args) == [Expr("assign", "heltal") EXCEPT !.callee = f, !.want = want, !.kids = args]
ListExpr(exprs)          == [Expr("list", nodes[exprs[Len(exprs)]].type) EXCEPT !.kids = exprs]

(* A list that is being checked: the clauses that are left, the first one  *)
(* is being checked, the expressions of those before it, and of this one   *)
(* the parts that are left, the wanted pattern and the arguments.          *)
Frame(clauses, exprs) ==
    [clauses |-> clauses, exprs |-> exprs, parts |-> IF clauses = <<>> THEN <<>> ELSE clauses[1],
     want |-> <<>>, args |-> <<>>]

Top  == work[1]
Part == Top.parts[1]
WithTop(frame) == <<frame>> \o Tail(work)

NextPart(frame) == [frame EXCEPT !.parts = Tail(@)]
AddArg(frame, n, ty) == [frame EXCEPT !.want = Append(@, [typed |-> TRUE, name |-> ty]), !.args = Append(@, n)]
AddWord(frame, word) == [frame EXCEPT !.want = Append(@, [typed |-> FALSE, name |-> word])]
EndClause(frame, n)  == Frame(Tail(frame.clauses), Append(frame.exprs, n))

New == Len(nodes) + 1
Stop(t) == pc' = "done" /\ trap' = t
Err(n)  == errs' = errs \o [i \in 1..n |-> bodies + 1]

-----------------------------------------------------------------------------
(* dk_check_func_sig: a type that does not exist fails an assertion.       *)
CheckSig ==
    /\ pc = "sigs" /\ errs = <<>> /\ sigs < Len(funcs)
    /\ LET f == funcs[sigs + 1]
       IN  /\ counter' = IF f.kind = "user" THEN counter + 1 ELSE counter
           /\ symbols' = Append(symbols, IF f.kind = "user" THEN counter' ELSE 0)
           /\ sigs' = sigs + 1
           /\ IF f.returns \in Types /\ \A i \in DOMAIN f.pattern : f.pattern[i].type \in Types \cup {""}
              THEN UNCHANGED <<pc, trap>> ELSE Stop("type")
    /\ UNCHANGED <<funcs, clauseVars, bodies, params, todo, locals, count, slots, errs>>

(* Not the code: a body is checked right after its signature.              *)
BodiesWithSigs ==
    /\ pc = "sigs" /\ sigs > bodies
    /\ pc' = "bodies"
    /\ UNCHANGED <<signatureVars, clauseVars, bodies, params, todo, locals, count, slots, errs, trap>>

BodiesAfterSigs ==
    /\ pc = "sigs" /\ (sigs = Len(funcs) \/ errs # <<>>)
    /\ pc' = "bodies"
    /\ UNCHANGED <<signatureVars, clauseVars, bodies, params, todo, locals, count, slots, errs, trap>>

(* Not the code: the loop over the bodies does not look at the errors.     *)
BeginBodyAnyway ==
    /\ pc = "bodies" /\ bodies < Len(funcs)
    /\ locals' = <<>> /\ params' = funcs[bodies + 1].pattern /\ todo' = funcs[bodies + 1].stmts
    /\ pc' = "params"
    /\ UNCHANGED <<signatureVars, clauseVars, bodies, count, slots, errs, trap>>

BeginBody ==
    /\ pc = "bodies" /\ errs = <<>> /\ bodies < Len(funcs)
    /\ locals' = <<>> /\ params' = funcs[bodies + 1].pattern /\ todo' = funcs[bodies + 1].stmts
    /\ pc' = "params"
    /\ UNCHANGED <<signatureVars, clauseVars, bodies, count, slots, errs, trap>>

(* dk_push_local: nothing is said of a name declared twice.                *)
PushLocal(name, ty, arg) ==
    /\ locals' = Append(locals, [name |-> name, type |-> ty, off |-> count, arg |-> arg])
    /\ count' = count + 1

(* The parameters are the first locals.                                    *)
CheckParam ==
    /\ pc = "params" /\ params # <<>>
    /\ params' = Tail(params)
    /\ IF params[1].type = "" THEN UNCHANGED <<locals, count>>
                              ELSE PushLocal(params[1].name, params[1].type, TRUE)
    /\ UNCHANGED <<signatureVars, clauseVars, bodies, todo, slots, errs, pc, trap>>

EndParams ==
    /\ pc = "params" /\ params = <<>>
    /\ pc' = "stmts"
    /\ UNCHANGED <<signatureVars, clauseVars, bodies, params, todo, locals, count, slots, errs, trap>>

CheckDecl ==
    /\ pc = "stmts" /\ todo # <<>> /\ todo[1].kind = "decl"
    /\ IF todo[1].type \in Types
       THEN PushLocal(todo[1].name, todo[1].type, FALSE) /\ todo' = Tail(todo) /\ UNCHANGED <<pc, trap>>
       ELSE Stop("type") /\ UNCHANGED <<locals, count, todo>>
    /\ UNCHANGED <<signatureVars, clauseVars, bodies, params, slots, errs>>

(* The other kinds of statement start with a list of clauses.              *)
BeginStmt ==
    /\ pc = "stmts" /\ todo # <<>> /\ todo[1].kind # "decl"
    /\ work' = <<Frame(todo[1].clauses, <<>>)>> /\ pc' = "clauses"
    /\ UNCHANGED <<signatureVars, bodies, params, todo, locals, count, slots, nodes, roots, errs, trap>>

(* Not the code: the count of the locals is not restored.                  *)
EndBodyKeepingCount ==
    /\ pc = "stmts" /\ todo = <<>>
    /\ slots' = Append(slots, locals) /\ bodies' = bodies + 1 /\ pc' = "bodies"
    /\ locals' = <<>> /\ UNCHANGED count
    /\ UNCHANGED <<signatureVars, clauseVars, params, todo, errs, trap>>

(* func->locals takes the list, and the checker's own one, which was empty, *)
(* is restored with its count.                                             *)
EndBody ==
    /\ pc = "stmts" /\ todo = <<>>
    /\ slots' = Append(slots, locals) /\ bodies' = bodies + 1 /\ pc' = "bodies"
    /\ locals' = <<>> /\ count' = 0
    /\ UNCHANGED <<signatureVars, clauseVars, params, todo, errs, trap>>

EndCheck ==
    /\ pc = "bodies" /\ (bodies = Len(funcs) \/ errs # <<>>)
    /\ pc' = "done"
    /\ UNCHANGED <<signatureVars, clauseVars, bodies, params, todo, locals, count, slots, errs, trap>>

-----------------------------------------------------------------------------
(* dk_check_clause: the parts, one after the other.                        *)
AtPart(kind) == pc = "clauses" /\ Top.parts # <<>> /\ Part.kind = kind

clauseUnchanged == UNCHANGED <<signatureVars, bodies, params, locals, count, slots>>

CheckLocal ==
    /\ AtPart("word") /\ ResolveLocal(Part.word) # 0
    /\ LET local == locals[ResolveLocal(Part.word)]
       IN  /\ nodes' = Append(nodes, LocalExpr(local))
           /\ work'  = WithTop(AddArg(NextPart(Top), New, local.type))
    /\ clauseUnchanged /\ UNCHANGED <<todo, roots, errs, pc, trap>>

CheckWord ==
    /\ AtPart("word") /\ ResolveLocal(Part.word) = 0
    /\ work' = WithTop(AddWord(NextPart(Top), Part.word))
    /\ clauseUnchanged /\ UNCHANGED <<todo, nodes, roots, errs, pc, trap>>

CheckLiteral ==
    /\ AtPart("literal")
    /\ nodes' = Append(nodes, Expr("literal", Part.type))
    /\ work'  = WithTop(AddArg(NextPart(Top), New, Part.type))
    /\ clauseUnchanged /\ UNCHANGED <<todo, roots, errs, pc, trap>>

CheckPartList ==
    /\ AtPart("list")
    /\ work' = <<Frame(Part.list, <<>>)>> \o WithTop(NextPart(Top))
    /\ clauseUnchanged /\ UNCHANGED <<todo, nodes, roots, errs, pc, trap>>

(* The end of a clause: one argument alone, a call or an assignment.       *)
AtClauseEnd == pc = "clauses" /\ Top.clauses # <<>> /\ Top.parts = <<>>
IsArgument  == Len(Top.want) = 1 /\ Top.args # <<>>
Callee      == ResolveFunc(Top.want)
IsAssign    == Callee # 0 /\ funcs[Callee].kind = "assign"

TakeArgument ==
    /\ AtClauseEnd /\ IsArgument
    /\ work' = WithTop(EndClause(Top, Top.args[1]))
    /\ clauseUnchanged /\ UNCHANGED <<todo, nodes, roots, errs, pc, trap>>

CheckCall ==
    /\ AtClauseEnd /\ ~IsArgument /\ ~IsAssign
    /\ LET call == CallExpr(Callee, Top.want, Top.args)
       IN  /\ nodes' = Append(nodes, call)
           /\ Err(IF Callee = 0 THEN 1 ELSE 0)
           /\ IF call.type # Null THEN work' = WithTop(EndClause(Top, New)) /\ UNCHANGED <<pc, trap>>
                                  ELSE Stop("untyped") /\ UNCHANGED work
    /\ clauseUnchanged /\ UNCHANGED <<todo, roots>>

(* "Gem .. i ..": the first and the last argument must have the same type. *)
CheckAssign ==
    /\ AtClauseEnd /\ ~IsArgument /\ IsAssign
    /\ nodes' = Append(nodes, AssignExpr(Callee, Top.want, Top.args))
    /\ IF Top.args = <<>> THEN Stop("null") /\ UNCHANGED <<work, errs>>
       ELSE /\ Err(IF nodes[Top.args[1]].type # nodes[Top.args[Len(Top.args)]].type THEN 1 ELSE 0)
            /\ work' = WithTop(EndClause(Top, New)) /\ UNCHANGED <<pc, trap>>
    /\ clauseUnchanged /\ UNCHANGED <<todo, roots>>

(* The end of a list: its expression, that of its only clause or a new     *)
(* one, is an argument of the clause around it, or the statement's, whose  *)
(* blocks follow in the same scope.                                        *)
EndList ==
    /\ pc = "clauses" /\ Top.clauses = <<>>
    /\ LET single == Len(Top.exprs) = 1
           expr   == IF single THEN Top.exprs[1] ELSE New
       IN  /\ nodes' = IF single THEN nodes ELSE Append(nodes, ListExpr(Top.exprs))
           /\ IF Len(work) > 1
              THEN /\ work' = <<AddArg(work[2], expr, nodes'[expr].type)>> \o Tail(Tail(work))
                   /\ UNCHANGED <<todo, roots, pc>>
              ELSE /\ work' = <<>> /\ roots' = Append(roots, expr) /\ pc' = "stmts"
                   /\ todo' = todo[1].then \o todo[1].else \o Tail(todo)
    /\ clauseUnchanged /\ UNCHANGED <<errs, trap>>

CheckNext == \/ CheckSig \/ BodiesAfterSigs
             \/ BeginBody \/ CheckParam \/ EndParams \/ CheckDecl \/ BeginStmt \/ EndBody \/ EndCheck
             \/ CheckLocal \/ CheckWord \/ CheckLiteral \/ CheckPartList
             \/ TakeArgument \/ CheckCall \/ CheckAssign \/ EndList

(* The error list is not empty when the tokenizer or the parser reported.  *)
CheckInit ==
    /\ \E t \in Trees : funcs = t \o Builtins
    /\ sigs = 0 /\ bodies = 0 /\ symbols = <<>> /\ counter = 0
    /\ params = <<>> /\ todo = <<>> /\ locals = <<>> /\ count = 0 /\ slots = <<>>
    /\ work = <<>> /\ nodes = <<>> /\ roots = <<>>
    /\ errs \in {<<>>, <<0>>} /\ pc = "sigs" /\ trap = "none"

CheckSpec == CheckInit /\ [][CheckNext]_checkVars
=============================================================================
