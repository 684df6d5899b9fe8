------------------------------- MODULE DkParse -------------------------------
(***************************************************************************)
(* The parser: dk_eat_token* and dk_parse_*, recursive descent with one    *)
(* token of look-ahead.  An unexpected token is reported and eaten, and    *)
(* parsing goes on; only dk_parse_tree looks at the error list.            *)
(*                                                                         *)
(* work is the C call stack read top first: what is still to be parsed.    *)
(* A tree is written down as its traversal: tree is the sequence of its    *)
(* nodes in the order of the text, [node, text].  Words are compared       *)
(* without case in the code and are lower case here.                       *)
(***************************************************************************)
EXTENDS Integers, Sequences, SequencesExt

CONSTANT Texts   \* token sequences as dk_token_list_from_str makes them

Token == [kind : {"eof", "dot", "comma", "paren_open", "paren_close", "literal", "word", "comment"},
          text : STRING]

(* The list of tokens ends with an EOF token.                              *)
ASSUME TextsAssumption ==
    \A t \in Texts : /\ t \in Seq(Token) /\ t # <<>>
                     /\ \A i \in DOMAIN t : (t[i].kind = "eof") <=> (i = Len(t))

VARIABLES text,   \* the tokens
          peek,   \* p->peek: index of the next token, Len(text) + 1 for null_token
          work,   \* what is left to parse
          tree,   \* the nodes made so far
          errs,   \* indexes of the tokens that were reported
          trap    \* "assert" after assert(false)

parseVars == <<text, peek, work, tree, errs, trap>>

-----------------------------------------------------------------------------
NullToken == [kind |-> "eof", text |-> ""]
TokenAt(n) == IF n \in DOMAIN text THEN text[n] ELSE NullToken
Peek       == TokenAt(peek)

(* dk_eat_token: the next token that is no comment, or null_token for good.*)
After(toks, n) ==
    IF \E m \in n + 1 .. Len(toks) : toks[m].kind # "comment"
    THEN CHOOSE m \in n + 1 .. Len(toks) :
            toks[m].kind # "comment" /\ \A k \in n + 1 .. m - 1 : toks[k].kind = "comment"
    ELSE Len(toks) + 1

Eat == peek' = After(text, peek)

Report(wrong) == errs' = IF wrong THEN Append(errs, peek) ELSE errs

Node(node, word) == [node |-> node, text |-> word]
AddNode(node, word) == tree' = Append(tree, Node(node, word))

Parsing == trap = "none" /\ work # <<>>
Top     == work[1][1]
Arg     == work[1][2]
Rest    == Tail(work)

(* What parse functions leave on the C stack for their callees.            *)
Text(w)  == <<"text", w>>
Kind(k)  == <<"kind", k>>
Maybe(w) == <<"maybe", w>>
Field(f) == <<"field", f>>
Call(f)  == <<f, 0>>

(* Not the code: a token that is not the wanted one is left where it is.   *)
EatTextIfRight ==
    /\ Parsing /\ Top = "text"
    /\ IF Peek.text = Arg THEN Eat ELSE UNCHANGED peek
    /\ work' = Rest
    /\ UNCHANGED <<text, tree, errs, trap>>

EatText ==
    /\ Parsing /\ Top = "text"
    /\ Eat /\ Report(Peek.text # Arg) /\ work' = Rest
    /\ UNCHANGED <<text, tree, trap>>

EatKind ==
    /\ Parsing /\ Top = "kind"
    /\ Eat /\ Report(Peek.kind # Arg) /\ work' = Rest
    /\ UNCHANGED <<text, tree, trap>>

(* dk_eat_token_kind(WORD) where the caller keeps the text of the token.   *)
EatField ==
    /\ Parsing /\ Top = "field"
    /\ Eat /\ Report(Peek.kind # "word") /\ AddNode(Arg, Peek.text) /\ work' = Rest
    /\ UNCHANGED <<text, trap>>

(* Not the code: a word that may be left out has to be there.              *)
EatMaybeNot ==
    /\ Parsing /\ Top = "maybe"
    /\ Eat /\ Report(Peek.text # Arg) /\ work' = Rest
    /\ UNCHANGED <<text, tree, trap>>

EatMaybe ==
    /\ Parsing /\ Top = "maybe"
    /\ IF Peek.text = Arg THEN Eat ELSE UNCHANGED peek
    /\ work' = Rest
    /\ UNCHANGED <<text, tree, errs, trap>>

-----------------------------------------------------------------------------
(* dk_parse_clause: a word or a literal is a part of its own.  Arg counts  *)
(* the parts.                                                              *)
ClausePart ==
    /\ Parsing /\ Top = "clause" /\ Peek.kind \in {"word", "literal"}
    /\ Eat /\ AddNode(Peek.kind, Peek.text)
    /\ work' = <<<<"clause", Arg + 1>>>> \o Rest
    /\ UNCHANGED <<text, errs, trap>>

(* The lists of a parenthesis: Arg is where the tree was before it.        *)
ParenOpen ==
    /\ Parsing /\ Top = "clause" /\ Peek.kind = "paren_open"
    /\ Eat /\ work' = <<<<"paren", Len(tree)>>>> \o work
    /\ UNCHANGED <<text, tree, errs, trap>>

InParen == Peek.kind \notin {"eof", "paren_close"}

(* Every list of the parenthesis gets a part of its own, but only the last *)
(* one is pushed: the ones before it are forgotten.                        *)
ParenList ==
    /\ Parsing /\ Top = "paren" /\ InParen
    /\ tree' = Append(SubSeq(tree, 1, Arg), Node("list", ""))
    /\ work' = <<Call("list")>> \o work
    /\ UNCHANGED <<text, peek, errs, trap>>

(* A clause ends at a token of another kind.  One without a part stops the *)
(* program.                                                                *)
EndClause(parts, stack) ==
    /\ trap' = IF parts = 0 THEN "assert" ELSE trap
    /\ work' = stack

(* With no list in it the parenthesis leaves no part, which ends the       *)
(* clause too.                                                             *)
ParenClose ==
    /\ Parsing /\ Top = "paren" /\ ~InParen
    /\ Eat /\ Report(Peek.kind # "paren_close")
    /\ IF Len(tree) > Arg
       THEN /\ AddNode("close", "")
            /\ work' = <<<<"clause", Rest[1][2] + 1>>>> \o Tail(Rest)
            /\ UNCHANGED trap
       ELSE EndClause(Rest[1][2], Tail(Rest)) /\ UNCHANGED tree
    /\ UNCHANGED text

ClauseEnd ==
    /\ Parsing /\ Top = "clause" /\ Peek.kind \notin {"word", "literal", "paren_open"}
    /\ EndClause(Arg, Rest)
    /\ UNCHANGED <<text, peek, tree, errs>>

(* dk_parse_clause_list                                                    *)
List ==
    /\ Parsing /\ Top = "list"
    /\ work' = <<<<"clause", 0>>, Call("more")>> \o Rest
    /\ UNCHANGED <<text, peek, tree, errs, trap>>

(* Not the code: the word after a comma is eaten, whatever it is.          *)
MoreClausesEating ==
    /\ Parsing /\ Top = "more"
    /\ IF Peek.kind = "comma"
       THEN /\ peek' = After(text, After(text, peek))
            /\ AddNode("next", "") /\ work' = <<<<"clause", 0>>>> \o work
       ELSE work' = Rest /\ UNCHANGED <<peek, tree>>
    /\ UNCHANGED <<text, errs, trap>>

MoreClauses ==
    /\ Parsing /\ Top = "more"
    /\ IF Peek.kind = "comma"
       THEN Eat /\ AddNode("next", "") /\ work' = <<Maybe("og"), <<"clause", 0>>>> \o work
       ELSE work' = Rest /\ UNCHANGED <<peek, tree>>
    /\ UNCHANGED <<text, errs, trap>>

-----------------------------------------------------------------------------
(* What follows the first word of a statement.                             *)
Block == <<Kind("dot"), Call("block")>>
After1st(word) ==
    CASE word = "lad"        -> <<Field("decl"), Text("vaere"), Maybe("en"), Maybe("et"), Field("type"), Kind("dot")>>
      [] word = "hvis"       -> <<Call("list")>> \o Block \o <<Call("else")>>
      [] word \in {"imens", "imedens"} -> <<Call("list")>> \o Block
      [] word = "tilbagegiv" -> <<Call("list"), Kind("dot")>>

StmtWords == {"lad", "hvis", "imens", "imedens", "tilbagegiv"}

(* dk_parse_stmt                                                           *)
Keyword ==
    /\ Parsing /\ Top = "stmt" /\ Peek.text \in StmtWords
    /\ Eat /\ work' = After1st(Peek.text) \o Rest
    /\ IF Peek.text = "lad" THEN UNCHANGED tree ELSE AddNode("stmt", Peek.text)
    /\ UNCHANGED <<text, errs, trap>>

ExprStmt ==
    /\ Parsing /\ Top = "stmt" /\ Peek.text \notin StmtWords
    /\ AddNode("stmt", "") /\ work' = <<Call("list"), Kind("dot")>> \o Rest
    /\ UNCHANGED <<text, peek, errs, trap>>

Else ==
    /\ Parsing /\ Top = "else"
    /\ IF Peek.text = "ellers"
       THEN Eat /\ AddNode("else", "") /\ work' = Block \o Rest
       ELSE work' = Rest /\ UNCHANGED <<peek, tree>>
    /\ UNCHANGED <<text, errs, trap>>

(* dk_parse_stmt_list, which ends in dk_fixup_den_det.                     *)
BeginBlock ==
    /\ Parsing /\ Top = "block"
    /\ AddNode("begin", "")
    /\ work' = <<Text("goddag"), Kind("dot"), Call("stmts"), Text("farvel"), Kind("dot")>> \o Rest
    /\ UNCHANGED <<text, peek, errs, trap>>

Stmts ==
    /\ Parsing /\ Top = "stmts"
    /\ IF Peek.kind = "eof" \/ Peek.text = "farvel"
       THEN AddNode("end", "") /\ work' = Rest
       ELSE work' = <<Call("stmt")>> \o work /\ UNCHANGED tree
    /\ UNCHANGED <<text, peek, errs, trap>>

(* dk_parse_func: words and parameters up to the type it returns.          *)
Pattern ==
    /\ Parsing /\ Top = "pattern"
    /\ LET go == Peek.text # "tilbagegiver"
       IN  \/ /\ go /\ Peek.kind = "word"
              /\ Eat /\ AddNode("word", Peek.text) /\ UNCHANGED work
           \/ /\ go /\ Peek.kind = "paren_open"
              /\ Eat /\ UNCHANGED tree
              /\ work' = <<Field("param"), Text("som"), Field("type"), Kind("paren_close")>> \o work
           \/ /\ ~go \/ Peek.kind \notin {"word", "paren_open"}
              /\ work' = Rest /\ UNCHANGED <<peek, tree>>
    /\ UNCHANGED <<text, errs, trap>>

FuncMaybe ==
    /\ Parsing /\ Top = "func"
    /\ IF Peek.text = "funktion"
       THEN /\ Eat /\ AddNode("func", "")
            /\ work' = <<Call("pattern"), Text("tilbagegiver"), Field("returns"), Kind("dot"), Call("block")>> \o Rest
       ELSE work' = Rest /\ UNCHANGED <<peek, tree>>
    /\ UNCHANGED <<text, errs, trap>>

(* dk_parse_tree                                                           *)
Tree ==
    /\ Parsing /\ Top = "tree"
    /\ work' = IF Peek.kind # "eof" /\ errs = <<>>
               THEN <<Text("offentlig"), Call("func")>> \o work ELSE Rest
    /\ UNCHANGED <<text, peek, tree, errs, trap>>

ParseNext == \/ EatText \/ EatKind \/ EatField \/ EatMaybe
             \/ ClausePart \/ ParenOpen \/ ParenList \/ ParenClose \/ ClauseEnd \/ List \/ MoreClauses
             \/ Keyword \/ ExprStmt \/ Else \/ BeginBlock \/ Stmts
             \/ Pattern \/ FuncMaybe \/ Tree

(* dk_parser_init skips comments before the first token.  The error list   *)
(* is not empty when the tokenizer stopped at something that is no token.  *)
ParseInit ==
    /\ text \in Texts
    /\ peek = After(text, 0)
    /\ work = <<Call("tree")>>
    /\ tree = <<>> /\ errs \in {<<>>, <<Len(text)>>} /\ trap = "none"

ParseSpec == ParseInit /\ [][ParseNext]_parseVars

(* One sequential call.                                                    *)
FairParseSpec == ParseSpec /\ WF_parseVars(ParseNext)
=============================================================================
