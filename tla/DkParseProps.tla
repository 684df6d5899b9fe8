---------------------------- MODULE DkParseProps -----------------------------
(***************************************************************************)
(* What must hold of the parser.                                           *)
(***************************************************************************)
EXTENDS DkParse

CONSTANT Programs   \* texts that follow the grammar of README.md and dk_tests.dk

(* The tokens that would be written for a node of the tree.                *)
Written(n) ==
    CASE n.node = "func"    -> <<"offentlig", "funktion">>
      [] n.node = "param"   -> <<"(", n.text, "som">>
      [] n.node = "type"    -> <<n.text, ")">>
      [] n.node = "decl"    -> <<"lad", n.text, "vaere">>
      [] n.node = "returns" -> <<"tilbagegiver", n.text>>
      [] n.node = "begin"   -> <<"goddag">>
      [] n.node = "end"     -> <<"farvel">>
      [] n.node = "else"    -> <<"ellers">>
      [] n.node = "stmt"    -> IF n.text = "" THEN <<>> ELSE <<n.text>>
      [] n.node = "list"    -> <<"(">>
      [] n.node = "close"   -> <<")">>
      [] n.node = "next"    -> <<",">>
      [] OTHER              -> <<n.text>>

(* Words and brackets of the text that leave a trace in the tree.  The dot *)
(* leaves none, nor does a word that may be left out: "og" after a comma,  *)
(* "en" and "et" before a type.  Of "offentlig" alone nothing is kept.     *)
Bracket == [paren_open |-> "(", paren_close |-> ")", comma |-> ","]
Spelling(t) == IF t.kind \in DOMAIN Bracket THEN Bracket[t.kind] ELSE t.text
Optional(toks, i) ==
    \/ toks[i].kind \in {"comment", "dot", "eof"} \/ toks[i].text = "offentlig"
    \/ toks[i].text = "og" /\ i > 1 /\ toks[i - 1].kind = "comma"
    \/ toks[i].text \in {"en", "et"} /\ \E j \in 4 .. i - 1 :
           toks[j - 3].kind = "dot" /\ toks[j - 2].text = "lad" /\ toks[j].text = "vaere" /\ \A k \in j + 1 .. i - 1 : toks[k].text \in {"en", "et"}

Kept(toks) == FlattenSeq([i \in DOMAIN toks |-> IF Optional(toks, i) THEN <<>> ELSE <<Spelling(toks[i])>>])

(* The closing bracket of a parameter is written with its type: both are   *)
(* the last of what is written for it; so is that of a declaration's type. *)
DeclType(i) == i > 1 /\ tree[i].node = "type" /\ tree[i - 1].node = "decl"
FromTree ==
    SelectSeq(FlattenSeq([i \in DOMAIN tree |-> IF DeclType(i) THEN <<tree[i].text>> ELSE Written(tree[i])]),
              LAMBDA w : w # "offentlig")

EmptyParen == \E i \in DOMAIN text : text[i].kind = "paren_open" /\ TokenAt(After(text, i)).kind = "paren_close"

(* Between two functions, as long as nothing was reported, the tree says   *)
(* all that the text said up to there: no word, bracket or comma was eaten *)
(* without a trace, and the tree holds nothing that was not written.  An   *)
(* empty parenthesis is the exception: it ends its clause, and what stands *)
(* before it in an outer parenthesis is dropped without a word (dk.c 524). *)
NothingLost ==
    Len(work) <= 1 /\ errs = <<>> /\ trap = "none" /\ ~EmptyParen
        => FromTree = Kept(SubSeq(text, 1, peek - 1))

(* What the tokenizer complained of: then no token is eaten.  (A complaint *)
(* of the parser's about the end of the text comes when peek is there.)    *)
Tokenless == errs = <<Len(text)>> /\ peek = After(text, 0)

(* Every program that has become tokens is parsed to its end without a     *)
(* complaint.                                                              *)
ProgramsParse ==
    text \in Programs /\ ~Tokenless
        => errs = <<>> /\ trap = "none" /\ (work = <<>> => Peek.kind = "eof")

(* A text that breaks off or goes wrong in any place ends the parser: in   *)
(* every loop a token is eaten, the end is seen, or the program stops.     *)
ParseEnds == <>(work = <<>> \/ trap = "assert")
=============================================================================
