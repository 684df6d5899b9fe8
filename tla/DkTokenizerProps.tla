-------------------------- MODULE DkTokenizerProps ---------------------------
(***************************************************************************)
(* What must hold of the token list, whatever text it is made from.        *)
(***************************************************************************)
EXTENDS DkTokenizer

End(t)   == t.loc.pos + t.len
Inner    == {i \in DOMAIN tokens : tokens[i].kind # "eof"}
(* Everything before it has been read and is in the list.                  *)
Frontier == IF pc = "space" THEN loc.pos ELSE begin.pos

(* No character is lost, and none belongs to two tokens: dk_next_token     *)
(* computes text and position of a token from two saved locations, and the *)
(* parser sees nothing of the text but the tokens.                         *)
TokensTile ==
    /\ \A i \in Inner : tokens[i].len > 0 /\ End(tokens[i]) <= Frontier
    /\ \A i, j \in Inner : i < j => End(tokens[i]) <= tokens[j].loc.pos
    /\ \A p \in 0..Frontier-1 :
          \/ src[p + 1] \in Whitespace
          \/ \E i \in Inner : tokens[i].loc.pos <= p /\ p < End(tokens[i])

(* Tokens are as long as they can be: a word is not cut short before a     *)
(* digit, a hyphen or a letter outside ASCII, a comment runs up to its     *)
(* newline, and a number takes a comma only between two digits, so that    *)
(* "1,5" is one token, and "1, 5" and "1," are not.                        *)
At(p) == IF p < Len(src) THEN src[p + 1] ELSE "nul"

IsWordRun(from, to) ==
    /\ At(from) \in WordStart
    /\ \A p \in from..to-1 : At(p) \in WordChar
    /\ At(to) \notin WordChar

IsNumberRun(from, to) ==
    /\ At(from) \in Digit /\ At(to - 1) \in Digit
    /\ \A p \in from..to-1 : At(p) \in Digit \/ (At(p) = "," /\ At(p + 1) \in Digit)
    /\ At(to) \notin Digit
    /\ ~(At(to) = "," /\ At(to + 1) \in Digit)

IsComment(from, to) ==
    /\ \A p \in from..to-1 : At(p) # "newline"
    /\ At(to) = "newline"
    /\ \E end \in from+1..to : IsWordRun(from, end) /\ SubSeq(src, from + 1, end) \in CommentSpellings

IsMaximal(t) ==
    CASE t.kind \in {"word", "bool"} -> IsWordRun(t.loc.pos, End(t))
      [] t.kind = "int"     -> IsWordRun(t.loc.pos, End(t)) \/ IsNumberRun(t.loc.pos, End(t))
      [] t.kind = "float"   -> IsNumberRun(t.loc.pos, End(t))
      [] t.kind = "comment" -> IsComment(t.loc.pos, End(t))
      [] t.kind = "eof"     -> t.len = 0
      [] OTHER              -> t.len = 1 /\ At(t.loc.pos) \in Punct

TokensAreMaximal == \A i \in DOMAIN tokens : IsMaximal(tokens[i])

(* Rows and columns, counted along while characters are eaten by six       *)
(* loops, are those of the position.  dk_print_err shows row + 1 and       *)
(* col + 1; columns of the first line count from 1, of all others from 0.  *)
Newlines(p) == {i \in 1..p : src[i] = "newline"}
LastOf(S)   == CHOOSE i \in S : \A j \in S : j <= i
ColumnAt(p) == IF Newlines(p) = {} THEN p + 1 ELSE p - LastOf(Newlines(p))
Counted(l)  == l.pos <= Len(src) => l.row = Cardinality(Newlines(l.pos)) /\ l.col = ColumnAt(l.pos)

LocationsCounted ==
    /\ Counted(loc)
    /\ \A i \in DOMAIN tokens : Counted(tokens[i].loc)
    /\ \A i \in DOMAIN errs : Counted(errs[i])

(* The list ends with its only EOF token, on which every loop of the       *)
(* parser stops; it ends before the end of the text only with a reported   *)
(* error, or silently at a character that begins no token (a control       *)
(* character, or a word that begins with a letter outside ASCII).          *)
StopsAreExplained ==
    /\ \A i \in DOMAIN tokens : tokens[i].kind = "eof" => i = Len(tokens) /\ pc = "done"
    /\ pc = "done" =>
         /\ tokens # <<>> /\ tokens[Len(tokens)].kind = "eof"
         /\ \/ errs # <<>>
            \/ loc.pos = Len(src)
            \/ src[loc.pos + 1] \in Stray \cup NonAscii

(* Every text is read to its end: the loops of dk_next_token stop at '\0'  *)
(* or at a character of the text, as dk_token_list_from_str relies on.     *)
Ends == <>(pc = "done")
=============================================================================
