----------------------------- MODULE DkTokenizer -----------------------------
(***************************************************************************)
(* The tokenizer: dk_tokenizer_eat, dk_next_token and the loop of          *)
(* dk_token_list_from_str.                                                 *)
(*                                                                         *)
(* A source is a sequence of characters; a character is told apart only by *)
(* its class (char_flags_table) and where the code compares it with a      *)
(* character.  Every loop of the code is an action per iteration.  pos     *)
(* counts from 0 as in the code.  The spellings of literals and of the     *)
(* comment word are sets of character sequences; the value of a literal is *)
(* left out, its kind is kept.                                             *)
(***************************************************************************)
EXTENDS Integers, Sequences, FiniteSets

CONSTANTS Sources,          \* the texts to be tokenized
          Blank,            \* whitespace other than "newline"
          Letter, Digit, NonAscii,
          Sign,             \* punctuation without a token kind, other than "-"
          Stray,            \* control characters; "nul" is also what follows the end
          BoolSpellings, NumberSpellings, CommentSpellings,
          FloatRoom,        \* sizeof(temp): the longest float literal and its terminator
          EndSlack          \* how far past the end pos is followed

Punct      == {".", ",", "(", ")", "-"} \cup Sign
Whitespace == Blank \cup {"newline"}
WordStart  == Letter \cup {"_"}
WordChar   == Letter \cup Digit \cup NonAscii \cup {"_", "-"}
Char       == Punct \cup Whitespace \cup WordChar \cup Stray

ASSUME CharAssumption ==
    /\ "nul" \in Stray
    /\ Punct \cap (Whitespace \cup WordStart \cup Digit \cup NonAscii \cup Stray) = {}
    /\ Whitespace \cap (WordStart \cup Digit \cup NonAscii \cup Stray) = {}
    /\ Stray \cap (WordStart \cup Digit \cup NonAscii) = {}
    /\ WordStart \cap (Digit \cup NonAscii) = {} /\ Digit \cap NonAscii = {}
    /\ Sources \subseteq Seq(Char)
    /\ FloatRoom \in Nat /\ EndSlack \in Nat

VARIABLES src,     \* the text
          loc,     \* the tokenizer's position: pos, row, col
          pc,      \* the loop it is in
          begin,   \* begin_loc of the token being read
          tokens,  \* the list of tokens
          errs     \* locations of the reported errors

tokenVars == <<src, loc, pc, begin, tokens, errs>>

Loc == [pos : Nat, row : Nat, col : Nat]

Kind == {"eof", "dot", "comma", "paren_open", "paren_close",
         "bool", "int", "float", "word", "comment"}

Token == [kind : Kind, loc : Loc, len : Nat]

TokensTypeOK ==
    /\ src \in Sources
    /\ loc \in Loc /\ begin \in Loc
    /\ pc \in {"space", "word", "comment", "number", "done"}
    /\ tokens \in Seq(Token)
    /\ errs \in Seq(Loc)
    /\ begin.pos <= loc.pos
    /\ loc.pos > Len(src) => pc = "comment"   \* only a comment is followed past the end

-----------------------------------------------------------------------------
(* peek0 and peek1: past the end they are '\0'.                            *)
Peek(n) == IF loc.pos + n < Len(src) THEN src[loc.pos + n + 1] ELSE "nul"

(* Not the code: the column runs on over the end of a line.                *)
AfterWithoutReset ==
    IF loc.pos >= Len(src) + EndSlack THEN loc
    ELSE [pos |-> loc.pos + 1,
          row |-> loc.row + (IF Peek(0) = "newline" THEN 1 ELSE 0),
          col |-> loc.col + 1]

(* dk_tokenizer_eat.  Past the end every further character looks the same, *)
(* so pos is followed for EndSlack characters only.                        *)
After == IF loc.pos >= Len(src) + EndSlack THEN loc
         ELSE [pos |-> loc.pos + 1,
               row |-> loc.row + (IF Peek(0) = "newline" THEN 1 ELSE 0),
               col |-> IF Peek(0) = "newline" THEN 0 ELSE loc.col + 1]

Eat == loc' = After

(* substr_len(t->src, begin_loc.pos, t->loc.pos - begin_loc.pos)           *)
TextTo(end)   == SubSeq(src, begin.pos + 1, end)

(* The end of dk_next_token: a token goes to the list and the next one is  *)
(* read; kind 0 ends the list with an EOF token at the current position.   *)
Finish(kind, from, to) ==
    IF kind = "eof"
    THEN /\ tokens' = Append(tokens, [kind |-> "eof", loc |-> to, len |-> 0])
         /\ pc' = "done"
    ELSE /\ tokens' = Append(tokens, [kind |-> kind, loc |-> from, len |-> to.pos - from.pos])
         /\ pc' = "space"

Report(at) == errs' = Append(errs, at)

-----------------------------------------------------------------------------
(* Not the code: a NUL counts as whitespace.                                *)
EatSpaceOrNul ==
    /\ pc = "space" /\ Peek(0) \in Whitespace \cup {"nul"}
    /\ Eat
    /\ UNCHANGED <<src, pc, begin, tokens, errs>>

EatSpace ==
    /\ pc = "space" /\ Peek(0) \in Whitespace
    /\ Eat
    /\ UNCHANGED <<src, pc, begin, tokens, errs>>

PunctKind(c) == CASE c = "." -> "dot" [] c = "," -> "comma" [] c = "(" -> "paren_open"
                  [] c = ")" -> "paren_close" [] OTHER -> "eof"

(* Not the code: the location is saved after the character was eaten.      *)
PunctTokenSavedLate ==
    /\ pc = "space" /\ Peek(0) \in Punct
    /\ Eat /\ begin' = After
    /\ Finish(PunctKind(Peek(0)), After, After)
    /\ IF PunctKind(Peek(0)) = "eof" THEN Report(After) ELSE UNCHANGED errs
    /\ UNCHANGED src

(* A punctuation token, or "Invalid operator", reported where the operator *)
(* ends.                                                                   *)
PunctToken ==
    /\ pc = "space" /\ Peek(0) \in Punct
    /\ Eat /\ begin' = loc
    /\ Finish(PunctKind(Peek(0)), loc, After)
    /\ IF PunctKind(Peek(0)) = "eof" THEN Report(After) ELSE UNCHANGED errs
    /\ UNCHANGED src

BeginRun(start, loop) ==
    /\ pc = "space" /\ Peek(0) \in start
    /\ pc' = loop /\ begin' = loc
    /\ UNCHANGED <<src, loc, tokens, errs>>

EatRun(loop, inside) ==
    /\ pc = loop /\ inside
    /\ Eat
    /\ UNCHANGED <<src, pc, begin, tokens, errs>>

BeginWord == BeginRun(WordStart, "word")
EatWord   == EatRun("word", Peek(0) \in WordChar)

WordKind(text) == IF text \in BoolSpellings THEN "bool"
                  ELSE IF text \in NumberSpellings THEN "int" ELSE "word"

EndWord ==
    /\ pc = "word" /\ Peek(0) \notin WordChar
    /\ IF TextTo(loc.pos) \in CommentSpellings
       THEN pc' = "comment" /\ UNCHANGED tokens
       ELSE Finish(WordKind(TextTo(loc.pos)), begin, loc)
    /\ UNCHANGED <<src, loc, begin, errs>>

(* Not the code: the loop runs to the end of the text.                     *)
EatCommentToEnd == EatRun("comment", Peek(0) # "nul")

EatComment == EatRun("comment", Peek(0) # "newline")

EndComment ==
    /\ pc = "comment" /\ Peek(0) = "newline"
    /\ Finish("comment", begin, loc)
    /\ UNCHANGED <<src, loc, begin, errs>>

(* Not the code: any comma after a digit belongs to the number.            *)
InNumberAnyComma == Peek(0) \in Digit \/ Peek(0) = ","

InNumber == Peek(0) \in Digit \/ (Peek(0) = "," /\ Peek(1) \in Digit)

BeginNumber == BeginRun(Digit, "number")
EatNumber   == EatRun("number", InNumber)

Commas(text)  == Cardinality({i \in DOMAIN text : text[i] = ","})

(* strtod reads the whole text when it has one decimal separator.          *)
FloatOk(text) == Len(text) + 1 < FloatRoom /\ Commas(text) = 1

(* Not the code: a number that cannot be read ends the list in silence.    *)
EndNumberInSilence ==
    /\ pc = "number" /\ ~InNumber
    /\ LET text == TextTo(loc.pos)
           kind == IF Commas(text) = 0 THEN "int" ELSE IF FloatOk(text) THEN "float" ELSE "eof"
       IN  Finish(kind, begin, loc)
    /\ UNCHANGED <<src, loc, begin, errs>>

EndNumber ==
    /\ pc = "number" /\ ~InNumber
    /\ LET text == TextTo(loc.pos)
           kind == IF Commas(text) = 0 THEN "int" ELSE IF FloatOk(text) THEN "float" ELSE "eof"
       IN  /\ Finish(kind, begin, loc)
           /\ IF kind = "eof" THEN Report(loc) ELSE UNCHANGED errs
    /\ UNCHANGED <<src, loc, begin>>

(* The end of the text, or a character no token begins with.               *)
NoToken ==
    /\ pc = "space" /\ Peek(0) \in Stray \cup NonAscii
    /\ begin' = loc
    /\ Finish("eof", loc, loc)
    /\ UNCHANGED <<src, loc, errs>>

TokensNext == \/ EatSpace \/ PunctToken \/ NoToken
              \/ BeginWord \/ EatWord \/ EndWord \/ EatComment \/ EndComment
              \/ BeginNumber \/ EatNumber \/ EndNumber

TokensInit ==
    /\ src \in Sources
    /\ loc = [pos |-> 0, row |-> 0, col |-> 1]   \* dk_tokenizer_init eats once, from pos - 1
    /\ pc = "space" /\ begin = loc
    /\ tokens = <<>> /\ errs = <<>>

TokensSpec == TokensInit /\ [][TokensNext]_tokenVars

(* One sequential loop.                                                    *)
FairTokensSpec == TokensSpec /\ WF_tokenVars(TokensNext)
=============================================================================
