-------------------------- MODULE DkTokenizerProofs --------------------------
(***************************************************************************)
(* Proofs about the tokenizer, for every set of texts and every choice of  *)
(* characters and spellings: types, no character lost or read twice, and   *)
(* the ends of the list.                                                   *)
(***************************************************************************)
EXTENDS DkTokenizerProps, FiniteSetTheorems, WellFoundedInduction, TLAPS

(* While a token is being read, at least one character of it has been      *)
(* eaten or is next: no token is empty.                                    *)
RunStarted ==
    /\ pc = "word"    => begin.pos < loc.pos \/ Peek(0) \in WordChar
    /\ pc = "number"  => begin.pos < loc.pos \/ Peek(0) \in Digit
    /\ pc = "comment" => begin.pos < loc.pos

TokensInv == TokensTypeOK /\ RunStarted /\ TokensTile /\ StopsAreExplained

-----------------------------------------------------------------------------
(* A peeked character other than '\0' is the next one of the text.         *)
LEMMA PeekedInText ==
    ASSUME TokensTypeOK, Peek(0) # "nul"
    PROVE  loc.pos < Len(src) /\ Peek(0) = src[loc.pos + 1]
BY DEF Peek, TokensTypeOK, Loc

LEMMA TextIsSeq ==
    ASSUME TokensTypeOK
    PROVE  src \in Seq(Char)
BY CharAssumption DEF TokensTypeOK, CharAssumption

(* Eating moves on by one character of the text.                           *)
LEMMA EatenInText ==
    ASSUME TokensTypeOK, loc.pos < Len(src)
    PROVE  After \in Loc /\ After.pos = loc.pos + 1 /\ After.pos <= Len(src)
<1>1. Len(src) \in Nat BY TextIsSeq
<1> QED BY <1>1, CharAssumption DEF After, TokensTypeOK, Loc, CharAssumption

LEMMA AfterIsLoc ==
    ASSUME TokensTypeOK
    PROVE  After \in Loc /\ After.pos >= loc.pos
<1>1. CASE loc.pos >= Len(src) + EndSlack
  BY <1>1 DEF After, TokensTypeOK, Loc
<1>2. CASE ~(loc.pos >= Len(src) + EndSlack)
  BY <1>2 DEF After, TokensTypeOK, Loc
<1> QED BY <1>1, <1>2

(* The classes do not meet: what is read in a loop is not '\0'.            *)
LEMMA NotNul == "nul" \notin Whitespace \cup Punct \cup WordChar \cup Digit
BY CharAssumption DEF CharAssumption, WordChar, WordStart, Punct, Whitespace

(* A new token that begins where the list ended keeps the list tiled.      *)
LEMMA TokenTiles ==
    ASSUME TokensTypeOK, TokensTile, NEW kind \in Kind \ {"eof"}, NEW from \in Loc, NEW to \in Loc,
           from.pos < to.pos, Frontier = from.pos, src' = src, loc' = to, pc' = "space",
           tokens' = Append(tokens, [kind |-> kind, loc |-> from, len |-> to.pos - from.pos])
    PROVE  TokensTile'
<1> DEFINE t == [kind |-> kind, loc |-> from, len |-> to.pos - from.pos]
<1>1. t \in Token /\ t.len > 0 /\ End(t) = to.pos /\ t.loc = from
  BY DEF Token, Loc, End
<1>0. from.pos \in Nat /\ to.pos \in Nat
  BY DEF Loc
<1>2. tokens \in Seq(Token)
  BY DEF TokensTypeOK
<1>3. /\ DOMAIN tokens' = 1..Len(tokens) + 1 /\ DOMAIN tokens = 1..Len(tokens) /\ Len(tokens) \in Nat
      /\ tokens'[Len(tokens) + 1] = t
      /\ \A i \in DOMAIN tokens : tokens'[i] = tokens[i]
  BY <1>1, <1>2
<1>4. Inner' = Inner \cup {Len(tokens) + 1}
  BY <1>3 DEF Inner
<1>5. Frontier' = to.pos
  BY DEF Frontier
<1>6. Inner \subseteq 1..Len(tokens) /\ Len(tokens) + 1 \notin Inner
  BY <1>3 DEF Inner
<1>7. \A i \in Inner' : tokens'[i].len > 0 /\ End(tokens'[i]) <= to.pos
  <2> TAKE i \in Inner'
  <2>1. CASE i = Len(tokens) + 1
    BY <2>1, <1>1, <1>3 DEF Loc
  <2>2. CASE i \in Inner
    <3>1. tokens'[i] = tokens[i] /\ tokens[i] \in Token
      BY <2>2, <1>2, <1>3, <1>6
    <3>2. tokens[i].len > 0 /\ End(tokens[i]) <= from.pos
      BY <2>2 DEF TokensTile
    <3>4. End(tokens[i]) \in Int
      <4>1. tokens[i].loc \in Loc /\ tokens[i].len \in Nat
        BY <3>1 DEF Token
      <4>2. tokens[i].loc.pos \in Nat
        BY <4>1 DEF Loc
      <4> QED BY <4>1, <4>2 DEF End
    <3>3. End(tokens'[i]) = End(tokens[i])
      BY <3>1
    <3>5. End(tokens[i]) <= to.pos
      BY <1>0, <3>2, <3>4
    <3> QED BY <3>1, <3>2, <3>5, Zenon
  <2> QED BY <2>1, <2>2, <1>4
<1>8. \A i, j \in Inner' : i < j => End(tokens'[i]) <= tokens'[j].loc.pos
  <2> SUFFICES ASSUME NEW i \in Inner', NEW j \in Inner', i < j
               PROVE  End(tokens'[i]) <= tokens'[j].loc.pos
    OBVIOUS
  <2>1. i \in Inner /\ tokens'[i] = tokens[i]
    BY <1>3, <1>4, <1>6
  <2>2. CASE j = Len(tokens) + 1
    <3>1. tokens'[j].loc.pos = from.pos /\ End(tokens'[i]) = End(tokens[i])
      BY <2>1, <2>2, <1>1, <1>3
    <3> QED BY <3>1, <2>1 DEF TokensTile
  <2>3. CASE j \in Inner
    BY <2>1, <2>3, <1>3, <1>6 DEF TokensTile
  <2> QED BY <2>2, <2>3, <1>4
<1>9. \A p \in 0..to.pos - 1 : \/ src[p + 1] \in Whitespace
                               \/ \E i \in Inner' : tokens'[i].loc.pos <= p /\ p < End(tokens'[i])
  <2> TAKE p \in 0..to.pos - 1
  <2>1. CASE p < from.pos
    <3>1. p \in 0..Frontier - 1 BY <2>1 DEF Loc
    <3> QED BY <3>1, <1>3, <1>4, <1>6 DEF TokensTile
  <2>2. CASE p >= from.pos
    <3>1. Len(tokens) + 1 \in Inner' /\ tokens'[Len(tokens) + 1].loc.pos <= p
      BY <2>2, <1>1, <1>3, <1>4
    <3>2. End(tokens'[Len(tokens) + 1]) = to.pos /\ p < to.pos
      BY <1>0, <1>1, <1>3
    <3> QED BY <3>1, <3>2
  <2>3. p < from.pos \/ p >= from.pos
    BY <1>0
  <2> QED BY <2>1, <2>2, <2>3, Zenon
<1> QED BY <1>5, <1>7, <1>8, <1>9 DEF TokensTile

(* The EOF token covers nothing.                                           *)
LEMMA EndTiles ==
    ASSUME TokensTypeOK, TokensTile, NEW to \in Loc, src' = src, pc' = "done", begin'.pos = Frontier,
           tokens' = Append(tokens, [kind |-> "eof", loc |-> to, len |-> 0])
    PROVE  TokensTile'
<1> DEFINE t == [kind |-> "eof", loc |-> to, len |-> 0]
<1>1. t \in Token
  BY DEF Token, Kind
<1>2. tokens \in Seq(Token)
  BY DEF TokensTypeOK
<1>3. /\ DOMAIN tokens' = 1..Len(tokens) + 1 /\ DOMAIN tokens = 1..Len(tokens) /\ Len(tokens) \in Nat
      /\ tokens'[Len(tokens) + 1] = t
      /\ \A i \in DOMAIN tokens : tokens'[i] = tokens[i]
  BY <1>1, <1>2
<1>4. Inner' = Inner
  BY <1>3 DEF Inner
<1>5. Frontier' = Frontier
  BY DEF Frontier
<1>6. \A i \in Inner : tokens'[i] = tokens[i]
  BY <1>3 DEF Inner
<1> QED BY <1>4, <1>5, <1>6 DEF TokensTile

(* A step that leaves list and frontier alone.                             *)
LEMMA SameTiles ==
    ASSUME TokensTypeOK, TokensTile, src' = src, tokens' = tokens, Frontier' = Frontier
    PROVE  TokensTile'
<1>1. Inner' = Inner
  BY DEF Inner
<1> QED BY <1>1 DEF TokensTile

(* Appending to the list and to its ends.                                  *)
LEMMA TokenAppended ==
    ASSUME TokensTypeOK, StopsAreExplained, pc # "done", NEW t \in Token,
           src' = src, tokens' = Append(tokens, t),
           t.kind # "eof" => pc' = "space",
           t.kind = "eof" => /\ pc' = "done"
                             /\ errs' # <<>> \/ loc'.pos = Len(src) \/ src[loc'.pos + 1] \in Stray \cup NonAscii
    PROVE  tokens' \in Seq(Token) /\ StopsAreExplained'
<1>1. tokens \in Seq(Token)
  BY DEF TokensTypeOK
<1>2. /\ tokens' \in Seq(Token) /\ Len(tokens') = Len(tokens) + 1 /\ Len(tokens) \in Nat
      /\ DOMAIN tokens' = 1..Len(tokens) + 1 /\ DOMAIN tokens = 1..Len(tokens)
      /\ tokens'[Len(tokens) + 1] = t /\ tokens' # <<>>
      /\ \A i \in DOMAIN tokens : tokens'[i] = tokens[i]
  BY <1>1
<1>3. \A i \in DOMAIN tokens : tokens[i].kind # "eof"
  BY DEF StopsAreExplained
<1>4. \A i \in DOMAIN tokens' : tokens'[i].kind = "eof" => i = Len(tokens') /\ pc' = "done"
  BY <1>2, <1>3
<1>5. pc' = "done" => /\ tokens' # <<>> /\ tokens'[Len(tokens')].kind = "eof"
                      /\ \/ errs' # <<>>
                         \/ loc'.pos = Len(src')
                         \/ src'[loc'.pos + 1] \in Stray \cup NonAscii
  BY <1>2
<1> QED BY <1>2, <1>4, <1>5 DEF StopsAreExplained

-----------------------------------------------------------------------------
(* One character eaten in a loop that neither begins nor ends a token.     *)
LEMMA RunKept ==
    ASSUME TokensInv, NEW loop, NEW inside \in BOOLEAN, loop \in {"word", "number", "comment"},
           EatRun(loop, inside), loop # "comment" => (inside => Peek(0) # "nul")
    PROVE  TokensInv'
<1> USE DEF TokensInv
<1>1. /\ pc = loop /\ pc' = loop /\ inside /\ loc' = After
      /\ src' = src /\ begin' = begin /\ tokens' = tokens /\ errs' = errs
  BY DEF EatRun, Eat
<1>2. loc' \in Loc /\ loc'.pos >= loc.pos
  BY <1>1, AfterIsLoc
<1>3. loop # "comment" => loc'.pos = loc.pos + 1 /\ loc'.pos <= Len(src)
  BY <1>1, PeekedInText, EatenInText
<1>4. TokensTypeOK'
  BY <1>1, <1>2, <1>3, TextIsSeq DEF TokensTypeOK, Loc
<1>5. RunStarted'
  <2>1. begin.pos \in Nat /\ loc.pos \in Nat /\ loc'.pos \in Nat
    BY <1>2 DEF TokensTypeOK, Loc
  <2>2. begin'.pos < loc'.pos
    BY <1>1, <1>2, <1>3, <2>1 DEF RunStarted, TokensTypeOK
  <2> QED BY <1>1, <2>2 DEF RunStarted
<1>6. TokensTile'
  BY <1>1, SameTiles DEF Frontier
<1>7. StopsAreExplained'
  BY <1>1 DEF StopsAreExplained
<1> QED BY <1>4, <1>5, <1>6, <1>7

(* A token begins where the position is.                                   *)
LEMMA RunBegun ==
    ASSUME TokensInv, NEW start, NEW loop, BeginRun(start, loop),
           \/ loop = "word" /\ start = WordStart
           \/ loop = "number" /\ start = Digit
    PROVE  TokensInv'
<1> USE DEF TokensInv
<1>1. /\ pc = "space" /\ Peek(0) \in start /\ pc' = loop /\ begin' = loc
      /\ src' = src /\ loc' = loc /\ tokens' = tokens /\ errs' = errs
  BY DEF BeginRun
<1>2. TokensTypeOK'
  BY <1>1 DEF TokensTypeOK, Loc
<1>3. RunStarted'
  <2>1. Peek(0)' = Peek(0)
    BY <1>1 DEF Peek
  <2>2. WordStart \subseteq WordChar
    BY DEF WordStart, WordChar
  <2> QED BY <1>1, <2>1, <2>2 DEF RunStarted
<1>4. TokensTile'
  BY <1>1, SameTiles DEF Frontier
<1>5. StopsAreExplained'
  BY <1>1 DEF StopsAreExplained
<1> QED BY <1>2, <1>3, <1>4, <1>5

(* A token is finished: it goes to the list, or ends it.                   *)
LEMMA TokenFinished ==
    ASSUME TokensInv, pc # "done", NEW kind \in Kind, NEW from \in Loc, NEW to \in Loc,
           Finish(kind, from, to), src' = src, loc' = to, begin' = from,
           from.pos = Frontier, from.pos < to.pos \/ kind = "eof", from.pos <= to.pos,
           to.pos <= Len(src), errs' \in Seq(Loc),
           kind = "eof" => errs' # <<>> \/ to.pos = Len(src) \/ src[to.pos + 1] \in Stray \cup NonAscii
    PROVE  TokensInv'
<1> USE DEF TokensInv
<1>0. from.pos \in Nat /\ to.pos \in Nat
  BY DEF Loc
<1>1. CASE kind = "eof"
  <2> DEFINE t == [kind |-> "eof", loc |-> to, len |-> 0]
  <2>1. tokens' = Append(tokens, t) /\ pc' = "done" /\ t \in Token
    BY <1>1 DEF Finish, Token, Kind
  <2>2. tokens' \in Seq(Token) /\ StopsAreExplained'
    BY <1>1, <2>1, TokenAppended
  <2>3. TokensTile'
    BY <2>1, EndTiles
  <2>4. TokensTypeOK'
    BY <1>0, <2>1, <2>2 DEF TokensTypeOK
  <2> QED BY <2>1, <2>2, <2>3, <2>4 DEF RunStarted
<1>2. CASE kind # "eof"
  <2> DEFINE t == [kind |-> kind, loc |-> from, len |-> to.pos - from.pos]
  <2>1. tokens' = Append(tokens, t) /\ pc' = "space" /\ t \in Token
    BY <1>0, <1>2 DEF Finish, Token
  <2>2. tokens' \in Seq(Token) /\ StopsAreExplained'
    BY <1>2, <2>1, TokenAppended
  <2>3. TokensTile'
    BY <1>2, <2>1, TokenTiles
  <2>4. TokensTypeOK'
    BY <1>0, <2>1, <2>2, TextIsSeq DEF TokensTypeOK
  <2> QED BY <2>1, <2>2, <2>3, <2>4 DEF RunStarted
<1> QED BY <1>1, <1>2

-----------------------------------------------------------------------------
LEMMA TokensInitial == TokensInit => TokensInv
<1> SUFFICES ASSUME TokensInit PROVE TokensInv
  OBVIOUS
<1>1. /\ loc = [pos |-> 0, row |-> 0, col |-> 1] /\ begin = loc /\ pc = "space"
      /\ tokens = <<>> /\ errs = <<>> /\ src \in Sources
  BY DEF TokensInit
<1>2. src \in Seq(Char)
  BY <1>1, CharAssumption DEF CharAssumption
<1>3. TokensTypeOK
  BY <1>1, <1>2 DEF TokensTypeOK, Loc
<1>4. RunStarted /\ StopsAreExplained
  BY <1>1 DEF RunStarted, StopsAreExplained
<1>5. TokensTile
  BY <1>1 DEF TokensTile, Inner, Frontier
<1> QED BY <1>3, <1>4, <1>5 DEF TokensInv

LEMMA TokensStep == TokensInv /\ [TokensNext]_tokenVars => TokensInv'
<1> SUFFICES ASSUME TokensInv, [TokensNext]_tokenVars PROVE TokensInv'
  OBVIOUS
<1> USE DEF TokensInv
<1>0. /\ src \in Seq(Char) /\ Len(src) \in Nat /\ loc \in Loc /\ begin \in Loc
      /\ loc.pos \in Nat /\ begin.pos \in Nat /\ begin.pos <= loc.pos /\ errs \in Seq(Loc)
  BY TextIsSeq DEF TokensTypeOK, Loc
<1>1. CASE EatSpace
  <2>1. /\ pc = "space" /\ Peek(0) \in Whitespace /\ loc' = After
        /\ src' = src /\ pc' = pc /\ begin' = begin /\ tokens' = tokens /\ errs' = errs
    BY <1>1 DEF EatSpace, Eat
  <2>2. loc.pos < Len(src) /\ src[loc.pos + 1] \in Whitespace
    BY <2>1, PeekedInText, NotNul
  <2>3. loc' \in Loc /\ loc'.pos = loc.pos + 1 /\ loc'.pos <= Len(src)
    BY <2>1, <2>2, EatenInText
  <2>4. TokensTypeOK' /\ RunStarted' /\ StopsAreExplained'
    BY <1>0, <2>1, <2>3 DEF TokensTypeOK, RunStarted, StopsAreExplained
  <2>5. TokensTile'
    <3>1. Inner' = Inner /\ Frontier = loc.pos /\ Frontier' = loc.pos + 1
      BY <2>1, <2>3 DEF Inner, Frontier
    <3>2. \A i \in Inner : tokens[i].len > 0 /\ End(tokens[i]) <= loc.pos + 1
      <4> TAKE i \in Inner
      <4>1. tokens[i].len > 0 /\ End(tokens[i]) <= loc.pos
        BY <3>1 DEF TokensTile
      <4>2. tokens[i] \in Token
        BY DEF Inner, TokensTypeOK
      <4>3. tokens[i].loc \in Loc /\ tokens[i].len \in Nat
        BY <4>2 DEF Token
      <4>4. End(tokens[i]) \in Int
        BY <4>3 DEF End, Loc
      <4> QED BY <1>0, <4>1, <4>4
    <3>3. \A p \in 0..loc.pos : \/ src[p + 1] \in Whitespace
                                \/ \E i \in Inner : tokens[i].loc.pos <= p /\ p < End(tokens[i])
      <4> TAKE p \in 0..loc.pos
      <4>1. CASE p = loc.pos
        BY <4>1, <2>2
      <4>2. CASE p # loc.pos
        <5>1. p \in 0..Frontier - 1 BY <1>0, <3>1, <4>2
        <5> QED BY <5>1 DEF TokensTile
      <4> QED BY <4>1, <4>2
    <3>4. Frontier' - 1 = loc.pos
      BY <1>0, <3>1
    <3>5. \A i, j \in Inner : i < j => End(tokens[i]) <= tokens[j].loc.pos
      BY DEF TokensTile
    <3>6. \A i \in Inner' : tokens'[i].len > 0 /\ End(tokens'[i]) <= Frontier'
      BY <2>1, <3>1, <3>2, Zenon
    <3>7. \A i, j \in Inner' : i < j => End(tokens'[i]) <= tokens'[j].loc.pos
      BY <2>1, <3>1, <3>5, Zenon
    <3>8. \A p \in 0..Frontier' - 1 :
             \/ src'[p + 1] \in Whitespace
             \/ \E i \in Inner' : tokens'[i].loc.pos <= p /\ p < End(tokens'[i])
      BY <2>1, <3>1, <3>3, <3>4, Zenon
    <3> QED BY <3>6, <3>7, <3>8, Zenon DEF TokensTile
  <2> QED BY <2>4, <2>5
<1>2. CASE PunctToken
  <2> DEFINE kind == PunctKind(Peek(0))
  <2>1. /\ pc = "space" /\ Peek(0) \in Punct /\ loc' = After /\ begin' = loc /\ src' = src
        /\ Finish(kind, loc, After)
        /\ errs' = IF kind = "eof" THEN Append(errs, After) ELSE errs
    BY <1>2 DEF PunctToken, Eat, Report
  <2>2. After \in Loc /\ After.pos = loc.pos + 1 /\ After.pos <= Len(src)
    BY <2>1, PeekedInText, NotNul, EatenInText
  <2>3. kind \in Kind
    BY DEF PunctKind, Kind
  <2>4. errs' \in Seq(Loc) /\ (kind = "eof" => errs' # <<>>)
    BY <1>0, <2>1, <2>2
  <2>5. loc.pos = Frontier /\ loc.pos < After.pos /\ loc.pos <= After.pos
    BY <1>0, <2>1, <2>2 DEF Frontier
  <2> HIDE DEF kind
  <2> QED BY <1>0, <2>1, <2>2, <2>3, <2>4, <2>5, TokenFinished
<1>3. CASE NoToken
  <2>1. /\ pc = "space" /\ Peek(0) \in Stray \cup NonAscii /\ begin' = loc
        /\ src' = src /\ loc' = loc /\ errs' = errs /\ Finish("eof", loc, loc)
    BY <1>3 DEF NoToken
  <2>2. loc.pos <= Len(src) /\ loc.pos = Frontier /\ "eof" \in Kind
    BY <1>0, <2>1 DEF TokensTypeOK, Frontier, Kind
  <2>3. loc.pos = Len(src) \/ src[loc.pos + 1] \in Stray \cup NonAscii
    BY <1>0, <2>1, <2>2 DEF Peek
  <2> QED BY <1>0, <2>1, <2>2, <2>3, TokenFinished
<1>4. CASE BeginWord
  BY <1>4, RunBegun DEF BeginWord
<1>5. CASE EatWord
  <2>1. Peek(0) \in WordChar => Peek(0) # "nul"
    BY NotNul
  <2>2. (Peek(0) \in WordChar) \in BOOLEAN
    OBVIOUS
  <2> QED BY <1>5, <2>1, <2>2, RunKept DEF EatWord
<1>6. CASE EndWord
  <2>1. /\ pc = "word" /\ Peek(0) \notin WordChar
        /\ src' = src /\ loc' = loc /\ begin' = begin /\ errs' = errs
    BY <1>6 DEF EndWord
  <2>2. begin.pos < loc.pos /\ loc.pos <= Len(src) /\ begin.pos = Frontier
    BY <1>0, <2>1 DEF RunStarted, TokensTypeOK, Frontier
  <2>3. CASE TextTo(loc.pos) \in CommentSpellings
    <3>1. pc' = "comment" /\ tokens' = tokens
      BY <1>6, <2>3 DEF EndWord
    <3>2. TokensTypeOK' /\ RunStarted' /\ StopsAreExplained'
      BY <2>1, <2>2, <3>1 DEF TokensTypeOK, RunStarted, StopsAreExplained
    <3>3. TokensTile'
      BY <2>1, <3>1, SameTiles DEF Frontier
    <3> QED BY <3>2, <3>3
  <2>4. CASE TextTo(loc.pos) \notin CommentSpellings
    <3> DEFINE kind == WordKind(TextTo(loc.pos))
    <3>1. kind \in Kind /\ kind # "eof" /\ Finish(kind, begin, loc)
      BY <1>6, <2>4 DEF EndWord, WordKind, Kind
    <3> HIDE DEF kind
    <3> QED BY <1>0, <2>1, <2>2, <3>1, TokenFinished
  <2> QED BY <2>3, <2>4
<1>7. CASE EatComment
  <2>1. (Peek(0) # "newline") \in BOOLEAN
    OBVIOUS
  <2> QED BY <1>7, <2>1, RunKept DEF EatComment
<1>8. CASE EndComment
  <2>1. /\ pc = "comment" /\ Peek(0) = "newline" /\ Finish("comment", begin, loc)
        /\ src' = src /\ loc' = loc /\ begin' = begin /\ errs' = errs
    BY <1>8 DEF EndComment
  <2>2. loc.pos < Len(src)
    BY <2>1, PeekedInText
  <2>3. begin.pos < loc.pos /\ begin.pos = Frontier /\ "comment" \in Kind
    BY <2>1 DEF RunStarted, Frontier, Kind
  <2> QED BY <1>0, <2>1, <2>2, <2>3, TokenFinished
<1>9. CASE BeginNumber
  BY <1>9, RunBegun DEF BeginNumber
<1>10. CASE EatNumber
  <2>1. InNumber \in BOOLEAN /\ (InNumber => Peek(0) # "nul")
    BY NotNul DEF InNumber
  <2> QED BY <1>10, <2>1, RunKept DEF EatNumber
<1>11. CASE EndNumber
  <2> DEFINE text == TextTo(loc.pos)
             kind == IF Commas(text) = 0 THEN "int" ELSE IF FloatOk(text) THEN "float" ELSE "eof"
  <2>1. /\ pc = "number" /\ ~InNumber /\ Finish(kind, begin, loc)
        /\ errs' = IF kind = "eof" THEN Append(errs, loc) ELSE errs
        /\ src' = src /\ loc' = loc /\ begin' = begin
    BY <1>11 DEF EndNumber, Report
  <2>2. begin.pos < loc.pos /\ loc.pos <= Len(src) /\ begin.pos = Frontier
    <3>1. Peek(0) \notin Digit
      BY <2>1 DEF InNumber
    <3> QED BY <1>0, <2>1, <3>1 DEF RunStarted, TokensTypeOK, Frontier
  <2>3. kind \in Kind
    BY DEF Kind
  <2> HIDE DEF kind
  <2>4. errs' \in Seq(Loc) /\ (kind = "eof" => errs' # <<>>)
    BY <1>0, <2>1
  <2> QED BY <1>0, <2>1, <2>2, <2>3, <2>4, TokenFinished
<1>12. CASE UNCHANGED tokenVars
  <2>1. src' = src /\ loc' = loc /\ pc' = pc /\ begin' = begin /\ tokens' = tokens /\ errs' = errs
    BY <1>12 DEF tokenVars
  <2>2. Peek(0)' = Peek(0)
    BY <2>1 DEF Peek
  <2>3. TokensTypeOK' /\ RunStarted' /\ StopsAreExplained'
    BY <2>1, <2>2 DEF TokensTypeOK, RunStarted, StopsAreExplained
  <2> QED BY <2>1, <2>3, SameTiles DEF Frontier
<1> QED BY <1>1, <1>2, <1>3, <1>4, <1>5, <1>6, <1>7, <1>8, <1>9, <1>10, <1>11, <1>12 DEF TokensNext

(* The variables keep their types, and only a comment is followed past the *)
(* end of the text (dk_next_token).                                        *)
THEOREM TokenizerTypeCorrect == TokensSpec => []TokensTypeOK
<1>1. TokensInv => TokensTypeOK
  BY DEF TokensInv
<1> QED BY <1>1, TokensInitial, TokensStep, PTL DEF TokensSpec

(* Every character read is whitespace or in exactly one token, in order    *)
(* (dk_next_token, dk_token_list_from_str).                                *)
THEOREM TextIsTiled == TokensSpec => []TokensTile
<1>1. TokensInv => TokensTile
  BY DEF TokensInv
<1> QED BY <1>1, TokensInitial, TokensStep, PTL DEF TokensSpec

(* The list has one EOF token, at its end, and it is put there at the end  *)
(* of the text, after a reported error, or at a character that begins no   *)
(* token (dk_token_list_from_str).                                         *)
THEOREM EndsAreExplained == TokensSpec => []StopsAreExplained
<1>1. TokensInv => StopsAreExplained
  BY DEF TokensInv
<1> QED BY <1>1, TokensInitial, TokensStep, PTL DEF TokensSpec

LEMMA TokensInvAlways == TokensSpec => []TokensInv
BY TokensInitial, TokensStep, PTL DEF TokensSpec

-----------------------------------------------------------------------------
(* What one step does, whichever loop it belongs to.                       *)

LEMMA FinishAppends ==
    ASSUME NEW kind \in Kind, NEW from \in Loc, NEW to \in Loc, from.pos <= to.pos,
           Finish(kind, from, to)
    PROVE  \E t \in Token : tokens' = Append(tokens, t) /\ t.loc \in {from, to}
<1>1. CASE kind = "eof"
  <2> DEFINE t == [kind |-> "eof", loc |-> to, len |-> 0]
  <2>1. t \in Token /\ t.loc = to
    BY DEF Token, Kind
  <2>. QED BY <1>1, <2>1 DEF Finish
<1>2. CASE kind # "eof"
  <2> DEFINE t == [kind |-> kind, loc |-> from, len |-> to.pos - from.pos]
  <2>1. t \in Token /\ t.loc = from
    BY DEF Token, Loc
  <2>. QED BY <1>2, <2>1 DEF Finish
<1>. QED BY <1>1, <1>2

(* The position moves by one character at most, a token begins where the   *)
(* position was, and locations are recorded as they are.                   *)
LEMMA StepMoves ==
    ASSUME TokensInv, [TokensNext]_tokenVars
    PROVE  /\ src' = src /\ loc' \in {loc, After} /\ begin' \in {begin, loc}
           /\ tokens' = tokens \/ \E t \in Token : /\ tokens' = Append(tokens, t)
                                                   /\ t.loc \in {loc', begin'}
           /\ errs' = errs \/ errs' = Append(errs, loc')
<1>1. /\ TokensTypeOK /\ loc \in Loc /\ begin \in Loc /\ begin.pos <= loc.pos
      /\ After \in Loc /\ loc.pos <= After.pos /\ loc.pos \in Nat
  BY AfterIsLoc DEF TokensInv, TokensTypeOK, Loc
<1>2. CASE PunctToken
  <2>1. PunctKind(Peek(0)) \in Kind
    BY DEF PunctKind, Kind
  <2>2. /\ Finish(PunctKind(Peek(0)), loc, After) /\ loc' = After /\ begin' = loc /\ src' = src
        /\ errs' = errs \/ errs' = Append(errs, loc')
    BY <1>2 DEF PunctToken, Eat, Report
  <2>. QED BY <1>1, <2>1, <2>2, FinishAppends
<1>3. CASE NoToken
  <2>1. "eof" \in Kind /\ Finish("eof", loc, loc) /\ UNCHANGED <<src, loc, errs>> /\ begin' = loc
    BY <1>3 DEF NoToken, Kind
  <2>. QED BY <1>1, <2>1, FinishAppends
<1>4. CASE EndWord
  <2>1. UNCHANGED <<src, loc, begin, errs>>
    BY <1>4 DEF EndWord
  <2>2. CASE TextTo(loc.pos) \in CommentSpellings
    BY <1>4, <2>1, <2>2 DEF EndWord
  <2>3. CASE TextTo(loc.pos) \notin CommentSpellings
    <3>1. WordKind(TextTo(loc.pos)) \in Kind /\ Finish(WordKind(TextTo(loc.pos)), begin, loc)
      BY <1>4, <2>3 DEF EndWord, WordKind, Kind
    <3>. QED BY <1>1, <2>1, <3>1, FinishAppends
  <2>. QED BY <2>2, <2>3
<1>5. CASE EndComment
  <2>1. "comment" \in Kind /\ Finish("comment", begin, loc) /\ UNCHANGED <<src, loc, begin, errs>>
    BY <1>5 DEF EndComment, Kind
  <2>. QED BY <1>1, <2>1, FinishAppends
<1>6. CASE EndNumber
  <2>1. PICK kind \in Kind : Finish(kind, begin, loc)
    BY <1>6 DEF EndNumber, Kind
  <2>2. UNCHANGED <<src, loc, begin>> /\ (errs' = errs \/ errs' = Append(errs, loc'))
    BY <1>6 DEF EndNumber, Report
  <2>. QED BY <1>1, <2>1, <2>2, FinishAppends
<1>7. CASE EatSpace \/ BeginWord \/ EatWord \/ EatComment \/ BeginNumber \/ EatNumber
  BY <1>7 DEF EatSpace, BeginWord, EatWord, EatComment, BeginNumber, EatNumber, BeginRun, EatRun, Eat
<1>8. CASE UNCHANGED tokenVars
  BY <1>8 DEF tokenVars
<1>. QED BY <1>2, <1>3, <1>4, <1>5, <1>6, <1>7, <1>8 DEF TokensNext

-----------------------------------------------------------------------------
(* Rows and columns.                                                       *)

(* A set of numbers up to p that is not empty has a last one.              *)
LEMMA LastExists ==
    ASSUME NEW p \in Nat, NEW S \in SUBSET (1..p), S # {}
    PROVE  LastOf(S) \in S /\ \A j \in S : j <= LastOf(S)
<1> DEFINE T == {p - i : i \in S}
<1>1. T \subseteq Nat /\ T # {}
  <2>1. \A i \in S : p - i \in Nat
    OBVIOUS
  <2>. QED BY <2>1
<1> HIDE DEF T
<1>2. PICK x \in T : \A y \in T : ~(<<y, x>> \in OpToRel(<, Nat))
  BY <1>1, NatLessThanWellFounded, WFMin
<1>3. \A y \in T : x <= y
  <2> SUFFICES ASSUME NEW y \in T, y < x PROVE FALSE
    BY <1>1
  <2>1. <<y, x>> \in OpToRel(<, Nat)
    BY <1>1 DEF OpToRel
  <2>. QED BY <1>2, <2>1
<1>4. PICK i \in S : x = p - i
  BY DEF T
<1>5. \A j \in S : j <= i
  <2> SUFFICES ASSUME NEW j \in S PROVE j <= i
    OBVIOUS
  <2>1. p - j \in T
    BY DEF T
  <2>2. p - i <= p - j
    BY <1>3, <1>4, <2>1
  <2>. QED BY <2>2
<1>. QED BY <1>5 DEF LastOf

(* The newlines up to one more character.                                  *)
LEMMA OneMoreCharacter ==
    ASSUME NEW p \in Nat
    PROVE  /\ Newlines(p) \subseteq 1..p
           /\ IsFiniteSet(Newlines(p)) /\ Cardinality(Newlines(p)) \in Nat
           /\ src[p + 1] = "newline" =>
                 /\ Newlines(p + 1) = Newlines(p) \cup {p + 1}
                 /\ Cardinality(Newlines(p + 1)) = Cardinality(Newlines(p)) + 1
                 /\ ColumnAt(p + 1) = 0
           /\ src[p + 1] # "newline" =>
                 /\ Newlines(p + 1) = Newlines(p)
                 /\ ColumnAt(p + 1) = ColumnAt(p) + 1
           /\ ColumnAt(p) \in Nat
<1>1. Newlines(p) \subseteq 1..p /\ Newlines(p + 1) \subseteq 1..(p + 1) /\ p + 1 \in Nat
  BY DEF Newlines
<1>2. IsFiniteSet(Newlines(p)) /\ Cardinality(Newlines(p)) \in Nat
  <2>1. IsFiniteSet(1..p)
    BY FS_Interval
  <2>. QED BY <1>1, <2>1, FS_Subset, FS_CardinalityType
<1>3. Newlines(p) # {} => LastOf(Newlines(p)) \in 1..p
  BY <1>1, LastExists
<1>4. ColumnAt(p) \in Nat
  BY <1>3 DEF ColumnAt
<1>5. ASSUME src[p + 1] = "newline"
      PROVE  /\ Newlines(p + 1) = Newlines(p) \cup {p + 1}
             /\ Cardinality(Newlines(p + 1)) = Cardinality(Newlines(p)) + 1
             /\ ColumnAt(p + 1) = 0
  <2>1. Newlines(p + 1) = Newlines(p) \cup {p + 1}
    BY <1>5 DEF Newlines
  <2>2. p + 1 \notin Newlines(p)
    BY <1>1
  <2>3. Cardinality(Newlines(p + 1)) = Cardinality(Newlines(p)) + 1
    BY <1>2, <2>1, <2>2, FS_AddElement
  <2>4. /\ LastOf(Newlines(p + 1)) \in Newlines(p + 1) /\ Newlines(p + 1) # {}
        /\ \A j \in Newlines(p + 1) : j <= LastOf(Newlines(p + 1))
    BY <1>1, <2>1, LastExists
  <2>5. LastOf(Newlines(p + 1)) = p + 1
    BY <1>1, <2>1, <2>4
  <2>. QED BY <2>1, <2>3, <2>4, <2>5 DEF ColumnAt
<1>6. ASSUME src[p + 1] # "newline"
      PROVE  Newlines(p + 1) = Newlines(p) /\ ColumnAt(p + 1) = ColumnAt(p) + 1
  <2>1. Newlines(p + 1) = Newlines(p)
    BY <1>6 DEF Newlines
  <2>. QED BY <1>3, <2>1 DEF ColumnAt
<1>. QED BY <1>1, <1>2, <1>4, <1>5, <1>6

(* dk_tokenizer_eat counts.                                                *)
LEMMA EatCounts ==
    ASSUME TokensTypeOK, Counted(loc)
    PROVE  Counted(After)
<1>1. loc.pos \in Nat /\ loc.row \in Nat /\ loc.col \in Nat /\ Len(src) \in Nat /\ EndSlack \in Nat
  BY TextIsSeq, CharAssumption DEF TokensTypeOK, Loc, CharAssumption
<1>2. CASE loc.pos >= Len(src) + EndSlack
  BY <1>2 DEF After
<1>3. CASE loc.pos >= Len(src) /\ loc.pos < Len(src) + EndSlack
  <2>1. After.pos > Len(src)
    BY <1>1, <1>3 DEF After
  <2>. QED BY <1>1, <1>3, <2>1 DEF Counted, After
<1>4. CASE loc.pos < Len(src)
  <2>1. Peek(0) = src[loc.pos + 1]
    BY <1>1, <1>4 DEF Peek
  <2>2. /\ After.pos = loc.pos + 1
        /\ After.row = loc.row + (IF src[loc.pos + 1] = "newline" THEN 1 ELSE 0)
        /\ After.col = IF src[loc.pos + 1] = "newline" THEN 0 ELSE loc.col + 1
    BY <1>1, <1>4, <2>1 DEF After
  <2>3. loc.row = Cardinality(Newlines(loc.pos)) /\ loc.col = ColumnAt(loc.pos)
    BY <1>1, <1>4 DEF Counted
  <2>4. /\ After.row = Cardinality(Newlines(loc.pos + 1))
        /\ After.col = ColumnAt(loc.pos + 1)
    <3> DEFINE p == loc.pos
    <3>1. p \in Nat /\ loc.row = Cardinality(Newlines(p)) /\ loc.col = ColumnAt(p)
      BY <1>1, <2>3
    <3>2. CASE src[p + 1] = "newline"
      <4>1. After.row = loc.row + 1 /\ After.col = 0
        BY <2>2, <3>2
      <4>. QED BY <3>1, <3>2, <4>1, OneMoreCharacter
    <3>3. CASE src[p + 1] # "newline"
      <4>1. After.row = loc.row /\ After.col = loc.col + 1
        BY <1>1, <2>2, <3>3
      <4>. QED BY <3>1, <3>3, <4>1, OneMoreCharacter
    <3>. QED BY <3>2, <3>3
  <2>. QED BY <2>2, <2>4 DEF Counted
<1>. QED BY <1>1, <1>2, <1>3, <1>4

LEMMA SameCount ==
    ASSUME src' = src, NEW l
    PROVE  Counted(l)' <=> Counted(l)
<1>1. \A p : Newlines(p)' = Newlines(p)
  BY DEF Newlines
<1>2. \A p : ColumnAt(p)' = ColumnAt(p)
  BY <1>1 DEF ColumnAt
<1>. QED BY <1>1, <1>2 DEF Counted

LEMMA CountedStep ==
    TokensInv /\ TokensInv' /\ LocationsCounted /\ Counted(begin) /\ [TokensNext]_tokenVars
        => LocationsCounted' /\ Counted(begin)'
<1> SUFFICES ASSUME TokensInv, TokensInv', LocationsCounted, Counted(begin), [TokensNext]_tokenVars
             PROVE  LocationsCounted' /\ Counted(begin)'
  OBVIOUS
<1>1. /\ src' = src /\ loc' \in {loc, After} /\ begin' \in {begin, loc}
      /\ tokens' = tokens \/ \E t \in Token : /\ tokens' = Append(tokens, t)
                                              /\ t.loc \in {loc', begin'}
      /\ errs' = errs \/ errs' = Append(errs, loc')
  BY StepMoves
<1>2. /\ Counted(loc) /\ Counted(After)
      /\ \A i \in DOMAIN tokens : Counted(tokens[i].loc)
      /\ \A i \in DOMAIN errs : Counted(errs[i])
  BY EatCounts DEF LocationsCounted, TokensInv
<1>3. tokens \in Seq(Token) /\ errs \in Seq(Loc) /\ loc' \in Loc
  BY DEF TokensInv, TokensTypeOK
<1> DEFINE l == loc'
           b == begin'
<1>4. Counted(l) /\ Counted(b)
  BY <1>1, <1>2
<1>5. ASSUME NEW i \in DOMAIN tokens'
      PROVE  Counted(tokens'[i].loc)
  <2>1. CASE tokens' = tokens
    BY <1>2, <1>5, <2>1
  <2>2. ASSUME NEW t \in Token, tokens' = Append(tokens, t), t.loc \in {loc', begin'}
        PROVE  Counted(tokens'[i].loc)
    <3>1. (i \in DOMAIN tokens /\ tokens'[i] = tokens[i]) \/ tokens'[i] = t
      BY <1>3, <1>5, <2>2
    <3>. QED BY <1>2, <1>4, <2>2, <3>1
  <2>. QED BY <1>1, <2>1, <2>2
<1>6. ASSUME NEW i \in DOMAIN errs'
      PROVE  Counted(errs'[i])
  <2>1. (i \in DOMAIN errs /\ errs'[i] = errs[i]) \/ errs'[i] = loc'
    BY <1>1, <1>3, <1>6
  <2>. QED BY <1>2, <1>4, <2>1
<1>7. \A x : Counted(x) => Counted(x)'
  BY <1>1, SameCount
<1> HIDE DEF l, b
<1>. QED BY <1>4, <1>5, <1>6, <1>7 DEF LocationsCounted, l, b

(* Every location is the one of its position: rows count the newlines      *)
(* before it and columns the characters since the last one, though rows    *)
(* and columns are counted along while six loops eat characters            *)
(* (dk_tokenizer_eat, dk_print_err).                                       *)
THEOREM LocationsAreCounted == TokensSpec => []LocationsCounted
<1>1. TokensInit => LocationsCounted /\ Counted(begin)
  <2> SUFFICES ASSUME TokensInit PROVE LocationsCounted /\ Counted(begin)
    OBVIOUS
  <2>1. /\ loc = [pos |-> 0, row |-> 0, col |-> 1] /\ begin = loc /\ tokens = <<>> /\ errs = <<>>
    BY DEF TokensInit
  <2>2. Newlines(0) = {} /\ Cardinality(Newlines(0)) = 0 /\ ColumnAt(0) = 1
    <3>1. Newlines(0) = {}
      BY DEF Newlines
    <3>. QED BY <3>1, FS_EmptySet DEF ColumnAt
  <2>3. Counted(loc)
    BY <2>1, <2>2 DEF Counted
  <2>. QED BY <2>1, <2>3 DEF LocationsCounted
<1>2. TokensInv /\ TokensInv' /\ LocationsCounted /\ Counted(begin) /\ [TokensNext]_tokenVars
        => LocationsCounted' /\ Counted(begin)'
  BY CountedStep
<1>. QED BY <1>1, <1>2, TokensInvAlways, PTL DEF TokensSpec

-----------------------------------------------------------------------------
(* Tokens are as long as they can be.                                      *)

(* What has been read of the token at hand: it began as its loop says, and *)
(* every character since belongs to it.                                    *)
RunRead ==
    /\ pc = "word" => /\ At(begin.pos) \in WordStart
                      /\ \A p \in begin.pos..loc.pos-1 : At(p) \in WordChar
    /\ pc = "number" =>
         /\ At(begin.pos) \in Digit
         /\ \A p \in begin.pos..loc.pos-1 : At(p) \in Digit \/ (At(p) = "," /\ At(p + 1) \in Digit)
    /\ pc = "comment" =>
         /\ \A p \in begin.pos..loc.pos-1 : At(p) # "newline"
         /\ \E end \in begin.pos+1..loc.pos :
               IsWordRun(begin.pos, end) /\ SubSeq(src, begin.pos + 1, end) \in CommentSpellings

LEMMA PeekIsAt ==
    ASSUME TokensTypeOK
    PROVE  Peek(0) = At(loc.pos) /\ Peek(1) = At(loc.pos + 1)
BY DEF Peek, At, TokensTypeOK, Loc

LEMMA SameText ==
    ASSUME src' = src
    PROVE  /\ \A p : At(p)' = At(p)
           /\ \A from, to : IsWordRun(from, to)' <=> IsWordRun(from, to)
           /\ \A from, to : IsNumberRun(from, to)' <=> IsNumberRun(from, to)
           /\ \A from, to : IsComment(from, to)' <=> IsComment(from, to)
           /\ \A t : IsMaximal(t)' <=> IsMaximal(t)
<1>1. \A p : At(p)' = At(p)
  BY DEF At
<1>2. \A from, to : IsWordRun(from, to)' <=> IsWordRun(from, to)
  BY <1>1 DEF IsWordRun
<1>3. \A from, to : IsNumberRun(from, to)' <=> IsNumberRun(from, to)
  BY <1>1 DEF IsNumberRun
<1>4. \A from, to : IsComment(from, to)' <=> IsComment(from, to)
  BY <1>1, <1>2 DEF IsComment
<1>5. \A t : IsMaximal(t)' <=> IsMaximal(t)
  BY <1>1, <1>2, <1>3, <1>4 DEF IsMaximal
<1>. QED BY <1>1, <1>2, <1>3, <1>4, <1>5

LEMMA NoNewlineInWord == "newline" \notin WordChar /\ "newline" \notin Digit /\ "nul" # "newline"
BY CharAssumption DEF CharAssumption, WordChar, WordStart, Punct, Whitespace

(* One more character of the run.                                          *)
LEMMA RunReadKept ==
    ASSUME TokensInv, RunRead, UNCHANGED <<src, pc, begin>>, loc' = After,
           pc = "word" => Peek(0) \in WordChar,
           pc = "number" => InNumber,
           pc = "comment" => Peek(0) # "newline"
    PROVE  RunRead'
<1>1. /\ begin.pos \in Nat /\ loc.pos \in Nat /\ begin.pos <= loc.pos /\ TokensTypeOK
      /\ Len(src) \in Nat /\ EndSlack \in Nat
  BY TextIsSeq, CharAssumption DEF TokensInv, TokensTypeOK, Loc, CharAssumption
<1>2. Peek(0) = At(loc.pos) /\ Peek(1) = At(loc.pos + 1)
  BY <1>1, PeekIsAt
<1>3. loc'.pos \in {loc.pos, loc.pos + 1}
  BY DEF After
<1>4. \A p \in begin.pos..loc'.pos-1 : p \in begin.pos..loc.pos-1 \/ p = loc.pos
  BY <1>1, <1>3
<1>5. \A end \in begin.pos+1..loc.pos : end \in begin.pos+1..loc'.pos
  BY <1>1, <1>3
<1>6. /\ \A p : At(p)' = At(p)
      /\ \A from, to : IsWordRun(from, to)' <=> IsWordRun(from, to)
  BY SameText
<1>7. CASE pc = "word"
  BY <1>1, <1>2, <1>3, <1>4, <1>6, <1>7 DEF RunRead
<1>8. CASE pc = "number"
  BY <1>1, <1>2, <1>3, <1>4, <1>6, <1>8 DEF RunRead, InNumber
<1>9. CASE pc = "comment"
  <2>1. PICK end \in begin.pos+1..loc.pos :
           IsWordRun(begin.pos, end) /\ SubSeq(src, begin.pos + 1, end) \in CommentSpellings
    BY <1>9 DEF RunRead
  <2>2. /\ end \in begin'.pos+1..loc'.pos
        /\ SubSeq(src', begin'.pos + 1, end) \in CommentSpellings
    BY <1>5, <2>1
  <2>3. \A p \in begin.pos..loc'.pos-1 : At(p) # "newline"
    BY <1>2, <1>4, <1>9 DEF RunRead
  <2>. QED BY <1>6, <1>9, <2>1, <2>2, <2>3 DEF RunRead
<1>10. CASE pc \notin {"word", "number", "comment"}
  BY <1>10 DEF RunRead
<1>. QED BY <1>7, <1>8, <1>9, <1>10

(* A token that is maximal when it is put into the list stays so.          *)
LEMMA MaximalAppended ==
    ASSUME TokensTypeOK, TokensAreMaximal, src' = src, NEW t \in Token, IsMaximal(t),
           tokens' = Append(tokens, t)
    PROVE  TokensAreMaximal'
<1>1. tokens \in Seq(Token)
  BY DEF TokensTypeOK
<1>2. \A i \in DOMAIN tokens' : (i \in DOMAIN tokens /\ tokens'[i] = tokens[i]) \/ tokens'[i] = t
  BY <1>1
<1>3. \A x : IsMaximal(x)' <=> IsMaximal(x)
  BY SameText
<1>. QED BY <1>2, <1>3 DEF TokensAreMaximal

LEMMA MaximalFinished ==
    ASSUME TokensTypeOK, TokensAreMaximal, UNCHANGED src, NEW kind \in Kind,
           NEW from \in Loc, NEW to \in Loc, from.pos <= to.pos, Finish(kind, from, to),
           kind \in {"word", "bool"} => IsWordRun(from.pos, to.pos),
           kind = "int"     => IsWordRun(from.pos, to.pos) \/ IsNumberRun(from.pos, to.pos),
           kind = "float"   => IsNumberRun(from.pos, to.pos),
           kind = "comment" => IsComment(from.pos, to.pos),
           kind \in {"dot", "comma", "paren_open", "paren_close"}
             => to.pos = from.pos + 1 /\ At(from.pos) \in Punct
    PROVE  TokensAreMaximal' /\ RunRead'
<1>1. pc' \in {"done", "space"}
  BY DEF Finish
<1>2. RunRead'
  BY <1>1 DEF RunRead
<1>3. CASE kind = "eof"
  <2> DEFINE t == [kind |-> "eof", loc |-> to, len |-> 0]
  <2>1. t \in Token /\ IsMaximal(t)
    BY DEF Token, Kind, IsMaximal
  <2>. QED BY <1>2, <1>3, <2>1, MaximalAppended DEF Finish
<1>4. CASE kind # "eof"
  <2> DEFINE t == [kind |-> kind, loc |-> from, len |-> to.pos - from.pos]
  <2>1. t \in Token /\ t.loc = from /\ t.kind = kind /\ t.len = to.pos - from.pos
        /\ from.pos \in Nat /\ to.pos \in Nat
    BY DEF Token, Loc
  <2>2. tokens' = Append(tokens, t)
    BY <1>4 DEF Finish
  <2> HIDE DEF t
  <2>3. End(t) = to.pos
    BY <2>1 DEF End
  <2>4. kind \in {"dot", "comma", "paren_open", "paren_close"}
          \/ kind \in {"word", "bool", "int", "float", "comment"}
    BY <1>4 DEF Kind
  <2>5. IsMaximal(t)
    BY <1>4, <2>1, <2>3, <2>4 DEF IsMaximal
  <2>. QED BY <1>2, <2>1, <2>2, <2>5, MaximalAppended
<1>. QED BY <1>3, <1>4

LEMMA MaximalStep ==
    TokensInv /\ TokensAreMaximal /\ RunRead /\ [TokensNext]_tokenVars => TokensAreMaximal' /\ RunRead'
<1> SUFFICES ASSUME TokensInv, TokensAreMaximal, RunRead, [TokensNext]_tokenVars
             PROVE  TokensAreMaximal' /\ RunRead'
  OBVIOUS
<1>1. /\ TokensTypeOK /\ loc \in Loc /\ begin \in Loc /\ begin.pos <= loc.pos
      /\ loc.pos \in Nat /\ begin.pos \in Nat
  BY DEF TokensInv, TokensTypeOK, Loc
<1>2. Peek(0) = At(loc.pos) /\ Peek(1) = At(loc.pos + 1)
  BY <1>1, PeekIsAt
<1>3. src' = src
  BY StepMoves
<1>4. tokens' = tokens => TokensAreMaximal'
  BY <1>3, SameText DEF TokensAreMaximal
<1>5. CASE EatSpace
  BY <1>4, <1>5 DEF EatSpace, RunRead
<1>6. CASE BeginWord \/ BeginNumber
  <2>1. /\ tokens' = tokens /\ begin' = loc /\ loc' = loc
        /\ \/ pc' = "word" /\ At(loc.pos) \in WordStart
           \/ pc' = "number" /\ At(loc.pos) \in Digit
    BY <1>2, <1>6 DEF BeginWord, BeginNumber, BeginRun
  <2>2. begin'.pos..loc'.pos-1 = {}
    BY <1>1, <2>1
  <2>3. \A p : At(p)' = At(p)
    BY <1>3, SameText
  <2>. QED BY <1>4, <2>1, <2>2, <2>3 DEF RunRead
<1>7. CASE EatWord
  BY <1>4, <1>7, RunReadKept DEF EatWord, EatRun, Eat
<1>8. CASE EatNumber
  BY <1>4, <1>8, RunReadKept DEF EatNumber, EatRun, Eat
<1>9. CASE EatComment
  BY <1>4, <1>9, RunReadKept DEF EatComment, EatRun, Eat
<1>10. CASE PunctToken
  <2> DEFINE kind == PunctKind(Peek(0))
  <2>1. /\ Peek(0) \in Punct /\ Finish(kind, loc, After)
    BY <1>10 DEF PunctToken
  <2>2. After \in Loc /\ After.pos = loc.pos + 1
    BY <1>1, <2>1, PeekedInText, NotNul, EatenInText
  <2>3. kind \in {"dot", "comma", "paren_open", "paren_close", "eof"} /\ kind \in Kind
    BY DEF PunctKind, Kind
  <2> HIDE DEF kind
  <2>. QED BY <1>1, <1>2, <1>3, <2>1, <2>2, <2>3, MaximalFinished
<1>11. CASE NoToken
  <2>1. "eof" \in Kind /\ Finish("eof", loc, loc)
    BY <1>11 DEF NoToken, Kind
  <2>. QED BY <1>1, <1>3, <2>1, MaximalFinished
<1>12. CASE EndWord
  <2>1. /\ pc = "word" /\ At(loc.pos) \notin WordChar /\ UNCHANGED <<loc, begin>>
    BY <1>2, <1>12 DEF EndWord
  <2>2. IsWordRun(begin.pos, loc.pos)
    BY <2>1 DEF RunRead, IsWordRun
  <2>3. CASE TextTo(loc.pos) \in CommentSpellings
    <3>1. pc' = "comment" /\ tokens' = tokens
      BY <1>12, <2>3 DEF EndWord
    <3>2. begin.pos < loc.pos
      BY <1>1, <1>2, <2>1 DEF TokensInv, RunStarted
    <3>3. \A p \in begin.pos..loc.pos-1 : At(p) # "newline"
      BY <2>1, NoNewlineInWord DEF RunRead
    <3>4. /\ \A p : At(p)' = At(p)
          /\ \A from, to : IsWordRun(from, to)' <=> IsWordRun(from, to)
      BY <1>3, SameText
    <3>5. /\ SubSeq(src', begin'.pos + 1, loc.pos) \in CommentSpellings
          /\ loc.pos \in begin'.pos+1..loc'.pos
      BY <1>1, <1>3, <2>1, <2>3, <3>2 DEF TextTo
    <3>. QED BY <1>4, <2>1, <2>2, <3>1, <3>3, <3>4, <3>5 DEF RunRead
  <2>4. CASE TextTo(loc.pos) \notin CommentSpellings
    <3> DEFINE kind == WordKind(TextTo(loc.pos))
    <3>1. kind \in {"word", "bool", "int"} /\ kind \in Kind /\ Finish(kind, begin, loc)
      BY <1>12, <2>4 DEF EndWord, WordKind, Kind
    <3> HIDE DEF kind
    <3>. QED BY <1>1, <1>3, <2>2, <3>1, MaximalFinished
  <2>. QED BY <2>3, <2>4
<1>13. CASE EndComment
  <2>1. pc = "comment" /\ At(loc.pos) = "newline" /\ Finish("comment", begin, loc) /\ "comment" \in Kind
    BY <1>2, <1>13 DEF EndComment, Kind
  <2>2. IsComment(begin.pos, loc.pos)
    BY <2>1 DEF RunRead, IsComment
  <2>. QED BY <1>1, <1>3, <2>1, <2>2, MaximalFinished
<1>14. CASE EndNumber
  <2>1. PICK kind \in {"int", "float", "eof"} : Finish(kind, begin, loc) /\ kind \in Kind
    BY <1>14 DEF EndNumber, Kind
  <2>2. /\ pc = "number" /\ At(loc.pos) \notin Digit
        /\ ~(At(loc.pos) = "," /\ At(loc.pos + 1) \in Digit)
    BY <1>2, <1>14 DEF EndNumber, InNumber
  <2>3. begin.pos < loc.pos
    BY <1>1, <1>2, <2>2 DEF TokensInv, RunStarted
  <2>4. At(loc.pos - 1) \in Digit
    <3>1. loc.pos - 1 \in begin.pos..loc.pos-1 /\ loc.pos - 1 + 1 = loc.pos
      BY <1>1, <2>3
    <3>. QED BY <2>2, <3>1 DEF RunRead
  <2>5. IsNumberRun(begin.pos, loc.pos)
    BY <2>2, <2>4 DEF RunRead, IsNumberRun
  <2>. QED BY <1>1, <1>3, <2>1, <2>5, MaximalFinished
<1>15. CASE UNCHANGED tokenVars
  <2>1. UNCHANGED <<src, loc, pc, begin, tokens>>
    BY <1>15 DEF tokenVars
  <2>. QED BY <1>4, <2>1, SameText DEF RunRead
<1>. QED BY <1>5, <1>6, <1>7, <1>8, <1>9, <1>10, <1>11, <1>12, <1>13, <1>14, <1>15 DEF TokensNext

(* No token is cut short and none takes a character too many: words run    *)
(* over digits, hyphens and letters outside ASCII, a comment up to its     *)
(* newline, and a number over a comma only between digits (dk_next_token). *)
THEOREM TokensMaximal == TokensSpec => []TokensAreMaximal
<1>1. TokensInit => TokensAreMaximal /\ RunRead
  BY DEF TokensInit, TokensAreMaximal, RunRead
<1>. QED BY <1>1, MaximalStep, TokensInitial, TokensStep, PTL DEF TokensSpec
=============================================================================
