------------------------------- MODULE MCParse -------------------------------
(***************************************************************************)
(* Programs, and the texts that are one token away from a program: one     *)
(* token left out, put in, or exchanged, or the text broken off.           *)
(***************************************************************************)
EXTENDS DkParseProps

Word(w) == [kind |-> "word", text |-> w]
Lit(w)  == [kind |-> "literal", text |-> w]
Comment == [kind |-> "comment", text |-> "bemaerk"]
Dot == [kind |-> "dot", text |-> "."]
Comma == [kind |-> "comma", text |-> ","]
Open == [kind |-> "paren_open", text |-> "("]
Close == [kind |-> "paren_close", text |-> ")"]
Eof == [kind |-> "eof", text |-> ""]

Func(pattern, body) ==
    <<Word("offentlig"), Word("funktion")>> \o pattern \o <<Word("tilbagegiver"), Word("heltal"), Dot,
      Word("goddag"), Dot>> \o body \o <<Word("farvel"), Dot>>

Block1(stmt) == <<Word("goddag"), Dot>> \o stmt \o <<Word("farvel"), Dot>>
Param(a) == <<Open, Word(a), Word("som"), Word("heltal"), Close>>
Say == <<Word("print"), Lit("1"), Dot>>

(* "Lad A vaere et heltal.", nested parentheses, "og" after a comma.       *)
Sentences ==
    << <<Word("lad"), Word("a"), Word("vaere"), Lit("et"), Word("heltal"), Dot>>,
       <<Word("gang"), Open, Word("f"), Lit("1"), Close, Word("med"), Open, Open, Word("a"), Close, Close, Comma,
         Word("og"), Word("print"), Word("det"), Dot>>,
       <<Word("hvis"), Word("sand"), Comma, Word("a"), Dot>> \o Block1(Say)
         \o <<Word("ellers"), Dot>> \o Block1(<<Word("tilbagegiv"), Word("a"), Dot>>),
       <<Word("imens"), Word("sand"), Dot>> \o Block1(<<Comment>>) >>

Mains == {Func(<<Word("main")>>, Sentences[s]) : s \in 1..4}
Two   == Func(<<Word("f")>> \o Param("a") \o <<Word("paa")>>, Say) \o <<Comment, Comment>> \o Func(<<Word("g")>>, <<>>)

Ended(t) == Append(t, Eof)
AllPrograms == {Ended(m) : m \in Mains} \cup {Ended(<<Comment>> \o Two), <<Eof>>}

Strays == {Dot, Comma, Open, Close, Word("farvel"), Word("ellers"), Word("x"), Word("tilbagegiver")}
Pairs2 == {<<Open, Close>>}

Before(t, i) == SubSeq(t, 1, i - 1)
Near(t) ==
    {Ended(Before(t, i)) : i \in 1..Len(t)}                                           \* broken off
    \cup {Ended(Before(t, i) \o SubSeq(t, i + 1, Len(t))) : i \in 1..Len(t)}          \* left out
    \cup {Ended(Before(t, i) \o <<s>> \o SubSeq(t, i, Len(t))) : i \in 1..Len(t), s \in Strays}
    \cup {Ended([t EXCEPT ![i] = s]) : i \in 1..Len(t), s \in Strays}
    \cup {Ended(Before(t, i) \o s \o SubSeq(t, i, Len(t))) : i \in 1..Len(t), s \in Pairs2}

AllTexts == AllPrograms \cup UNION {Near(m) : m \in Mains \cup {Two}}
=============================================================================
