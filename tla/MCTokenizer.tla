----------------------------- MODULE MCTokenizer -----------------------------
(***************************************************************************)
(* Texts for the tokenizer: all short ones over one or two characters of   *)
(* each class, and longer ones with the cases that need more room.         *)
(***************************************************************************)
EXTENDS DkTokenizerProps, SequencesExt

Blanks   == {" "}
Letters  == {"x", "s", "n", "b"}
Digits   == {"1"}
High     == {"æ"}
Signs    == {"+"}
Controls == {"nul"}

(* One-letter words stand for the spellings: sand, syv, bemærk.            *)
Bools    == {<<"s">>}
Numbers  == {<<"n">>, <<"n", "-", "n">>}
Comments == {<<"b">>}

Alphabet == Blanks \cup (Letters \ {"s"}) \cup Digits \cup High \cup Signs \cup Controls
              \cup {"newline", "_", "-", ",", "."}
Upto(n, chars) == UNION {[1..k -> chars] : k \in 0..n}

Long == { <<"1", ",", "1", ",", "1", " ", "x">>,
          <<"1", "1", ",", "1", "1", "1", "x">>,
          <<"(", "n", "-", "n", ")", ".", "newline", "1", ",", "1", ",", "x", ".">>,
          <<"b", "+", " ", "x", "newline", "newline", " ", "s", ",", "b", "newline", "x", "æ", "1">>,
          <<"x", "newline", "b", "b", " ", "b", "newline", "+", "x">>,
          <<"b", "x", " ", "x", "_", "-", "1", "newline", "_", "s", "newline", "æ", "x">> }

(* Texts in which every comment ends: the others never do, see below.      *)
Texts == Upto(3, Alphabet \ {"b"}) \cup Upto(4, {"x", "1", ",", "newline"})
         \cup {Append(s, "newline") : s \in Upto(3, Alphabet)} \cup Long

(* A program that ends with a comment, as trimmed by the test runner.      *)
LastComment == {<<"x", ".", "newline", "b", " ", "x">>}
=============================================================================
