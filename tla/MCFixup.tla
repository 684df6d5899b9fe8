------------------------------ MODULE MCFixup -------------------------------
(***************************************************************************)
(* Clause lists for the den/det rewriting: a statement of up to four       *)
(* clauses of one or two parts, and a list in parentheses inside any of    *)
(* them, with den or det wherever it may be.                               *)
(***************************************************************************)
EXTENDS DkFixupProps

Plain(kind) == [kind |-> kind]
ListOf(first, last) == [kind |-> "list", flag |-> FALSE, first |-> first, last |-> last]

(* Clauses 1..top are the statement's, top+1..n the ones in parentheses.   *)
Chain(top, n) == [c \in 1..n |-> IF c \in {top, n} THEN Null ELSE c + 1]

PartSeqs == {<<Plain("word")>>, <<Plain("den_det")>>, <<Plain("word"), Plain("den_det")>>,
             <<Plain("den_det"), Plain("literal")>>}

Flat(n) == {[next |-> Chain(n, n), parts |-> b, list |-> [first |-> 1, last |-> n]] : b \in [1..n -> PartSeqs]}

(* The parenthesis comes before or after the other parts of its clause.    *)
Parenthesised(top, n) ==
    {[next |-> Chain(top, n), list |-> [first |-> 1, last |-> top],
      parts |-> [b EXCEPT ![c] = IF before THEN <<ListOf(top + 1, n)>> \o @ ELSE @ \o <<ListOf(top + 1, n)>>]]
        : b \in [1..n -> PartSeqs], c \in 1..top, before \in BOOLEAN}

(* A parenthesis in a parenthesis, with den and det on every level.        *)
Nested ==
    {[next |-> <<2, 3, Null, 5, Null, 7, Null>>, list |-> [first |-> 1, last |-> 3],
      parts |-> << <<Plain("word")>>, <<d, ListOf(4, 5)>>, <<Plain("den_det")>>,
                   <<Plain("word")>>, <<ListOf(6, 7), d>>, <<Plain("word")>>, <<d>> >>]
        : d \in {Plain("word"), Plain("den_det")}}

(* At most one den or det in a clause.                                     *)
OneDetTexts == UNION {Flat(n) : n \in 1..4} \cup UNION {Parenthesised(top, top + 2) : top \in 1..2} \cup Nested

(* "Print 1, og gang det med det": det twice in one clause.                *)
TwoDets == {[next |-> <<2, Null>>, list |-> [first |-> 1, last |-> 2],
             parts |-> << <<Plain("word"), Plain("literal")>>,
                          <<Plain("word"), Plain("den_det"), Plain("word"), Plain("den_det")>> >>]}
=============================================================================
