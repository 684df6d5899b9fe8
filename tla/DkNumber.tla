------------------------------ MODULE DkNumber ------------------------------
(***************************************************************************)
(* dk_number_from_str: the value of a number spelled out in Danish.  Texts *)
(* are TLA+ strings, so that the greedy choice of a prefix is the code's.  *)
(* The state is the function's locals at the head of its loop; the inner   *)
(* loop that drops "-" and "og" is an action of its own.                   *)
(***************************************************************************)
EXTENDS Integers, Sequences, SequencesExt

CONSTANT Texts  \* the texts that are tried

(* The tables, in their order.  Milliarder and milliard are left out: the  *)
(* model checker's integers end at 2^31 - 1.                               *)
Digits == << <<"nul", 0>>, <<"en", 1>>, <<"et", 1>>, <<"to", 2>>, <<"tre", 3>>, <<"fire", 4>>, <<"fem", 5>>,
             <<"seks", 6>>, <<"syv", 7>>, <<"otte", 8>>, <<"ni", 9>> >>
Tens   == << <<"ti", 10>>, <<"elleve", 11>>, <<"tolv", 12>>, <<"tretten", 13>>, <<"fjorten", 14>>, <<"femten", 15>>,
             <<"seksten", 16>>, <<"sytten", 17>>, <<"atten", 18>>, <<"nitten", 19>>, <<"tyve", 20>>, <<"tredive", 30>>,
             <<"fyrre", 40>>, <<"halvtreds", 50>>, <<"tres", 60>>, <<"halvfjers", 70>>, <<"firs", 80>>, <<"halvfems", 90>> >>
Mults  == << <<"hundrede", 100>>, <<"hundred", 100>>, <<"tusinde", 1000>>, <<"tusind", 1000>>,
             <<"millioner", 1000000>>, <<"million", 1000000>> >>

VARIABLES text, s, a, b, c, last_mult, word_count, returned
vars == <<text, s, a, b, c, last_mult, word_count, returned>>

StartsWith(t, p) == Len(p) <= Len(t) /\ SubSeq(t, 1, Len(p)) = p
ChopLeft(t, p)   == SubSeq(t, Len(p) + 1, Len(t))

(* dk_chop_num_spelling: the index of the first entry of the table that    *)
(* the text starts with, 0 when there is none.                             *)
Chop(t, table) == SelectInSeq(table, LAMBDA e : StartsWith(t, e[1]))

NumberInit ==
    /\ text \in Texts /\ s = text
    /\ a = 0 /\ b = 0 /\ c = 0
    /\ last_mult = 0 /\ word_count = 0
    /\ returned = FALSE

Glued == \E g \in {"-", "og"} : StartsWith(s, g)

SkipGlue ==
    /\ ~returned
    /\ \E g \in {"-", "og"} : StartsWith(s, g) /\ s' = ChopLeft(s, g)
    /\ UNCHANGED <<text, a, b, c, last_mult, word_count, returned>>

(* Not the code: digits are tried before tens.                             *)
DigitsFirst == IF Chop(s, Digits) > 0 THEN 2 ELSE SelectInSeq(<<Tens, <<>>, Mults>>, LAMBDA table : Chop(s, table) > 0)

(* The table the next word is in: tens, then digits, then multipliers.     *)
NextTable == SelectInSeq(<<Tens, Digits, Mults>>, LAMBDA table : Chop(s, table) > 0)

Word(table) == table[Chop(s, table)]

Addend ==
    /\ ~returned /\ ~Glued
    /\ NextTable \in {1, 2}
    /\ LET word == Word(<<Tens, Digits>>[NextTable]) IN
         /\ a' = a + word[2]
         /\ s' = ChopLeft(s, word[1])
    /\ word_count' = word_count + 1
    /\ UNCHANGED <<text, b, c, last_mult, returned>>

(* A multiplier that is no larger than the one before it closes a group.   *)
Closes(mult) == last_mult >= mult

Multiplier ==
    /\ ~returned /\ ~Glued
    /\ NextTable = 3
    /\ LET word == Word(Mults)
           open == IF Closes(word[2]) THEN 0 ELSE b
           count == IF open = 0 /\ a = 0 THEN 1 ELSE open + a
       IN  /\ c' = IF Closes(word[2]) THEN c + b ELSE c
           /\ b' = count * word[2]
           /\ s' = ChopLeft(s, word[1])
           /\ last_mult' = word[2]
    /\ a' = 0
    /\ word_count' = word_count + 1
    /\ UNCHANGED <<text, returned>>

(* Not the code: what is left of the text is not looked at.                *)
RefusedIfEmpty == word_count = 0

Refused == s # "" \/ word_count = 0

Return ==
    /\ ~returned /\ ~Glued /\ NextTable = 0
    /\ c' = IF Refused THEN -1 ELSE c + a + b
    /\ returned' = TRUE
    /\ UNCHANGED <<text, s, a, b, last_mult, word_count>>

NumberNext == SkipGlue \/ Addend \/ Multiplier \/ Return
NumberSpec == NumberInit /\ [][NumberNext]_vars

=============================================================================
