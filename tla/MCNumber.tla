------------------------------ MODULE MCNumber ------------------------------
(***************************************************************************)
(* Texts for dk_number_from_str: numbers spelled as it can read them, with *)
(* and without hyphens, two kinds of spellings that it misreads, and texts *)
(* that spell no number.                                                   *)
(***************************************************************************)
EXTENDS DkNumber, FiniteSets

Names == [n \in 0 .. 19 |->
            IF n < 10 THEN <<"nul", "et", "to", "tre", "fire", "fem", "seks", "syv", "otte", "ni">>[n + 1]
            ELSE <<"ti", "elleve", "tolv", "tretten", "fjorten", "femten", "seksten", "sytten", "atten", "nitten">>[n - 9]]
Decades == <<"", "tyve", "tredive", "fyrre", "halvtreds", "tres", "halvfjers", "firs", "halvfems">>

(* Spelled parts are pairs <<text, value>>; the smallest rule joins parts  *)
(* with a hyphen or with nothing.                                          *)
Small(n) ==
    IF n < 20 THEN {Names[n]} ELSE
    IF n % 10 = 0 THEN {Decades[n \div 10]} ELSE
    {Names[n % 10] \o og \o Decades[n \div 10] : og \in {"og", "-og-"}} \cup
    (IF n % 10 = 1 THEN {"enog" \o Decades[n \div 10]} ELSE {})

SmallParts(N) == UNION {{<<t, n>> : t \in Small(n)} : n \in N}

(* "ethundrede", "hundrede", "trehundrede": a count and its multiplier.    *)
Counted(Counts, words, value) ==
    {<<p[1] \o w, p[2] * value>> : p \in Counts, w \in words} \cup
    {<<p[1] \o "-" \o w, p[2] * value>> : p \in Counts, w \in words} \cup
    {<<w, value>> : w \in words}

Joined(P, Q, glues) == P \cup {<<p[1] \o g \o q[1], p[2] + q[2]>> : p \in P, q \in Q, g \in glues}

Units    == SmallParts(0 .. 99)
Few      == SmallParts({1, 3, 10, 18, 26, 60, 73})
Hundreds == Joined(Counted(SmallParts({2, 7}), {"hundrede"}, 100), Few, {"", "og"})
Below    == Few \cup Hundreds
Thousands == Counted(SmallParts({2, 33}) \cup {<<"trehundrede", 300>>}, {"tusinde"}, 1000)
Millions == Counted(SmallParts({2, 54}) \cup {<<"tohundredeseksogtyve", 226>>, <<"totusindseksogtyve", 2026>>},
                    {"millioner", "million"}, 1000000)

(* A multiplier without its last e may stand right in front of a number    *)
(* that does not begin with one; the others need glue, or are CutShort.    *)
Short == {<<"hundred", 100>>, <<"tusind", 1000>>, <<"syvhundred", 700>>, <<"totusind", 2000>>}
BeginWithE == {u \in Units : StartsWith(u[1], "e")}
OtherUnits == Units \ (BeginWithE \cup {<<"nul", 0>>})

(* All that is claimed to be read right: multipliers in falling order, a   *)
(* choice of counts of them, and before millions no count with thousands   *)
(* and hundreds both (FactorLost).                                         *)
Numbers ==
    Units \cup Joined(Short, OtherUnits, {"", "-", "og"}) \cup Joined(Short, BeginWithE, {"-", "og"}) \cup
    Joined(Thousands, Below, {"", "-"}) \cup Joined(Millions, Few, {"-"}) \cup
    Joined(Counted(Units \ {<<"nul", 0>>}, {"hundrede", "hundred"}, 100), {<<"to", 2>>}, {"og"}) \cup
    Joined(Millions, {<<t[1] \o "-" \o h[1], t[2] + h[2]>> : t \in Thousands, h \in {<<"syvhundredefem", 705>>, <<"tohundrede", 200>>}}, {""})

(* Thousands and hundreds before millions, with the value they are read    *)
(* as: the hundreds close the group of the thousands, which then miss the  *)
(* factor of a million (1 300 000 000 becomes 300 001 000).                *)
FactorLost ==
    {<<t[1] \o h[1] \o m, t[2] + h[2] * 1000000>> :
        t \in {<<"tusinde", 1000>>, <<"ettusinde", 1000>>, <<"totusind", 2000>>},
        h \in {<<"hundrede", 100>>, <<"trehundrede", 300>>, <<"syvhundredefem", 705>>}, m \in {"millioner", "-millioner"}}

(* A short multiplier before a word that begins with e: the long one is a  *)
(* prefix too, and of "elleve" only "lleve" is left.                       *)
CutShort == {p[1] \o q[1] : p \in Short, q \in BeginWithE}

(* Glue behind a number is dropped like glue in front of one.              *)
Trailing == {<<p[1] \o g, p[2]>> : p \in Units, g \in {"-", "og", "-og-"}}

(* Words that begin like numbers, and glue without any number.             *)
Rests  == {"a", "t", "x", "sk", "dve"}
Others == {"", "-", "og", "-og-", "ogsaa", "ord", "tit"} \cup
          UNION {{p[1] \o r, r \o p[1]} : p \in Units, r \in Rests}

NumberTexts == {p[1] : p \in Numbers \cup Trailing \cup FactorLost} \cup CutShort \cup Others

(* A spelled number of Numbers is read as that number, one of Units also   *)
(* with glue behind it: for these, dropping glue, taking the first prefix  *)
(* in the order of the tables and closing a group at a smaller multiplier  *)
(* never cut a spelling at the wrong place.  Not so for every number of    *)
(* Danish: those of FactorLost are read with the value given there.        *)
SpelledNumbersAreRead ==
    returned => \A p \in Numbers \cup Trailing \cup FactorLost : p[1] = text => c = p[2]

(* A text that only begins like a number, or is glue, gives -1, which      *)
(* makes it a word for dk_next_token; so does a number of CutShort.        *)
OthersAreWords == (returned /\ text \in Others \cup CutShort) => c = -1
=============================================================================
