------------------------------ MODULE BaseDict ------------------------------
(***************************************************************************)
(* What a map from keys to values promises its callers: put, get and       *)
(* remove on a dictionary, whose size is known.  A put may be refused, and *)
(* then changes nothing; a remove leaves the key absent, and what it       *)
(* answers for an absent key is left open.  Once `cut' holds nothing is    *)
(* promised any more.                                                      *)
(***************************************************************************)
EXTENDS Integers, FiniteSets

CONSTANTS Keys, Vals

VARIABLES dict, size, answer, cut
dictVars == <<dict, size, answer, cut>>

NoAnswer == [op |-> "none"]
SizeKnown == size' = Cardinality(DOMAIN dict')

DictInit == dict = <<>> /\ size = 0 /\ answer = NoAnswer /\ cut = FALSE

DictPut(k, v) ==
    \/ /\ dict' = [j \in DOMAIN dict \cup {k} |-> IF j = k THEN v ELSE dict[j]]
       /\ answer' = [op |-> "put", ret |-> TRUE]
    \/ /\ dict' = dict
       /\ answer' = [op |-> "put", ret |-> FALSE]

DictGet(k) ==
    /\ dict' = dict
    /\ answer' = IF k \in DOMAIN dict THEN [op |-> "get", ret |-> TRUE, val |-> dict[k]]
                 ELSE [op |-> "get", ret |-> FALSE]

DictRemove(k) ==
    /\ dict' = [j \in DOMAIN dict \ {k} |-> dict[j]]
    /\ \E ret \in BOOLEAN : (k \in DOMAIN dict => ret) /\ answer' = [op |-> "remove", ret |-> ret]

DictNext ==
    \/ cut
    \/ /\ SizeKnown
       /\ \E k \in Keys : DictGet(k) \/ DictRemove(k) \/ \E v \in Vals : DictPut(k, v)

DictSpec == DictInit /\ [][DictNext]_dictVars
=============================================================================
