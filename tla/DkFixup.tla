------------------------------ MODULE DkFixup -------------------------------
(***************************************************************************)
(* dk_fixup_den_det_clause_list: a "den" or "det" in a clause is replaced  *)
(* by the list of the clauses before it, which are unlinked from the       *)
(* enclosing list while that list is being walked.                         *)
(*                                                                         *)
(* The heap: a clause is a number with a next pointer and a sequence of    *)
(* parts, a list has a first and a last pointer.  The statement's list is  *)
(* the variable list; every other list is in a part.  stack is the C call  *)
(* stack, innermost walk last.  The statements of a list are walked one by *)
(* one and share nothing, so one of them is enough.                        *)
(***************************************************************************)
EXTENDS Integers, Sequences

CONSTANT Texts   \* the clause lists of a statement, as they are parsed

Null == 0

(* A heap is [next, parts, list] with next and parts over its clauses.     *)
Clauses(heap) == DOMAIN heap.parts

(* The parts of a clause, and the lists among them.  den_det sets the flag *)
(* of the lists it makes.                                                  *)
PartOver(clauses) == [kind : {"word", "den_det", "literal"}]
                     \cup [kind : {"list"}, flag : BOOLEAN, first : clauses, last : clauses]
ListParts(heap) ==
    {p \in UNION {{c} \X (DOMAIN heap.parts[c]) : c \in Clauses(heap)} : heap.parts[p[1]][p[2]].kind = "list"}

(* Where clauses are linked from: the statement's list <<Null, Null>>, the *)
(* list of a part <<c, i>>, and the next of a clause <<c, 0>>.             *)
ListLinks(heap) == {<<Null, Null>>} \cup ListParts(heap)
Links(heap)     == ListLinks(heap) \cup (Clauses(heap) \X {0})
Target(heap, l) == IF l = <<Null, Null>> THEN heap.list.first
                   ELSE IF l[2] = 0 THEN heap.next[l[1]] ELSE heap.parts[l[1]][l[2]].first
EndOf(heap, l)  == IF l = <<Null, Null>> THEN heap.list.last ELSE heap.parts[l[1]][l[2]].last

(* Every clause is linked from exactly one place.                          *)
LinkedOnce(heap) ==
    \A c \in Clauses(heap) : \E l \in Links(heap) : \A m \in Links(heap) : Target(heap, m) = c <=> m = l

(* No clauses contain or follow one another in a circle: of every set of   *)
(* them, one has no link to any of the set.                                *)
NoCircle(heap) ==
    \A S \in SUBSET Clauses(heap) : S # {} =>
        \E c \in S : \A m \in Links(heap) : m[1] = c => Target(heap, m) \notin S

(* From a one comes to b over next: every set that has a and is closed     *)
(* under next has b.                                                       *)
ClosedUnder(nx, S) == \A c \in S : nx[c] \in S \cup {Null}
Reaches(nx, a, b)  == \A S \in SUBSET DOMAIN nx : a \in S /\ ClosedUnder(nx, S) => b \in S

(* The last pointer of a list is the end of the chain that begins with its *)
(* first one.                                                              *)
LastsEnd(heap) ==
    \A l \in ListLinks(heap) : /\ Reaches(heap.next, Target(heap, l), EndOf(heap, l))
                               /\ heap.next[EndOf(heap, l)] = Null

IsHeap(heap) == LET clauses == Clauses(heap)
                IN  /\ heap = [next |-> heap.next, parts |-> heap.parts, list |-> heap.list]
                    /\ heap.next \in [clauses -> clauses \cup {Null}]
                    /\ heap.parts \in [clauses -> Seq(PartOver(clauses))]
                    /\ heap.list \in [first : clauses, last : clauses]

(* A text is a heap that the parser has made by appending one new clause   *)
(* at a time.                                                              *)
ASSUME TextAssumption ==
    \A t \in Texts :
        /\ IsHeap(t) /\ Clauses(t) \subseteq Nat \ {Null}
        /\ \A p \in ListParts(t) : ~t.parts[p[1]][p[2]].flag
        /\ LinkedOnce(t) /\ NoCircle(t) /\ LastsEnd(t)

VARIABLES text,    \* the statement as parsed; the code does not keep it
          next,    \* clause->next
          parts,   \* clause->parts
          list,    \* stmt->clauses
          stack,   \* active walks: the list's place, and head, prev, curr, part
          trap     \* "null" when prev was dereferenced and null

Heap == [next |-> next, parts |-> parts, list |-> list]

fixupVars == <<text, next, parts, list, stack, trap>>

-----------------------------------------------------------------------------
Walk    == stack[Len(stack)]
Walking == trap = "none" /\ stack # <<>>

(* A walk begins: place is the clause and part that hold the list, or      *)
(* <<Null, Null>> for the statement's.                                     *)
Begin(place, first) == [place |-> place, head |-> first, prev |-> Null, curr |-> first, part |-> 1]

SetWalk(w) == stack' = [stack EXCEPT ![Len(stack)] = w]

AtPart    == Walking /\ Walk.curr # Null /\ Walk.part <= Len(parts[Walk.curr])
Part      == parts[Walk.curr][Walk.part]
Advance(w) == [w EXCEPT !.part = @ + 1]

(* Other words and literals stay.                                          *)
KeepPart ==
    /\ AtPart /\ Part.kind \in {"word", "literal"}
    /\ SetWalk(Advance(Walk))
    /\ UNCHANGED <<text, next, parts, list, trap>>

(* A list in parentheses is walked first.                                  *)
EnterList ==
    /\ AtPart /\ Part.kind = "list"
    /\ stack' = Append(stack, Begin(<<Walk.curr, Walk.part>>, Part.first))
    /\ UNCHANGED <<text, next, parts, list, trap>>

(* The part becomes the list from head to prev, and the enclosing list     *)
(* begins with the current clause.                                         *)
Replaced(last) ==
    [parts EXCEPT ![Walk.curr][Walk.part] =
        [kind |-> "list", flag |-> TRUE, first |-> Walk.head, last |-> last]]

SetFirst(ps) ==
    LET place == Walk.place
    IN  IF place[1] = Null
        THEN parts' = ps /\ list' = [list EXCEPT !.first = Walk.curr]
        ELSE parts' = [ps EXCEPT ![place[1]][place[2]].first = Walk.curr] /\ UNCHANGED list

AtDenDet == AtPart /\ Part.kind = "den_det" /\ Walk.prev # Null

(* Not the code: without prev->next = null; without list->first = curr;    *)
(* with head as the end of the new list.                                   *)
DenDetWithoutCut ==
    /\ AtDenDet
    /\ SetFirst(Replaced(Walk.prev))
    /\ SetWalk([Advance(Walk) EXCEPT !.head = Walk.curr])
    /\ UNCHANGED <<text, next, trap>>
DenDetKeepingFirst ==
    /\ AtDenDet
    /\ parts' = Replaced(Walk.prev)
    /\ next' = [next EXCEPT ![Walk.prev] = Null]
    /\ SetWalk([Advance(Walk) EXCEPT !.head = Walk.curr])
    /\ UNCHANGED <<text, list, trap>>
DenDetEndingAtHead ==
    /\ AtDenDet
    /\ SetFirst(Replaced(Walk.head))
    /\ next' = [next EXCEPT ![Walk.prev] = Null]
    /\ SetWalk([Advance(Walk) EXCEPT !.head = Walk.curr])
    /\ UNCHANGED <<text, trap>>

DenDet ==
    /\ AtDenDet
    /\ SetFirst(Replaced(Walk.prev))
    /\ next' = [next EXCEPT ![Walk.prev] = Null]
    /\ SetWalk([Advance(Walk) EXCEPT !.head = Walk.curr])
    /\ UNCHANGED <<text, trap>>

(* In the first clause of a list there is no prev to unlink.               *)
DenDetFirst ==
    /\ AtPart /\ Part.kind = "den_det" /\ Walk.prev = Null
    /\ trap' = "null"
    /\ UNCHANGED <<text, next, parts, list, stack>>

AtClauseEnd == Walking /\ Walk.curr # Null /\ Walk.part > Len(parts[Walk.curr])

(* Not the code: prev stays behind.                                        *)
NextClauseKeepingPrev ==
    /\ AtClauseEnd
    /\ SetWalk([Walk EXCEPT !.prev = IF @ = Null THEN Walk.curr ELSE @,
                            !.curr = next[Walk.curr], !.part = 1])
    /\ UNCHANGED <<text, next, parts, list, trap>>

NextClause ==
    /\ AtClauseEnd
    /\ SetWalk([Walk EXCEPT !.prev = Walk.curr, !.curr = next[Walk.curr], !.part = 1])
    /\ UNCHANGED <<text, next, parts, list, trap>>

(* The walk of the stack below goes on with its next part.                 *)
Below == SubSeq(stack, 1, Len(stack) - 1)

AtListEnd == Walking /\ Walk.curr = Null

(* Not the code: returns to the same part.                                 *)
LeaveListToSamePart ==
    /\ AtListEnd
    /\ stack' = Below
    /\ UNCHANGED <<text, next, parts, list, trap>>

LeaveList ==
    /\ AtListEnd
    /\ stack' = [i \in DOMAIN Below |-> IF i = Len(Below) THEN Advance(Below[i]) ELSE Below[i]]
    /\ UNCHANGED <<text, next, parts, list, trap>>

FixupNext == KeepPart \/ EnterList \/ DenDet \/ DenDetFirst \/ NextClause \/ LeaveList

FixupInit ==
    /\ text \in Texts
    /\ next = text.next /\ parts = text.parts /\ list = text.list
    /\ stack = <<Begin(<<Null, Null>>, list.first)>>
    /\ trap = "none"

FixupSpec == FixupInit /\ [][FixupNext]_fixupVars

(* One sequential walk.                                                    *)
FairFixupSpec == FixupSpec /\ WF_fixupVars(FixupNext)
=============================================================================
