---------------------------- MODULE DkFixupProofs ----------------------------
(***************************************************************************)
(* Proofs about the den/det rewriting, for every statement that the parser *)
(* can make: a den or det stands for the clause before its own; and, when  *)
(* no clause has two of them, the lists stay lists: no circle, no clause   *)
(* lost or linked twice, and last pointers that are the ends.              *)
(***************************************************************************)
EXTENDS DkFixupProps, TLAPS

(* The clauses that a chain from a comes to.                               *)
ChainOf(nx, a) == {b \in DOMAIN nx : Reaches(nx, a, b)}

(* What den_det does to a heap: the list at l, which began with the chain  *)
(* up to prev, begins with curr, the new list at q has that chain, and n,   *)
(* the next of prev, is cut.                                               *)
Relinked(h, k, l, n, q, prev, curr) ==
    /\ n = <<prev, 0>>
    /\ IsHeap(h) /\ IsHeap(k) /\ Clauses(k) = Clauses(h)
    /\ Null \notin Clauses(h) /\ prev \in Clauses(h) /\ curr \in Clauses(h)
    /\ l \in ListLinks(h) /\ q \notin Links(h) /\ q[1] = curr
    /\ ListLinks(k) = ListLinks(h) \cup {q}
    /\ k.next = [h.next EXCEPT ![prev] = Null]
    /\ \A m \in Links(k) :
         Target(k, m) = IF m = l THEN curr
                        ELSE IF m = q THEN Target(h, l)
                        ELSE IF m = n THEN Null ELSE Target(h, m)
    /\ \A m \in ListLinks(k) : EndOf(k, m) = IF m = q THEN prev ELSE EndOf(h, m)
    /\ h.next[prev] = curr
    /\ Reaches(h.next, Target(h, l), prev)

-----------------------------------------------------------------------------
(* The types.  Every walk on the stack has a place where a list is.        *)
WalkOver(clauses) ==
    [place : {<<Null, Null>>} \cup (clauses \X (Nat \ {0})), head : clauses,
     prev : clauses \cup {Null}, curr : clauses \cup {Null}, part : Nat \ {0}]

FixupTypeOK ==
    /\ text \in Texts /\ Clauses(Heap) = Clauses(text) /\ IsHeap(Heap)
    /\ stack \in Seq(WalkOver(Clauses(Heap)))
    /\ \A j \in DOMAIN stack : stack[j].place \in ListLinks(Heap)
    /\ trap \in {"none", "null"}

(* Next pointers are only cut, and every walk, those that wait for an      *)
(* inner one too, has prev just before curr in the text.                   *)
OnlyCut      == \A c \in Clauses(text) : next[c] \in {text.next[c], Null}
PrevIsBefore == \A j \in DOMAIN stack : stack[j].curr # Null /\ stack[j].prev # Null =>
                                          text.next[stack[j].prev] = stack[j].curr

DetInv == FixupTypeOK /\ OnlyCut /\ PrevIsBefore /\ DetIsPrevious

-----------------------------------------------------------------------------
(* No clause has two of them.  This is what the code needs of the text to  *)
(* keep its lists lists ("Print 1, og gang det med det." is a circle).     *)
OneDetIn(heap) ==
    \A c \in Clauses(heap) : \A i, j \in DOMAIN heap.parts[c] :
        heap.parts[c][i].kind = "den_det" /\ heap.parts[c][j].kind = "den_det" => i = j

(* The first part that a walk has yet to come to: the one that holds the   *)
(* list above it is behind it.                                             *)
Ahead(st) == [j \in DOMAIN st |-> IF j = Len(st) THEN st[j].part ELSE st[j].part + 1]

(* head is the first clause of the list, the walk has come from there, and *)
(* up to a den or det that is ahead, no link from head to curr is cut.     *)
ComesTo(heap, w, ahead) ==
    /\ Target(heap, w.place) = w.head
    /\ w.curr # Null => Reaches(heap.next, w.head, w.curr)
    /\ w.curr # Null /\ w.prev # Null
       /\ (\E i \in DOMAIN heap.parts[w.curr] : i >= ahead /\ heap.parts[w.curr][i].kind = "den_det")
         => heap.next[w.prev] = w.curr /\ Reaches(heap.next, w.head, w.prev)

(* The walks are nested: each is over the list in the current part of the  *)
(* one below, and no two of them are in the same clause.                   *)
Walks(heap, st) ==
    /\ \A j \in DOMAIN st : ComesTo(heap, st[j], Ahead(st)[j])
    /\ \A j \in DOMAIN st :
         IF j = 1 THEN st[j].place = <<Null, Null>>
         ELSE st[j - 1].curr # Null /\ st[j].place = <<st[j - 1].curr, st[j - 1].part>>
    /\ \A j, m \in DOMAIN st : st[j].curr # Null /\ st[j].curr = st[m].curr => j = m

(* F are clauses that no walk has begun: they link only to one another,    *)
(* and all that a walk has ahead of it is in F.                            *)
AheadIn(heap, w, ahead, F) ==
    /\ w.curr \notin F
    /\ w.curr # Null => heap.next[w.curr] \in F \cup {Null}
    /\ \A p \in ListParts(heap) : p[1] = w.curr /\ p[2] >= ahead => Target(heap, p) \in F
Unbegun(heap, st, F) ==
    /\ \A c \in F : heap.next[c] \in F \cup {Null}
    /\ \A p \in ListParts(heap) : p[1] \in F => Target(heap, p) \in F
    /\ \A j \in DOMAIN st : AheadIn(heap, st[j], Ahead(st)[j], F)

FixupInv ==
    /\ FixupTypeOK
    /\ OneDetIn(Heap) /\ EveryClauseOnce /\ Acyclic /\ LastEndsChain
    /\ Walks(Heap, stack)
    /\ \E F \in SUBSET Clauses(Heap) : Unbegun(Heap, stack, F)

-----------------------------------------------------------------------------
(* Reaching, over any next pointers.                                       *)
LEMMA ChainIsClosed ==
    ASSUME NEW S, NEW nx \in [S -> S \cup {Null}], NEW a \in S
    PROVE  /\ a \in ChainOf(nx, a) /\ ChainOf(nx, a) \subseteq S
           /\ ClosedUnder(nx, ChainOf(nx, a))
           /\ \A T \in SUBSET S : a \in T /\ ClosedUnder(nx, T) => ChainOf(nx, a) \subseteq T
<1>1. DOMAIN nx = S
  OBVIOUS
<1>2. a \in ChainOf(nx, a) /\ ChainOf(nx, a) \subseteq S
  BY <1>1 DEF ChainOf, Reaches
<1>3. ASSUME NEW b \in ChainOf(nx, a), nx[b] # Null
      PROVE  nx[b] \in ChainOf(nx, a)
  <2>1. b \in S /\ nx[b] \in S /\ Reaches(nx, a, b)
    BY <1>1, <1>3 DEF ChainOf
  <2>2. Reaches(nx, a, nx[b])
    BY <1>1, <1>3, <2>1 DEF Reaches, ClosedUnder
  <2> QED BY <1>1, <2>1, <2>2 DEF ChainOf
<1>4. ASSUME NEW T \in SUBSET S, a \in T, ClosedUnder(nx, T)
      PROVE  ChainOf(nx, a) \subseteq T
  BY <1>1, <1>4 DEF ChainOf, Reaches
<1> QED BY <1>2, <1>3, <1>4 DEF ClosedUnder

LEMMA ReachesIsChain ==
    ASSUME NEW S, NEW nx \in [S -> S \cup {Null}], NEW a, NEW b \in S
    PROVE  Reaches(nx, a, b) <=> b \in ChainOf(nx, a)
BY DEF ChainOf

(* One comes to a clause other than the first from one before it.          *)
LEMMA ChainEnteredFromWithin ==
    ASSUME NEW S, NEW nx \in [S -> S \cup {Null}], NEW a \in S, Null \notin S,
           NEW b \in ChainOf(nx, a), b # a
    PROVE  \E c \in ChainOf(nx, a) : nx[c] = b
<1> SUFFICES ASSUME \A c \in ChainOf(nx, a) : nx[c] # b
             PROVE  FALSE
  OBVIOUS
<1>1. /\ a \in ChainOf(nx, a) /\ ChainOf(nx, a) \subseteq S /\ ClosedUnder(nx, ChainOf(nx, a))
      /\ \A T \in SUBSET S : a \in T /\ ClosedUnder(nx, T) => ChainOf(nx, a) \subseteq T
  BY ChainIsClosed
<1> DEFINE T == ChainOf(nx, a) \ {b}
<1>2. ClosedUnder(nx, T)
  BY <1>1 DEF ClosedUnder
<1>3. ChainOf(nx, a) \subseteq T
  BY <1>1, <1>2
<1> QED BY <1>3

(* Once a chain is cut behind e, all of what is left of it comes to e.     *)
LEMMA CutChainReachesEnd ==
    ASSUME NEW S, NEW nx \in [S -> S \cup {Null}], NEW a \in S, Null \notin S, NEW e \in S,
           Reaches(nx, a, e), nx[e] = Null, NEW b \in ChainOf(nx, a)
    PROVE  Reaches(nx, b, e)
<1> DEFINE U == {x \in S : Reaches(nx, x, e)}
<1>1. DOMAIN nx = S
  OBVIOUS
<1>2. ASSUME NEW x \in U, nx[x] # Null
      PROVE  nx[x] \in U
  <2>1. x # e /\ nx[x] \in S /\ Reaches(nx, x, e)
    BY <1>2
  <2>2. ASSUME NEW T \in SUBSET S, nx[x] \in T, ClosedUnder(nx, T)
        PROVE  e \in T
    <3>1. ClosedUnder(nx, T \cup {x})
      BY <2>2 DEF ClosedUnder
    <3>2. T \cup {x} \in SUBSET DOMAIN nx /\ x \in T \cup {x}
      BY <1>1
    <3>3. e \in T \cup {x}
      BY <2>1, <3>1, <3>2 DEF Reaches
    <3> QED BY <2>1, <3>3
  <2>3. Reaches(nx, nx[x], e)
    BY <1>1, <2>2 DEF Reaches
  <2> QED BY <2>1, <2>3
<1>3. ClosedUnder(nx, U)
  BY <1>2 DEF ClosedUnder
<1>4. \A T \in SUBSET S : a \in T /\ ClosedUnder(nx, T) => ChainOf(nx, a) \subseteq T
  BY ChainIsClosed
<1>5. ChainOf(nx, a) \subseteq U
  BY <1>3, <1>4
<1> QED BY <1>5

(* A clause that no other is behind comes to itself alone.                 *)
LEMMA EndReachesItself ==
    ASSUME NEW S, NEW nx \in [S -> S \cup {Null}], NEW a \in S, NEW b \in S,
           nx[a] = Null, Reaches(nx, a, b)
    PROVE  b = a
<1>1. ClosedUnder(nx, {a}) /\ {a} \in SUBSET DOMAIN nx
  BY DEF ClosedUnder
<1> QED BY <1>1 DEF Reaches

(* A cut takes nothing from a chain it is not in.                          *)
LEMMA CutKeepsOthers ==
    ASSUME NEW S, NEW nx \in [S -> S \cup {Null}], NEW a \in S, NEW e \in S, Null \notin S, NEW b \in S,
           ~Reaches(nx, a, e), Reaches(nx, a, b)
    PROVE  Reaches([nx EXCEPT ![e] = Null], a, b)
<1> DEFINE ny == [nx EXCEPT ![e] = Null]
<1>1. ny \in [S -> S \cup {Null}] /\ DOMAIN ny = S /\ DOMAIN nx = S
  OBVIOUS
<1>2. ASSUME NEW T \in SUBSET S, a \in T, ClosedUnder(ny, T)
      PROVE  b \in T
  <2>1. /\ a \in ChainOf(nx, a) /\ ChainOf(nx, a) \subseteq S /\ ClosedUnder(nx, ChainOf(nx, a))
    BY ChainIsClosed
  <2>2. e \notin ChainOf(nx, a)
    BY DEF ChainOf
  <2>3. \A x \in T \cap ChainOf(nx, a) : ny[x] = nx[x]
    BY <2>1, <2>2
  <2>4. ClosedUnder(nx, T \cap ChainOf(nx, a))
    BY <1>2, <2>1, <2>3 DEF ClosedUnder
  <2>5. T \cap ChainOf(nx, a) \in SUBSET DOMAIN nx /\ a \in T \cap ChainOf(nx, a)
    BY <1>1, <1>2, <2>1
  <2> QED BY <2>4, <2>5 DEF Reaches
<1> QED BY <1>1, <1>2 DEF Reaches

LEMMA CutReachesEnd ==
    ASSUME NEW S, NEW nx \in [S -> S \cup {Null}], NEW a \in S, NEW e \in S,
           Reaches(nx, a, e)
    PROVE  Reaches([nx EXCEPT ![e] = Null], a, e)
<1> DEFINE ny == [nx EXCEPT ![e] = Null]
<1>1. DOMAIN ny = S /\ DOMAIN nx = S
  OBVIOUS
<1>2. ASSUME NEW T \in SUBSET S, a \in T, ClosedUnder(ny, T), e \notin T
      PROVE  FALSE
  <2>1. ClosedUnder(nx, T)
    BY <1>2 DEF ClosedUnder
  <2> QED BY <1>1, <1>2, <2>1 DEF Reaches
<1> QED BY <1>1, <1>2 DEF Reaches

-----------------------------------------------------------------------------
(* The links of a heap.                                                    *)
LEMMA ListPartIs ==
    ASSUME NEW h, IsHeap(h), NEW p \in ListParts(h)
    PROVE  /\ p = <<p[1], p[2]>> /\ p[1] \in Clauses(h) /\ p[2] \in DOMAIN h.parts[p[1]] /\ p[2] \in Nat \ {0}
           /\ h.parts[p[1]][p[2]] \in [kind : {"list"}, flag : BOOLEAN, first : Clauses(h), last : Clauses(h)]
<1>1. /\ p = <<p[1], p[2]>> /\ p[1] \in Clauses(h) /\ p[2] \in DOMAIN h.parts[p[1]]
      /\ h.parts[p[1]][p[2]].kind = "list"
  BY DEF ListParts
<1>2. h.parts[p[1]] \in Seq(PartOver(Clauses(h)))
  BY <1>1 DEF IsHeap
<1>3. h.parts[p[1]][p[2]] \in PartOver(Clauses(h)) /\ p[2] \in Nat \ {0}
  BY <1>1, <1>2
<1>4. h.parts[p[1]][p[2]] \in [kind : {"list"}, flag : BOOLEAN, first : Clauses(h), last : Clauses(h)]
  BY <1>1, <1>3 DEF PartOver
<1> QED BY <1>1, <1>3, <1>4

LEMMA LinkTypes ==
    ASSUME NEW h, IsHeap(h), Null \notin Clauses(h)
    PROVE  /\ \A l \in ListLinks(h) : l \in Links(h) /\ Target(h, l) \in Clauses(h) /\ EndOf(h, l) \in Clauses(h)
           /\ \A l \in ListLinks(h), c \in Clauses(h) : l # <<c, 0>>
           /\ \A c \in Clauses(h) : <<c, 0>> \in Links(h) /\ Target(h, <<c, 0>>) = h.next[c]
           /\ \A l \in Links(h) : l \in ListLinks(h) \/ \E c \in Clauses(h) : l = <<c, 0>>
<1>1. h.list.first \in Clauses(h) /\ h.list.last \in Clauses(h)
  BY DEF IsHeap
<1>2. ASSUME NEW l \in ListParts(h)
      PROVE  /\ Target(h, l) \in Clauses(h) /\ EndOf(h, l) \in Clauses(h)
             /\ \A c \in Clauses(h) : l # <<c, 0>>
  <2>1. /\ l = <<l[1], l[2]>> /\ l[1] \in Clauses(h) /\ l[2] \in Nat \ {0}
        /\ h.parts[l[1]][l[2]] \in [kind : {"list"}, flag : BOOLEAN, first : Clauses(h), last : Clauses(h)]
    BY <1>2, ListPartIs
  <2>2. l # <<Null, Null>> /\ l[2] # 0
    BY <2>1
  <2> QED BY <2>1, <2>2 DEF Target, EndOf
<1>3. ASSUME NEW c \in Clauses(h)
      PROVE  <<c, 0>> \in Links(h) /\ <<c, 0>> # <<Null, Null>> /\ Target(h, <<c, 0>>) = h.next[c]
  BY <1>3 DEF Links, Target
<1>4. \A l \in ListLinks(h) : l \in Links(h)
  BY DEF Links
<1>5. ASSUME NEW l \in Links(h), l \notin ListLinks(h) PROVE \E c \in Clauses(h) : l = <<c, 0>>
  BY <1>5 DEF Links
<1>6. /\ Target(h, <<Null, Null>>) \in Clauses(h) /\ EndOf(h, <<Null, Null>>) \in Clauses(h)
  BY <1>1 DEF Target, EndOf
<1> QED BY <1>2, <1>3, <1>4, <1>5, <1>6 DEF ListLinks

(* The chains of two lists have no clause in common.                       *)
LEMMA ChainsApart ==
    ASSUME NEW h, IsHeap(h), Null \notin Clauses(h), LinkedOnce(h),
           NEW l \in ListLinks(h), NEW m \in ListLinks(h), l # m,
           NEW c \in Clauses(h), Reaches(h.next, Target(h, l), c)
    PROVE  ~Reaches(h.next, Target(h, m), c)
<1> DEFINE S == Clauses(h)
           C == ChainOf(h.next, Target(h, l))
<1>1. h.next \in [S -> S \cup {Null}] /\ DOMAIN h.next = S
  BY DEF IsHeap
<1>2. /\ Target(h, l) \in S /\ Target(h, m) \in S /\ l \in Links(h) /\ m \in Links(h)
      /\ \A x \in S : <<x, 0>> \in Links(h) /\ Target(h, <<x, 0>>) = h.next[x] /\ m # <<x, 0>> /\ l # <<x, 0>>
  BY LinkTypes
<1>3. /\ Target(h, l) \in C /\ C \subseteq S /\ ClosedUnder(h.next, C)
  BY <1>1, <1>2, ChainIsClosed
<1>4. \A b \in C : b # Target(h, l) => \E x \in C : h.next[x] = b
  BY <1>1, <1>2, ChainEnteredFromWithin
<1>5. ASSUME NEW b \in C, NEW k \in Links(h), Target(h, k) = b
      PROVE  k = l \/ \E x \in C : k = <<x, 0>>
  <2>1. \E k2 \in Links(h) : \A k3 \in Links(h) : Target(h, k3) = b <=> k3 = k2
    BY <1>3 DEF LinkedOnce
  <2>2. CASE b = Target(h, l)
    BY <1>2, <1>5, <2>1, <2>2
  <2>3. CASE b # Target(h, l)
    <3>1. PICK x \in C : h.next[x] = b
      BY <1>4, <2>3
    <3>2. Target(h, <<x, 0>>) = b /\ <<x, 0>> \in Links(h)
      BY <1>2, <1>3, <3>1
    <3>3. k = <<x, 0>>
      BY <1>5, <2>1, <3>2
    <3> QED BY <3>3
  <2> QED BY <2>2, <2>3
<1>6. Target(h, m) \notin C
  BY <1>2, <1>3, <1>5
<1>7. ClosedUnder(h.next, S \ C)
  <2> SUFFICES ASSUME NEW x \in S \ C, h.next[x] # Null
               PROVE  h.next[x] \in S \ C
    BY DEF ClosedUnder
  <2>1. h.next[x] \in S
    BY <1>1
  <2>2. <<x, 0>> \in Links(h) /\ Target(h, <<x, 0>>) = h.next[x] /\ <<x, 0>> # l
    BY <1>2
  <2>3. \A y \in C : <<x, 0>> # <<y, 0>>
    OBVIOUS
  <2>4. h.next[x] \notin C
    BY <1>5, <2>2, <2>3
  <2> QED BY <2>1, <2>4
<1>8. c \in C
  BY <1>1 DEF ChainOf
<1>9. S \ C \in SUBSET DOMAIN h.next /\ Target(h, m) \in S \ C
  BY <1>1, <1>2, <1>6
<1> QED BY <1>7, <1>8, <1>9 DEF Reaches

-----------------------------------------------------------------------------
(* What den_det keeps.                                                     *)
LEMMA RelinkedBasics ==
    ASSUME NEW h, NEW k, NEW l, NEW n, NEW q, NEW prev, NEW curr,
           Relinked(h, k, l, n, q, prev, curr), LinkedOnce(h)
    PROVE  /\ h.next \in [Clauses(h) -> Clauses(h) \cup {Null}] /\ k.next \in [Clauses(h) -> Clauses(h) \cup {Null}]
           /\ Links(k) = Links(h) \cup {q} /\ l # q /\ l \in Links(h) /\ q \in Links(k)
           /\ n \in Links(h) /\ n # l /\ n # q
           /\ Target(h, n) = curr /\ Target(h, l) \in Clauses(h) /\ Target(h, l) # curr
           /\ \A m \in Links(h) : Target(h, m) = Target(h, l) => m = l
           /\ \A m \in Links(h) : Target(h, m) = curr => m = n
<1>1. /\ IsHeap(h) /\ IsHeap(k) /\ Clauses(k) = Clauses(h) /\ Null \notin Clauses(h) /\ prev \in Clauses(h)
      /\ curr \in Clauses(h) /\ l \in ListLinks(h) /\ q \notin Links(h) /\ ListLinks(k) = ListLinks(h) \cup {q}
      /\ h.next[prev] = curr /\ n = <<prev, 0>>
  BY DEF Relinked
<1>2. Links(k) = Links(h) \cup {q}
  BY <1>1 DEF Links
<1>3. /\ l \in Links(h) /\ Target(h, l) \in Clauses(h) /\ n \in Links(h) /\ n # l
      /\ Target(h, n) = curr
  BY <1>1, LinkTypes
<1>4. \A c \in Clauses(h) : \A m \in Links(h), x \in Links(h) : Target(h, m) = c /\ Target(h, x) = c => m = x
  BY DEF LinkedOnce
<1>5. Target(h, l) # curr
  BY <1>1, <1>3, <1>4
<1>6. h.next \in [Clauses(h) -> Clauses(h) \cup {Null}] /\ k.next \in [Clauses(h) -> Clauses(h) \cup {Null}]
  BY <1>1 DEF IsHeap
<1> QED BY <1>1, <1>2, <1>3, <1>4, <1>5, <1>6

LEMMA RelinkedOnce ==
    ASSUME NEW h, NEW k, NEW l, NEW n, NEW q, NEW prev, NEW curr,
           Relinked(h, k, l, n, q, prev, curr), LinkedOnce(h)
    PROVE  LinkedOnce(k)
<1> SUFFICES ASSUME NEW c \in Clauses(h)
             PROVE  \E x \in Links(k) : \A m \in Links(k) : Target(k, m) = c <=> m = x
  BY DEF LinkedOnce, Relinked
<1>1. /\ Links(k) = Links(h) \cup {q} /\ l # q /\ l \in Links(h) /\ q \in Links(k)
      /\ n \in Links(h) /\ n # l /\ n # q
      /\ Target(h, n) = curr /\ Target(h, l) # curr
      /\ \A m \in Links(h) : Target(h, m) = Target(h, l) => m = l
      /\ \A m \in Links(h) : Target(h, m) = curr => m = n
  BY RelinkedBasics
<1>2. /\ Null \notin Clauses(h) /\ q \notin Links(h)
      /\ \A m \in Links(k) :
           Target(k, m) = IF m = l THEN curr
                          ELSE IF m = q THEN Target(h, l)
                          ELSE IF m = n THEN Null ELSE Target(h, m)
  BY DEF Relinked
<1>3. CASE c = curr
  <2>1. \A m \in Links(k) : Target(k, m) = c <=> m = l
    BY <1>1, <1>2, <1>3
  <2> QED BY <1>1, <2>1
<1>4. CASE c = Target(h, l)
  <2>1. \A m \in Links(k) : Target(k, m) = c <=> m = q
    BY <1>1, <1>2, <1>4
  <2> QED BY <1>1, <2>1
<1>5. CASE c # curr /\ c # Target(h, l)
  <2>1. PICK x \in Links(h) : \A m \in Links(h) : Target(h, m) = c <=> m = x
    BY DEF LinkedOnce
  <2>2. x # l /\ x # n /\ x # q
    BY <1>1, <1>2, <1>5, <2>1
  <2>3. \A m \in Links(k) : Target(k, m) = c <=> m = x
    BY <1>1, <1>2, <1>5, <2>1, <2>2
  <2> QED BY <1>1, <2>1, <2>3
<1> QED BY <1>3, <1>4, <1>5

(* The chain that the new list gets ends with prev.                        *)
LEMMA RelinkedChain ==
    ASSUME NEW h, NEW k, NEW l, NEW n, NEW q, NEW prev, NEW curr,
           Relinked(h, k, l, n, q, prev, curr), LinkedOnce(h)
    PROVE  /\ Reaches(k.next, Target(h, l), prev)
           /\ Target(h, l) \in ChainOf(k.next, Target(h, l)) /\ ChainOf(k.next, Target(h, l)) \subseteq Clauses(h)
           /\ ClosedUnder(k.next, ChainOf(k.next, Target(h, l)))
           /\ \A c \in ChainOf(k.next, Target(h, l)) :
                /\ k.next[c] = Null <=> c = prev
                /\ h.next[c] \in ChainOf(k.next, Target(h, l)) \cup {curr}
<1> DEFINE S == Clauses(h)
           a == Target(h, l)
           C == ChainOf(k.next, a)
<1>1. h.next \in [S -> S \cup {Null}] /\ k.next \in [S -> S \cup {Null}] /\ a \in S
  BY RelinkedBasics
<1>2. /\ k.next = [h.next EXCEPT ![prev] = Null] /\ Reaches(h.next, a, prev) /\ prev \in S /\ Null \notin S
      /\ h.next[prev] = curr /\ n = <<prev, 0>>
  BY DEF Relinked
<1>3. Reaches(k.next, a, prev)
  BY <1>1, <1>2, CutReachesEnd
<1>4. a \in C /\ C \subseteq S /\ ClosedUnder(k.next, C)
  BY <1>1, ChainIsClosed
<1>5. k.next[prev] = Null
  BY <1>1, <1>2
<1>6. ASSUME NEW c \in C
      PROVE  /\ k.next[c] = Null <=> c = prev
             /\ h.next[c] \in C \cup {curr}
  <2>1. Reaches(k.next, c, prev)
    BY <1>1, <1>2, <1>3, <1>5, CutChainReachesEnd
  <2>2. k.next[c] = Null <=> c = prev
    BY <1>1, <1>2, <1>4, <1>5, <2>1, EndReachesItself
  <2>3. c # prev => h.next[c] = k.next[c] /\ k.next[c] \in C
    BY <1>1, <1>2, <1>4, <2>2 DEF ClosedUnder
  <2> QED BY <1>2, <2>2, <2>3
<1> QED BY <1>3, <1>4, <1>6

LEMMA RelinkedEnds ==
    ASSUME NEW h, NEW k, NEW l, NEW n, NEW q, NEW prev, NEW curr,
           Relinked(h, k, l, n, q, prev, curr), LinkedOnce(h), LastsEnd(h)
    PROVE  LastsEnd(k)
<1> DEFINE S == Clauses(h)
           a == Target(h, l)
           C == ChainOf(k.next, a)
<1>1. /\ h.next \in [S -> S \cup {Null}] /\ k.next \in [S -> S \cup {Null}] /\ a \in S
      /\ Links(k) = Links(h) \cup {q} /\ l # q /\ q \in Links(k)
      /\ n \in Links(h) /\ n # l /\ n # q
  BY RelinkedBasics
<1>2. /\ Reaches(k.next, a, prev) /\ a \in C /\ C \subseteq S
      /\ \A c \in C : (k.next[c] = Null <=> c = prev) /\ h.next[c] \in C \cup {curr}
  BY RelinkedChain
<1>3. /\ IsHeap(h) /\ IsHeap(k) /\ Clauses(k) = S /\ Null \notin S /\ prev \in S /\ curr \in S
      /\ l \in ListLinks(h) /\ ListLinks(k) = ListLinks(h) \cup {q} /\ q \notin Links(h)
      /\ k.next = [h.next EXCEPT ![prev] = Null] /\ h.next[prev] = curr /\ Reaches(h.next, a, prev)
      /\ n = <<prev, 0>>
      /\ \A m \in ListLinks(k) : EndOf(k, m) = IF m = q THEN prev ELSE EndOf(h, m)
  BY DEF Relinked
<1>4. \A m \in Links(k) :
           Target(k, m) = IF m = l THEN curr
                          ELSE IF m = q THEN a ELSE IF m = n THEN Null ELSE Target(h, m)
  BY DEF Relinked
<1>5. DOMAIN h.next = S /\ DOMAIN k.next = S
  BY <1>1
<1>6. \A m \in ListLinks(h) : /\ Reaches(h.next, Target(h, m), EndOf(h, m)) /\ h.next[EndOf(h, m)] = Null
                              /\ EndOf(h, m) \in S /\ Target(h, m) \in S /\ m \in Links(h) /\ m # n
  <2> TAKE m \in ListLinks(h)
  <2>1. /\ EndOf(h, m) \in S /\ Target(h, m) \in S /\ m \in Links(h)
        /\ \A c \in S : m # <<c, 0>>
    BY <1>3, LinkTypes
  <2>2. m # n
    BY <1>3, <2>1
  <2>3. Reaches(h.next, Target(h, m), EndOf(h, m)) /\ h.next[EndOf(h, m)] = Null
    BY DEF LastsEnd
  <2> QED BY <2>1, <2>2, <2>3
<1>7. \A x \in S : h.next[x] = Null => k.next[x] = Null
  BY <1>1, <1>3
<1>8. Reaches(k.next, Target(k, q), EndOf(k, q)) /\ k.next[EndOf(k, q)] = Null
  BY <1>1, <1>2, <1>3, <1>4
<1>9. Reaches(k.next, Target(k, l), EndOf(k, l)) /\ k.next[EndOf(k, l)] = Null
  <2>1. Target(k, l) = curr /\ EndOf(k, l) = EndOf(h, l)
    <3>1. l \in Links(k) /\ l \in ListLinks(k) /\ l # q
      BY <1>1, <1>3, <1>6
    <3> QED BY <1>3, <1>4, <3>1
  <2>2. EndOf(h, l) \notin C
    <3>1. EndOf(h, l) # prev
      BY <1>3, <1>6
    <3> QED BY <1>2, <1>3, <1>6, <1>7, <3>1
  <2>3. ASSUME NEW T \in SUBSET S, curr \in T, ClosedUnder(k.next, T)
        PROVE  EndOf(h, l) \in T
    <3>1. ASSUME NEW x \in T PROVE h.next[x] \in T \cup {Null}
      BY <1>1, <1>3, <2>3 DEF ClosedUnder
    <3>2. ClosedUnder(h.next, T \cup C)
      BY <1>2, <2>3, <3>1 DEF ClosedUnder
    <3>3. T \cup C \in SUBSET DOMAIN h.next /\ a \in T \cup C
      BY <1>2, <1>5
    <3>4. EndOf(h, l) \in T \cup C
      BY <1>3, <1>6, <3>2, <3>3 DEF Reaches
    <3> QED BY <2>2, <3>4
  <2>4. Reaches(k.next, curr, EndOf(h, l))
    BY <1>5, <2>3 DEF Reaches
  <2> QED BY <1>3, <1>6, <1>7, <2>1, <2>4
<1>10. ASSUME NEW m \in ListLinks(h), m # l
       PROVE  Reaches(k.next, Target(k, m), EndOf(k, m)) /\ k.next[EndOf(k, m)] = Null
  <2>1. m # q /\ m \in Links(k)
    BY <1>1, <1>3, <1>6
  <2>2. Target(k, m) = Target(h, m) /\ EndOf(k, m) = EndOf(h, m)
    BY <1>3, <1>4, <1>6, <1>10, <2>1
  <2>3. ~Reaches(h.next, Target(h, m), prev)
    BY <1>3, <1>10, ChainsApart
  <2>4. Reaches(k.next, Target(h, m), EndOf(h, m))
    BY <1>1, <1>3, <1>6, <2>3, CutKeepsOthers
  <2> QED BY <1>6, <1>7, <2>2, <2>4
<1> QED BY <1>3, <1>8, <1>9, <1>10 DEF LastsEnd

LEMMA RelinkedNoCircle ==
    ASSUME NEW h, NEW k, NEW l, NEW n, NEW q, NEW prev, NEW curr,
           Relinked(h, k, l, n, q, prev, curr), LinkedOnce(h), NoCircle(h)
    PROVE  NoCircle(k)
<1> SUFFICES ASSUME NEW S \in SUBSET Clauses(h), S # {},
                    \A c \in S : \E m \in Links(k) : m[1] = c /\ Target(k, m) \in S
             PROVE  FALSE
  BY DEF NoCircle, Relinked
<1> DEFINE a == Target(h, l)
           C == ChainOf(k.next, a)
<1>1. /\ Links(k) = Links(h) \cup {q} /\ l # q /\ l \in Links(h) /\ q \in Links(k)
      /\ n \in Links(h) /\ n # l /\ n # q
      /\ Target(h, n) = curr /\ a # curr
      /\ \A m \in Links(h) : Target(h, m) = curr => m = n
  BY RelinkedBasics
<1>2. /\ Null \notin Clauses(h) /\ q \notin Links(h) /\ q[1] = curr /\ IsHeap(h)
      /\ \A m \in Links(k) :
           Target(k, m) = IF m = l THEN curr
                          ELSE IF m = q THEN a
                          ELSE IF m = n THEN Null ELSE Target(h, m)
  BY DEF Relinked
<1>3. \A T \in SUBSET Clauses(h) :
         T # {} /\ (\A c \in T : \E m \in Links(h) : m[1] = c /\ Target(h, m) \in T) => FALSE
  BY DEF NoCircle
<1>4. /\ a \in C /\ C \subseteq Clauses(h)
      /\ \A c \in C : h.next[c] \in C \cup {curr}
  BY RelinkedChain
<1>5. \A c \in Clauses(h) : <<c, 0>> \in Links(h) /\ Target(h, <<c, 0>>) = h.next[c] /\ <<c, 0>>[1] = c
  BY <1>2, LinkTypes
<1> HIDE DEF a, C
<1>6. CASE curr \notin S
  <2>1. ASSUME NEW c \in S PROVE \E m \in Links(h) : m[1] = c /\ Target(h, m) \in S
    <3>1. PICK m \in Links(k) : m[1] = c /\ Target(k, m) \in S
      OBVIOUS
    <3>2. m # l /\ m # q /\ m # n
      BY <1>1, <1>2, <1>6, <3>1
    <3> QED BY <1>1, <1>2, <3>1, <3>2
  <2> QED BY <1>3, <2>1
<1>7. CASE curr \in S /\ \E m \in Links(h) : m[1] = curr /\ Target(k, m) \in S
  <2> DEFINE T == S \cup C
  <2>1. ASSUME NEW c \in S PROVE \E m \in Links(h) : m[1] = c /\ Target(h, m) \in T
    <3>1. PICK m \in Links(h) : m[1] = c /\ Target(k, m) \in S
      BY <1>1, <1>2, <1>7
    <3>2. m # n /\ m # q
      BY <1>1, <1>2, <3>1
    <3>3. Target(h, m) \in T
      BY <1>1, <1>2, <1>4, <3>1, <3>2 DEF a
    <3> QED BY <3>1, <3>3 DEF Ahead
  <2>2. ASSUME NEW c \in C PROVE \E m \in Links(h) : m[1] = c /\ Target(h, m) \in T
    <3>1. <<c, 0>> \in Links(h) /\ Target(h, <<c, 0>>) = h.next[c] /\ <<c, 0>>[1] = c
      BY <1>4, <1>5
    <3>2. h.next[c] \in T
      BY <1>4, <1>7
    <3> QED BY <3>1, <3>2
  <2>3. T \in SUBSET Clauses(h) /\ T # {}
    BY <1>4
  <2> QED BY <1>3, <2>1, <2>2, <2>3
<1>8. CASE curr \in S /\ ~\E m \in Links(h) : m[1] = curr /\ Target(k, m) \in S
  <2> DEFINE T == S \ {curr}
  <2>1. a \in S
    BY <1>1, <1>2, <1>8
  <2>2. ASSUME NEW c \in T PROVE \E m \in Links(h) : m[1] = c /\ Target(h, m) \in T
    <3>1. PICK m \in Links(k) : m[1] = c /\ Target(k, m) \in S
      OBVIOUS
    <3>2. m # q /\ m # n /\ m \in Links(h)
      BY <1>1, <1>2, <3>1
    <3>3. CASE m = l
      BY <1>1, <2>1, <3>1, <3>2, <3>3 DEF a
    <3>4. CASE m # l
      BY <1>1, <1>2, <3>1, <3>2, <3>4
    <3> QED BY <3>3, <3>4
  <2>3. T \in SUBSET Clauses(h) /\ T # {}
    BY <1>1, <2>1
  <2> QED BY <1>3, <2>2, <2>3
<1> QED BY <1>6, <1>7, <1>8

-----------------------------------------------------------------------------
(* The stack.                                                              *)
LEMMA TopIn ==
    ASSUME NEW S, NEW st \in Seq(S), st # <<>>
    PROVE  /\ Len(st) \in Nat \ {0} /\ Len(st) \in DOMAIN st /\ st[Len(st)] \in S
           /\ DOMAIN st = 1..Len(st) /\ \A j \in DOMAIN st : st[j] \in S
<1>1. Len(st) \in Nat /\ DOMAIN st = 1..Len(st) /\ \A j \in 1..Len(st) : st[j] \in S
  OBVIOUS
<1>2. Len(st) # 0
  OBVIOUS
<1> QED BY <1>1, <1>2

LEMMA TopSet ==
    ASSUME NEW S, NEW st \in Seq(S), st # <<>>, NEW w \in S,
           NEW su, su = [st EXCEPT ![Len(st)] = w]
    PROVE  /\ su \in Seq(S) /\ Len(su) = Len(st) /\ DOMAIN su = DOMAIN st
           /\ su[Len(st)] = w /\ \A j \in DOMAIN st : j # Len(st) => su[j] = st[j]
<1>1. Len(st) \in DOMAIN st /\ DOMAIN st = 1..Len(st)
  BY TopIn
<1>2. su \in Seq(S) /\ Len(su) = Len(st) /\ DOMAIN su = DOMAIN st
  OBVIOUS
<1>3. su[Len(st)] = w /\ \A j \in DOMAIN st : j # Len(st) => su[j] = st[j]
  BY <1>1
<1> QED BY <1>1, <1>2, <1>3

LEMMA TopPushed ==
    ASSUME NEW S, NEW st \in Seq(S), st # <<>>, NEW w \in S,
           NEW su, su = Append(st, w)
    PROVE  /\ su \in Seq(S) /\ Len(su) = Len(st) + 1 /\ DOMAIN su = DOMAIN st \cup {Len(st) + 1}
           /\ su[Len(st) + 1] = w /\ \A j \in DOMAIN st : su[j] = st[j] /\ j # Len(st) + 1
<1>1. Len(st) \in DOMAIN st /\ DOMAIN st = 1..Len(st) /\ Len(st) \in Nat
  BY TopIn
<1>2. su \in Seq(S) /\ Len(su) = Len(st) + 1 /\ DOMAIN su = 1..(Len(st) + 1)
  OBVIOUS
<1>3. su[Len(st) + 1] = w /\ \A j \in DOMAIN st : su[j] = st[j] /\ j # Len(st) + 1
  BY <1>1
<1>4. DOMAIN su = DOMAIN st \cup {Len(st) + 1}
  BY <1>1, <1>2
<1> QED BY <1>1, <1>2, <1>3, <1>4

LEMMA AdvanceIs ==
    ASSUME NEW C, NEW w \in WalkOver(C)
    PROVE  /\ Advance(w) \in WalkOver(C) /\ Advance(w).part = w.part + 1
           /\ Advance(w).place = w.place /\ Advance(w).head = w.head
           /\ Advance(w).prev = w.prev /\ Advance(w).curr = w.curr
<1> DEFINE P == {<<Null, Null>>} \cup (C \X (Nat \ {0}))
           N == C \cup {Null}
<1> HIDE DEF P, N
<1>1. WalkOver(C) = [place : P, head : C, prev : N, curr : N, part : Nat \ {0}]
  BY DEF WalkOver, P, N
<1>2. w.part + 1 \in Nat \ {0}
  BY <1>1
<1> QED BY <1>1, <1>2 DEF Advance

(* A walk moved on to the clause d behind c.                               *)
Moved(w, c, d) == [w EXCEPT !.prev = c, !.curr = d, !.part = 1]

LEMMA MovedIs ==
    ASSUME NEW C, NEW w \in WalkOver(C), NEW c \in C, NEW d \in C \cup {Null}
    PROVE  LET v == Moved(w, c, d)
           IN  /\ v \in WalkOver(C)
               /\ v.place = w.place /\ v.head = w.head /\ v.prev = c /\ v.curr = d /\ v.part = 1
<1> DEFINE P == {<<Null, Null>>} \cup (C \X (Nat \ {0}))
           N == C \cup {Null}
<1> HIDE DEF P
<1>1. WalkOver(C) = [place : P, head : C, prev : N, curr : N, part : Nat \ {0}]
  BY DEF WalkOver, P
<1>2. c \in N /\ d \in N /\ 1 \in Nat \ {0}
  OBVIOUS
<1> HIDE DEF N
<1> DEFINE u == [w EXCEPT !.prev = c]
           v == [u EXCEPT !.curr = d]
           x == [v EXCEPT !.part = 1]
<1>3. u \in WalkOver(C) /\ u.place = w.place /\ u.head = w.head /\ u.prev = c
  BY <1>1, <1>2
<1> HIDE DEF u
<1>4. v \in WalkOver(C) /\ v.place = u.place /\ v.head = u.head /\ v.prev = u.prev /\ v.curr = d
  BY <1>1, <1>2, <1>3
<1> HIDE DEF v
<1>5. x \in WalkOver(C) /\ x.place = v.place /\ x.head = v.head /\ x.prev = v.prev /\ x.curr = v.curr /\ x.part = 1
  BY <1>1, <1>2, <1>4
<1>6. x = Moved(w, c, d)
  BY DEF u, v, Moved
<1> HIDE DEF x
<1> QED BY <1>3, <1>4, <1>5, <1>6

LEMMA HeadedIs ==
    ASSUME NEW C, NEW w \in WalkOver(C), NEW c \in C
    PROVE  LET v == [w EXCEPT !.head = c]
           IN  /\ v \in WalkOver(C)
               /\ v.place = w.place /\ v.head = c /\ v.prev = w.prev /\ v.curr = w.curr /\ v.part = w.part
<1> DEFINE P == {<<Null, Null>>} \cup (C \X (Nat \ {0}))
           N == C \cup {Null}
<1> HIDE DEF P, N
<1>1. WalkOver(C) = [place : P, head : C, prev : N, curr : N, part : Nat \ {0}]
  BY DEF WalkOver, P, N
<1> QED BY <1>1

(* su is st without its last walk, and the one below moved on.             *)
Popped(C, st, su, m) ==
    /\ st \in Seq(WalkOver(C)) /\ m \in Nat /\ Len(st) = m + 1 /\ su \in [1..m -> WalkOver(C)]
    /\ \A j \in 1..m : su[j] = IF j = m THEN Advance(st[j]) ELSE st[j]

LEMMA TopPopped ==
    ASSUME NEW C, NEW st, NEW su, NEW m, Popped(C, st, su, m)
    PROVE  /\ su \in Seq(WalkOver(C)) /\ Len(su) = m /\ DOMAIN su = DOMAIN st \ {Len(st)}
<1>0. /\ st \in Seq(WalkOver(C)) /\ m \in Nat /\ Len(st) = m + 1 /\ su \in [1..m -> WalkOver(C)]
      /\ \A j \in 1..m : su[j] = IF j = m THEN Advance(st[j]) ELSE st[j]
  BY DEF Popped
<1>1. Len(st) \in DOMAIN st /\ DOMAIN st = 1..Len(st) /\ Len(st) \in Nat \ {0}
      /\ \A j \in DOMAIN st : st[j] \in WalkOver(C)
  BY <1>0, TopIn
<1>2. \A w \in WalkOver(C) : Advance(w) \in WalkOver(C) /\ Advance(w).part = w.part + 1
  BY AdvanceIs
<1>3. \A j \in 1..m : j \in DOMAIN st /\ j # Len(st) /\ st[j] \in WalkOver(C)
  BY <1>0, <1>1
<1>4. DOMAIN su = 1..m /\ su \in Seq(WalkOver(C)) /\ Len(su) = m
  BY <1>0
<1>5. DOMAIN su = DOMAIN st \ {Len(st)}
  BY <1>0, <1>1, <1>4
<1> QED BY <1>0, <1>1, <1>2, <1>3, <1>4, <1>5

-----------------------------------------------------------------------------
HeapFields == Heap.next = next /\ Heap.parts = parts /\ Heap.list = list /\ Clauses(Heap) = DOMAIN parts
LEMMA HeapIs == HeapFields /\ HeapFields'
BY DEF HeapFields, Heap, Clauses

(* The part at which the walk is.                                          *)
LEMMA AtPartIs ==
    ASSUME FixupTypeOK, AtPart
    PROVE  /\ stack # <<>> /\ Walk \in WalkOver(Clauses(Heap)) /\ Null \notin Clauses(Heap)
           /\ Walk.curr \in Clauses(Heap) /\ Walk.part \in DOMAIN parts[Walk.curr] /\ Walk.part \in Nat \ {0}
           /\ Part \in PartOver(Clauses(Heap)) /\ parts[Walk.curr] \in Seq(PartOver(Clauses(Heap)))
           /\ Len(stack) \in DOMAIN stack /\ Walk.place \in ListLinks(Heap)
<1>1. stack # <<>> /\ stack \in Seq(WalkOver(Clauses(Heap))) /\ Walk.curr # Null /\ Walk.part <= Len(parts[Walk.curr])
  BY DEF FixupTypeOK, AtPart, Walking
<1>2. Walk \in WalkOver(Clauses(Heap)) /\ Len(stack) \in DOMAIN stack
  BY <1>1, TopIn DEF Walk
<1>3. Walk.curr \in Clauses(Heap) /\ Walk.part \in Nat \ {0}
  BY <1>1, <1>2 DEF WalkOver
<1>4. parts[Walk.curr] \in Seq(PartOver(Clauses(Heap)))
  BY <1>3, HeapIs DEF FixupTypeOK, IsHeap, HeapFields
<1>5. Walk.part \in DOMAIN parts[Walk.curr] /\ Part \in PartOver(Clauses(Heap))
  BY <1>1, <1>3, <1>4 DEF Part
<1>6. Null \notin Clauses(Heap)
  BY TextAssumption DEF FixupTypeOK
<1>7. Walk.place \in ListLinks(Heap)
  BY <1>2 DEF FixupTypeOK, Walk
<1> QED BY <1>1, <1>2, <1>3, <1>4, <1>5, <1>6, <1>7

-----------------------------------------------------------------------------
(* What den_det does to the parts.                                         *)
LEMMA PartSet ==
    ASSUME NEW C, NEW P, NEW ps \in [C -> Seq(P)], NEW c \in C, NEW i \in DOMAIN ps[c], NEW v \in P,
           NEW pt, pt = [ps EXCEPT ![c][i] = v]
    PROVE  /\ pt \in [C -> Seq(P)] /\ \A d \in C : DOMAIN pt[d] = DOMAIN ps[d]
           /\ pt[c][i] = v
           /\ \A d \in C : \A j \in DOMAIN ps[d] : ~(d = c /\ j = i) => pt[d][j] = ps[d][j]
<1> DEFINE row == [ps[c] EXCEPT ![i] = v]
<1>1. ps[c] \in Seq(P)
  OBVIOUS
<1>2. row \in Seq(P) /\ DOMAIN row = DOMAIN ps[c] /\ row[i] = v
      /\ \A j \in DOMAIN ps[c] : j # i => row[j] = ps[c][j]
  BY <1>1
<1>3. pt = [ps EXCEPT ![c] = row]
  OBVIOUS
<1> HIDE DEF row
<1>4. pt \in [C -> Seq(P)] /\ pt[c] = row /\ \A d \in C : d # c => pt[d] = ps[d]
  BY <1>2, <1>3
<1> QED BY <1>2, <1>4

NewList == [kind |-> "list", flag |-> TRUE, first |-> Walk.head, last |-> Walk.prev]

LEMMA DenDetParts ==
    ASSUME FixupTypeOK, DenDet
    PROVE  LET C == Clauses(Heap)
               l == Walk.place
               q == <<Walk.curr, Walk.part>>
           IN  /\ q \notin ListLinks(Heap) /\ Walk.prev \in C /\ Walk.head \in C
               /\ next' = [next EXCEPT ![Walk.prev] = Null]
               /\ parts' \in [C -> Seq(PartOver(C))] /\ \A d \in C : DOMAIN parts'[d] = DOMAIN parts[d]
               /\ parts'[Walk.curr][Walk.part] = NewList
               /\ l # <<Null, Null>> =>
                    parts'[l[1]][l[2]] = [parts[l[1]][l[2]] EXCEPT !.first = Walk.curr] /\ list' = list
               /\ l = <<Null, Null>> => list' = [list EXCEPT !.first = Walk.curr]
               /\ \A d \in C : \A j \in DOMAIN parts[d] :
                    <<d, j>> # q /\ <<d, j>> # l => parts'[d][j] = parts[d][j]
<1> DEFINE C == Clauses(Heap)
           l == Walk.place
           q == <<Walk.curr, Walk.part>>
<1> HIDE DEF C, l, q
<1>1. /\ stack # <<>> /\ Walk \in WalkOver(C) /\ Null \notin C
      /\ Walk.curr \in C /\ Walk.part \in DOMAIN parts[Walk.curr] /\ Walk.part \in Nat \ {0}
      /\ Part \in PartOver(C) /\ l \in ListLinks(Heap)
  BY AtPartIs DEF DenDet, AtDenDet, C, l
<1>2. Part.kind = "den_det" /\ Walk.prev # Null
  BY DEF DenDet, AtDenDet
<1>3. Walk.prev \in C /\ Walk.head \in C
  BY <1>1, <1>2 DEF WalkOver
<1>4. IsHeap(Heap) /\ parts \in [C -> Seq(PartOver(C))]
  BY HeapIs DEF FixupTypeOK, IsHeap, HeapFields, C
<1>5. q \notin ListLinks(Heap)
  <2>1. q # <<Null, Null>>
    BY <1>1 DEF q
  <2>2. q \notin ListParts(Heap)
    BY <1>2, HeapIs DEF ListParts, q, Part, HeapFields
  <2> QED BY <2>1, <2>2 DEF ListLinks
<1>6. NewList \in PartOver(C)
  BY <1>1, <1>3 DEF NewList, PartOver
<1> DEFINE ps == Replaced(Walk.prev)
<1>7. /\ ps \in [C -> Seq(PartOver(C))] /\ \A d \in C : DOMAIN ps[d] = DOMAIN parts[d]
      /\ ps[Walk.curr][Walk.part] = NewList
      /\ \A d \in C : \A j \in DOMAIN parts[d] :
           ~(d = Walk.curr /\ j = Walk.part) => ps[d][j] = parts[d][j]
  <2>1. ps = [parts EXCEPT ![Walk.curr][Walk.part] = NewList]
    BY DEF Replaced, NewList
  <2> HIDE DEF ps
  <2> QED BY <1>1, <1>4, <1>6, <2>1, PartSet
<1>8. \A d \in C : \A j \in DOMAIN parts[d] : <<d, j>> # q => ps[d][j] = parts[d][j]
  BY <1>7 DEF q
<1>9. next' = [next EXCEPT ![Walk.prev] = Null] /\ SetFirst(ps)
  BY DEF DenDet
<1> HIDE DEF ps
<1>10. CASE l = <<Null, Null>>
  <2>1. parts' = ps /\ list' = [list EXCEPT !.first = Walk.curr]
    BY <1>9, <1>10 DEF SetFirst, l
  <2> QED BY <1>3, <1>5, <1>7, <1>8, <1>9, <1>10, <2>1 DEF C, l, q
<1>11. CASE l # <<Null, Null>>
  <2>1. l \in ListParts(Heap)
    BY <1>1, <1>11 DEF ListLinks
  <2>2. /\ l = <<l[1], l[2]>> /\ l[1] \in C /\ l[2] \in DOMAIN parts[l[1]]
        /\ parts[l[1]][l[2]] \in [kind : {"list"}, flag : BOOLEAN, first : C, last : C]
    BY <1>4, <2>1, ListPartIs, HeapIs DEF HeapFields, C
  <2>3. l # q /\ ~(l[1] = Walk.curr /\ l[2] = Walk.part)
    BY <1>1, <1>5, <2>2 DEF q
  <2>4. ps[l[1]][l[2]] = parts[l[1]][l[2]]
    BY <1>7, <2>2, <2>3
  <2> DEFINE v == [parts[l[1]][l[2]] EXCEPT !.first = Walk.curr]
  <2>5. v \in PartOver(C)
    BY <1>1, <2>2 DEF PartOver
  <2>6. parts' = [ps EXCEPT ![l[1]][l[2]] = v] /\ list' = list
    BY <1>1, <1>9, <2>2, <2>4 DEF SetFirst, l
  <2> HIDE DEF v
  <2>7. l[2] \in DOMAIN ps[l[1]]
    BY <1>7, <2>2
  <2>8. /\ parts' \in [C -> Seq(PartOver(C))] /\ \A d \in C : DOMAIN parts'[d] = DOMAIN ps[d]
        /\ parts'[l[1]][l[2]] = v
        /\ \A d \in C : \A j \in DOMAIN ps[d] : ~(d = l[1] /\ j = l[2]) => parts'[d][j] = ps[d][j]
    BY <1>7, <2>2, <2>5, <2>6, <2>7, PartSet
  <2>9. \A d \in C : DOMAIN parts'[d] = DOMAIN parts[d]
    BY <1>7, <2>8
  <2>10. parts'[Walk.curr][Walk.part] = NewList
    BY <1>1, <1>7, <2>3, <2>8
  <2>11. ASSUME NEW d \in C, NEW j \in DOMAIN parts[d], <<d, j>> # q, <<d, j>> # l
         PROVE  parts'[d][j] = parts[d][j]
    <3>1. ~(d = l[1] /\ j = l[2]) /\ j \in DOMAIN ps[d]
      BY <1>7, <2>2, <2>11
    <3> QED BY <1>8, <2>8, <2>11, <3>1
  <2> QED BY <1>3, <1>5, <1>9, <1>11, <2>6, <2>8, <2>9, <2>10, <2>11 DEF C, l, q, v
<1> QED BY <1>10, <1>11

(* It links one list more and cuts one next pointer.                       *)
LEMMA DenDetHeap ==
    ASSUME FixupTypeOK, DenDet
    PROVE  LET l == Walk.place
               q == <<Walk.curr, Walk.part>>
               n == <<Walk.prev, 0>>
           IN  /\ IsHeap(Heap') /\ Clauses(Heap') = Clauses(Heap)
               /\ ListParts(Heap') = ListParts(Heap) \cup {q}
               /\ q \notin Links(Heap) /\ l # q /\ l # n
               /\ \A m \in Links(Heap') :
                    Target(Heap', m) = IF m = l THEN Walk.curr
                                       ELSE IF m = q THEN Walk.head
                                       ELSE IF m = n THEN Null ELSE Target(Heap, m)
               /\ \A m \in ListLinks(Heap') : EndOf(Heap', m) = IF m = q THEN Walk.prev ELSE EndOf(Heap, m)
               /\ \A p \in ListParts(Heap) : parts'[p[1]][p[2]].flag = parts[p[1]][p[2]].flag
<1> DEFINE C == Clauses(Heap)
           l == Walk.place
           q == <<Walk.curr, Walk.part>>
           n == <<Walk.prev, 0>>
           h == Heap
           k == Heap'
<1> HIDE DEF C, l, q, n, h, k
<1>1. /\ q \notin ListLinks(h) /\ Walk.prev \in C /\ Walk.head \in C
      /\ next' = [next EXCEPT ![Walk.prev] = Null]
      /\ parts' \in [C -> Seq(PartOver(C))] /\ \A d \in C : DOMAIN parts'[d] = DOMAIN parts[d]
      /\ parts'[Walk.curr][Walk.part] = NewList
      /\ l # <<Null, Null>> =>
           parts'[l[1]][l[2]] = [parts[l[1]][l[2]] EXCEPT !.first = Walk.curr] /\ list' = list
      /\ l = <<Null, Null>> => list' = [list EXCEPT !.first = Walk.curr]
      /\ \A d \in C : \A j \in DOMAIN parts[d] :
           <<d, j>> # q /\ <<d, j>> # l => parts'[d][j] = parts[d][j]
  BY DenDetParts DEF C, l, q, h
<1>2. /\ Null \notin C /\ Walk.curr \in C /\ Walk.part \in DOMAIN parts[Walk.curr] /\ Walk.part \in Nat \ {0}
      /\ l \in ListLinks(h) /\ IsHeap(h)
  BY AtPartIs DEF DenDet, AtDenDet, FixupTypeOK, C, l, h
<1>3. /\ h.next = next /\ h.parts = parts /\ h.list = list /\ C = Clauses(h)
      /\ k.next = next' /\ k.parts = parts' /\ k.list = list' /\ Clauses(k) = DOMAIN parts'
      /\ k = [next |-> k.next, parts |-> k.parts, list |-> k.list]
  BY HeapIs DEF HeapFields, C, h, k, Heap
<1>4. Clauses(k) = C
  BY <1>1, <1>3
<1>5. next \in [C -> C \cup {Null}] /\ list \in [first : C, last : C] /\ parts \in [C -> Seq(PartOver(C))]
  BY <1>2, <1>3 DEF IsHeap
<1>6. IsHeap(k)
  <2>1. k.next \in [C -> C \cup {Null}]
    BY <1>1, <1>3, <1>5
  <2>2. k.list \in [first : C, last : C]
    BY <1>1, <1>2, <1>3, <1>5
  <2> QED BY <1>1, <1>3, <1>4, <2>1, <2>2 DEF IsHeap
<1>7. \A p \in ListParts(h) : /\ p = <<p[1], p[2]>> /\ p[1] \in C /\ p[2] \in DOMAIN parts[p[1]] /\ p[2] \in Nat \ {0}
                              /\ parts[p[1]][p[2]] \in [kind : {"list"}, flag : BOOLEAN, first : C, last : C]
                              /\ p # q /\ p # <<Null, Null>> /\ p[2] # 0 /\ p \in ListLinks(h)
  BY <1>1, <1>2, <1>3, ListPartIs DEF ListLinks
<1>8. l = <<Null, Null>> \/ l \in ListParts(h)
  BY <1>2 DEF ListLinks
<1>9. \A p \in ListParts(h) :
        parts'[p[1]][p[2]] = IF p = l THEN [parts[p[1]][p[2]] EXCEPT !.first = Walk.curr] ELSE parts[p[1]][p[2]]
  <2> TAKE p \in ListParts(h)
  <2>1. CASE p = l
    BY <1>1, <1>7, <2>1
  <2>2. CASE p # l
    <3>1. <<p[1], p[2]>> # q /\ <<p[1], p[2]>> # l
      BY <1>7, <2>2
    <3> QED BY <1>1, <1>7, <2>2, <3>1
  <2> QED BY <2>1, <2>2
<1>10. q[1] = Walk.curr /\ q[2] = Walk.part /\ q # <<Null, Null>> /\ q[2] # 0 /\ q = <<q[1], q[2]>>
  BY <1>2 DEF q
<1>11. ListParts(k) = ListParts(h) \cup {q}
  <2>1. ASSUME NEW p \in ListParts(k) PROVE p \in ListParts(h) \cup {q}
    <3>1. p = <<p[1], p[2]>> /\ p[1] \in C /\ p[2] \in DOMAIN parts[p[1]] /\ parts'[p[1]][p[2]].kind = "list"
      BY <1>1, <1>3, <1>4 DEF ListParts
    <3>2. CASE p # q /\ p # l
      <4>1. parts[p[1]][p[2]].kind = "list"
        BY <1>1, <3>1, <3>2
      <4> QED BY <1>3, <3>1, <4>1 DEF ListParts
    <3>3. CASE p = l
      <4>1. p # <<Null, Null>>
        BY <1>2, <3>1
      <4> QED BY <1>8, <3>3, <4>1
    <3> QED BY <3>2, <3>3
  <2>2. ASSUME NEW p \in ListParts(h) PROVE p \in ListParts(k)
    <3>1. parts'[p[1]][p[2]].kind = "list"
      BY <1>7, <1>9
    <3>2. p = <<p[1], p[2]>> /\ p[1] \in Clauses(k) /\ p[2] \in DOMAIN k.parts[p[1]]
      BY <1>1, <1>3, <1>4, <1>7
    <3> QED BY <1>3, <3>1, <3>2 DEF ListParts
  <2>3. q \in ListParts(k)
    <3>1. parts'[q[1]][q[2]].kind = "list"
      BY <1>1, <1>10 DEF NewList
    <3>2. q[1] \in Clauses(k) /\ q[2] \in DOMAIN k.parts[q[1]]
      BY <1>1, <1>2, <1>3, <1>4, <1>10
    <3> QED BY <1>3, <1>10, <3>1, <3>2 DEF ListParts
  <2> QED BY <2>1, <2>2, <2>3
<1>12. q \notin Links(h) /\ l # q /\ l # n
  <2>1. \A c \in C : q # <<c, 0>> /\ l # <<c, 0>>
    BY <1>2, <1>3, <1>10, LinkTypes
  <2> QED BY <1>1, <1>2, <1>3, <2>1 DEF Links, n
<1>13. Links(k) = Links(h) \cup {q}
  BY <1>3, <1>4, <1>11 DEF Links, ListLinks
<1>14. ASSUME NEW m \in ListParts(h)
       PROVE  /\ Target(k, m) = IF m = l THEN Walk.curr ELSE Target(h, m)
              /\ EndOf(k, m) = EndOf(h, m)
              /\ parts'[m[1]][m[2]].flag = parts[m[1]][m[2]].flag
  BY <1>3, <1>7, <1>9 DEF Target, EndOf
<1>15. ASSUME NEW m, m = <<Null, Null>>
       PROVE  /\ Target(k, m) = IF m = l THEN Walk.curr ELSE Target(h, m)
              /\ EndOf(k, m) = EndOf(h, m)
  <2>1. CASE l = m
    BY <1>1, <1>3, <1>5, <1>15, <2>1 DEF Target, EndOf
  <2>2. CASE l # m
    BY <1>1, <1>3, <1>15, <2>2 DEF Target, EndOf
  <2> QED BY <2>1, <2>2
<1>16. Target(k, q) = Walk.head /\ EndOf(k, q) = Walk.prev
  BY <1>1, <1>3, <1>10 DEF Target, EndOf, NewList
<1>17. ASSUME NEW c \in C
       PROVE  Target(k, <<c, 0>>) = IF <<c, 0>> = n THEN Null ELSE Target(h, <<c, 0>>)
  <2>1. Target(k, <<c, 0>>) = next'[c] /\ Target(h, <<c, 0>>) = next[c]
    BY <1>2, <1>3, <1>4, <1>6, <1>17, LinkTypes
  <2>2. <<c, 0>> = n <=> c = Walk.prev
    BY DEF n
  <2> QED BY <1>1, <1>5, <2>1, <2>2
<1>18. ASSUME NEW m \in Links(k)
       PROVE  Target(k, m) = IF m = l THEN Walk.curr
                             ELSE IF m = q THEN Walk.head
                             ELSE IF m = n THEN Null ELSE Target(h, m)
  <2>1. m = q \/ m = <<Null, Null>> \/ m \in ListParts(h) \/ \E c \in C : m = <<c, 0>>
    BY <1>3, <1>13 DEF Links, ListLinks
  <2>2. CASE m = q
    BY <1>12, <1>16, <2>2
  <2>3. n # <<Null, Null>> /\ \A p \in ListParts(h) : p # n
    BY <1>1, <1>2, <1>7 DEF n
  <2>4. CASE m = <<Null, Null>>
    BY <1>10, <1>15, <2>3, <2>4
  <2>5. CASE m \in ListParts(h)
    BY <1>7, <1>14, <2>3, <2>5
  <2>6. CASE \E c \in C : m = <<c, 0>>
    <3>1. PICK c \in C : m = <<c, 0>>
      BY <2>6
    <3>2. m # l /\ m # q
      BY <1>2, <1>3, <1>10, <3>1, LinkTypes
    <3> QED BY <1>17, <3>1, <3>2
  <2> QED BY <2>1, <2>2, <2>4, <2>5, <2>6
<1>19. ASSUME NEW m \in ListLinks(k)
       PROVE  EndOf(k, m) = IF m = q THEN Walk.prev ELSE EndOf(h, m)
  BY <1>11, <1>14, <1>15, <1>16 DEF ListLinks
<1> QED
  BY <1>4, <1>6, <1>11, <1>12, <1>14, <1>18, <1>19 DEF C, l, q, n, h, k

-----------------------------------------------------------------------------
(* The types are kept.                                                     *)
LEMMA BegunIs ==
    ASSUME FixupTypeOK, AtPart, Part.kind = "list"
    PROVE  LET w == Begin(<<Walk.curr, Walk.part>>, Part.first)
           IN  /\ w \in WalkOver(Clauses(Heap))
               /\ w.place = <<Walk.curr, Walk.part>> /\ w.head = Part.first /\ w.prev = Null
               /\ w.curr = Part.first /\ w.part = 1
               /\ w.place \in ListParts(Heap) /\ Target(Heap, w.place) = Part.first /\ Part.first \in Clauses(Heap)
<1> DEFINE q == <<Walk.curr, Walk.part>>
<1>1. /\ Walk.curr \in Clauses(Heap) /\ Walk.part \in DOMAIN parts[Walk.curr] /\ Walk.part \in Nat \ {0}
      /\ Null \notin Clauses(Heap)
  BY AtPartIs
<1>2. q \in ListParts(Heap)
  BY <1>1, HeapIs DEF ListParts, HeapFields, Part
<1>3. Target(Heap, q) = Part.first
  BY <1>1, HeapIs DEF Target, HeapFields, Part
<1>4. Part.first \in Clauses(Heap)
  BY <1>1, <1>2, <1>3, LinkTypes DEF FixupTypeOK, ListLinks
<1> QED BY <1>1, <1>2, <1>3, <1>4 DEF Begin, WalkOver

LEMMA ClauseEndIs ==
    ASSUME FixupTypeOK, NextClause
    PROVE  LET w == Moved(Walk, Walk.curr, next[Walk.curr])
           IN  /\ w \in WalkOver(Clauses(Heap))
               /\ w.place = Walk.place /\ w.head = Walk.head /\ w.prev = Walk.curr
               /\ w.curr = next[Walk.curr] /\ w.part = 1 /\ Walk.curr \in Clauses(Heap) /\ Walk.curr # Null
               /\ stack # <<>> /\ Walk \in WalkOver(Clauses(Heap)) /\ stack' = [stack EXCEPT ![Len(stack)] = w]
               /\ Null \notin Clauses(Heap)
<1>1. stack # <<>> /\ stack \in Seq(WalkOver(Clauses(Heap))) /\ Walk.curr # Null
  BY DEF FixupTypeOK, NextClause, AtClauseEnd, Walking
<1>2. Walk \in WalkOver(Clauses(Heap))
  BY <1>1, TopIn DEF Walk
<1>3. Walk.curr \in Clauses(Heap)
  BY <1>1, <1>2 DEF WalkOver
<1>4. next[Walk.curr] \in Clauses(Heap) \cup {Null}
  BY <1>3, HeapIs DEF FixupTypeOK, IsHeap, HeapFields
<1>5. Null \notin Clauses(Heap)
  BY TextAssumption DEF FixupTypeOK
<1>6. LET w == Moved(Walk, Walk.curr, next[Walk.curr])
      IN  /\ w \in WalkOver(Clauses(Heap))
          /\ w.place = Walk.place /\ w.head = Walk.head /\ w.prev = Walk.curr
          /\ w.curr = next[Walk.curr] /\ w.part = 1
  BY <1>2, <1>3, <1>4, MovedIs
<1>7. stack' = [stack EXCEPT ![Len(stack)] = Moved(Walk, Walk.curr, next[Walk.curr])]
  BY DEF NextClause, SetWalk, Moved
<1> QED BY <1>1, <1>2, <1>3, <1>5, <1>6, <1>7

(* The walk goes on from the current clause, with its next part.           *)
LEMMA DenDetWalk ==
    ASSUME FixupTypeOK, DenDet
    PROVE  LET w == [Advance(Walk) EXCEPT !.head = Walk.curr]
           IN  /\ w \in WalkOver(Clauses(Heap))
               /\ w.place = Walk.place /\ w.head = Walk.curr /\ w.prev = Walk.prev
               /\ w.curr = Walk.curr /\ w.part = Walk.part + 1
               /\ stack # <<>> /\ stack' = [stack EXCEPT ![Len(stack)] = w]
<1> DEFINE C == Clauses(Heap)
           v == Advance(Walk)
<1>1. stack # <<>> /\ Walk \in WalkOver(C) /\ Walk.curr \in C
  BY AtPartIs DEF DenDet, AtDenDet
<1> HIDE DEF C, v
<1>2. /\ v \in WalkOver(C) /\ v.part = Walk.part + 1
      /\ v.place = Walk.place /\ v.prev = Walk.prev /\ v.curr = Walk.curr
  BY <1>1, AdvanceIs DEF v
<1>3. LET w == [v EXCEPT !.head = Walk.curr]
      IN  /\ w \in WalkOver(C) /\ w.part = v.part /\ w.head = Walk.curr
          /\ w.place = v.place /\ w.prev = v.prev /\ w.curr = v.curr
  BY <1>1, <1>2, HeadedIs
<1> QED BY <1>1, <1>2, <1>3 DEF DenDet, SetWalk, v, C

(* The walk below goes on behind the part that holds the list.             *)
LEMMA LeaveListIs ==
    ASSUME FixupTypeOK, LeaveList
    PROVE  /\ stack # <<>> /\ stack' \in Seq(WalkOver(Clauses(Heap)))
           /\ Popped(Clauses(Heap), stack, stack', Len(stack) - 1)
           /\ DOMAIN stack' = DOMAIN stack \ {Len(stack)}
           /\ \A j \in DOMAIN stack' :
                /\ stack[j] \in WalkOver(Clauses(Heap))
                /\ stack'[j] = IF j = Len(stack) - 1 THEN Advance(stack[j]) ELSE stack[j]
<1>1. stack # <<>> /\ stack \in Seq(WalkOver(Clauses(Heap)))
      /\ stack' = [i \in DOMAIN Below |-> IF i = Len(Below) THEN Advance(Below[i]) ELSE Below[i]]
  BY DEF LeaveList, AtListEnd, Walking, FixupTypeOK
<1>2. Len(stack) \in Nat \ {0} /\ DOMAIN stack = 1..Len(stack)
      /\ \A j \in DOMAIN stack : stack[j] \in WalkOver(Clauses(Heap))
  BY <1>1, TopIn
<1>3. Len(Below) = Len(stack) - 1 /\ DOMAIN Below = 1..(Len(stack) - 1)
      /\ \A j \in 1..(Len(stack) - 1) : Below[j] = stack[j]
  BY <1>1, <1>2 DEF Below
<1> DEFINE m == Len(stack) - 1
<1>4. /\ m \in Nat /\ Len(stack) = m + 1 /\ stack' \in [1..m -> WalkOver(Clauses(Heap))]
      /\ \A j \in 1..m : stack'[j] = IF j = m THEN Advance(stack[j]) ELSE stack[j]
  <2>1. \A w \in WalkOver(Clauses(Heap)) : Advance(w) \in WalkOver(Clauses(Heap))
    BY AdvanceIs
  <2>2. \A j \in 1..m : Below[j] \in WalkOver(Clauses(Heap))
    BY <1>2, <1>3
  <2>3. m \in Nat /\ Len(stack) = m + 1
    BY <1>2
  <2> QED BY <1>1, <1>3, <2>1, <2>2, <2>3
<1> HIDE DEF m
<1>5. /\ stack' \in Seq(WalkOver(Clauses(Heap))) /\ DOMAIN stack' = DOMAIN stack \ {Len(stack)}
      /\ Popped(Clauses(Heap), stack, stack', m)
  <2>1. stack \in Seq(WalkOver(Clauses(Heap)))
    BY <1>1
  <2>2. Popped(Clauses(Heap), stack, stack', m)
    BY <1>4, <2>1 DEF Popped
  <2> QED BY <2>2, TopPopped
<1>6. \A j \in DOMAIN stack' : stack[j] \in WalkOver(Clauses(Heap))
  <2>1. DOMAIN stack' \subseteq DOMAIN stack
    BY <1>5
  <2> QED BY <1>2, <2>1
<1>7. DOMAIN stack' = 1..m
  BY <1>4
<1> QED BY <1>1, <1>4, <1>5, <1>6, <1>7 DEF m

LEMMA FixupTypeInit == FixupInit => FixupTypeOK
<1> SUFFICES ASSUME FixupInit PROVE FixupTypeOK
  OBVIOUS
<1>1. /\ text \in Texts /\ next = text.next /\ parts = text.parts /\ list = text.list
      /\ stack = <<Begin(<<Null, Null>>, list.first)>> /\ trap = "none"
  BY DEF FixupInit
<1>2. IsHeap(text) /\ Clauses(text) \subseteq Nat \ {Null}
  BY <1>1, TextAssumption
<1>3. Heap = text
  BY <1>1, <1>2 DEF Heap, IsHeap
<1>4. list.first \in Clauses(Heap)
  BY <1>1, <1>2, <1>3 DEF IsHeap
<1>5. Begin(<<Null, Null>>, list.first) \in WalkOver(Clauses(Heap))
  BY <1>4 DEF Begin, WalkOver
<1>6. stack \in Seq(WalkOver(Clauses(Heap))) /\ \A j \in DOMAIN stack : stack[j].place = <<Null, Null>>
  <2>1. stack \in Seq(WalkOver(Clauses(Heap)))
    BY <1>1, <1>5
  <2>2. DOMAIN stack = {1} /\ stack[1] = Begin(<<Null, Null>>, list.first)
    BY <1>1
  <2> QED BY <2>1, <2>2 DEF Begin
<1> QED BY <1>1, <1>2, <1>3, <1>6 DEF FixupTypeOK, ListLinks

LEMMA FixupTypeStep == FixupTypeOK /\ [FixupNext]_fixupVars => FixupTypeOK'
<1> SUFFICES ASSUME FixupTypeOK, [FixupNext]_fixupVars
             PROVE  FixupTypeOK'
  OBVIOUS
<1> DEFINE C == Clauses(Heap)
<1> HIDE DEF C
<1>0. /\ text \in Texts /\ C = Clauses(text) /\ IsHeap(Heap) /\ stack \in Seq(WalkOver(C))
      /\ \A j \in DOMAIN stack : stack[j].place \in ListLinks(Heap)
      /\ trap \in {"none", "null"}
  BY DEF FixupTypeOK, C
<1>1. ASSUME UNCHANGED <<next, parts, list>>
      PROVE  Heap' = Heap
  BY <1>1 DEF Heap
<1>2. CASE KeepPart
  <2>1. stack # <<>> /\ Walk \in WalkOver(C) /\ stack' = [stack EXCEPT ![Len(stack)] = Advance(Walk)]
        /\ UNCHANGED <<text, next, parts, list, trap>>
    BY <1>2, AtPartIs DEF KeepPart, SetWalk, C
  <2>2. Advance(Walk) \in WalkOver(C) /\ Advance(Walk).place = Walk.place /\ Walk.place = stack[Len(stack)].place
    BY <2>1, AdvanceIs DEF Walk
  <2>3. stack' \in Seq(WalkOver(C)) /\ \A j \in DOMAIN stack' : j \in DOMAIN stack /\ stack'[j].place = stack[j].place
    BY <1>0, <2>1, <2>2, TopSet, TopIn
  <2> QED BY <1>0, <1>1, <2>1, <2>3 DEF FixupTypeOK, C
<1>3. CASE EnterList
  <2> DEFINE w == Begin(<<Walk.curr, Walk.part>>, Part.first)
  <2>1. AtPart /\ Part.kind = "list" /\ stack' = Append(stack, w) /\ UNCHANGED <<text, next, parts, list, trap>>
    BY <1>3 DEF EnterList
  <2>2. w \in WalkOver(C) /\ w.place \in ListLinks(Heap) /\ stack # <<>>
    BY <2>1, BegunIs, AtPartIs DEF ListLinks, C
  <2> HIDE DEF w
  <2>3. /\ stack' \in Seq(WalkOver(C)) /\ DOMAIN stack' = DOMAIN stack \cup {Len(stack) + 1}
        /\ stack'[Len(stack) + 1] = w /\ \A j \in DOMAIN stack : stack'[j] = stack[j]
    BY <1>0, <2>1, <2>2, TopPushed
  <2>4. \A j \in DOMAIN stack' : stack'[j].place \in ListLinks(Heap)
    BY <1>0, <2>2, <2>3
  <2> QED BY <1>0, <1>1, <2>1, <2>3, <2>4 DEF FixupTypeOK, C
<1>4. CASE DenDet
  <2> DEFINE w == [Advance(Walk) EXCEPT !.head = Walk.curr]
  <2>1. /\ w \in WalkOver(C) /\ w.place = Walk.place
        /\ stack # <<>> /\ stack' = [stack EXCEPT ![Len(stack)] = w]
    BY <1>4, DenDetWalk DEF C
  <2> HIDE DEF w
  <2>2. /\ IsHeap(Heap') /\ Clauses(Heap') = C
        /\ ListParts(Heap) \subseteq ListParts(Heap')
    BY <1>4, DenDetHeap DEF C
  <2>3. Walk.place = stack[Len(stack)].place
    BY DEF Walk
  <2>4. stack' \in Seq(WalkOver(C)) /\ \A j \in DOMAIN stack' : j \in DOMAIN stack /\ stack'[j].place = stack[j].place
    BY <1>0, <2>1, <2>3, TopSet, TopIn
  <2>5. \A j \in DOMAIN stack' : stack'[j].place \in ListLinks(Heap')
    BY <1>0, <2>2, <2>4 DEF ListLinks
  <2>6. UNCHANGED <<text, trap>>
    BY <1>4 DEF DenDet
  <2> QED BY <1>0, <2>2, <2>4, <2>5, <2>6 DEF FixupTypeOK, C
<1>5. CASE DenDetFirst
  <2>1. trap' = "null" /\ UNCHANGED <<text, next, parts, list, stack>>
    BY <1>5 DEF DenDetFirst
  <2> QED BY <1>0, <1>1, <2>1 DEF FixupTypeOK, C
<1>6. CASE NextClause
  <2> DEFINE w == Moved(Walk, Walk.curr, next[Walk.curr])
  <2>1. /\ w \in WalkOver(C) /\ w.place = Walk.place
        /\ stack # <<>> /\ stack' = [stack EXCEPT ![Len(stack)] = w]
    BY <1>6, ClauseEndIs DEF C
  <2> HIDE DEF w
  <2>2. UNCHANGED <<text, next, parts, list, trap>> /\ Walk.place = stack[Len(stack)].place
    BY <1>6 DEF NextClause, Walk
  <2>3. stack' \in Seq(WalkOver(C)) /\ \A j \in DOMAIN stack' : j \in DOMAIN stack /\ stack'[j].place = stack[j].place
    BY <1>0, <2>1, <2>2, TopSet, TopIn
  <2> QED BY <1>0, <1>1, <2>2, <2>3 DEF FixupTypeOK, C
<1>7. CASE LeaveList
  <2>1. UNCHANGED <<text, next, parts, list, trap>>
    BY <1>7 DEF LeaveList
  <2>2. /\ stack' \in Seq(WalkOver(C)) /\ DOMAIN stack' = DOMAIN stack \ {Len(stack)}
        /\ \A j \in DOMAIN stack' : /\ stack'[j] = IF j = Len(stack) - 1 THEN Advance(stack[j]) ELSE stack[j]
                                    /\ stack[j] \in WalkOver(C)
    BY <1>7, LeaveListIs DEF C
  <2>3. ASSUME NEW j \in DOMAIN stack' PROVE stack'[j].place = stack[j].place /\ j \in DOMAIN stack
    <3>1. stack[j] \in WalkOver(C) /\ j \in DOMAIN stack
      BY <2>2
    <3>2. Advance(stack[j]).place = stack[j].place
      BY <3>1, AdvanceIs
    <3> QED BY <2>2, <3>1, <3>2
  <2> QED BY <1>0, <1>1, <2>1, <2>2, <2>3 DEF FixupTypeOK, C
<1>8. CASE UNCHANGED fixupVars
  BY <1>0, <1>1, <1>8 DEF FixupTypeOK, C, fixupVars
<1> QED BY <1>2, <1>3, <1>4, <1>5, <1>6, <1>7, <1>8 DEF FixupNext

-----------------------------------------------------------------------------
(* A den or det stands for the clause before its own.                      *)
LEMMA DetInit == FixupInit => DetInv
<1> SUFFICES ASSUME FixupInit PROVE DetInv
  OBVIOUS
<1>1. FixupTypeOK
  BY FixupTypeInit
<1>2. /\ text \in Texts /\ next = text.next /\ parts = text.parts /\ list = text.list
      /\ stack = <<Begin(<<Null, Null>>, list.first)>>
  BY DEF FixupInit
<1>3. Heap = text
  BY <1>2, TextAssumption DEF Heap, IsHeap
<1>4. OnlyCut
  BY <1>2 DEF OnlyCut
<1>5. PrevIsBefore
  <2>1. DOMAIN stack = {1} /\ stack[1].prev = Null
    BY <1>2 DEF Begin
  <2> QED BY <2>1 DEF PrevIsBefore
<1>6. DetIsPrevious
  BY <1>2, <1>3, TextAssumption DEF DetIsPrevious
<1> QED BY <1>1, <1>4, <1>5, <1>6 DEF DetInv

LEMMA OnlyCutStep == FixupTypeOK /\ OnlyCut /\ [FixupNext]_fixupVars => OnlyCut'
<1> SUFFICES ASSUME FixupTypeOK, OnlyCut, [FixupNext]_fixupVars
             PROVE  OnlyCut'
  OBVIOUS
<1>1. CASE DenDet
  <2>1. next' = [next EXCEPT ![Walk.prev] = Null] /\ text' = text
    BY <1>1 DEF DenDet
  <2>2. next \in [Clauses(text) -> Clauses(text) \cup {Null}]
    BY HeapIs DEF FixupTypeOK, IsHeap, HeapFields
  <2> QED BY <2>1, <2>2 DEF OnlyCut
<1>2. CASE next' = next /\ text' = text
  BY <1>2 DEF OnlyCut
<1> QED
  BY <1>1, <1>2 DEF FixupNext, KeepPart, EnterList, DenDetFirst, NextClause, LeaveList, fixupVars

LEMMA PrevStep == FixupTypeOK /\ OnlyCut /\ PrevIsBefore /\ [FixupNext]_fixupVars => PrevIsBefore'
<1> SUFFICES ASSUME FixupTypeOK, OnlyCut, PrevIsBefore, [FixupNext]_fixupVars
             PROVE  PrevIsBefore'
  OBVIOUS
<1> DEFINE C == Clauses(Heap)
           Good(w) == w.curr # Null /\ w.prev # Null => text.next[w.prev] = w.curr
<1> HIDE DEF C
<1>0. stack \in Seq(WalkOver(C)) /\ \A j \in DOMAIN stack : Good(stack[j])
  BY DEF FixupTypeOK, PrevIsBefore, C
<1>1. ASSUME stack # <<>>, NEW w \in WalkOver(C), stack' = [stack EXCEPT ![Len(stack)] = w], Good(w), text' = text
      PROVE  PrevIsBefore'
  <2>1. DOMAIN stack' = DOMAIN stack /\ stack'[Len(stack)] = w /\ \A j \in DOMAIN stack : j # Len(stack) => stack'[j] = stack[j]
    BY <1>0, <1>1, TopSet
  <2>2. \A j \in DOMAIN stack' : Good(stack'[j])
    BY <1>0, <1>1, <2>1
  <2> QED BY <1>1, <2>2 DEF PrevIsBefore
<1>2. CASE KeepPart
  <2>1. stack # <<>> /\ Walk \in WalkOver(C) /\ stack' = [stack EXCEPT ![Len(stack)] = Advance(Walk)] /\ text' = text
        /\ Len(stack) \in DOMAIN stack
    BY <1>2, AtPartIs DEF KeepPart, SetWalk, C
  <2>2. Good(Walk)
    BY <1>0, <2>1 DEF Walk
  <2>3. Advance(Walk) \in WalkOver(C) /\ Good(Advance(Walk))
    BY <2>1, <2>2, AdvanceIs
  <2> QED BY <1>1, <2>1, <2>3
<1>3. CASE EnterList
  <2> DEFINE w == Begin(<<Walk.curr, Walk.part>>, Part.first)
  <2>1. AtPart /\ Part.kind = "list" /\ stack' = Append(stack, w) /\ text' = text
    BY <1>3 DEF EnterList
  <2>2. w \in WalkOver(C) /\ w.prev = Null /\ stack # <<>>
    BY <2>1, BegunIs, AtPartIs DEF C
  <2> HIDE DEF w
  <2>3. /\ DOMAIN stack' = DOMAIN stack \cup {Len(stack) + 1}
        /\ stack'[Len(stack) + 1] = w /\ \A j \in DOMAIN stack : stack'[j] = stack[j]
    BY <1>0, <2>1, <2>2, TopPushed
  <2>4. \A j \in DOMAIN stack' : Good(stack'[j])
    BY <1>0, <2>2, <2>3
  <2> QED BY <2>1, <2>4 DEF PrevIsBefore
<1>4. CASE DenDet
  <2> DEFINE w == [Advance(Walk) EXCEPT !.head = Walk.curr]
  <2>1. /\ w \in WalkOver(C) /\ w.prev = Walk.prev /\ w.curr = Walk.curr
        /\ stack # <<>> /\ stack' = [stack EXCEPT ![Len(stack)] = w]
    BY <1>4, DenDetWalk DEF C
  <2> HIDE DEF w
  <2>2. Len(stack) \in DOMAIN stack /\ text' = text
    BY <1>4, AtPartIs DEF DenDet, AtDenDet
  <2>3. Good(Walk)
    BY <1>0, <2>2 DEF Walk
  <2> QED BY <1>1, <2>1, <2>2, <2>3
<1>5. CASE DenDetFirst
  <2>1. UNCHANGED <<text, stack>>
    BY <1>5 DEF DenDetFirst
  <2> QED BY <2>1 DEF PrevIsBefore
<1>6. CASE NextClause
  <2> DEFINE w == Moved(Walk, Walk.curr, next[Walk.curr])
  <2>1. /\ w \in WalkOver(C) /\ w.prev = Walk.curr /\ w.curr = next[Walk.curr] /\ Walk.curr \in C
        /\ stack # <<>> /\ stack' = [stack EXCEPT ![Len(stack)] = w]
    BY <1>6, ClauseEndIs DEF C
  <2> HIDE DEF w
  <2>2. text' = text
    BY <1>6 DEF NextClause
  <2>3. next[Walk.curr] \in {text.next[Walk.curr], Null}
    BY <2>1 DEF OnlyCut, FixupTypeOK, C
  <2>4. Good(w)
    BY <2>1, <2>3
  <2> QED BY <1>1, <2>1, <2>2, <2>4
<1>7. CASE LeaveList
  <2>1. /\ DOMAIN stack' = DOMAIN stack \ {Len(stack)}
        /\ \A j \in DOMAIN stack' : /\ stack'[j] = IF j = Len(stack) - 1 THEN Advance(stack[j]) ELSE stack[j]
                                    /\ stack[j] \in WalkOver(C)
    BY <1>7, LeaveListIs DEF C
  <2>2. text' = text
    BY <1>7 DEF LeaveList
  <2>3. ASSUME NEW j \in DOMAIN stack' PROVE Good(stack'[j])
    <3>1. stack[j] \in WalkOver(C) /\ Good(stack[j])
      BY <1>0, <2>1
    <3>2. Advance(stack[j]).prev = stack[j].prev /\ Advance(stack[j]).curr = stack[j].curr
      BY <3>1, AdvanceIs
    <3> QED BY <2>1, <3>1, <3>2
  <2> QED BY <2>2, <2>3 DEF PrevIsBefore
<1>8. CASE UNCHANGED fixupVars
  BY <1>8 DEF PrevIsBefore, fixupVars
<1> QED BY <1>2, <1>3, <1>4, <1>5, <1>6, <1>7, <1>8 DEF FixupNext

LEMMA DetStep == DetInv /\ [FixupNext]_fixupVars => DetIsPrevious'
<1> SUFFICES ASSUME DetInv, [FixupNext]_fixupVars
             PROVE  DetIsPrevious'
  OBVIOUS
<1>0. FixupTypeOK /\ PrevIsBefore /\ DetIsPrevious
  BY DEF DetInv
<1>1. CASE DenDet
  <2> DEFINE q == <<Walk.curr, Walk.part>>
             Ends(ps, p) == ps[p[1]][p[2]].flag => text.next[ps[p[1]][p[2]].last] = p[1]
  <2>1. /\ ListParts(Heap') = ListParts(Heap) \cup {q}
        /\ q \notin Links(Heap) /\ IsHeap(Heap) /\ IsHeap(Heap')
        /\ \A m \in ListLinks(Heap') : EndOf(Heap', m) = IF m = q THEN Walk.prev ELSE EndOf(Heap, m)
        /\ \A p \in ListParts(Heap) : parts'[p[1]][p[2]].flag = parts[p[1]][p[2]].flag
    BY <1>0, <1>1, DenDetHeap DEF FixupTypeOK
  <2>2. /\ q # <<Null, Null>> /\ Walk.prev # Null /\ Walk.curr # Null /\ Len(stack) \in DOMAIN stack
        /\ Null \notin Clauses(Heap) /\ Clauses(Heap') = Clauses(Heap)
    BY <1>0, <1>1, AtPartIs, DenDetHeap DEF DenDet, AtDenDet
  <2>3. \A p \in ListParts(Heap) : p # <<Null, Null>> /\ p \in ListLinks(Heap') /\ p # q
    BY <2>1, <2>2, ListPartIs DEF ListLinks, Links
  <2>4. text.next[Walk.prev] = Walk.curr
    BY <1>0, <2>2 DEF PrevIsBefore, Walk
  <2>5. ASSUME NEW p \in ListParts(Heap) PROVE Ends(parts', p)
    <3>1. parts'[p[1]][p[2]].last = parts[p[1]][p[2]].last
      BY <2>1, <2>3, HeapIs DEF EndOf, HeapFields
    <3>2. Ends(parts, p)
      BY <1>0 DEF DetIsPrevious
    <3> QED BY <2>1, <3>1, <3>2
  <2>6. Ends(parts', q)
    <3>1. parts'[q[1]][q[2]] = NewList /\ q[1] = Walk.curr
      BY <1>0, <1>1, DenDetParts
    <3> QED BY <2>4, <3>1 DEF NewList
  <2>7. \A p \in ListParts(Heap') : Ends(parts', p)
    BY <2>1, <2>5, <2>6
  <2>8. text' = text
    BY <1>1 DEF DenDet
  <2> QED BY <2>7, <2>8 DEF DetIsPrevious
<1>2. CASE UNCHANGED <<text, next, parts, list>>
  BY <1>0, <1>2 DEF DetIsPrevious, Heap
<1> QED
  BY <1>1, <1>2 DEF FixupNext, KeepPart, EnterList, DenDetFirst, NextClause, LeaveList, fixupVars

(* A den or det stands for the clause that came just before its own in the *)
(* text, in every list that dk_fixup_den_det_clause_list makes, however    *)
(* many den and det the text has.                                          *)
THEOREM DetsArePrevious == FixupSpec => []DetIsPrevious
<1>1. FixupInit => DetInv
  BY DetInit
<1>2. DetInv /\ [FixupNext]_fixupVars => DetInv'
  BY FixupTypeStep, OnlyCutStep, PrevStep, DetStep DEF DetInv
<1>3. DetInv => DetIsPrevious
  BY DEF DetInv
<1> QED BY <1>1, <1>2, <1>3, PTL DEF FixupSpec

-----------------------------------------------------------------------------
(* The walks.                                                              *)
LEMMA PartIndex ==
    ASSUME NEW h, IsHeap(h), NEW c \in Clauses(h), NEW i \in DOMAIN h.parts[c]
    PROVE  i \in Nat
<1>1. h.parts[c] \in Seq(PartOver(Clauses(h)))
  BY DEF IsHeap
<1> QED BY <1>1

LEMMA ReachesStarts ==
    ASSUME NEW h, IsHeap(h), NEW a \in Clauses(h)
    PROVE  /\ Reaches(h.next, a, a)
           /\ \A b \in Clauses(h) : Reaches(h.next, a, b) /\ h.next[b] # Null => Reaches(h.next, a, h.next[b])
<1>1. DOMAIN h.next = Clauses(h)
  BY DEF IsHeap
<1> QED BY <1>1 DEF Reaches, ClosedUnder

(* What holds of a walk holds when fewer parts are ahead of it.            *)
LEMMA WalkAdvances ==
    ASSUME NEW h, IsHeap(h), NEW w \in WalkOver(Clauses(h)), NEW v,
           v.place = w.place, v.head = w.head, v.prev = w.prev, v.curr = w.curr,
           NEW a \in Nat, NEW b \in Nat, a <= b
    PROVE  /\ ComesTo(h, w, a) => ComesTo(h, v, b)
           /\ \A F : AheadIn(h, w, a, F) => AheadIn(h, v, b, F)
<1>1. w.curr \in Clauses(h) \cup {Null}
  BY DEF WalkOver
<1>2. \A i \in Nat : i >= b => i >= a
  OBVIOUS
<1>3. w.curr # Null => \A i \in DOMAIN h.parts[w.curr] : i \in Nat
  BY <1>1, PartIndex
<1>4. \A p \in ListParts(h) : p[2] \in Nat
  BY ListPartIs
<1>5. ASSUME ComesTo(h, w, a) PROVE ComesTo(h, v, b)
  BY <1>2, <1>3, <1>5 DEF ComesTo
<1>6. ASSUME NEW F, AheadIn(h, w, a, F) PROVE AheadIn(h, v, b, F)
  BY <1>2, <1>4, <1>6 DEF AheadIn
<1> QED BY <1>5, <1>6

LEMMA AheadIsNat ==
    ASSUME NEW C, NEW st \in Seq(WalkOver(C)), NEW j \in DOMAIN st
    PROVE  Ahead(st)[j] \in Nat /\ st[j].part \in Nat /\ st[j] \in WalkOver(C)
<1>1. st[j] \in WalkOver(C)
  OBVIOUS
<1>2. st[j].part \in Nat
  BY <1>1 DEF WalkOver
<1> QED BY <1>1, <1>2 DEF Ahead

(* No two walks are over the same list.                                    *)
LEMMA PlacesDiffer ==
    ASSUME NEW C, NEW h, NEW st \in Seq(WalkOver(C)), Walks(h, st), Null \notin C,
           NEW j \in DOMAIN st, NEW m \in DOMAIN st, j # m
    PROVE  st[j].place # st[m].place
<1>1. DOMAIN st = 1..Len(st) /\ Len(st) \in Nat
  OBVIOUS
<1>2. \A x \in DOMAIN st : IF x = 1 THEN st[x].place = <<Null, Null>>
                           ELSE st[x - 1].curr # Null /\ st[x].place = <<st[x - 1].curr, st[x - 1].part>>
  BY DEF Walks
<1>3. \A x, y \in DOMAIN st : st[x].curr # Null /\ st[x].curr = st[y].curr => x = y
  BY DEF Walks
<1>4. \A x \in DOMAIN st : x # 1 => x - 1 \in DOMAIN st
  BY <1>1
<1>5. \A x \in DOMAIN st : x # 1 => st[x].place # <<Null, Null>>
  BY <1>2
<1>6. CASE j = 1 \/ m = 1
  BY <1>2, <1>5, <1>6
<1>7. CASE j # 1 /\ m # 1
  <2>1. j - 1 # m - 1
    BY <1>1
  <2>2. st[j - 1].curr # st[m - 1].curr
    BY <1>2, <1>3, <1>4, <1>7, <2>1
  <2> QED BY <1>2, <1>7, <2>2
<1> QED BY <1>6, <1>7

(* A clause that a walk begins is linked from there alone: the others that *)
(* are not begun stay together without it.                                 *)
LEMMA BegunLeaves ==
    ASSUME NEW h, IsHeap(h), Null \notin Clauses(h), LinkedOnce(h),
           NEW F \in SUBSET Clauses(h), NEW f \in F, NEW l \in Links(h), Target(h, l) = f
    PROVE  /\ \A c \in Clauses(h) : <<c, 0>> # l /\ h.next[c] \in F \cup {Null} => h.next[c] \in (F \ {f}) \cup {Null}
           /\ \A p \in ListParts(h) : p # l /\ Target(h, p) \in F => Target(h, p) \in F \ {f}
<1>1. \A m \in Links(h) : Target(h, m) = f => m = l
  BY DEF LinkedOnce
<1>2. /\ \A c \in Clauses(h) : <<c, 0>> \in Links(h) /\ Target(h, <<c, 0>>) = h.next[c]
      /\ \A p \in ListParts(h) : p \in Links(h)
  BY LinkTypes DEF ListLinks
<1> QED BY <1>1, <1>2

LEMMA KeepsWalks ==
    ASSUME NEW h, IsHeap(h), NEW st \in Seq(WalkOver(Clauses(h))), st # <<>>, Walks(h, st),
           NEW su, su = [st EXCEPT ![Len(st)] = Advance(st[Len(st)])]
    PROVE  Walks(h, su) /\ \A F : Unbegun(h, st, F) => Unbegun(h, su, F)
<1> DEFINE w == st[Len(st)]
           v == Advance(w)
           C == Clauses(h)
<1>1. /\ Len(st) \in DOMAIN st /\ w \in WalkOver(C) /\ \A j \in DOMAIN st : st[j] \in WalkOver(C)
      /\ DOMAIN st = 1..Len(st) /\ Len(st) \in Nat
  BY TopIn
<1>2. /\ v \in WalkOver(C) /\ v.part = w.part + 1
      /\ v.place = w.place /\ v.head = w.head /\ v.prev = w.prev /\ v.curr = w.curr
  BY <1>1, AdvanceIs
<1> HIDE DEF v
<1>3. su = [st EXCEPT ![Len(st)] = v]
  BY DEF v
<1>4. /\ Len(su) = Len(st) /\ DOMAIN su = DOMAIN st /\ su[Len(st)] = v
      /\ \A j \in DOMAIN st : j # Len(st) => su[j] = st[j]
  BY <1>2, <1>3, TopSet
<1>5. ASSUME NEW j \in DOMAIN st
      PROVE  /\ su[j].place = st[j].place /\ su[j].head = st[j].head /\ su[j].prev = st[j].prev
             /\ su[j].curr = st[j].curr /\ st[j] \in WalkOver(C)
             /\ Ahead(st)[j] \in Nat /\ Ahead(su)[j] \in Nat /\ Ahead(st)[j] <= Ahead(su)[j]
             /\ ComesTo(h, st[j], Ahead(st)[j]) => ComesTo(h, su[j], Ahead(su)[j])
             /\ \A F : AheadIn(h, st[j], Ahead(st)[j], F) => AheadIn(h, su[j], Ahead(su)[j], F)
  <2>1. /\ su[j].place = st[j].place /\ su[j].head = st[j].head /\ su[j].prev = st[j].prev
        /\ su[j].curr = st[j].curr /\ st[j] \in WalkOver(C)
    BY <1>1, <1>2, <1>4
  <2>2. Ahead(st)[j] \in Nat /\ st[j].part \in Nat
    BY AheadIsNat
  <2>3. Ahead(su)[j] \in Nat /\ Ahead(st)[j] <= Ahead(su)[j]
    <3>1. CASE j # Len(st)
      BY <1>4, <2>2, <3>1 DEF Ahead
    <3>2. CASE j = Len(st)
      <4>1. Ahead(st)[j] = w.part /\ w.part \in Nat
        BY <2>2, <3>2 DEF Ahead
      <4>2. Ahead(su)[j] = w.part + 1
        BY <1>2, <1>4, <3>2 DEF Ahead
      <4> QED BY <4>1, <4>2
    <3> QED BY <3>1, <3>2
  <2> QED BY <2>1, <2>2, <2>3, WalkAdvances
<1>6. Walks(h, su)
  <2>1. \A j \in DOMAIN su : ComesTo(h, su[j], Ahead(su)[j])
    BY <1>4, <1>5 DEF Walks
  <2>2. \A j, m \in DOMAIN su : su[j].curr # Null /\ su[j].curr = su[m].curr => j = m
    BY <1>4, <1>5 DEF Walks
  <2>3. ASSUME NEW j \in DOMAIN su
        PROVE  IF j = 1 THEN su[j].place = <<Null, Null>>
               ELSE su[j - 1].curr # Null /\ su[j].place = <<su[j - 1].curr, su[j - 1].part>>
    <3>1. j # 1 => j - 1 \in DOMAIN st /\ j - 1 # Len(st)
      BY <1>1, <1>4
    <3>2. j # 1 => su[j - 1] = st[j - 1]
      BY <1>4, <3>1
    <3> QED BY <1>4, <1>5, <3>2 DEF Walks
  <2> QED BY <2>1, <2>2, <2>3 DEF Walks
<1>7. ASSUME NEW F, Unbegun(h, st, F) PROVE Unbegun(h, su, F)
  BY <1>4, <1>5, <1>7 DEF Unbegun
<1> QED BY <1>6, <1>7

LEMMA LeavesWalks ==
    ASSUME NEW h, IsHeap(h), NEW st, NEW su, NEW m, Popped(Clauses(h), st, su, m), Walks(h, st)
    PROVE  Walks(h, su) /\ \A F : Unbegun(h, st, F) => Unbegun(h, su, F)
<1> DEFINE C == Clauses(h)
<1>1. /\ st \in Seq(WalkOver(C)) /\ m \in Nat /\ Len(st) = m + 1
      /\ \A j \in 1..m : su[j] = IF j = m THEN Advance(st[j]) ELSE st[j]
  BY DEF Popped
<1>2. /\ su \in Seq(WalkOver(C)) /\ Len(su) = m /\ DOMAIN su = 1..m /\ DOMAIN st = 1..(m + 1)
      /\ \A j \in DOMAIN su : j \in DOMAIN st /\ j # Len(st)
  <2>1. su \in Seq(WalkOver(C)) /\ Len(su) = m
    BY TopPopped
  <2> QED BY <1>1, <2>1
<1>3. ASSUME NEW j \in DOMAIN su
      PROVE  /\ su[j].place = st[j].place /\ su[j].head = st[j].head /\ su[j].prev = st[j].prev
             /\ su[j].curr = st[j].curr /\ Ahead(st)[j] = Ahead(su)[j]
             /\ j < m => su[j] = st[j]
             /\ ComesTo(h, st[j], Ahead(st)[j]) => ComesTo(h, su[j], Ahead(su)[j])
             /\ \A F : AheadIn(h, st[j], Ahead(st)[j], F) => AheadIn(h, su[j], Ahead(su)[j], F)
  <2>1. j \in 1..m /\ st[j] \in WalkOver(C) /\ j # Len(st) /\ j \in DOMAIN st
    BY <1>1, <1>2
  <2>2. /\ Advance(st[j]).part = st[j].part + 1
        /\ Advance(st[j]).place = st[j].place /\ Advance(st[j]).head = st[j].head
        /\ Advance(st[j]).prev = st[j].prev /\ Advance(st[j]).curr = st[j].curr
    BY <2>1, AdvanceIs
  <2>3. /\ su[j].place = st[j].place /\ su[j].head = st[j].head /\ su[j].prev = st[j].prev
        /\ su[j].curr = st[j].curr
        /\ su[j].part = IF j = m THEN st[j].part + 1 ELSE st[j].part
    BY <1>1, <2>1, <2>2
  <2>4. Ahead(su)[j] = IF j = m THEN su[j].part ELSE su[j].part + 1
    BY <1>2 DEF Ahead
  <2>5. Ahead(st)[j] = st[j].part + 1
    BY <2>1 DEF Ahead
  <2>6. Ahead(su)[j] = Ahead(st)[j]
    BY <2>3, <2>4, <2>5
  <2>7. Ahead(st)[j] \in Nat
    BY <1>1, <2>1, AheadIsNat
  <2>8. j < m => su[j] = st[j]
    BY <1>1, <2>1
  <2>9. ASSUME NEW a \in Nat
        PROVE  /\ ComesTo(h, st[j], a) => ComesTo(h, su[j], a)
               /\ \A F : AheadIn(h, st[j], a, F) => AheadIn(h, su[j], a, F)
    <3>1. a <= a
      OBVIOUS
    <3> DEFINE w == st[j]
               v == su[j]
    <3>2. w \in WalkOver(C) /\ v.place = w.place /\ v.head = w.head /\ v.prev = w.prev /\ v.curr = w.curr
      BY <2>1, <2>3
    <3> HIDE DEF w, v
    <3>3. /\ ComesTo(h, w, a) => ComesTo(h, v, a)
          /\ \A F : AheadIn(h, w, a, F) => AheadIn(h, v, a, F)
      BY <3>1, <3>2, WalkAdvances
    <3> QED BY <3>3 DEF w, v
  <2> QED BY <2>3, <2>6, <2>7, <2>8, <2>9
<1>4. Walks(h, su)
  <2>1. \A j \in DOMAIN su : ComesTo(h, su[j], Ahead(su)[j])
    BY <1>2, <1>3 DEF Walks
  <2>2. \A j, n \in DOMAIN su : su[j].curr # Null /\ su[j].curr = su[n].curr => j = n
    BY <1>2, <1>3 DEF Walks
  <2>3. ASSUME NEW j \in DOMAIN su
        PROVE  IF j = 1 THEN su[j].place = <<Null, Null>>
               ELSE su[j - 1].curr # Null /\ su[j].place = <<su[j - 1].curr, su[j - 1].part>>
    <3>1. j # 1 => j - 1 \in DOMAIN su /\ j - 1 < m
      BY <1>1, <1>2
    <3>2. j # 1 => su[j - 1] = st[j - 1]
      BY <1>3, <3>1
    <3> QED BY <1>2, <1>3, <3>2 DEF Walks
  <2> QED BY <2>1, <2>2, <2>3 DEF Walks
<1>5. ASSUME NEW F, Unbegun(h, st, F) PROVE Unbegun(h, su, F)
  BY <1>2, <1>3, <1>5 DEF Unbegun
<1> QED BY <1>4, <1>5

LEMMA EntersWalks ==
    ASSUME NEW h, IsHeap(h), Null \notin Clauses(h), LinkedOnce(h),
           NEW st \in Seq(WalkOver(Clauses(h))), st # <<>>, Walks(h, st),
           NEW F \in SUBSET Clauses(h), Unbegun(h, st, F),
           NEW top, top = st[Len(st)], top.curr \in Clauses(h),
           NEW w \in WalkOver(Clauses(h)), w.place = <<top.curr, top.part>>, w.place \in ListParts(h),
           Target(h, w.place) = w.curr, w.head = w.curr, w.prev = Null, w.part = 1, w.curr \in Clauses(h),
           NEW su, su = Append(st, w)
    PROVE  Walks(h, su) /\ Unbegun(h, su, F \ {w.curr})
<1> DEFINE C == Clauses(h)
           n == Len(st)
           f == w.curr
           G == F \ {f}
<1>1. /\ n \in Nat \ {0} /\ n \in DOMAIN st /\ DOMAIN st = 1..n /\ \A j \in DOMAIN st : st[j] \in WalkOver(C)
  BY TopIn
<1>2. /\ Len(su) = n + 1 /\ DOMAIN su = DOMAIN st \cup {n + 1} /\ n + 1 \notin DOMAIN st
      /\ su[n + 1] = w /\ \A j \in DOMAIN st : su[j] = st[j]
  BY <1>1, TopPushed
<1>3. /\ \A j \in DOMAIN st : ComesTo(h, st[j], Ahead(st)[j])
      /\ \A j \in DOMAIN st :
           IF j = 1 THEN st[j].place = <<Null, Null>>
           ELSE st[j - 1].curr # Null /\ st[j].place = <<st[j - 1].curr, st[j - 1].part>>
      /\ \A j, m \in DOMAIN st : st[j].curr # Null /\ st[j].curr = st[m].curr => j = m
  BY DEF Walks
<1>4. /\ \A c \in F : h.next[c] \in F \cup {Null}
      /\ \A p \in ListParts(h) : p[1] \in F => Target(h, p) \in F
      /\ \A j \in DOMAIN st : AheadIn(h, st[j], Ahead(st)[j], F)
  BY DEF Unbegun
<1>5. \A j \in DOMAIN st : Ahead(st)[j] \in Nat /\ st[j].part \in Nat
  BY AheadIsNat
<1>6. /\ \A j \in DOMAIN st : Ahead(su)[j] = IF j = n THEN Ahead(st)[j] + 1 ELSE Ahead(st)[j]
      /\ Ahead(su)[n + 1] = 1 /\ Ahead(st)[n] = top.part
  <2>1. \A j \in DOMAIN st : j # n + 1 /\ j \in DOMAIN su
    BY <1>1, <1>2
  <2>2. \A j \in DOMAIN st : Ahead(su)[j] = st[j].part + 1
    BY <1>2, <2>1 DEF Ahead
  <2>3. Ahead(su)[n + 1] = 1
    BY <1>2 DEF Ahead
  <2>4. \A j \in DOMAIN st : Ahead(st)[j] = IF j = n THEN st[j].part ELSE st[j].part + 1
    BY DEF Ahead
  <2>5. Ahead(st)[n] = top.part
    BY <1>1, <2>4
  <2> QED BY <2>2, <2>3, <2>4, <2>5
<1>7. f \in F
  <2>1. AheadIn(h, top, top.part, F)
    BY <1>1, <1>4, <1>6
  <2>2. top.part \in Nat
    BY <1>1, <1>5
  <2> QED BY <2>1, <2>2 DEF AheadIn
<1>8. \A j \in DOMAIN st : st[j].curr # f
  BY <1>4, <1>7 DEF AheadIn
<1>9. w.place \in Links(h) /\ \A c \in C : w.place # <<c, 0>>
  BY LinkTypes DEF ListLinks
<1>10. /\ \A c \in C : h.next[c] \in F \cup {Null} => h.next[c] \in G \cup {Null}
       /\ \A p \in ListParts(h) : p # w.place /\ Target(h, p) \in F => Target(h, p) \in G
  <2>1. /\ \A c \in C : <<c, 0>> # w.place /\ h.next[c] \in F \cup {Null} => h.next[c] \in (F \ {f}) \cup {Null}
        /\ \A p \in ListParts(h) : p # w.place /\ Target(h, p) \in F => Target(h, p) \in F \ {f}
    BY <1>7, <1>9, BegunLeaves
  <2> QED BY <1>9, <2>1
<1>11. \A p \in ListParts(h) : p[2] \in Nat /\ p[1] \in C /\ p = <<p[1], p[2]>>
  BY ListPartIs
<1>12. Walks(h, su)
  <2>1. ComesTo(h, w, 1)
    BY ReachesStarts DEF ComesTo
  <2>2. ASSUME NEW j \in DOMAIN st PROVE ComesTo(h, st[j], Ahead(su)[j])
    <3>1. Ahead(st)[j] \in Nat /\ Ahead(su)[j] \in Nat /\ Ahead(st)[j] <= Ahead(su)[j]
      BY <1>5, <1>6
    <3>2. ComesTo(h, st[j], Ahead(st)[j]) /\ st[j] \in WalkOver(C)
      BY <1>1, <1>3
    <3> DEFINE a == Ahead(st)[j]
               b == Ahead(su)[j]
    <3> HIDE DEF a, b
    <3>3. a \in Nat /\ b \in Nat /\ a <= b /\ ComesTo(h, st[j], a)
      BY <3>1, <3>2 DEF a, b
    <3>4. ComesTo(h, st[j], b)
      BY <3>2, <3>3, WalkAdvances
    <3> QED BY <3>4 DEF b
  <2>3. \A j \in DOMAIN su : ComesTo(h, su[j], Ahead(su)[j])
    BY <1>2, <1>6, <2>1, <2>2
  <2>4. \A j, m \in DOMAIN su : su[j].curr # Null /\ su[j].curr = su[m].curr => j = m
    BY <1>2, <1>3, <1>8
  <2>5. ASSUME NEW j \in DOMAIN su
        PROVE  IF j = 1 THEN su[j].place = <<Null, Null>>
               ELSE su[j - 1].curr # Null /\ su[j].place = <<su[j - 1].curr, su[j - 1].part>>
    <3>1. CASE j = n + 1
      <4>1. j # 1 /\ j - 1 = n
        BY <1>1, <3>1
      <4>2. su[n] = top /\ top.curr # Null
        BY <1>1, <1>2
      <4> QED BY <1>2, <3>1, <4>1, <4>2
    <3>2. CASE j \in DOMAIN st
      <4>1. j # 1 => j - 1 \in DOMAIN st
        BY <1>1, <3>2
      <4> QED BY <1>2, <1>3, <3>2, <4>1
    <3> QED BY <1>2, <3>1, <3>2
  <2> QED BY <2>3, <2>4, <2>5 DEF Walks
<1>13. Unbegun(h, su, G)
  <2>1. \A c \in G : h.next[c] \in G \cup {Null}
    BY <1>4, <1>10
  <2>2. ASSUME NEW p \in ListParts(h), p[1] \in F PROVE Target(h, p) \in G
    <3>1. w.place[1] \notin F
      BY <1>1, <1>4 DEF AheadIn
    <3> QED BY <1>4, <1>10, <2>2, <3>1
  <2>3. AheadIn(h, w, 1, G)
    <3>1. h.next[f] \in G \cup {Null}
      BY <1>4, <1>7, <1>10
    <3> QED BY <1>7, <2>2, <3>1 DEF AheadIn
  <2>4. ASSUME NEW j \in DOMAIN st PROVE AheadIn(h, st[j], Ahead(su)[j], G)
    <3>1. AheadIn(h, st[j], Ahead(st)[j], F)
      BY <1>4
    <3>2. st[j].curr \notin G
      BY <3>1 DEF AheadIn
    <3>3. st[j].curr # Null => h.next[st[j].curr] \in G \cup {Null}
      <4>1. st[j].curr \in C \cup {Null}
        BY <1>1 DEF WalkOver
      <4> QED BY <1>10, <3>1, <4>1 DEF AheadIn
    <3>4. ASSUME NEW p \in ListParts(h), p[1] = st[j].curr, p[2] >= Ahead(su)[j]
          PROVE  Target(h, p) \in G
      <4>1. p[2] >= Ahead(st)[j]
        BY <1>5, <1>6, <1>11, <3>4
      <4>2. Target(h, p) \in F
        BY <3>1, <3>4, <4>1 DEF AheadIn
      <4>3. p # w.place
        <5>1. CASE j = n
          <6>1. p[2] # top.part
            BY <1>1, <1>5, <1>6, <1>11, <3>4, <5>1
          <6> QED BY <6>1
        <5>2. CASE j # n
          <6>1. st[j].curr # top.curr
            BY <1>1, <1>3, <5>2
          <6> QED BY <3>4, <6>1
        <5> QED BY <5>1, <5>2
      <4> QED BY <1>10, <4>2, <4>3
    <3> QED BY <3>2, <3>3, <3>4 DEF AheadIn
  <2>5. \A j \in DOMAIN su : AheadIn(h, su[j], Ahead(su)[j], G)
    BY <1>2, <1>6, <2>3, <2>4
  <2> QED BY <2>1, <2>2, <2>5 DEF Unbegun
<1> QED BY <1>12, <1>13

LEMMA MovesWalks ==
    ASSUME NEW h, IsHeap(h), Null \notin Clauses(h), LinkedOnce(h),
           NEW st \in Seq(WalkOver(Clauses(h))), st # <<>>, Walks(h, st),
           NEW F \in SUBSET Clauses(h), Unbegun(h, st, F),
           NEW top, top = st[Len(st)], top.curr \in Clauses(h),
           NEW w \in WalkOver(Clauses(h)), w.place = top.place, w.head = top.head,
           w.prev = top.curr, w.curr = h.next[top.curr], w.part = 1,
           NEW su, su = [st EXCEPT ![Len(st)] = w]
    PROVE  Walks(h, su) /\ Unbegun(h, su, F \ {w.curr})
<1> DEFINE C == Clauses(h)
           n == Len(st)
           f == w.curr
           G == F \ {f}
           l == <<top.curr, 0>>
<1>1. /\ n \in Nat \ {0} /\ n \in DOMAIN st /\ DOMAIN st = 1..n /\ \A j \in DOMAIN st : st[j] \in WalkOver(C)
  BY TopIn
<1>2. /\ Len(su) = n /\ DOMAIN su = DOMAIN st
      /\ su[n] = w /\ \A j \in DOMAIN st : j # n => su[j] = st[j]
  BY TopSet
<1>3. /\ \A j \in DOMAIN st : ComesTo(h, st[j], Ahead(st)[j])
      /\ \A j \in DOMAIN st :
           IF j = 1 THEN st[j].place = <<Null, Null>>
           ELSE st[j - 1].curr # Null /\ st[j].place = <<st[j - 1].curr, st[j - 1].part>>
      /\ \A j, m \in DOMAIN st : st[j].curr # Null /\ st[j].curr = st[m].curr => j = m
  BY DEF Walks
<1>4. /\ \A c \in F : h.next[c] \in F \cup {Null}
      /\ \A p \in ListParts(h) : p[1] \in F => Target(h, p) \in F
      /\ \A j \in DOMAIN st : AheadIn(h, st[j], Ahead(st)[j], F)
  BY DEF Unbegun
<1>5. /\ \A j \in DOMAIN st : j # n => Ahead(su)[j] = Ahead(st)[j]
      /\ Ahead(su)[n] = 1
  BY <1>1, <1>2 DEF Ahead
<1>6. top.curr # Null /\ h.next[top.curr] = f /\ f \in F \cup {Null} /\ top.curr \notin F
  BY <1>1, <1>4 DEF AheadIn
<1>7. \A j \in DOMAIN st : st[j].curr # Null => st[j].curr # f
  BY <1>4, <1>6 DEF AheadIn
<1>8. l \in Links(h) /\ Target(h, l) = f /\ \A p \in ListParts(h) : p # l
  BY LinkTypes DEF ListLinks
<1>9. /\ \A c \in C : c # top.curr /\ h.next[c] \in F \cup {Null} => h.next[c] \in G \cup {Null}
      /\ \A p \in ListParts(h) : Target(h, p) \in F => Target(h, p) \in G
  <2>1. CASE f \in F
    <3>1. \A m \in Links(h) : Target(h, m) = f => m = l
      BY <1>8, <2>1 DEF LinkedOnce
    <3>2. ASSUME NEW c \in C, c # top.curr PROVE h.next[c] # f
      <4>1. <<c, 0>> \in Links(h) /\ Target(h, <<c, 0>>) = h.next[c]
        BY LinkTypes
      <4>2. <<c, 0>> # l
        BY <3>2
      <4> QED BY <3>1, <4>1, <4>2
    <3>3. ASSUME NEW p \in ListParts(h) PROVE Target(h, p) # f
      BY <1>8, <3>1, LinkTypes DEF ListLinks
    <3> QED BY <3>2, <3>3
  <2>2. CASE f \notin F
    <3>1. G = F
      BY <2>2
    <3> QED BY <3>1
  <2> QED BY <2>1, <2>2
<1>10. ComesTo(h, top, Ahead(st)[n]) /\ top \in WalkOver(C)
  BY <1>1, <1>3
<1>11. Walks(h, su)
  <2>1. ComesTo(h, w, 1)
    <3>1. top.head \in C
      BY <1>10 DEF WalkOver
    <3>2. Target(h, w.place) = w.head /\ Reaches(h.next, top.head, top.curr)
      BY <1>6, <1>10 DEF ComesTo
    <3>3. f # Null => Reaches(h.next, top.head, f)
      BY <1>6, <3>1, <3>2, ReachesStarts
    <3> QED BY <1>6, <3>2, <3>3 DEF ComesTo
  <2>2. \A j \in DOMAIN su : ComesTo(h, su[j], Ahead(su)[j])
    BY <1>2, <1>3, <1>5, <2>1
  <2>3. \A j, m \in DOMAIN su : su[j].curr # Null /\ su[j].curr = su[m].curr => j = m
    BY <1>2, <1>3, <1>7
  <2>4. ASSUME NEW j \in DOMAIN su
        PROVE  IF j = 1 THEN su[j].place = <<Null, Null>>
               ELSE su[j - 1].curr # Null /\ su[j].place = <<su[j - 1].curr, su[j - 1].part>>
    <3>1. j # 1 => j - 1 \in DOMAIN st /\ j - 1 # n
      BY <1>1, <1>2
    <3>2. j # 1 => su[j - 1] = st[j - 1]
      BY <1>2, <3>1
    <3>3. su[j].place = st[j].place
      BY <1>2
    <3> QED BY <1>2, <1>3, <3>2, <3>3
  <2> QED BY <2>2, <2>3, <2>4 DEF Walks
<1>12. Unbegun(h, su, G)
  <2>1. \A c \in F : h.next[c] \in G \cup {Null}
    BY <1>4, <1>6, <1>9
  <2>2. \A p \in ListParts(h) : p[1] \in F => Target(h, p) \in G
    BY <1>4, <1>9
  <2>3. AheadIn(h, w, 1, G)
    <3>1. f \notin G
      OBVIOUS
    <3>3. f # Null => h.next[f] \in G \cup {Null}
      BY <1>6, <2>1
    <3>2. ASSUME NEW p \in ListParts(h), p[1] = f PROVE Target(h, p) \in G
      <4>1. f \in F
        BY <1>6, <3>2, ListPartIs
      <4> QED BY <2>2, <3>2, <4>1
    <3> QED BY <3>1, <3>2, <3>3 DEF AheadIn
  <2>4. ASSUME NEW j \in DOMAIN st, j # n PROVE AheadIn(h, st[j], Ahead(st)[j], G)
    <3>1. AheadIn(h, st[j], Ahead(st)[j], F)
      BY <1>4
    <3>2. st[j].curr # top.curr
      BY <1>1, <1>3, <1>6, <2>4
    <3>3. st[j].curr \in C \cup {Null}
      BY <1>1 DEF WalkOver
    <3> QED BY <1>9, <3>1, <3>2, <3>3 DEF AheadIn
  <2>5. \A j \in DOMAIN su : AheadIn(h, su[j], Ahead(su)[j], G)
    BY <1>2, <1>5, <2>3, <2>4
  <2> QED BY <2>1, <2>2, <2>5 DEF Unbegun
<1> QED BY <1>11, <1>12

(* What den_det does to the parts, the den or det at q becomes a list, and *)
(* to the walk on top, which goes on behind q in the list that is left.    *)
DetTaken(h, k, q) ==
    /\ q[2] \in DOMAIN h.parts[q[1]] /\ h.parts[q[1]][q[2]].kind = "den_det" /\ q = <<q[1], q[2]>>
    /\ ListParts(k) = ListParts(h) \cup {q}
    /\ \A c \in Clauses(h) : \A i \in DOMAIN k.parts[c] :
         /\ i \in DOMAIN h.parts[c]
         /\ k.parts[c][i].kind = "den_det" => h.parts[c][i].kind = "den_det" /\ <<c, i>> # q
WalkedOn(clauses, st, su, l, q, prev, curr) ==
    \E w \in WalkOver(clauses) :
        LET top == st[Len(st)]
        IN  /\ st # <<>> /\ top.place = l /\ top.prev = prev /\ top.curr = curr /\ top.part = q[2]
            /\ w.place = l /\ w.head = curr /\ w.prev = prev /\ w.curr = curr /\ w.part = q[2] + 1
            /\ su = [st EXCEPT ![Len(st)] = w]

(* den_det keeps the walks that wait: the chains that they are on are not  *)
(* the one it cuts.                                                        *)
LEMMA RelinksWalks ==
    ASSUME NEW h, NEW k, NEW l, NEW n, NEW q, NEW prev, NEW curr,
           Relinked(h, k, l, n, q, prev, curr), LinkedOnce(h), OneDetIn(h), DetTaken(h, k, q),
           NEW st \in Seq(WalkOver(Clauses(h))), Walks(h, st),
           NEW F \in SUBSET Clauses(h), Unbegun(h, st, F),
           \A j \in DOMAIN st : st[j].place \in ListLinks(h),
           NEW su, WalkedOn(Clauses(h), st, su, l, q, prev, curr)
    PROVE  Walks(k, su) /\ Unbegun(k, su, F)
<1> DEFINE C == Clauses(h)
           z == Len(st)
<1> PICK w \in WalkOver(C) :
        /\ st # <<>> /\ st[z].place = l /\ st[z].prev = prev /\ st[z].curr = curr /\ st[z].part = q[2]
        /\ w.place = l /\ w.head = curr /\ w.prev = prev /\ w.curr = curr /\ w.part = q[2] + 1
        /\ su = [st EXCEPT ![z] = w]
  BY DEF WalkedOn
<1> SUFFICES ASSUME NEW top, top = st[z]
             PROVE  Walks(k, su) /\ Unbegun(k, su, F)
  OBVIOUS
<1>0. /\ top.place = l /\ top.prev = prev /\ top.curr = curr /\ top.part = q[2] /\ w.part = top.part + 1
      /\ ListParts(k) = ListParts(h) \cup {q} /\ q[1] = curr /\ q = <<curr, q[2]>>
      /\ q[2] \in DOMAIN h.parts[curr] /\ h.parts[curr][q[2]].kind = "den_det"
      /\ \A c \in Clauses(h) : \A i \in DOMAIN k.parts[c] :
           /\ i \in DOMAIN h.parts[c]
           /\ k.parts[c][i].kind = "den_det" => h.parts[c][i].kind = "den_det" /\ <<c, i>> # q
  BY DEF DetTaken, Relinked
<1> USE <1>0
<1>1. /\ z \in Nat \ {0} /\ z \in DOMAIN st /\ DOMAIN st = 1..z /\ \A j \in DOMAIN st : st[j] \in WalkOver(C)
  BY TopIn
<1>2. /\ Len(su) = z /\ DOMAIN su = DOMAIN st
      /\ su[z] = w /\ \A j \in DOMAIN st : j # z => su[j] = st[j]
  BY TopSet
<1>3. /\ \A j \in DOMAIN st : ComesTo(h, st[j], Ahead(st)[j])
      /\ \A j \in DOMAIN st :
           IF j = 1 THEN st[j].place = <<Null, Null>>
           ELSE st[j - 1].curr # Null /\ st[j].place = <<st[j - 1].curr, st[j - 1].part>>
      /\ \A j, m \in DOMAIN st : st[j].curr # Null /\ st[j].curr = st[m].curr => j = m
  BY DEF Walks
<1>4. /\ \A c \in F : h.next[c] \in F \cup {Null}
      /\ \A p \in ListParts(h) : p[1] \in F => Target(h, p) \in F
      /\ \A j \in DOMAIN st : AheadIn(h, st[j], Ahead(st)[j], F)
  BY DEF Unbegun
<1>5. /\ \A j \in DOMAIN st : j # z => Ahead(su)[j] = Ahead(st)[j]
      /\ Ahead(su)[z] = top.part + 1 /\ Ahead(st)[z] = top.part
  BY <1>1, <1>2 DEF Ahead
<1>6. /\ h.next \in [C -> C \cup {Null}] /\ k.next \in [C -> C \cup {Null}]
      /\ Links(k) = Links(h) \cup {q} /\ l # q /\ l \in Links(h) /\ q \in Links(k)
      /\ n \in Links(h) /\ n # l /\ n # q
  BY RelinkedBasics
<1>7. /\ IsHeap(h) /\ IsHeap(k) /\ Clauses(k) = C /\ Null \notin C /\ prev \in C /\ curr \in C
      /\ l \in ListLinks(h) /\ q \notin Links(h) /\ n = <<prev, 0>>
      /\ k.next = [h.next EXCEPT ![prev] = Null] /\ Reaches(h.next, Target(h, l), prev)
      /\ \A m \in Links(k) :
           Target(k, m) = IF m = l THEN curr
                          ELSE IF m = q THEN Target(h, l)
                          ELSE IF m = n THEN Null ELSE Target(h, m)
  BY DEF Relinked
<1>8. \A p \in ListLinks(h) : p \in Links(h) /\ p # n /\ p # q
  <2> TAKE p \in ListLinks(h)
  <2>1. p \in Links(h) /\ \A c \in C : p # <<c, 0>>
    BY <1>7, LinkTypes
  <2> QED BY <1>7, <2>1
<1>9. top.part \in Nat /\ \A p \in ListParts(h) : p[2] \in Nat /\ p[1] \in C /\ p \in ListLinks(h)
  BY <1>1, <1>7, AheadIsNat, ListPartIs DEF ListLinks
<1>10. Walks(k, su)
  <2>1. ComesTo(k, w, top.part + 1)
    <3>1. Target(k, w.place) = w.head /\ Reaches(k.next, w.head, w.curr)
      BY <1>6, <1>7, ReachesStarts
    <3>2. ASSUME NEW i \in DOMAIN k.parts[curr], i >= top.part + 1, k.parts[curr][i].kind = "den_det"
          PROVE  FALSE
      <4>1. i \in DOMAIN h.parts[curr] /\ h.parts[curr][i].kind = "den_det"
        BY <1>7, <3>2
      <4>2. i = q[2]
        BY <1>7, <4>1 DEF OneDetIn
      <4> QED BY <1>9, <3>2, <4>2
    <3> QED BY <3>1, <3>2 DEF ComesTo
  <2>2. ASSUME NEW j \in DOMAIN st, j # z PROVE ComesTo(k, st[j], Ahead(st)[j])
    <3> DEFINE v == st[j]
               a == Ahead(st)[j]
    <3>1. v \in WalkOver(C) /\ v.place \in ListLinks(h) /\ v.place # l
      BY <1>1, <1>7, <2>2, PlacesDiffer
    <3>2. ComesTo(h, v, a)
      BY <1>3
    <3> HIDE DEF v, a
    <3>3. v.head \in C /\ v.prev \in C \cup {Null} /\ v.curr \in C \cup {Null}
      BY <3>1 DEF WalkOver
    <3>4. Target(k, v.place) = v.head /\ Target(h, v.place) = v.head
      BY <1>6, <1>7, <1>8, <3>1, <3>2 DEF ComesTo
    <3>5. ~Reaches(h.next, v.head, prev)
      BY <1>7, <3>1, <3>4, ChainsApart
    <3>6. \A b \in C : Reaches(h.next, v.head, b) => Reaches(k.next, v.head, b) /\ b # prev
      <4> TAKE b \in C
      <4> HAVE Reaches(h.next, v.head, b)
      <4>1. Reaches([h.next EXCEPT ![prev] = Null], v.head, b)
        BY <1>6, <1>7, <3>3, <3>5, CutKeepsOthers
      <4> QED BY <1>7, <3>5, <4>1
    <3>7. v.curr # Null => Reaches(k.next, v.head, v.curr)
      BY <3>2, <3>3, <3>6 DEF ComesTo
    <3>8. ASSUME v.curr # Null, v.prev # Null,
                 NEW i \in DOMAIN k.parts[v.curr], i >= a, k.parts[v.curr][i].kind = "den_det"
          PROVE  k.next[v.prev] = v.curr /\ Reaches(k.next, v.head, v.prev)
      <4>1. i \in DOMAIN h.parts[v.curr] /\ h.parts[v.curr][i].kind = "den_det"
        BY <3>3, <3>8
      <4>2. h.next[v.prev] = v.curr /\ Reaches(h.next, v.head, v.prev)
        BY <3>2, <3>8, <4>1 DEF ComesTo
      <4>3. v.prev \in C /\ v.prev # prev /\ Reaches(k.next, v.head, v.prev)
        BY <3>3, <3>6, <3>8, <4>2
      <4> QED BY <1>6, <1>7, <4>2, <4>3
    <3>9. ComesTo(k, v, a)
      BY <3>4, <3>7, <3>8 DEF ComesTo
    <3> QED BY <3>9 DEF v, a
  <2>3. \A j \in DOMAIN su : ComesTo(k, su[j], Ahead(su)[j])
    BY <1>2, <1>5, <2>1, <2>2
  <2>4. \A j, m \in DOMAIN su : su[j].curr # Null /\ su[j].curr = su[m].curr => j = m
    BY <1>2, <1>3
  <2>5. ASSUME NEW j \in DOMAIN su
        PROVE  IF j = 1 THEN su[j].place = <<Null, Null>>
               ELSE su[j - 1].curr # Null /\ su[j].place = <<su[j - 1].curr, su[j - 1].part>>
    <3>1. j # 1 => j - 1 \in DOMAIN st /\ j - 1 # z
      BY <1>1, <1>2
    <3>2. j # 1 => su[j - 1] = st[j - 1]
      BY <1>2, <3>1
    <3>3. su[j].place = st[j].place
      BY <1>2
    <3> QED BY <1>2, <1>3, <3>2, <3>3
  <2> QED BY <2>3, <2>4, <2>5 DEF Walks
<1>11. \A j \in DOMAIN st : st[j].curr \notin F
  BY <1>4 DEF AheadIn
<1>12. \A p \in ListParts(h) : p # l => Target(k, p) = Target(h, p)
  BY <1>6, <1>7, <1>8, <1>9
<1>13. \A c \in C, X \in SUBSET C : h.next[c] \in X \cup {Null} => k.next[c] \in X \cup {Null}
  BY <1>6, <1>7
<1>14. z = 1 => l = <<Null, Null>>
  BY <1>1, <1>3
<1>15. z # 1 => /\ z - 1 \in DOMAIN st /\ z - 1 # z /\ l = <<st[z - 1].curr, st[z - 1].part>>
                /\ st[z - 1].curr # Null /\ Ahead(st)[z - 1] = st[z - 1].part + 1 /\ st[z - 1].part \in Nat
  <2>1. z # 1 => z - 1 \in DOMAIN st /\ z - 1 # z
    <3>1. z \in Nat \ {0} /\ DOMAIN st = 1..z
      BY <1>1
    <3> HIDE DEF z
    <3> QED BY <3>1
  <2>2. ASSUME z # 1
        PROVE  Ahead(st)[z - 1] = st[z - 1].part + 1 /\ st[z - 1].part \in Nat
    <3> DEFINE y == z - 1
    <3>1. y \in DOMAIN st /\ y # z
      BY <2>1, <2>2
    <3> HIDE DEF y
    <3>2. Ahead(st)[y] = st[y].part + 1
      BY <3>1 DEF Ahead
    <3>3. st[y].part \in Nat
      BY <3>1, AheadIsNat
    <3> QED BY <3>2, <3>3 DEF y
  <2>3. z # 1 => l = <<st[z - 1].curr, st[z - 1].part>> /\ st[z - 1].curr # Null
    BY <1>1, <1>3
  <2> QED BY <2>1, <2>2, <2>3
<1>16. Unbegun(k, su, F)
  <2>1. \A c \in F : k.next[c] \in F \cup {Null}
    BY <1>4, <1>13
  <2>2. ASSUME NEW p \in ListParts(k), p[1] \in F PROVE Target(k, p) \in F
    <3>1. p # q
      BY <1>1, <1>11, <2>2
    <3>2. p \in ListParts(h) /\ Target(h, p) \in F
      BY <1>4, <2>2, <3>1
    <3>3. p # l
      <4>1. CASE z = 1
        BY <1>7, <1>9, <1>14, <3>2, <4>1
      <4>2. CASE z # 1
        BY <1>11, <1>15, <2>2, <4>2
      <4> QED BY <4>1, <4>2
    <3> QED BY <1>12, <3>2, <3>3
  <2>3. ASSUME NEW j \in DOMAIN st PROVE AheadIn(k, su[j], Ahead(su)[j], F)
    <3>1. AheadIn(h, st[j], Ahead(st)[j], F) /\ su[j].curr = st[j].curr /\ Ahead(st)[j] \in Nat
          /\ Ahead(su)[j] \in Nat /\ Ahead(st)[j] <= Ahead(su)[j] /\ st[j].curr \in C \cup {Null}
      <4>1. AheadIn(h, st[j], Ahead(st)[j], F) /\ su[j].curr = st[j].curr
        <5>1. su[j].curr = st[j].curr
          BY <1>2
        <5> QED BY <1>4, <5>1
      <4>2. Ahead(st)[j] \in Nat
        BY AheadIsNat
      <4>3. Ahead(su)[j] \in Nat /\ Ahead(st)[j] <= Ahead(su)[j]
        <5> DEFINE a == Ahead(st)[j]
                   b == Ahead(su)[j]
        <5>1. a \in Nat /\ top.part \in Nat
          BY <1>9, <4>2
        <5>2. b = a \/ (b = top.part + 1 /\ a = top.part)
          BY <1>5
        <5> HIDE DEF a, b
        <5>3. b \in Nat /\ a <= b
          BY <5>1, <5>2
        <5> QED BY <5>3 DEF a, b
      <4>4. st[j].curr \in C \cup {Null}
        BY <1>1 DEF WalkOver
      <4> QED BY <4>1, <4>2, <4>3, <4>4
    <3>2. st[j].curr \notin F
      BY <1>11
    <3>3. st[j].curr # Null => k.next[st[j].curr] \in F \cup {Null}
      BY <1>13, <3>1 DEF AheadIn
    <3>4. ASSUME NEW p \in ListParts(k), p[1] = st[j].curr, p[2] >= Ahead(su)[j]
          PROVE  Target(k, p) \in F
      <4>1. p # q
        <5>1. CASE j = z
          BY <1>5, <1>9, <3>4, <5>1
        <5>2. CASE j # z
          <6>1. curr # Null /\ st[z].curr = curr /\ z \in DOMAIN st
            BY <1>1, <1>7
          <6>2. st[j].curr # curr
            BY <1>3, <5>2, <6>1
          <6> QED BY <3>4, <6>2
        <5> QED BY <5>1, <5>2
      <4>2. p \in ListParts(h)
        BY <3>4, <4>1
      <4>3. p[2] >= Ahead(st)[j]
        BY <1>9, <3>1, <3>4, <4>2
      <4>4. Target(h, p) \in F
        BY <3>1, <3>4, <4>2, <4>3 DEF AheadIn
      <4>5. p # l
        <5>1. CASE z = 1
          BY <1>7, <1>9, <1>14, <4>2, <5>1
        <5>2. CASE z # 1 /\ j = z - 1
          <6>1. Ahead(su)[j] = st[j].part + 1
            BY <1>5, <1>15, <5>2
          <6>2. l[2] = st[j].part /\ st[j].part \in Nat
            BY <1>15, <5>2
          <6> QED BY <1>9, <3>4, <4>2, <6>1, <6>2
        <5>3. CASE z # 1 /\ j # z - 1
          <6>1. st[j].curr # st[z - 1].curr
            BY <1>3, <1>15, <5>3
          <6> QED BY <1>15, <3>4, <5>3, <6>1
        <5> QED BY <5>1, <5>2, <5>3
      <4> QED BY <1>12, <4>2, <4>4, <4>5
    <3> QED BY <3>1, <3>2, <3>3, <3>4 DEF AheadIn
  <2>4. \A j \in DOMAIN su : AheadIn(k, su[j], Ahead(su)[j], F)
    BY <1>2, <2>3
  <2> QED BY <2>1, <2>2, <2>4 DEF Unbegun
<1> QED BY <1>10, <1>16

-----------------------------------------------------------------------------
(* The lists stay lists.                                                   *)
LEMMA FixupInvInit == ASSUME \A t \in Texts : OneDetIn(t) PROVE FixupInit => FixupInv
<1> SUFFICES ASSUME FixupInit PROVE FixupInv
  OBVIOUS
<1> DEFINE C == Clauses(Heap)
           w == Begin(<<Null, Null>>, list.first)
           F == C \ {list.first}
<1>1. /\ text \in Texts /\ next = text.next /\ parts = text.parts /\ list = text.list /\ stack = <<w>>
  BY DEF FixupInit
<1>2. FixupTypeOK /\ IsHeap(Heap) /\ Null \notin C
  BY FixupTypeInit, TextAssumption DEF FixupTypeOK
<1>3. Heap = text
  BY <1>1, TextAssumption DEF Heap, IsHeap
<1>4. OneDetIn(Heap) /\ EveryClauseOnce /\ Acyclic /\ LastEndsChain
  BY <1>1, <1>3, TextAssumption DEF EveryClauseOnce, Acyclic, LastEndsChain
<1>5. /\ w.place = <<Null, Null>> /\ w.head = list.first /\ w.prev = Null /\ w.curr = list.first /\ w.part = 1
  BY DEF Begin
<1>6. list.first \in C /\ Target(Heap, <<Null, Null>>) = list.first /\ <<Null, Null>> \in ListLinks(Heap)
  BY <1>2, HeapIs, LinkTypes DEF Target, ListLinks, HeapFields
<1>7. \A m \in Links(Heap) : Target(Heap, m) = list.first => m = <<Null, Null>>
  <2>1. <<Null, Null>> \in Links(Heap)
    BY <1>2, <1>6, LinkTypes
  <2> QED BY <1>4, <1>6, <2>1 DEF EveryClauseOnce, LinkedOnce
<1> HIDE DEF w, F, C
<1>8. Len(stack) = 1 /\ DOMAIN stack = {1} /\ stack[1] = w
  BY <1>1
<1>9. Ahead(stack)[1] = 1
  BY <1>5, <1>8 DEF Ahead
<1>10. Heap.next \in [C -> C \cup {Null}]
  BY <1>2 DEF IsHeap, C
<1>11. Walks(Heap, stack)
  <2>1. Reaches(Heap.next, list.first, list.first)
    BY <1>6, <1>10 DEF Reaches
  <2>2. ComesTo(Heap, w, 1)
    BY <1>5, <1>6, <2>1 DEF ComesTo
  <2> QED BY <1>5, <1>8, <1>9, <2>2 DEF Walks
<1>12. Unbegun(Heap, stack, F)
  <2>1. \A c \in C : Heap.next[c] \in F \cup {Null}
    <3> TAKE c \in C
    <3>1. <<c, 0>> \in Links(Heap) /\ Target(Heap, <<c, 0>>) = Heap.next[c] /\ <<c, 0>> # <<Null, Null>>
      BY <1>2, LinkTypes DEF C
    <3>2. Heap.next[c] # list.first /\ Heap.next[c] \in C \cup {Null}
      BY <1>7, <1>10, <3>1
    <3> QED BY <3>2 DEF F
  <2>2. \A p \in ListParts(Heap) : Target(Heap, p) \in F
    <3> TAKE p \in ListParts(Heap)
    <3>1. p \in ListLinks(Heap) /\ p # <<Null, Null>>
      BY <1>2, ListPartIs DEF ListLinks, C
    <3>2. p \in Links(Heap) /\ Target(Heap, p) \in C
      BY <1>2, <3>1, LinkTypes DEF C
    <3> QED BY <1>7, <3>1, <3>2 DEF F
  <2>3. AheadIn(Heap, w, 1, F)
    BY <1>5, <1>6, <2>1, <2>2 DEF AheadIn, F, C
  <2> QED BY <1>8, <1>9, <2>1, <2>2, <2>3 DEF Unbegun, F
<1> QED BY <1>2, <1>4, <1>11, <1>12 DEF FixupInv, F, C

LEMMA DenDetRelinks ==
    ASSUME FixupInv, DenDet, NEW n, n = <<Walk.prev, 0>>, NEW q, q = <<Walk.curr, Walk.part>>
    PROVE  Relinked(Heap, Heap', Walk.place, n, q, Walk.prev, Walk.curr)
<1> DEFINE C == Clauses(Heap)
           l == Walk.place
           top == stack[Len(stack)]
<1>1. FixupTypeOK /\ Walks(Heap, stack) /\ IsHeap(Heap)
  BY DEF FixupInv, FixupTypeOK
<1>2. AtPart /\ Part.kind = "den_det" /\ Walk.prev # Null
  BY DEF DenDet, AtDenDet
<1>3. /\ Null \notin C /\ Walk.curr \in C /\ Walk.part \in DOMAIN parts[Walk.curr] /\ Walk.part \in Nat \ {0}
      /\ Len(stack) \in DOMAIN stack /\ l \in ListLinks(Heap)
  BY <1>1, <1>2, AtPartIs
<1>4. /\ IsHeap(Heap') /\ Clauses(Heap') = C /\ ListParts(Heap') = ListParts(Heap) \cup {q}
      /\ q \notin Links(Heap)
      /\ \A m \in Links(Heap') :
           Target(Heap', m) = IF m = l THEN Walk.curr
                              ELSE IF m = q THEN Walk.head
                              ELSE IF m = n THEN Null ELSE Target(Heap, m)
      /\ \A m \in ListLinks(Heap') : EndOf(Heap', m) = IF m = q THEN Walk.prev ELSE EndOf(Heap, m)
  BY <1>1, DenDetHeap
<1>5. Walk.prev \in C /\ Heap'.next = [Heap.next EXCEPT ![Walk.prev] = Null]
  BY <1>1, HeapIs, DenDetParts DEF HeapFields
<1>6. ComesTo(Heap, Walk, Walk.part)
  <2>1. ComesTo(Heap, top, Ahead(stack)[Len(stack)]) /\ Ahead(stack)[Len(stack)] = top.part
    BY <1>1, <1>3 DEF Walks, Ahead
  <2> QED BY <2>1 DEF Walk
<1>7. Target(Heap, l) = Walk.head
  BY <1>6 DEF ComesTo
<1>8. Heap.next[Walk.prev] = Walk.curr /\ Reaches(Heap.next, Walk.head, Walk.prev)
  <2>1. Walk.part \in DOMAIN Heap.parts[Walk.curr] /\ Heap.parts[Walk.curr][Walk.part].kind = "den_det"
        /\ Walk.part >= Walk.part /\ Walk.curr # Null
    BY <1>2, <1>3, HeapIs DEF HeapFields, Part
  <2> QED BY <1>2, <1>6, <2>1 DEF ComesTo
<1>9. ListLinks(Heap') = ListLinks(Heap) \cup {q} /\ q[1] = Walk.curr
  BY <1>4 DEF ListLinks
<1> QED BY <1>1, <1>3, <1>4, <1>5, <1>7, <1>8, <1>9 DEF Relinked

(* den_det takes a den or det away and makes none.                         *)
LEMMA DenDetTakesOne ==
    ASSUME FixupTypeOK, DenDet, NEW q, q = <<Walk.curr, Walk.part>>
    PROVE  \A c \in Clauses(Heap) : \A i \in DOMAIN Heap'.parts[c] :
               /\ i \in DOMAIN Heap.parts[c]
               /\ Heap'.parts[c][i].kind = "den_det" => Heap.parts[c][i].kind = "den_det" /\ <<c, i>> # q
<1> DEFINE l == Walk.place
<1>1. /\ \A d \in Clauses(Heap) : DOMAIN parts'[d] = DOMAIN parts[d]
      /\ parts'[Walk.curr][Walk.part] = NewList
      /\ l # <<Null, Null>> => parts'[l[1]][l[2]] = [parts[l[1]][l[2]] EXCEPT !.first = Walk.curr]
      /\ \A d \in Clauses(Heap) : \A j \in DOMAIN parts[d] :
           <<d, j>> # q /\ <<d, j>> # l => parts'[d][j] = parts[d][j]
  BY DenDetParts
<1>2. l \in ListLinks(Heap) /\ IsHeap(Heap)
  BY AtPartIs DEF DenDet, AtDenDet, FixupTypeOK
<1>3. l # <<Null, Null>> =>
        parts[l[1]][l[2]] \in [kind : {"list"}, flag : BOOLEAN, first : Clauses(Heap), last : Clauses(Heap)]
  BY <1>2, HeapIs, ListPartIs DEF ListLinks, HeapFields
<1>4. l # <<Null, Null>> => parts'[l[1]][l[2]].kind = "list"
  BY <1>1, <1>3
<1>5. SUFFICES ASSUME NEW c \in Clauses(Heap), NEW i \in DOMAIN parts'[c]
               PROVE  /\ i \in DOMAIN parts[c]
                      /\ parts'[c][i].kind = "den_det" => parts[c][i].kind = "den_det" /\ <<c, i>> # q
  BY HeapIs DEF HeapFields
<1>6. i \in DOMAIN parts[c]
  BY <1>1
<1>7. CASE <<c, i>> = q
  <2>1. parts'[c][i] = NewList
    BY <1>1, <1>7
  <2>2. NewList.kind = "list"
    BY DEF NewList
  <2> QED BY <1>6, <2>1, <2>2
<1>8. CASE <<c, i>> # q /\ <<c, i>> = l
  <2>1. l[1] = c /\ l[2] = i /\ c # Null
    BY <1>8, TextAssumption DEF FixupTypeOK
  <2>2. l # <<Null, Null>>
    BY <1>8, <2>1
  <2> QED BY <1>4, <1>6, <2>1, <2>2
<1>9. CASE <<c, i>> # q /\ <<c, i>> # l
  BY <1>1, <1>6, <1>9
<1> QED BY <1>7, <1>8, <1>9

LEMMA DenDetKeeps == FixupInv /\ DenDet => FixupInv'
<1> SUFFICES ASSUME FixupInv, DenDet PROVE FixupInv'
  OBVIOUS
<1> DEFINE C == Clauses(Heap)
           l == Walk.place
           n == <<Walk.prev, 0>>
           q == <<Walk.curr, Walk.part>>
           w == [Advance(Walk) EXCEPT !.head = Walk.curr]
<1>1. /\ FixupTypeOK /\ OneDetIn(Heap) /\ LinkedOnce(Heap) /\ NoCircle(Heap) /\ LastsEnd(Heap)
      /\ Walks(Heap, stack) /\ stack \in Seq(WalkOver(C))
      /\ \A j \in DOMAIN stack : stack[j].place \in ListLinks(Heap)
  BY DEF FixupInv, EveryClauseOnce, Acyclic, LastEndsChain, FixupTypeOK
<1>2. FixupTypeOK'
  BY <1>1, FixupTypeStep DEF FixupNext
<1>3. /\ w \in WalkOver(C) /\ w.place = l /\ w.head = Walk.curr /\ w.prev = Walk.prev
      /\ w.curr = Walk.curr /\ w.part = Walk.part + 1
      /\ stack # <<>> /\ stack' = [stack EXCEPT ![Len(stack)] = w]
  BY <1>1, DenDetWalk
<1>4. n = <<Walk.prev, 0>> /\ q = <<Walk.curr, Walk.part>> /\ q = <<Walk.curr, q[2]>> /\ q[2] = Walk.part
  OBVIOUS
<1>5. Walk.part \in DOMAIN Heap.parts[Walk.curr] /\ Heap.parts[Walk.curr][Walk.part].kind = "den_det"
      /\ Walk.curr \in C
  BY <1>1, HeapIs, AtPartIs DEF DenDet, AtDenDet, Part, HeapFields
<1>6. ListParts(Heap') = ListParts(Heap) \cup {q} /\ Clauses(Heap') = C
  BY <1>1, DenDetHeap
<1> HIDE DEF n, q, w
<1>7. Relinked(Heap, Heap', l, n, q, Walk.prev, Walk.curr)
  BY <1>4, DenDetRelinks
<1>8. \A c \in C : \A i \in DOMAIN Heap'.parts[c] :
        /\ i \in DOMAIN Heap.parts[c]
        /\ Heap'.parts[c][i].kind = "den_det" => Heap.parts[c][i].kind = "den_det" /\ <<c, i>> # q
  BY <1>1, <1>4, DenDetTakesOne
<1> HIDE DEF C
<1>9. LinkedOnce(Heap')
  BY <1>1, <1>7, RelinkedOnce
<1>10. NoCircle(Heap')
  BY <1>1, <1>7, RelinkedNoCircle
<1>11. LastsEnd(Heap')
  BY <1>1, <1>7, RelinkedEnds
<1>12. OneDetIn(Heap')
  BY <1>1, <1>6, <1>8 DEF OneDetIn, C
<1>13. PICK F \in SUBSET C : Unbegun(Heap, stack, F)
  BY DEF FixupInv, C
<1>14. Walks(Heap', stack') /\ Unbegun(Heap', stack', F)
  <2>1. DetTaken(Heap, Heap', q)
    BY <1>4, <1>5, <1>6, <1>8 DEF DetTaken, C, q
  <2>2. Walk = stack[Len(stack)]
    BY DEF Walk
  <2>3. WalkedOn(C, stack, stack', l, q, Walk.prev, Walk.curr)
    BY <1>3, <1>4, <2>2 DEF WalkedOn
  <2> QED BY <1>1, <1>7, <1>13, <2>1, <2>3, RelinksWalks DEF C
<1> QED
  BY <1>2, <1>6, <1>9, <1>10, <1>11, <1>12, <1>13, <1>14
     DEF FixupInv, EveryClauseOnce, Acyclic, LastEndsChain, C

LEMMA FixupInvStep == FixupInv /\ [FixupNext]_fixupVars => FixupInv'
<1> SUFFICES ASSUME FixupInv, [FixupNext]_fixupVars PROVE FixupInv'
  OBVIOUS
<1> DEFINE C == Clauses(Heap)
<1>1. FixupTypeOK /\ FixupTypeOK'
  BY FixupTypeStep DEF FixupInv
<1>2. /\ OneDetIn(Heap) /\ EveryClauseOnce /\ Acyclic /\ LastEndsChain /\ LinkedOnce(Heap)
      /\ Walks(Heap, stack) /\ IsHeap(Heap) /\ Null \notin C /\ stack \in Seq(WalkOver(C))
  BY TextAssumption DEF FixupInv, FixupTypeOK, EveryClauseOnce
<1>3. PICK F \in SUBSET C : Unbegun(Heap, stack, F)
  BY DEF FixupInv
<1> HIDE DEF C
<1>4. ASSUME UNCHANGED <<next, parts, list>>, NEW G \in SUBSET C, Walks(Heap, stack'), Unbegun(Heap, stack', G)
      PROVE  FixupInv'
  <2>1. Heap' = Heap
    BY <1>4 DEF Heap
  <2> QED BY <1>1, <1>2, <1>4, <2>1 DEF FixupInv, EveryClauseOnce, Acyclic, LastEndsChain, C
<1>5. CASE KeepPart
  <2>1. stack # <<>> /\ stack' = [stack EXCEPT ![Len(stack)] = Advance(stack[Len(stack)])]
        /\ UNCHANGED <<next, parts, list>>
    BY <1>1, <1>5, AtPartIs DEF KeepPart, SetWalk, Walk
  <2>2. Walks(Heap, stack') /\ Unbegun(Heap, stack', F)
    BY <1>2, <1>3, <2>1, KeepsWalks DEF C
  <2> QED BY <1>4, <2>1, <2>2
<1>6. CASE EnterList
  <2> DEFINE w == Begin(<<Walk.curr, Walk.part>>, Part.first)
  <2>1. AtPart /\ Part.kind = "list" /\ stack' = Append(stack, w) /\ UNCHANGED <<next, parts, list>>
    BY <1>6 DEF EnterList
  <2>2. /\ w \in WalkOver(C) /\ w.place = <<Walk.curr, Walk.part>> /\ w.head = Part.first /\ w.prev = Null
        /\ w.curr = Part.first /\ w.part = 1
        /\ w.place \in ListParts(Heap) /\ Target(Heap, w.place) = Part.first /\ Part.first \in C
    BY <1>1, <2>1, BegunIs DEF C
  <2>3. stack # <<>> /\ Walk.curr \in C /\ Walk = stack[Len(stack)]
    BY <1>1, <2>1, AtPartIs DEF C, Walk
  <2> HIDE DEF w
  <2>4. Walks(Heap, stack') /\ Unbegun(Heap, stack', F \ {w.curr})
    BY <1>2, <1>3, <2>1, <2>2, <2>3, EntersWalks DEF C
  <2> QED BY <1>4, <2>1, <2>4
<1>7. CASE DenDet
  BY <1>7, DenDetKeeps
<1>8. CASE DenDetFirst
  <2>1. UNCHANGED <<next, parts, list, stack>>
    BY <1>8 DEF DenDetFirst
  <2> QED BY <1>2, <1>3, <1>4, <2>1
<1>9. CASE NextClause
  <2> DEFINE w == Moved(Walk, Walk.curr, next[Walk.curr])
  <2>1. /\ w \in WalkOver(C) /\ w.place = Walk.place /\ w.head = Walk.head /\ w.prev = Walk.curr
        /\ w.curr = next[Walk.curr] /\ w.part = 1 /\ Walk.curr \in C
        /\ stack # <<>> /\ stack' = [stack EXCEPT ![Len(stack)] = w]
    BY <1>1, <1>9, ClauseEndIs DEF C
  <2> HIDE DEF w
  <2>2. Heap.next[Walk.curr] = next[Walk.curr] /\ Walk = stack[Len(stack)] /\ UNCHANGED <<next, parts, list>>
    BY <1>9, HeapIs DEF HeapFields, Walk, NextClause
  <2>3. Walks(Heap, stack') /\ Unbegun(Heap, stack', F \ {w.curr})
    BY <1>2, <1>3, <2>1, <2>2, MovesWalks DEF C
  <2> QED BY <1>4, <2>2, <2>3
<1>10. CASE LeaveList
  <2>1. Popped(C, stack, stack', Len(stack) - 1) /\ UNCHANGED <<next, parts, list>>
    BY <1>1, <1>10, LeaveListIs DEF LeaveList, C
  <2>2. Walks(Heap, stack') /\ Unbegun(Heap, stack', F)
    BY <1>2, <1>3, <2>1, LeavesWalks DEF C
  <2> QED BY <1>4, <2>1, <2>2
<1>11. CASE UNCHANGED fixupVars
  <2>1. UNCHANGED <<next, parts, list, stack>>
    BY <1>11 DEF fixupVars
  <2> QED BY <1>2, <1>3, <1>4, <2>1
<1> QED BY <1>5, <1>6, <1>7, <1>8, <1>9, <1>10, <1>11 DEF FixupNext

LEMMA FixupInvHolds == ASSUME \A t \in Texts : OneDetIn(t) PROVE FixupSpec => []FixupInv
BY FixupInvInit, FixupInvStep, PTL DEF FixupSpec

(* While den and det are rewritten, and after it, no clause is part of     *)
(* itself: dk_check_clause and dk_emit_expr, which recurse over the lists, *)
(* return.  It is said of every text in which no clause has two den or     *)
(* det; with two of them the list at the second contains its own clause.   *)
THEOREM RewritingMakesNoCircle ==
    ASSUME \A t \in Texts : OneDetIn(t)
    PROVE  FixupSpec => []Acyclic
<1>1. FixupInv => Acyclic
  BY DEF FixupInv
<1> QED BY <1>1, FixupInvHolds, PTL

(* No clause is lost and none is linked from two places, although the list *)
(* a clause is in, the list it is moved to and the next before it are      *)
(* changed one after the other while outer walks wait on lists around it.  *)
THEOREM RewritingLosesNoClause ==
    ASSUME \A t \in Texts : OneDetIn(t)
    PROVE  FixupSpec => []EveryClauseOnce
<1>1. FixupInv => EveryClauseOnce
  BY DEF FixupInv
<1> QED BY <1>1, FixupInvHolds, PTL

(* The last pointer of every list, of those that den_det has shortened at  *)
(* the front and of those it made, is the end of the list's chain.         *)
THEOREM RewritingKeepsLasts ==
    ASSUME \A t \in Texts : OneDetIn(t)
    PROVE  FixupSpec => []LastEndsChain
<1>1. FixupInv => LastEndsChain
  BY DEF FixupInv
<1> QED BY <1>1, FixupInvHolds, PTL
=============================================================================
