----------------------------- MODULE BaseProofs ------------------------------
(***************************************************************************)
(* Proofs about the base layer: the arena, for every header, request,      *)
(* capacity and kind and any number of blocks and marks; and the hash map, *)
(* which implements a dictionary, for any keys, hash function and          *)
(* capacities, while it grows too.                                         *)
(***************************************************************************)
EXTENDS BaseArena, BaseMap, SequenceTheorems, FiniteSetTheorems, WellFoundedInduction, TLAPS

-----------------------------------------------------------------------------
(* THE ARENA                                                               *)

(* The types of the arena's state.                                         *)
ArenaTypeOK ==
    /\ blocks \in Seq(Block) /\ curr \in 1 .. Len(blocks)
    /\ marks \in Seq(Mark)
    /\ live \in SUBSET Place

(* Positions lie between header and capacity, and no block is smaller than *)
(* the first one, whose position a mark takes along.                       *)
BlocksOK ==
    \A b \in 1 .. Len(blocks) : /\ Header <= blocks[b].pos /\ blocks[b].pos <= blocks[b].cap
                                /\ blocks[1].cap <= blocks[b].cap

(* The places of L lie in the first c blocks and below their positions,    *)
(* the first block's being pos.                                            *)
Held(bs, L, c, pos) ==
    \A q \in L : /\ q.block \in 1 .. c
                 /\ Header <= q.from /\ q.from <= q.to
                 /\ q.to <= (IF q.block = 1 THEN pos ELSE bs[q.block].pos)

LiveHeld == Held(blocks, live, curr, blocks[1].pos)

(* What was live at a mark is live, and still below the positions that the *)
(* mark would restore; a later mark was taken no earlier in the chain.     *)
MarkIn(bs, c, L, m) ==
    /\ m.curr \in 1 .. c
    /\ Header <= m.pos /\ m.pos <= bs[1].cap
    /\ Held(bs, m.live, m.curr, m.pos)
    /\ m.live \subseteq L

MarksOK == \A i \in 1 .. Len(marks) : MarkIn(blocks, curr, live, marks[i])

Nested ==
    \A i, j \in 1 .. Len(marks) : i < j => /\ marks[i].curr <= marks[j].curr
                                           /\ marks[i].live \subseteq marks[j].live

FailedOK == failed # "mark" /\ (failed = "overflow" => kind = "fixed")

ArenaInv == ArenaTypeOK /\ BlocksOK /\ LiveHeld /\ MarksOK /\ Nested /\ LiveDisjoint /\ FailedOK

-----------------------------------------------------------------------------
(* i64_align_to_pow2 never moves a position back.                          *)
LEMMA AlignUpGrows ==
    ASSUME NEW pos \in Nat, NEW align \in Nat \ {0}
    PROVE  AlignUp(pos, align) \in Nat /\ pos <= AlignUp(pos, align)
  <1>1. (align - (pos % align)) % align \in Nat
    BY SMT
  <1> QED
    BY <1>1 DEF AlignUp

(* What an allocation leaves behind, in whichever block it ends: the       *)
(* blocks up to the current one are as they were, except for the one that  *)
(* was filled, and that only above its position.                           *)
Filled(b, from, size) ==
    /\ b \in curr .. Len(blocks') /\ curr' = b
    /\ from \in Nat /\ Header <= from
    /\ b = curr => blocks[b].pos <= from
    /\ blocks' \in Seq(Block) /\ Len(blocks) <= Len(blocks')
    /\ blocks'[b].pos = from + size
    /\ \A d \in 1 .. curr : d # b => blocks'[d].pos = blocks[d].pos
    /\ blocks'[1].cap = blocks[1].cap
    /\ BlocksOK'
    /\ live' = live \cup {[block |-> b, from |-> from, to |-> from + size]}

LEMMA TakeInFills ==
    ASSUME ArenaTypeOK, BlocksOK, NEW r \in [size : Nat, align : Nat \ {0}],
           NEW b \in curr .. Len(blocks), NEW from \in Nat, Header <= from,
           b = curr => blocks[b].pos <= from,
           from + r.size <= blocks[b].cap, TakeIn(b, from, r)
    PROVE  Filled(b, from, r.size)
  <1> USE HeaderAssumption
  <1> DEFINE F(d) == IF d = b THEN [blocks[d] EXCEPT !.pos = from + r.size]
                     ELSE IF curr < d /\ d < b THEN Reset(d) ELSE blocks[d]
  <1>1. blocks' = [d \in 1 .. Len(blocks) |-> F(d)]
    BY DEF TakeIn
  <1>2. \A d \in 1 .. Len(blocks) : blocks[d] \in Block
    BY DEF ArenaTypeOK
  <1>3. \A d \in 1 .. Len(blocks) : F(d) \in Block /\ F(d).cap = blocks[d].cap
    BY <1>2 DEF Block, Reset
  <1>4. blocks' \in Seq(Block) /\ Len(blocks') = Len(blocks)
    <2>1. \A d \in 1 .. Len(blocks) : F(d) \in Block
      BY <1>3
    <2> HIDE DEF F
    <2> QED
      BY <1>1, <2>1 DEF ArenaTypeOK
  <1>5. \A d \in 1 .. Len(blocks) : blocks'[d] = F(d)
    BY <1>1
  <1>6. F(b).pos = from + r.size
    BY <1>2 DEF ArenaTypeOK, Block
  <1>7. \A d \in 1 .. Len(blocks) : Header <= F(d).pos /\ F(d).pos <= F(d).cap
    <2> TAKE d \in 1 .. Len(blocks)
    <2>1. CASE d = b
      BY <2>1, <1>6, <1>3
    <2>2. CASE d # b /\ curr < d /\ d < b
      BY <2>2, <1>2 DEF Reset, BlocksOK, Block
    <2>3. CASE d # b /\ ~(curr < d /\ d < b)
      BY <2>3 DEF BlocksOK
    <2> QED
      BY <2>1, <2>2, <2>3
  <1>8. BlocksOK'
    <2>1. 1 \in 1 .. Len(blocks)
      BY DEF ArenaTypeOK
    <2> HIDE DEF F
    <2> QED
      BY <1>3, <1>4, <1>5, <1>7, <2>1 DEF BlocksOK
  <1>9. \A d \in 1 .. curr : d # b => F(d).pos = blocks[d].pos
    BY DEF ArenaTypeOK
  <1>10. 1 \in 1 .. Len(blocks) /\ curr \in 1 .. Len(blocks) /\ b \in 1 .. Len(blocks)
    BY DEF ArenaTypeOK
  <1>11. \A d \in 1 .. curr : d \in 1 .. Len(blocks)
    BY <1>10
  <1> HIDE DEF F
  <1>12. blocks'[b].pos = from + r.size /\ blocks'[1].cap = blocks[1].cap
    BY <1>3, <1>5, <1>6, <1>10
  <1>13. \A d \in 1 .. curr : d # b => blocks'[d].pos = blocks[d].pos
    BY <1>5, <1>9, <1>11
  <1>14. curr' = b /\ live' = live \cup {[block |-> b, from |-> from, to |-> from + r.size]}
    BY DEF TakeIn, Take
  <1> QED
    BY <1>4, <1>8, <1>10, <1>12, <1>13, <1>14 DEF Filled

LEMMA TakeInNewFills ==
    ASSUME ArenaTypeOK, BlocksOK, NEW r \in [size : Nat, align : Nat \ {0}], NEW cap \in Nat,
           Wanted(r) <= cap, TakeInNew(cap, r)
    PROVE  Filled(Len(blocks) + 1, AlignUp(Header, r.align), r.size)
  <1> USE HeaderAssumption
  <1> DEFINE b == Len(blocks) + 1
             from == AlignUp(Header, r.align)
             F(d) == IF d = b THEN [pos |-> from + r.size, cap |-> cap]
                     ELSE IF curr < d THEN Reset(d) ELSE blocks[d]
  <1>1. from \in Nat /\ Header <= from
    BY AlignUpGrows
  <1>2. \A d \in 1 .. Len(blocks) : blocks[d] \in Block
    BY DEF ArenaTypeOK
  <1>3. 1 \in 1 .. Len(blocks) /\ Len(blocks) \in Nat \ {0} /\ curr \in 1 .. Len(blocks)
    BY DEF ArenaTypeOK
  <1>4. LastCap \in Nat /\ blocks[1].cap <= LastCap
    BY <1>2, <1>3 DEF LastCap, Block, BlocksOK
  <1>5. r.size + from <= cap /\ LastCap <= cap
    <2> DEFINE next_cap == IF kind = "exponential" THEN LastCap * 2 ELSE LastCap
               need     == r.size + from
    <2>1. next_cap \in Nat /\ LastCap <= next_cap /\ need \in Nat
      BY <1>1, <1>4
    <2>2. Wanted(r) = IF next_cap < need THEN need ELSE next_cap
      BY DEF Wanted
    <2> HIDE DEF next_cap, need
    <2>3. need <= cap /\ next_cap <= cap
      BY <2>1, <2>2
    <2> QED
      BY <2>1, <2>3, <1>4 DEF need
  <1>6. blocks' = [d \in 1 .. b |-> F(d)] /\ live' = live \cup {[block |-> b, from |-> from, to |-> from + r.size]} /\ curr' = b
    BY DEF TakeInNew, Take
  <1> HIDE DEF from
  <1>7. \A d \in 1 .. Len(blocks) : F(d) \in Block /\ F(d).cap = blocks[d].cap
    BY <1>2, <1>3 DEF Block, Reset
  <1>8. F(b) \in Block /\ F(b).pos = from + r.size /\ F(b).cap = cap
    BY <1>1 DEF Block
  <1>9. \A d \in 1 .. Len(blocks) : Header <= F(d).pos /\ F(d).pos <= F(d).cap
    <2> TAKE d \in 1 .. Len(blocks)
    <2>1. CASE curr < d
      BY <2>1, <1>2, <1>3 DEF Reset, BlocksOK, Block
    <2>2. CASE ~(curr < d)
      BY <2>2, <1>3 DEF BlocksOK
    <2> QED
      BY <2>1, <2>2
  <1>10. \A d \in 1 .. curr : d \in 1 .. Len(blocks) /\ F(d).pos = blocks[d].pos
    BY <1>3
  <1>11. 1 .. b = 1 .. Len(blocks) \cup {b} /\ b \notin 1 .. Len(blocks)
    BY <1>3
  <1>12. b \in curr .. b /\ b # curr /\ b \in Nat
    BY <1>3
  <1> HIDE DEF F
  <1>13. \A d \in 1 .. b : F(d) \in Block
    BY <1>7, <1>8, <1>11
  <1> HIDE DEF b
  <1>14. blocks' \in Seq(Block) /\ Len(blocks') = b
    BY <1>6, <1>12, <1>13
  <1>15. \A d \in 1 .. b : blocks'[d] = F(d)
    BY <1>6
  <1>16. \A d \in 1 .. b : Header <= F(d).pos /\ F(d).pos <= F(d).cap /\ blocks[1].cap <= F(d).cap
    <2>1. Header <= F(b).pos /\ F(b).pos <= F(b).cap /\ blocks[1].cap <= F(b).cap
      BY <1>1, <1>2, <1>3, <1>4, <1>5, <1>8 DEF Block
    <2>2. \A d \in 1 .. Len(blocks) : blocks[1].cap <= F(d).cap
      BY <1>7 DEF BlocksOK
    <2> QED
      BY <1>9, <1>11, <2>1, <2>2
  <1>17. blocks'[1].cap = blocks[1].cap
    BY <1>3, <1>7, <1>11, <1>15
  <1>18. BlocksOK'
    BY <1>14, <1>15, <1>16, <1>17 DEF BlocksOK
  <1>19. \A d \in 1 .. curr : d # b => blocks'[d].pos = blocks[d].pos
    BY <1>10, <1>11, <1>15
  <1>20. blocks'[b].pos = from + r.size
    BY <1>8, <1>11, <1>15
  <1>21. Len(blocks) <= Len(blocks')
    BY <1>3, <1>14 DEF b
  <1>22. Filled(b, from, r.size)
    BY <1>1, <1>6, <1>12, <1>14, <1>17, <1>18, <1>19, <1>20, <1>21 DEF Filled
  <1> QED
    BY <1>22 DEF b, from

LEMMA AllocateFills ==
    ASSUME ArenaTypeOK, BlocksOK, NEW r \in [size : Nat, align : Nat \ {0}], Allocate(r)
    PROVE  /\ \E b \in Nat : \E from \in Nat : Filled(b, from, r.size)
           /\ UNCHANGED <<kind, failed>>
  <1> USE HeaderAssumption
  <1>1. curr \in 1 .. Len(blocks) /\ blocks[curr] \in Block /\ Len(blocks) \in Nat
    BY DEF ArenaTypeOK
  <1>2. Header <= blocks[curr].pos /\ blocks[curr].pos \in Nat
    BY <1>1 DEF BlocksOK, Block
  <1>3. CASE Here(r) /\ TakeIn(curr, AlignUp(blocks[curr].pos, r.align), r)
    <2> DEFINE from == AlignUp(blocks[curr].pos, r.align)
    <2>1. from \in Nat /\ blocks[curr].pos <= from
      BY <1>2, AlignUpGrows
    <2>2. from + r.size <= blocks[curr].cap
      BY <1>3 DEF Here, FitsAt
    <2> HIDE DEF from
    <2>3. Header <= from /\ curr \in curr .. Len(blocks)
      BY <1>1, <1>2, <2>1
    <2>4. Filled(curr, from, r.size)
      BY <1>3, <2>1, <2>2, <2>3, TakeInFills DEF from
    <2> QED
      BY <1>1, <2>1, <2>4, <1>3 DEF Allocate
  <1>4. ASSUME NEW b \in Later(r), TakeIn(b, AlignUp(Header, r.align), r)
        PROVE  \E d \in Nat : \E from \in Nat : Filled(d, from, r.size)
    <2> DEFINE from == AlignUp(Header, r.align)
    <2>1. from \in Nat /\ Header <= from
      BY AlignUpGrows
    <2>2. b \in curr .. Len(blocks) /\ b # curr /\ b \in Nat
      BY <1>1, <1>4 DEF Later
    <2>3. from + r.size <= blocks[b].cap
      BY <1>4 DEF Later, FitsAt
    <2>4. Filled(b, from, r.size)
      BY <1>4, <2>1, <2>2, <2>3, TakeInFills
    <2> QED
      BY <2>1, <2>2, <2>4
  <1>5. ASSUME NEW cap \in Powers, IsRounded(cap, Wanted(r)), TakeInNew(cap, r)
        PROVE  \E d \in Nat : \E from \in Nat : Filled(d, from, r.size)
    <2>1. cap \in Nat /\ Wanted(r) <= cap
      BY <1>5, PowersAssumption DEF IsRounded
    <2>2. Filled(Len(blocks) + 1, AlignUp(Header, r.align), r.size)
      BY <1>5, <2>1, TakeInNewFills
    <2>3. AlignUp(Header, r.align) \in Nat
      BY AlignUpGrows
    <2>4. Len(blocks) + 1 \in Nat
      BY <1>1
    <2> QED
      BY <2>2, <2>3, <2>4
  <1> QED
    BY <1>3, <1>4, <1>5 DEF Allocate

-----------------------------------------------------------------------------
LEMMA InitArena == ArenaInit => ArenaInv
  <1> USE HeaderAssumption
  <1> SUFFICES ASSUME ArenaInit PROVE ArenaInv
    OBVIOUS
  <1>1. blocks \in Seq(Block) /\ Len(blocks) = 1 /\ blocks[1] = [pos |-> Header, cap |-> FirstCap]
    BY DEF ArenaInit, Block
  <1>2. ArenaTypeOK
    BY <1>1 DEF ArenaInit, ArenaTypeOK
  <1>3. BlocksOK
    BY <1>1 DEF BlocksOK
  <1>4. LiveHeld /\ MarksOK /\ Nested /\ LiveDisjoint /\ FailedOK
    BY DEF ArenaInit, LiveHeld, Held, MarksOK, Nested, LiveDisjoint, FailedOK
  <1> QED
    BY <1>2, <1>3, <1>4 DEF ArenaInv

(* What is held stays held in more blocks and below higher positions.      *)
LEMMA HeldGrows ==
    ASSUME NEW bs, NEW bs2, NEW L \in SUBSET Place, NEW c \in Nat, NEW c2 \in Nat, c <= c2,
           NEW pos \in Nat, NEW pos2 \in Nat, pos <= pos2,
           \A d \in 1 .. c : bs[d].pos \in Nat /\ bs2[d].pos \in Nat /\ bs[d].pos <= bs2[d].pos,
           Held(bs, L, c, pos)
    PROVE  Held(bs2, L, c2, pos2)
  <1> SUFFICES ASSUME NEW q \in L
               PROVE  /\ q.block \in 1 .. c2 /\ Header <= q.from /\ q.from <= q.to
                      /\ q.to <= (IF q.block = 1 THEN pos2 ELSE bs2[q.block].pos)
    BY DEF Held
  <1>1. /\ q.block \in 1 .. c /\ Header <= q.from /\ q.from <= q.to
        /\ q.to <= (IF q.block = 1 THEN pos ELSE bs[q.block].pos)
    BY DEF Held
  <1>2. q.to \in Nat
    BY DEF Place
  <1>3. bs[q.block].pos \in Nat /\ bs2[q.block].pos \in Nat /\ bs[q.block].pos <= bs2[q.block].pos
    BY <1>1
  <1>4. q.to <= (IF q.block = 1 THEN pos2 ELSE bs2[q.block].pos)
    BY <1>1, <1>2, <1>3
  <1> QED
    BY <1>1, <1>4

(* No position of a block in use goes back when a block is filled.         *)
LEMMA FilledGrows ==
    ASSUME ArenaTypeOK, NEW b \in Nat, NEW from \in Nat, NEW size \in Nat, Filled(b, from, size)
    PROVE  \A d \in 1 .. curr : blocks[d].pos \in Nat /\ blocks'[d].pos \in Nat /\ blocks[d].pos <= blocks'[d].pos
  <1> TAKE d \in 1 .. curr
  <1>1. d \in 1 .. Len(blocks) /\ d \in 1 .. Len(blocks')
    BY DEF ArenaTypeOK, Filled
  <1>2. blocks[d].pos \in Nat /\ blocks'[d].pos \in Nat
    <2>1. blocks[d] \in Block /\ blocks'[d] \in Block
      BY <1>1 DEF ArenaTypeOK, Filled
    <2> QED
      BY <2>1 DEF Block
  <1>3. CASE d = b
    <2>1. b = curr
      BY <1>3 DEF Filled, ArenaTypeOK
    <2> QED
      BY <1>2, <1>3, <2>1 DEF Filled
  <1>4. CASE d # b
    BY <1>2, <1>4 DEF Filled
  <1> QED
    BY <1>2, <1>3, <1>4

(* An allocation keeps the invariant, but for what it does to the marks.   *)
LEMMA FilledKeepsLive ==
    ASSUME ArenaTypeOK, BlocksOK, LiveHeld, LiveDisjoint,
           NEW b \in Nat, NEW from \in Nat, NEW size \in Nat, Filled(b, from, size)
    PROVE  /\ blocks' \in Seq(Block) /\ curr' \in 1 .. Len(blocks') /\ live' \in SUBSET Place
           /\ BlocksOK' /\ LiveHeld' /\ LiveDisjoint'
  <1> USE HeaderAssumption
  <1> DEFINE new == [block |-> b, from |-> from, to |-> from + size]
  <1>1. curr \in 1 .. Len(blocks) /\ Len(blocks) \in Nat /\ 1 \in 1 .. curr
    BY DEF ArenaTypeOK
  <1>2. new \in Place /\ new.block = b /\ new.from = from /\ new.to = from + size
    BY DEF Place
  <1>3. live' = live \cup {new} /\ curr' = b /\ BlocksOK' /\ blocks' \in Seq(Block) /\ b \in curr .. Len(blocks')
    BY DEF Filled
  <1> HIDE DEF new
  <1>4. Len(blocks') \in Nat /\ curr <= b /\ b \in 1 .. Len(blocks') /\ 1 \in 1 .. Len(blocks')
    BY <1>1, <1>3
  <1>5. \A q \in live : q.to <= blocks[q.block].pos /\ q.to \in Nat /\ q.block \in 1 .. curr
    BY DEF LiveHeld, Held, ArenaTypeOK, Place
  <1>6. \A q \in live : Apart(q, new) /\ Apart(new, q)
    <2> TAKE q \in live
    <2>1. CASE q.block # b
      BY <2>1, <1>2 DEF Apart
    <2>2. CASE q.block = b
      <3>1. b = curr
        BY <2>2, <1>1, <1>4, <1>5
      <3>2. blocks[b].pos <= from /\ blocks[b].pos \in Nat
        <4>1. blocks[b] \in Block
          BY <1>1, <3>1 DEF ArenaTypeOK
        <4> QED
          BY <3>1, <4>1 DEF Filled, Block
      <3>3. q.to <= from
        BY <1>5, <2>2, <3>2
      <3> QED
        BY <1>2, <3>3 DEF Apart
    <2> QED
      BY <2>1, <2>2
  <1>7. LiveDisjoint'
    BY <1>3, <1>6 DEF LiveDisjoint, Apart
  <1>8. Held(blocks', live, b, blocks'[1].pos)
    <2>1. \A d \in 1 .. curr : blocks[d].pos \in Nat /\ blocks'[d].pos \in Nat /\ blocks[d].pos <= blocks'[d].pos
      BY FilledGrows
    <2>2. Held(blocks, live, curr, blocks[1].pos) /\ live \in SUBSET Place
      BY DEF LiveHeld, ArenaTypeOK
    <2>3. blocks[1].pos \in Nat /\ blocks'[1].pos \in Nat /\ blocks[1].pos <= blocks'[1].pos
      BY <1>1, <2>1
    <2>4. curr \in Nat /\ curr <= b
      BY <1>1, <1>4
    <2> DEFINE pos == blocks[1].pos
               pos2 == blocks'[1].pos
    <2>5. pos \in Nat /\ pos2 \in Nat /\ pos <= pos2 /\ Held(blocks, live, curr, pos)
      BY <2>2, <2>3
    <2> HIDE DEF pos, pos2
    <2>6. Held(blocks', live, b, pos2)
      BY <2>1, <2>2, <2>4, <2>5, HeldGrows
    <2> QED
      BY <2>6 DEF pos2
  <1>9. blocks'[b].pos = from + size /\ Header <= from
    BY DEF Filled
  <1>10. Held(blocks', {new}, b, blocks'[1].pos)
    BY <1>2, <1>4, <1>9 DEF Held
  <1>11. LiveHeld'
    BY <1>3, <1>8, <1>10 DEF LiveHeld, Held
  <1>12. live' \in SUBSET Place
    BY <1>2, <1>3 DEF ArenaTypeOK
  <1> QED
    BY <1>3, <1>4, <1>7, <1>11, <1>12

(* A mark stays good when a block is filled.                               *)
LEMMA FilledKeepsMarks ==
    ASSUME ArenaTypeOK, NEW b \in Nat, NEW from \in Nat, NEW size \in Nat, Filled(b, from, size)
    PROVE  \A m \in Mark : MarkIn(blocks, curr, live, m) => MarkIn(blocks', curr', live', m)
  <1> SUFFICES ASSUME NEW m \in Mark, MarkIn(blocks, curr, live, m)
               PROVE  MarkIn(blocks', curr', live', m)
    OBVIOUS
  <1>1. m.curr \in 1 .. curr /\ m.curr \in Nat /\ m.pos \in Nat /\ m.live \in SUBSET Place /\ curr \in Nat
    BY DEF MarkIn, Mark, ArenaTypeOK
  <1>2. \A d \in 1 .. curr : blocks[d].pos \in Nat /\ blocks'[d].pos \in Nat /\ blocks[d].pos <= blocks'[d].pos
    BY FilledGrows
  <1>3. \A d \in 1 .. m.curr : blocks[d].pos \in Nat /\ blocks'[d].pos \in Nat /\ blocks[d].pos <= blocks'[d].pos
    BY <1>1, <1>2
  <1>4. Held(blocks, m.live, m.curr, m.pos) /\ m.curr <= m.curr /\ m.pos <= m.pos
    BY <1>1 DEF MarkIn
  <1>5. Held(blocks', m.live, m.curr, m.pos)
    BY <1>1, <1>3, <1>4, HeldGrows
  <1>6. m.curr \in 1 .. curr' /\ m.live \subseteq live' /\ m.pos <= blocks'[1].cap /\ Header <= m.pos
    BY <1>1 DEF MarkIn, Filled
  <1> QED
    BY <1>5, <1>6 DEF MarkIn

(* A mark taken now is good, and every older one was taken before it.      *)
LEMMA NewMark ==
    ASSUME ArenaTypeOK, BlocksOK, LiveHeld, NEW scope \in BOOLEAN
    PROVE  MarkHere(scope) \in Mark /\ MarkIn(blocks, curr, live, MarkHere(scope))
  <1>1. curr \in 1 .. Len(blocks) /\ curr \in Nat /\ 1 \in 1 .. Len(blocks) /\ live \in SUBSET Place
    BY DEF ArenaTypeOK
  <1>2. blocks[1] \in Block
    BY <1>1 DEF ArenaTypeOK
  <1>3. blocks[1].pos \in Nat /\ Header <= blocks[1].pos /\ blocks[1].pos <= blocks[1].cap
    BY <1>1, <1>2 DEF BlocksOK, Block
  <1>4. MarkHere(scope) \in Mark
    BY <1>1, <1>3 DEF MarkHere, Mark
  <1>5. curr \in 1 .. curr
    BY <1>1
  <1> QED
    BY <1>3, <1>4, <1>5 DEF MarkHere, MarkIn, LiveHeld

(* Taking a mark keeps the marks good and nested; bs, c and L are what the *)
(* allocation of a scope's record leaves behind.                           *)
LEMMA AppendMark ==
    ASSUME NEW ms \in Seq(Mark), NEW m \in Mark, NEW bs, NEW c, NEW L, MarkIn(bs, c, L, m),
           \A i \in 1 .. Len(ms) : /\ MarkIn(bs, c, L, ms[i])
                                   /\ ms[i].curr <= m.curr /\ ms[i].live \subseteq m.live,
           \A i, j \in 1 .. Len(ms) : i < j => ms[i].curr <= ms[j].curr /\ ms[i].live \subseteq ms[j].live
    PROVE  /\ Append(ms, m) \in Seq(Mark)
           /\ \A i \in 1 .. Len(Append(ms, m)) : MarkIn(bs, c, L, Append(ms, m)[i])
           /\ \A i, j \in 1 .. Len(Append(ms, m)) :
                i < j => /\ Append(ms, m)[i].curr <= Append(ms, m)[j].curr
                         /\ Append(ms, m)[i].live \subseteq Append(ms, m)[j].live
  <1> DEFINE new == Append(ms, m)
             n   == Len(ms)
  <1>1. new \in Seq(Mark) /\ Len(new) = n + 1 /\ n \in Nat
    OBVIOUS
  <1>2. \A i \in 1 .. n : new[i] = ms[i]
    OBVIOUS
  <1>3. new[n + 1] = m
    OBVIOUS
  <1>4. \A i \in 1 .. n + 1 : i \in 1 .. n \/ i = n + 1
    BY <1>1
  <1> HIDE DEF new, n
  <1>5. \A i \in 1 .. n + 1 : MarkIn(bs, c, L, new[i])
    BY <1>2, <1>3, <1>4 DEF n
  <1>6. ASSUME NEW i \in 1 .. n + 1, NEW j \in 1 .. n + 1, i < j
        PROVE  new[i].curr <= new[j].curr /\ new[i].live \subseteq new[j].live
    <2>1. i \in 1 .. n
      BY <1>1, <1>6
    <2>2. CASE j \in 1 .. n
      BY <1>2, <1>6, <2>1, <2>2 DEF n
    <2>3. CASE j = n + 1
      BY <1>2, <1>3, <2>1, <2>3 DEF n
    <2> QED
      BY <1>4, <2>2, <2>3
  <1>7. /\ new \in Seq(Mark)
        /\ \A i \in 1 .. Len(new) : MarkIn(bs, c, L, new[i])
        /\ \A i, j \in 1 .. Len(new) : i < j => new[i].curr <= new[j].curr /\ new[i].live \subseteq new[j].live
    BY <1>1, <1>5, <1>6
  <1> QED
    BY <1>7 DEF new

(* Dropping the newest mark.                                               *)
LEMMA OlderMarks ==
    ASSUME NEW ms \in Seq(Mark), ms # <<>>
    PROVE  LET n == Len(ms)
               old == SubSeq(ms, 1, n - 1)
           IN  /\ n \in Nat \ {0} /\ ms[n] \in Mark
               /\ old \in Seq(Mark) /\ Len(old) = n - 1
               /\ \A i \in 1 .. n - 1 : old[i] = ms[i] /\ i \in 1 .. n /\ i < n
  <1> DEFINE n   == Len(ms)
             old == SubSeq(ms, 1, n - 1)
  <1>1. n \in Nat \ {0}
    OBVIOUS
  <1>2. ms[n] \in Mark
    BY <1>1
  <1>3. \A i \in 1 .. n - 1 : i \in 1 .. n /\ i < n
    BY <1>1
  <1>4. /\ old \in Seq(Mark) /\ Len(old) = IF 1 <= n - 1 THEN n - 1 - 1 + 1 ELSE 0
        /\ \A i \in 1 .. n - 1 - 1 + 1 : old[i] = ms[1 + i - 1]
    BY <1>1, SubSeqProperties
  <1> HIDE DEF old, n
  <1>5. Len(old) = n - 1
    BY <1>1, <1>4
  <1>6. \A i \in 1 .. n - 1 : old[i] = ms[i]
    <2>1. n - 1 - 1 + 1 = n - 1 /\ \A i \in 1 .. n - 1 : 1 + i - 1 = i
      BY <1>1
    <2> QED
      BY <1>4, <2>1
  <1>7. /\ n \in Nat \ {0} /\ ms[n] \in Mark
        /\ old \in Seq(Mark) /\ Len(old) = n - 1
        /\ \A i \in 1 .. n - 1 : old[i] = ms[i] /\ i \in 1 .. n /\ i < n
    BY <1>1, <1>2, <1>3, <1>4, <1>5, <1>6
  <1> QED
    BY <1>7 DEF n, old

-----------------------------------------------------------------------------
LEMMA PushKeeps == ASSUME ArenaInv, Push PROVE ArenaInv'
  <1>1. PICK r \in Requests : Allocate(r) /\ UNCHANGED marks
    BY DEF Push
  <1>2. r \in [size : Nat, align : Nat \ {0}] /\ r.size \in Nat
    BY RequestsAssumption
  <1>3. ArenaTypeOK /\ BlocksOK /\ LiveHeld /\ LiveDisjoint /\ MarksOK /\ Nested /\ FailedOK
    BY DEF ArenaInv
  <1>4. UNCHANGED <<kind, failed>> /\ \E b \in Nat : \E from \in Nat : Filled(b, from, r.size)
    BY <1>1, <1>2, <1>3, AllocateFills
  <1>5. PICK b \in Nat : \E from \in Nat : Filled(b, from, r.size)
    BY <1>4
  <1>6. PICK from \in Nat : Filled(b, from, r.size)
    BY <1>5
  <1>7. /\ blocks' \in Seq(Block) /\ curr' \in 1 .. Len(blocks') /\ live' \in SUBSET Place
        /\ BlocksOK' /\ LiveHeld' /\ LiveDisjoint'
    BY <1>2, <1>3, <1>6, FilledKeepsLive
  <1>8. \A i \in 1 .. Len(marks) : marks[i] \in Mark
    BY <1>3 DEF ArenaTypeOK
  <1>9. \A m \in Mark : MarkIn(blocks, curr, live, m) => MarkIn(blocks', curr', live', m)
    BY <1>2, <1>3, <1>6, FilledKeepsMarks
  <1>10. MarksOK'
    BY <1>1, <1>3, <1>8, <1>9 DEF MarksOK
  <1>11. ArenaTypeOK' /\ Nested' /\ FailedOK'
    BY <1>1, <1>3, <1>4, <1>7 DEF ArenaTypeOK, Nested, FailedOK
  <1> QED
    BY <1>7, <1>10, <1>11 DEF ArenaInv

(* The marks as AppendMark wants them, when a mark is taken now.           *)
LEMMA MarksBeforeNow ==
    ASSUME ArenaInv, NEW scope \in BOOLEAN
    PROVE  /\ marks \in Seq(Mark) /\ MarkHere(scope) \in Mark
           /\ MarkIn(blocks, curr, live, MarkHere(scope))
           /\ \A i \in 1 .. Len(marks) : /\ marks[i] \in Mark /\ MarkIn(blocks, curr, live, marks[i])
                                         /\ marks[i].curr <= MarkHere(scope).curr
                                         /\ marks[i].live \subseteq MarkHere(scope).live
           /\ \A i, j \in 1 .. Len(marks) :
                i < j => marks[i].curr <= marks[j].curr /\ marks[i].live \subseteq marks[j].live
  <1>1. ArenaTypeOK /\ BlocksOK /\ LiveHeld /\ MarksOK /\ Nested
    BY DEF ArenaInv
  <1>2. marks \in Seq(Mark) /\ \A i \in 1 .. Len(marks) : marks[i] \in Mark
    BY <1>1 DEF ArenaTypeOK
  <1>3. MarkHere(scope) \in Mark /\ MarkIn(blocks, curr, live, MarkHere(scope))
    BY <1>1, NewMark
  <1>4. MarkHere(scope).curr = curr /\ MarkHere(scope).live = live
    BY DEF MarkHere
  <1>5. \A i \in 1 .. Len(marks) : /\ MarkIn(blocks, curr, live, marks[i])
                                   /\ marks[i].curr <= curr /\ marks[i].live \subseteq live
    BY <1>1, <1>2 DEF MarksOK, MarkIn, Mark, ArenaTypeOK
  <1> QED
    BY <1>1, <1>2, <1>3, <1>4, <1>5 DEF Nested

LEMMA MarkGetKeeps == ASSUME ArenaInv, MarkGet PROVE ArenaInv'
  <1> DEFINE m == MarkHere(FALSE)
  <1>1. marks' = Append(marks, m) /\ UNCHANGED <<kind, blocks, curr, live, failed>>
    BY DEF MarkGet
  <1>2. /\ marks \in Seq(Mark) /\ m \in Mark /\ MarkIn(blocks, curr, live, m)
        /\ \A i \in 1 .. Len(marks) : /\ MarkIn(blocks, curr, live, marks[i])
                                      /\ marks[i].curr <= m.curr /\ marks[i].live \subseteq m.live
        /\ \A i, j \in 1 .. Len(marks) :
             i < j => marks[i].curr <= marks[j].curr /\ marks[i].live \subseteq marks[j].live
    BY MarksBeforeNow
  <1> HIDE DEF m
  <1>3. /\ Append(marks, m) \in Seq(Mark)
        /\ \A i \in 1 .. Len(Append(marks, m)) : MarkIn(blocks, curr, live, Append(marks, m)[i])
        /\ \A i, j \in 1 .. Len(Append(marks, m)) :
             i < j => /\ Append(marks, m)[i].curr <= Append(marks, m)[j].curr
                      /\ Append(marks, m)[i].live \subseteq Append(marks, m)[j].live
    BY <1>2, AppendMark
  <1>4. MarksOK' /\ Nested' /\ marks' \in Seq(Mark)
    BY <1>1, <1>3 DEF MarksOK, Nested
  <1>5. ArenaTypeOK' /\ BlocksOK' /\ LiveHeld' /\ LiveDisjoint' /\ FailedOK'
    BY <1>1, <1>4 DEF ArenaInv, ArenaTypeOK, BlocksOK, LiveHeld, LiveDisjoint, FailedOK
  <1> QED
    BY <1>4, <1>5 DEF ArenaInv

LEMMA ScopeBeginKeeps == ASSUME ArenaInv, ScopeBegin PROVE ArenaInv'
  <1> DEFINE m == MarkHere(TRUE)
             r == [size |-> ScopeSize, align |-> ScopeAlign]
  <1>1. marks' = Append(marks, m) /\ Allocate(r)
    BY DEF ScopeBegin, ScopeRecord
  <1>2. r \in [size : Nat, align : Nat \ {0}] /\ r.size \in Nat
    BY ScopeAssumption
  <1>3. ArenaTypeOK /\ BlocksOK /\ LiveHeld /\ LiveDisjoint /\ FailedOK
    BY DEF ArenaInv
  <1>4. /\ marks \in Seq(Mark) /\ m \in Mark /\ MarkIn(blocks, curr, live, m)
        /\ \A i \in 1 .. Len(marks) : /\ marks[i] \in Mark /\ MarkIn(blocks, curr, live, marks[i])
                                      /\ marks[i].curr <= m.curr /\ marks[i].live \subseteq m.live
        /\ \A i, j \in 1 .. Len(marks) :
             i < j => marks[i].curr <= marks[j].curr /\ marks[i].live \subseteq marks[j].live
    BY MarksBeforeNow
  <1> HIDE DEF m, r
  <1>5. UNCHANGED <<kind, failed>> /\ \E b \in Nat : \E from \in Nat : Filled(b, from, r.size)
    BY <1>1, <1>2, <1>3, AllocateFills
  <1>6. PICK b \in Nat : \E from \in Nat : Filled(b, from, r.size)
    BY <1>5
  <1>7. PICK from \in Nat : Filled(b, from, r.size)
    BY <1>6
  <1>8. /\ blocks' \in Seq(Block) /\ curr' \in 1 .. Len(blocks') /\ live' \in SUBSET Place
        /\ BlocksOK' /\ LiveHeld' /\ LiveDisjoint'
    BY <1>2, <1>3, <1>7, FilledKeepsLive
  <1>9. \A k \in Mark : MarkIn(blocks, curr, live, k) => MarkIn(blocks', curr', live', k)
    BY <1>2, <1>3, <1>7, FilledKeepsMarks
  <1>10. /\ MarkIn(blocks', curr', live', m)
         /\ \A i \in 1 .. Len(marks) : /\ MarkIn(blocks', curr', live', marks[i])
                                       /\ marks[i].curr <= m.curr /\ marks[i].live \subseteq m.live
    BY <1>4, <1>9
  <1>11. /\ Append(marks, m) \in Seq(Mark)
         /\ \A i \in 1 .. Len(Append(marks, m)) : MarkIn(blocks', curr', live', Append(marks, m)[i])
         /\ \A i, j \in 1 .. Len(Append(marks, m)) :
              i < j => /\ Append(marks, m)[i].curr <= Append(marks, m)[j].curr
                       /\ Append(marks, m)[i].live \subseteq Append(marks, m)[j].live
    BY <1>4, <1>10, AppendMark
  <1>12. MarksOK' /\ Nested' /\ marks' \in Seq(Mark)
    BY <1>1, <1>11 DEF MarksOK, Nested
  <1>13. ArenaTypeOK' /\ FailedOK'
    BY <1>3, <1>5, <1>8, <1>12 DEF ArenaTypeOK, FailedOK
  <1> QED
    BY <1>8, <1>12, <1>13 DEF ArenaInv

(* The newest mark is good, and the older ones are good for what it        *)
(* restores.                                                               *)
LEMMA NewestMark ==
    ASSUME ArenaInv, marks # <<>>
    PROVE  /\ Newest \in Mark /\ MarkIn(blocks, curr, live, Newest)
           /\ Older \in Seq(Mark)
           /\ \A i \in 1 .. Len(Older) : /\ Older[i] \in Mark /\ MarkIn(blocks, curr, live, Older[i])
                                         /\ Older[i].curr <= Newest.curr /\ Older[i].live \subseteq Newest.live
           /\ \A i, j \in 1 .. Len(Older) :
                i < j => Older[i].curr <= Older[j].curr /\ Older[i].live \subseteq Older[j].live
  <1> DEFINE n == Len(marks)
  <1>1. marks \in Seq(Mark) /\ MarksOK /\ Nested
    BY DEF ArenaInv, ArenaTypeOK
  <1>2. /\ n \in Nat \ {0} /\ Newest \in Mark
        /\ Older \in Seq(Mark) /\ Len(Older) = n - 1
        /\ \A i \in 1 .. n - 1 : Older[i] = marks[i] /\ i \in 1 .. n /\ i < n
    BY <1>1, OlderMarks DEF Newest, Older
  <1>3. n \in 1 .. n /\ Newest = marks[n]
    BY <1>2 DEF Newest
  <1>4. \A i \in 1 .. n : marks[i] \in Mark
    BY <1>1
  <1> HIDE DEF n
  <1>5. MarkIn(blocks, curr, live, Newest)
    BY <1>1, <1>3 DEF MarksOK, n
  <1>6. \A i \in 1 .. n - 1 : /\ Older[i] \in Mark /\ MarkIn(blocks, curr, live, Older[i])
                              /\ Older[i].curr <= Newest.curr /\ Older[i].live \subseteq Newest.live
    BY <1>1, <1>2, <1>3, <1>4 DEF MarksOK, Nested, n
  <1>7. \A i, j \in 1 .. n - 1 : i < j => Older[i].curr <= Older[j].curr /\ Older[i].live \subseteq Older[j].live
    BY <1>1, <1>2 DEF Nested, n
  <1> QED
    BY <1>2, <1>5, <1>6, <1>7

LEMMA MarkKeepKeeps == ASSUME ArenaInv, MarkKeep PROVE ArenaInv'
  <1>1. marks' = Older /\ marks # <<>> /\ UNCHANGED <<kind, blocks, curr, live, failed>>
    BY DEF MarkKeep
  <1>2. /\ Older \in Seq(Mark)
        /\ \A i \in 1 .. Len(Older) : MarkIn(blocks, curr, live, Older[i])
        /\ \A i, j \in 1 .. Len(Older) :
             i < j => Older[i].curr <= Older[j].curr /\ Older[i].live \subseteq Older[j].live
    BY <1>1, NewestMark
  <1>3. MarksOK' /\ Nested' /\ marks' \in Seq(Mark)
    BY <1>1, <1>2 DEF MarksOK, Nested
  <1>4. ArenaTypeOK' /\ BlocksOK' /\ LiveHeld' /\ LiveDisjoint' /\ FailedOK'
    BY <1>1, <1>3 DEF ArenaInv, ArenaTypeOK, BlocksOK, LiveHeld, LiveDisjoint, FailedOK
  <1> QED
    BY <1>3, <1>4 DEF ArenaInv

(* Only the first block's position changes.                                *)
LEMMA FirstRewound ==
    ASSUME ArenaTypeOK, BlocksOK, NEW pos \in Nat, Header <= pos, pos <= blocks[1].cap,
           blocks' = [d \in 1 .. Len(blocks) |-> IF d = 1 THEN [blocks[d] EXCEPT !.pos = pos] ELSE blocks[d]]
    PROVE  /\ blocks' \in Seq(Block) /\ Len(blocks') = Len(blocks) /\ BlocksOK'
           /\ blocks'[1].pos = pos /\ blocks'[1].cap = blocks[1].cap
           /\ \A d \in 1 .. Len(blocks) : d # 1 => blocks'[d] = blocks[d]
  <1> DEFINE F(d) == IF d = 1 THEN [blocks[d] EXCEPT !.pos = pos] ELSE blocks[d]
  <1>1. \A d \in 1 .. Len(blocks) : blocks[d] \in Block
    BY DEF ArenaTypeOK
  <1>2. 1 \in 1 .. Len(blocks) /\ Len(blocks) \in Nat
    BY DEF ArenaTypeOK
  <1>3. \A d \in 1 .. Len(blocks) : F(d) \in Block /\ F(d).cap = blocks[d].cap
    BY <1>1 DEF Block
  <1>4. F(1).pos = pos /\ \A d \in 1 .. Len(blocks) : d # 1 => F(d) = blocks[d]
    BY <1>1, <1>2 DEF Block
  <1>5. blocks' = [d \in 1 .. Len(blocks) |-> F(d)]
    OBVIOUS
  <1> HIDE DEF F
  <1>6. blocks' \in Seq(Block) /\ Len(blocks') = Len(blocks)
    BY <1>2, <1>3, <1>5
  <1>7. \A d \in 1 .. Len(blocks) : blocks'[d] = F(d)
    BY <1>5
  <1>8. \A d \in 1 .. Len(blocks) : Header <= F(d).pos /\ F(d).pos <= F(d).cap
    BY <1>2, <1>3, <1>4 DEF BlocksOK
  <1>9. BlocksOK'
    BY <1>2, <1>3, <1>6, <1>7, <1>8 DEF BlocksOK
  <1>10. blocks'[1].pos = pos /\ blocks'[1].cap = blocks[1].cap
    BY <1>2, <1>3, <1>4, <1>7
  <1> QED
    BY <1>4, <1>6, <1>7, <1>9, <1>10

LEMMA RewindKeeps == ASSUME ArenaInv, Rewind PROVE ArenaInv'
  <1> USE HeaderAssumption
  <1>1. /\ marks # <<>> /\ marks' = Older /\ curr' = Newest.curr /\ live' = Newest.live
        /\ UNCHANGED <<kind, failed>>
    BY DEF Rewind
  <1>2. ArenaTypeOK /\ BlocksOK /\ LiveDisjoint /\ FailedOK /\ curr \in 1 .. Len(blocks)
    BY DEF ArenaInv, ArenaTypeOK
  <1>3. /\ Newest \in Mark /\ MarkIn(blocks, curr, live, Newest)
        /\ Older \in Seq(Mark)
        /\ \A i \in 1 .. Len(Older) : /\ Older[i] \in Mark /\ MarkIn(blocks, curr, live, Older[i])
                                      /\ Older[i].curr <= Newest.curr /\ Older[i].live \subseteq Newest.live
        /\ \A i, j \in 1 .. Len(Older) :
             i < j => Older[i].curr <= Older[j].curr /\ Older[i].live \subseteq Older[j].live
    BY <1>1, NewestMark
  <1>4. /\ Newest.curr \in 1 .. curr /\ Newest.pos \in Nat /\ Newest.live \subseteq live
        /\ Header <= Newest.pos /\ Newest.pos <= blocks[1].cap
    BY <1>3 DEF MarkIn, Mark
  <1>5. /\ blocks' \in Seq(Block) /\ Len(blocks') = Len(blocks) /\ BlocksOK'
        /\ blocks'[1].pos = Newest.pos /\ blocks'[1].cap = blocks[1].cap
        /\ \A d \in 1 .. Len(blocks) : d # 1 => blocks'[d] = blocks[d]
    <2>1. blocks' = [d \in 1 .. Len(blocks) |-> IF d = 1 THEN [blocks[d] EXCEPT !.pos = Newest.pos] ELSE blocks[d]]
      BY DEF Rewind, Rewound
    <2> DEFINE pos == Newest.pos
    <2>2. pos \in Nat /\ Header <= pos /\ pos <= blocks[1].cap
      BY <1>4
    <2>3. blocks' = [d \in 1 .. Len(blocks) |-> IF d = 1 THEN [blocks[d] EXCEPT !.pos = pos] ELSE blocks[d]]
      BY <2>1
    <2> HIDE DEF pos
    <2>4. /\ blocks' \in Seq(Block) /\ Len(blocks') = Len(blocks) /\ BlocksOK'
          /\ blocks'[1].pos = pos /\ blocks'[1].cap = blocks[1].cap
          /\ \A d \in 1 .. Len(blocks) : d # 1 => blocks'[d] = blocks[d]
      BY <1>2, <2>2, <2>3, FirstRewound
    <2> QED
      BY <2>4 DEF pos
  <1>6. \A m \in Mark : MarkIn(blocks, curr, live, m) => Held(blocks', m.live, m.curr, m.pos)
    <2> SUFFICES ASSUME NEW m \in Mark, MarkIn(blocks, curr, live, m), NEW q \in m.live
                 PROVE  /\ q.block \in 1 .. m.curr /\ Header <= q.from /\ q.from <= q.to
                        /\ q.to <= (IF q.block = 1 THEN m.pos ELSE blocks'[q.block].pos)
      BY DEF Held
    <2>1. /\ q.block \in 1 .. m.curr /\ Header <= q.from /\ q.from <= q.to
          /\ q.to <= (IF q.block = 1 THEN m.pos ELSE blocks[q.block].pos)
      BY DEF MarkIn, Held
    <2>2. m.curr \in 1 .. curr
      BY DEF MarkIn
    <2>3. q.block \in 1 .. Len(blocks)
      BY <1>2, <2>1, <2>2
    <2> QED
      BY <1>5, <2>1, <2>3
  <1>7. LiveHeld'
    BY <1>1, <1>3, <1>5, <1>6 DEF LiveHeld
  <1>8. LiveDisjoint'
    BY <1>1, <1>2, <1>4 DEF LiveDisjoint, Apart
  <1>9. \A i \in 1 .. Len(Older) : MarkIn(blocks', Newest.curr, Newest.live, Older[i])
    <2> TAKE i \in 1 .. Len(Older)
    <2> DEFINE m == Older[i]
    <2>1. m \in Mark /\ MarkIn(blocks, curr, live, m) /\ m.curr <= Newest.curr /\ m.live \subseteq Newest.live
      BY <1>3
    <2> HIDE DEF m
    <2>2. Held(blocks', m.live, m.curr, m.pos)
      BY <1>6, <2>1
    <2>3. m.curr \in 1 .. Newest.curr /\ Header <= m.pos /\ m.pos <= blocks'[1].cap
      BY <1>2, <1>4, <1>5, <2>1 DEF MarkIn
    <2>4. MarkIn(blocks', Newest.curr, Newest.live, m)
      BY <2>1, <2>2, <2>3 DEF MarkIn
    <2> QED
      BY <2>4 DEF m
  <1>10. MarksOK' /\ Nested'
    BY <1>1, <1>3, <1>9 DEF MarksOK, Nested
  <1>11. ArenaTypeOK' /\ FailedOK'
    BY <1>1, <1>2, <1>3, <1>4, <1>5 DEF ArenaTypeOK, FailedOK, Mark
  <1> QED
    BY <1>5, <1>7, <1>8, <1>10, <1>11 DEF ArenaInv

LEMMA ResetKeeps == ASSUME ArenaInv, ArenaReset PROVE ArenaInv'
  <1> USE HeaderAssumption
  <1>1. marks = <<>> /\ curr' = 1 /\ live' = {} /\ UNCHANGED <<kind, marks, failed>>
    BY DEF ArenaReset
  <1>2. ArenaTypeOK /\ BlocksOK /\ FailedOK
    BY DEF ArenaInv
  <1>3. 1 \in 1 .. Len(blocks) /\ Header \in Nat /\ Header <= blocks[1].cap
    <2>1. 1 \in 1 .. Len(blocks)
      BY <1>2 DEF ArenaTypeOK
    <2>2. blocks[1] \in Block
      BY <1>2, <2>1 DEF ArenaTypeOK
    <2>3. blocks[1].pos \in Nat /\ blocks[1].cap \in Nat
      BY <2>2 DEF Block
    <2> QED
      BY <1>2, <2>1, <2>3 DEF BlocksOK
  <1>4. /\ blocks' \in Seq(Block) /\ Len(blocks') = Len(blocks) /\ BlocksOK'
    <2>1. blocks' = [d \in 1 .. Len(blocks) |-> IF d = 1 THEN [blocks[d] EXCEPT !.pos = Header] ELSE blocks[d]]
      BY DEF ArenaReset, Reset
    <2> QED
      BY <1>2, <1>3, <2>1, FirstRewound
  <1>5. ArenaTypeOK'
    BY <1>1, <1>2, <1>3, <1>4 DEF ArenaTypeOK
  <1>6. LiveHeld' /\ LiveDisjoint' /\ MarksOK' /\ Nested' /\ FailedOK'
    BY <1>1, <1>2 DEF LiveHeld, Held, LiveDisjoint, MarksOK, Nested, FailedOK
  <1> QED
    BY <1>4, <1>5, <1>6 DEF ArenaInv

(* The assertion of arena_mark_set never fails: a mark's position lies in  *)
(* the first block, and no block is smaller.                               *)
LEMMA RewindNeverFails == ASSUME ArenaInv, RewindFails PROVE FALSE
  <1>1. marks # <<>> /\ ~(Newest.pos <= blocks[Newest.curr].cap)
    BY DEF RewindFails
  <1>2. Newest \in Mark /\ MarkIn(blocks, curr, live, Newest)
    BY <1>1, NewestMark
  <1>3. Newest.curr \in 1 .. Len(blocks) /\ Newest.pos \in Nat /\ Newest.pos <= blocks[1].cap
    BY <1>2 DEF MarkIn, Mark, ArenaInv, ArenaTypeOK
  <1>4. blocks[1] \in Block /\ blocks[Newest.curr] \in Block
    BY <1>3 DEF ArenaInv, ArenaTypeOK
  <1>5. blocks[1].cap <= blocks[Newest.curr].cap /\ blocks[1].cap \in Nat /\ blocks[Newest.curr].cap \in Nat
    BY <1>3, <1>4 DEF ArenaInv, BlocksOK, Block
  <1> QED
    BY <1>1, <1>3, <1>5

LEMMA OverflowKeeps == ASSUME ArenaInv, Overflow PROVE ArenaInv'
  <1>1. kind = "fixed" /\ failed' = "overflow" /\ UNCHANGED <<kind, blocks, curr, marks, live>>
    BY DEF Overflow
  <1>2. FailedOK'
    BY <1>1 DEF FailedOK
  <1> QED
    BY <1>1, <1>2 DEF ArenaInv, ArenaTypeOK, BlocksOK, LiveHeld, MarksOK, Nested, LiveDisjoint

LEMMA NextArena == ArenaInv /\ [ArenaNext]_arenaVars => ArenaInv'
  <1> SUFFICES ASSUME ArenaInv, [ArenaNext]_arenaVars PROVE ArenaInv'
    OBVIOUS
  <1>1. CASE Push
    BY <1>1, PushKeeps
  <1>2. CASE Overflow
    BY <1>2, OverflowKeeps
  <1>3. CASE ScopeBegin
    BY <1>3, ScopeBeginKeeps
  <1>4. CASE MarkGet
    BY <1>4, MarkGetKeeps
  <1>5. CASE Rewind
    BY <1>5, RewindKeeps
  <1>6. CASE RewindFails
    BY <1>6, RewindNeverFails
  <1>7. CASE MarkKeep
    BY <1>7, MarkKeepKeeps
  <1>8. CASE ArenaReset
    BY <1>8, ResetKeeps
  <1>9. CASE UNCHANGED arenaVars
    BY <1>9 DEF arenaVars, ArenaInv, ArenaTypeOK, BlocksOK, LiveHeld, MarksOK, Nested, LiveDisjoint, FailedOK
  <1> QED
    BY <1>1, <1>2, <1>3, <1>4, <1>5, <1>6, <1>7, <1>8, <1>9 DEF ArenaNext

LEMMA ArenaAlwaysInv == ArenaSpec => []ArenaInv
  <1> QED
    BY InitArena, NextArena, PTL DEF ArenaSpec

(* What is live lies inside its block and apart from everything else that  *)
(* is live, for every sequence of pushes, scopes, marks, rewinds and       *)
(* resets (arena_push_size_nozero, arena_mark_set).                        *)
THEOREM ArenaKeepsLive == ArenaSpec => []LiveIsKept
  <1>1. ArenaInv => LiveIsKept
    <2> SUFFICES ASSUME ArenaInv PROVE LiveInside
      BY DEF ArenaInv, LiveIsKept
    <2> SUFFICES ASSUME NEW p \in live
                 PROVE  /\ p.block \in 1 .. Len(blocks)
                        /\ Header <= p.from /\ p.from <= p.to /\ p.to <= blocks[p.block].cap
      BY DEF LiveInside
    <2>1. ArenaTypeOK /\ BlocksOK /\ LiveHeld
      BY DEF ArenaInv
    <2>2. p.block \in 1 .. curr /\ Header <= p.from /\ p.from <= p.to /\ p.to <= blocks[p.block].pos /\ p.to \in Nat
      BY <2>1 DEF LiveHeld, Held, ArenaTypeOK, Place
    <2>3. p.block \in 1 .. Len(blocks)
      BY <2>1, <2>2 DEF ArenaTypeOK
    <2>4. blocks[p.block] \in Block
      BY <2>1, <2>3 DEF ArenaTypeOK
    <2>5. blocks[p.block].pos \in Nat /\ blocks[p.block].cap \in Nat
      BY <2>4 DEF Block
    <2>6. blocks[p.block].pos <= blocks[p.block].cap
      BY <2>1, <2>3 DEF BlocksOK
    <2> QED
      BY <2>2, <2>3, <2>5, <2>6
  <1> QED
    BY ArenaAlwaysInv, <1>1, PTL

(* The assertions of the push and of arena_mark_set hold in every arena,   *)
(* and only a fixed one overflows.                                         *)
THEOREM ArenaAssertsAlwaysHold == ArenaSpec => []ArenaAssertsHold
  <1>1. ArenaInv => ArenaAssertsHold
    BY DEF ArenaInv, BlocksOK, FailedOK, ArenaAssertsHold
  <1> QED
    BY ArenaAlwaysInv, <1>1, PTL

-----------------------------------------------------------------------------
(* THE HASH MAP                                                            *)

(* The slots are probed in order: the words divide into the slots, or no   *)
(* hash is so large that probing wraps around a u64.                       *)
InOrder == \A cap \in Caps \ {0} : Word % cap = 0 \/ \A k \in Keys : Hash[k] + cap <= Word

IsTable(t) ==
    /\ t.cap \in Caps
    /\ t \in [keys : [Slots(t) -> Keys \cup {0}], vals : [Slots(t) -> Vals \cup {0}], count : Nat, cap : Nat]

(* No key is in two slots.                                                 *)
Distinct(t) == \A i, j \in Slots(t) : t.keys[i] = t.keys[j] /\ t.keys[i] # 0 => i = j

Counted(t) == IsFiniteSet(KeysIn(t)) /\ t.count = Cardinality(KeysIn(t))

(* Probing for key k comes to slot i over taken slots only.                *)
Probed(t, k, i, probe) ==
    /\ probe \in Slots(t) /\ At(t, k, probe) = i
    /\ \A q \in 0 .. probe - 1 : t.keys[At(t, k, q)] # 0
Reached(t) == \A i \in Slots(t) : t.keys[i] # 0 => \E probe \in Slots(t) : Probed(t, t.keys[i], i, probe)

Sound(t) == IsTable(t) /\ Distinct(t) /\ Counted(t) /\ Reached(t)

(* The table under construction has the keys and values of the slots moved *)
(* so far and no others, so that there is room in it for the next.         *)
Moved == 0 .. grow.moved - 1
GrowsSoundly ==
    /\ grow \in [table : {grow.table}, moved : 0 .. map.cap, key : Keys, val : Vals]
    /\ Sound(grow.table)
    /\ grow.table.cap = 2 * map.cap /\ grow.table.count = grow.moved
    /\ \A i \in Moved : map.keys[i] # 0
    /\ KeysIn(grow.table) = {map.keys[i] : i \in Moved}
    /\ \A i \in Moved : \A j \in Slots(grow.table) :
         grow.table.keys[j] = map.keys[i] => grow.table.vals[j] = map.vals[i]

(* The inductive invariant: until a remove has cut off a probed-past key,  *)
(* the map is sound, and so is what it grows into.                         *)
MapInv ==
    /\ cut \in BOOLEAN
    /\ cut \/ (Sound(map) /\ (Growing => GrowsSoundly))

-----------------------------------------------------------------------------
(***************************************************************************)
(* Slots and probes.                                                       *)
(***************************************************************************)
LEMMA DivMod ==
  ASSUME NEW a \in Int, NEW n \in Nat \ {0}
  PROVE  /\ a % n \in 0 .. n - 1 /\ a \div n \in Int
         /\ a = n * (a \div n) + (a % n)
  BY SMT

LEMMA RemainderIsUnique ==
  ASSUME NEW n \in Nat \ {0}, NEW q1 \in Int, NEW q2 \in Int,
         NEW r1 \in 0 .. n - 1, NEW r2 \in 0 .. n - 1, n * q1 + r1 = n * q2 + r2
  PROVE  r1 = r2
  BY SMT

LEMMA NextSlot ==
  ASSUME NEW a \in Nat, NEW n \in Nat \ {0}
  PROVE  ((a % n) + 1) % n = (a + 1) % n
<1> DEFINE r == a % n
           q == a \div n
           s == (r + 1) % n
           p == (r + 1) \div n
           u == (a + 1) % n
           w == (a + 1) \div n
<1>1. a = n * q + r /\ r \in 0 .. n - 1 /\ q \in Int
  BY DivMod
<1>2. r + 1 = n * p + s /\ s \in 0 .. n - 1 /\ p \in Int
  BY <1>1, DivMod
<1>3. a + 1 = n * w + u /\ u \in 0 .. n - 1 /\ w \in Int
  BY DivMod
<1> HIDE DEF r, q, s, p, u, w
<1>4. n * (q + p) + s = n * w + u
  BY <1>1, <1>2, <1>3, SMT
<1>5. q + p \in Int /\ n \in Nat \ {0}
  BY <1>1, <1>2
<1>6. s = u
  BY <1>2, <1>3, <1>4, <1>5, RemainderIsUnique
<1>. QED
  BY <1>6 DEF s, u, r

(* Linear probing comes to every slot.                                     *)
LEMMA ProbesReach ==
  ASSUME NEW h \in Nat, NEW n \in Nat \ {0}, NEW j \in 0 .. n - 1
  PROVE  (h + ((j - h) % n)) % n = j
<1> DEFINE r == (j - h) % n
           q == (j - h) \div n
           s == (h + r) % n
           p == (h + r) \div n
<1>1. j - h = n * q + r /\ r \in 0 .. n - 1 /\ q \in Int
  BY DivMod
<1> HIDE DEF r, q
<1>2. h + r \in Int
  BY <1>1
<1>3. h + r = n * p + s /\ s \in 0 .. n - 1 /\ p \in Int
  BY <1>2, DivMod
<1> HIDE DEF s, p
<1>4. n * (p + q) + s = n * 0 + j
  BY <1>1, <1>3, SMT
<1>5. p + q \in Int /\ 0 \in Int
  BY <1>1, <1>3
<1>6. s = j
  BY <1>3, <1>4, <1>5, RemainderIsUnique
<1>. QED
  BY <1>6 DEF s, r

LEMMA LeastIsMin ==
  ASSUME NEW S, S \subseteq Nat, S # {}
  PROVE  Min(S) \in S /\ \A y \in S : Min(S) <= y
<1>1. \E x \in S : \A y \in S : ~(<<y, x>> \in OpToRel(<, Nat))
  BY WFMin, NatLessThanWellFounded, Zenon
<1>2. \A x, y \in Nat : y < x => <<y, x>> \in OpToRel(<, Nat)
  BY DEF OpToRel
<1>3. \E x \in S : \A y \in S : x <= y
  <2>1. PICK x \in S : \A y \in S : ~(<<y, x>> \in OpToRel(<, Nat))
    BY <1>1
  <2>2. \A y \in S : ~(y < x)
    BY <2>1, <1>2
  <2>. QED
    BY <2>2
<1>. QED
  BY <1>3, Zenon DEF Min

(* A remainder of a multiple of the divisor changes nothing.               *)
LEMMA RemainderOfMultiple ==
  ASSUME NEW x \in Nat, NEW n \in Nat \ {0}, NEW w \in Nat \ {0}, w % n = 0
  PROVE  (x % w) % n = x % n
<1> DEFINE m == w \div n
           q == x \div w
           r == x % w
           s == r % n
           p == r \div n
           u == x % n
           y == x \div n
<1>1. w = n * m /\ m \in Int
  <2>1. w \in Int
    OBVIOUS
  <2>. QED
    BY <2>1, DivMod
<1>2. x = w * q + r /\ r \in 0 .. w - 1 /\ q \in Int
  BY DivMod
<1>3. r \in Int
  BY <1>2
<1> HIDE DEF r, m, q
<1>4. r = n * p + s /\ s \in 0 .. n - 1 /\ p \in Int
  BY <1>3, DivMod
<1>5. x = n * y + u /\ u \in 0 .. n - 1 /\ y \in Int
  BY DivMod
<1> HIDE DEF s, p, u, y
<1>6. n * (m * q) = w * q /\ m * q \in Int
  BY <1>1, <1>2
<1>7. n * (m * q + p) + s = n * y + u /\ m * q + p \in Int
  <2> DEFINE z == m * q
  <2> HIDE DEF z
  <2>1. n * (z + p) = n * z + n * p /\ z + p \in Int
    BY <1>6, <1>4, SMT DEF z
  <2>2. n * z = w * q
    BY <1>6 DEF z
  <2>3. n * (z + p) + s = n * y + u
    BY <2>1, <2>2, <1>2, <1>4, <1>5, <1>6 DEF z
  <2>. QED
    BY <2>1, <2>3 DEF z
<1>8. s = u
  BY <1>4, <1>5, <1>7, RemainderIsUnique
<1>. QED
  BY <1>8 DEF s, r, u

LEMMA SmallRemainder ==
  ASSUME NEW w \in Nat \ {0}, NEW x \in 0 .. w - 1
  PROVE  x % w = x
  BY SMT

LEMMA HashIsWord ==
  ASSUME NEW k \in Keys
  PROVE  Hash[k] \in 0 .. Word - 1 /\ Hash[k] \in Nat /\ Word \in Nat \ {0} /\ k # 0
  BY MapAssumption

LEMMA AtIsSlot ==
  ASSUME NEW t, IsTable(t), NEW k \in Keys, NEW probe \in Slots(t)
  PROVE  At(t, k, probe) \in Slots(t)
<1>1. Hash[k] \in Nat /\ Word \in Nat \ {0} /\ t.cap \in Nat \ {0} /\ probe \in Nat
  BY MapAssumption, HashIsWord DEF IsTable, Slots
<1>2. Hash[k] + probe \in Int
  BY <1>1
<1> DEFINE x == Hash[k] + probe
           y == x % Word
<1> HIDE DEF x
<1>3. x \in Int /\ y \in 0 .. Word - 1
  BY <1>1, <1>2, DivMod DEF x
<1> HIDE DEF y
<1>4. y \in Int
  BY <1>1, <1>3
<1>5. y % t.cap \in 0 .. t.cap - 1
  BY <1>1, <1>4, DivMod
<1>. QED
  BY <1>5 DEF At, Slots, y, x

LEMMA AtInOrder ==
  ASSUME InOrder, NEW t, IsTable(t), NEW k \in Keys, NEW probe \in Slots(t)
  PROVE  At(t, k, probe) = (Hash[k] + probe) % t.cap
<1>1. Hash[k] \in Nat /\ Word \in Nat \ {0} /\ t.cap \in Nat \ {0} /\ probe \in 0 .. t.cap - 1
  BY MapAssumption, HashIsWord DEF IsTable, Slots
<1>2. Hash[k] + probe \in Nat /\ t.cap \in Caps \ {0}
  BY <1>1 DEF IsTable
<1>3. CASE Word % t.cap = 0
  BY <1>1, <1>2, <1>3, RemainderOfMultiple DEF At
<1>4. CASE Hash[k] + t.cap <= Word
  <2>1. Hash[k] + probe \in 0 .. Word - 1
    BY <1>1, <1>4
  <2>. QED
    BY <1>1, <2>1, SmallRemainder DEF At
<1>. QED
  BY <1>2, <1>3, <1>4 DEF InOrder

-----------------------------------------------------------------------------
(***************************************************************************)
(* What map_lookup returns.                                                *)
(***************************************************************************)
LEMMA LookupFinds ==
  ASSUME NEW t, IsTable(t), NEW k \in Keys, Found(t, k) # {}
  PROVE  \E probe \in Slots(t) :
           /\ Lookup(t, k) = At(t, k, probe) /\ probe \in Found(t, k)
           /\ \A q \in 0 .. probe - 1 : t.keys[At(t, k, q)] \notin {0, k}
<1>1. Found(t, k) \subseteq Slots(t) /\ Slots(t) \subseteq Nat
  BY DEF Found, Slots, IsTable
<1>2. Min(Found(t, k)) \in Found(t, k) /\ \A y \in Found(t, k) : Min(Found(t, k)) <= y
  BY <1>1, LeastIsMin
<1> DEFINE m == Min(Found(t, k))
<1>3. Lookup(t, k) = At(t, k, m)
  BY DEF Lookup
<1> HIDE DEF m
<1>4. m \in Found(t, k) /\ \A y \in Found(t, k) : m <= y
  BY <1>2 DEF m
<1>5. m \in Slots(t) /\ t.cap \in Nat
  BY <1>1, <1>4 DEF IsTable
<1>6. \A q \in 0 .. m - 1 : q \in Slots(t) /\ ~(m <= q)
  BY <1>5 DEF Slots
<1>7. \A q \in 0 .. m - 1 : t.keys[At(t, k, q)] \notin {0, k}
  BY <1>4, <1>6 DEF Found, Slots
<1>. QED
  BY <1>3, <1>4, <1>5, <1>7

LEMMA LookupIsSlot ==
  ASSUME NEW t, IsTable(t), NEW k \in Keys, Lookup(t, k) # -1
  PROVE  /\ Lookup(t, k) \in Slots(t) /\ t.keys[Lookup(t, k)] \in {0, k}
         /\ \E probe \in Slots(t) : Probed(t, k, Lookup(t, k), probe)
<1>1. Found(t, k) # {}
  BY DEF Lookup
<1>2. PICK probe \in Slots(t) :
        /\ Lookup(t, k) = At(t, k, probe) /\ probe \in Found(t, k)
        /\ \A q \in 0 .. probe - 1 : t.keys[At(t, k, q)] \notin {0, k}
  BY <1>1, LookupFinds
<1>3. Lookup(t, k) \in Slots(t)
  BY <1>2, AtIsSlot
<1>4. t.keys[Lookup(t, k)] \in {0, k}
  BY <1>2 DEF Found
<1>5. Probed(t, k, Lookup(t, k), probe)
  BY <1>2 DEF Probed
<1>. QED
  BY <1>3, <1>4, <1>5

(* A key that is in the table is found.                                    *)
LEMMA LookupOfKey ==
  ASSUME NEW t, Sound(t), NEW k \in Keys, NEW i \in Slots(t), t.keys[i] = k
  PROVE  Lookup(t, k) = i
<1>1. IsTable(t) /\ Distinct(t) /\ k # 0
  BY MapAssumption DEF Sound
<1>2. PICK p \in Slots(t) : Probed(t, k, i, p)
  BY <1>1 DEF Sound, Reached
<1>3. p \in Found(t, k)
  BY <1>2 DEF Probed, Found, Slots
<1>4. PICK m \in Slots(t) :
        /\ Lookup(t, k) = At(t, k, m) /\ m \in Found(t, k)
        /\ \A q \in 0 .. m - 1 : t.keys[At(t, k, q)] \notin {0, k}
  BY <1>1, <1>3, LookupFinds
<1>5. At(t, k, m) \in Slots(t) /\ t.keys[At(t, k, m)] \in {0, k}
  BY <1>1, <1>4, AtIsSlot DEF Found
<1>6. p \in Nat /\ m \in Nat
  BY <1>1 DEF Slots, IsTable
<1>7. CASE t.keys[At(t, k, m)] = k
  BY <1>1, <1>4, <1>5, <1>7 DEF Distinct
<1>8. CASE t.keys[At(t, k, m)] = 0
  <2>1. ~(m < p)
    BY <1>2, <1>6, <1>8 DEF Probed
  <2>2. ~(p < m)
    BY <1>2, <1>4, <1>6 DEF Probed
  <2>. QED
    BY <2>1, <2>2, <1>1, <1>2, <1>6, <1>8 DEF Probed
<1>. QED
  BY <1>5, <1>7, <1>8

(* With an empty slot there is room for every key.                         *)
LEMMA LookupFindsRoom ==
  ASSUME InOrder, NEW t, IsTable(t), NEW k \in Keys, NEW j \in Slots(t), t.keys[j] = 0
  PROVE  Lookup(t, k) # -1
<1> DEFINE p == (j - Hash[k]) % t.cap
<1>1. Hash[k] \in Nat /\ t.cap \in Nat \ {0} /\ j \in 0 .. t.cap - 1 /\ j - Hash[k] \in Int
  BY MapAssumption DEF IsTable, Slots
<1>2. p \in 0 .. t.cap - 1
  BY <1>1, DivMod
<1>3. At(t, k, p) = j
  <2>1. (Hash[k] + p) % t.cap = j
    BY <1>1, ProbesReach
  <2> HIDE DEF p
  <2>2. p \in Slots(t)
    BY <1>2 DEF Slots
  <2>3. At(t, k, p) = (Hash[k] + p) % t.cap
    BY <2>2, AtInOrder
  <2>. QED
    BY <2>1, <2>3
<1> HIDE DEF p
<1>4. p \in Found(t, k)
  BY <1>2, <1>3 DEF Found
<1>5. PICK m \in Slots(t) : Lookup(t, k) = At(t, k, m)
  BY <1>4, LookupFinds
<1>6. Lookup(t, k) \in 0 .. t.cap - 1
  BY <1>5, AtIsSlot DEF Slots
<1>. QED
  BY <1>1, <1>6

LEMMA KeyOfDictionary ==
  ASSUME NEW t, Distinct(t), NEW i \in Slots(t), t.keys[i] # 0
  PROVE  t.keys[i] \in KeysIn(t) /\ Dictionary(t)[t.keys[i]] = t.vals[i]
<1>1. t.keys[i] \in KeysIn(t)
  BY DEF KeysIn
<1>2. SlotOf(t, t.keys[i]) \in Slots(t) /\ t.keys[SlotOf(t, t.keys[i])] = t.keys[i]
  BY DEF SlotOf
<1>3. SlotOf(t, t.keys[i]) = i
  BY <1>2 DEF Distinct
<1>. QED
  BY <1>1, <1>3 DEF Dictionary

LEMMA KeysAreKeys ==
  ASSUME NEW t, IsTable(t)
  PROVE  KeysIn(t) \subseteq Keys /\ \A k \in KeysIn(t) : \E i \in Slots(t) : t.keys[i] = k /\ k # 0
  BY DEF IsTable, KeysIn

-----------------------------------------------------------------------------
(***************************************************************************)
(* What storing a key does to a sound table.                               *)
(***************************************************************************)
LEMMA StoredFields ==
  ASSUME NEW t, IsTable(t), NEW k \in Keys, NEW v \in Vals \cup {0}, Lookup(t, k) # -1
  PROVE  LET u == Stored(t, k, v)
             i == Lookup(t, k)
         IN  /\ IsTable(u) /\ u.cap = t.cap /\ Slots(u) = Slots(t)
             /\ u.keys = [t.keys EXCEPT ![i] = k] /\ u.vals = [t.vals EXCEPT ![i] = v]
             /\ u.count = IF t.keys[i] = 0 THEN t.count + 1 ELSE t.count
<1> DEFINE u == Stored(t, k, v)
           i == Lookup(t, k)
<1>1. i \in Slots(t)
  BY LookupIsSlot
<1>2. u = [t EXCEPT !.keys[i] = k, !.vals[i] = v, !.count = IF t.keys[i] = 0 THEN @ + 1 ELSE @]
  BY DEF Stored
<1> HIDE DEF u, i
<1>3. /\ u.cap = t.cap /\ u.keys = [t.keys EXCEPT ![i] = k] /\ u.vals = [t.vals EXCEPT ![i] = v]
      /\ u.count = IF t.keys[i] = 0 THEN t.count + 1 ELSE t.count
  BY <1>2 DEF IsTable
<1>4. Slots(u) = Slots(t)
  BY <1>3 DEF Slots
<1>5. t.keys \in [Slots(t) -> Keys \cup {0}] /\ t.vals \in [Slots(t) -> Vals \cup {0}] /\ t.count \in Nat
  BY DEF IsTable
<1>6. u.keys \in [Slots(t) -> Keys \cup {0}] /\ u.vals \in [Slots(t) -> Vals \cup {0}]
  BY <1>1, <1>3, <1>5
<1>7. u.count \in Nat
  BY <1>3, <1>5
<1>8. u = [keys |-> u.keys, vals |-> u.vals, count |-> u.count, cap |-> u.cap]
  BY <1>2 DEF IsTable
<1>9. IsTable(u)
  BY <1>3, <1>4, <1>6, <1>7, <1>8 DEF IsTable
<1>. QED
  BY <1>3, <1>4, <1>9 DEF u, i

(* How the table u follows from t by storing v under k.                    *)
StoredIn(t, u, k, v) ==
    /\ u.cap = t.cap /\ Slots(u) = Slots(t)
    /\ KeysIn(u) = KeysIn(t) \cup {k}
    /\ u.count = IF k \in KeysIn(t) THEN t.count ELSE t.count + 1
    /\ \A j \in Slots(t) : IF u.keys[j] = k THEN u.vals[j] = v ELSE u.keys[j] = t.keys[j] /\ u.vals[j] = t.vals[j]

LEMMA StoringIsSound ==
  ASSUME NEW t, Sound(t), NEW k \in Keys, NEW v \in Vals \cup {0}, Lookup(t, k) # -1
  PROVE  Sound(Stored(t, k, v)) /\ StoredIn(t, Stored(t, k, v), k, v)
<1> DEFINE u == Stored(t, k, v)
           i == Lookup(t, k)
<1>1. /\ IsTable(u) /\ u.cap = t.cap /\ Slots(u) = Slots(t)
      /\ u.keys = [t.keys EXCEPT ![i] = k] /\ u.vals = [t.vals EXCEPT ![i] = v]
      /\ u.count = IF t.keys[i] = 0 THEN t.count + 1 ELSE t.count
  BY StoredFields DEF Sound
<1>2. /\ i \in Slots(t) /\ t.keys[i] \in {0, k}
      /\ \E probe \in Slots(t) : Probed(t, k, i, probe)
  BY LookupIsSlot DEF Sound
<1>3. \A j \in Slots(t) : t.keys[j] = k => j = i
  BY LookupOfKey
<1>4. k # 0 /\ IsTable(t) /\ Distinct(t) /\ Counted(t) /\ Reached(t)
  BY MapAssumption DEF Sound
<1> HIDE DEF u, i
<1>5. t.keys \in [Slots(t) -> Keys \cup {0}] /\ t.vals \in [Slots(t) -> Vals \cup {0}] /\ t.count \in Nat /\ t.cap \in Nat
  BY <1>4 DEF IsTable
<1>6. /\ u.keys[i] = k /\ u.vals[i] = v
      /\ \A j \in Slots(t) : j # i => u.keys[j] = t.keys[j] /\ u.vals[j] = t.vals[j] /\ u.keys[j] # k
  BY <1>1, <1>2, <1>3, <1>5
<1>7. \A j \in Slots(t) : t.keys[j] # 0 => u.keys[j] = t.keys[j]
  BY <1>2, <1>6
<1>8. Distinct(u)
  BY <1>1, <1>4, <1>6 DEF Distinct
<1>9. KeysIn(u) = KeysIn(t) \cup {k}
  <2>1. \A j \in Slots(t) : u.keys[j] = k \/ u.keys[j] = t.keys[j]
    BY <1>6
  <2>2. \A j \in Slots(t) : t.keys[j] = 0 \/ u.keys[j] = t.keys[j]
    BY <1>7
  <2>. QED
    BY <2>1, <2>2, <1>1, <1>2, <1>4, <1>6 DEF KeysIn
<1>10. t.keys[i] = 0 <=> k \notin KeysIn(t)
  BY <1>2, <1>3, <1>4 DEF KeysIn
<1>11. u.count = IF k \in KeysIn(t) THEN t.count ELSE t.count + 1
  BY <1>1, <1>10
<1>12. Counted(u)
  BY <1>4, <1>9, <1>11, FS_AddElement DEF Counted
<1>13. Reached(u)
  <2>1. \A l \in Keys : \A q : At(u, l, q) = At(t, l, q)
    BY <1>1 DEF At
  <2>2. ASSUME NEW l \in Keys, NEW j \in Slots(t), NEW p \in Slots(t), Probed(t, l, j, p)
        PROVE  Probed(u, l, j, p)
    <3>1. \A q \in 0 .. p - 1 : q \in Slots(t)
      BY <1>5 DEF Slots
    <3>2. \A q \in 0 .. p - 1 : u.keys[At(u, l, q)] # 0
      <4> SUFFICES ASSUME NEW q \in 0 .. p - 1
                   PROVE  u.keys[At(u, l, q)] # 0
        OBVIOUS
      <4>1. At(t, l, q) \in Slots(t) /\ t.keys[At(t, l, q)] # 0
        BY <3>1, <1>4, <2>2, AtIsSlot DEF Probed
      <4>. QED
        BY <4>1, <2>1, <1>7
    <3>. QED
      BY <3>2, <2>1, <2>2, <1>1 DEF Probed
  <2>3. ASSUME NEW j \in Slots(t), u.keys[j] # 0
        PROVE  \E p \in Slots(t) : Probed(u, u.keys[j], j, p)
    <3>1. CASE j = i
      BY <3>1, <1>2, <1>6, <2>2
    <3>2. CASE j # i
      <4>1. u.keys[j] = t.keys[j] /\ t.keys[j] \in Keys
        BY <3>2, <2>3, <1>5, <1>6
      <4>2. PICK p \in Slots(t) : Probed(t, t.keys[j], j, p)
        BY <4>1, <2>3, <1>4 DEF Reached
      <4>. QED
        BY <4>1, <4>2, <2>2
    <3>. QED
      BY <3>1, <3>2
  <2>. QED
    BY <2>3, <1>1 DEF Reached
<1>14. StoredIn(t, u, k, v)
  BY <1>1, <1>6, <1>9, <1>11 DEF StoredIn
<1>. QED
  BY <1>1, <1>8, <1>12, <1>13, <1>14 DEF u, Sound

-----------------------------------------------------------------------------
(***************************************************************************)
(* What removing a key does to a sound table, and a new table.             *)
(***************************************************************************)
Emptied(t, i) == [t EXCEPT !.keys[i] = 0, !.count = @ - 1]

(* How the table u follows from t by removing k.                           *)
RemovedFrom(t, u, k) ==
    /\ u.cap = t.cap /\ Slots(u) = Slots(t)
    /\ KeysIn(u) = KeysIn(t) \ {k}
    /\ \A j \in Slots(t) : u.keys[j] # 0 => u.keys[j] = t.keys[j] /\ u.vals[j] = t.vals[j]

LEMMA EmptiedFields ==
  ASSUME NEW t, IsTable(t), Distinct(t), Counted(t), NEW k \in Keys, NEW i \in Slots(t), t.keys[i] = k
  PROVE  LET u == Emptied(t, i)
         IN  /\ IsTable(u) /\ Distinct(u) /\ Counted(u) /\ RemovedFrom(t, u, k)
             /\ u.keys = [t.keys EXCEPT ![i] = 0]
<1> DEFINE u == Emptied(t, i)
<1>1. u = [t EXCEPT !.keys[i] = 0, !.count = @ - 1]
  BY DEF Emptied
<1>2. k # 0
  BY MapAssumption
<1> HIDE DEF u
<1>3. u.cap = t.cap /\ u.keys = [t.keys EXCEPT ![i] = 0] /\ u.vals = t.vals /\ u.count = t.count - 1
  BY <1>1 DEF IsTable
<1>4. Slots(u) = Slots(t)
  BY <1>3 DEF Slots
<1>5. t.keys \in [Slots(t) -> Keys \cup {0}] /\ t.vals \in [Slots(t) -> Vals \cup {0}] /\ t.count \in Nat
  BY DEF IsTable
<1>6. /\ u.keys[i] = 0
      /\ \A j \in Slots(t) : j # i => u.keys[j] = t.keys[j] /\ t.keys[j] # k
  BY <1>2, <1>3, <1>5 DEF Distinct
<1>7. u.keys \in [Slots(t) -> Keys \cup {0}]
  BY <1>3, <1>5
<1>8. KeysIn(u) = KeysIn(t) \ {k}
  BY <1>2, <1>4, <1>6 DEF KeysIn
<1>9. k \in KeysIn(t)
  BY <1>2 DEF KeysIn
<1>10. /\ IsFiniteSet(KeysIn(u)) /\ Cardinality(KeysIn(u)) = t.count - 1 /\ t.count - 1 \in Nat
  <2>1. IsFiniteSet(KeysIn(t)) /\ t.count = Cardinality(KeysIn(t))
    BY DEF Counted
  <2>2. IsFiniteSet(KeysIn(t) \ {k}) /\ Cardinality(KeysIn(t) \ {k}) = Cardinality(KeysIn(t)) - 1
    BY <2>1, <1>9, FS_RemoveElement
  <2>3. Cardinality(KeysIn(t) \ {k}) \in Nat
    BY <2>2, FS_CardinalityType
  <2>. QED
    BY <2>1, <2>2, <2>3, <1>8
<1>11. Counted(u)
  BY <1>3, <1>10 DEF Counted
<1>12. u = [keys |-> u.keys, vals |-> u.vals, count |-> u.count, cap |-> u.cap]
  BY <1>1 DEF IsTable
<1>13. IsTable(u)
  BY <1>3, <1>4, <1>5, <1>7, <1>10, <1>12 DEF IsTable
<1>14. Distinct(u)
  BY <1>4, <1>6 DEF Distinct
<1>15. RemovedFrom(t, u, k)
  BY <1>3, <1>4, <1>6, <1>8 DEF RemovedFrom
<1>. QED
  BY <1>3, <1>11, <1>13, <1>14, <1>15 DEF u

(* With the next slot empty, no key is probed for past the emptied one.    *)
LEMMA EmptiedIsReached ==
  ASSUME InOrder, NEW t, Sound(t), NEW k \in Keys, NEW i \in Slots(t), t.keys[i] = k, t.keys[(i + 1) % t.cap] = 0
  PROVE  Reached(Emptied(t, i))
<1> DEFINE u == Emptied(t, i)
<1>1. IsTable(t) /\ Distinct(t) /\ Counted(t) /\ Reached(t)
  BY DEF Sound
<1>2. /\ IsTable(u) /\ RemovedFrom(t, u, k)
      /\ u.keys = [t.keys EXCEPT ![i] = 0]
  BY <1>1, EmptiedFields
<1> HIDE DEF u
<1>3. /\ u.cap = t.cap /\ Slots(u) = Slots(t) /\ t.keys \in [Slots(t) -> Keys \cup {0}] /\ t.cap \in Nat \ {0}
  BY <1>1, <1>2 DEF RemovedFrom, IsTable, Slots
<1>4. \A j \in Slots(t) : IF j = i THEN u.keys[j] = 0 ELSE u.keys[j] = t.keys[j]
  BY <1>2, <1>3
<1> SUFFICES ASSUME NEW j \in Slots(t), u.keys[j] # 0
             PROVE  \E p \in Slots(t) : Probed(u, u.keys[j], j, p)
  BY <1>3 DEF Reached, u
<1>5. u.keys[j] = t.keys[j] /\ j # i /\ t.keys[j] \in Keys
  BY <1>3, <1>4
<1>6. PICK p \in Slots(t) : Probed(t, t.keys[j], j, p)
  BY <1>1, <1>5 DEF Reached
<1> DEFINE l == t.keys[j]
<1> HIDE DEF l
<1>7. l \in Keys /\ At(t, l, p) = j /\ (\A q \in 0 .. p - 1 : t.keys[At(t, l, q)] # 0)
  BY <1>5, <1>6 DEF Probed, l
<1>8. \A q \in 0 .. p - 1 : At(t, l, q) # i
  <2> SUFFICES ASSUME NEW q \in 0 .. p - 1, At(t, l, q) = i
               PROVE  FALSE
    OBVIOUS
  <2>1. p \in Nat /\ q \in Nat /\ q + 1 \in Nat /\ Hash[l] \in Nat
    BY <1>7, MapAssumption DEF Slots
  <2>2. Hash[l] + q \in Nat /\ (Hash[l] + q) + 1 = Hash[l] + (q + 1)
    BY <2>1
  <2>3. At(t, l, q + 1) = (i + 1) % t.cap
    <3>1. q \in Slots(t) /\ q + 1 \in Slots(t)
      BY <2>1, <1>3 DEF Slots
    <3>2. At(t, l, q) = (Hash[l] + q) % t.cap /\ At(t, l, q + 1) = (Hash[l] + (q + 1)) % t.cap
      BY <3>1, <1>1, <1>7, AtInOrder
    <3>. QED
      BY <3>2, <2>2, <1>3, NextSlot
  <2>4. t.keys[At(t, l, q + 1)] = 0
    BY <2>3
  <2>5. CASE q + 1 = p
    BY <2>4, <2>5, <1>5, <1>7, MapAssumption DEF l
  <2>6. CASE q + 1 < p
    BY <2>1, <2>4, <2>6, <1>7
  <2>. QED
    BY <2>1, <2>5, <2>6
<1>9. \A q \in 0 .. p - 1 : q \in Slots(t)
  BY <1>3 DEF Slots
<1>10. \A q \in 0 .. p - 1 : u.keys[At(t, l, q)] # 0
  <2> SUFFICES ASSUME NEW q \in 0 .. p - 1
               PROVE  u.keys[At(t, l, q)] # 0
    OBVIOUS
  <2>1. At(t, l, q) \in Slots(t)
    BY <1>1, <1>7, <1>9, AtIsSlot
  <2>. QED
    BY <2>1, <1>4, <1>7, <1>8
<1>11. \A q : At(u, l, q) = At(t, l, q)
  BY <1>3 DEF At
<1>12. Probed(u, l, j, p)
  BY <1>3, <1>7, <1>10, <1>11 DEF Probed
<1>. QED
  BY <1>5, <1>12 DEF l

LEMMA CreatedIsSound ==
  ASSUME NEW cap \in Caps
  PROVE  /\ Sound(Created(cap)) /\ KeysIn(Created(cap)) = {}
         /\ Created(cap).cap = cap /\ Created(cap).count = 0
<1> DEFINE t == Created(cap)
<1>1. /\ t.cap = cap /\ t.count = 0 /\ Slots(t) = 0 .. cap - 1
      /\ \A i \in 0 .. cap - 1 : t.keys[i] = 0
  BY DEF Created, Slots
<1>2. IsTable(t)
  <2>1. t = [keys |-> t.keys, vals |-> t.vals, count |-> t.count, cap |-> t.cap]
    BY DEF Created
  <2>2. t.keys \in [0 .. cap - 1 -> Keys \cup {0}] /\ t.vals \in [0 .. cap - 1 -> Vals \cup {0}]
    BY DEF Created
  <2> HIDE DEF t
  <2>. QED
    BY <2>1, <2>2, <1>1, MapAssumption DEF IsTable
<1> HIDE DEF t
<1>3. KeysIn(t) = {}
  BY <1>1 DEF KeysIn
<1>4. Counted(t)
  BY <1>1, <1>3, FS_EmptySet DEF Counted
<1>5. Distinct(t) /\ Reached(t)
  BY <1>1 DEF Distinct, Reached
<1>. QED
  BY <1>1, <1>2, <1>3, <1>4, <1>5 DEF t, Sound

(* A sound table with no empty slot holds as many keys as it has slots.    *)
LEMMA FullIsCounted ==
  ASSUME NEW t, Sound(t), \A j \in Slots(t) : t.keys[j] # 0
  PROVE  t.count = t.cap
<1>1. IsTable(t) /\ Distinct(t) /\ Counted(t) /\ t.cap \in Nat
  BY DEF Sound, IsTable
<1>2. IsFiniteSet(Slots(t)) /\ Cardinality(Slots(t)) = t.cap
  <2>1. 0 \in Int /\ t.cap - 1 \in Int /\ t.cap \in Nat
    BY <1>1
  <2>2. IsFiniteSet(0 .. t.cap - 1) /\ Cardinality(0 .. t.cap - 1) = IF 0 > t.cap - 1 THEN 0 ELSE (t.cap - 1) - 0 + 1
    BY <2>1, FS_Interval
  <2>. QED
    BY <2>1, <2>2 DEF Slots
<1> DEFINE f == [j \in Slots(t) |-> t.keys[j]]
<1>3. f \in Bijection(Slots(t), KeysIn(t))
  <2>1. f \in [Slots(t) -> KeysIn(t)]
    BY DEF KeysIn
  <2>2. \A a, b \in Slots(t) : f[a] = f[b] => a = b
    BY <1>1 DEF Distinct
  <2>3. \A k \in KeysIn(t) : \E a \in Slots(t) : f[a] = k
    BY DEF KeysIn
  <2>. QED
    BY <2>1, <2>2, <2>3 DEF Bijection, Injection, Surjection, IsInjective
<1>4. ExistsBijection(Slots(t), KeysIn(t))
  BY <1>3 DEF ExistsBijection
<1>. QED
  BY <1>1, <1>2, <1>4, FS_Bijection DEF Counted

-----------------------------------------------------------------------------
(***************************************************************************)
(* A put, into the map or into the table it has grown into.                *)
(***************************************************************************)
LEMMA SameCardinality ==
  ASSUME NEW S
  PROVE  Dict!Cardinality(S) = Cardinality(S)
  BY DEF Dict!Cardinality, Cardinality

LEMMA SizeIsCounted ==
  ASSUME NEW t, Counted(t)
  PROVE  DOMAIN Dictionary(t) = KeysIn(t) /\ t.count = Cardinality(DOMAIN Dictionary(t))
  BY DEF Dictionary, Counted

WithKey(t, k, v) == [j \in KeysIn(t) \cup {k} |-> IF j = k THEN v ELSE Dictionary(t)[j]]

LEMMA StoredDictionary ==
  ASSUME NEW t, Sound(t), NEW u, Sound(u), NEW k \in Keys, NEW v, StoredIn(t, u, k, v)
  PROVE  Dictionary(u) = WithKey(t, k, v)
<1>1. IsTable(t) /\ IsTable(u) /\ Distinct(t) /\ Distinct(u) /\ KeysIn(u) = KeysIn(t) \cup {k}
  BY DEF Sound, StoredIn
<1>2. ASSUME NEW j \in KeysIn(u)
      PROVE  Dictionary(u)[j] = IF j = k THEN v ELSE Dictionary(t)[j]
  <2>1. PICK i \in Slots(u) : u.keys[i] = j /\ j # 0
    BY <1>1, KeysAreKeys
  <2>2. Dictionary(u)[j] = u.vals[i] /\ i \in Slots(t)
    BY <1>1, <2>1, KeyOfDictionary DEF StoredIn
  <2>3. CASE j = k
    BY <2>1, <2>2, <2>3 DEF StoredIn
  <2>4. CASE j # k
    <3>1. t.keys[i] = j /\ u.vals[i] = t.vals[i]
      BY <2>1, <2>2, <2>4 DEF StoredIn
    <3>2. Dictionary(t)[j] = t.vals[i]
      BY <1>1, <2>1, <2>2, <3>1, KeyOfDictionary
    <3>. QED
      BY <2>2, <2>4, <3>1, <3>2
  <2>. QED
    BY <2>3, <2>4
<1>. QED
  BY <1>1, <1>2, Zenon DEF Dictionary, WithKey

LEMMA RemovedDictionary ==
  ASSUME NEW t, IsTable(t), Distinct(t), NEW u, IsTable(u), Distinct(u), NEW k, RemovedFrom(t, u, k)
  PROVE  Dictionary(u) = [j \in KeysIn(t) \ {k} |-> Dictionary(t)[j]]
<1>1. KeysIn(u) = KeysIn(t) \ {k}
  BY DEF RemovedFrom
<1>2. ASSUME NEW j \in KeysIn(u)
      PROVE  Dictionary(u)[j] = Dictionary(t)[j]
  <2>1. PICK i \in Slots(u) : u.keys[i] = j /\ j # 0
    BY KeysAreKeys
  <2>2. Dictionary(u)[j] = u.vals[i] /\ i \in Slots(t)
    BY <2>1, KeyOfDictionary DEF RemovedFrom
  <2>3. t.keys[i] = j /\ u.vals[i] = t.vals[i]
    BY <2>1, <2>2 DEF RemovedFrom
  <2>4. Dictionary(t)[j] = t.vals[i]
    BY <2>1, <2>2, <2>3, KeyOfDictionary
  <2>. QED
    BY <2>2, <2>3, <2>4
<1>. QED
  BY <1>1, <1>2, Zenon DEF Dictionary

LEMMA StoreImplements ==
  ASSUME NEW t, Sound(t), Dictionary(t) = Dictionary(map), NEW k \in Keys, NEW v \in Vals, Store(t, k, v)
  PROVE  Sound(map') /\ Dict!DictPut(k, v) /\ Dict!SizeKnown
<1>1. map' = Stored(t, k, v) /\ answer' = [op |-> "put", ret |-> Lookup(t, k) # -1]
  BY DEF Store
<1>2. DOMAIN Dictionary(map) = KeysIn(t)
  BY SizeIsCounted DEF Sound
<1>3. CASE Lookup(t, k) = -1
  <2>1. map' = t /\ answer' = [op |-> "put", ret |-> FALSE]
    BY <1>1, <1>3 DEF Stored
  <2>2. Dictionary(map') = Dictionary(map) /\ Sound(map')
    BY <2>1
  <2>3. map'.count = Dict!Cardinality(DOMAIN Dictionary(map'))
    BY <2>2, SizeIsCounted, SameCardinality, Zenon DEF Sound
  <2>. QED
    BY <2>1, <2>2, <2>3, Zenon DEF Dict!DictPut, Dict!SizeKnown
<1>4. CASE Lookup(t, k) # -1
  <2>1. Sound(map') /\ StoredIn(t, map', k, v) /\ answer' = [op |-> "put", ret |-> TRUE]
    BY <1>1, <1>4, StoringIsSound
  <2>2. Dictionary(map') = WithKey(t, k, v)
    BY <2>1, StoredDictionary
  <2>3. map'.count = Dict!Cardinality(DOMAIN Dictionary(map'))
    BY <2>1, SizeIsCounted, SameCardinality, Zenon DEF Sound
  <2>. QED
    BY <2>1, <2>2, <2>3, <1>2, Zenon DEF WithKey, Dict!DictPut, Dict!SizeKnown
<1>. QED
  BY <1>3, <1>4

(* When every slot has been moved the new table says what the map says.    *)
LEMMA GrownDictionary ==
  ASSUME Sound(map), GrowsSoundly, grow.moved = map.cap
  PROVE  Sound(grow.table) /\ Dictionary(grow.table) = Dictionary(map)
<1> DEFINE t == grow.table
<1>1. Sound(t) /\ Moved = Slots(map)
  BY DEF GrowsSoundly, Moved, Slots
<1>2. IsTable(t) /\ Distinct(t) /\ IsTable(map) /\ Distinct(map)
  BY <1>1 DEF Sound
<1>3. /\ KeysIn(t) = {map.keys[i] : i \in Slots(map)}
      /\ \A i \in Slots(map) : map.keys[i] # 0
      /\ \A i \in Slots(map) : \A j \in Slots(t) : t.keys[j] = map.keys[i] => t.vals[j] = map.vals[i]
  BY <1>1 DEF GrowsSoundly
<1> HIDE DEF t
<1>4. KeysIn(t) = KeysIn(map)
  BY <1>3 DEF KeysIn
<1>5. ASSUME NEW k \in KeysIn(t)
      PROVE  Dictionary(t)[k] = Dictionary(map)[k]
  <2>1. PICK j \in Slots(t) : t.keys[j] = k /\ k # 0
    BY <1>2, KeysAreKeys
  <2>2. PICK i \in Slots(map) : map.keys[i] = k
    BY <1>3
  <2>3. Dictionary(t)[k] = t.vals[j] /\ Dictionary(map)[k] = map.vals[i]
    BY <1>2, <2>1, <2>2, KeyOfDictionary
  <2>. QED
    BY <2>1, <2>2, <2>3, <1>3
<1>. QED
  BY <1>1, <1>4, <1>5, Zenon DEF Dictionary, t

-----------------------------------------------------------------------------
(***************************************************************************)
(* Growing.  The new table is never full while there is a slot to move,    *)
(* and every key is moved once, so that its place there is a new one.      *)
(***************************************************************************)
LEMMA PutGrowsSoundly ==
  ASSUME Sound(map), NEW k \in Keys, NEW v \in Vals, PutGrows(k, v)
  PROVE  GrowsSoundly'
<1> DEFINE t == Created(2 * map.cap)
<1>1. map.cap \in Nat /\ 2 * map.cap \in Caps
  BY MapAssumption DEF Sound, IsTable, PutGrows
<1>2. Sound(t) /\ KeysIn(t) = {} /\ t.cap = 2 * map.cap /\ t.count = 0
  BY <1>1, CreatedIsSound
<1>3. grow' = [table |-> t, moved |-> 0, key |-> k, val |-> v] /\ map' = map
  BY DEF PutGrows
<1> HIDE DEF t
<1>4. grow'.table = t /\ grow'.moved = 0
  BY <1>3
<1>5. grow' \in [table : {t}, moved : 0 .. map.cap, key : Keys, val : Vals]
  BY <1>1, <1>3
<1>6. Moved' = {}
  BY <1>4 DEF Moved
<1>. QED
  BY <1>2, <1>3, <1>4, <1>5, <1>6 DEF GrowsSoundly

LEMMA MoveSlotIsSound ==
  ASSUME InOrder, Sound(map), GrowsSoundly, MoveSlot
  PROVE  GrowsSoundly'
<1> DEFINE t == grow.table
           n == grow.moved
           k == map.keys[n]
           v == map.vals[n]
           u == Stored(t, k, v)
<1>1. /\ grow \in [table : {t}, moved : 0 .. map.cap, key : Keys, val : Vals]
      /\ Sound(t) /\ t.cap = 2 * map.cap /\ t.count = n
      /\ \A i \in Moved : map.keys[i] # 0
      /\ KeysIn(t) = {map.keys[i] : i \in Moved}
      /\ \A i \in Moved : \A j \in Slots(t) : t.keys[j] = map.keys[i] => t.vals[j] = map.vals[i]
  BY DEF GrowsSoundly
<1>2. /\ n < map.cap /\ k # 0 /\ map' = map
      /\ grow' = [grow EXCEPT !.table = u, !.moved = n + 1]
  BY DEF MoveSlot, Moving
<1>3. /\ IsTable(map) /\ Distinct(map) /\ map.cap \in Nat /\ IsTable(t)
      /\ map.keys \in [Slots(map) -> Keys \cup {0}] /\ map.vals \in [Slots(map) -> Vals \cup {0}]
  BY <1>1 DEF Sound, IsTable
<1>4. n \in 0 .. map.cap
  BY <1>1
<1>5. n \in Slots(map) /\ n \in Nat /\ n + 1 \in 0 .. map.cap /\ Moved = 0 .. n - 1 /\ Moved \subseteq Slots(map)
  BY <1>2, <1>3, <1>4 DEF Slots, Moved
<1>6. k \in Keys /\ v \in Vals \cup {0}
  BY <1>2, <1>3, <1>5
<1>7. grow'.table = u /\ grow'.moved = n + 1
  BY <1>1, <1>2
<1>8. grow' \in [table : {u}, moved : 0 .. map.cap, key : Keys, val : Vals]
  BY <1>1, <1>2, <1>5
<1>9. Moved' = Moved \cup {n} /\ n \notin Moved
  BY <1>5, <1>7 DEF Moved
<1> HIDE DEF t, n, k, v, u
<1>10. k \notin KeysIn(t)
  <2>1. \A i \in Moved : map.keys[i] # map.keys[n]
    BY <1>2, <1>3, <1>5, <1>9 DEF Distinct, k
  <2>. QED
    BY <2>1, <1>1 DEF k
<1>11. Lookup(t, k) # -1
  <2>1. t.count # t.cap
    BY <1>1, <1>2, <1>3, <1>5
  <2>2. \E j \in Slots(t) : t.keys[j] = 0
    BY <2>1, <1>1, FullIsCounted
  <2>. QED
    BY <2>2, <1>3, <1>6, LookupFindsRoom
<1>12. Sound(u) /\ StoredIn(t, u, k, v)
  BY <1>1, <1>6, <1>11, StoringIsSound DEF u
<1>13. u.cap = t.cap /\ Slots(u) = Slots(t) /\ KeysIn(u) = KeysIn(t) \cup {k} /\ u.count = t.count + 1
  BY <1>10, <1>12 DEF StoredIn
<1>14. KeysIn(u) = {map.keys[i] : i \in Moved \cup {n}}
  BY <1>1, <1>13 DEF k
<1>15. \A i \in Moved \cup {n} : map.keys[i] # 0
  BY <1>1, <1>2 DEF k
<1>16. \A i \in Moved \cup {n} : \A j \in Slots(u) : u.keys[j] = map.keys[i] => u.vals[j] = map.vals[i]
  <2> SUFFICES ASSUME NEW i \in Moved \cup {n}, NEW j \in Slots(u), u.keys[j] = map.keys[i]
               PROVE  u.vals[j] = map.vals[i]
    OBVIOUS
  <2>1. CASE i = n
    BY <2>1, <1>12, <1>13 DEF StoredIn, k, v
  <2>2. CASE i # n
    <3>1. i \in Moved /\ map.keys[i] # k
      BY <2>2, <1>1, <1>10
    <3>2. u.keys[j] = t.keys[j] /\ u.vals[j] = t.vals[j] /\ j \in Slots(t)
      BY <3>1, <1>12, <1>13 DEF StoredIn
    <3>. QED
      BY <3>1, <3>2, <1>1
  <2>. QED
    BY <2>1, <2>2
<1>. QED
  BY <1>1, <1>2, <1>7, <1>8, <1>9, <1>12, <1>13, <1>14, <1>15, <1>16 DEF GrowsSoundly

-----------------------------------------------------------------------------
(***************************************************************************)
(* Every step keeps the invariant, and is a step of the dictionary or      *)
(* leaves it as it is.                                                     *)
(***************************************************************************)
LEMMA RemoveImplements ==
  ASSUME InOrder, Sound(map), cut = FALSE, NEW k \in Keys, MapRemove(k)
  PROVE  cut' \in BOOLEAN /\ (cut' \/ Sound(map')) /\ Dict!DictRemove(k) /\ Dict!SizeKnown
<1> DEFINE i == Lookup(map, k)
           taken == i # -1 /\ map.keys[i] # 0
<1>1. /\ map' = IF taken THEN [map EXCEPT !.keys[i] = 0, !.count = @ - 1] ELSE map
      /\ cut' = (taken /\ map.keys[(i + 1) % map.cap] # 0)
      /\ answer' = [op |-> "remove", ret |-> i # -1]
  BY DEF MapRemove
<1>2. IsTable(map) /\ Distinct(map) /\ Counted(map)
  BY DEF Sound
<1>3. DOMAIN Dictionary(map) = KeysIn(map)
  BY <1>2, SizeIsCounted
<1>4. CASE taken
  <2>1. i \in Slots(map) /\ map.keys[i] = k
    BY <1>2, <1>4, LookupIsSlot
  <2>2. map' = Emptied(map, i)
    BY <1>1, <1>4 DEF Emptied
  <2> HIDE DEF i
  <2>3. IsTable(map') /\ Distinct(map') /\ Counted(map') /\ RemovedFrom(map, map', k)
    BY <1>2, <2>1, <2>2, EmptiedFields
  <2>4. Dictionary(map') = [j \in KeysIn(map) \ {k} |-> Dictionary(map)[j]]
    BY <1>2, <2>3, RemovedDictionary
  <2>5. map'.count = Dict!Cardinality(DOMAIN Dictionary(map'))
    BY <2>3, SizeIsCounted, SameCardinality, Zenon
  <2>6. cut' \/ Reached(map')
    <3>1. CASE map.keys[(i + 1) % map.cap] = 0
      BY <3>1, <2>1, <2>2, EmptiedIsReached
    <3>2. CASE map.keys[(i + 1) % map.cap] # 0
      BY <3>2, <1>1, <1>4
    <3>. QED
      BY <3>1, <3>2
  <2>7. cut' \in BOOLEAN /\ answer' = [op |-> "remove", ret |-> TRUE]
    BY <1>1, <1>4
  <2>8. Dict!DictRemove(k) /\ Dict!SizeKnown
    BY <1>3, <2>4, <2>5, <2>7, Zenon DEF Dict!DictRemove, Dict!SizeKnown
  <2>. QED
    BY <2>3, <2>6, <2>7, <2>8 DEF Sound
<1>5. CASE ~taken
  <2>1. map' = map /\ cut' = FALSE
    BY <1>1, <1>5
  <2>2. k \notin KeysIn(map)
    <3> SUFFICES ASSUME k \in KeysIn(map)
                 PROVE  FALSE
      OBVIOUS
    <3>1. PICK j \in Slots(map) : map.keys[j] = k /\ k # 0
      BY <1>2, KeysAreKeys
    <3>2. i = j /\ map.keys[i] = k
      BY <3>1, LookupOfKey
    <3>3. i # -1
      BY <3>1, <3>2, <1>2 DEF Slots, IsTable
    <3>. QED
      BY <3>1, <3>2, <3>3, <1>5
  <2>3. KeysIn(map) \ {k} = KeysIn(map)
    BY <2>2
  <2>4. Dictionary(map') = [j \in KeysIn(map) \ {k} |-> Dictionary(map)[j]]
    BY <2>1, <2>3 DEF Dictionary
  <2>5. map'.count = Dict!Cardinality(DOMAIN Dictionary(map'))
    BY <2>1, <1>2, SizeIsCounted, SameCardinality, Zenon
  <2>6. \E ret \in BOOLEAN : answer' = [op |-> "remove", ret |-> ret]
    BY <1>1
  <2>7. Dict!DictRemove(k) /\ Dict!SizeKnown
    BY <1>3, <2>2, <2>4, <2>5, <2>6, Zenon DEF Dict!DictRemove, Dict!SizeKnown
  <2>. QED
    BY <2>1, <2>7
<1>. QED
  BY <1>4, <1>5

LEMMA GetImplements ==
  ASSUME Sound(map), NEW k \in Keys, Get(k)
  PROVE  Dict!DictGet(k) /\ Dict!SizeKnown
<1> DEFINE i == Lookup(map, k)
<1>1. /\ answer' = IF i # -1 /\ map.keys[i] # 0 THEN [op |-> "get", ret |-> TRUE, val |-> map.vals[i]]
                   ELSE [op |-> "get", ret |-> FALSE]
      /\ map' = map
  BY DEF Get
<1>2. IsTable(map) /\ Distinct(map) /\ Counted(map)
  BY DEF Sound
<1>3. DOMAIN Dictionary(map) = KeysIn(map)
  BY <1>2, SizeIsCounted
<1>4. Dictionary(map') = Dictionary(map)
  BY <1>1
<1>5. map'.count = Dict!Cardinality(DOMAIN Dictionary(map'))
  BY <1>1, <1>2, SizeIsCounted, SameCardinality, Zenon
<1>6. CASE i # -1 /\ map.keys[i] # 0
  <2>1. i \in Slots(map) /\ map.keys[i] = k
    BY <1>2, <1>6, LookupIsSlot
  <2>2. k \in KeysIn(map) /\ Dictionary(map)[k] = map.vals[i]
    BY <1>2, <1>6, <2>1, KeyOfDictionary
  <2>. QED
    BY <1>1, <1>3, <1>4, <1>5, <1>6, <2>2 DEF Dict!DictGet, Dict!SizeKnown
<1>7. CASE ~(i # -1 /\ map.keys[i] # 0)
  <2>1. k \notin KeysIn(map)
    <3> SUFFICES ASSUME k \in KeysIn(map)
                 PROVE  FALSE
      OBVIOUS
    <3>1. PICK j \in Slots(map) : map.keys[j] = k /\ k # 0
      BY <1>2, KeysAreKeys
    <3>2. i = j /\ map.keys[i] = k
      BY <3>1, LookupOfKey
    <3>3. i # -1
      BY <3>1, <3>2, <1>2 DEF Slots, IsTable
    <3>. QED
      BY <3>1, <3>2, <3>3, <1>7
  <2>. QED
    BY <1>1, <1>3, <1>4, <1>5, <1>7, <2>1 DEF Dict!DictGet, Dict!SizeKnown
<1>. QED
  BY <1>6, <1>7

LEMMA MapInitial ==
  ASSUME MapInit
  PROVE  MapInv /\ Dict!DictInit
<1>1. PICK cap \in Caps : map = Created(cap)
  BY DEF MapInit
<1>2. cap \in Nat
  BY MapAssumption
<1>3. Sound(map) /\ KeysIn(map) = {} /\ map.count = 0
  BY <1>1, <1>2, CreatedIsSound
<1>4. Dictionary(map) = <<>>
  BY <1>3 DEF Dictionary
<1>. QED
  BY <1>3, <1>4 DEF MapInit, MapInv, Growing, Dict!DictInit, Dict!NoAnswer

(* Once a remove has cut a key off the dictionary may do anything.         *)
LEMMA CutStep ==
  ASSUME cut \in BOOLEAN, cut, [MapNext]_mapVars
  PROVE  MapInv' /\ Dict!DictNext
<1>1. cut' = TRUE
  <2>1. cut = TRUE
    OBVIOUS
  <2>2. UNCHANGED cut \/ \E b : cut' = (cut \/ b)
    BY DEF MapNext, MapCall, Get, MapRemove, Put, PutGrows, MoveSlot, MoveFails, PutGrown, Store, mapVars
  <2>. QED
    BY <2>1, <2>2
<1>. QED
  BY <1>1 DEF MapInv, Dict!DictNext

LEMMA CallStep ==
  ASSUME InOrder, Sound(map), cut = FALSE, MapCall
  PROVE  MapInv' /\ [Dict!DictNext]_(Dict!dictVars)
<1>1. ~Growing
  BY DEF MapCall
<1>2. PICK k \in Keys : Get(k) \/ MapRemove(k) \/ \E v \in Vals : Put(k, v) \/ PutGrows(k, v)
  BY DEF MapCall
<1>3. CASE Get(k)
  <2>1. UNCHANGED <<map, grow, cut>>
    BY <1>3 DEF Get
  <2>2. ~Growing'
    BY <1>1, <2>1 DEF Growing
  <2>3. Dict!DictGet(k) /\ Dict!SizeKnown
    BY <1>3, GetImplements
  <2>. QED
    BY <2>1, <2>2, <2>3 DEF MapInv, Dict!DictNext
<1>4. CASE MapRemove(k)
  <2>1. ~Growing'
    BY <1>1, <1>4 DEF MapRemove, Growing
  <2>2. cut' \in BOOLEAN /\ (cut' \/ Sound(map')) /\ Dict!DictRemove(k) /\ Dict!SizeKnown
    BY <1>4, RemoveImplements
  <2>. QED
    BY <2>1, <2>2 DEF MapInv, Dict!DictNext
<1>5. CASE \E v \in Vals : Put(k, v)
  <2>1. PICK v \in Vals : Put(k, v)
    BY <1>5
  <2>2. Store(map, k, v) /\ ~Growing' /\ cut' = FALSE
    BY <1>1, <2>1 DEF Put, Store, Growing
  <2>3. Sound(map') /\ Dict!DictPut(k, v) /\ Dict!SizeKnown
    BY <2>2, StoreImplements
  <2>. QED
    BY <2>2, <2>3 DEF MapInv, Dict!DictNext
<1>6. CASE \E v \in Vals : PutGrows(k, v)
  <2>1. PICK v \in Vals : PutGrows(k, v)
    BY <1>6
  <2>2. GrowsSoundly' /\ UNCHANGED <<map, answer, cut>>
    BY <2>1, PutGrowsSoundly DEF PutGrows
  <2>. QED
    BY <2>2 DEF MapInv, Dict!dictVars
<1>. QED
  BY <1>2, <1>3, <1>4, <1>5, <1>6

LEMMA StutterKeeps ==
  ASSUME Sound(map), Growing => GrowsSoundly, cut = FALSE, UNCHANGED <<map, grow, answer, cut>>
  PROVE  MapInv' /\ [Dict!DictNext]_(Dict!dictVars)
<1>1. Growing' => GrowsSoundly'
  BY DEF Growing, GrowsSoundly, Moved
<1>. QED
  BY <1>1 DEF MapInv, Dict!dictVars

LEMMA MapStep ==
  ASSUME InOrder, MapInv, [MapNext]_mapVars
  PROVE  MapInv' /\ [Dict!DictNext]_(Dict!dictVars)
<1>1. CASE cut
  BY <1>1, CutStep DEF MapInv
<1>2. CASE ~cut
  <2>1. cut = FALSE /\ Sound(map) /\ (Growing => GrowsSoundly)
    BY <1>2 DEF MapInv
  <2>2. CASE MapCall
    BY <2>1, <2>2, CallStep
  <2>3. CASE MoveSlot
    <3>1. Growing /\ UNCHANGED <<map, answer, cut>>
      BY <2>3 DEF MoveSlot, Moving
    <3>2. GrowsSoundly'
      BY <2>1, <2>3, <3>1, MoveSlotIsSound
    <3>. QED
      BY <2>1, <3>1, <3>2 DEF MapInv, Dict!dictVars
  <2>4. CASE MoveFails
    <3>1. UNCHANGED <<map, grow, answer, cut>>
      BY <2>4 DEF MoveFails
    <3>. QED
      BY <2>1, <3>1, StutterKeeps
  <2>5. CASE PutGrown
    <3>1. /\ Growing /\ grow.moved = map.cap /\ Store(grow.table, grow.key, grow.val)
          /\ grow' = NotGrowing /\ GrowsSoundly
      BY <2>1, <2>5 DEF PutGrown
    <3>2. Sound(grow.table) /\ Dictionary(grow.table) = Dictionary(map)
      BY <2>1, <3>1, GrownDictionary
    <3>3. grow.key \in Keys /\ grow.val \in Vals
      BY <3>1 DEF GrowsSoundly
    <3>4. Sound(map') /\ Dict!DictPut(grow.key, grow.val) /\ Dict!SizeKnown
      BY <3>1, <3>2, <3>3, StoreImplements
    <3>5. ~Growing' /\ cut' = FALSE
      BY <2>1, <3>1 DEF Growing, Store
    <3>. QED
      BY <3>3, <3>4, <3>5 DEF MapInv, Dict!DictNext
  <2>6. CASE UNCHANGED mapVars
    <3>1. UNCHANGED <<map, grow, answer, cut>>
      BY <2>6 DEF mapVars
    <3>. QED
      BY <2>1, <3>1, StutterKeeps
  <2>. QED
    BY <2>2, <2>3, <2>4, <2>5, <2>6 DEF MapNext
<1>. QED
  BY <1>1, <1>2

(* In every table each key is in one slot and is come to over taken slots  *)
(* only, the count is the number of keys, and a table that is being grown  *)
(* into has the keys and values moved so far (map_lookup, map_rehash).     *)
LEMMA MapIsSound ==
  ASSUME InOrder
  PROVE  MapSpec => []MapInv
<1>1. MapInit => MapInv
  BY MapInitial
<1>2. MapInv /\ [MapNext]_mapVars => MapInv'
  BY MapStep
<1>. QED
  BY <1>1, <1>2, PTL DEF MapSpec

(* The hash map is a dictionary for as long as no remove has emptied a     *)
(* slot in front of a taken one: what a put stored is what a get finds     *)
(* until the key is put or removed again, however keys collide and however *)
(* often the map has grown (map_put, map_get, map_remove).  It is said of  *)
(* maps that probe their slots in order; map_lookup jumps where hash +     *)
(* probe wraps around a u64, if the capacity does not divide 2^64.         *)
THEOREM MapImplementsDict ==
  ASSUME InOrder
  PROVE  MapSpec => ImplementsDict
<1>1. MapInit => Dict!DictInit
  BY MapInitial
<1>2. MapInv /\ [MapNext]_mapVars => [Dict!DictNext]_(Dict!dictVars)
  BY MapStep
<1>. QED
  BY <1>1, <1>2, MapIsSound, PTL DEF MapSpec, ImplementsDict, Dict!DictSpec
=============================================================================
