------------------------------ MODULE BaseArena ------------------------------
(***************************************************************************)
(* The arena of base_memory.c: a chain of blocks that are filled one after *)
(* the other, and undone back to a mark.  Positions and sizes are counted  *)
(* in words of 8 bytes, from the base of a block.  A mark may stand alone  *)
(* (os_read_entire_file) or belong to a scope, whose record is allocated   *)
(* in the arena itself.  `live' is what the arena's clients may still use: *)
(* everything pushed and not undone; each mark remembers it as it was.     *)
(***************************************************************************)
EXTENDS Integers, Sequences, FiniteSets

CONSTANTS Header,      \* sizeof(struct arena), at the base of every block
          ScopeSize,   \* sizeof(arena_scope)
          ScopeAlign,  \* alignof(arena_scope)
          FirstCap,    \* the capacity given to arena_create
          Powers,      \* the capacities i64_round_up_to_pow2 may give
          Requests,    \* what is pushed: records of size and align
          Kinds,       \* the arena kinds that are tried
          MaxBlocks,   \* bound: blocks in the chain
          MaxMarks,    \* bound: marks and scopes that are open
          MaxLive      \* bound: places that are live

ASSUME HeaderAssumption == Header \in Nat /\ FirstCap \in Nat /\ Header <= FirstCap
ASSUME ScopeAssumption  == ScopeSize \in Nat /\ ScopeAlign \in Nat \ {0}
ASSUME PowersAssumption == Powers \subseteq Nat
ASSUME RequestsAssumption == Requests \subseteq [size : Nat, align : Nat \ {0}]
ASSUME BoundsAssumption == MaxBlocks \in Nat /\ MaxMarks \in Nat /\ MaxLive \in Nat

VARIABLES kind, blocks, curr, marks, live, failed
arenaVars == <<kind, blocks, curr, marks, live, failed>>

AlignUp(pos, align) == pos + ((align - (pos % align)) % align)

Block == [pos : Nat, cap : Nat]
Place == [block : Nat, from : Nat, to : Nat]
Mark  == [curr : Nat, pos : Nat, live : SUBSET Place, scope : BOOLEAN]

ArenaInit ==
    /\ kind \in Kinds
    /\ blocks = <<[pos |-> Header, cap |-> FirstCap]>>
    /\ curr = 1
    /\ marks = <<>>
    /\ live = {}
    /\ failed = "none"

(* What arena_scope_begin pushes.                                          *)
ScopeRecord == [size |-> ScopeSize, align |-> ScopeAlign]

FitsAt(pos, b, r) == AlignUp(pos, r.align) + r.size <= blocks[b].cap

(* Where the code's search ends: in the current block, else in the first   *)
(* later one with room after its header, else in a new one.                *)
Here(r)     == FitsAt(blocks[curr].pos, curr, r)
Later(r)    == {b \in curr + 1 .. Len(blocks) : FitsAt(Header, b, r)}
InLater(b, r) == ~Here(r) /\ b \in Later(r) /\ \A d \in Later(r) : b <= d
InNew(r)      == ~Here(r) /\ Later(r) = {}

(* A block passed over in the search loses its position.                   *)
Reset(b) == [blocks[b] EXCEPT !.pos = Header]

Take(b, from, r) ==
    /\ live' = live \cup {[block |-> b, from |-> from, to |-> from + r.size]}
    /\ curr' = b

TakeIn(b, from, r) ==
    /\ blocks' = [d \in 1 .. Len(blocks) |->
                    IF d = b THEN [blocks[d] EXCEPT !.pos = from + r.size]
                    ELSE IF curr < d /\ d < b THEN Reset(d) ELSE blocks[d]]
    /\ Take(b, from, r)

LastCap == blocks[Len(blocks)].cap

(* Not the code: the rounding is taken for enough, whatever is pushed.     *)
WantedWithoutNeed(r) == LastCap

(* The capacity asked for, before it is rounded up to a power of two.      *)
Wanted(r) ==
    LET next_cap == IF kind = "exponential" THEN LastCap * 2 ELSE LastCap
        need     == r.size + AlignUp(Header, r.align)
    IN  IF next_cap < need THEN need ELSE next_cap

IsRounded(cap, wanted) == cap \in Powers /\ wanted <= cap /\ \A p \in Powers : wanted <= p => cap <= p

TakeInNew(cap, r) ==
    LET from == AlignUp(Header, r.align)
        b    == Len(blocks) + 1
    IN  /\ blocks' = [d \in 1 .. b |-> IF d = b THEN [pos |-> from + r.size, cap |-> cap]
                                       ELSE IF curr < d THEN Reset(d) ELSE blocks[d]]
        /\ Take(b, from, r)

Allocate(r) ==
    /\ Cardinality(live) < MaxLive
    /\ \/ Here(r) /\ TakeIn(curr, AlignUp(blocks[curr].pos, r.align), r)
       \/ \E b \in Later(r) : InLater(b, r) /\ TakeIn(b, AlignUp(Header, r.align), r)
       \/ /\ InNew(r) /\ kind # "fixed" /\ Len(blocks) < MaxBlocks
          /\ \E cap \in Powers : IsRounded(cap, Wanted(r)) /\ TakeInNew(cap, r)
    /\ UNCHANGED <<kind, failed>>

-----------------------------------------------------------------------------
Push == \E r \in Requests : Allocate(r) /\ UNCHANGED marks

(* assert(false && "Arena overflow"): a fixed arena has no second block.   *)
Overflow ==
    /\ kind = "fixed" /\ \E r \in Requests \cup {ScopeRecord} : InNew(r)
    /\ failed' = "overflow"
    /\ UNCHANGED <<kind, blocks, curr, marks, live>>

MarkHere(scope) == [curr |-> curr, pos |-> blocks[1].pos, live |-> live, scope |-> scope]

ScopeBegin ==
    /\ Len(marks) < MaxMarks
    /\ marks' = Append(marks, MarkHere(TRUE))
    /\ Allocate(ScopeRecord)

MarkGet ==
    /\ Len(marks) < MaxMarks
    /\ marks' = Append(marks, MarkHere(FALSE))
    /\ UNCHANGED <<kind, blocks, curr, live, failed>>

Newest == marks[Len(marks)]
Older  == SubSeq(marks, 1, Len(marks) - 1)

(* Not the code: the position is given to the block the mark was taken in. *)
RewoundAtMark == Newest.curr

(* arena_mark_set gives the position to the first block of the chain.      *)
Rewound == 1

(* Back to the newest mark: arena_scope_end, or arena_mark_set when the    *)
(* mark belongs to no scope.                                               *)
Rewind ==
    /\ marks # <<>> /\ Newest.pos <= blocks[Newest.curr].cap
    /\ curr' = Newest.curr
    /\ blocks' = [d \in 1 .. Len(blocks) |-> IF d = Rewound THEN [blocks[d] EXCEPT !.pos = Newest.pos] ELSE blocks[d]]
    /\ live' = Newest.live
    /\ marks' = Older
    /\ UNCHANGED <<kind, failed>>

RewindFails ==
    /\ marks # <<>> /\ ~(Newest.pos <= blocks[Newest.curr].cap)
    /\ failed' = "mark"
    /\ UNCHANGED <<kind, blocks, curr, marks, live>>

(* A mark that is not used: what was pushed since stays.                   *)
MarkKeep ==
    /\ marks # <<>> /\ ~Newest.scope
    /\ marks' = Older
    /\ UNCHANGED <<kind, blocks, curr, live, failed>>

(* arena_reset, which leaves the scope stack as it is: its clients call it *)
(* with no scope or mark open.                                             *)
ArenaReset ==
    /\ marks = <<>>
    /\ curr' = 1
    /\ blocks' = [d \in 1 .. Len(blocks) |-> IF d = 1 THEN Reset(d) ELSE blocks[d]]
    /\ live' = {}
    /\ UNCHANGED <<kind, marks, failed>>

ArenaNext ==
    /\ failed = "none"
    /\ Push \/ Overflow \/ ScopeBegin \/ MarkGet \/ Rewind \/ RewindFails \/ MarkKeep \/ ArenaReset

ArenaSpec == ArenaInit /\ [][ArenaNext]_arenaVars

-----------------------------------------------------------------------------
(* What is live lies inside its block, behind the header, and no two live  *)
(* places share a word: not after blocks were passed over, rewound, or     *)
(* used again, and not the records of the open scopes either               *)
(* (arena_push_size_nozero, arena_mark_set).                               *)
LiveInside   == \A p \in live : /\ p.block \in 1 .. Len(blocks)
                                /\ Header <= p.from /\ p.from <= p.to /\ p.to <= blocks[p.block].cap
Apart(p, q)  == p.block # q.block \/ p.to <= q.from \/ q.to <= p.from
LiveDisjoint == \A p, q \in live : p # q => Apart(p, q)
LiveIsKept   == LiveInside /\ LiveDisjoint

(* assert(curr->pos <= curr->cap) after a push and                         *)
(* assert(mark.pos <= mark.curr->cap) hold, although a mark pairs the      *)
(* position of the first block with the capacity of another one: only a    *)
(* fixed arena ever stops.                                                 *)
ArenaAssertsHold ==
    /\ \A b \in 1 .. Len(blocks) : blocks[b].pos <= blocks[b].cap
    /\ failed # "mark" /\ (failed = "overflow" => kind = "fixed")
=============================================================================
