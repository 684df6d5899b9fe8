---------------------------- MODULE DkEmitProofs ----------------------------
(***************************************************************************)
(* The emitter's invariant for every tree, every buffer capacity and every *)
(* behaviour of heap_realloc.                                              *)
(***************************************************************************)
EXTENDS DkEmitProps, SequenceTheorems, TLAPS

(* A buffer owns a block exactly when it has a capacity, and that is never *)
(* below the first one.                                                    *)
Owned(b) == /\ b.capacity = 0 \/ b.capacity >= InitialCapacity
            /\ b.capacity = 0 <=> b.block = 0

HasHole(w) == w.item \in {"if_else", "if_end", "while_end"}
PosOf(w)   == IF w.item = "if_else" THEN w.else_pos ELSE w.end_pos

(* Until the body moves every hole lies in its first block, and a WHILE    *)
(* remembers the beginning of an instruction.                              *)
HolesInBlock ==
    body.block <= 1 => \A i \in DOMAIN work : HasHole(work[i]) => PosOf(work[i]).block = 1
StartsKnown ==
    \A i \in DOMAIN work :
        work[i].item \in {"while", "while_end"} =>
            work[i].start_pos \in DOMAIN code \cup {body.size}

(* All that is still open belongs to the function that is being emitted:   *)
(* it lies behind every symbol.                                            *)
InCurrent(p) == \A i \in DOMAIN symbols : symbols[i].pos <= p
OpenInCurrent ==
    /\ InCurrent(body.size)
    /\ \A off \in Holes : InCurrent(off - 1)
    /\ \A i \in DOMAIN work : work[i].item \in {"while", "while_end"} => InCurrent(work[i].start_pos)

(* A branch without a target yet, or one that lost it when the body moved. *)
Open(p) == code[p].operand = Unpatched /\ (body.block <= 1 => p + 1 \in Holes)
BranchesInside ==
    \A p \in DOMAIN code : code[p].opcode = "BR" => SameFunction(p, code[p].operand) \/ Open(p)

(* The RET of the epilogue comes last in a function, so that behind a      *)
(* finished function no branch goes to what is emitted next, and no other  *)
(* instruction runs on into it.                                            *)
ReturnComesLast == work # <<>> => work[Len(work)] = Plain("RET")
NoneBehind ==
    work = <<>> => \A p \in DOMAIN code :
        /\ code[p].opcode = "BR" => code[p].operand # body.size \/ Open(p)
        /\ code[p].next = body.size => code[p].opcode = "RET"

InsideInv == OpenInCurrent /\ BranchesInside /\ ReturnComesLast /\ NoneBehind

EmitInv ==
    /\ EmitTypeOK /\ Owned(body)
    /\ Contiguous /\ HolesAreBranches /\ BranchesPatched
    /\ HolesInBlock /\ StartsKnown /\ InsideInv

-----------------------------------------------------------------------------
(* The body after one instruction.                                         *)
Roomy(b) == b \in Buffer /\ b.size <= b.capacity /\ Owned(b)

LEMMA PushByte ==
    ASSUME NEW b, Roomy(b), NEW n \in 1..8, NEW moved \in BOOLEAN
    PROVE  /\ Roomy(Push(b, n, moved)) /\ Push(b, n, moved).size = b.size + n
           /\ Push(b, n, moved).block >= b.block /\ Push(b, n, moved).block >= 1
<1> DEFINE c == Push(b, n, moved)
<1>1. /\ InitialCapacity \in Nat /\ InitialCapacity >= 11
      /\ b \in Buffer /\ b.size <= b.capacity
      /\ b.size \in Nat /\ b.capacity \in Nat /\ b.block \in Nat
      /\ b.capacity = 0 \/ b.capacity >= InitialCapacity
      /\ b.capacity = 0 <=> b.block = 0
  BY EmitAssumption, CapacityAssumption DEF Roomy, Owned, Buffer
<1>2. /\ c \in Buffer /\ c.size = b.size + n /\ c.size <= c.capacity
      /\ c.capacity >= InitialCapacity /\ c.block >= b.block
      /\ c.block >= (IF b.capacity = 0 THEN 1 ELSE b.block)
  <2>1. b = [size |-> b.size, capacity |-> b.capacity, block |-> b.block]
    BY <1>1 DEF Buffer
  <2>2. CASE Grows(b, n)
    BY <1>1, <2>2 DEF Push, Grows, NextCapacity, Buffer
  <2>3. CASE ~Grows(b, n)
    BY <1>1, <2>1, <2>3 DEF Push, Grows, Buffer
  <2>. QED BY <2>2, <2>3
<1>3. c.capacity # 0 /\ c.block # 0 /\ c.block >= 1
  BY <1>1, <1>2 DEF Buffer
<1>4. Roomy(c)
  BY <1>2, <1>3 DEF Roomy, Owned
<1>. QED BY <1>2, <1>3, <1>4

LEMMA PushInstProperties ==
    ASSUME NEW b, Roomy(b), NEW w \in 0..8, NEW moved \in BOOLEAN
    PROVE  /\ Roomy(PushInst(b, w, moved)) /\ PushInst(b, w, moved).size = b.size + 1 + w
           /\ PushInst(b, w, moved).block >= b.block /\ PushInst(b, w, moved).block >= 1
<1> DEFINE p == Push(b, 1, moved)
<1>1. /\ Roomy(p) /\ p.size = b.size + 1
      /\ p.block >= b.block /\ p.block >= 1
  BY PushByte
<1>2. b.size \in Nat /\ b.block \in Nat /\ p.block \in Nat
  BY <1>1 DEF Roomy, Buffer
<1>3. CASE w = 0
  BY <1>1, <1>2, <1>3 DEF PushInst
<1>4. CASE w # 0
  <2> DEFINE q == Push(p, w, moved)
  <2>0. w \in 1..8
    BY <1>4
  <2>1. Roomy(q) /\ q.size = p.size + w /\ q.block >= p.block /\ q.block >= 1
    <3> HIDE DEF p
    <3>. QED BY <1>1, <2>0, PushByte
  <2>2. PushInst(b, w, moved) = q
    BY <1>4 DEF PushInst
  <2>3. q.block \in Nat
    BY <2>1 DEF Roomy, Buffer
  <2> HIDE DEF q, p
  <2>. QED BY <1>1, <1>2, <2>1, <2>2, <2>3
<1>. QED BY <1>3, <1>4

LEMMA BranchProperties ==
    ASSUME NEW b, Roomy(b), NEW moved \in BOOLEAN
    PROVE  /\ Roomy(Branched(b, moved)) /\ Branched(b, moved).size = b.size + 9
           /\ Branched(b, moved).block >= b.block /\ Branched(b, moved).block >= 1
           /\ HolePointer(b, moved) = [block |-> Branched(b, moved).block, off |-> b.size + 1]
           /\ HolePointer(b, moved) \in Pointer
<1>1. /\ Roomy(Branched(b, moved)) /\ Branched(b, moved).size = b.size + 1 + 8
      /\ Branched(b, moved).block >= b.block /\ Branched(b, moved).block >= 1
  BY PushInstProperties DEF Branched
<1>2. Push(b, 1, moved).size = b.size + 1
  BY PushByte
<1>3. HolePointer(b, moved) = [block |-> Branched(b, moved).block, off |-> b.size + 1]
  BY <1>2 DEF HolePointer, Pushed
<1>. QED BY <1>1, <1>3 DEF Roomy, Buffer, Pointer

LEMMA WidthProperties ==
    ASSUME NEW op, NEW operand
    PROVE  OperandWidth(op, operand) \in 0..8
BY DEF OperandWidth

LEMMA Shape ==
    ASSUME EmitTypeOK, Owned(body)
    PROVE  Roomy(body) /\ body.size \in Nat /\ body.block \in Nat
BY DEF EmitTypeOK, Roomy, Buffer

-----------------------------------------------------------------------------
(* Replacing the top work item by others: the new items come first, the    *)
(* rest keeps its order.                                                   *)
LEMMA WorkStep ==
    ASSUME work \in Seq(WorkItem), work # <<>>,
           NEW items \in Seq(WorkItem), Replace(items)
    PROVE  /\ work' \in Seq(WorkItem)
           /\ Len(items) \in Nat /\ DOMAIN work = 1..Len(work)
           /\ \A j \in DOMAIN work' :
                 \/ j \in DOMAIN items /\ work'[j] = items[j]
                 \/ /\ j > Len(items) /\ j - Len(items) + 1 \in DOMAIN work \ {1}
                    /\ work'[j] = work[j - Len(items) + 1]
           /\ \A j \in DOMAIN items : j \in DOMAIN work' /\ work'[j] = items[j]
           /\ \A i \in DOMAIN work \ {1} :
                 i - 1 + Len(items) \in DOMAIN work' /\ work'[i - 1 + Len(items)] = work[i]
<1>1. /\ work' = items \o Tail(work)
      /\ Len(work) \in Nat /\ Len(work) > 0 /\ Len(items) \in Nat
      /\ DOMAIN work = 1..Len(work) /\ DOMAIN items = 1..Len(items)
  BY LenProperties, EmptySeq DEF Replace
<1>2. /\ Tail(work) \in Seq(WorkItem) /\ Len(Tail(work)) = Len(work) - 1
      /\ \A i \in 1..Len(Tail(work)) : Tail(work)[i] = work[i + 1]
  BY HeadTailProperties
<1>3. /\ work' \in Seq(WorkItem) /\ Len(work') = Len(items) + Len(Tail(work))
      /\ \A i \in 1..Len(work') : work'[i] = IF i <= Len(items) THEN items[i]
                                              ELSE Tail(work)[i - Len(items)]
  BY <1>1, <1>2, ConcatProperties
<1>4. DOMAIN work' = 1..Len(work')
  BY <1>3, LenProperties
<1>5. ASSUME NEW j \in DOMAIN work'
      PROVE  \/ j \in DOMAIN items /\ work'[j] = items[j]
             \/ /\ j > Len(items) /\ j - Len(items) + 1 \in DOMAIN work \ {1}
                /\ work'[j] = work[j - Len(items) + 1]
  <2>1. CASE j <= Len(items)
    BY <1>1, <1>3, <1>4, <1>5, <2>1
  <2>2. CASE j > Len(items)
    <3>1. j - Len(items) \in 1..Len(Tail(work))
      BY <1>1, <1>2, <1>3, <1>4, <2>2
    <3>. QED BY <1>1, <1>2, <1>3, <1>4, <2>2, <3>1
  <2>. QED BY <1>1, <1>4, <2>1, <2>2
<1>6. \A j \in DOMAIN items : j \in DOMAIN work' /\ work'[j] = items[j]
  BY <1>1, <1>2, <1>3, <1>4
<1>7. ASSUME NEW i \in DOMAIN work \ {1}
      PROVE  i - 1 + Len(items) \in DOMAIN work' /\ work'[i - 1 + Len(items)] = work[i]
  <2>1. i - 1 \in 1..Len(Tail(work)) /\ i - 1 + Len(items) \in DOMAIN work'
    BY <1>1, <1>2, <1>3, <1>4
  <2>2. work'[i - 1 + Len(items)] = Tail(work)[i - 1]
    BY <1>1, <1>3, <1>4, <2>1
  <2>. QED BY <1>1, <1>2, <2>1, <2>2
<1>. QED BY <1>1, <1>3, <1>5, <1>6, <1>7

(* A step that replaces the top item keeps the holes of the others apart,  *)
(* adds at most the hole h, and drops at most the hole of the top item.    *)
LEMMA HolesStep ==
    ASSUME work \in Seq(WorkItem), work # <<>>, HolesAreBranches,
           NEW items \in Seq(WorkItem), Replace(items), NEW h, h \notin Holes,
           \A j \in DOMAIN items : HoleOf(items[j]) \subseteq {h},
           \A j, k \in DOMAIN items : j # k => HoleOf(items[j]) \cap HoleOf(items[k]) = {}
    PROVE  /\ Holes' \subseteq (Holes \ HoleOf(Top)) \cup {h}
           /\ Holes \ HoleOf(Top) \subseteq Holes'
           /\ \A j \in DOMAIN items : HoleOf(items[j]) \subseteq Holes'
           /\ h \in Holes' => \E j \in DOMAIN items : h \in HoleOf(items[j])
           /\ \A i, j \in DOMAIN work' : i # j => HoleOf(work'[i]) \cap HoleOf(work'[j]) = {}
<1>1. /\ Len(items) \in Nat /\ DOMAIN work = 1..Len(work)
      /\ \A j \in DOMAIN work' :
                 \/ j \in DOMAIN items /\ work'[j] = items[j]
                 \/ /\ j > Len(items) /\ j - Len(items) + 1 \in DOMAIN work \ {1}
                    /\ work'[j] = work[j - Len(items) + 1]
      /\ \A j \in DOMAIN items : j \in DOMAIN work' /\ work'[j] = items[j]
      /\ \A i \in DOMAIN work \ {1} :
                 i - 1 + Len(items) \in DOMAIN work' /\ work'[i - 1 + Len(items)] = work[i]
  BY WorkStep
<1>2. Top = work[1] /\ 1 \in DOMAIN work /\ DOMAIN work' \subseteq Int
  <2>1. work' \in Seq(WorkItem)
    BY WorkStep
  <2>2. Len(work) \in Nat /\ Len(work) > 0 /\ 1 \in DOMAIN work
    BY EmptySeq, LenProperties
  <2>3. Top = work[1]
    BY DEF Top
  <2>4. DOMAIN work' = 1..Len(work') /\ Len(work') \in Nat
    BY <2>1, LenProperties
  <2>. QED BY <2>2, <2>3, <2>4
<1>3. \A i, j \in DOMAIN work : i # j => HoleOf(work[i]) \cap HoleOf(work[j]) = {}
  BY DEF HolesAreBranches
<1>4. \A off : off \in Holes <=> \E i \in DOMAIN work : off \in HoleOf(work[i])
  BY DEF Holes
<1>5. \A off : off \in Holes' <=> \E i \in DOMAIN work' : off \in HoleOf(work'[i])
  BY DEF Holes, HoleOf
<1>6. \A off \in Holes \ HoleOf(Top) : \E i \in DOMAIN work \ {1} : off \in HoleOf(work[i])
  BY <1>2, <1>4
<1>7. \A i \in DOMAIN work \ {1} : HoleOf(work[i]) \subseteq Holes \ HoleOf(Top)
  BY <1>2, <1>3, <1>4
<1> HIDE DEF Holes, HoleOf
<1>8. Holes' \subseteq (Holes \ HoleOf(Top)) \cup {h}
  <2> SUFFICES ASSUME NEW j \in DOMAIN work', NEW off \in HoleOf(work'[j])
               PROVE  off \in (Holes \ HoleOf(Top)) \cup {h}
    BY <1>5
  <2>1. CASE j \in DOMAIN items /\ work'[j] = items[j]
    BY <2>1
  <2>2. CASE j - Len(items) + 1 \in DOMAIN work \ {1} /\ work'[j] = work[j - Len(items) + 1]
    BY <1>7, <2>2
  <2>. QED BY <1>1, <2>1, <2>2
<1>9. Holes \ HoleOf(Top) \subseteq Holes'
  <2> SUFFICES ASSUME NEW i \in DOMAIN work \ {1}, NEW off \in HoleOf(work[i])
               PROVE  off \in Holes'
    BY <1>6
  <2>. QED BY <1>1, <1>5
<1>10. \A j \in DOMAIN items : HoleOf(items[j]) \subseteq Holes'
  BY <1>1, <1>5
<1>11. h \in Holes' => \E j \in DOMAIN items : h \in HoleOf(items[j])
  <2> SUFFICES ASSUME NEW j \in DOMAIN work', h \in HoleOf(work'[j])
               PROVE  \E k \in DOMAIN items : h \in HoleOf(items[k])
    BY <1>5
  <2>1. CASE j \in DOMAIN items /\ work'[j] = items[j]
    BY <2>1
  <2>2. CASE j - Len(items) + 1 \in DOMAIN work \ {1} /\ work'[j] = work[j - Len(items) + 1]
    BY <1>7, <2>2
  <2>. QED BY <1>1, <2>1, <2>2
<1>12. ASSUME NEW i \in DOMAIN work', NEW j \in DOMAIN work', i # j
       PROVE  HoleOf(work'[i]) \cap HoleOf(work'[j]) = {}
  <2> DEFINE New(k) == k \in DOMAIN items /\ work'[k] = items[k]
             Old(k) == k - Len(items) + 1 \in DOMAIN work \ {1} /\ work'[k] = work[k - Len(items) + 1]
  <2>0. (New(i) \/ Old(i)) /\ (New(j) \/ Old(j)) /\ i \in Int /\ j \in Int
    BY <1>1, <1>2
  <2>1. CASE New(i) /\ New(j)
    BY <1>12, <2>1
  <2>2. CASE New(i) /\ Old(j)
    BY <1>7, <2>2
  <2>3. CASE Old(i) /\ New(j)
    BY <1>7, <2>3
  <2>4. CASE Old(i) /\ Old(j)
    <3>1. i - Len(items) + 1 # j - Len(items) + 1
      BY <1>1, <1>12, <2>0
    <3>. QED BY <1>3, <2>4, <3>1
  <2>. QED BY <2>0, <2>1, <2>2, <2>3, <2>4
<1>. QED BY <1>8, <1>9, <1>10, <1>11, <1>12

-----------------------------------------------------------------------------
(* What a step that replaces the top work item owes the invariant.  The    *)
(* items it adds have holes apart from the others, at most the hole h, and *)
(* know the beginnings of instructions.                                    *)
GoodItems(items, h) ==
    /\ items \in Seq(WorkItem) /\ Replace(items) /\ h \notin Holes
    /\ \A j \in DOMAIN items : HoleOf(items[j]) \subseteq {h}
    /\ \A j, k \in DOMAIN items : j # k => HoleOf(items[j]) \cap HoleOf(items[k]) = {}
    /\ \A j \in DOMAIN items : HasHole(items[j]) =>
          (body'.block <= 1 => PosOf(items[j]).block = 1)
    /\ \A j \in DOMAIN items : items[j].item \in {"while", "while_end"} =>
          items[j].start_pos \in DOMAIN code' \cup {body'.size}
    /\ \A j \in DOMAIN items : h \in HoleOf(items[j]) =>
          h - 1 \in DOMAIN code' /\ code'[h - 1].opcode = "BR" /\ code'[h - 1].next = h + 8

(* The code grows at its end; what is there keeps its shape, and only      *)
(* branches have their operand set, to the end of the body.                *)
CodeGrows ==
    /\ Roomy(body)' /\ body'.block >= body.block
    /\ DOMAIN code \subseteq DOMAIN code' /\ DOMAIN code' \subseteq 0..body'.size-1
    /\ \A p \in DOMAIN code' : code'[p] \in [opcode : Opcode, operand : Nat, next : Nat]
    /\ body.size \in DOMAIN code' \cup {body'.size}
    /\ \A p \in DOMAIN code :
          /\ code'[p].opcode = code[p].opcode /\ code'[p].next = code[p].next
          /\ code'[p].operand # code[p].operand => code'[p].operand = body'.size /\ p + 1 \in HoleOf(Top)

(* The new instructions end where others begin, and their branches are     *)
(* patched or have a hole.                                                 *)
GoodCode ==
    \A p \in DOMAIN code' \ DOMAIN code :
        /\ code'[p].next \in DOMAIN code' \cup {body'.size}
        /\ code'[p].opcode = "BR" =>
              \/ code'[p].operand \in DOMAIN code' \cup {body'.size}
              \/ code'[p].operand = Unpatched /\ (body'.block <= 1 => p + 1 \in Holes')

(* A hole that the top item held is filled unless the body has moved.      *)
TopPatched ==
    body'.block <= 1 => \A p \in DOMAIN code : p + 1 \in HoleOf(Top) => code'[p].operand = body'.size

(* New code and what is open in it lie in the current function; the items  *)
(* are fewer by an instruction only when it was emitted.                   *)
StaysInside(items, h) ==
    /\ symbols' = symbols /\ body'.size >= body.size
    /\ \A p \in DOMAIN code' \ DOMAIN code :
          p >= body.size /\ (code'[p].opcode = "BR" => InCurrent(code'[p].operand) \/ Open(p)')
    /\ \A j \in DOMAIN items :
          /\ h \in HoleOf(items[j]) => h > body.size
          /\ items[j].item \in {"while", "while_end"} => InCurrent(items[j].start_pos)
    /\ h \in Int
    /\ Top.item = "inst" => /\ items = <<>> /\ body'.size > body.size
                            /\ \A p \in DOMAIN code' \ DOMAIN code :
                                  code'[p].opcode = Top.opcode /\ Top.opcode # "BR"

Others == funcs' \in Seq(Funcs) /\ symbols' \in Seq(Symbol) /\ error' \in {"none", "lvalue"}

LEMMA StepStaysInside ==
    ASSUME EmitInv, work # <<>>, NEW items, NEW h,
           GoodItems(items, h), CodeGrows, TopPatched, StaysInside(items, h)
    PROVE  InsideInv'
<1>0. /\ work \in Seq(WorkItem) /\ HolesAreBranches /\ OpenInCurrent /\ BranchesInside
      /\ ReturnComesLast /\ BranchesPatched
      /\ body.size \in Nat /\ body'.size \in Nat /\ body.block \in Nat /\ body'.block \in Nat
      /\ DOMAIN code \subseteq 0..body.size-1 /\ DOMAIN code' \subseteq Nat
      /\ symbols \in Seq(Symbol) /\ symbols' = symbols
  BY DEF EmitInv, InsideInv, EmitTypeOK, Buffer, CodeGrows, Roomy, StaysInside
<1>1. \A i \in DOMAIN symbols : symbols[i].pos \in Nat
  <2>1. \A i \in DOMAIN symbols : symbols[i] \in Symbol
    BY <1>0
  <2>. QED BY <2>1 DEF Symbol
<1>2. /\ Holes' \subseteq (Holes \ HoleOf(Top)) \cup {h}
      /\ Holes \ HoleOf(Top) \subseteq Holes'
      /\ h \in Holes' => \E j \in DOMAIN items : h \in HoleOf(items[j])
  BY <1>0, HolesStep DEF GoodItems
<1>3. /\ Len(items) \in Nat /\ DOMAIN work = 1..Len(work)
      /\ \A j \in DOMAIN work' :
            \/ j \in DOMAIN items /\ work'[j] = items[j]
            \/ /\ j > Len(items) /\ j - Len(items) + 1 \in DOMAIN work \ {1}
               /\ work'[j] = work[j - Len(items) + 1]
      /\ \A i \in DOMAIN work \ {1} :
            i - 1 + Len(items) \in DOMAIN work' /\ work'[i - 1 + Len(items)] = work[i]
      /\ work' \in Seq(WorkItem)
  BY <1>0, WorkStep DEF GoodItems
<1>4. \A p : InCurrent(p)' <=> InCurrent(p)
  BY <1>0 DEF InCurrent
<1>5. \A p \in Int : p >= body.size => InCurrent(p)
  BY <1>0, <1>1 DEF OpenInCurrent, InCurrent
<1>6. HoleOf(Top) \subseteq Holes
  <2>1. Top = work[1] /\ 1 \in DOMAIN work
    BY <1>0, HeadTailProperties, EmptySeq, LenProperties DEF Top
  <2>. QED BY <2>1 DEF Holes
<1>7. OpenInCurrent'
  <2>1. InCurrent(body'.size)
    BY <1>0, <1>5 DEF StaysInside
  <2>2. ASSUME NEW off \in Holes' PROVE InCurrent(off - 1)
    <3>1. CASE off \in Holes
      BY <1>0, <3>1 DEF OpenInCurrent
    <3>2. CASE off = h
      BY <1>0, <1>2, <1>5, <3>2 DEF StaysInside
    <3>. QED BY <1>2, <3>1, <3>2
  <2>3. ASSUME NEW j \in DOMAIN work', work'[j].item \in {"while", "while_end"}
        PROVE  InCurrent(work'[j].start_pos)
    <3>1. CASE j \in DOMAIN items /\ work'[j] = items[j]
      BY <2>3, <3>1 DEF StaysInside
    <3>2. CASE j - Len(items) + 1 \in DOMAIN work /\ work'[j] = work[j - Len(items) + 1]
      BY <1>0, <2>3, <3>2 DEF OpenInCurrent
    <3>. QED BY <1>3, <3>1, <3>2
  <2>. QED BY <1>4, <2>1, <2>2, <2>3 DEF OpenInCurrent
<1>8. \A p, q : InCurrent(p) /\ InCurrent(q) => SameFunction(p, q)
  BY DEF InCurrent, SameFunction
<1>9. \A p, q : SameFunction(p, q)' <=> SameFunction(p, q)
  BY <1>0 DEF SameFunction
<1>10. \A p \in DOMAIN code : code[p].operand = code'[p].operand /\ Open(p) =>
          Open(p)' \/ (InCurrent(p) /\ InCurrent(code'[p].operand))
  <2> SUFFICES ASSUME NEW p \in DOMAIN code, code[p].operand = code'[p].operand, Open(p),
                      ~(InCurrent(p) /\ InCurrent(code'[p].operand))
               PROVE  Open(p)'
    OBVIOUS
  <2>1. code'[p].operand = Unpatched
    BY DEF Open
  <2>2. ASSUME body'.block <= 1 PROVE p + 1 \in Holes'
    <3>1. p + 1 \in Holes
      BY <1>0, <2>2 DEF Open, CodeGrows
    <3>2. CASE p + 1 \in HoleOf(Top)
      <4>1. code'[p].operand = body'.size
        BY <2>2, <3>2 DEF TopPatched
      <4>2. InCurrent((p + 1) - 1) /\ InCurrent(body'.size)
        BY <1>0, <1>5, <3>1 DEF OpenInCurrent, StaysInside
      <4>3. (p + 1) - 1 = p
        BY <1>0
      <4>. QED BY <4>1, <4>2, <4>3
    <3>. QED BY <1>2, <3>1, <3>2
  <2>. QED BY <2>1, <2>2 DEF Open, Unpatched
<1>11. BranchesInside'
  <2> SUFFICES ASSUME NEW p \in DOMAIN code', code'[p].opcode = "BR", ~Open(p)'
               PROVE  SameFunction(p, code'[p].operand)
    BY <1>9 DEF BranchesInside
  <2>1. CASE p \notin DOMAIN code
    <3>1. p >= body.size /\ InCurrent(code'[p].operand) /\ p \in Int
      BY <1>0, <2>1 DEF StaysInside
    <3>. QED BY <1>5, <1>8, <3>1
  <2>2. CASE p \in DOMAIN code /\ code'[p].operand # code[p].operand
    <3>1. code'[p].operand = body'.size /\ p + 1 \in Holes
      BY <1>6, <2>2 DEF CodeGrows
    <3>2. InCurrent((p + 1) - 1) /\ InCurrent(body'.size)
      BY <1>0, <1>5, <3>1 DEF OpenInCurrent, StaysInside
    <3>3. (p + 1) - 1 = p
      BY <1>0
    <3>. QED BY <1>8, <3>1, <3>2, <3>3
  <2>3. CASE p \in DOMAIN code /\ code'[p].operand = code[p].operand
    <3>1. code[p].opcode = "BR"
      BY <2>3 DEF CodeGrows
    <3>. QED BY <1>0, <1>8, <1>10, <2>3, <3>1 DEF BranchesInside
  <2>. QED BY <2>1, <2>2, <2>3
<1>12. Top = work[1] /\ Len(work) \in Nat \ {0}
  BY <1>0, HeadTailProperties, EmptySeq, LenProperties DEF Top
<1>13. ReturnComesLast' /\ (work' = <<>> => Top.item = "inst" /\ Top.opcode = "RET")
  <2> DEFINE m == Len(work)
  <2>1. CASE m = 1
    <3>1. Top.item = "inst" /\ Top.opcode = "RET"
      BY <1>0, <1>12, <2>1 DEF ReturnComesLast, Plain, InstItem
    <3>2. items = <<>>
      BY <3>1 DEF StaysInside
    <3>3. work' = Tail(work)
      BY <1>0, <3>2, ConcatProperties, HeadTailProperties DEF GoodItems, Replace
    <3>4. work' = <<>>
      BY <1>0, <2>1, <3>3, HeadTailProperties, EmptySeq
    <3>. QED BY <3>1, <3>4 DEF ReturnComesLast
  <2>2. CASE m # 1
    <3>1. m \in DOMAIN work \ {1}
      BY <1>3, <1>12, <2>2
    <3>2. m - 1 + Len(items) \in DOMAIN work' /\ work'[m - 1 + Len(items)] = work[m]
      BY <1>3, <3>1
    <3>3. Len(work') = m - 1 + Len(items)
      <4>1. items \in Seq(WorkItem) /\ work' = items \o Tail(work)
        BY DEF GoodItems, Replace
      <4>2. Tail(work) \in Seq(WorkItem) /\ Len(Tail(work)) = m - 1
        BY <1>0, HeadTailProperties
      <4>3. Len(work') = Len(items) + Len(Tail(work))
        BY <4>1, <4>2, ConcatProperties
      <4>. QED BY <1>3, <1>12, <4>2, <4>3
    <3>4. work[m] = Plain("RET")
      BY <1>0 DEF ReturnComesLast
    <3>5. work' # <<>>
      BY <3>2, EmptySeq
    <3>6. Plain("RET")' = Plain("RET")
      BY DEF Plain, InstItem
    <3>. QED BY <3>2, <3>3, <3>4, <3>5, <3>6 DEF ReturnComesLast
  <2>. QED BY <2>1, <2>2
<1>14. ASSUME work' = <<>>, NEW p \in DOMAIN code', code'[p].opcode = "BR",
              code'[p].operand = body'.size
       PROVE  Open(p)'
  <2>1. Top.item = "inst" /\ body'.size > body.size /\ HoleOf(Top) = {}
    BY <1>13, <1>14 DEF StaysInside, HoleOf
  <2>2. p \in DOMAIN code /\ code[p].opcode = "BR" /\ code[p].operand = body'.size
    BY <1>14, <2>1 DEF StaysInside, CodeGrows
  <2>3. code[p].operand = Unpatched /\ (body.block <= 1 => p + 1 \in Holes)
    BY <1>0, <2>1, <2>2 DEF BranchesPatched
  <2>4. body'.block <= 1 => p + 1 \in Holes'
    BY <1>0, <1>2, <2>1, <2>3 DEF CodeGrows
  <2>. QED BY <1>14, <2>2, <2>3, <2>4 DEF Open, Unpatched
<1>15. ASSUME work' = <<>>, NEW p \in DOMAIN code', code'[p].next = body'.size
       PROVE  code'[p].opcode = "RET"
  <2>1. Top.item = "inst" /\ Top.opcode = "RET"
    BY <1>13, <1>15
  <2>2. CASE p \notin DOMAIN code
    BY <2>1, <2>2 DEF StaysInside
  <2>3. CASE p \in DOMAIN code
    <3>1. code'[p].next \in DOMAIN code \cup {body.size}
      BY <2>3 DEF EmitInv, Contiguous, CodeGrows
    <3>2. body'.size > body.size
      BY <2>1 DEF StaysInside
    <3>. QED BY <1>0, <1>15, <3>1, <3>2
  <2>. QED BY <2>2, <2>3
<1>16. NoneBehind'
  BY <1>14, <1>15 DEF NoneBehind
<1>. QED BY <1>7, <1>11, <1>13, <1>16 DEF InsideInv

LEMMA StepKeepsInv ==
    ASSUME EmitInv, work # <<>>, NEW items, NEW h,
           GoodItems(items, h), CodeGrows, GoodCode, TopPatched, StaysInside(items, h), Others
    PROVE  EmitInv'
<1>1. work \in Seq(WorkItem) /\ HolesAreBranches
  BY DEF EmitInv, EmitTypeOK
<1>2. /\ items \in Seq(WorkItem) /\ Replace(items) /\ h \notin Holes
      /\ \A j \in DOMAIN items : HoleOf(items[j]) \subseteq {h}
      /\ \A j, k \in DOMAIN items : j # k => HoleOf(items[j]) \cap HoleOf(items[k]) = {}
  BY DEF GoodItems
<1>3. /\ Holes' \subseteq (Holes \ HoleOf(Top)) \cup {h}
      /\ Holes \ HoleOf(Top) \subseteq Holes'
      /\ h \in Holes' => \E j \in DOMAIN items : h \in HoleOf(items[j])
      /\ \A i, j \in DOMAIN work' : i # j => HoleOf(work'[i]) \cap HoleOf(work'[j]) = {}
  BY <1>1, <1>2, HolesStep
<1>4. /\ work' \in Seq(WorkItem)
      /\ \A j \in DOMAIN work' :
            \/ j \in DOMAIN items /\ work'[j] = items[j]
            \/ /\ j - Len(items) + 1 \in DOMAIN work
               /\ work'[j] = work[j - Len(items) + 1]
  BY <1>1, <1>2, WorkStep
<1>5. /\ body.size \in Nat /\ body'.size \in Nat /\ body.block \in Nat /\ body'.block \in Nat
      /\ DOMAIN code \subseteq Nat /\ DOMAIN code' \subseteq Nat
  BY DEF CodeGrows, Roomy, Buffer, EmitInv, EmitTypeOK
<1>6. EmitTypeOK' /\ Owned(body)'
  BY <1>4 DEF EmitTypeOK, CodeGrows, Roomy, Others
<1>7. \A x \in DOMAIN code \cup {body.size} : x \in DOMAIN code' \cup {body'.size}
  BY DEF CodeGrows
<1>8. Contiguous'
  <2> SUFFICES ASSUME NEW p \in DOMAIN code'
               PROVE  code'[p].next \in DOMAIN code' \cup {body'.size}
    BY DEF Contiguous
  <2>1. CASE p \in DOMAIN code
    BY <1>7, <2>1 DEF CodeGrows, EmitInv, Contiguous
  <2>. QED BY <2>1 DEF GoodCode
<1>9. HolesAreBranches'
  <2> SUFFICES ASSUME NEW off \in Holes'
               PROVE  /\ off - 1 \in DOMAIN code' /\ code'[off - 1].opcode = "BR"
                      /\ code'[off - 1].next = off + 8
    BY <1>3 DEF HolesAreBranches
  <2>1. CASE off \in Holes
    BY <1>1, <2>1 DEF HolesAreBranches, CodeGrows
  <2>2. CASE off = h
    BY <1>3, <2>2 DEF GoodItems
  <2>. QED BY <1>3, <2>1, <2>2
<1>10. BranchesPatched'
  <2> SUFFICES ASSUME NEW p \in DOMAIN code', code'[p].opcode = "BR"
               PROVE  \/ code'[p].operand \in DOMAIN code' \cup {body'.size}
                      \/ code'[p].operand = Unpatched /\ (body'.block <= 1 => p + 1 \in Holes')
    BY DEF BranchesPatched, Unpatched
  <2>1. CASE p \notin DOMAIN code
    BY <2>1 DEF GoodCode
  <2>2. CASE p \in DOMAIN code
    <3>1. code[p].opcode = "BR"
      BY <2>2 DEF CodeGrows
    <3>2. CASE code'[p].operand # code[p].operand
      BY <2>2, <3>2 DEF CodeGrows
    <3>3. CASE code'[p].operand = code[p].operand /\ code[p].operand \in DOMAIN code \cup {body.size}
      BY <1>7, <3>3
    <3>4. CASE /\ code'[p].operand = code[p].operand
               /\ code[p].operand = Unpatched /\ (body.block <= 1 => p + 1 \in Holes)
      <4>1. body'.block <= 1 => body.block <= 1
        BY <1>5 DEF CodeGrows
      <4>2. CASE p + 1 \in HoleOf(Top)
        BY <2>2, <3>4, <4>2 DEF TopPatched
      <4>3. CASE p + 1 \notin HoleOf(Top)
        BY <1>3, <3>4, <4>1, <4>3
      <4>. QED BY <4>2, <4>3
    <3>. QED BY <2>2, <3>1, <3>2, <3>3, <3>4 DEF EmitInv, BranchesPatched
  <2>. QED BY <2>1, <2>2
<1>11. HolesInBlock'
  <2> SUFFICES ASSUME body'.block <= 1, NEW j \in DOMAIN work', HasHole(work'[j])
               PROVE  PosOf(work'[j]).block = 1
    BY DEF HolesInBlock, HasHole, PosOf
  <2>1. body.block <= 1
    BY <1>5 DEF CodeGrows
  <2>. QED BY <1>4, <2>1 DEF GoodItems, EmitInv, HolesInBlock
<1>12. StartsKnown'
  <2> SUFFICES ASSUME NEW j \in DOMAIN work', work'[j].item \in {"while", "while_end"}
               PROVE  work'[j].start_pos \in DOMAIN code' \cup {body'.size}
    BY DEF StartsKnown
  <2>1. CASE j \in DOMAIN items /\ work'[j] = items[j]
    BY <2>1 DEF GoodItems
  <2>2. CASE j - Len(items) + 1 \in DOMAIN work /\ work'[j] = work[j - Len(items) + 1]
    BY <1>7, <2>2 DEF EmitInv, StartsKnown
  <2>. QED BY <1>4, <2>1, <2>2
<1>13. InsideInv'
  BY StepStaysInside
<1>. QED BY <1>6, <1>8, <1>9, <1>10, <1>11, <1>12, <1>13 DEF EmitInv

-----------------------------------------------------------------------------
(* The items an action puts on the work stack.                             *)
LEMMA FunctionIsSeq ==
    ASSUME NEW S, NEW n \in Nat, NEW f \in [1..n -> S]
    PROVE  f \in Seq(S) /\ Len(f) = n
OBVIOUS

LEMMA ItemTypes ==
    /\ \A e \in Exprs : ExprItem(e) \in WorkItem
    /\ \A s \in Statements : StmtItem(s) \in WorkItem
    /\ \A op \in Opcode \ {"BR"}, n \in Word : InstItem(op, n) \in WorkItem
    /\ \A ss \in Seq(Statements) : Stmts(ss) \in Seq(WorkItem) /\ Len(Stmts(ss)) = Len(ss)
<1>1. \A e \in Exprs : ExprItem(e) \in WorkItem
  BY DEF ExprItem, WorkItem
<1>2. \A s \in Statements : StmtItem(s) \in WorkItem
  BY DEF StmtItem, WorkItem
<1>3. \A op \in Opcode \ {"BR"}, n \in Word : InstItem(op, n) \in WorkItem
  BY DEF InstItem, WorkItem
<1>4. ASSUME NEW ss \in Seq(Statements)
      PROVE  Stmts(ss) \in Seq(WorkItem) /\ Len(Stmts(ss)) = Len(ss)
  <2>1. Len(ss) \in Nat /\ DOMAIN ss = 1..Len(ss) /\ \A i \in 1..Len(ss) : ss[i] \in Statements
    BY LenProperties
  <2>2. Stmts(ss) \in [1..Len(ss) -> WorkItem]
    BY <1>2, <2>1 DEF Stmts
  <2>. QED BY <2>1, <2>2, FunctionIsSeq
<1>. QED BY <1>1, <1>2, <1>3, <1>4

Simple(w) == w.item \in {"inst", "expr", "stmt"}

LEMMA SimpleItems ==
    /\ \A e : Simple(ExprItem(e))
    /\ \A op, n : Simple(InstItem(op, n))
    /\ \A ss : \A i \in DOMAIN Stmts(ss) : Simple(Stmts(ss)[i])
BY DEF Simple, ExprItem, InstItem, Stmts, StmtItem

Quiet(items) ==
    /\ items \in Seq(WorkItem)
    /\ \A j \in DOMAIN items :
          \/ Simple(items[j])
          \/ items[j].item = "if"
          \/ items[j].item = "while" /\ items[j].start_pos = body'.size

(* Items without holes owe nothing but their start_pos.                    *)
LEMMA NoHoles ==
    ASSUME EmitInv, NEW items, Quiet(items), Replace(items)
    PROVE  GoodItems(items, -1)
<1>1. -1 \notin Holes
  <2>1. DOMAIN code \subseteq Nat /\ \A off \in Holes : off - 1 \in DOMAIN code
    BY DEF EmitInv, EmitTypeOK, HolesAreBranches, Buffer
  <2>. QED BY <2>1
<1>2. \A j \in DOMAIN items : HoleOf(items[j]) = {} /\ ~HasHole(items[j])
  BY DEF Quiet, Simple, HoleOf, HasHole
<1>3. \A j \in DOMAIN items : items[j].item \in {"while", "while_end"} =>
          items[j].start_pos \in DOMAIN code' \cup {body'.size}
  BY DEF Quiet, Simple
<1>. QED BY <1>1, <1>2, <1>3 DEF GoodItems, Quiet

LEMMA BodyKept ==
    ASSUME EmitInv, UNCHANGED <<body, code>>
    PROVE  CodeGrows /\ GoodCode
BY DEF EmitInv, EmitTypeOK, CodeGrows, GoodCode, Roomy, Owned, Buffer

LEMMA TopHasNoHole ==
    ASSUME Top.item \in {"inst", "expr", "stmt", "if", "while"}
    PROVE  TopPatched
BY DEF TopPatched, HoleOf

-----------------------------------------------------------------------------
(* The code an action adds.                                                *)
Inst(op, operand, next) == [opcode |-> op, operand |-> operand, next |-> next]

LEMMA OneMore ==
    ASSUME EmitInv, NEW op \in Opcode, NEW operand \in Nat,
           Roomy(body)', body'.size > body.size, body'.block >= body.block,
           code' = With(code, body.size, op, operand, body'.size)
    PROVE  /\ CodeGrows
           /\ DOMAIN code' = DOMAIN code \cup {body.size} /\ body.size \notin DOMAIN code
           /\ code'[body.size] = Inst(op, operand, body'.size)
           /\ \A p \in DOMAIN code : code'[p] = code[p]
<1>1. /\ body.size \in Nat /\ body'.size \in Nat
      /\ DOMAIN code \subseteq 0..body.size-1 /\ body.size \notin DOMAIN code
  BY DEF EmitInv, EmitTypeOK, Buffer, Roomy
<1>2. /\ DOMAIN code' = DOMAIN code \cup {body.size}
      /\ code'[body.size] = Inst(op, operand, body'.size)
      /\ \A p \in DOMAIN code : code'[p] = code[p]
  <2> DEFINE d == With(code, body.size, op, operand, body'.size)
  <2>1. /\ DOMAIN d = DOMAIN code \cup {body.size}
        /\ d[body.size] = Inst(op, operand, body'.size)
        /\ \A p \in DOMAIN code : d[p] = code[p]
    BY <1>1 DEF With, Inst
  <2>. QED BY <2>1
<1>3. \A p \in DOMAIN code' : code'[p] \in [opcode : Opcode, operand : Nat, next : Nat]
  BY <1>1, <1>2 DEF EmitInv, EmitTypeOK, Inst
<1>4. DOMAIN code' \subseteq 0..body'.size-1
  BY <1>1, <1>2
<1>. QED BY <1>1, <1>2, <1>3, <1>4 DEF CodeGrows

LEMMA PatchProperties ==
    ASSUME NEW c, NEW b, b.size \in Nat, NEW pos, pos.off - 1 \in DOMAIN c,
           c[pos.off - 1].opcode = "BR",
           \A p \in DOMAIN c : c[p] \in [opcode : Opcode, operand : Nat, next : Nat]
    PROVE  /\ DOMAIN Patch(c, b, pos) = DOMAIN c
           /\ \A p \in DOMAIN c : p # pos.off - 1 => Patch(c, b, pos)[p] = c[p]
           /\ \A p \in DOMAIN c :
                 /\ Patch(c, b, pos)[p] \in [opcode : Opcode, operand : Nat, next : Nat]
                 /\ Patch(c, b, pos)[p].opcode = c[p].opcode
                 /\ Patch(c, b, pos)[p].next = c[p].next
                 /\ Patch(c, b, pos)[p].operand # c[p].operand =>
                       Patch(c, b, pos)[p].operand = b.size
           /\ pos.block = b.block => Patch(c, b, pos)[pos.off - 1].operand = b.size
<1>1. CASE Stale(b, pos)
  BY <1>1 DEF Patch, Stale
<1>2. CASE ~Stale(b, pos)
  <2>1. Patch(c, b, pos) = [c EXCEPT ![pos.off - 1] = [@ EXCEPT !.operand = b.size]]
    BY <1>2 DEF Patch
  <2>2. c[pos.off - 1] \in [opcode : Opcode, operand : Nat, next : Nat]
    OBVIOUS
  <2>3. /\ DOMAIN Patch(c, b, pos) = DOMAIN c
        /\ \A p \in DOMAIN c : p # pos.off - 1 => Patch(c, b, pos)[p] = c[p]
        /\ Patch(c, b, pos)[pos.off - 1] = [c[pos.off - 1] EXCEPT !.operand = b.size]
    BY <2>1
  <2>4. [c[pos.off - 1] EXCEPT !.operand = b.size] =
          [opcode |-> c[pos.off - 1].opcode, operand |-> b.size, next |-> c[pos.off - 1].next]
    BY <2>2
  <2> DEFINE d == Patch(c, b, pos)
  <2> HIDE DEF d
  <2>5. /\ d[pos.off - 1].opcode = c[pos.off - 1].opcode
        /\ d[pos.off - 1].next = c[pos.off - 1].next
        /\ d[pos.off - 1].operand = b.size
        /\ d[pos.off - 1] \in [opcode : Opcode, operand : Nat, next : Nat]
    BY <2>2, <2>3, <2>4 DEF d
  <2>6. DOMAIN d = DOMAIN c /\ \A p \in DOMAIN c : p # pos.off - 1 => d[p] = c[p]
    BY <2>3 DEF d
  <2>7. \A p \in DOMAIN c :
           /\ d[p] \in [opcode : Opcode, operand : Nat, next : Nat]
           /\ d[p].opcode = c[p].opcode /\ d[p].next = c[p].next
           /\ d[p].operand # c[p].operand => d[p].operand = b.size
    BY <2>5, <2>6
  <2>. QED BY <2>5, <2>6, <2>7 DEF d
<1>. QED BY <1>1, <1>2

(* LDI 1, a branch, and then an earlier branch patched.                    *)
LEMMA TwoMore ==
    ASSUME EmitInv, NEW b1, Roomy(b1), b1.size > body.size, b1.block >= body.block,
           Roomy(body)', body'.size > b1.size, body'.block >= b1.block, NEW target \in Nat,
           NEW pos, pos.off \in Holes, pos \in Pointer, HoleOf(Top) = {pos.off},
           code' = Patch(With(With(code, body.size, "LDI", 1, b1.size),
                              b1.size, "BR", target, body'.size), body', pos)
    PROVE  /\ CodeGrows
           /\ DOMAIN code' = DOMAIN code \cup {body.size, b1.size}
           /\ body.size \notin DOMAIN code /\ b1.size \notin DOMAIN code
           /\ code'[body.size] = Inst("LDI", 1, b1.size)
           /\ code'[b1.size] = Inst("BR", target, body'.size)
           /\ pos.block = body'.block => code'[pos.off - 1].operand = body'.size
<1> DEFINE c1 == With(code, body.size, "LDI", 1, b1.size)
           c2 == With(c1, b1.size, "BR", target, body'.size)
           Code == [opcode : Opcode, operand : Nat, next : Nat]
<1>1. /\ body.size \in Nat /\ b1.size \in Nat /\ body'.size \in Nat
      /\ DOMAIN code \subseteq 0..body.size-1
      /\ body.size \notin DOMAIN code /\ b1.size \notin DOMAIN code
      /\ \A p \in DOMAIN code : code[p] \in Code
      /\ body.block \in Nat /\ b1.block \in Nat /\ body'.block \in Nat
  BY DEF EmitInv, EmitTypeOK, Buffer, Roomy
<1>2. pos.off - 1 \in DOMAIN code /\ code[pos.off - 1].opcode = "BR"
  BY DEF EmitInv, HolesAreBranches
<1>3. /\ DOMAIN c1 = DOMAIN code \cup {body.size}
      /\ c1[body.size] = Inst("LDI", 1, b1.size) /\ \A p \in DOMAIN code : c1[p] = code[p]
  BY <1>1 DEF With, Inst
<1>4. /\ DOMAIN c2 = DOMAIN c1 \cup {b1.size}
      /\ c2[b1.size] = Inst("BR", target, body'.size) /\ \A p \in DOMAIN c1 : c2[p] = c1[p]
  <2>1. b1.size \notin DOMAIN c1
    BY <1>1, <1>3
  <2> HIDE DEF c1
  <2>. QED BY <2>1 DEF With, Inst
<1> HIDE DEF c1, c2
<1>5. {"LDI", "BR"} \subseteq Opcode
  BY DEF Opcode, WithOperand
<1>6. \A p \in DOMAIN c2 : c2[p] \in Code
  BY <1>1, <1>3, <1>4, <1>5 DEF Inst
<1>7. pos.off - 1 \in DOMAIN c2 /\ c2[pos.off - 1] = code[pos.off - 1]
      /\ pos.off - 1 # body.size /\ pos.off - 1 # b1.size
  BY <1>1, <1>2, <1>3, <1>4
<1>8. code' = Patch(c2, body', pos)
  BY DEF c1, c2
<1>9. /\ DOMAIN code' = DOMAIN c2
      /\ \A p \in DOMAIN c2 : p # pos.off - 1 => code'[p] = c2[p]
      /\ \A p \in DOMAIN c2 :
            /\ code'[p] \in Code
            /\ code'[p].opcode = c2[p].opcode /\ code'[p].next = c2[p].next
            /\ code'[p].operand # c2[p].operand => code'[p].operand = body'.size
      /\ pos.block = body'.block => code'[pos.off - 1].operand = body'.size
  <2>1. c2[pos.off - 1].opcode = "BR" /\ body'.size \in Nat /\ pos.off - 1 \in DOMAIN c2
    BY <1>1, <1>2, <1>7
  <2>2. \A p \in DOMAIN c2 : c2[p] \in [opcode : Opcode, operand : Nat, next : Nat]
    BY <1>6
  <2>3. /\ DOMAIN Patch(c2, body', pos) = DOMAIN c2
        /\ \A p \in DOMAIN c2 : p # pos.off - 1 => Patch(c2, body', pos)[p] = c2[p]
        /\ \A p \in DOMAIN c2 :
              /\ Patch(c2, body', pos)[p] \in [opcode : Opcode, operand : Nat, next : Nat]
              /\ Patch(c2, body', pos)[p].opcode = c2[p].opcode
              /\ Patch(c2, body', pos)[p].next = c2[p].next
              /\ Patch(c2, body', pos)[p].operand # c2[p].operand =>
                    Patch(c2, body', pos)[p].operand = body'.size
        /\ pos.block = body'.block => Patch(c2, body', pos)[pos.off - 1].operand = body'.size
    BY <2>1, <2>2, PatchProperties
  <2>. QED BY <1>8, <2>3
<1>10. /\ DOMAIN code' = DOMAIN code \cup {body.size, b1.size}
       /\ code'[body.size] = Inst("LDI", 1, b1.size)
       /\ code'[b1.size] = Inst("BR", target, body'.size)
  BY <1>1, <1>3, <1>4, <1>7, <1>9
<1>11. \A p \in DOMAIN code :
          /\ code'[p].opcode = code[p].opcode /\ code'[p].next = code[p].next
          /\ code'[p].operand # code[p].operand => code'[p].operand = body'.size /\ p + 1 \in HoleOf(Top)
  <2> SUFFICES ASSUME NEW p \in DOMAIN code
               PROVE  /\ code'[p].opcode = code[p].opcode /\ code'[p].next = code[p].next
                      /\ code'[p].operand # code[p].operand =>
                           code'[p].operand = body'.size /\ p + 1 \in HoleOf(Top)
    OBVIOUS
  <2>1. p \in DOMAIN c1 /\ p \in DOMAIN c2 /\ c2[p] = code[p]
    BY <1>3, <1>4
  <2>2. code'[p].operand # code[p].operand => p = pos.off - 1
    BY <1>9, <2>1
  <2>3. p = pos.off - 1 => p + 1 = pos.off
    BY DEF Pointer
  <2>. QED BY <1>9, <2>1, <2>2, <2>3
<1>12. DOMAIN code' \subseteq 0..body'.size-1
  BY <1>1, <1>10
<1>13. CodeGrows
  BY <1>1, <1>9, <1>10, <1>11, <1>12 DEF CodeGrows
<1>. QED BY <1>1, <1>9, <1>10, <1>13

(* What an action adds to the code: one instruction, or LDI 1 and a branch. *)
AddsOne(op, operand) ==
    /\ CodeGrows /\ body'.size > body.size
    /\ DOMAIN code' = DOMAIN code \cup {body.size}
    /\ code'[body.size] = Inst(op, operand, body'.size)

AddsTwo(target) ==
    /\ CodeGrows
    /\ \E q \in Nat :
          /\ body.size < q /\ q < body'.size
          /\ DOMAIN code' = DOMAIN code \cup {body.size, q}
          /\ code'[body.size] = Inst("LDI", 1, q)
          /\ code'[q] = Inst("BR", target, body'.size)

-----------------------------------------------------------------------------
(* One lemma per action.                                                   *)
LEMMA TopType ==
    ASSUME EmitInv, work # <<>>
    PROVE  /\ Top \in WorkItem /\ Roomy(body)
           /\ body.size \in Nat /\ body.block \in Nat
           /\ 1 \in DOMAIN work /\ Top = work[1]
<1>1. work \in Seq(WorkItem)
  BY DEF EmitInv, EmitTypeOK
<1>2. Top \in WorkItem /\ Top = work[1]
  BY <1>1, HeadTailProperties DEF Top
<1>3. 1 \in DOMAIN work
  BY <1>1, EmptySeq, LenProperties
<1>4. Roomy(body) /\ body.size \in Nat /\ body.block \in Nat
  BY Shape DEF EmitInv
<1>. QED BY <1>2, <1>3, <1>4

LEMMA BehindSymbols ==
    ASSUME EmitInv, NEW p \in Int, p >= body.size
    PROVE  InCurrent(p)
<1>1. \A i \in DOMAIN symbols : symbols[i].pos <= body.size
  BY DEF EmitInv, InsideInv, OpenInCurrent, InCurrent
<1>2. body.size \in Nat /\ \A i \in DOMAIN symbols : symbols[i] \in Symbol
  BY DEF EmitInv, EmitTypeOK, Buffer
<1>3. \A i \in DOMAIN symbols : symbols[i].pos \in Nat
  BY <1>2 DEF Symbol
<1>. QED BY <1>1, <1>2, <1>3 DEF InCurrent

LEMMA InsideKept ==
    ASSUME EmitInv, UNCHANGED <<work, symbols, body, code>>
    PROVE  InsideInv'
<1>1. InsideInv /\ Holes' = Holes
  BY DEF EmitInv, Holes, HoleOf
<1>2. OpenInCurrent'
  BY <1>1 DEF InsideInv, OpenInCurrent, InCurrent
<1>3. \A p : Open(p)' <=> Open(p)
  BY <1>1 DEF Open, Unpatched
<1>4. BranchesInside'
  BY <1>1, <1>3 DEF InsideInv, BranchesInside, SameFunction
<1>5. ReturnComesLast' /\ NoneBehind'
  BY <1>1, <1>3 DEF InsideInv, ReturnComesLast, NoneBehind
<1>. QED BY <1>2, <1>4, <1>5 DEF InsideInv

LEMMA InstKeepsInv ==
    ASSUME EmitInv, EmitInst
    PROVE  EmitInv' /\ AddsOne(Top.opcode, Top.operand)
<1>1. PICK moved \in BodyMoves :
        body' = PushInst(body, OperandWidth(Top.opcode, Top.operand), moved)
  BY DEF EmitInst
<1>2. work # <<>> /\ Top.item = "inst"
  BY DEF EmitInst, Is
<1>3. Top.opcode \in Opcode \ {"BR"} /\ Top.operand \in Nat
  BY <1>2, TopType, WordAssumption DEF WorkItem, Word
<1>4. moved \in BOOLEAN
  BY EmitAssumption
<1>5. /\ Roomy(body)' /\ body'.size > body.size /\ body'.block >= body.block
      /\ body'.size \in Nat
      /\ body'.size = body.size + 1 + OperandWidth(Top.opcode, Top.operand)
  <2>1. OperandWidth(Top.opcode, Top.operand) \in 0..8
    BY WidthProperties
  <2>2. /\ Roomy(body') /\ body'.size = body.size + 1 + OperandWidth(Top.opcode, Top.operand)
        /\ body'.block >= body.block
    BY <1>1, <1>2, <1>4, <2>1, TopType, PushInstProperties
  <2>. QED BY <1>2, <2>1, <2>2, TopType, SMTT(30) DEF Roomy, Buffer, Owned
<1>6. /\ CodeGrows
      /\ DOMAIN code' = DOMAIN code \cup {body.size}
      /\ code'[body.size] = Inst(Top.opcode, Top.operand, body'.size)
  <2>1. code' = With(code, body.size, Top.opcode, Top.operand, body'.size)
    BY <1>5 DEF EmitInst, After
  <2>. QED BY <1>3, <1>5, <2>1, OneMore
<1>7. GoodCode
  BY <1>3, <1>6 DEF GoodCode, Inst
<1>8. GoodItems(<<>>, -1)
  <2>1. <<>> \in Seq(WorkItem) /\ DOMAIN <<>> = {}
    BY EmptySeq
  <2>2. Replace(<<>>)
    BY DEF EmitInst
  <2>3. Quiet(<<>>)
    BY <2>1 DEF Quiet
  <2>. QED BY <2>2, <2>3, NoHoles
<1>9. TopPatched
  BY <1>2, TopHasNoHole
<1>10. Others
  BY DEF EmitInst, Others, EmitInv, EmitTypeOK
<1>11. StaysInside(<<>>, -1)
  <2>1. symbols' = symbols /\ body.size \in Nat /\ body'.size >= body.size
    BY <1>2, <1>5, TopType DEF EmitInst
  <2>2. \A p \in DOMAIN code' \ DOMAIN code :
          p = body.size /\ code'[p].opcode = Top.opcode /\ Top.opcode # "BR"
    BY <1>3, <1>6 DEF Inst
  <2>3. DOMAIN <<>> = {}
    BY EmptySeq
  <2>. QED BY <1>5, <2>1, <2>2, <2>3 DEF StaysInside
<1>12. AddsOne(Top.opcode, Top.operand)
  BY <1>5, <1>6 DEF AddsOne
<1>. QED BY <1>2, <1>6, <1>7, <1>8, <1>9, <1>10, <1>11, <1>12, StepKeepsInv

AllSimple(items) == items \in Seq(WorkItem) /\ \A j \in DOMAIN items : Simple(items[j])

LEMMA OneItem ==
    ASSUME NEW w \in WorkItem, Simple(w)
    PROVE  AllSimple(<<w>>)
BY DEF AllSimple

LEMMA Joined ==
    ASSUME NEW s, NEW t, AllSimple(s), AllSimple(t)
    PROVE  AllSimple(s \o t)
<1>1. /\ s \in Seq(WorkItem) /\ t \in Seq(WorkItem)
      /\ DOMAIN s = 1..Len(s) /\ Len(s) \in Nat /\ DOMAIN t = 1..Len(t) /\ Len(t) \in Nat
  BY LenProperties DEF AllSimple
<1>2. /\ s \o t \in Seq(WorkItem) /\ Len(s \o t) = Len(s) + Len(t)
      /\ \A i \in 1..Len(s \o t) : (s \o t)[i] = IF i <= Len(s) THEN s[i] ELSE t[i - Len(s)]
  BY <1>1, ConcatProperties
<1>3. DOMAIN (s \o t) = 1..(Len(s) + Len(t))
  BY <1>2, LenProperties
<1>4. ASSUME NEW i \in 1..(Len(s) + Len(t)) PROVE Simple((s \o t)[i])
  <2>1. CASE i <= Len(s)
    BY <1>1, <1>2, <2>1 DEF AllSimple
  <2>2. CASE i > Len(s)
    <3>1. i - Len(s) \in DOMAIN t
      BY <1>1, <2>2
    <3>. QED BY <1>1, <1>2, <2>2, <3>1 DEF AllSimple
  <2>. QED BY <1>1, <2>1, <2>2
<1>. QED BY <1>2, <1>3, <1>4 DEF AllSimple

LEMMA StmtsSimple ==
    ASSUME NEW ss \in Seq(Statements)
    PROVE  AllSimple(Stmts(ss))
BY ItemTypes, SimpleItems DEF AllSimple

LEMMA PlainTypes ==
    /\ \A op \in Opcode \ {"BR"}, n \in Word : AllSimple(<<InstItem(op, n)>>)
    /\ \A op \in {"POP", "RET", "NOT", "DUP"} : AllSimple(<<Plain(op)>>) /\ Plain(op) \in WorkItem
    /\ \A e \in Exprs : AllSimple(<<ExprItem(e)>>)
<1>1. 0 \in Word /\ {"POP", "RET", "NOT", "DUP"} \subseteq Opcode \ {"BR"}
  BY WordAssumption DEF Word, Opcode, UnOps
<1>2. \A op \in Opcode \ {"BR"}, n \in Word : AllSimple(<<InstItem(op, n)>>)
  BY ItemTypes, SimpleItems, OneItem
<1>3. \A e \in Exprs : AllSimple(<<ExprItem(e)>>)
  BY ItemTypes, SimpleItems, OneItem
<1>. QED BY <1>1, <1>2, <1>3, ItemTypes DEF Plain

LEMMA ArgsSimple ==
    ASSUME NEW es \in Seq(Exprs)
    PROVE  AllSimple([i \in DOMAIN es |-> ExprItem(es[i])])
<1>1. Len(es) \in Nat /\ DOMAIN es = 1..Len(es) /\ \A i \in 1..Len(es) : es[i] \in Exprs
  BY LenProperties
<1>2. [i \in DOMAIN es |-> ExprItem(es[i])] \in [1..Len(es) -> WorkItem]
  BY <1>1, ItemTypes
<1>3. [i \in DOMAIN es |-> ExprItem(es[i])] \in Seq(WorkItem)
  BY <1>1, <1>2, FunctionIsSeq
<1>. QED BY <1>1, <1>3, SimpleItems DEF AllSimple

(* What an expression expands into has no holes.                           *)
LEMMA ExpandSimple ==
    ASSUME NEW e \in Exprs, e.kind = "assign" => Last(e.args).kind = "local",
           \A l \in Exprs : l.kind = "local" => l.off \in Word
    PROVE  AllSimple(Expand(e))
<1>1. IsExpr(e)
  BY TreeAssumption
<1>2. {"LDI", "LDL", "STL", "CALL"} \subseteq Opcode \ {"BR"} /\ 0 \in Word
  BY WordAssumption DEF Opcode, WithOperand, Word
<1>3. CASE e.kind = "literal"
  BY <1>1, <1>2, <1>3, PlainTypes DEF Expand, IsExpr
<1>4. CASE e.kind = "local"
  BY <1>1, <1>2, <1>4, PlainTypes DEF Expand, IsExpr
<1>5. CASE e.kind = "func"
  <2>1. e.args \in Seq(Exprs)
    BY <1>1, <1>5 DEF IsExpr
  <2> DEFINE call == IF e.op.kind = "opcode" THEN Plain(e.op.opcode)
                     ELSE InstItem("CALL", e.op.symbol_id)
  <2>2. CASE e.op.kind = "opcode"
    <3>1. e.op.opcode \in Opcode \ {"BR"}
      BY <1>1, <1>5, <2>2 DEF IsExpr, WithOperand
    <3>. QED BY <1>2, <1>5, <2>1, <2>2, <3>1, ArgsSimple, PlainTypes, Joined DEF Expand, Plain
  <2>3. CASE e.op.kind # "opcode"
    <3>1. e.op.symbol_id \in Word
      BY <1>1, <1>5, <2>3 DEF IsExpr
    <3>. QED BY <1>2, <1>5, <2>1, <2>3, <3>1, ArgsSimple, PlainTypes, Joined DEF Expand
  <2>. QED BY <2>2, <2>3
<1>6. CASE e.kind = "list"
  <2> DEFINE n == 2 * Len(e.exprs) - 1
             w(i) == IF i % 2 = 1 THEN ExprItem(e.exprs[(i + 1) \div 2]) ELSE Plain("POP")
  <2>1. /\ e.exprs \in Seq(Exprs) /\ e.exprs # <<>>
        /\ Len(e.exprs) \in Nat /\ Len(e.exprs) > 0
        /\ \A i \in 1..Len(e.exprs) : e.exprs[i] \in Exprs
    <3>1. e.exprs \in Seq(Exprs) /\ e.exprs # <<>>
      BY <1>1, <1>6 DEF IsExpr
    <3>. QED BY <3>1, EmptySeq, LenProperties
  <2>2. n \in Nat /\ \A i \in 1..n : i % 2 = 1 => (i + 1) \div 2 \in 1..Len(e.exprs)
    BY <2>1
  <2>3. \A i \in 1..n : w(i) \in WorkItem /\ Simple(w(i))
    BY <2>1, <2>2, ItemTypes, PlainTypes, SimpleItems DEF Plain
  <2>4. Expand(e) = [i \in 1..n |-> w(i)]
    BY <1>6 DEF Expand
  <2> HIDE DEF n, w
  <2>5. [i \in 1..n |-> w(i)] \in [1..n -> WorkItem]
    BY <2>3
  <2>6. [i \in 1..n |-> w(i)] \in Seq(WorkItem)
    BY <2>2, <2>5, FunctionIsSeq
  <2>. QED BY <2>3, <2>4, <2>6 DEF AllSimple
<1>7. CASE e.kind = "assign"
  <2>1. e.args \in Seq(Exprs) /\ Len(e.args) = 2 /\ e.args[1] \in Exprs /\ e.args[2] \in Exprs
    <3>1. e.args \in Seq(Exprs) /\ Len(e.args) = 2
      BY <1>1, <1>7 DEF IsExpr
    <3>. QED BY <3>1, ElementOfSeq
  <2>2. Last(e.args) = e.args[2]
    BY <2>1 DEF Last
  <2>3. Last(e.args).off \in Word
    BY <1>7, <2>1, <2>2
  <2>4. Expand(e) = (<<ExprItem(e.args[1])>> \o <<Plain("DUP")>>) \o <<InstItem("STL", Last(e.args).off)>>
    BY <1>7 DEF Expand
  <2>. QED BY <1>2, <2>1, <2>3, <2>4, PlainTypes, Joined
<1>. QED BY <1>1, <1>3, <1>4, <1>5, <1>6, <1>7 DEF IsExpr

(* A step that leaves the body alone and adds items without holes.         *)
LEMMA QuietStep ==
    ASSUME EmitInv, work # <<>>, KeepBody, NEW items, Quiet(items), Replace(items),
           Top.item \in {"expr", "stmt", "if", "while"}
    PROVE  EmitInv'
<1>1. CodeGrows /\ GoodCode
  BY BodyKept DEF KeepBody
<1>2. TopPatched /\ GoodItems(items, -1)
  BY TopHasNoHole, NoHoles
<1>3. Others
  BY DEF KeepBody, Others, EmitInv, EmitTypeOK
<1>4. StaysInside(items, -1)
  <2>1. symbols' = symbols /\ body' = body /\ code' = code /\ body.size \in Nat
    BY TopType DEF KeepBody
  <2>2. \A j \in DOMAIN items : HoleOf(items[j]) = {}
    BY DEF Quiet, Simple, HoleOf
  <2>3. \A j \in DOMAIN items : items[j].item \in {"while", "while_end"} => InCurrent(items[j].start_pos)
    BY <2>1, BehindSymbols DEF Quiet, Simple
  <2>. QED BY <2>1, <2>2, <2>3 DEF StaysInside
<1>. QED BY <1>1, <1>2, <1>3, <1>4, StepKeepsInv

LEMMA QuietSimpleStep ==
    ASSUME EmitInv, work # <<>>, KeepBody, NEW items, AllSimple(items), Replace(items),
           Top.item \in {"expr", "stmt", "if", "while"}
    PROVE  EmitInv'
<1>1. Quiet(items)
  BY DEF AllSimple, Quiet
<1>. QED BY <1>1, QuietStep

LEMMA ExprKeepsInv == ASSUME EmitInv, EmitExpr PROVE EmitInv'
<1>1. work # <<>> /\ Top.item = "expr" /\ Replace(Expand(Top.expr)) /\ KeepBody
  BY DEF EmitExpr, Is
<1>2. Top.expr \in Exprs
  BY <1>1, TopType DEF WorkItem
<1>3. \A l \in Exprs : l.kind = "local" => l.off \in Word
  BY TreeAssumption DEF IsExpr
<1>4. AllSimple(Expand(Top.expr))
  BY <1>2, <1>3, ExpandSimple DEF EmitExpr
<1>. QED BY <1>1, <1>4, QuietSimpleStep

LEMMA StmtType ==
    ASSUME EmitInv, Is("stmt")
    PROVE  /\ work # <<>> /\ Top.item = "stmt" /\ Top.stmt \in Statements /\ IsStmt(Top.stmt)
BY TopType, TreeAssumption DEF Is, WorkItem

LEMMA StmtKeepsInv == ASSUME EmitInv, EmitStmt PROVE EmitInv'
<1>1. /\ work # <<>> /\ Top.item = "stmt" /\ Top.stmt \in Statements /\ IsStmt(Top.stmt)
      /\ Replace(ExpandStmt(Top.stmt)) /\ KeepBody
      /\ Top.stmt.kind \in {"decl", "expr", "return"}
  BY StmtType DEF EmitStmt
<1>2. AllSimple(ExpandStmt(Top.stmt))
  <2>1. CASE Top.stmt.kind = "decl"
    BY <2>1, EmptySeq DEF ExpandStmt, AllSimple
  <2>2. CASE Top.stmt.kind \in {"expr", "return"}
    <3>1. Top.stmt.expr \in Exprs
      BY <1>1, <2>2 DEF IsStmt
    <3> DEFINE op == IF Top.stmt.kind = "expr" THEN "POP" ELSE "RET"
    <3>2. ExpandStmt(Top.stmt) = <<ExprItem(Top.stmt.expr)>> \o <<Plain(op)>>
      BY <2>2 DEF ExpandStmt
    <3>3. AllSimple(<<ExprItem(Top.stmt.expr)>>) /\ AllSimple(<<Plain(op)>>)
      BY <3>1, PlainTypes
    <3>. QED BY <3>2, <3>3, Joined
  <2>. QED BY <1>1, <2>1, <2>2
<1>. QED BY <1>1, <1>2, QuietSimpleStep

LEMMA ConditionKeepsInv == ASSUME EmitInv, EmitCondition PROVE EmitInv'
<1> DEFINE rest == Rest
           items == <<ExprItem(Top.stmt.expr), Plain("NOT"), rest>>
<1>1. /\ work # <<>> /\ Top.item = "stmt" /\ Top.stmt \in Statements /\ IsStmt(Top.stmt)
      /\ Top.stmt.kind \in {"if", "while"} /\ Replace(items) /\ KeepBody
  BY StmtType DEF EmitCondition
<1> USE DEF Rest
<1>2. Top.stmt.expr \in Exprs
  BY <1>1 DEF IsStmt
<1>3. rest \in WorkItem
  <2>1. body.size \in Nat
    BY <1>1, TopType
  <2>. QED BY <1>1, <2>1 DEF WorkItem, IfStatements, WhileStatements
<1>4. ExprItem(Top.stmt.expr) \in WorkItem /\ Plain("NOT") \in WorkItem
  BY <1>2, ItemTypes, PlainTypes
<1>5. Simple(ExprItem(Top.stmt.expr)) /\ Simple(Plain("NOT"))
  BY SimpleItems DEF Plain
<1>6. rest.item = "if" \/ (rest.item = "while" /\ rest.start_pos = body'.size)
  <2>1. body' = body
    BY <1>1 DEF KeepBody
  <2>2. CASE Top.stmt.kind = "if"
    <3>1. rest = [item |-> "if", stmt |-> Top.stmt]
      BY <2>2
    <3> HIDE DEF rest
    <3>. QED BY <3>1
  <2>3. CASE Top.stmt.kind # "if"
    <3>1. rest = [item |-> "while", stmt |-> Top.stmt, start_pos |-> body.size]
      BY <2>3
    <3> HIDE DEF rest
    <3>. QED BY <2>1, <3>1
  <2>. QED BY <2>2, <2>3
<1> HIDE DEF rest
<1>7. items \in Seq(WorkItem)
  BY <1>3, <1>4
<1>8. Quiet(items)
  BY <1>5, <1>6, <1>7 DEF Quiet
<1> HIDE DEF items
<1>. QED BY <1>1, <1>7, <1>8, QuietStep

LEMMA BadAssignKeepsInv == ASSUME EmitInv, EmitBadAssign PROVE EmitInv'
<1>1. UNCHANGED <<funcs, work, symbols, body, code>> /\ error' = "lvalue"
  BY DEF EmitBadAssign
<1>2. EmitTypeOK' /\ Owned(body)'
  BY <1>1 DEF EmitInv, EmitTypeOK, Owned
<1>3. Holes' = Holes /\ Contiguous' /\ StartsKnown'
  BY <1>1 DEF EmitInv, Holes, HoleOf, Contiguous, StartsKnown
<1>4. HolesAreBranches' /\ BranchesPatched' /\ HolesInBlock'
  <2>1. HolesAreBranches'
    BY <1>1, <1>3 DEF EmitInv, HolesAreBranches, HoleOf
  <2>2. BranchesPatched'
    BY <1>1, <1>3 DEF EmitInv, BranchesPatched, Unpatched
  <2>3. HolesInBlock'
    BY <1>1 DEF EmitInv, HolesInBlock, HasHole, PosOf
  <2>. QED BY <2>1, <2>2, <2>3
<1>. QED BY <1>1, <1>2, <1>3, <1>4, InsideKept DEF EmitInv

(* The statements of a body followed by the rest of their IF or WHILE,     *)
(* which holds a new hole at the end of the body.                          *)
LEMMA BodyItems ==
    ASSUME EmitInv, NEW ss \in Seq(Statements), NEW rest \in WorkItem, HasHole(rest),
           NEW h, PosOf(rest).off = h, h > body.size, h \in Int,
           body'.block <= 1 => PosOf(rest).block = 1,
           rest.item = "while_end" => rest.start_pos \in DOMAIN code' \cup {body'.size} /\ InCurrent(rest.start_pos),
           h - 1 \in DOMAIN code', code'[h - 1].opcode = "BR", code'[h - 1].next = h + 8,
           Replace(Stmts(ss) \o <<rest>>)
    PROVE  /\ GoodItems(Stmts(ss) \o <<rest>>, h)
           /\ \E j \in DOMAIN (Stmts(ss) \o <<rest>>) : h \in HoleOf((Stmts(ss) \o <<rest>>)[j])
           /\ \A j \in DOMAIN (Stmts(ss) \o <<rest>>) :
                (Stmts(ss) \o <<rest>>)[j].item \in {"while", "while_end"} =>
                    InCurrent((Stmts(ss) \o <<rest>>)[j].start_pos)
<1> DEFINE items == Stmts(ss) \o <<rest>>
           n == Len(ss) + 1
<1>1. /\ Len(ss) \in Nat /\ Stmts(ss) \in Seq(WorkItem) /\ Len(Stmts(ss)) = Len(ss)
      /\ DOMAIN Stmts(ss) = 1..Len(ss)
      /\ \A j \in 1..Len(ss) : Simple(Stmts(ss)[j])
  <2>1. Len(ss) \in Nat /\ Stmts(ss) \in Seq(WorkItem) /\ Len(Stmts(ss)) = Len(ss)
    BY ItemTypes, LenProperties
  <2>2. DOMAIN Stmts(ss) = 1..Len(ss)
    BY <2>1, LenProperties
  <2>. QED BY <2>1, <2>2, SimpleItems
<1>2. <<rest>> \in Seq(WorkItem) /\ Len(<<rest>>) = 1 /\ <<rest>>[1] = rest
  OBVIOUS
<1>3. /\ items \in Seq(WorkItem) /\ Len(items) = n
      /\ \A i \in 1..n : items[i] = IF i <= Len(ss) THEN Stmts(ss)[i] ELSE <<rest>>[i - Len(ss)]
  BY <1>1, <1>2, ConcatProperties
<1> HIDE DEF items
<1>4. /\ DOMAIN items = 1..n /\ n \in Nat /\ n \in DOMAIN items
      /\ items[n] = rest
      /\ \A j \in DOMAIN items : j # n => Simple(items[j])
  <2>1. DOMAIN items = 1..n /\ n \in Nat /\ n \in DOMAIN items
    BY <1>1, <1>3, LenProperties
  <2>2. items[n] = rest
    BY <1>1, <1>2, <1>3, <2>1
  <2>3. \A j \in DOMAIN items : j # n => Simple(items[j])
    BY <1>1, <1>3, <2>1
  <2>. QED BY <2>1, <2>2, <2>3
<1>5. HoleOf(rest) = {h}
  BY DEF HasHole, PosOf, HoleOf
<1>6. \A j \in DOMAIN items : j # n => HoleOf(items[j]) = {} /\ ~HasHole(items[j])
  BY <1>4 DEF Simple, HoleOf, HasHole
<1>7. h \notin Holes
  <2>1. \A off \in Holes : off - 1 \in DOMAIN code
    BY DEF EmitInv, HolesAreBranches
  <2>2. DOMAIN code \subseteq 0..body.size-1 /\ body.size \in Nat
    BY DEF EmitInv, EmitTypeOK, Buffer
  <2>. QED BY <2>1, <2>2
<1>8. \A j \in DOMAIN items : items[j].item \in {"while", "while_end"} =>
          items[j].start_pos \in DOMAIN code' \cup {body'.size} /\ InCurrent(items[j].start_pos)
  <2> SUFFICES ASSUME NEW j \in DOMAIN items, items[j].item \in {"while", "while_end"}
               PROVE  items[j].start_pos \in DOMAIN code' \cup {body'.size} /\ InCurrent(items[j].start_pos)
    OBVIOUS
  <2>1. CASE j = n
    BY <1>4, <2>1 DEF HasHole
  <2>2. CASE j # n
    BY <1>4, <2>2 DEF Simple
  <2>. QED BY <2>1, <2>2
<1>9. \A j \in DOMAIN items : HoleOf(items[j]) \subseteq {h}
  BY <1>4, <1>5, <1>6
<1>10. \A j, k \in DOMAIN items : j # k => HoleOf(items[j]) \cap HoleOf(items[k]) = {}
  BY <1>4, <1>6
<1>11. \A j \in DOMAIN items : HasHole(items[j]) => (body'.block <= 1 => PosOf(items[j]).block = 1)
  BY <1>4, <1>6
<1>12. Replace(items)
  BY DEF items
<1>13. GoodItems(items, h)
  BY <1>3, <1>7, <1>8, <1>9, <1>10, <1>11, <1>12 DEF GoodItems
<1>14. \E j \in DOMAIN items : h \in HoleOf(items[j])
  BY <1>4, <1>5
<1>. QED BY <1>8, <1>13, <1>14 DEF items

(* A new hole is a hole of the next state.                                 *)
LEMMA NewHole ==
    ASSUME EmitInv, work # <<>>, NEW items, NEW h, GoodItems(items, h),
           \E j \in DOMAIN items : h \in HoleOf(items[j])
    PROVE  h \in Holes'
<1>1. work \in Seq(WorkItem) /\ HolesAreBranches
  BY DEF EmitInv, EmitTypeOK
<1>2. \A j \in DOMAIN items : HoleOf(items[j]) \subseteq Holes'
  BY <1>1, HolesStep DEF GoodItems
<1>. QED BY <1>2

LEMMA BranchKeepsInv ==
    ASSUME EmitInv, work # <<>>, Top.item \in {"if", "while"}, NEW moved \in BodyMoves,
           NEW rest, EmitBranch(moved, rest), HasHole(rest), rest \in WorkItem,
           PosOf(rest) = HolePointer(body, moved),
           rest.item = "while_end" => rest.start_pos \in DOMAIN code \cup {body.size} /\ InCurrent(rest.start_pos)
    PROVE  EmitInv' /\ AddsOne("BR", Unpatched)
<1>1. moved \in BOOLEAN /\ Roomy(body) /\ body.size \in Nat /\ body.block \in Nat
  BY TopType, EmitAssumption
<1>2. /\ Roomy(body)' /\ body'.size = body.size + 9
      /\ body'.block >= body.block /\ body'.block >= 1
      /\ PosOf(rest) = [block |-> body'.block, off |-> body.size + 1]
  <2>1. body' = Branched(body, moved)
    BY DEF EmitBranch
  <2>2. /\ Roomy(body') /\ body'.size = body.size + 9
        /\ body'.block >= body.block /\ body'.block >= 1
        /\ HolePointer(body, moved) = [block |-> body'.block, off |-> body.size + 1]
    BY <1>1, <2>1, BranchProperties
  <2>. QED BY <2>2 DEF Roomy, Owned
<1>3. body'.size \in Nat /\ body'.block \in Nat /\ body'.size > body.size
  BY <1>1, <1>2 DEF Roomy, Buffer
<1>4. "BR" \in Opcode /\ Unpatched \in Nat
  BY WordAssumption DEF Opcode, WithOperand, Unpatched
<1>5. /\ CodeGrows
      /\ DOMAIN code' = DOMAIN code \cup {body.size} /\ body.size \notin DOMAIN code
      /\ code'[body.size] = Inst("BR", Unpatched, body'.size)
  <2>1. code' = With(code, body.size, "BR", Unpatched, body'.size)
    BY <1>1, <1>2 DEF EmitBranch, After
  <2>. QED BY <1>2, <1>3, <1>4, <2>1, OneMore
<1> DEFINE h == body.size + 1
           items == Stmts(Top.stmt.then) \o <<rest>>
<1>6. Top.stmt.then \in Seq(Statements)
  BY TopType, TreeAssumption DEF WorkItem, IfStatements, WhileStatements, IsStmt
<1>7. /\ h - 1 \in DOMAIN code' /\ code'[h - 1].opcode = "BR" /\ code'[h - 1].next = h + 8
      /\ h > body.size /\ h \in Int /\ PosOf(rest).off = h
      /\ body'.block <= 1 => PosOf(rest).block = 1
  BY <1>1, <1>2, <1>3, <1>5 DEF Inst
<1>8. rest.item = "while_end" => rest.start_pos \in DOMAIN code' \cup {body'.size} /\ InCurrent(rest.start_pos)
  BY <1>5
<1>9. Replace(items)
  BY DEF EmitBranch
<1> HIDE DEF h
<1>10. /\ GoodItems(items, h) /\ \E j \in DOMAIN items : h \in HoleOf(items[j])
       /\ \A j \in DOMAIN items : items[j].item \in {"while", "while_end"} => InCurrent(items[j].start_pos)
  BY <1>6, <1>7, <1>8, <1>9, BodyItems
<1> HIDE DEF items
<1>11. h \in Holes'
  BY <1>10, NewHole
<1>12. GoodCode
  BY <1>5, <1>11 DEF GoodCode, Inst, h
<1>13. TopPatched /\ Others
  BY TopHasNoHole DEF EmitBranch, Others, EmitInv, EmitTypeOK
<1>14. StaysInside(items, h)
  <2>1. symbols' = symbols /\ body'.size >= body.size /\ h \in Int /\ h > body.size
    BY <1>1, <1>3, <1>7 DEF EmitBranch
  <2>2. \A p : p = body.size => Open(p)'
    BY <1>5, <1>11 DEF Open, Unpatched, Inst, h
  <2>3. \A p \in DOMAIN code' \ DOMAIN code : p = body.size
    BY <1>5
  <2>. QED BY <1>1, <1>10, <2>1, <2>2, <2>3 DEF StaysInside
<1>15. AddsOne("BR", Unpatched)
  BY <1>3, <1>5 DEF AddsOne
<1>. QED BY <1>5, <1>10, <1>12, <1>13, <1>14, <1>15, StepKeepsInv

LEMMA IfKeepsInv ==
    ASSUME EmitInv, EmitIf
    PROVE  EmitInv' /\ AddsOne("BR", Unpatched)
<1> DEFINE rest(moved) == [item |-> "if_else", stmt |-> Top.stmt, else_pos |-> HolePointer(body, moved)]
<1>1. PICK moved \in BodyMoves : EmitBranch(moved, rest(moved))
  BY DEF EmitIf
<1>2. work # <<>> /\ Top.item = "if"
  BY DEF EmitIf, Is
<1>3. Top.stmt \in IfStatements /\ HolePointer(body, moved) \in Pointer
  BY <1>2, TopType, BranchProperties, EmitAssumption DEF WorkItem
<1>4. /\ HasHole(rest(moved)) /\ rest(moved) \in WorkItem /\ rest(moved).item # "while_end"
      /\ PosOf(rest(moved)) = HolePointer(body, moved)
  BY <1>3 DEF HasHole, PosOf, WorkItem
<1>. QED BY <1>1, <1>2, <1>4, BranchKeepsInv

LEMMA WhileKeepsInv ==
    ASSUME EmitInv, EmitWhile
    PROVE  EmitInv' /\ AddsOne("BR", Unpatched)
<1> DEFINE rest(moved) == [item |-> "while_end", start_pos |-> Top.start_pos,
                           end_pos |-> HolePointer(body, moved)]
<1>1. PICK moved \in BodyMoves : EmitBranch(moved, rest(moved))
  BY DEF EmitWhile
<1>2. work # <<>> /\ Top.item = "while"
  BY DEF EmitWhile, Is
<1>3. Top.start_pos \in Nat /\ HolePointer(body, moved) \in Pointer
  BY <1>2, TopType, BranchProperties, EmitAssumption DEF WorkItem
<1>4. Top.start_pos \in DOMAIN code \cup {body.size} /\ InCurrent(Top.start_pos)
  BY <1>2, TopType DEF EmitInv, StartsKnown, InsideInv, OpenInCurrent
<1>5. /\ HasHole(rest(moved)) /\ rest(moved) \in WorkItem
      /\ rest(moved).start_pos \in DOMAIN code \cup {body.size} /\ InCurrent(rest(moved).start_pos)
      /\ PosOf(rest(moved)) = HolePointer(body, moved)
  BY <1>3, <1>4 DEF HasHole, PosOf, WorkItem
<1>. QED BY <1>1, <1>2, <1>5, BranchKeepsInv

(* The hole of the top item belongs to an emitted branch, and if the body  *)
(* is in its first block then so is the pointer to it.                     *)
LEMMA TopHole ==
    ASSUME EmitInv, work # <<>>, HasHole(Top)
    PROVE  /\ PosOf(Top).off \in Holes /\ HoleOf(Top) = {PosOf(Top).off}
           /\ PosOf(Top).off - 1 \in DOMAIN code /\ code[PosOf(Top).off - 1].opcode = "BR"
           /\ PosOf(Top) \in Pointer
           /\ body.block >= 1 /\ (body.block <= 1 => PosOf(Top).block = 1)
<1>1. /\ Top \in WorkItem /\ Roomy(body) /\ body.size \in Nat /\ body.block \in Nat
      /\ 1 \in DOMAIN work /\ Top = work[1]
  BY TopType
<1>2. HoleOf(Top) = {PosOf(Top).off}
  BY DEF HasHole, HoleOf, PosOf
<1>3. PosOf(Top).off \in Holes
  BY <1>1, <1>2 DEF Holes
<1>4. PosOf(Top).off - 1 \in DOMAIN code /\ code[PosOf(Top).off - 1].opcode = "BR"
  BY <1>3 DEF EmitInv, HolesAreBranches
<1>5. PosOf(Top) \in Pointer
  BY <1>1 DEF HasHole, PosOf, WorkItem
<1>6. body.block >= 1
  <2>1. DOMAIN code \subseteq 0..body.size-1
    BY DEF EmitInv, EmitTypeOK
  <2>. QED BY <1>1, <1>4, <2>1 DEF Roomy, Owned, Buffer
<1>7. body.block <= 1 => PosOf(Top).block = 1
  BY <1>1 DEF EmitInv, HolesInBlock
<1>. QED BY <1>2, <1>3, <1>4, <1>5, <1>6, <1>7

(* The body after LDI 1, which both ends of a body begin with.             *)
LEMMA LoadOne ==
    ASSUME EmitInv, work # <<>>, NEW moved \in BodyMoves,
           NEW b1, b1 = PushInst(body, OperandWidth("LDI", 1), moved)
    PROVE  /\ Roomy(b1) /\ b1.size \in Nat /\ b1.block \in Nat
           /\ b1.size > body.size /\ b1.block >= body.block
           /\ b1.size = After(body.size, OperandWidth("LDI", 1))
           /\ moved \in BOOLEAN
<1>1. moved \in BOOLEAN /\ OperandWidth("LDI", 1) \in 0..8
  BY EmitAssumption, WidthProperties
<1>2. /\ Roomy(b1) /\ b1.size = body.size + 1 + OperandWidth("LDI", 1)
      /\ b1.block >= body.block
  BY <1>1, TopType, PushInstProperties
<1>. QED BY <1>1, <1>2, TopType, SMTT(30) DEF Roomy, Buffer, After

LEMMA IfElseKeepsInv ==
    ASSUME EmitInv, EmitIfElse
    PROVE  EmitInv' /\ AddsTwo(Unpatched)
<1> DEFINE B1(moved) == PushInst(body, OperandWidth("LDI", 1), moved)
           ElseRest(moved) == [item |-> "if_end", end_pos |-> HolePointer(B1(moved), moved)]
<1>1. PICK moved \in BodyMoves :
        /\ body' = Branched(B1(moved), moved)
        /\ code' = Patch(With(With(code, body.size, "LDI", 1, After(body.size, OperandWidth("LDI", 1))),
                              B1(moved).size, "BR", Unpatched, After(B1(moved).size, 8)),
                         body', Top.else_pos)
        /\ Replace(Stmts(Top.stmt.else_) \o <<ElseRest(moved)>>)
  BY DEF EmitIfElse
<1> DEFINE b1 == B1(moved)
           rest == ElseRest(moved)
           h == b1.size + 1
           items == Stmts(Top.stmt.else_) \o <<rest>>
<1>2. work # <<>> /\ Top.item = "if_else" /\ UNCHANGED <<funcs, symbols, error>>
  BY DEF EmitIfElse, Is
<1>3. HasHole(Top) /\ PosOf(Top) = Top.else_pos
  BY <1>2 DEF HasHole, PosOf
<1>4. /\ Roomy(b1) /\ b1.size \in Nat /\ b1.block \in Nat
      /\ b1.size > body.size /\ b1.block >= body.block /\ moved \in BOOLEAN
      /\ b1.size = After(body.size, OperandWidth("LDI", 1))
  BY <1>2, LoadOne
<1>5. body' = Branched(b1, moved) /\ rest = [item |-> "if_end", end_pos |-> HolePointer(b1, moved)]
  BY <1>1
<1>6. /\ code' = Patch(With(With(code, body.size, "LDI", 1, After(body.size, OperandWidth("LDI", 1))),
                            b1.size, "BR", Unpatched, After(b1.size, 8)), body', Top.else_pos)
      /\ Replace(items)
  BY <1>1
<1> HIDE DEF b1, rest
<1>7. /\ Roomy(body') /\ body'.size = b1.size + 9 /\ body'.block >= b1.block /\ body'.block >= 1
      /\ HolePointer(b1, moved) = [block |-> body'.block, off |-> h]
      /\ HolePointer(b1, moved) \in Pointer
  BY <1>4, <1>5, BranchProperties
<1>8. body'.size \in Nat /\ body'.block \in Nat /\ body'.size > b1.size /\ Roomy(body)'
  BY <1>4, <1>7 DEF Roomy, Buffer, Owned
<1>9. /\ rest.item = "if_end" /\ HasHole(rest) /\ rest \in WorkItem
      /\ PosOf(rest) = [block |-> body'.block, off |-> h]
  BY <1>5, <1>7 DEF HasHole, PosOf, WorkItem
<1>10. Unpatched \in Nat
  BY WordAssumption DEF Unpatched
<1>11. /\ CodeGrows
       /\ DOMAIN code' = DOMAIN code \cup {body.size, b1.size}
       /\ code'[body.size] = Inst("LDI", 1, b1.size)
       /\ code'[b1.size] = Inst("BR", Unpatched, body'.size)
       /\ Top.else_pos.block = body'.block => code'[Top.else_pos.off - 1].operand = body'.size
  <2>1. Top.else_pos.off \in Holes /\ Top.else_pos \in Pointer /\ HoleOf(Top) = {Top.else_pos.off}
    BY <1>2, <1>3, TopHole
  <2>2. body'.size > b1.size /\ body'.block >= b1.block
    BY <1>7, <1>8
  <2>3. code' = Patch(With(With(code, body.size, "LDI", 1, b1.size),
                           b1.size, "BR", Unpatched, body'.size), body', Top.else_pos)
    <3>1. body'.size = After(b1.size, 8) /\ b1.size = After(body.size, OperandWidth("LDI", 1))
      BY <1>4, <1>7 DEF After
    <3>. QED BY <1>6, <3>1
  <2>4. /\ Roomy(b1) /\ b1.size > body.size /\ b1.block >= body.block /\ Roomy(body)'
    BY <1>4, <1>8
  <2> HIDE DEF items, h
  <2>. QED BY ONLY EmitInv, <1>10, <2>1, <2>2, <2>3, <2>4, TwoMore
<1>12. Top.stmt.else_ \in Seq(Statements)
  BY <1>2, TopType, TreeAssumption DEF WorkItem, IfStatements, IsStmt
<1>13. /\ h - 1 \in DOMAIN code' /\ code'[h - 1].opcode = "BR" /\ code'[h - 1].next = h + 8
       /\ h > body.size /\ h \in Int /\ PosOf(rest).off = h
       /\ body'.block <= 1 => PosOf(rest).block = 1
  <2>1. h - 1 = b1.size /\ body.size \in Nat
    BY <1>2, <1>4, TopType
  <2>. QED BY <1>4, <1>7, <1>8, <1>9, <1>11, <2>1 DEF Inst
<1> HIDE DEF h
<1>14. /\ GoodItems(items, h) /\ \E j \in DOMAIN items : h \in HoleOf(items[j])
       /\ \A j \in DOMAIN items : items[j].item \in {"while", "while_end"} => InCurrent(items[j].start_pos)
  BY <1>6, <1>9, <1>12, <1>13, BodyItems
<1> HIDE DEF items
<1>15. h \in Holes'
  BY <1>2, <1>14, NewHole
<1>16. GoodCode
  <2>1. b1.size + 1 \in Holes'
    BY <1>15 DEF h
  <2>. QED BY <1>11, <2>1 DEF GoodCode, Inst
<1>17. TopPatched
  <2>1. HoleOf(Top) = {Top.else_pos.off} /\ (body.block <= 1 => Top.else_pos.block = 1)
    BY <1>2, <1>3, TopHole
  <2>2. body'.block <= 1 => Top.else_pos.block = body'.block
    BY <1>2, <1>4, <1>7, <1>8, <2>1, TopType
  <2>3. \A p \in DOMAIN code : p + 1 \in HoleOf(Top) => p = Top.else_pos.off - 1
    BY <1>2, <1>3, <2>1, TopHole DEF EmitInv, EmitTypeOK, Pointer
  <2>. QED BY <1>11, <2>2, <2>3 DEF TopPatched
<1>18. Others
  BY <1>2 DEF Others, EmitInv, EmitTypeOK
<1>19. StaysInside(items, h)
  <2>1. symbols' = symbols /\ body.size \in Nat /\ body'.size >= body.size /\ h \in Int /\ h > body.size
    BY <1>2, <1>4, <1>8, <1>13, TopType
  <2>2. \A p : p = b1.size => Open(p)'
    BY <1>11, <1>15 DEF Open, Unpatched, Inst, h
  <2>3. \A p \in DOMAIN code' \ DOMAIN code : p >= body.size /\ (code'[p].opcode = "BR" => p = b1.size)
    BY <1>4, <1>11, <2>1 DEF Inst
  <2>. QED BY <1>2, <1>14, <2>1, <2>2, <2>3 DEF StaysInside
<1>20. AddsTwo(Unpatched)
  BY <1>4, <1>8, <1>11 DEF AddsTwo
<1>. QED BY <1>2, <1>11, <1>14, <1>16, <1>17, <1>18, <1>19, <1>20, StepKeepsInv

LEMMA IfEndKeepsInv ==
    ASSUME EmitInv, EmitIfEnd
    PROVE  EmitInv' /\ CodeGrows /\ DOMAIN code' = DOMAIN code
<1> DEFINE pos == Top.end_pos
           Code == [opcode : Opcode, operand : Nat, next : Nat]
<1>1. /\ work # <<>> /\ Top.item = "if_end" /\ UNCHANGED <<funcs, symbols, body, error>>
      /\ code' = Patch(code, body, pos) /\ Replace(<<>>)
  BY DEF EmitIfEnd, Is
<1>2. HasHole(Top) /\ PosOf(Top) = pos
  BY <1>1 DEF HasHole, PosOf
<1>3. /\ pos.off \in Holes /\ HoleOf(Top) = {pos.off} /\ pos \in Pointer
      /\ pos.off - 1 \in DOMAIN code /\ code[pos.off - 1].opcode = "BR"
      /\ body.block >= 1 /\ (body.block <= 1 => pos.block = 1)
  BY <1>1, <1>2, TopHole
<1> HIDE DEF pos
<1>4. body.size \in Nat /\ body.block \in Nat /\ Roomy(body)
  BY <1>1, TopType
<1>5. \A p \in DOMAIN code : code[p] \in Code
  BY DEF EmitInv, EmitTypeOK
<1>6. /\ DOMAIN code' = DOMAIN code
      /\ \A p \in DOMAIN code :
            /\ code'[p] \in Code /\ code'[p].opcode = code[p].opcode /\ code'[p].next = code[p].next
            /\ code'[p].operand # code[p].operand => code'[p].operand = body.size
      /\ pos.block = body.block => code'[pos.off - 1].operand = body.size
  <2>1. \A p \in DOMAIN code : code[p] \in [opcode : Opcode, operand : Nat, next : Nat]
    BY <1>5
  <2>2. body.size \in Nat /\ pos.off - 1 \in DOMAIN code /\ code[pos.off - 1].opcode = "BR"
    BY <1>3, <1>4
  <2>3. /\ DOMAIN Patch(code, body, pos) = DOMAIN code
        /\ \A p \in DOMAIN code :
              /\ Patch(code, body, pos)[p] \in [opcode : Opcode, operand : Nat, next : Nat]
              /\ Patch(code, body, pos)[p].opcode = code[p].opcode
              /\ Patch(code, body, pos)[p].next = code[p].next
              /\ Patch(code, body, pos)[p].operand # code[p].operand =>
                    Patch(code, body, pos)[p].operand = body.size
        /\ pos.block = body.block => Patch(code, body, pos)[pos.off - 1].operand = body.size
    BY ONLY <2>1, <2>2, PatchProperties
  <2>. QED BY <1>1, <2>3
<1>7. CodeGrows
  <2>1. DOMAIN code \subseteq 0..body.size-1
    BY DEF EmitInv, EmitTypeOK
  <2>2. Roomy(body)' /\ body' = body
    BY <1>1, <1>4 DEF Roomy, Owned
  <2>3. \A p \in DOMAIN code : code'[p].operand # code[p].operand => p = pos.off - 1
    <3>1. \A p \in DOMAIN code : p # pos.off - 1 => Patch(code, body, pos)[p] = code[p]
      BY <1>3, <1>4, <1>5, PatchProperties
    <3>. QED BY <1>1, <3>1
  <2>4. pos.off - 1 + 1 \in HoleOf(Top)
    BY <1>3 DEF Pointer
  <2>. QED BY <1>4, <1>6, <2>1, <2>2, <2>3, <2>4 DEF CodeGrows
<1>8. GoodCode
  BY <1>6 DEF GoodCode
<1>9. GoodItems(<<>>, -1)
  <2>1. Quiet(<<>>)
    BY EmptySeq DEF Quiet
  <2>. QED BY <1>1, <2>1, NoHoles
<1>10. TopPatched
  <2>1. \A p \in DOMAIN code : p + 1 \in HoleOf(Top) => p = pos.off - 1
    BY <1>3 DEF EmitInv, EmitTypeOK, Pointer
  <2>2. body.block <= 1 => pos.block = body.block
    BY <1>3, <1>4
  <2>. QED BY <1>1, <1>6, <2>1, <2>2 DEF TopPatched
<1>11. Others
  BY <1>1 DEF Others, EmitInv, EmitTypeOK
<1>12. StaysInside(<<>>, -1)
  <2>1. symbols' = symbols /\ body' = body /\ DOMAIN code' = DOMAIN code /\ DOMAIN <<>> = {}
    BY <1>1, <1>6, EmptySeq
  <2>. QED BY <1>1, <1>4, <2>1 DEF StaysInside
<1>. QED BY <1>1, <1>6, <1>7, <1>8, <1>9, <1>10, <1>11, <1>12, StepKeepsInv

LEMMA WhileEndKeepsInv ==
    ASSUME EmitInv, EmitWhileEnd
    PROVE  EmitInv' /\ AddsTwo(Top.start_pos)
<1> DEFINE B1(moved) == PushInst(body, OperandWidth("LDI", 1), moved)
           pos == Top.end_pos
           start == Top.start_pos
<1>1. PICK moved \in BodyMoves :
        /\ body' = PushInst(B1(moved), OperandWidth("BR", start), moved)
        /\ code' = Patch(With(With(code, body.size, "LDI", 1, After(body.size, OperandWidth("LDI", 1))),
                              B1(moved).size, "BR", start,
                              After(B1(moved).size, OperandWidth("BR", start))), body', pos)
        /\ Replace(<<>>)
  BY DEF EmitWhileEnd
<1>2. work # <<>> /\ Top.item = "while_end" /\ UNCHANGED <<funcs, symbols, error>>
  BY DEF EmitWhileEnd, Is
<1>3. HasHole(Top) /\ PosOf(Top) = pos
  BY <1>2 DEF HasHole, PosOf
<1>4. /\ pos.off \in Holes /\ HoleOf(Top) = {pos.off} /\ pos \in Pointer
      /\ body.block >= 1 /\ (body.block <= 1 => pos.block = 1)
  BY <1>2, <1>3, TopHole
<1>5. start \in Nat /\ start \in DOMAIN code \cup {body.size} /\ InCurrent(start)
  <2>1. start \in Nat
    BY <1>2, TopType DEF WorkItem
  <2>. QED BY <1>2, <2>1, TopType DEF EmitInv, StartsKnown, InsideInv, OpenInCurrent
<1> DEFINE b1 == B1(moved)
<1> HIDE DEF pos, start
<1>6. /\ Roomy(b1) /\ b1.size \in Nat /\ b1.block \in Nat
      /\ b1.size > body.size /\ b1.block >= body.block /\ moved \in BOOLEAN
      /\ b1.size = After(body.size, OperandWidth("LDI", 1))
  BY <1>2, LoadOne
<1>7. body' = PushInst(b1, OperandWidth("BR", start), moved) /\ Replace(<<>>)
  BY <1>1
<1>8. code' = Patch(With(With(code, body.size, "LDI", 1, After(body.size, OperandWidth("LDI", 1))),
                         b1.size, "BR", start, After(b1.size, OperandWidth("BR", start))),
                    body', pos)
  BY <1>1
<1> HIDE DEF b1
<1>9. /\ Roomy(body)' /\ body'.size > b1.size /\ body'.block >= b1.block
      /\ body'.size = After(b1.size, OperandWidth("BR", start))
      /\ body'.size \in Nat /\ body'.block \in Nat
  <2>1. OperandWidth("BR", start) \in 0..8
    BY WidthProperties
  <2>2. /\ Roomy(body') /\ body'.size = b1.size + 1 + OperandWidth("BR", start)
        /\ body'.block >= b1.block
    BY <1>6, <1>7, <2>1, PushInstProperties
  <2>. QED BY <1>6, <2>1, <2>2 DEF Roomy, Buffer, Owned, After
<1>10. /\ CodeGrows
       /\ DOMAIN code' = DOMAIN code \cup {body.size, b1.size}
       /\ code'[body.size] = Inst("LDI", 1, b1.size)
       /\ code'[b1.size] = Inst("BR", start, body'.size)
       /\ pos.block = body'.block => code'[pos.off - 1].operand = body'.size
  <2>1. start \in Nat /\ pos.off \in Holes /\ pos \in Pointer /\ HoleOf(Top) = {pos.off}
    BY <1>4, <1>5
  <2>2. Roomy(b1) /\ b1.size > body.size /\ b1.block >= body.block
    BY <1>6
  <2>3. Roomy(body)' /\ body'.size > b1.size /\ body'.block >= b1.block
    BY <1>9
  <2>4. code' = Patch(With(With(code, body.size, "LDI", 1, b1.size),
                           b1.size, "BR", start, body'.size), body', pos)
    BY <1>6, <1>8, <1>9
  <2>. QED BY ONLY EmitInv, <2>1, <2>2, <2>3, <2>4, TwoMore
<1>11. GoodCode
  BY <1>5, <1>10 DEF GoodCode, Inst, CodeGrows
<1>12. GoodItems(<<>>, -1)
  <2>1. Quiet(<<>>)
    BY EmptySeq DEF Quiet
  <2>. QED BY <1>7, <2>1, NoHoles
<1>13. TopPatched
  <2>1. \A p \in DOMAIN code : p + 1 \in HoleOf(Top) => p = pos.off - 1
    BY <1>4 DEF EmitInv, EmitTypeOK, Pointer
  <2>2. body'.block <= 1 => pos.block = body'.block
    BY <1>2, <1>4, <1>6, <1>9, TopType DEF Pointer
  <2>. QED BY <1>10, <2>1, <2>2 DEF TopPatched
<1>14. Others
  BY <1>2 DEF Others, EmitInv, EmitTypeOK
<1>15. StaysInside(<<>>, -1)
  <2>1. symbols' = symbols /\ body.size \in Nat /\ body'.size >= body.size /\ DOMAIN <<>> = {}
    BY <1>2, <1>6, <1>9, TopType, EmptySeq
  <2>2. \A p \in DOMAIN code' \ DOMAIN code :
          p >= body.size /\ (code'[p].opcode = "BR" => code'[p].operand = start)
    BY <1>6, <1>10, <2>1 DEF Inst
  <2>. QED BY <1>2, <1>5, <2>1, <2>2 DEF StaysInside
<1>16. AddsTwo(Top.start_pos)
  BY <1>6, <1>9, <1>10 DEF AddsTwo, start
<1>. QED BY <1>2, <1>10, <1>11, <1>12, <1>13, <1>14, <1>15, <1>16, StepKeepsInv

(* A new function begins with no hole left over from the one before it.    *)
LEMMA FuncKeepsInv == ASSUME EmitInv, EmitFunc PROVE EmitInv' /\ work' # <<>>
<1> DEFINE func == Head(funcs)
           stores == Prelude(func)
<1>1. /\ work = <<>> /\ funcs # <<>> /\ UNCHANGED <<body, code, error>>
      /\ symbols' = Append(symbols, [id |-> func.symbol_id, pos |-> body.size])
      /\ work' = stores \o Stmts(func.stmts) \o Epilogue
      /\ funcs' = Tail(funcs)
  BY DEF EmitFunc, FuncWith
<1>2. funcs \in Seq(Funcs) /\ symbols \in Seq(Symbol) /\ body.size \in Nat
  BY DEF EmitInv, EmitTypeOK, Buffer
<1>3. func \in Funcs /\ funcs' \in Seq(Funcs)
  BY <1>1, <1>2, HeadTailProperties
<1>4. /\ func.symbol_id \in Word /\ func.stmts \in Seq(Statements)
      /\ func.args \in Seq(Word)
  BY <1>3, TreeAssumption DEF IsFunc
<1> HIDE DEF func
<1>5. AllSimple(stores)
  <2>1. Len(func.args) \in Nat /\ DOMAIN func.args = 1..Len(func.args)
        /\ \A i \in 1..Len(func.args) : func.args[i] \in Word
    BY <1>4, LenProperties
  <2>2. "STL" \in Opcode \ {"BR"}
    BY DEF Opcode, WithOperand
  <2>3. stores \in [1..Len(func.args) -> WorkItem]
    BY <2>1, <2>2, ItemTypes DEF Prelude
  <2>4. stores \in Seq(WorkItem)
    BY <2>1, <2>3, FunctionIsSeq
  <2>. QED BY <2>4, SimpleItems DEF AllSimple, Prelude
<1>6. AllSimple(Epilogue)
  <2>1. "LDI" \in Opcode \ {"BR"} /\ 0 \in Word
    BY WordAssumption DEF Opcode, WithOperand, Word
  <2>2. AllSimple(<<InstItem("LDI", 0)>>) /\ AllSimple(<<Plain("RET")>>)
    BY <2>1, PlainTypes
  <2>3. Epilogue = <<InstItem("LDI", 0)>> \o <<Plain("RET")>>
    BY DEF Epilogue
  <2>. QED BY <2>2, <2>3, Joined
<1> HIDE DEF stores
<1>7. AllSimple(work')
  BY <1>1, <1>4, <1>5, <1>6, StmtsSimple, Joined
<1>8. /\ symbols' \in Seq(Symbol)
  <2>1. [id |-> func.symbol_id, pos |-> body.size] \in Symbol
    BY <1>2, <1>4 DEF Symbol, Word
  <2>. QED BY <1>1, <1>2, <2>1, AppendProperties
<1>9. EmitTypeOK' /\ Owned(body)'
  BY <1>1, <1>3, <1>7, <1>8 DEF EmitInv, EmitTypeOK, Owned, AllSimple
<1>10. \A j \in DOMAIN work' : HoleOf(work'[j]) = {} /\ ~HasHole(work'[j])
                               /\ work'[j].item \notin {"while", "while_end"}
  BY <1>7 DEF AllSimple, Simple, HoleOf, HasHole
<1>11. Holes' = {} /\ Holes = {}
  <2>1. Holes = {}
    BY <1>1, EmptySeq DEF Holes
  <2>2. Holes' = UNION {HoleOf(work'[i]) : i \in DOMAIN work'}
    BY DEF Holes, HoleOf
  <2>. QED BY <1>10, <2>1, <2>2
<1>12. Contiguous' /\ BranchesPatched'
  BY <1>1, <1>11 DEF EmitInv, Contiguous, BranchesPatched, Unpatched
<1>13. HolesAreBranches'
  <2>1. \A i, j \in DOMAIN work' : i # j => HoleOf(work'[i]) \cap HoleOf(work'[j]) = {}
    BY <1>10
  <2>. QED BY <1>11, <2>1 DEF HolesAreBranches, HoleOf
<1>14. HolesInBlock' /\ StartsKnown'
  BY <1>10 DEF HolesInBlock, StartsKnown, HasHole, PosOf
<1>15. symbols' = Append(symbols, [id |-> func.symbol_id, pos |-> body.size]) /\ Len(symbols) \in Nat
       /\ DOMAIN symbols = 1..Len(symbols) /\ InsideInv
  BY <1>1, <1>2 DEF EmitInv
<1>16. /\ DOMAIN symbols' = DOMAIN symbols \cup {Len(symbols) + 1} /\ symbols'[Len(symbols) + 1].pos = body.size
       /\ \A i \in DOMAIN symbols : symbols'[i] = symbols[i]
  BY <1>2, <1>15
<1>17. OpenInCurrent'
  <2>1. InCurrent(body.size)'
    BY <1>1, <1>2, <1>15, <1>16 DEF InsideInv, OpenInCurrent, InCurrent
  <2>2. \A off \in Holes' : InCurrent(off - 1)'
    BY <1>11
  <2>. QED BY <1>1, <1>10, <2>1, <2>2 DEF OpenInCurrent, InCurrent
<1>18. \A p : Open(p)' <=> Open(p)
  BY <1>1, <1>11 DEF Open, Unpatched
<1>19. BranchesInside'
  <2> SUFFICES ASSUME NEW p \in DOMAIN code, code[p].opcode = "BR", ~Open(p)
               PROVE  SameFunction(p, code[p].operand)'
    BY <1>1, <1>18 DEF BranchesInside, SameFunction
  <2>1. p \in 0..body.size-1 /\ code[p].operand \in 0..body.size-1
    BY <1>1, <1>15 DEF InsideInv, NoneBehind, EmitInv, BranchesPatched, EmitTypeOK, Open
  <2>2. SameFunction(p, code[p].operand)
    BY <1>15 DEF InsideInv, BranchesInside
  <2>3. \A i \in DOMAIN symbols' : symbols'[i].pos <= p <=> symbols'[i].pos <= code[p].operand
    BY <1>2, <1>16, <2>1, <2>2 DEF SameFunction
  <2>. QED BY <1>1, <2>3 DEF SameFunction
<1>20. ReturnComesLast' /\ NoneBehind' /\ work' # <<>>
  <2> DEFINE front == stores \o Stmts(func.stmts)
  <2>1. front \in Seq(WorkItem) /\ Epilogue \in Seq(WorkItem) /\ work' = front \o Epilogue
    BY <1>1, <1>4, <1>5, <1>6, StmtsSimple, Joined DEF AllSimple
  <2>2. Len(Epilogue) = 2 /\ Epilogue[2] = Plain("RET") /\ Plain("RET")' = Plain("RET")
    BY DEF Epilogue, Plain, InstItem
  <2> HIDE DEF front
  <2>3. Len(work') = Len(front) + 2 /\ work'[Len(front) + 2] = Epilogue[2] /\ Len(front) \in Nat
    <3>1. Len(front) \in Nat /\ Len(front \o Epilogue) = Len(front) + 2
      <4>1. Len(front) \in Nat
        BY <2>1, LenProperties
      <4>2. Len(front \o Epilogue) = Len(front) + Len(Epilogue)
        BY <2>1, ConcatProperties
      <4>. QED BY <2>2, <4>1, <4>2
    <3>2. Len(front) + 2 \in 1..Len(front \o Epilogue) /\ ~(Len(front) + 2 <= Len(front))
          /\ (Len(front) + 2) - Len(front) = 2
      BY <3>1
    <3>3. (front \o Epilogue)[Len(front) + 2] = Epilogue[2]
      BY <2>1, <3>2, ConcatProperties
    <3>. QED BY <2>1, <3>1, <3>3
  <2>4. work' # <<>>
    BY <2>1, <2>3, EmptySeq
  <2>. QED BY <2>2, <2>3, <2>4 DEF ReturnComesLast, NoneBehind
<1>. QED BY <1>9, <1>12, <1>13, <1>14, <1>17, <1>19, <1>20 DEF EmitInv, InsideInv

-----------------------------------------------------------------------------
LEMMA EmitInitInv == EmitInit => EmitInv
<1> SUFFICES ASSUME EmitInit PROVE EmitInv
  OBVIOUS
<1>1. /\ funcs \in Seq(Funcs) /\ work = <<>> /\ symbols = <<>> /\ code = <<>>
      /\ body = [size |-> 0, capacity |-> 0, block |-> 0] /\ error = "none"
  BY TreeAssumption DEF EmitInit, EmptyBuffer
<1>2. DOMAIN code = {} /\ DOMAIN work = {}
  BY <1>1, EmptySeq
<1>3. EmitTypeOK /\ Owned(body)
  BY <1>1, <1>2, EmptySeq DEF EmitTypeOK, Buffer, Owned
<1>4. Holes = {}
  BY <1>2 DEF Holes
<1>5. Contiguous /\ HolesAreBranches /\ BranchesPatched
  BY <1>2, <1>4 DEF Contiguous, HolesAreBranches, BranchesPatched
<1>6. HolesInBlock /\ StartsKnown
  BY <1>2 DEF HolesInBlock, StartsKnown
<1>7. InsideInv
  <2>1. DOMAIN symbols = {}
    BY <1>1, EmptySeq
  <2>. QED BY <1>1, <1>2, <1>4, <2>1
           DEF InsideInv, OpenInCurrent, InCurrent, BranchesInside, ReturnComesLast, NoneBehind
<1>. QED BY <1>3, <1>5, <1>6, <1>7 DEF EmitInv

LEMMA EmitStepInv == EmitInv /\ [EmitNext]_emitVars => EmitInv'
<1> SUFFICES ASSUME EmitInv, [EmitNext]_emitVars PROVE EmitInv'
  OBVIOUS
<1>1. CASE EmitInst       BY <1>1, InstKeepsInv
<1>2. CASE EmitExpr       BY <1>2, ExprKeepsInv
<1>3. CASE EmitBadAssign  BY <1>3, BadAssignKeepsInv
<1>4. CASE EmitStmt       BY <1>4, StmtKeepsInv
<1>5. CASE EmitCondition  BY <1>5, ConditionKeepsInv
<1>6. CASE EmitIf         BY <1>6, IfKeepsInv
<1>7. CASE EmitWhile      BY <1>7, WhileKeepsInv
<1>8. CASE EmitIfElse     BY <1>8, IfElseKeepsInv
<1>9. CASE EmitIfEnd      BY <1>9, IfEndKeepsInv
<1>10. CASE EmitWhileEnd  BY <1>10, WhileEndKeepsInv
<1>11. CASE EmitFunc      BY <1>11, FuncKeepsInv
<1>12. CASE UNCHANGED emitVars
  <2>1. UNCHANGED <<funcs, work, symbols, body, code, error>>
    BY <1>12 DEF emitVars
  <2>2. EmitTypeOK' /\ Owned(body)'
    BY <2>1 DEF EmitInv, EmitTypeOK, Owned
  <2>3. Holes' = Holes /\ Contiguous' /\ StartsKnown'
    BY <2>1 DEF EmitInv, Holes, HoleOf, Contiguous, StartsKnown
  <2>4. HolesAreBranches'
    <3>1. HolesAreBranches /\ work' = work /\ code' = code
      BY <2>1 DEF EmitInv
    <3>2. \A i, j \in DOMAIN work' : i # j => HoleOf(work'[i]) \cap HoleOf(work'[j]) = {}
      BY <3>1 DEF HolesAreBranches
    <3>3. \A off \in Holes' : /\ off - 1 \in DOMAIN code' /\ code'[off - 1].opcode = "BR"
                              /\ code'[off - 1].next = off + 8
      BY <2>3, <3>1 DEF HolesAreBranches
    <3>. QED BY <3>2, <3>3 DEF HolesAreBranches, HoleOf
  <2>5. BranchesPatched'
    BY <2>1, <2>3 DEF EmitInv, BranchesPatched, Unpatched
  <2>6. HolesInBlock'
    BY <2>1 DEF EmitInv, HolesInBlock, HasHole, PosOf
  <2>. QED BY <2>1, <2>2, <2>3, <2>4, <2>5, <2>6, InsideKept DEF EmitInv
<1>. QED BY <1>1, <1>2, <1>3, <1>4, <1>5, <1>6, <1>7, <1>8, <1>9, <1>10, <1>11, <1>12
         DEF EmitNext

LEMMA EmitInvariant == EmitSpec => []EmitInv
BY EmitInitInv, EmitStepInv, PTL DEF EmitSpec

(* Whatever tree dk_emit_tree is given and however the body grows, its     *)
(* state has the expected shape and no instruction lies beyond its end.    *)
THEOREM EmitterTypeCorrect == EmitSpec => []EmitTypeOK
<1>1. EmitInv => EmitTypeOK
  BY DEF EmitInv
<1>. QED BY <1>1, EmitInvariant, PTL

(* The instructions dk_emit_inst1 and dk_emit_inst2 push lie end to end,   *)
(* for every operand size, so decoding never starts inside one.            *)
THEOREM CodeIsContiguous == EmitSpec => []Contiguous
<1>1. EmitInv => Contiguous
  BY DEF EmitInv
<1>. QED BY <1>1, EmitInvariant, PTL

(* However deep IFs and WHILEs nest, every else_pos and end_pos that       *)
(* dk_emit_stmt_list still holds is the operand of an emitted branch, and  *)
(* no two of them are the same.                                            *)
THEOREM HolesAreKept == EmitSpec => []HolesAreBranches
<1>1. EmitInv => HolesAreBranches
  BY DEF EmitInv
<1>. QED BY <1>1, EmitInvariant, PTL

(* Every branch dk_emit_stmt_list emitted goes to the beginning of an      *)
(* instruction or to the end of the body, and none is left unpatched       *)
(* unless the body moved.                                                  *)
THEOREM BranchesArePatched == EmitSpec => []BranchesPatched
<1>1. EmitInv => BranchesPatched
  BY DEF EmitInv
<1>. QED BY <1>1, EmitInvariant, PTL
(* Every branch of an emitted program, the one over an empty else part at  *)
(* the end of a function too, goes to an instruction of its own function:  *)
(* dk_emit_stmt_list patches it to the end of the body, and the epilogue   *)
(* of dk_emit_tree is emitted there.  It is said of the programs whose     *)
(* body never moved; in the others branches may be left unpatched.         *)
THEOREM BranchesAreInside == EmitSpec => []BranchesStayInside
<1>1. EmitInv => BranchesStayInside
  <2> SUFFICES ASSUME EmitInv, work = <<>>, body.block <= 1, NEW p \in DOMAIN code, code[p].opcode = "BR"
               PROVE  code[p].operand \in DOMAIN code /\ SameFunction(p, code[p].operand)
    BY DEF BranchesStayInside, Emitted
  <2>1. Holes = {}
    BY EmptySeq DEF Holes
  <2>2. ~Open(p)
    BY <2>1 DEF Open
  <2>3. SameFunction(p, code[p].operand) /\ code[p].operand # body.size
    BY <2>2 DEF EmitInv, InsideInv, BranchesInside, NoneBehind
  <2>. QED BY <2>1, <2>3 DEF EmitInv, BranchesPatched
<1>. QED BY <1>1, EmitInvariant, PTL

-----------------------------------------------------------------------------
(* The depth of the data stack.  As long as the body stays in place, every *)
(* position has one: the words that the activation running there has on    *)
(* the data stack, by whatever path it came.  The work still to be emitted *)
(* carries the depth at the end of the body to 0, where the next function  *)
(* begins; zeros are the positions where a branch may go.                  *)
ItemShifts(n, zeros, w, a, b) ==
    \/ w.item = "inst" /\ Shifts(n, w.opcode, w.operand, a, b)
    \/ w.item = "expr" /\ w.expr \in n.exprs /\ b = a + 1
    \/ w.item \in {"stmt", "if_else"} /\ w.stmt \in n.stmts /\ a = 0 /\ b = 0
    \/ w.item \in {"if", "while"} /\ w.stmt \in n.stmts /\ a = 1 /\ b = 0
       /\ (w.item = "while" => w.start_pos \in zeros)
    \/ w.item = "if_end" /\ a = 0 /\ b = 0
    \/ w.item = "while_end" /\ w.start_pos \in zeros /\ a = 0 /\ b = 0

Along(n, zeros, items, h) ==
    \A i \in 1..Len(items) : ItemShifts(n, zeros, items[i], h[i], h[i + 1])

Carries(n, zeros, items, a, b) ==
    \E h \in [1..Len(items) + 1 -> Nat] :
        h[1] = a /\ h[Len(items) + 1] = b /\ Along(n, zeros, items, h)

LEMMA CarriesNone ==
    ASSUME NEW n, NEW zeros, NEW a \in Nat
    PROVE  Carries(n, zeros, <<>>, a, a)
<1> DEFINE h == [i \in 1..1 |-> a]
<1>1. Len(<<>>) = 0 /\ h \in [1..Len(<<>>) + 1 -> Nat] /\ h[1] = a
  OBVIOUS
<1>2. Along(n, zeros, <<>>, h)
  BY <1>1 DEF Along
<1> HIDE DEF h
<1>. QED BY <1>1, <1>2 DEF Carries

LEMMA CarriesOne ==
    ASSUME NEW n, NEW zeros, NEW w, NEW a \in Nat, NEW b \in Nat, ItemShifts(n, zeros, w, a, b)
    PROVE  Carries(n, zeros, <<w>>, a, b)
<1> DEFINE h == [i \in 1..2 |-> IF i = 1 THEN a ELSE b]
<1>1. Len(<<w>>) = 1 /\ <<w>>[1] = w /\ h \in [1..2 -> Nat] /\ h[1] = a /\ h[2] = b
  OBVIOUS
<1> HIDE DEF h
<1>2. Along(n, zeros, <<w>>, h)
  BY <1>1 DEF Along
<1>. QED BY <1>1, <1>2 DEF Carries

LEMMA CarriesJoin ==
    ASSUME NEW n, NEW zeros, NEW S, NEW s \in Seq(S), NEW t \in Seq(S),
           NEW a \in Nat, NEW b \in Nat, NEW c \in Nat,
           Carries(n, zeros, s, a, b), Carries(n, zeros, t, b, c)
    PROVE  Carries(n, zeros, s \o t, a, c)
<1>1. PICK f \in [1..Len(s) + 1 -> Nat] :
         f[1] = a /\ f[Len(s) + 1] = b /\ Along(n, zeros, s, f)
  BY DEF Carries
<1>2. PICK g \in [1..Len(t) + 1 -> Nat] :
         g[1] = b /\ g[Len(t) + 1] = c /\ Along(n, zeros, t, g)
  BY DEF Carries
<1>3. Len(s) \in Nat /\ Len(t) \in Nat /\ Len(s \o t) = Len(s) + Len(t)
      /\ \A i \in 1..Len(s \o t) : (s \o t)[i] = IF i <= Len(s) THEN s[i] ELSE t[i - Len(s)]
  BY LenProperties, ConcatProperties
<1> DEFINE k == Len(s)
           m == Len(t)
           h == [i \in 1..k + m + 1 |-> IF i <= k THEN f[i] ELSE g[i - k]]
<1>4. h \in [1..k + m + 1 -> Nat]
  BY <1>1, <1>2, <1>3
<1>5. \A i \in 1..k + 1 : h[i] = f[i]
  <2>1. h[k + 1] = g[1]
    BY <1>3
  <2>2. \A i \in 1..k : h[i] = f[i]
    BY <1>3
  <2>. QED BY <1>1, <1>2, <1>3, <2>1, <2>2
<1>6. \A i \in 1..m + 1 : h[k + i] = g[i]
  BY <1>3
<1> HIDE DEF h
<1>7. h[1] = a /\ h[k + m + 1] = c
  <2>1. h[k + (m + 1)] = g[m + 1] /\ k + (m + 1) = k + m + 1
    BY <1>3, <1>6
  <2>. QED BY <1>1, <1>2, <1>3, <1>5, <2>1
<1>8. ASSUME NEW i \in 1..k + m
      PROVE  ItemShifts(n, zeros, (s \o t)[i], h[i], h[i + 1])
  <2>1. CASE i <= k
    <3>1. h[i] = f[i] /\ h[i + 1] = f[i + 1] /\ (s \o t)[i] = s[i] /\ i \in 1..Len(s)
      BY <1>3, <1>5, <2>1
    <3>. QED BY <1>1, <3>1 DEF Along
  <2>2. CASE i > k
    <3>1. i - k \in 1..m /\ (s \o t)[i] = t[i - k]
      BY <1>3, <2>2
    <3>2. h[k + (i - k)] = g[i - k] /\ h[k + ((i - k) + 1)] = g[(i - k) + 1]
      BY <1>3, <1>6, <3>1
    <3>3. k + (i - k) = i /\ k + ((i - k) + 1) = i + 1
      BY <1>3
    <3>. QED BY <1>2, <3>1, <3>2, <3>3 DEF Along
  <2>. QED BY <1>3, <2>1, <2>2
<1>9. Along(n, zeros, s \o t, h)
  BY <1>3, <1>8 DEF Along
<1>. QED BY <1>3, <1>4, <1>7, <1>9 DEF Carries

LEMMA CarriesTop ==
    ASSUME NEW n, NEW zeros, NEW S, NEW s \in Seq(S), s # <<>>, NEW a, NEW c, Carries(n, zeros, s, a, c)
    PROVE  \E b \in Nat : ItemShifts(n, zeros, Head(s), a, b) /\ Carries(n, zeros, Tail(s), b, c)
<1>1. PICK f \in [1..Len(s) + 1 -> Nat] :
         f[1] = a /\ f[Len(s) + 1] = c /\ Along(n, zeros, s, f)
  BY DEF Carries
<1>2. /\ Len(s) \in Nat /\ Len(s) >= 1 /\ Head(s) = s[1]
      /\ Len(Tail(s)) = Len(s) - 1 /\ \A i \in 1..Len(Tail(s)) : Tail(s)[i] = s[i + 1]
  BY LenProperties, EmptySeq, HeadTailProperties
<1> DEFINE m == Len(s) - 1
           h == [i \in 1..m + 1 |-> f[i + 1]]
<1>3. h \in [1..m + 1 -> Nat] /\ h[1] = f[2] /\ h[m + 1] = c
  BY <1>1, <1>2
<1>4. \A i \in 1..m + 1 : h[i] = f[i + 1]
  OBVIOUS
<1> HIDE DEF h
<1>5. ASSUME NEW i \in 1..m
      PROVE  ItemShifts(n, zeros, Tail(s)[i], h[i], h[i + 1])
  <2>1. i + 1 \in 1..Len(s) /\ h[i] = f[i + 1] /\ h[i + 1] = f[(i + 1) + 1] /\ Tail(s)[i] = s[i + 1]
    BY <1>2, <1>4
  <2>. QED BY <1>1, <2>1 DEF Along
<1>6. Carries(n, zeros, Tail(s), f[2], c)
  <2>1. Along(n, zeros, Tail(s), h)
    BY <1>2, <1>5 DEF Along
  <2>. QED BY <1>2, <1>3, <2>1 DEF Carries
<1>7. ItemShifts(n, zeros, Head(s), a, f[2]) /\ f[2] \in Nat
  BY <1>1, <1>2 DEF Along
<1>. QED BY <1>6, <1>7

(* More places where a branch may go do no harm.                           *)
LEMMA CarriesMore ==
    ASSUME NEW n, NEW zeros, NEW more, zeros \subseteq more, NEW items, NEW a, NEW b,
           Carries(n, zeros, items, a, b)
    PROVE  Carries(n, more, items, a, b)
<1>1. \A w, x, y : ItemShifts(n, zeros, w, x, y) => ItemShifts(n, more, w, x, y)
  BY DEF ItemShifts
<1>. QED BY <1>1 DEF Carries, Along

(* What the items do that an action puts on the work stack.                *)
LEMMA ItemsShift ==
    ASSUME NEW n, NEW zeros, NEW a, NEW b
    PROVE  /\ \A op, k : Shifts(n, op, k, a, b) => ItemShifts(n, zeros, InstItem(op, k), a, b)
           /\ \A e \in n.exprs : b = a + 1 => ItemShifts(n, zeros, ExprItem(e), a, b)
           /\ \A s \in n.stmts : a = 0 /\ b = 0 => ItemShifts(n, zeros, StmtItem(s), a, b)
BY DEF ItemShifts, InstItem, ExprItem, StmtItem

LEMMA CarriesStmts ==
    ASSUME NEW n, NEW zeros, NEW ss \in Seq(Statements), Range(ss) \subseteq n.stmts
    PROVE  Carries(n, zeros, Stmts(ss), 0, 0)
<1> DEFINE h == [i \in 1..Len(ss) + 1 |-> 0]
<1>1. Len(ss) \in Nat /\ DOMAIN ss = 1..Len(ss) /\ Len(Stmts(ss)) = Len(ss)
  BY LenProperties, ItemTypes
<1>2. h \in [1..Len(ss) + 1 -> Nat] /\ \A i \in 1..Len(ss) + 1 : h[i] = 0
  OBVIOUS
<1>3. \A i \in 1..Len(ss) : Stmts(ss)[i] = StmtItem(ss[i]) /\ ss[i] \in n.stmts
  BY <1>1 DEF Stmts, Range
<1> HIDE DEF h
<1>4. ASSUME NEW i \in 1..Len(ss)
      PROVE  ItemShifts(n, zeros, Stmts(ss)[i], h[i], h[i + 1])
  <2>1. h[i] = 0 /\ h[i + 1] = 0
    BY <1>1, <1>2
  <2>. QED BY <1>3, <2>1, ItemsShift
<1>5. Along(n, zeros, Stmts(ss), h) /\ h[1] = 0 /\ h[Len(ss) + 1] = 0
  BY <1>1, <1>2, <1>4 DEF Along
<1>. QED BY <1>1, <1>2, <1>5 DEF Carries

LEMMA CarriesArgs ==
    ASSUME NEW n, NEW zeros, NEW es \in Seq(Exprs), Range(es) \subseteq n.exprs, NEW a \in Nat
    PROVE  Carries(n, zeros, [i \in DOMAIN es |-> ExprItem(es[i])], a, a + Len(es))
<1> DEFINE k == Len(es)
           items == [i \in DOMAIN es |-> ExprItem(es[i])]
           h == [i \in 1..k + 1 |-> a + i - 1]
<1>1. k \in Nat /\ DOMAIN es = 1..k
  BY LenProperties
<1>2. h \in [1..k + 1 -> Nat] /\ \A i \in 1..k + 1 : h[i] = a + i - 1
  BY <1>1
<1>3. \A i \in 1..k : items[i] = ExprItem(es[i]) /\ es[i] \in n.exprs
  BY <1>1 DEF Range
<1>4. Len(items) = k
  BY <1>1
<1> HIDE DEF h, items
<1>5. ASSUME NEW i \in 1..k
      PROVE  ItemShifts(n, zeros, items[i], h[i], h[i + 1])
  <2>1. h[i + 1] = h[i] + 1
    BY <1>1, <1>2
  <2>. QED BY <1>3, <2>1, ItemsShift
<1>6. Along(n, zeros, items, h) /\ h[1] = a /\ h[k + 1] = a + k
  BY <1>1, <1>2, <1>4, <1>5 DEF Along
<1>7. Carries(n, zeros, items, a, a + k)
  BY <1>2, <1>4, <1>6 DEF Carries
<1>. QED BY <1>7 DEF items

LEMMA CarriesPrelude ==
    ASSUME NEW n, NEW zeros, NEW func, func.args \in Seq(Word), Range(func.args) \subseteq n.locals
    PROVE  Carries(n, zeros, Prelude(func), Len(func.args), 0)
<1> DEFINE k == Len(func.args)
           h == [i \in 1..k + 1 |-> k + 1 - i]
<1>1. k \in Nat /\ DOMAIN func.args = 1..k
  BY LenProperties
<1>2. h \in [1..k + 1 -> Nat] /\ \A i \in 1..k + 1 : h[i] = k + 1 - i
  BY <1>1
<1>3. \A i \in 1..k : Prelude(func)[i] = InstItem("STL", func.args[i]) /\ func.args[i] \in n.locals
  BY <1>1 DEF Range, Prelude
<1>4. Len(Prelude(func)) = k
  BY <1>1 DEF Prelude
<1> HIDE DEF h
<1>5. ASSUME NEW i \in 1..k
      PROVE  ItemShifts(n, zeros, Prelude(func)[i], h[i], h[i + 1])
  <2>1. h[i + 1] = h[i] - 1 /\ h[i] >= 1
    BY <1>1, <1>2
  <2>2. Shifts(n, "STL", func.args[i], h[i], h[i + 1])
    BY <1>3, <2>1 DEF Shifts
  <2>. QED BY <1>3, <2>2, ItemsShift
<1>6. Along(n, zeros, Prelude(func), h) /\ h[1] = k /\ h[k + 1] = 0
  BY <1>1, <1>2, <1>4, <1>5 DEF Along
<1>. QED BY <1>2, <1>4, <1>6 DEF Carries

LEMMA CarriesTwo ==
    ASSUME NEW n, NEW zeros, NEW v \in WorkItem, NEW w \in WorkItem,
           NEW a \in Nat, NEW b \in Nat, NEW c \in Nat,
           ItemShifts(n, zeros, v, a, b), ItemShifts(n, zeros, w, b, c)
    PROVE  Carries(n, zeros, <<v>> \o <<w>>, a, c)
<1>1. Carries(n, zeros, <<v>>, a, b) /\ Carries(n, zeros, <<w>>, b, c)
  BY CarriesOne
<1>2. <<v>> \in Seq(WorkItem) /\ <<w>> \in Seq(WorkItem)
  OBVIOUS
<1>. QED BY <1>1, <1>2, CarriesJoin

(* What an expression expands into leaves one word more.                   *)
LEMMA CarriesExpansion ==
    ASSUME NEW n, Fits(n), NEW zeros, NEW e \in n.exprs, NEW a \in Nat,
           e.kind = "assign" => Last(e.args).kind = "local"
    PROVE  Carries(n, zeros, Expand(e), a, a + 1)
<1>1. IsExpr(e) /\ ExprFits(n, e) /\ n.exprs \subseteq Exprs /\ n.opcodes \subseteq BinOps \cup UnOps
  BY TreeAssumption DEF Fits
<1>2. \A l \in Exprs : l.kind = "local" => l.off \in Word
  BY TreeAssumption DEF IsExpr
<1>3. {"LDI", "LDL", "STL", "CALL"} \subseteq Opcode \ {"BR"} /\ 0 \in Word
  BY WordAssumption DEF Opcode, WithOperand, Word
<1>4. CASE e.kind = "literal"
  <2>1. Expand(e) = <<InstItem("LDI", e.value)>> /\ Shifts(n, "LDI", e.value, a, a + 1)
    BY <1>4 DEF Expand, Shifts
  <2>. QED BY <2>1, ItemsShift, CarriesOne, SMTT(30)
<1>5. CASE e.kind = "local"
  <2>1. Expand(e) = <<InstItem("LDL", e.off)>> /\ Shifts(n, "LDL", e.off, a, a + 1)
    BY <1>1, <1>5 DEF Expand, Shifts, ExprFits
  <2>2. ItemShifts(n, zeros, InstItem("LDL", e.off), a, a + 1)
    BY <2>1, ItemsShift
  <2>3. a + 1 \in Nat
    OBVIOUS
  <2>. QED BY <2>1, <2>2, <2>3, CarriesOne
<1>6. CASE e.kind = "func"
  <2> DEFINE k == Len(e.args)
             call == IF e.op.kind = "opcode" THEN Plain(e.op.opcode)
                     ELSE InstItem("CALL", e.op.symbol_id)
             args == [i \in DOMAIN e.args |-> ExprItem(e.args[i])]
  <2>1. e.args \in Seq(Exprs) /\ k \in Nat /\ Range(e.args) \subseteq n.exprs /\ OpFits(n, e)
    <3>1. e.args \in Seq(Exprs) /\ Range(e.args) \subseteq n.exprs /\ OpFits(n, e)
      BY <1>1, <1>6 DEF IsExpr, ExprFits
    <3>. QED BY <3>1, LenProperties
  <2>2. call \in WorkItem /\ ItemShifts(n, zeros, call, a + k, a + 1)
    <3>1. CASE e.op.kind = "opcode"
      <4>1. e.op.opcode \in n.opcodes /\ k = (IF e.op.opcode \in BinOps THEN 2 ELSE 1)
        BY <2>1, <3>1 DEF OpFits
      <4>2. e.op.opcode \in Opcode \ {"BR"}
        BY <1>1, <1>6, <3>1 DEF IsExpr, WithOperand
      <4>3. Shifts(n, e.op.opcode, 0, a + k, a + 1)
        <5>1. CASE e.op.opcode \in BinOps
          BY <4>1, <5>1 DEF Shifts
        <5>2. CASE e.op.opcode \notin BinOps
          <6>1. e.op.opcode \in UnOps /\ k = 1
            BY <1>1, <4>1, <5>2
          <6>. QED BY <4>1, <6>1 DEF Shifts
        <5>. QED BY <5>1, <5>2
      <4>4. call = InstItem(e.op.opcode, 0)
        BY <3>1 DEF Plain
      <4>. QED BY <1>3, <4>2, <4>3, <4>4, ItemsShift, ItemTypes
    <3>2. CASE e.op.kind # "opcode"
      <4>1. e.op.symbol_id \in Word /\ Takes(n.tree, e.op.symbol_id, k)
        BY <1>1, <1>6, <2>1, <3>2 DEF IsExpr, OpFits
      <4>2. (a + k) + 1 - (a + 1) = k /\ a + 1 >= 1
        <5>1. \A x \in Nat : (a + x) + 1 - (a + 1) = x
          OBVIOUS
        <5>2. a + 1 >= 1
          OBVIOUS
        <5>3. k \in Nat
          BY <2>1
        <5> HIDE DEF k
        <5>. QED BY <5>1, <5>2, <5>3
      <4>3. Shifts(n, "CALL", e.op.symbol_id, a + k, a + 1)
        BY <4>1, <4>2 DEF Shifts
      <4>4. call = InstItem("CALL", e.op.symbol_id)
        BY <3>2
      <4>. QED BY <1>3, <4>1, <4>3, <4>4, ItemsShift, ItemTypes
    <3>. QED BY <3>1, <3>2
  <2>3. Expand(e) = args \o <<call>>
    BY <1>6 DEF Expand
  <2>4. args \in Seq(WorkItem) /\ Carries(n, zeros, args, a, a + k)
    BY <2>1, ArgsSimple, CarriesArgs DEF AllSimple
  <2> HIDE DEF args, call
  <2>5. Carries(n, zeros, <<call>>, a + k, a + 1) /\ <<call>> \in Seq(WorkItem)
    BY <2>1, <2>2, CarriesOne
  <2>6. a + k \in Nat /\ a + 1 \in Nat
    BY <2>1
  <2>. QED BY <2>3, <2>4, <2>5, <2>6, CarriesJoin
<1>7. CASE e.kind = "list"
  <2> DEFINE k == 2 * Len(e.exprs) - 1
             w(i) == IF i % 2 = 1 THEN ExprItem(e.exprs[(i + 1) \div 2]) ELSE Plain("POP")
             items == [i \in 1..k |-> w(i)]
             h == [i \in 1..k + 1 |-> IF i % 2 = 1 THEN a ELSE a + 1]
  <2>1. Len(e.exprs) \in Nat /\ Len(e.exprs) > 0 /\ \A i \in 1..Len(e.exprs) : e.exprs[i] \in n.exprs
    <3>1. e.exprs \in Seq(Exprs) /\ e.exprs # <<>> /\ Range(e.exprs) \subseteq n.exprs
      BY <1>1, <1>7 DEF IsExpr, ExprFits
    <3>2. DOMAIN e.exprs = 1..Len(e.exprs) /\ Len(e.exprs) \in Nat /\ Len(e.exprs) > 0
      BY <3>1, EmptySeq, LenProperties
    <3>. QED BY <3>1, <3>2 DEF Range
  <2>2. k \in Nat /\ k >= 1 /\ k % 2 = 1 /\ (k + 1) % 2 = 0
        /\ \A i \in 1..k : i % 2 = 1 => (i + 1) \div 2 \in 1..Len(e.exprs)
    <3>1. \A m \in Nat : m > 0 =>
            /\ 2 * m - 1 \in Nat /\ 2 * m - 1 >= 1 /\ (2 * m - 1) % 2 = 1 /\ (2 * m - 1 + 1) % 2 = 0
            /\ \A i \in 1..2 * m - 1 : i % 2 = 1 => (i + 1) \div 2 \in 1..m
      OBVIOUS
    <3>. QED BY <2>1, <3>1
  <2>3. Expand(e) = items /\ Len(items) = k /\ \A i \in 1..k : items[i] = w(i)
    BY <1>7, <2>2 DEF Expand
  <2>4. h \in [1..k + 1 -> Nat] /\ \A i \in 1..k + 1 : h[i] = IF i % 2 = 1 THEN a ELSE a + 1
    OBVIOUS
  <2> HIDE DEF h, k, items
  <2>5. ASSUME NEW i \in 1..k
        PROVE  ItemShifts(n, zeros, items[i], h[i], h[i + 1])
    <3>1. i \in 1..k + 1 /\ i + 1 \in 1..k + 1
      BY <2>2
    <3>2. CASE i % 2 = 1
      <4>1. (i + 1) % 2 = 0
        BY <2>2, <3>2
      <4>2. h[i] = a /\ h[i + 1] = a + 1 /\ items[i] = ExprItem(e.exprs[(i + 1) \div 2])
        BY <2>3, <2>4, <3>1, <3>2, <4>1
      <4>. QED BY <2>1, <2>2, <3>2, <4>2, ItemsShift
    <3>3. CASE i % 2 # 1
      <4>1. (i + 1) % 2 = 1
        BY <2>2, <3>3
      <4>2. h[i] = a + 1 /\ h[i + 1] = a /\ items[i] = InstItem("POP", 0)
        BY <2>3, <2>4, <3>1, <3>3, <4>1 DEF Plain
      <4>3. Shifts(n, "POP", 0, a + 1, a)
        BY DEF Shifts
      <4>. QED BY <4>2, <4>3, ItemsShift
    <3>. QED BY <3>2, <3>3
  <2>6. h[1] = a /\ h[k + 1] = a + 1 /\ Along(n, zeros, items, h)
    <3>1. 1 \in 1..k + 1 /\ k + 1 \in 1..k + 1 /\ 1 % 2 = 1
      BY <2>2
    <3>. QED BY <2>2, <2>3, <2>4, <2>5, <3>1 DEF Along
  <2>. QED BY <2>3, <2>4, <2>6 DEF Carries
<1>8. CASE e.kind = "assign"
  <2>1. /\ e.args \in Seq(Exprs) /\ e.args[1] \in n.exprs /\ e.args[2] \in n.exprs
        /\ Last(e.args) = e.args[2]
    <3>1. e.args \in Seq(Exprs) /\ Len(e.args) = 2 /\ Range(e.args) \subseteq n.exprs
      BY <1>1, <1>8 DEF IsExpr, ExprFits
    <3>2. DOMAIN e.args = 1..2
      BY <3>1, LenProperties
    <3>. QED BY <3>1, <3>2 DEF Range, Last
  <2> DEFINE off == Last(e.args).off
             first == ExprItem(e.args[1])
  <2>2. off \in Word /\ off \in n.locals
    BY <1>1, <1>2, <1>8, <2>1 DEF Fits, ExprFits
  <2>3. Expand(e) = (<<first>> \o <<Plain("DUP")>>) \o <<InstItem("STL", off)>>
    BY <1>8 DEF Expand
  <2>4. /\ first \in WorkItem /\ Plain("DUP") \in WorkItem /\ InstItem("STL", off) \in WorkItem
    BY <1>1, <1>3, <2>1, <2>2, ItemTypes, PlainTypes
  <2>5. ItemShifts(n, zeros, first, a, a + 1)
    BY <2>1, ItemsShift
  <2>6. Shifts(n, "DUP", 0, a + 1, a + 2) /\ Shifts(n, "STL", off, a + 2, a + 1)
    BY <2>2 DEF Shifts
  <2> HIDE DEF off, first
  <2>7. ItemShifts(n, zeros, Plain("DUP"), a + 1, a + 2) /\ ItemShifts(n, zeros, InstItem("STL", off), a + 2, a + 1)
    BY <2>6, ItemsShift DEF Plain
  <2>8. a + 1 \in Nat /\ a + 2 \in Nat
    OBVIOUS
  <2>9. Carries(n, zeros, <<first>> \o <<Plain("DUP")>>, a, a + 2)
    BY <2>4, <2>5, <2>7, <2>8, CarriesTwo
  <2>10. Carries(n, zeros, <<InstItem("STL", off)>>, a + 2, a + 1)
    BY <2>7, <2>8, CarriesOne
  <2>11. <<first>> \o <<Plain("DUP")>> \in Seq(WorkItem) /\ <<InstItem("STL", off)>> \in Seq(WorkItem)
    BY <2>4
  <2>. QED BY <2>3, <2>8, <2>9, <2>10, <2>11, CarriesJoin
<1>. QED BY <1>1, <1>4, <1>5, <1>6, <1>7, <1>8 DEF IsExpr

-----------------------------------------------------------------------------
(* Where an instruction begins or will begin, and where a branch may go.   *)
Positions   == DOMAIN code \cup {body.size}
Restarts(d) == {p \in Positions : d[p] = 0}

InstFits(n, d, p) ==
    /\ code[p].operand \in Word
    /\ code[p].opcode = "RET" => d[p] = 1
    /\ code[p].opcode # "RET" => Shifts(n, code[p].opcode, code[p].operand, d[p], d[code[p].next])
    /\ code[p].opcode = "BR" /\ code[p].operand \in Positions => d[code[p].operand] = 0

(* The functions emitted so far are those that the tree begins with, and   *)
(* each finds its arguments on the stack.                                  *)
FuncsFit(n, d) ==
    /\ Len(symbols) + Len(funcs) = Len(n.tree)
    /\ \A j \in DOMAIN funcs : funcs[j] = n.tree[Len(symbols) + j]
    /\ \A i \in DOMAIN symbols :
          /\ symbols[i].id = n.tree[i].symbol_id
          /\ symbols[i].pos \in Positions
          /\ work = <<>> => symbols[i].pos \in DOMAIN code
          /\ d[symbols[i].pos] = Len(n.tree[i].args)
    /\ symbols = <<>> => work = <<>> /\ body.size = 0
    /\ symbols # <<>> => symbols[1].pos = 0

DepthInv(n, d) ==
    /\ d \in [Positions -> Nat]
    /\ \A p \in DOMAIN code : InstFits(n, d, p)
    /\ Carries(n, Restarts(d), work, d[body.size], 0)
    /\ FuncsFit(n, d)

LEMMA LeavingShifts ==
    ASSUME NEW n, NEW op \in {"BR", "RET"}, NEW k, NEW a, NEW b
    PROVE  Shifts(n, op, k, a, b) <=> a = 1 /\ b = 0
<1>1. op \notin BinOps \cup UnOps
  BY DEF BinOps, IntOps, FloatOps, UnOps
<1>2. op \notin {"LDI", "LDL", "STL", "DUP", "POP", "NOT", "CALL"}
  OBVIOUS
<1>. QED BY <1>1, <1>2 DEF Shifts

(* The instruction that finishes a function is the RET of its epilogue.    *)
LEMMA LastItem ==
    ASSUME EmitInv, work # <<>>, NEW items \in Seq(WorkItem), Replace(items), work' = <<>>
    PROVE  Top.item = "inst"
<1>1. work \in Seq(WorkItem) /\ work' = items \o Tail(work)
  BY DEF EmitInv, EmitTypeOK, Replace
<1>2. Tail(work) \in Seq(WorkItem) /\ Len(Tail(work)) = Len(work) - 1
      /\ Len(work) \in Nat /\ Len(work) >= 1 /\ Head(work) = work[1]
  BY <1>1, HeadTailProperties, LenProperties, EmptySeq
<1>3. Len(work') = Len(items) + Len(Tail(work)) /\ Len(items) \in Nat /\ Len(work') = 0
  BY <1>1, <1>2, ConcatProperties, LenProperties, EmptySeq
<1>4. Len(work) = 1
  BY <1>2, <1>3
<1>5. Top = Plain("RET")
  BY <1>2, <1>4 DEF Top, EmitInv, InsideInv, ReturnComesLast
<1>. QED BY <1>5 DEF Plain, InstItem

(* A step that replaces the top work item: e says what d said of the       *)
(* positions there were, the new instructions fit it, and the new items    *)
(* carry on to the depth m where the top item was to end.                  *)
LEMMA DepthsStep ==
    ASSUME EmitInv, EmitInv', work # <<>>, InPlace', NEW n, NEW d, DepthInv(n, d),
           CodeGrows, UNCHANGED <<funcs, symbols>>,
           NEW items \in Seq(WorkItem), Replace(items), NEW m \in Nat,
           NEW e \in [Positions' -> Nat], \A p \in Positions : e[p] = d[p],
           \A p \in DOMAIN code' \ DOMAIN code : InstFits(n, e, p)',
           \A p \in DOMAIN code : code'[p].operand # code[p].operand => e[body'.size] = 0,
           Top.item = "inst" => body.size \in DOMAIN code',
           Carries(n, Restarts(e)', items, e[body'.size], m),
           Carries(n, Restarts(d), Tail(work), m, 0)
    PROVE  DepthInv(n, e)'
<1>1. /\ Positions \subseteq Positions'
      /\ \A p \in DOMAIN code : p \in DOMAIN code' /\ code[p].next \in Positions
      /\ body.size \in Nat /\ body'.size \in Nat /\ body'.size \in Positions'
      /\ DOMAIN code' \subseteq 0..body'.size-1
      /\ work \in Seq(WorkItem)
  BY DEF Positions, CodeGrows, EmitInv, EmitTypeOK, Contiguous, Buffer, Roomy
<1>2. Restarts(d) \subseteq Restarts(e)'
  BY <1>1 DEF Restarts
<1>3. Carries(n, Restarts(e)', work', e[body'.size], 0)
  <2>1. Carries(n, Restarts(e)', Tail(work), m, 0)
    BY <1>2, CarriesMore
  <2>2. Tail(work) \in Seq(WorkItem) /\ work' = items \o Tail(work) /\ e[body'.size] \in Nat
    BY <1>1, HeadTailProperties DEF Replace
  <2>. QED BY <2>1, <2>2, CarriesJoin
<1>4. ASSUME NEW p \in DOMAIN code
      PROVE  InstFits(n, e, p)'
  <2>1. /\ code'[p].opcode = code[p].opcode /\ code'[p].next = code[p].next
        /\ code'[p].operand # code[p].operand => code'[p].operand = body'.size /\ p + 1 \in HoleOf(Top)
    BY DEF CodeGrows
  <2>2. e[p] = d[p] /\ e[code[p].next] = d[code[p].next] /\ InstFits(n, d, p)
    BY <1>1 DEF Positions, DepthInv
  <2>3. CASE code[p].opcode = "BR"
    <3>1. Shifts(n, code'[p].opcode, code'[p].operand, e[p], e[code'[p].next])
      <4>1. Shifts(n, "BR", code[p].operand, d[p], d[code[p].next])
        BY <2>2, <2>3 DEF InstFits
      <4>2. d[p] = 1 /\ d[code[p].next] = 0
        BY ONLY <4>1, LeavingShifts
      <4>. QED BY <2>1, <2>2, <2>3, <4>2 DEF Shifts
    <3>2. ASSUME code'[p].operand \in Positions' PROVE e[code'[p].operand] = 0
      <4>1. CASE code'[p].operand # code[p].operand
        BY <2>1, <4>1
      <4>2. CASE code'[p].operand = code[p].operand
        <5>1. code'[p].operand # Unpatched
          BY <1>1, <3>2 DEF Positions, InPlace
        <5>2. code[p].operand \in Positions
          BY <2>3, <4>2, <5>1 DEF EmitInv, BranchesPatched, Positions, Unpatched
        <5>. QED BY <2>2, <2>3, <4>2, <5>2 DEF InstFits
      <4>. QED BY <4>1, <4>2
    <3>3. code'[p].operand \in Word
      <4>1. body'.size \in Word
        BY <1>1, WordAssumption DEF InPlace, Unpatched, Word
      <4>. QED BY <2>1, <2>2, <4>1 DEF InstFits
    <3>. QED BY <2>1, <2>3, <3>1, <3>2, <3>3 DEF InstFits
  <2>4. CASE code[p].opcode # "BR"
    <3>1. code'[p].operand = code[p].operand
      <4>1. ASSUME p + 1 \in HoleOf(Top) PROVE FALSE
        <5>1. p + 1 \in Holes
          BY <4>1, TopType DEF Holes
        <5>2. (p + 1) - 1 = p
          BY <1>1
        <5>. QED BY <2>4, <5>1, <5>2 DEF EmitInv, HolesAreBranches
      <4>. QED BY <2>1, <4>1
    <3>. QED BY <2>1, <2>2, <2>4, <3>1 DEF InstFits
  <2>. QED BY <2>3, <2>4
<1>5. FuncsFit(n, e)'
  <2>1. symbols' = symbols /\ funcs' = funcs /\ FuncsFit(n, d)
    BY DEF DepthInv
  <2>2. symbols # <<>>
    BY DEF DepthInv, FuncsFit
  <2>3. ASSUME NEW i \in DOMAIN symbols
        PROVE  /\ symbols[i].pos \in Positions' /\ e[symbols[i].pos] = Len(n.tree[i].args)
               /\ work' = <<>> => symbols[i].pos \in DOMAIN code'
    <3>1. symbols[i].pos \in Positions /\ d[symbols[i].pos] = Len(n.tree[i].args)
      BY <2>1 DEF FuncsFit
    <3>2. work' = <<>> => body.size \in DOMAIN code'
      BY LastItem
    <3>. QED BY <1>1, <3>1, <3>2 DEF Positions
  <2>. QED BY <2>1, <2>2, <2>3 DEF FuncsFit
<1>. QED BY <1>3, <1>4, <1>5 DEF DepthInv

LEMMA TopShifts ==
    ASSUME EmitInv, work # <<>>, NEW n, NEW d, DepthInv(n, d)
    PROVE  /\ d[body.size] \in Nat
           /\ \E m \in Nat : /\ ItemShifts(n, Restarts(d), Top, d[body.size], m)
                             /\ Carries(n, Restarts(d), Tail(work), m, 0)
<1>1. work \in Seq(WorkItem) /\ Carries(n, Restarts(d), work, d[body.size], 0)
  BY DEF EmitInv, EmitTypeOK, DepthInv
<1>2. d[body.size] \in Nat
  BY DEF DepthInv, Positions
<1>. QED BY <1>1, <1>2, CarriesTop DEF Top

LEMMA QuietDepths ==
    ASSUME EmitInv, EmitInv', work # <<>>, InPlace', NEW n, NEW d, DepthInv(n, d),
           KeepBody, Top.item # "inst",
           NEW items \in Seq(WorkItem), Replace(items), NEW m \in Nat,
           Carries(n, Restarts(d), items, d[body.size], m),
           Carries(n, Restarts(d), Tail(work), m, 0)
    PROVE  DepthInv(n, d)'
<1>1. CodeGrows /\ UNCHANGED <<funcs, symbols, body, code>>
  BY BodyKept DEF KeepBody
<1>2. Positions' = Positions /\ Restarts(d)' = Restarts(d) /\ d \in [Positions' -> Nat]
  BY <1>1 DEF Positions, Restarts, DepthInv
<1>. QED BY <1>1, <1>2, DepthsStep

LEMMA ExprDepths ==
    ASSUME EmitInv, EmitExpr, InPlace', NEW n, Fits(n), NEW d, DepthInv(n, d)
    PROVE  DepthInv(n, d)'
<1>1. work # <<>> /\ Top.item = "expr" /\ Replace(Expand(Top.expr)) /\ KeepBody
  BY DEF EmitExpr, Is
<1>2. PICK m \in Nat : /\ ItemShifts(n, Restarts(d), Top, d[body.size], m)
                       /\ Carries(n, Restarts(d), Tail(work), m, 0)
  BY <1>1, TopShifts
<1>3. d[body.size] \in Nat /\ Top.expr \in n.exprs /\ m = d[body.size] + 1
  BY <1>1, <1>2, TopShifts DEF ItemShifts
<1>4. Carries(n, Restarts(d), Expand(Top.expr), d[body.size], m)
  BY <1>3, CarriesExpansion DEF EmitExpr
<1>5. Expand(Top.expr) \in Seq(WorkItem)
  <2>1. Top.expr \in Exprs /\ \A l \in Exprs : l.kind = "local" => l.off \in Word
    BY <1>3, TreeAssumption DEF Fits, IsExpr
  <2>. QED BY <2>1, ExpandSimple DEF EmitExpr, AllSimple
<1>6. EmitInv'
  BY ExprKeepsInv
<1>. QED BY <1>1, <1>2, <1>4, <1>5, <1>6, QuietDepths

(* An expression, and then an instruction that drops its word.             *)
LEMMA DroppedExpr ==
    ASSUME NEW n, NEW zeros, NEW e \in n.exprs, Fits(n), NEW op \in {"POP", "RET"}
    PROVE  /\ <<ExprItem(e)>> \o <<Plain(op)>> \in Seq(WorkItem)
           /\ Carries(n, zeros, <<ExprItem(e)>> \o <<Plain(op)>>, 0, 0)
<1>1. ExprItem(e) \in WorkItem /\ Plain(op) \in WorkItem
  BY ItemTypes, PlainTypes DEF Fits
<1>2. Shifts(n, op, 0, 1, 0)
  BY DEF Shifts
<1>3. ItemShifts(n, zeros, ExprItem(e), 0, 1) /\ ItemShifts(n, zeros, Plain(op), 1, 0)
  BY <1>2, ItemsShift, SMTT(30) DEF Plain
<1>. QED BY <1>1, <1>3, CarriesTwo

LEMMA StmtDepths ==
    ASSUME EmitInv, EmitStmt, InPlace', NEW n, Fits(n), NEW d, DepthInv(n, d)
    PROVE  DepthInv(n, d)'
<1>1. /\ work # <<>> /\ Top.item = "stmt" /\ Replace(ExpandStmt(Top.stmt)) /\ KeepBody
      /\ Top.stmt.kind \in {"decl", "expr", "return"}
  BY DEF EmitStmt, Is
<1>2. PICK m \in Nat : /\ ItemShifts(n, Restarts(d), Top, d[body.size], m)
                       /\ Carries(n, Restarts(d), Tail(work), m, 0)
  BY <1>1, TopShifts
<1>3. Top.stmt \in n.stmts /\ d[body.size] = 0 /\ m = 0
  BY <1>1, <1>2 DEF ItemShifts
<1>4. /\ ExpandStmt(Top.stmt) \in Seq(WorkItem)
      /\ Carries(n, Restarts(d), ExpandStmt(Top.stmt), 0, 0)
  <2>1. CASE Top.stmt.kind = "decl"
    BY <2>1, CarriesNone DEF ExpandStmt
  <2>2. CASE Top.stmt.kind \in {"expr", "return"}
    <3>1. Top.stmt.expr \in n.exprs
      BY <1>3, <2>2 DEF Fits, StmtFits
    <3>2. CASE Top.stmt.kind = "expr"
      <4>1. ExpandStmt(Top.stmt) = <<ExprItem(Top.stmt.expr)>> \o <<Plain("POP")>>
        BY <3>2 DEF ExpandStmt
      <4>. QED BY <3>1, <4>1, DroppedExpr
    <3>3. CASE Top.stmt.kind = "return"
      <4>1. ExpandStmt(Top.stmt) = <<ExprItem(Top.stmt.expr)>> \o <<Plain("RET")>>
        BY <3>3 DEF ExpandStmt
      <4>. QED BY <3>1, <4>1, DroppedExpr
    <3>. QED BY <2>2, <3>2, <3>3
  <2>. QED BY <1>1, <2>1, <2>2
<1>5. EmitInv' /\ Top.item # "inst"
  BY <1>1, StmtKeepsInv
<1>. QED BY <1>1, <1>2, <1>3, <1>4, <1>5, QuietDepths

LEMMA ThreeItems ==
    ASSUME NEW S, NEW x \in S, NEW y \in S, NEW z \in S
    PROVE  (<<x>> \o <<y>>) \o <<z>> = <<x, y, z>>
<1>1. <<x>> \in Seq(S) /\ <<y>> \in Seq(S) /\ <<z>> \in Seq(S)
      /\ <<x, y>> \in Seq(S) /\ <<x, y, z>> \in Seq(S)
  OBVIOUS
<1>2. <<x>> \o <<y>> = <<x, y>>
  <2>1. Len(<<x>> \o <<y>>) = 2 /\ \A i \in 1..2 : (<<x>> \o <<y>>)[i] = <<x, y>>[i]
    OBVIOUS
  <2>. QED BY <1>1, <2>1, SeqEqual, ConcatProperties
<1>3. <<x, y>> \o <<z>> = <<x, y, z>>
  <2>1. Len(<<x, y>> \o <<z>>) = 3 /\ \A i \in 1..3 : (<<x, y>> \o <<z>>)[i] = <<x, y, z>>[i]
    OBVIOUS
  <2>. QED BY <1>1, <2>1, SeqEqual, ConcatProperties
<1>. QED BY <1>2, <1>3

LEMMA ConditionDepths ==
    ASSUME EmitInv, EmitCondition, InPlace', NEW n, Fits(n), NEW d, DepthInv(n, d)
    PROVE  DepthInv(n, d)'
<1> DEFINE rest == Rest
           front == <<ExprItem(Top.stmt.expr)>> \o <<Plain("NOT")>>
<1>1. /\ work # <<>> /\ Top.item = "stmt" /\ Top.stmt \in Statements
      /\ Replace(front \o <<rest>>) /\ KeepBody
      /\ Top.stmt.kind \in {"if", "while"}
  <2> DEFINE e == ExprItem(Top.stmt.expr)
             not == Plain("NOT")
  <2>1. (<<e>> \o <<not>>) \o <<rest>> = <<e, not, rest>>
    <3> HIDE DEF e, not, rest
    <3> DEFINE S == {e, not, rest}
    <3>1. e \in S /\ not \in S /\ rest \in S
      OBVIOUS
    <3> HIDE DEF S
    <3>. QED BY <3>1, ThreeItems
  <2>2. front \o <<rest>> = <<ExprItem(Top.stmt.expr), Plain("NOT"), rest>>
    BY <2>1
  <2> HIDE DEF rest, front
  <2>3. Replace(front \o <<rest>>)
    BY <2>2 DEF EmitCondition, rest
  <2>. QED BY <2>3, StmtType DEF EmitCondition
<1>2. PICK m \in Nat : /\ ItemShifts(n, Restarts(d), Top, d[body.size], m)
                       /\ Carries(n, Restarts(d), Tail(work), m, 0)
  BY <1>1, TopShifts
<1>3. Top.stmt \in n.stmts /\ d[body.size] = 0 /\ m = 0
  BY <1>1, <1>2 DEF ItemShifts
<1>4. Top.stmt.expr \in n.exprs /\ n.exprs \subseteq Exprs
  BY <1>1, <1>3 DEF Fits, StmtFits
<1>5. ExprItem(Top.stmt.expr) \in WorkItem /\ Plain("NOT") \in WorkItem
  BY <1>4, ItemTypes, PlainTypes
<1>6. rest \in WorkItem /\ ItemShifts(n, Restarts(d), rest, 1, 0)
  <2>1. body.size \in Nat /\ body.size \in Restarts(d)
    BY <1>1, <1>3, TopType DEF Restarts, Positions
  <2>2. CASE Top.stmt.kind = "if"
    <3>1. rest = [item |-> "if", stmt |-> Top.stmt]
      BY <2>2 DEF Rest
    <3> HIDE DEF rest
    <3>. QED BY <1>1, <1>3, <2>2, <3>1 DEF WorkItem, IfStatements, ItemShifts
  <2>3. CASE Top.stmt.kind = "while"
    <3>1. rest = [item |-> "while", stmt |-> Top.stmt, start_pos |-> body.size]
      BY <2>3 DEF Rest
    <3> HIDE DEF rest
    <3>. QED BY <1>1, <1>3, <2>1, <2>3, <3>1 DEF WorkItem, WhileStatements, ItemShifts
  <2>. QED BY <1>1, <2>2, <2>3
<1> HIDE DEF rest
<1>7. Carries(n, Restarts(d), front, 0, 1)
  <2>1. Shifts(n, "NOT", 0, 1, 1)
    BY DEF Shifts
  <2>2. ItemShifts(n, Restarts(d), ExprItem(Top.stmt.expr), 0, 1)
    <3>1. 1 = 0 + 1
      OBVIOUS
    <3>. QED BY <1>4, <3>1, ItemsShift
  <2>3. ItemShifts(n, Restarts(d), Plain("NOT"), 1, 1)
    BY <2>1, ItemsShift DEF Plain
  <2>. QED BY <1>5, <2>2, <2>3, CarriesTwo
<1>8. front \in Seq(WorkItem) /\ <<rest>> \in Seq(WorkItem) /\ front \o <<rest>> \in Seq(WorkItem)
  BY <1>5, <1>6
<1> HIDE DEF front
<1>9. Carries(n, Restarts(d), <<rest>>, 1, 0)
  BY <1>6, CarriesOne
<1>10. Carries(n, Restarts(d), front \o <<rest>>, d[body.size], m)
  BY <1>3, <1>7, <1>8, <1>9, CarriesJoin
<1>11. EmitInv' /\ Top.item # "inst"
  BY <1>1, ConditionKeepsInv
<1>. QED BY <1>1, <1>2, <1>8, <1>10, <1>11, QuietDepths

(* One instruction more: the depth behind it is what it leaves.            *)
LEMMA OneMoreDepths ==
    ASSUME EmitInv, EmitInv', work # <<>>, InPlace', NEW n, NEW d, DepthInv(n, d),
           NEW op, NEW operand \in Word, AddsOne(op, operand), UNCHANGED <<funcs, symbols>>, HoleOf(Top) = {},
           NEW k \in Nat, Shifts(n, op, operand, d[body.size], k), op = "BR" => operand = Unpatched,
           NEW items \in Seq(WorkItem), Replace(items), NEW m \in Nat,
           Carries(n, Restarts(d), items, k, m),
           Carries(n, Restarts(d), Tail(work), m, 0)
    PROVE  \E e : DepthInv(n, e)'
<1>1. /\ body.size \in Nat /\ body'.size \in Nat /\ body.size < body'.size
      /\ DOMAIN code \subseteq 0..body.size-1
      /\ DOMAIN code' = DOMAIN code \cup {body.size}
      /\ code'[body.size] = Inst(op, operand, body'.size)
      /\ CodeGrows
  BY DEF AddsOne, EmitInv, EmitTypeOK, Buffer
<1>2. Positions' = Positions \cup {body'.size} /\ body'.size \notin Positions
  BY <1>1 DEF Positions
<1>3. d \in [Positions -> Nat]
  BY DEF DepthInv
<1>4. PICK e \in [Positions' -> Nat] : (\A p \in Positions : e[p] = d[p]) /\ e[body'.size] = k
  <2> DEFINE e == [p \in Positions' |-> IF p = body'.size THEN k ELSE d[p]]
  <2>1. e \in [Positions' -> Nat] /\ (\A p \in Positions : e[p] = d[p]) /\ e[body'.size] = k
    BY <1>2, <1>3
  <2> HIDE DEF e
  <2>. QED BY <2>1
<1>5. ASSUME NEW p, p = body.size PROVE InstFits(n, e, p)'
  <2>1. e[body.size] = d[body.size] /\ body.size \in Positions
    BY <1>4 DEF Positions
  <2>2. op = "RET" => e[body.size] = 1
    BY <2>1, LeavingShifts
  <2>3. op = "BR" => operand \notin Positions'
    BY <1>1, <1>2 DEF Positions, InPlace, Unpatched
  <2>4. code'[p].opcode = op /\ code'[p].operand = operand /\ code'[p].next = body'.size
    BY <1>1, <1>5 DEF Inst
  <2>. QED BY <1>4, <1>5, <2>1, <2>2, <2>3, <2>4 DEF InstFits
<1>6. \A p \in DOMAIN code' \ DOMAIN code : InstFits(n, e, p)'
  BY <1>1, <1>5
<1>7. \A p \in DOMAIN code : code'[p].operand # code[p].operand => e[body'.size] = 0
  BY <1>1 DEF CodeGrows
<1>8. Carries(n, Restarts(e)', items, e[body'.size], m)
  <2>1. Restarts(d) \subseteq Restarts(e)'
    BY <1>2, <1>4 DEF Restarts
  <2>. QED BY <1>4, <2>1, CarriesMore
<1>9. body.size \in DOMAIN code'
  BY <1>1
<1>10. DepthInv(n, e)'
  BY <1>1, <1>4, <1>6, <1>7, <1>8, <1>9, DepthsStep
<1>. QED BY <1>10

LEMMA InstDepths ==
    ASSUME EmitInv, EmitInst, InPlace', NEW n, NEW d, DepthInv(n, d)
    PROVE  \E e : DepthInv(n, e)'
<1>1. /\ work # <<>> /\ Top.item = "inst" /\ Replace(<<>>) /\ UNCHANGED <<funcs, symbols>>
      /\ Top.opcode \in Opcode \ {"BR"}
  BY TopType DEF EmitInst, Is, WorkItem
<1>2. PICK m \in Nat : /\ ItemShifts(n, Restarts(d), Top, d[body.size], m)
                       /\ Carries(n, Restarts(d), Tail(work), m, 0)
  BY <1>1, TopShifts
<1>3. Shifts(n, Top.opcode, Top.operand, d[body.size], m)
  BY <1>1, <1>2 DEF ItemShifts
<1>4. EmitInv' /\ AddsOne(Top.opcode, Top.operand)
  BY InstKeepsInv
<1>5. HoleOf(Top) = {} /\ Top.opcode # "BR"
  BY <1>1 DEF HoleOf
<1>6. Carries(n, Restarts(d), <<>>, m, m) /\ <<>> \in Seq(WorkItem)
  BY CarriesNone
<1> DEFINE op == Top.opcode
           operand == Top.operand
<1>7. /\ AddsOne(op, operand) /\ Shifts(n, op, operand, d[body.size], m)
      /\ op = "BR" => operand = Unpatched
      /\ operand \in Word
  <2>1. Top.operand \in Word
    BY <1>1, TopType DEF WorkItem
  <2>. QED BY <1>3, <1>4, <1>5, <2>1
<1> HIDE DEF op, operand
<1>. QED BY <1>1, <1>2, <1>4, <1>5, <1>6, <1>7, OneMoreDepths

(* The branch of an IF or WHILE, and what is emitted after its body.       *)
LEMMA BranchDepths ==
    ASSUME EmitInv, EmitInv', work # <<>>, Top.item \in {"if", "while"}, InPlace', NEW n, Fits(n),
           NEW d, DepthInv(n, d), AddsOne("BR", Unpatched),
           NEW moved, NEW rest \in WorkItem, EmitBranch(moved, rest),
           Top.stmt \in n.stmts /\ d[body.size] = 1 => ItemShifts(n, Restarts(d), rest, 0, 0)
    PROVE  \E e : DepthInv(n, e)'
<1> DEFINE items == Stmts(Top.stmt.then) \o <<rest>>
<1>1. Replace(items) /\ UNCHANGED <<funcs, symbols>> /\ HoleOf(Top) = {}
  BY DEF EmitBranch, HoleOf
<1>2. PICK m \in Nat : /\ ItemShifts(n, Restarts(d), Top, d[body.size], m)
                       /\ Carries(n, Restarts(d), Tail(work), m, 0)
  BY TopShifts
<1>3. Top.stmt \in n.stmts /\ d[body.size] = 1 /\ m = 0
  BY <1>2 DEF ItemShifts
<1>4. Top.stmt.then \in Seq(Statements) /\ Range(Top.stmt.then) \subseteq n.stmts
  <2>1. Top.stmt \in Statements /\ Top.stmt.kind \in {"if", "while"}
    BY TopType DEF WorkItem, IfStatements, WhileStatements
  <2>. QED BY <1>3, <2>1, TreeAssumption DEF IsStmt, Fits, StmtFits
<1>5. Stmts(Top.stmt.then) \in Seq(WorkItem) /\ <<rest>> \in Seq(WorkItem) /\ items \in Seq(WorkItem)
  BY <1>4, ItemTypes
<1>6. Carries(n, Restarts(d), items, 0, 0)
  <2>1. Carries(n, Restarts(d), Stmts(Top.stmt.then), 0, 0)
    BY <1>4, CarriesStmts
  <2>2. Carries(n, Restarts(d), <<rest>>, 0, 0)
    BY <1>3, CarriesOne
  <2>. QED BY <1>5, <2>1, <2>2, CarriesJoin
<1>7. Shifts(n, "BR", Unpatched, d[body.size], 0) /\ Unpatched \in Word
  BY <1>3, LeavingShifts, WordAssumption DEF Unpatched, Word
<1> HIDE DEF items
<1>. QED BY <1>1, <1>2, <1>3, <1>5, <1>6, <1>7, OneMoreDepths

LEMMA IfDepths ==
    ASSUME EmitInv, EmitIf, InPlace', NEW n, Fits(n), NEW d, DepthInv(n, d)
    PROVE  \E e : DepthInv(n, e)'
<1> DEFINE rest(moved) == [item |-> "if_else", stmt |-> Top.stmt, else_pos |-> HolePointer(body, moved)]
<1>1. PICK moved \in BodyMoves : EmitBranch(moved, rest(moved))
  BY DEF EmitIf
<1>2. work # <<>> /\ Top.item = "if"
  BY DEF EmitIf, Is
<1>3. Top.stmt \in IfStatements /\ HolePointer(body, moved) \in Pointer
  BY <1>2, TopType, BranchProperties, EmitAssumption DEF WorkItem
<1>4. rest(moved) \in WorkItem
  BY <1>3 DEF WorkItem
<1>5. Top.stmt \in n.stmts => ItemShifts(n, Restarts(d), rest(moved), 0, 0)
  BY DEF ItemShifts
<1>6. EmitInv' /\ AddsOne("BR", Unpatched)
  BY IfKeepsInv
<1> HIDE DEF rest
<1>. QED BY <1>1, <1>2, <1>4, <1>5, <1>6, BranchDepths

LEMMA WhileDepths ==
    ASSUME EmitInv, EmitWhile, InPlace', NEW n, Fits(n), NEW d, DepthInv(n, d)
    PROVE  \E e : DepthInv(n, e)'
<1> DEFINE rest(moved) == [item |-> "while_end", start_pos |-> Top.start_pos,
                           end_pos |-> HolePointer(body, moved)]
<1>1. PICK moved \in BodyMoves : EmitBranch(moved, rest(moved))
  BY DEF EmitWhile
<1>2. work # <<>> /\ Top.item = "while"
  BY DEF EmitWhile, Is
<1>3. Top.start_pos \in Nat /\ HolePointer(body, moved) \in Pointer
  BY <1>2, TopType, BranchProperties, EmitAssumption DEF WorkItem
<1>4. rest(moved) \in WorkItem
  BY <1>3 DEF WorkItem
<1>5. ItemShifts(n, Restarts(d), rest(moved), 0, 0)
  <2>1. Top.start_pos \in Restarts(d)
    BY <1>2, TopShifts DEF ItemShifts
  <2>. QED BY <2>1 DEF ItemShifts
<1>6. EmitInv' /\ AddsOne("BR", Unpatched)
  BY WhileKeepsInv
<1> HIDE DEF rest
<1>. QED BY <1>1, <1>2, <1>4, <1>5, <1>6, BranchDepths

(* LDI 1 and a branch more: none is on the stack behind them.              *)
LEMMA TwoMoreDepths ==
    ASSUME EmitInv, EmitInv', work # <<>>, InPlace', NEW n, NEW d, DepthInv(n, d),
           NEW target, AddsTwo(target), UNCHANGED <<funcs, symbols>>,
           d[body.size] = 0, target \in Restarts(d) \cup {Unpatched}, Top.item # "inst",
           NEW items \in Seq(WorkItem), Replace(items),
           Carries(n, Restarts(d), items, 0, 0),
           Carries(n, Restarts(d), Tail(work), 0, 0)
    PROVE  \E e : DepthInv(n, e)'
<1>1. CodeGrows /\ body.size \in Nat /\ body'.size \in Nat /\ DOMAIN code \subseteq 0..body.size-1
  BY DEF AddsTwo, EmitInv, EmitTypeOK, Buffer
<1>2. PICK q \in Nat :
          /\ body.size < q /\ q < body'.size
          /\ DOMAIN code' = DOMAIN code \cup {body.size, q}
          /\ code'[body.size] = Inst("LDI", 1, q)
          /\ code'[q] = Inst("BR", target, body'.size)
  BY DEF AddsTwo
<1>3. /\ Positions' = Positions \cup {q, body'.size} /\ body'.size \notin Positions /\ q \notin Positions
      /\ q # body'.size /\ body.size \in Positions
  BY <1>1, <1>2 DEF Positions
<1>4. d \in [Positions -> Nat]
  BY DEF DepthInv
<1>5. PICK e \in [Positions' -> Nat] :
         (\A p \in Positions : e[p] = d[p]) /\ e[q] = 1 /\ e[body'.size] = 0
  <2> DEFINE e == [p \in Positions' |-> IF p = q THEN 1 ELSE IF p = body'.size THEN 0 ELSE d[p]]
  <2>1. e \in [Positions' -> Nat] /\ (\A p \in Positions : e[p] = d[p]) /\ e[q] = 1 /\ e[body'.size] = 0
    BY <1>3, <1>4
  <2> HIDE DEF e
  <2>. QED BY <2>1
<1>6. ASSUME NEW p, p = body.size PROVE InstFits(n, e, p)'
  <2>1. code'[p].opcode = "LDI" /\ code'[p].operand = 1 /\ code'[p].next = q
    BY <1>2, <1>6 DEF Inst
  <2>2. e[p] = 0
    BY <1>3, <1>5, <1>6
  <2>3. Shifts(n, "LDI", 1, 0, 1) /\ 1 \in Word
    BY WordAssumption DEF Shifts, Word
  <2>. QED BY <1>5, <2>1, <2>2, <2>3 DEF InstFits
<1>7. InstFits(n, e, q)'
  <2>1. code'[q].opcode = "BR" /\ code'[q].operand = target /\ code'[q].next = body'.size
    BY <1>2 DEF Inst
  <2>2. Shifts(n, "BR", target, 1, 0)
    BY LeavingShifts
  <2>3. target \in Positions' => e[target] = 0
    <3>1. CASE target \in Restarts(d)
      BY <1>5, <3>1 DEF Restarts
    <3>2. CASE target = Unpatched
      BY <1>1, <1>2, <1>3, <3>2 DEF InPlace, Unpatched, Positions
    <3>. QED BY <3>1, <3>2
  <2>4. target \in Word
    <3>1. Positions \subseteq 0..body'.size /\ body'.size < WordMax
      BY <1>1, <1>2 DEF Positions, InPlace, Unpatched
    <3>. QED BY <1>1, <3>1, WordAssumption DEF Restarts, Word, Unpatched
  <2>. QED BY <1>5, <2>1, <2>2, <2>3, <2>4 DEF InstFits
<1>8. \A p \in DOMAIN code' \ DOMAIN code : InstFits(n, e, p)'
  BY <1>2, <1>6, <1>7
<1>9. Carries(n, Restarts(e)', items, e[body'.size], 0)
  <2>1. Restarts(d) \subseteq Restarts(e)'
    BY <1>3, <1>5 DEF Restarts
  <2>. QED BY <1>5, <2>1, CarriesMore
<1>10. DepthInv(n, e)'
  BY <1>1, <1>5, <1>8, <1>9, DepthsStep
<1>. QED BY <1>10

LEMMA IfElseDepths ==
    ASSUME EmitInv, EmitIfElse, InPlace', NEW n, Fits(n), NEW d, DepthInv(n, d)
    PROVE  \E e : DepthInv(n, e)'
<1> DEFINE rest(moved) == [item |-> "if_end",
              end_pos |-> HolePointer(PushInst(body, OperandWidth("LDI", 1), moved), moved)]
           items(moved) == Stmts(Top.stmt.else_) \o <<rest(moved)>>
<1>1. PICK moved \in BodyMoves : Replace(items(moved))
  BY DEF EmitIfElse
<1>2. work # <<>> /\ Top.item = "if_else" /\ UNCHANGED <<funcs, symbols>>
  BY DEF EmitIfElse, Is
<1>3. rest(moved) \in WorkItem
  <2> DEFINE b1 == PushInst(body, OperandWidth("LDI", 1), moved)
  <2>1. Roomy(b1) /\ moved \in BOOLEAN
    BY <1>2, LoadOne
  <2>2. HolePointer(b1, moved) \in Pointer
    <3> HIDE DEF b1
    <3>. QED BY <2>1, BranchProperties
  <2>. QED BY <2>2 DEF WorkItem
<1>4. PICK m \in Nat : /\ ItemShifts(n, Restarts(d), Top, d[body.size], m)
                       /\ Carries(n, Restarts(d), Tail(work), m, 0)
  BY <1>2, TopShifts
<1>5. Top.stmt \in n.stmts /\ d[body.size] = 0 /\ m = 0
  BY <1>2, <1>4 DEF ItemShifts
<1>6. Top.stmt.else_ \in Seq(Statements) /\ Range(Top.stmt.else_) \subseteq n.stmts
  <2>1. Top.stmt \in Statements /\ Top.stmt.kind = "if"
    BY <1>2, TopType DEF WorkItem, IfStatements
  <2>. QED BY <1>5, <2>1, TreeAssumption DEF IsStmt, Fits, StmtFits
<1>7. ItemShifts(n, Restarts(d), rest(moved), 0, 0)
  BY DEF ItemShifts
<1> HIDE DEF rest
<1>8. Carries(n, Restarts(d), items(moved), 0, 0) /\ items(moved) \in Seq(WorkItem)
  <2>1. Carries(n, Restarts(d), Stmts(Top.stmt.else_), 0, 0) /\ Stmts(Top.stmt.else_) \in Seq(WorkItem)
    BY <1>6, CarriesStmts, ItemTypes
  <2>2. Carries(n, Restarts(d), <<rest(moved)>>, 0, 0) /\ <<rest(moved)>> \in Seq(WorkItem)
    BY <1>3, <1>7, CarriesOne
  <2>3. Carries(n, Restarts(d), items(moved), 0, 0)
    BY <2>1, <2>2, CarriesJoin
  <2>4. items(moved) \in Seq(WorkItem)
    BY <2>1, <2>2
  <2>. QED BY <2>3, <2>4
<1>9. EmitInv' /\ AddsTwo(Unpatched)
  BY IfElseKeepsInv
<1> HIDE DEF items
<1>. QED BY <1>1, <1>2, <1>4, <1>5, <1>8, <1>9, TwoMoreDepths

LEMMA WhileEndDepths ==
    ASSUME EmitInv, EmitWhileEnd, InPlace', NEW n, NEW d, DepthInv(n, d)
    PROVE  \E e : DepthInv(n, e)'
<1>1. /\ work # <<>> /\ Top.item = "while_end" /\ UNCHANGED <<funcs, symbols>>
      /\ Replace(<<>>)
  BY DEF EmitWhileEnd, Is
<1>2. PICK m \in Nat : /\ ItemShifts(n, Restarts(d), Top, d[body.size], m)
                       /\ Carries(n, Restarts(d), Tail(work), m, 0)
  BY <1>1, TopShifts
<1>3. Top.start_pos \in Restarts(d) /\ d[body.size] = 0 /\ m = 0
  BY <1>1, <1>2 DEF ItemShifts
<1>4. Carries(n, Restarts(d), <<>>, 0, 0) /\ <<>> \in Seq(WorkItem)
  BY CarriesNone
<1>5. EmitInv' /\ AddsTwo(Top.start_pos) /\ Top.item # "inst"
  BY <1>1, WhileEndKeepsInv
<1>. QED BY <1>1, <1>2, <1>3, <1>4, <1>5, TwoMoreDepths

LEMMA IfEndDepths ==
    ASSUME EmitInv, EmitIfEnd, InPlace', NEW n, NEW d, DepthInv(n, d)
    PROVE  DepthInv(n, d)'
<1>1. /\ work # <<>> /\ Top.item = "if_end" /\ UNCHANGED <<funcs, symbols, body>>
      /\ Replace(<<>>)
  BY DEF EmitIfEnd, Is
<1>2. PICK m \in Nat : /\ ItemShifts(n, Restarts(d), Top, d[body.size], m)
                       /\ Carries(n, Restarts(d), Tail(work), m, 0)
  BY <1>1, TopShifts
<1>3. d[body.size] = 0 /\ m = 0
  BY <1>1, <1>2 DEF ItemShifts
<1>4. EmitInv' /\ CodeGrows /\ DOMAIN code' = DOMAIN code /\ Top.item # "inst"
  BY <1>1, IfEndKeepsInv
<1>5. Positions' = Positions /\ Restarts(d)' = Restarts(d) /\ d \in [Positions' -> Nat]
  BY <1>1, <1>4 DEF Positions, Restarts, DepthInv
<1>6. Carries(n, Restarts(d)', <<>>, d[body'.size], m) /\ <<>> \in Seq(WorkItem)
  BY <1>1, <1>3, CarriesNone
<1>. QED BY <1>1, <1>2, <1>3, <1>4, <1>5, <1>6, DepthsStep

(* A new function finds its arguments on the stack and stores them.        *)
LEMMA FuncDepths ==
    ASSUME EmitInv, EmitFunc, InPlace', NEW n, Fits(n), n.tree \in Trees, NEW d, DepthInv(n, d)
    PROVE  \E e : DepthInv(n, e)'
<1> DEFINE func == Head(funcs)
           stores == Prelude(func)
           stmts == Stmts(func.stmts)
           k == Len(func.args)
<1>1. /\ work = <<>> /\ funcs # <<>> /\ UNCHANGED <<body, code, error>>
      /\ symbols' = Append(symbols, [id |-> func.symbol_id, pos |-> body.size])
      /\ work' = (stores \o stmts) \o Epilogue
      /\ funcs' = Tail(funcs)
  BY DEF EmitFunc, FuncWith
<1>2. /\ funcs \in Seq(Funcs) /\ symbols \in Seq(Symbol) /\ body.size \in Nat
      /\ DOMAIN code \subseteq 0..body.size-1
      /\ n.tree \in Seq(Funcs)
  BY TreeAssumption DEF EmitInv, EmitTypeOK, Buffer
<1>3. /\ func = funcs[1] /\ func \in Funcs /\ Len(funcs) \in Nat /\ Len(funcs) >= 1
      /\ DOMAIN funcs = 1..Len(funcs) /\ Len(Tail(funcs)) = Len(funcs) - 1
      /\ \A j \in 1..Len(Tail(funcs)) : Tail(funcs)[j] = funcs[j + 1]
      /\ Tail(funcs) \in Seq(Funcs) /\ DOMAIN Tail(funcs) = 1..Len(Tail(funcs))
  BY <1>1, <1>2, HeadTailProperties, LenProperties, EmptySeq
<1>4. /\ Len(symbols) \in Nat /\ DOMAIN symbols = 1..Len(symbols)
      /\ DOMAIN n.tree = 1..Len(n.tree)
  BY <1>2, LenProperties
<1>5. FuncsFit(n, d) /\ d \in [Positions -> Nat]
  BY DEF DepthInv
<1>6. /\ func = n.tree[Len(symbols) + 1] /\ Len(symbols) + 1 \in DOMAIN n.tree
  BY <1>3, <1>4, <1>5 DEF FuncsFit
<1>7. /\ func.args \in Seq(Word) /\ func.stmts \in Seq(Statements)
      /\ Range(func.args) \subseteq n.locals /\ Range(func.stmts) \subseteq n.stmts
      /\ k \in Nat
  <2>1. IsFunc(func) /\ FuncFits(n, func)
    BY <1>3, <1>6, TreeAssumption DEF Fits
  <2>. QED BY <2>1, LenProperties DEF IsFunc, FuncFits
<1>8. Positions' = Positions /\ body.size \in Positions
  BY <1>1 DEF Positions
<1>9. PICK e \in [Positions' -> Nat] : e[body.size] = k /\ \A p \in DOMAIN code : e[p] = d[p]
  <2> HIDE DEF k
  <2> DEFINE e == [d EXCEPT ![body.size] = k]
  <2>1. e \in [Positions' -> Nat] /\ e[body.size] = k /\ \A p \in DOMAIN code : e[p] = d[p]
    BY <1>2, <1>5, <1>7, <1>8 DEF Positions
  <2> HIDE DEF e
  <2>. QED BY <2>1
<1>10. ASSUME NEW p \in DOMAIN code PROVE InstFits(n, e, p)'
  <2>1. InstFits(n, d, p) /\ e[p] = d[p] /\ code' = code /\ body' = body
    BY <1>1, <1>9 DEF DepthInv
  <2>2. CASE code[p].opcode = "RET"
    BY <2>1, <2>2 DEF InstFits
  <2>3. CASE code[p].opcode # "RET"
    <3>1. code[p].next # body.size /\ code[p].next \in Positions
      BY <1>1, <2>3 DEF EmitInv, InsideInv, NoneBehind, Contiguous, Positions
    <3>2. e[code[p].next] = d[code[p].next]
      BY <1>9, <3>1 DEF Positions
    <3>3. code[p].opcode = "BR" /\ code[p].operand \in Positions => e[code[p].operand] = 0
      <4>1. code[p].opcode = "BR" => code[p].operand # body.size
        <5>1. body.size # Unpatched
          BY <1>1, <1>2, WordAssumption DEF InPlace, Unpatched
        <5>. QED BY <1>1, <5>1 DEF EmitInv, InsideInv, NoneBehind, Open
      <4>. QED BY <1>9, <2>1, <4>1 DEF InstFits, Positions
    <3>. QED BY <1>8, <2>1, <2>3, <3>2, <3>3 DEF InstFits
  <2>. QED BY <2>2, <2>3
<1>11. Carries(n, Restarts(e)', work', e[body'.size], 0)
  <2> DEFINE zeros == Restarts(e)'
  <2>1. Carries(n, zeros, stores, k, 0) /\ stores \in Seq(WorkItem)
    <3>1. stores \in [1..k -> WorkItem]
      <4>1. "STL" \in Opcode \ {"BR"}
        BY DEF Opcode, WithOperand
      <4>2. DOMAIN func.args = 1..k /\ \A i \in 1..k : func.args[i] \in Word
        BY <1>7, LenProperties
      <4>. QED BY <4>1, <4>2, ItemTypes DEF Prelude
    <3>2. stores \in Seq(WorkItem)
      BY <1>7, <3>1, FunctionIsSeq
    <3>. QED BY <1>7, <3>2, CarriesPrelude
  <2>2. Carries(n, zeros, stmts, 0, 0) /\ stmts \in Seq(WorkItem)
    BY <1>7, CarriesStmts, ItemTypes
  <2>3. Carries(n, zeros, Epilogue, 0, 0) /\ Epilogue \in Seq(WorkItem)
    <3>1. InstItem("LDI", 0) \in WorkItem /\ Plain("RET") \in WorkItem
      <4>1. "LDI" \in Opcode \ {"BR"} /\ 0 \in Word
        BY WordAssumption DEF Opcode, WithOperand, Word
      <4>. QED BY <4>1, ItemTypes, PlainTypes
    <3>2. Shifts(n, "LDI", 0, 0, 1) /\ Shifts(n, "RET", 0, 1, 0)
      BY DEF Shifts
    <3>3. ItemShifts(n, zeros, InstItem("LDI", 0), 0, 1) /\ ItemShifts(n, zeros, Plain("RET"), 1, 0)
      BY <3>2, ItemsShift DEF Plain
    <3>4. Carries(n, zeros, <<InstItem("LDI", 0)>> \o <<Plain("RET")>>, 0, 0)
      BY <3>1, <3>3, CarriesTwo
    <3>5. Epilogue = <<InstItem("LDI", 0)>> \o <<Plain("RET")>>
      BY DEF Epilogue
    <3>6. <<InstItem("LDI", 0)>> \o <<Plain("RET")>> \in Seq(WorkItem)
      BY <3>1
    <3>. QED BY <3>4, <3>5, <3>6
  <2> HIDE DEF stores, stmts, k, zeros
  <2>4. Carries(n, zeros, stores \o stmts, k, 0) /\ stores \o stmts \in Seq(WorkItem)
    <3>1. Carries(n, zeros, stores \o stmts, k, 0)
      BY <1>7, <2>1, <2>2, CarriesJoin
    <3>2. stores \o stmts \in Seq(WorkItem)
      BY <2>1, <2>2
    <3>. QED BY <3>1, <3>2
  <2>5. Carries(n, zeros, (stores \o stmts) \o Epilogue, k, 0)
    BY <1>7, <2>3, <2>4, CarriesJoin
  <2>6. e[body'.size] = k
    BY <1>1, <1>9
  <2>. QED BY <1>1, <2>5, <2>6 DEF zeros
<1>12. work' # <<>>
  BY FuncKeepsInv
<1>13. FuncsFit(n, e)'
  <2> DEFINE new == [id |-> func.symbol_id, pos |-> body.size]
  <2>1. /\ Len(symbols') = Len(symbols) + 1 /\ DOMAIN symbols' = 1..Len(symbols) + 1
        /\ symbols'[Len(symbols) + 1] = new
        /\ \A i \in 1..Len(symbols) : symbols'[i] = symbols[i]
    <3>1. new \in Symbol
      BY <1>2, <1>3, TreeAssumption DEF Symbol, IsFunc, Word
    <3>2. symbols' = Append(symbols, new)
      BY <1>1
    <3> HIDE DEF new
    <3>3. /\ Append(symbols, new) \in Seq(Symbol) /\ Len(Append(symbols, new)) = Len(symbols) + 1
          /\ Append(symbols, new)[Len(symbols) + 1] = new
          /\ \A i \in 1..Len(symbols) : Append(symbols, new)[i] = symbols[i]
      BY <1>2, <3>1, AppendProperties
    <3>4. DOMAIN Append(symbols, new) = 1..Len(symbols) + 1
      BY <3>3, LenProperties
    <3>. QED BY <3>2, <3>3, <3>4
  <2>2. /\ Len(symbols') + Len(funcs') = Len(n.tree)
        /\ \A j \in DOMAIN funcs' : funcs'[j] = n.tree[Len(symbols') + j]
    <3>1. Len(symbols) + Len(funcs) = Len(n.tree) /\ \A j \in DOMAIN funcs : funcs[j] = n.tree[Len(symbols) + j]
      BY <1>5 DEF FuncsFit
    <3>2. Len(symbols') + Len(funcs') = Len(n.tree)
      <4>1. \A a, b, c \in Int : a + b = c => (a + 1) + (b - 1) = c
        OBVIOUS
      <4>2. Len(symbols') = Len(symbols) + 1 /\ Len(funcs') = Len(funcs) - 1
        BY <1>1, <1>3, <2>1
      <4>3. Len(symbols) \in Int /\ Len(funcs) \in Int /\ Len(n.tree) \in Int
        BY <1>2, <1>3, <1>4, LenProperties
      <4>. QED BY ONLY <3>1, <4>1, <4>2, <4>3
    <3>3. ASSUME NEW j \in DOMAIN funcs' PROVE funcs'[j] = n.tree[Len(symbols') + j]
      <4>1. funcs'[j] = funcs[j + 1] /\ j + 1 \in DOMAIN funcs /\ j \in Nat
        BY <1>1, <1>3, <3>3
      <4>2. funcs[j + 1] = n.tree[Len(symbols) + (j + 1)]
        BY <3>1, <4>1
      <4>3. Len(symbols) + (j + 1) = Len(symbols') + j
        BY <1>4, <2>1, <4>1
      <4>. QED BY <4>1, <4>2, <4>3
    <3>. QED BY <3>2, <3>3
  <2>3. ASSUME NEW i \in DOMAIN symbols'
        PROVE  /\ symbols'[i].id = n.tree[i].symbol_id
               /\ symbols'[i].pos \in Positions'
               /\ e[symbols'[i].pos] = Len(n.tree[i].args)
    <3>1. CASE i \in DOMAIN symbols
      <4>1. symbols[i].pos \in DOMAIN code /\ symbols'[i] = symbols[i]
            /\ symbols[i].id = n.tree[i].symbol_id /\ d[symbols[i].pos] = Len(n.tree[i].args)
        BY <1>1, <1>4, <1>5, <2>1, <3>1 DEF FuncsFit
      <4>. QED BY <1>8, <1>9, <4>1 DEF Positions
    <3>2. CASE i = Len(symbols) + 1
      BY <1>6, <1>8, <1>9, <2>1, <3>2
    <3>. QED BY <1>4, <2>1, <3>1, <3>2
  <2>4. symbols' # <<>> /\ symbols'[1].pos = 0
    <3>1. symbols' # <<>>
      BY <1>4, <2>1, EmptySeq
    <3>2. CASE symbols = <<>>
      <4>1. Len(symbols) = 0 /\ body.size = 0
        BY <1>5, <3>2, EmptySeq DEF FuncsFit
      <4>. QED BY <2>1, <3>1, <4>1
    <3>3. CASE symbols # <<>>
      <4>1. 1 \in 1..Len(symbols) /\ symbols[1].pos = 0
        BY <1>2, <1>4, <1>5, <3>3, EmptySeq DEF FuncsFit
      <4>. QED BY <2>1, <3>1, <4>1
    <3>. QED BY <3>2, <3>3
  <2>. QED BY <1>12, <2>2, <2>3, <2>4 DEF FuncsFit
<1>14. DepthInv(n, e)'
  BY <1>1, <1>10, <1>11, <1>13 DEF DepthInv
<1>. QED BY <1>14

-----------------------------------------------------------------------------
(* The depths exist as long as the body stays in place.                    *)
EmitDepths(n) == InPlace => \E d : DepthInv(n, d)

LEMMA EmitInitDepths ==
    ASSUME NEW n, EmitInit, n.tree = funcs
    PROVE  EmitDepths(n)
<1>1. /\ work = <<>> /\ symbols = <<>> /\ code = <<>> /\ body.size = 0 /\ funcs \in Seq(Funcs)
  BY TreeAssumption DEF EmitInit, EmptyBuffer
<1>2. DOMAIN code = {} /\ DOMAIN symbols = {} /\ Len(symbols) = 0
  BY <1>1, EmptySeq
<1>3. Positions = {0}
  BY <1>1, <1>2 DEF Positions
<1>4. PICK d \in [Positions -> Nat] : d[0] = 0
  <2> DEFINE d == [p \in {0} |-> 0]
  <2>1. d \in [Positions -> Nat] /\ d[0] = 0
    BY <1>3
  <2> HIDE DEF d
  <2>. QED BY <2>1
<1>5. Carries(n, Restarts(d), work, d[body.size], 0)
  BY <1>1, <1>4, CarriesNone
<1>6. FuncsFit(n, d)
  <2>1. Len(funcs) \in Nat /\ \A j \in DOMAIN funcs : j \in Nat
    BY <1>1, LenProperties
  <2>. QED BY <1>1, <1>2, <2>1 DEF FuncsFit
<1>. QED BY <1>2, <1>5, <1>6 DEF DepthInv, EmitDepths

(* The body never shrinks and never returns to an earlier block.           *)
LEMMA BodyOnlyGrows ==
    ASSUME EmitInv, EmitNext, InPlace'
    PROVE  InPlace
<1>1. body.size \in Nat /\ body.block \in Nat
  BY DEF EmitInv, EmitTypeOK, Buffer
<1>2. CASE UNCHANGED body
  BY <1>2 DEF InPlace, Unpatched
<1>3. ASSUME CodeGrows, body'.size >= body.size PROVE InPlace
  <2>1. body'.size \in Nat /\ body'.block \in Nat /\ body'.block >= body.block
    BY <1>3 DEF CodeGrows, Roomy, Buffer
  <2>. QED BY <1>1, <1>3, <2>1, WordAssumption DEF InPlace, Unpatched
<1>4. ASSUME NEW op, NEW operand, AddsOne(op, operand) PROVE InPlace
  <2>1. CodeGrows /\ body'.size > body.size
    BY <1>4 DEF AddsOne
  <2>. QED BY <1>1, <1>3, <2>1 DEF CodeGrows, Roomy, Buffer
<1>5. ASSUME NEW target, AddsTwo(target) PROVE InPlace
  <2>1. CodeGrows /\ \E q \in Nat : body.size < q /\ q < body'.size
    BY <1>5 DEF AddsTwo
  <2>. QED BY <1>1, <1>3, <2>1 DEF CodeGrows, Roomy, Buffer
<1>6. CASE EmitInst      BY <1>4, <1>6, InstKeepsInv
<1>7. CASE EmitIf        BY <1>4, <1>7, IfKeepsInv
<1>8. CASE EmitWhile     BY <1>4, <1>8, WhileKeepsInv
<1>9. CASE EmitIfElse    BY <1>5, <1>9, IfElseKeepsInv
<1>10. CASE EmitWhileEnd BY <1>5, <1>10, WhileEndKeepsInv
<1>11. CASE EmitExpr \/ EmitBadAssign \/ EmitStmt \/ EmitCondition \/ EmitIfEnd \/ EmitFunc
  BY <1>2, <1>11 DEF EmitExpr, EmitBadAssign, EmitStmt, EmitCondition, EmitIfEnd, EmitFunc,
                     FuncWith, KeepBody
<1>. QED BY <1>6, <1>7, <1>8, <1>9, <1>10, <1>11 DEF EmitNext

LEMMA SameDepths ==
    ASSUME NEW n, NEW d, DepthInv(n, d), UNCHANGED <<funcs, work, symbols, body, code>>
    PROVE  DepthInv(n, d)'
BY DEF DepthInv, InstFits, FuncsFit, Positions, Restarts

LEMMA EmitStepDepths ==
    ASSUME EmitInv, EmitNext, NEW n, Fits(n), n.tree \in Trees, EmitDepths(n)
    PROVE  EmitDepths(n)'
<1> SUFFICES ASSUME InPlace' PROVE \E e : DepthInv(n, e)'
  BY DEF EmitDepths
<1>1. PICK d : DepthInv(n, d)
  BY BodyOnlyGrows DEF EmitDepths
<1>2. CASE EmitInst       BY <1>1, <1>2, InstDepths
<1>3. CASE EmitExpr       BY <1>1, <1>3, ExprDepths
<1>4. CASE EmitBadAssign
  <2>1. UNCHANGED <<funcs, work, symbols, body, code>>
    BY <1>4 DEF EmitBadAssign
  <2>. QED BY <1>1, <2>1, SameDepths
<1>5. CASE EmitStmt       BY <1>1, <1>5, StmtDepths
<1>6. CASE EmitCondition  BY <1>1, <1>6, ConditionDepths
<1>7. CASE EmitIf         BY <1>1, <1>7, IfDepths
<1>8. CASE EmitWhile      BY <1>1, <1>8, WhileDepths
<1>9. CASE EmitIfElse     BY <1>1, <1>9, IfElseDepths
<1>10. CASE EmitIfEnd     BY <1>1, <1>10, IfEndDepths
<1>11. CASE EmitWhileEnd  BY <1>1, <1>11, WhileEndDepths
<1>12. CASE EmitFunc      BY <1>1, <1>12, FuncDepths
<1>. QED BY <1>2, <1>3, <1>4, <1>5, <1>6, <1>7, <1>8, <1>9, <1>10, <1>11, <1>12 DEF EmitNext

(* When nothing is left to emit, every position is that of an instruction. *)
LEMMA EmittedIsBalanced ==
    ASSUME EmitInv, Emitted, InPlace, NEW n, NEW d, DepthInv(n, d)
    PROVE  /\ IsProgram(Program)
           /\ \E depth \in [DOMAIN code -> Nat] : Balanced(n, Program, depth)
<1> DEFINE depth == [p \in DOMAIN code |-> d[p]]
<1>1. depth \in [DOMAIN code -> Nat] /\ \A p \in DOMAIN code : depth[p] = d[p]
  BY DEF DepthInv, Positions
<1>2. Program.code = code /\ Program.symbols = symbols
  BY DEF Program
<1>3. work = <<>> /\ funcs = <<>> /\ symbols \in Seq(Symbol) /\ body.size \in Nat
      /\ FuncsFit(n, d) /\ DOMAIN code \subseteq 0..body.size-1
  BY DEF Emitted, EmitInv, EmitTypeOK, Buffer, DepthInv
<1>4. ASSUME NEW p \in DOMAIN code
      PROVE  /\ p \in Nat /\ code[p] \in Instruction
             /\ code[p].opcode = "RET" => d[p] = 1
             /\ code[p].opcode # "RET" =>
                  /\ code[p].next \in DOMAIN code
                  /\ Shifts(n, code[p].opcode, code[p].operand, d[p], d[code[p].next])
             /\ code[p].opcode = "BR" => code[p].operand \in DOMAIN code /\ d[code[p].operand] = 0
  <2>1. InstFits(n, d, p)
    BY DEF DepthInv
  <2>2. code[p] \in [opcode : Opcode, operand : Nat, next : Nat] /\ p \in 0..body.size-1
    BY <1>3 DEF EmitInv, EmitTypeOK
  <2>3. code[p] \in Instruction
    BY <2>1, <2>2 DEF InstFits, Instruction
  <2>4. code[p].opcode # "RET" => code[p].next \in DOMAIN code
    BY <1>3 DEF EmitInv, Contiguous, InsideInv, NoneBehind
  <2>5. code[p].opcode = "BR" => code[p].operand \in DOMAIN code
    <3>1. Holes = {}
      BY <1>3, EmptySeq DEF Holes
    <3>. QED BY <1>3, <3>1 DEF EmitInv, BranchesPatched, InsideInv, NoneBehind, InPlace, Open
  <2>. QED BY <1>3, <2>1, <2>2, <2>3, <2>4, <2>5 DEF InstFits, Positions
<1>5. IsProgram(Program)
  BY <1>2, <1>3, <1>4 DEF IsProgram
<1>6. Len(symbols) = Len(n.tree)
  <2>1. Len(symbols) + Len(funcs) = Len(n.tree) /\ Len(funcs) = 0 /\ Len(symbols) \in Nat
    BY <1>3, EmptySeq, LenProperties DEF FuncsFit
  <2>. QED BY <2>1
<1>7. \A i \in DOMAIN symbols :
          /\ symbols[i].id = n.tree[i].symbol_id /\ symbols[i].pos \in DOMAIN code
          /\ d[symbols[i].pos] = Len(n.tree[i].args)
  BY <1>3 DEF FuncsFit
<1>8. IF symbols = <<>> THEN DOMAIN code = {} ELSE symbols[1].pos = 0
  <2>1. symbols = <<>> => body.size = 0
    BY <1>3 DEF FuncsFit
  <2>2. symbols # <<>> => symbols[1].pos = 0
    BY <1>3 DEF FuncsFit
  <2>3. body.size = 0 => \A p : p \notin DOMAIN code
    BY <1>3
  <2>. QED BY <2>1, <2>2, <2>3
<1> HIDE DEF depth
<1>9. Balanced(n, Program, depth)
  <2>1. ASSUME NEW pos \in DOMAIN Program.code
        PROVE  LET inst == Program.code[pos]
               IN  IF inst.opcode = "RET" THEN depth[pos] = 1
                   ELSE /\ inst.next \in DOMAIN Program.code
                        /\ Shifts(n, inst.opcode, inst.operand, depth[pos], depth[inst.next])
                        /\ inst.opcode = "BR" => inst.operand \in DOMAIN Program.code
                                                 /\ depth[inst.operand] = 0
    BY <1>1, <1>2, <1>4
  <2>2. \A i \in DOMAIN Program.symbols :
          /\ Program.symbols[i].id = n.tree[i].symbol_id
          /\ Program.symbols[i].pos \in DOMAIN Program.code
          /\ depth[Program.symbols[i].pos] = Len(n.tree[i].args)
    BY <1>1, <1>2, <1>7
  <2>. QED BY <1>2, <1>6, <1>8, <2>1, <2>2 DEF Balanced
<1>. QED BY <1>1, <1>5, <1>9

(* The code is a function from positions to instructions.                  *)
IsMap(c) == c = [p \in DOMAIN c |-> c[p]]

LEMMA WithIsMap == ASSUME NEW c, NEW pos, NEW op, NEW operand, NEW next
                   PROVE  IsMap(With(c, pos, op, operand, next))
BY DEF IsMap, With

LEMMA PatchIsMap == ASSUME NEW c, IsMap(c), NEW b, NEW pos PROVE IsMap(Patch(c, b, pos))
BY DEF IsMap, Patch

LEMMA EmitStepMap == ASSUME IsMap(code), [EmitNext]_emitVars PROVE IsMap(code')
<1>1. CASE EmitInst
  BY <1>1, WithIsMap DEF EmitInst
<1>2. CASE EmitIf \/ EmitWhile
  BY <1>2, WithIsMap DEF EmitIf, EmitWhile, EmitBranch
<1>3. CASE EmitIfElse
  BY <1>3, WithIsMap, PatchIsMap DEF EmitIfElse
<1>4. CASE EmitWhileEnd
  BY <1>4, WithIsMap, PatchIsMap DEF EmitWhileEnd
<1>5. CASE EmitIfEnd
  BY <1>5, PatchIsMap DEF EmitIfEnd
<1>6. CASE EmitExpr \/ EmitBadAssign \/ EmitStmt \/ EmitCondition \/ EmitFunc \/ UNCHANGED emitVars
  BY <1>6 DEF EmitExpr, EmitBadAssign, EmitStmt, EmitCondition, EmitFunc, FuncWith, KeepBody, emitVars
<1>. QED BY <1>1, <1>2, <1>3, <1>4, <1>5, <1>6 DEF EmitNext

(* The depth of the data stack is known at every instruction of compiled   *)
(* code, whatever path leads there: dk_emit_expr leaves one word for every *)
(* expression and dk_emit_stmt_list none for a statement, each branch of   *)
(* an IF or WHILE goes to a place without any, no operation pops more than *)
(* its function has pushed, and a function returns exactly one word.  It   *)
(* is said of the trees that the checker lets pass, however deep they are, *)
(* and of bodies that never moved.                                         *)
THEOREM CodeIsBalanced ==
    ASSUME NEW CONSTANT locals, NEW CONSTANT opcodes,
           \A t \in Trees : Checked(t, locals, opcodes)
    PROVE  EmitSpec => [](Emitted /\ InPlace =>
              \E n \in Nodes(locals, opcodes), depth \in [DOMAIN code -> Nat] :
                  Balanced(n, Program, depth))
<1> DEFINE Inv == EmitInv /\ \E n \in Nodes(locals, opcodes) : EmitDepths(n)
           Claim == Emitted /\ InPlace =>
              \E n \in Nodes(locals, opcodes), depth \in [DOMAIN code -> Nat] :
                  Balanced(n, Program, depth)
<1>1. EmitInit => Inv
  <2> SUFFICES ASSUME EmitInit PROVE Inv
    OBVIOUS
  <2>1. PICK n \in Nodes(locals, opcodes) : n.tree = funcs
    BY DEF EmitInit, Checked
  <2>. QED BY <2>1, EmitInitInv, EmitInitDepths
<1>2. Inv /\ [EmitNext]_emitVars => Inv'
  <2> SUFFICES ASSUME Inv, [EmitNext]_emitVars PROVE Inv'
    OBVIOUS
  <2>1. EmitInv'
    BY EmitStepInv
  <2>2. PICK n \in Nodes(locals, opcodes) : EmitDepths(n)
    OBVIOUS
  <2>3. Fits(n) /\ n.tree \in Trees
    BY DEF Nodes
  <2>4. EmitDepths(n)'
    <3>1. CASE EmitNext
      BY <2>2, <2>3, <3>1, EmitStepDepths
    <3>2. CASE UNCHANGED emitVars
      <4>1. UNCHANGED <<funcs, work, symbols, body, code>>
        BY <3>2 DEF emitVars
      <4>2. InPlace' => InPlace
        BY <4>1 DEF InPlace, Unpatched
      <4>. QED BY <2>2, <4>1, <4>2, SameDepths DEF EmitDepths
    <3>. QED BY <3>1, <3>2
  <2>. QED BY <2>1, <2>4
<1>3. Inv => Claim
  <2> SUFFICES ASSUME Inv, Emitted, InPlace
               PROVE  \E n \in Nodes(locals, opcodes), depth \in [DOMAIN code -> Nat] :
                         Balanced(n, Program, depth)
    OBVIOUS
  <2>1. PICK n \in Nodes(locals, opcodes) : EmitDepths(n)
    OBVIOUS
  <2>. QED BY <2>1, EmittedIsBalanced DEF EmitDepths
<1> HIDE DEF Inv, Claim
<1>4. EmitSpec => []Claim
  BY <1>1, <1>2, <1>3, PTL DEF EmitSpec
<1>. QED BY <1>4 DEF Claim
=============================================================================
