--------------------------- MODULE DkRuntimeProps ---------------------------
(***************************************************************************)
(* What must hold of dk_run_program, whatever program it is given.         *)
(***************************************************************************)
EXTENDS DkRuntime

Live == status # "idle"

(* The assertion after the growth in dk_buffer_push never fires for the    *)
(* two pushes of a call: one doubling always makes room (dk.c,             *)
(* dk_buffer_push), whatever the depth of the recursion.                   *)
PushesFit ==
    \A moved \in Moves : /\ PushFits(calls, FrameSize)
                         /\ PushFits(Push(calls, FrameSize, moved), LocalSize)

(* The headers on the call stack form one chain: each lies a whole         *)
(* activation above the one its prev points at, the newest ends where the  *)
(* buffer ends, only the bottom one returns nowhere.  `frame' and `prev'   *)
(* are raw pointers that survive growth of the buffer, and return_pos -1   *)
(* is what stops the interpreter, so each clause is one CALL and RET       *)
(* could break between them (dk.c, DK_BC_OPCODE_CALL and RET).             *)
HeaderOK(o) ==
    /\ frames[o].loc_base = o + FrameSize
    /\ frames[o].loc_size = LocalSize
    /\ o + Stride <= calls.size

LinkOK(o) ==
    IF o = 0 THEN frames[o].return_pos = -1
    ELSE /\ frames[o].return_pos # -1
         /\ frames[o].prev # Null
         /\ frames[o].prev.off \in DOMAIN frames
         /\ frames[o].prev.off + Stride = o

FrameChain ==
    Live => /\ frame.off \in DOMAIN frames
            /\ frame.off + Stride = calls.size
            /\ frame # Null
            /\ \A o \in DOMAIN frames : HeaderOK(o) /\ LinkOK(o)
            /\ \A o, p \in DOMAIN frames : o < p => o + Stride <= p

(* Pointers never lead into a block newer than the buffer's own, and as    *)
(* long as the buffer was never moved (it is still in its first block)     *)
(* they lead into that block.                                              *)
PointersKnown ==
    Live => /\ frame.block \in 1..calls.block
            /\ \A o \in DOMAIN frames \ {0} : frames[o].prev.block \in 1..calls.block

(* The assertions of RET never fire: the frame popped is whole, and        *)
(* assert(frame != null) holds.  A local access stops the interpreter only *)
(* when its operand lies beyond the words an activation has: no chain of   *)
(* calls and returns makes a local in range unreachable (dk.c, LDL, STL).  *)
FrameAssertsHold ==
    /\ status \notin {"pop", "null"}
    /\ status = "local" => Inst.operand >= LocalSize

(* assert(size <= buffer->size) of dk_buffer_pop and its sibling of         *)
(* dk_buffer_get hold of the call stack for a program whose local operands *)
(* are all in range, whatever the depth of its recursion.                  *)
CallStackAssertsHold == status \notin {"pop", "local", "stale"}

(* While heap_realloc has never moved the call stack, no frame pointer is  *)
(* stale: the interpreter reads no freed memory.                           *)
UnmovedIsFresh == Live /\ calls.block = 1 => ~Stale(calls, frame) /\ status # "stale"

(* A frame returns to the position right after a CALL instruction of the   *)
(* program, or it is the initial one.                                      *)
ReturnSites ==
    \A o \in DOMAIN frames :
        \/ frames[o].return_pos = -1
        \/ \E pos \in DOMAIN program.code :
              /\ program.code[pos].opcode = "CALL"
              /\ program.code[pos].next = frames[o].return_pos

(* No step changes a local of a suspended activation: only the activation  *)
(* on top of the call stack is written, whether by STL, by pushing a new   *)
(* activation, by growing the buffer or by a return.                       *)
Suspended == {o \in DOMAIN frames : o # frame.off}
LocalsOf(o) == frames[o].loc_base .. frames[o].loc_base + frames[o].loc_size - 1

CallerLocalsKept ==
    [][\A o \in Suspended :
         /\ o \in DOMAIN frames' /\ frames'[o] = frames[o]
         /\ \A i \in LocalsOf(o) : words'[i] = words[i]]_vars

(* What the call stack stands for: activations, named by the offset of     *)
(* their header, the current one, and whether calls were ever nested       *)
(* deeper than the first allocation has room for.                          *)
Activations ==
    [o \in DOMAIN frames |->
        [locals |-> [i \in 0..LocalSize-1 |-> words[frames[o].loc_base + i]],
         ret    |-> frames[o].return_pos,
         caller |-> IF frames[o].prev = Null THEN -1 ELSE frames[o].prev.off]]
CurrentActivation == IF status = "idle" THEN -1 ELSE frame.off
NestedDeep        == calls.capacity > InitialCapacity
Outcome           == IF status \in Traps THEN "fault" ELSE status

(* The interpreter implements the machine with private activations: for    *)
(* good if calls are never nested deeper than the first allocation of the  *)
(* call stack has room for, and until it stops otherwise.                  *)
Machine == INSTANCE DkMachine WITH
    Depth   <- InitialCapacity \div Stride,
    deep    <- NestedDeep,
    acts    <- Activations,
    current <- CurrentActivation,
    status  <- Outcome

ImplementsMachine == Machine!Spec

(* A program whose loops and recursion end is run to its end.              *)
Finished   == status \notin {"idle", "run"}
Terminates == <>Finished
=============================================================================
