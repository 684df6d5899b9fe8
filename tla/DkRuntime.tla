----------------------------- MODULE DkRuntime ------------------------------
(***************************************************************************)
(* dk_run_program: the interpreter of dansk bytecode.                      *)
(*                                                                         *)
(* The call stack is one dk_buffer.  A call pushes a dk_call_frame header  *)
(* and then the locals of the callee, and the C local `frame' keeps a raw  *)
(* pointer to the newest header.  Growing the buffer may move it, and then *)
(* `frame' and the `prev' pointers point into freed memory.  The freed     *)
(* bytes may still be intact, in which case they equal the moved copy, or  *)
(* hold whatever the allocator put there, in which case the bounds         *)
(* assertion that follows the read stops the process.                      *)
(*                                                                         *)
(* Sizes on the call stack are in words of 8 bytes.  Locals are never      *)
(* cleared: a new activation finds what was there before, and a new part   *)
(* of the heap block holds an arbitrary word.                              *)
(***************************************************************************)
EXTENDS DkBytecode, DkBuffer, SequencesExt

CONSTANTS Programs,    \* the programs that may be run
          FrameSize,   \* sizeof(dk_call_frame)
          LocalSize,   \* hardcoded_local_size
          Moves,       \* may heap_realloc move (TRUE) or extend in place (FALSE)
          Fills        \* words found in fresh heap memory

ASSUME RuntimeAssumption ==
    /\ \A p \in Programs : IsProgram(p)
    /\ FrameSize \in Nat \ {0} /\ LocalSize \in Nat \ {0}
    /\ FrameSize + LocalSize <= InitialCapacity
    /\ Moves \subseteq BOOLEAN
    /\ Fills \subseteq Word

VARIABLES program,  \* the dk_program being run
          ip,       \* position in its body
          data,     \* data_stack
          calls,    \* call_stack, the header of the buffer
          frames,   \* the live dk_call_frame headers, by their offset in it
          words,    \* the words of its block, locals among them
          frame,    \* the C local of that name: a pointer to a header
          output,   \* output_list
          status    \* "idle" before the call, "run", "exit", or the failed check

vars == <<program, ip, data, calls, frames, words, frame, output, status>>

Null   == [block |-> 0, off |-> 0]
Stride == FrameSize + LocalSize
Frame  == [loc_base : Nat, loc_size : Nat, return_pos : Nat \cup {-1}, prev : Pointer]

Traps  == {"read", "data", "local", "symbol", "divide", "pop", "null", "stale"}

TypeOK ==
    /\ program \in Programs
    /\ ip \in Nat \cup {-1}
    /\ data \in Seq(Word)
    /\ calls \in Buffer /\ calls.size <= calls.capacity
    /\ DOMAIN frames \subseteq Nat
    /\ \A o \in DOMAIN frames : frames[o] \in Frame
    /\ words \in [0..calls.capacity-1 -> Word]
    /\ frame \in Pointer
    /\ output \in Seq(OutputLine)
    /\ status \in {"idle", "run", "exit"} \cup Traps

Inst  == program.code[ip]
(* What *frame reads: the header, or its old copy that still equals it.    *)
Cur   == frames[frame.off]
Arg(i) == data[Len(data) - i]
Drop(n) == SubSeq(data, 1, Len(data) - n)

-----------------------------------------------------------------------------
(* The assertions (and the SIGFPE) an instruction can run into.            *)

ReadFails    == ip \notin DOMAIN program.code /\ ip # -1
DataFails    == Len(data) < Pops(program, Inst)
LocalFails   == /\ Inst.opcode \in {"LDL", "STL"} /\ ~DataFails
                /\ ~GetFits(calls, Cur.loc_base + Inst.operand, 1)
SymbolFails  == /\ Inst.opcode = "CALL" /\ Inst.operand \notin Natives
                /\ ~HasSymbol(program, Inst.operand)
DivideFails  == /\ Inst.opcode \in {"UDIV", "IDIV"}
                /\ ~DataFails /\ DivideFaults(Inst.opcode, Arg(1), Arg(0))
Returning    == Inst.opcode = "RET" /\ Cur.return_pos # -1
PopFails     == Returning /\ ~PopFits(calls, Cur.loc_size + FrameSize)
NullFails    == Returning /\ Cur.prev = Null

Fails(t) ==
    CASE t = "data"   -> DataFails
      [] t = "local"  -> LocalFails
      [] t = "symbol" -> SymbolFails
      [] t = "divide" -> DivideFails
      [] t = "pop"    -> PopFails
      [] t = "null"   -> NullFails
      [] t = "stale"  -> Inst.opcode \in {"LDL", "STL", "RET"} /\ Stale(calls, frame)

Trap ==
    /\ status = "run" /\ ip # -1
    /\ \/ ReadFails  /\ status' = "read"
       \/ ~ReadFails /\ \E t \in Traps \ {"read"} : Fails(t) /\ status' = t
    /\ UNCHANGED <<program, ip, data, calls, frames, words, frame, output>>

(* An instruction is fetched and none of its checks fails.  A stale frame  *)
(* may still read as it was, so it does not by itself disable a step.      *)
Step(opcodes) ==
    /\ status = "run" /\ ip \in DOMAIN program.code
    /\ Inst.opcode \in opcodes
    /\ \A t \in Traps \ {"read", "stale"} : ~Fails(t)
    /\ UNCHANGED <<program, status>>

OnData(newData) ==
    /\ ip' = Inst.next
    /\ data' = newData
    /\ UNCHANGED <<calls, frames, words, frame>>

-----------------------------------------------------------------------------
(* Growth of the block under the locals.                                   *)

(* Not the code: allocates a larger block without copying the old one.     *)
GrownAfresh(after) ==
    \E fill \in Fills : words' = [i \in 0..after.capacity-1 |-> fill]

Grown(after) ==
    \E fill \in Fills :
        words' = [i \in 0..after.capacity-1 |-> IF i \in DOMAIN words THEN words[i] ELSE fill]

(* The two pushes of an activation: its header, then its locals.  Only the *)
(* pointer to the header survives in `frame'; ret is where it returns to.  *)
PushActivation(ret, prev, loc_base, loc_size) ==
    \E moved1, moved2 \in Moves :
        LET header == Push(calls, FrameSize, moved1)
            after  == Push(header, LocalSize, moved2)
        IN  /\ PushFits(calls, FrameSize) /\ PushFits(header, LocalSize)
            /\ calls'  = after
            /\ frames' = [o \in DOMAIN frames \cup {calls.size} |->
                            IF o = calls.size
                            THEN [loc_base   |-> loc_base, loc_size |-> loc_size,
                                  return_pos |-> ret,      prev     |-> prev]
                            ELSE frames[o]]
            /\ frame'  = Pushed(calls, header)
            /\ Grown(after)

(* Not the code: the header counted twice when the activation is popped.   *)
PushFrameCountingHeader(ret, prev) == PushActivation(ret, prev, calls.size + FrameSize, Stride)

PushFrame(ret, prev) == PushActivation(ret, prev, calls.size + FrameSize, LocalSize)

(* "Setup initial call frame": ip starts at 0, the first user function.    *)
Start ==
    /\ status = "idle"
    /\ PushFrame(-1, Null)
    /\ ip' = 0 /\ data' = <<>> /\ output' = <<>> /\ status' = "run"
    /\ UNCHANGED program

Nop == Step({"NOP"}) /\ OnData(data) /\ UNCHANGED output
Ldi == Step({"LDI"}) /\ OnData(Append(data, Inst.operand)) /\ UNCHANGED output
Pop1 == Step({"POP"}) /\ OnData(Drop(1)) /\ UNCHANGED output
Dup == Step({"DUP"}) /\ OnData(Drop(1) \o <<Arg(0), Arg(0)>>) /\ UNCHANGED output

BinOp ==
    /\ Step(BinOps)
    /\ OnData(Append(Drop(2), Calc(Inst.opcode, Arg(1), Arg(0))))
    /\ UNCHANGED output

UnOp ==
    /\ Step(UnOps)
    /\ OnData(Append(Drop(1), CalcUnary(Inst.opcode, Arg(0))))
    /\ UNCHANGED output

Ldl ==
    /\ Step({"LDL"})
    /\ OnData(Append(data, words[Cur.loc_base + Inst.operand]))
    /\ UNCHANGED output

Stl ==
    /\ Step({"STL"})
    /\ ip' = Inst.next
    /\ words' = [words EXCEPT ![Cur.loc_base + Inst.operand] = Arg(0)]
    /\ data' = Drop(1)
    /\ UNCHANGED <<calls, frames, frame, output>>

(* Not the code: a print that pushes no result.                            *)
CallNativeWithoutResult ==
    /\ Step({"CALL"}) /\ Inst.operand \in Natives
    /\ output' = Append(output, Printed(Inst.operand, Arg(0)))
    /\ OnData(Drop(1))

(* A built-in print: pops its argument and pushes 0.                       *)
CallNative ==
    /\ Step({"CALL"}) /\ Inst.operand \in Natives
    /\ output' = Append(output, Printed(Inst.operand, Arg(0)))
    /\ OnData(Append(Drop(1), 0))

Enter(ret, prev) ==
    /\ Step({"CALL"}) /\ Inst.operand \notin Natives
    /\ PushFrame(ret, prev)
    /\ ip' = SymbolPos(program, Inst.operand)
    /\ UNCHANGED <<data, output>>

(* Not the code: returns to the CALL itself.                               *)
CallUserReturningToItself == Enter(ip, frame)

CallUser == Enter(Inst.next, frame)

(* Not the code: pops the header but leaves the locals.                    *)
RetKeepingLocals ==
    /\ Step({"RET"}) /\ Returning
    /\ ip' = Cur.return_pos
    /\ calls' = Pop(calls, FrameSize)
    /\ frames' = [o \in {o \in DOMAIN frames : o < calls'.size} |-> frames[o]]
    /\ frame' = Cur.prev
    /\ UNCHANGED <<data, words, output>>

(* RET pops the locals and the header, then follows the popped header's    *)
(* prev, which lies above the new end of the buffer but in its block.      *)
Ret ==
    /\ Step({"RET"}) /\ Returning
    /\ ip' = Cur.return_pos
    /\ calls' = Pop(Pop(calls, Cur.loc_size), FrameSize)
    /\ frames' = [o \in {o \in DOMAIN frames : o < calls'.size} |-> frames[o]]
    /\ frame' = Cur.prev
    /\ UNCHANGED <<data, words, output>>

(* RET in the initial frame leaves the loop; the output says so when the   *)
(* data stack does not hold exactly one word (8 bytes).                    *)
Exit ==
    /\ status = "run" /\ ip \in DOMAIN program.code
    /\ Inst.opcode = "RET" /\ Cur.return_pos = -1
    /\ status' = "exit"
    /\ output' = IF Len(data) = 1 THEN output ELSE Append(output, WrongSize)
    /\ UNCHANGED <<program, ip, data, calls, frames, words, frame>>

Br ==
    /\ Step({"BR"})
    /\ ip' = IF Arg(0) # 0 THEN (IF Inst.operand = WordMax THEN -1 ELSE Inst.operand)
             ELSE Inst.next
    /\ data' = Drop(1)
    /\ UNCHANGED <<calls, frames, words, frame, output>>

(* Not the code: a read that does not advance its position.                *)
ReadBeforeInPlace == status = "run" /\ ip = -1 /\ UNCHANGED vars

(* A branch left at U64_MAX makes ip the i64 -1, which passes the bounds   *)
(* assertion of dk_buffer_read (-1 + 1 <= size) and reads the byte before  *)
(* the block: the high byte of the allocator's chunk size, 0, a NOP.       *)
ReadBefore ==
    /\ status = "run" /\ ip = -1
    /\ ip' = 0
    /\ UNCHANGED <<program, data, calls, frames, words, frame, output, status>>

Next == \/ Start \/ Nop \/ Ldi \/ Ldl \/ Stl \/ Pop1 \/ Dup \/ BinOp \/ UnOp
        \/ CallNative \/ CallUser \/ Ret \/ Exit \/ Br \/ ReadBefore \/ Trap

Init ==
    /\ program \in Programs
    /\ ip = 0 /\ data = <<>> /\ output = <<>> /\ status = "idle"
    /\ calls = EmptyBuffer /\ frames = <<>> /\ words = [i \in 0..-1 |-> 0]
    /\ frame = Null

Spec == Init /\ [][Next]_vars
(* The interpreter is one C loop: while a step is possible it takes one.   *)
FairSpec == Spec /\ WF_vars(Next)
=============================================================================
