----------------------------- MODULE DkMachine ------------------------------
(***************************************************************************)
(* What dk_run_program promises, without its memory: a stack machine whose *)
(* calls have private activations.  An activation keeps LocalSize words    *)
(* that no other activation can reach, the position to return to and its   *)
(* caller.  A call makes a fresh activation, with arbitrary words in it; a *)
(* return discards the current one and resumes its caller.  The machine    *)
(* fails only when the program asks for something that does not exist: a   *)
(* position outside the code, a word the data stack does not have, a local *)
(* beyond LocalSize, an unknown symbol, a division that has no result; or  *)
(* when it needs an activation after calls were nested deeper than Depth,  *)
(* from when on activations may be lost.                                   *)
(***************************************************************************)
EXTENDS DkBytecode, SequencesExt

CONSTANTS Programs, LocalSize,
          Depth   \* how many activations the machine is sure to keep

VARIABLES program, ip, data,
          acts,     \* activation -> [locals, ret, caller]
          current,  \* the activation whose code runs
          deep,     \* calls were nested deeper than Depth
          output, status

machineVars == <<program, ip, data, acts, current, deep, output, status>>

Locals == [0..LocalSize-1 -> Word]
Inst   == program.code[ip]
Act    == acts[current]
Tops(n)  == SubSeq(data, Len(data) - n + 1, Len(data))
Below(n) == SubSeq(data, 1, Len(data) - n)

ProgramError ==
    \/ ip \notin DOMAIN program.code
    \/ Len(data) < Pops(program, Inst)
    \/ Inst.opcode \in {"LDL", "STL"} /\ Inst.operand >= LocalSize
    \/ Inst.opcode = "CALL" /\ ~(Inst.operand \in Natives \/ HasSymbol(program, Inst.operand))
    \/ Inst.opcode \in {"UDIV", "IDIV"} /\ DivideFaults(Inst.opcode, Tops(2)[1], Tops(2)[2])

Lost == deep /\ Inst.opcode \in {"LDL", "STL", "RET"}

Fail ==
    /\ status = "run" /\ ip # -1 /\ (ProgramError \/ Lost)
    /\ status' = "fault"
    /\ UNCHANGED <<program, ip, data, acts, current, deep, output>>

Step == status = "run" /\ ~ProgramError /\ UNCHANGED <<program, status>>

(* The words an instruction without effect on activations leaves on top    *)
(* of the data stack in place of the ones it popped.                       *)
Replaced(inst, top) ==
    CASE inst.opcode = "LDI" -> <<inst.operand>>
      [] inst.opcode = "LDL" -> <<Act.locals[inst.operand]>>
      [] inst.opcode = "DUP" -> top \o top
      [] inst.opcode \in UnOps  -> <<CalcUnary(inst.opcode, top[1])>>
      [] inst.opcode \in BinOps -> <<Calc(inst.opcode, top[1], top[2])>>
      [] inst.opcode = "CALL"   -> <<0>>
      [] OTHER -> <<>>

Simple ==
    /\ Step
    /\ \/ Inst.opcode \notin {"CALL", "RET", "BR", "STL"}
       \/ Inst.opcode = "CALL" /\ Inst.operand \in Natives
    /\ LET n == Pops(program, Inst) IN data' = Below(n) \o Replaced(Inst, Tops(n))
    /\ output' = IF Inst.opcode = "CALL"
                 THEN Append(output, Printed(Inst.operand, Tops(1)[1])) ELSE output
    /\ ip' = Inst.next
    /\ UNCHANGED <<acts, current, deep>>

Store ==
    /\ Step /\ Inst.opcode = "STL"
    /\ acts' = [acts EXCEPT ![current].locals[Inst.operand] = Tops(1)[1]]
    /\ data' = Below(1) /\ ip' = Inst.next
    /\ UNCHANGED <<current, deep, output>>

Branch ==
    /\ Step /\ Inst.opcode = "BR"
    /\ data' = Below(1)
    /\ ip' = IF Tops(1)[1] = 0 THEN Inst.next
             ELSE IF Inst.operand = WordMax THEN -1 ELSE Inst.operand
    /\ UNCHANGED <<acts, current, deep, output>>

(* A fresh activation, known by whatever name the step adds to acts.       *)
Fresh(ret, caller) ==
    \E new \in DOMAIN acts' \ DOMAIN acts :
        /\ acts'[new].locals \in Locals
        /\ acts' = [a \in DOMAIN acts \cup {new} |->
                      IF a = new THEN [locals |-> acts'[new].locals, ret |-> ret, caller |-> caller]
                      ELSE acts[a]]
        /\ current' = new
    /\ deep' = (deep \/ Cardinality(DOMAIN acts') > Depth)

Call ==
    /\ Step /\ Inst.opcode = "CALL" /\ Inst.operand \notin Natives
    /\ Fresh(Inst.next, current)
    /\ ip' = SymbolPos(program, Inst.operand)
    /\ UNCHANGED <<data, output>>

Return ==
    /\ Step /\ Inst.opcode = "RET" /\ Act.ret # -1
    /\ ip' = Act.ret /\ current' = Act.caller
    /\ acts' = [a \in DOMAIN acts \ {current} |-> acts[a]]
    /\ UNCHANGED <<data, deep, output>>

Exit ==
    /\ status = "run" /\ ~ProgramError /\ Inst.opcode = "RET" /\ Act.ret = -1
    /\ status' = "exit"
    /\ output' = IF Len(data) = 1 THEN output ELSE Append(output, WrongSize)
    /\ UNCHANGED <<program, ip, data, acts, current, deep>>

Boot ==
    /\ status = "idle" /\ status' = "run"
    /\ Fresh(-1, -1)
    /\ ip' = 0 /\ data' = <<>> /\ output' = <<>>
    /\ UNCHANGED program

(* A branch to U64_MAX restarts the code at position 0.                    *)
Restart ==
    /\ status = "run" /\ ip = -1 /\ ip' = 0
    /\ UNCHANGED <<program, data, acts, current, deep, output, status>>

Next == Boot \/ Simple \/ Store \/ Branch \/ Call \/ Return \/ Exit \/ Restart \/ Fail

Init ==
    /\ program \in Programs
    /\ ip = 0 /\ data = <<>> /\ output = <<>> /\ status = "idle"
    /\ acts = <<>> /\ current = -1 /\ deep = FALSE

Spec == Init /\ [][Next]_machineVars
=============================================================================
