--------------------------- MODULE DkSystemProofs ---------------------------
(***************************************************************************)
(* Compiled programs run as they should: what the emitter's proofs say of  *)
(* the code and the interpreter's proofs say of the call stack, together.  *)
(***************************************************************************)
EXTENDS DkSystemProps, DkEmitProofs

(* The interpreter is proved about for all programs.                       *)
AllPrograms ==
    [symbols : Seq(Symbol), code : UNION {[S -> Instruction] : S \in SUBSET Nat}]

R == INSTANCE DkRuntimeProofs WITH InitialCapacity <- StackCapacity, Programs <- AllPrograms

LEMMA Assumptions ==
    /\ R!WordAssumption /\ R!NativeAssumption /\ R!CapacityAssumption /\ R!RuntimeAssumption
<1>1. R!WordAssumption
  BY WordAssumption DEF R!WordAssumption
<1>2. R!NativeAssumption
  BY NativeAssumption DEF R!NativeAssumption
<1>3. R!CapacityAssumption
  BY SystemAssumption DEF R!CapacityAssumption
<1>4. R!RuntimeAssumption
  <2>1. \A p \in AllPrograms : R!IsProgram(p)
    <3> SUFFICES ASSUME NEW p \in AllPrograms PROVE R!IsProgram(p)
      OBVIOUS
    <3>1. /\ p.symbols \in Seq(Symbol)
          /\ \A pos \in DOMAIN p.code : pos \in Nat /\ p.code[pos] \in Instruction
      BY DEF AllPrograms
    <3>. QED BY <3>1 DEF R!IsProgram, R!Symbol, R!Instruction, Symbol, Instruction, R!Word, Word,
                R!Opcode, Opcode, R!BinOps, BinOps, R!IntOps, IntOps, R!FloatOps, FloatOps,
                R!UnOps, UnOps, R!WithOperand, WithOperand
  <2>. QED BY <2>1, SystemAssumption DEF R!RuntimeAssumption, R!Word, Word
<1>. QED BY <1>1, <1>2, <1>3, <1>4

(* Its definitions are the same wherever it is instantiated.               *)
LEMMA SameCalls ==
    ASSUME NEW ret, NEW prev
    PROVE  Runtime!PushFrame(ret, prev) => R!PushFrame(ret, prev)
BY DEF Runtime!PushFrame, R!PushFrame, Runtime!PushActivation, R!PushActivation,
       Runtime!Grown, R!Grown, Runtime!Push, R!Push, Runtime!PushFits, R!PushFits,
       Runtime!Grows, R!Grows, Runtime!NextCapacity, R!NextCapacity, Runtime!Pushed, R!Pushed

LEMMA SameData ==
    /\ Runtime!Inst = R!Inst /\ Runtime!Cur = R!Cur /\ Runtime!Natives = R!Natives
    /\ \A i : Runtime!Arg(i) = R!Arg(i)
    /\ \A n : Runtime!Drop(n) = R!Drop(n)
    /\ \A d : Runtime!OnData(d) => R!OnData(d)
BY DEF Runtime!Inst, R!Inst, Runtime!Cur, R!Cur, Runtime!Natives, R!Natives,
       Runtime!Arg, R!Arg, Runtime!Drop, R!Drop, Runtime!OnData, R!OnData

LEMMA SameOpcodes == Runtime!BinOps = R!BinOps /\ Runtime!UnOps = R!UnOps
BY DEF Runtime!BinOps, R!BinOps, Runtime!IntOps, R!IntOps, Runtime!FloatOps, R!FloatOps,
       Runtime!UnOps, R!UnOps

LEMMA SameCalc ==
    /\ \A op, a, b : Runtime!Calc(op, a, b) = R!Calc(op, a, b)
    /\ \A op, a : Runtime!CalcUnary(op, a) = R!CalcUnary(op, a)
    /\ \A op, a : Runtime!Printed(op, a) = R!Printed(op, a)
BY DEF Runtime!Calc, R!Calc, Runtime!CalcUnary, R!CalcUnary, Runtime!Printed, R!Printed,
       Runtime!CalcInt, R!CalcInt, Runtime!CalcFloat, R!CalcFloat, Runtime!IntOps, R!IntOps,
       Runtime!u64, R!u64, Runtime!i64, R!i64, Runtime!Trunc, R!Trunc,
       Runtime!f64_from_u64, R!f64_from_u64, Runtime!u64_from_f64, R!u64_from_f64,
       Runtime!Infinity, R!Infinity, Runtime!FloatQuotient, R!FloatQuotient,
       Runtime!BoolWord, R!BoolWord, Runtime!FloatBool, R!FloatBool

LEMMA SameSymbols ==
    \A p, id : /\ Runtime!HasSymbol(p, id) <=> R!HasSymbol(p, id)
               /\ Runtime!SymbolPos(p, id) = R!SymbolPos(p, id)
BY SMTT(30) DEF Runtime!HasSymbol, R!HasSymbol, Runtime!SymbolPos, R!SymbolPos

LEMMA SameChecks ==
    /\ Runtime!ReadFails <=> R!ReadFails
    /\ Runtime!Returning <=> R!Returning
    /\ Runtime!Traps = R!Traps
    /\ \A t : Runtime!Fails(t) <=> R!Fails(t)
    /\ \A ops : Runtime!Step(ops) => R!Step(ops)
BY DEF Runtime!ReadFails, R!ReadFails, Runtime!Returning, R!Returning, Runtime!Traps, R!Traps,
       Runtime!Fails, R!Fails, Runtime!Step, R!Step, Runtime!DataFails, R!DataFails,
       Runtime!Pops, R!Pops, Runtime!LocalFails, R!LocalFails, Runtime!SymbolFails, R!SymbolFails,
       Runtime!DivideFails, R!DivideFails, Runtime!PopFails, R!PopFails,
       Runtime!NullFails, R!NullFails, Runtime!Stale, R!Stale, Runtime!Null, R!Null,
       Runtime!GetFits, R!GetFits, Runtime!PopFits, R!PopFits, Runtime!HasSymbol, R!HasSymbol,
       Runtime!DivideFaults, R!DivideFaults, Runtime!MinInt, R!MinInt, Runtime!i64, R!i64,
       Runtime!Inst, R!Inst, Runtime!Cur, R!Cur, Runtime!Arg, R!Arg, Runtime!Natives, R!Natives,
       Runtime!BinOps, R!BinOps, Runtime!IntOps, R!IntOps, Runtime!FloatOps, R!FloatOps,
       Runtime!UnOps, R!UnOps

LEMMA SameNext == Runtime!Next => R!Next
<1>1. Runtime!Start => R!Start
  BY SameCalls DEF Runtime!Start, R!Start, Runtime!Null, R!Null
<1>2. Runtime!Nop => R!Nop
  BY SameChecks, SameData DEF Runtime!Nop, R!Nop
<1>3. Runtime!Ldi => R!Ldi
  BY SameChecks, SameData DEF Runtime!Ldi, R!Ldi
<1>4. Runtime!Ldl => R!Ldl
  BY SameChecks, SameData DEF Runtime!Ldl, R!Ldl
<1>5. Runtime!Stl => R!Stl
  BY SameChecks, SameData DEF Runtime!Stl, R!Stl
<1>6. Runtime!Pop1 => R!Pop1
  BY SameChecks, SameData DEF Runtime!Pop1, R!Pop1
<1>7. Runtime!Dup => R!Dup
  BY SameChecks, SameData DEF Runtime!Dup, R!Dup
<1>8. Runtime!BinOp => R!BinOp
  BY SameChecks, SameData, SameCalc, SameOpcodes DEF Runtime!BinOp, R!BinOp
<1>9. Runtime!UnOp => R!UnOp
  BY SameChecks, SameData, SameCalc, SameOpcodes DEF Runtime!UnOp, R!UnOp
<1>10. Runtime!CallNative => R!CallNative
  BY SameChecks, SameData, SameCalc DEF Runtime!CallNative, R!CallNative
<1>11. Runtime!CallUser => R!CallUser
  BY SameChecks, SameData, SameCalls, SameSymbols
     DEF Runtime!CallUser, R!CallUser, Runtime!Enter, R!Enter
<1>12. Runtime!Ret => R!Ret
  BY SameChecks, SameData DEF Runtime!Ret, R!Ret, Runtime!Pop, R!Pop
<1>13. Runtime!Exit => R!Exit
  BY SameData DEF Runtime!Exit, R!Exit, Runtime!WrongSize, R!WrongSize
<1>14. Runtime!Br => R!Br
  BY SameChecks, SameData DEF Runtime!Br, R!Br
<1>15. Runtime!ReadBefore => R!ReadBefore
  BY DEF R!ReadBefore, Runtime!ReadBefore
<1>16. Runtime!Trap => R!Trap
  BY SameChecks DEF Runtime!Trap, R!Trap
<1>. QED BY <1>1, <1>2, <1>3, <1>4, <1>5, <1>6, <1>7, <1>8, <1>9, <1>10, <1>11, <1>12, <1>13,
            <1>14, <1>15, <1>16 DEF Runtime!Next, R!Next

LEMMA FramesOfRun ==
    ASSUME R!Inv, status # "idle"
    PROVE  /\ frame.off \in DOMAIN frames /\ DOMAIN frames \subseteq Nat
           /\ frame.off + R!Stride = calls.size /\ calls.size \in Nat /\ R!Stride \in Nat \ {0}
           /\ \A o \in DOMAIN frames : o + R!Stride <= calls.size
           /\ \A o \in DOMAIN frames \ {0} : frames[o].prev.off \in DOMAIN frames
           /\ data \in Seq(Word) /\ Len(data) \in Nat
           /\ program \in AllPrograms /\ ip \in Nat \cup {-1}
<1>1. R!TypeOK /\ R!FrameChain /\ R!Live
  BY DEF R!Inv, R!Live
<1>2. /\ frame.off \in DOMAIN frames /\ frame.off + R!Stride = calls.size
      /\ \A o \in DOMAIN frames : R!HeaderOK(o) /\ R!LinkOK(o)
  BY <1>1 DEF R!FrameChain
<1>3. /\ DOMAIN frames \subseteq Nat /\ calls.size \in Nat /\ data \in Seq(R!Word)
      /\ program \in AllPrograms /\ ip \in Nat \cup {-1}
  BY <1>1 DEF R!TypeOK, R!Buffer
<1>4. R!Word = Word /\ R!Stride \in Nat \ {0}
  BY SystemAssumption DEF R!Word, Word, R!Stride
<1>5. \A o \in DOMAIN frames : o + R!Stride <= calls.size
  BY <1>2 DEF R!HeaderOK
<1>6. \A o \in DOMAIN frames \ {0} : frames[o].prev.off \in DOMAIN frames
  BY <1>2 DEF R!LinkOK
<1>. QED BY <1>2, <1>3, <1>4, <1>5, <1>6, LenProperties

-----------------------------------------------------------------------------
(* Heights.  The words of an activation begin where those of its callers   *)
(* end; the arguments the first function would take are not there.  Every  *)
(* activation will be left with one word more than its callers' words,     *)
(* which is what the place it returns to expects.                          *)
Missing(depth) == IF 0 \in DOMAIN program.code THEN depth[0] ELSE 0
Base(depth, o) == IF o = 0 THEN -Missing(depth) ELSE heights[o]

HeightOK(depth, o) ==
    /\ heights[o] \in Int /\ heights[o] >= -Missing(depth)
    /\ frames[o].return_pos \in DOMAIN program.code
    /\ heights[o] + 1 = Base(depth, frames[o].prev.off) + depth[frames[o].return_pos]

AtDepth(depth) ==
    IF DOMAIN program.code = {} THEN ip = 0 /\ frame.off = 0
    ELSE ip \in DOMAIN program.code /\ Len(data) = Base(depth, frame.off) + depth[ip]

HeightsKnown(depth) ==
    /\ DOMAIN heights = DOMAIN frames
    /\ status # "idle" => 0 \in DOMAIN frames /\ heights[0] = 0
    /\ \A o \in DOMAIN frames \ {0} : HeightOK(depth, o)
    /\ status = "run" => AtDepth(depth)

BalancedRun(n, depth) ==
    /\ R!Inv /\ tree = n.tree /\ (status = "idle" => frame.off = 0)
    /\ depth \in [DOMAIN program.code -> Nat] /\ WordMax \notin DOMAIN program.code
    /\ Balanced(n, program, depth)
    /\ HeightsKnown(depth)

HeightsFollow ==
    heights' = [o \in DOMAIN frames' |-> IF o \in DOMAIN heights THEN heights[o] ELSE NewHeight]

LEMMA AtInst ==
    ASSUME NEW n, NEW depth, Balanced(n, program, depth), ip \in DOMAIN program.code
    PROVE  /\ R!Inst.opcode = "RET" => depth[ip] = 1
           /\ R!Inst.opcode # "RET" =>
                 /\ R!Inst.next \in DOMAIN program.code
                 /\ Shifts(n, R!Inst.opcode, R!Inst.operand, depth[ip], depth[R!Inst.next])
                 /\ R!Inst.opcode = "BR" => /\ R!Inst.operand \in DOMAIN program.code
                                            /\ depth[R!Inst.operand] = 0
BY DEF Balanced, R!Inst

LEMMA BaseType ==
    ASSUME NEW n, NEW depth, BalancedRun(n, depth), NEW o \in DOMAIN frames
    PROVE  Base(depth, o) \in Int
<1>1. Missing(depth) \in Nat
  BY DEF Missing, BalancedRun
<1>2. o # 0 => heights[o] \in Int
  BY DEF BalancedRun, HeightsKnown, HeightOK
<1>. QED BY <1>1, <1>2 DEF Base

(* An activation that a step leaves alone keeps its height.                *)
LEMMA OldHeights ==
    ASSUME NEW n, NEW depth, BalancedRun(n, depth), status # "idle", R!Inv', status' # "idle",
           program' = program, HeightsFollow, NEW o \in DOMAIN frames, o \in DOMAIN frames',
           frames'[o] = frames[o]
    PROVE  /\ heights'[o] = heights[o] /\ Base(depth, o)' = Base(depth, o)
           /\ o # 0 => HeightOK(depth, o)'
<1>1. \A p \in DOMAIN frames : p \in DOMAIN frames' =>
         heights'[p] = heights[p] /\ Base(depth, p)' = Base(depth, p)
  BY DEF HeightsFollow, BalancedRun, HeightsKnown, Base, Missing
<1>2. ASSUME o # 0 PROVE HeightOK(depth, o)'
  <2>1. frames[o].prev.off \in DOMAIN frames
    BY <1>2, FramesOfRun DEF BalancedRun
  <2>2. frames'[o].prev.off \in DOMAIN frames'
    <3>1. R!Live' /\ R!FrameChain'
      BY DEF R!Inv, R!Live
    <3>. QED BY <1>2, <3>1 DEF R!FrameChain, R!LinkOK
  <2>. QED BY <1>1, <1>2, <2>1, <2>2 DEF HeightOK, BalancedRun, HeightsKnown, Base, Missing
<1>. QED BY <1>1, <1>2

(* The balance of an instruction is what the interpreter does for it.      *)
LEMMA ShiftsAreMoves ==
    ASSUME NEW n, n.opcodes \subseteq BinOps \cup UnOps, NEW inst, NEW a \in Nat, NEW b \in Nat,
           inst.opcode # "RET", inst.opcode = "CALL" => inst.operand \in Natives,
           Shifts(n, inst.opcode, inst.operand, a, b)
    PROVE  /\ a >= R!Pops(program, inst)
           /\ b = a - R!Pops(program, inst) + R!Pushes(inst)
<1>1. PICK op, k : op = inst.opcode /\ k = inst.operand
  OBVIOUS
<1>2. R!BinOps = BinOps /\ R!UnOps = UnOps /\ R!Natives = Natives
  BY DEF R!BinOps, BinOps, R!IntOps, IntOps, R!FloatOps, FloatOps, R!UnOps, UnOps, R!Natives, Natives
<1>3. UnOps \cap BinOps = {} /\ UnOps \cap {"LDI", "LDL", "STL", "DUP", "POP", "CALL", "RET", "BR"} = {}
      /\ BinOps \cap {"LDI", "LDL", "STL", "DUP", "POP", "CALL", "RET", "BR"} = {}
  BY DEF BinOps, IntOps, FloatOps, UnOps
<1>4. CASE op \in {"LDI", "LDL"}
  <2>1. R!Pops(program, inst) = 0 /\ R!Pushes(inst) = 1
    BY <1>1, <1>2, <1>3, <1>4 DEF R!Pops, R!Pushes
  <2>2. b = a + 1
    BY <1>1, <1>3, <1>4 DEF Shifts
  <2>. QED BY <2>1, <2>2
<1>5. CASE op \in {"STL", "POP", "BR"}
  <2>1. R!Pops(program, inst) = 1 /\ R!Pushes(inst) = 0
    BY <1>1, <1>2, <1>3, <1>5 DEF R!Pops, R!Pushes
  <2>2. b = a - 1 /\ a >= 1
    BY <1>1, <1>3, <1>5 DEF Shifts
  <2>. QED BY <2>1, <2>2
<1>6. CASE op = "DUP"
  <2>1. R!Pops(program, inst) = 1 /\ R!Pushes(inst) = 2
    BY <1>1, <1>2, <1>3, <1>6 DEF R!Pops, R!Pushes
  <2>2. b = a + 1 /\ a >= 1
    BY <1>1, <1>3, <1>6 DEF Shifts
  <2>. QED BY <2>1, <2>2
<1>7. CASE op \in BinOps
  <2>1. R!Pops(program, inst) = 2 /\ R!Pushes(inst) = 1
    BY <1>1, <1>2, <1>3, <1>7 DEF R!Pops, R!Pushes
  <2>2. b = a - 1 /\ a >= 2
    BY <1>1, <1>3, <1>7 DEF Shifts, UnOps
  <2>. QED BY <2>1, <2>2
<1>8. CASE op \in UnOps
  <2>1. R!Pops(program, inst) = 1 /\ R!Pushes(inst) = 1
    BY <1>1, <1>2, <1>3, <1>8 DEF R!Pops, R!Pushes
  <2>2. b = a /\ a >= 1
    BY <1>1, <1>3, <1>8 DEF Shifts
  <2>. QED BY <2>1, <2>2
<1>9. CASE op = "CALL"
  <2>1. R!Pops(program, inst) = 1 /\ R!Pushes(inst) = 1
    BY <1>1, <1>2, <1>3, <1>9 DEF R!Pops, R!Pushes
  <2>2. Takes(n.tree, k, a + 1 - b) /\ b >= 1
    BY <1>1, <1>3, <1>9 DEF Shifts, UnOps
  <2>3. a + 1 - b = 1
    BY <1>1, <1>9, <2>2 DEF Takes
  <2>. QED BY <2>1, <2>2, <2>3
<1>10. op \in {"LDI", "LDL", "STL", "POP", "BR", "DUP", "CALL"} \cup BinOps \cup UnOps
  BY <1>1 DEF Shifts, UnOps
<1>. QED BY <1>4, <1>5, <1>6, <1>7, <1>8, <1>9, <1>10

(* An instruction that stays in its function.                              *)
LEMMA WithinHeights ==
    ASSUME NEW n, Fits(n), NEW depth, BalancedRun(n, depth), R!Within, R!Inv', HeightsFollow
    PROVE  HeightsKnown(depth)' /\ Len(data) >= R!Pops(program, R!Inst)
<1>1. /\ status = "run" /\ UNCHANGED <<program, frames, frame, status>>
      /\ ip \in DOMAIN program.code /\ R!Inst.opcode # "RET"
      /\ R!Inst.opcode = "CALL" => R!Inst.operand \in R!Natives
      /\ \/ ip' = R!Inst.next
         \/ R!Inst.opcode = "BR" /\ ip' = IF R!Inst.operand = WordMax THEN -1 ELSE R!Inst.operand
      /\ Len(data) >= R!Pops(program, R!Inst)
      /\ Len(data') = Len(data) - R!Pops(program, R!Inst) + R!Pushes(R!Inst)
  BY Assumptions, R!WordsMoved DEF BalancedRun
<1>2. /\ R!Inst.next \in DOMAIN program.code
      /\ Shifts(n, R!Inst.opcode, R!Inst.operand, depth[ip], depth[R!Inst.next])
      /\ R!Inst.opcode = "BR" => R!Inst.operand \in DOMAIN program.code /\ depth[R!Inst.operand] = 0
  BY <1>1, AtInst DEF BalancedRun
<1>3. depth[ip] \in Nat /\ depth[R!Inst.next] \in Nat /\ WordMax \notin DOMAIN program.code
  BY <1>1, <1>2 DEF BalancedRun
<1>4. depth[R!Inst.next] = depth[ip] - R!Pops(program, R!Inst) + R!Pushes(R!Inst)
  <2>1. R!Natives = Natives /\ n.opcodes \subseteq BinOps \cup UnOps
    BY DEF R!Natives, Natives, Fits
  <2>. QED BY <1>1, <1>2, <1>3, <2>1, ShiftsAreMoves
<1>5. ip' \in DOMAIN program.code /\ depth[ip'] = depth[R!Inst.next]
  <2>1. R!Inst.opcode = "BR" => depth[R!Inst.next] = 0
    BY <1>2, LeavingShifts
  <2>. QED BY <1>1, <1>2, <1>3, <2>1
<1>6. frame.off \in DOMAIN frames /\ Len(data) \in Nat /\ status # "idle" /\ status' # "idle"
  BY <1>1, FramesOfRun DEF BalancedRun
<1>7. Base(depth, frame.off) \in Int
  BY <1>6, BaseType
<1>8. Len(data) = Base(depth, frame.off) + depth[ip]
  BY <1>1 DEF BalancedRun, HeightsKnown, AtDepth
<1>9. Len(data') = Base(depth, frame.off) + depth[ip']
  <2>1. R!Pops(program, R!Inst) \in Nat /\ R!Pushes(R!Inst) \in Nat
    BY DEF R!Pops, R!Pushes
  <2>2. \A x, y, z, b, p, q \in Int : x = b + y /\ z = y - p + q => x - p + q = b + z
    OBVIOUS
  <2>. QED BY <1>1, <1>3, <1>4, <1>5, <1>6, <1>7, <1>8, <2>1, <2>2
<1>10. \A o \in DOMAIN frames : /\ heights'[o] = heights[o] /\ Base(depth, o)' = Base(depth, o)
                                /\ o # 0 => HeightOK(depth, o)'
  BY <1>1, <1>6, OldHeights
<1>11. Base(depth, frame.off)' = Base(depth, frame.off)
  <2>1. ASSUME NEW o, o = frame.off PROVE Base(depth, o)' = Base(depth, o)
    BY <1>6, <1>10, <2>1
  <2>. QED BY <1>1, <1>6, <1>10, <2>1 DEF Base, Missing
<1>12. AtDepth(depth)'
  BY <1>1, <1>5, <1>9, <1>11 DEF AtDepth
<1>13. DOMAIN heights' = DOMAIN frames' /\ 0 \in DOMAIN frames' /\ heights'[0] = 0
  BY <1>1, <1>6, <1>10 DEF HeightsFollow, BalancedRun, HeightsKnown
<1>. QED BY <1>1, <1>10, <1>12, <1>13 DEF HeightsKnown

LEMMA CodeOfProgram ==
    ASSUME R!Inv
    PROVE  /\ DOMAIN program.code \subseteq Nat
           /\ program.symbols \in Seq(Symbol)
           /\ \A pos \in DOMAIN program.code : program.code[pos] \in Instruction
<1>1. program \in AllPrograms
  BY DEF R!Inv, R!TypeOK
<1>2. PICK S \in SUBSET Nat : program.code \in [S -> Instruction]
  BY <1>1 DEF AllPrograms
<1>. QED BY <1>1, <1>2 DEF AllPrograms

(* The first function begins at 0 and finds the empty stack.               *)
LEMMA StartHeights ==
    ASSUME NEW n, NEW depth, BalancedRun(n, depth), R!Start, R!Inv', HeightsFollow
    PROVE  HeightsKnown(depth)'
<1>1. /\ status = "idle" /\ status' = "run" /\ ip' = 0 /\ data' = <<>> /\ program' = program
      /\ R!PushFrame(-1, R!Null)
  BY DEF R!Start
<1>2. /\ R!TypeOK /\ R!CapacityOK /\ calls.size = 0 /\ frames = <<>>
  BY <1>1 DEF BalancedRun, R!Inv, R!Untouched, R!EmptyBuffer
<1>3. frame'.off = 0 /\ DOMAIN frames' = {0}
  <2>1. frame'.off = calls.size /\ DOMAIN frames' = DOMAIN frames \cup {calls.size}
    BY <1>1, <1>2, Assumptions, R!PushFrameStep
  <2>2. DOMAIN frames = {}
    BY <1>2, EmptySeq
  <2>. QED BY <1>2, <2>1, <2>2
<1>4. DOMAIN heights' = DOMAIN frames' /\ heights'[0] = 0
  <2>1. DOMAIN heights = {}
    BY <1>2, EmptySeq DEF BalancedRun, HeightsKnown
  <2>. QED BY <1>1, <1>3, <2>1 DEF HeightsFollow, NewHeight
<1>5. AtDepth(depth)'
  <2>1. CASE DOMAIN program.code = {}
    BY <1>1, <1>3, <2>1 DEF AtDepth
  <2>2. CASE DOMAIN program.code # {}
    <3>1. program.symbols # <<>> /\ program.symbols[1].pos = 0
      BY <2>2 DEF BalancedRun, Balanced
    <3>2. program.symbols \in Seq(Symbol)
      BY CodeOfProgram DEF BalancedRun
    <3>3. 1 \in DOMAIN program.symbols
      BY <3>1, <3>2, LenProperties, EmptySeq
    <3>4. 0 \in DOMAIN program.code
      BY <3>1, <3>3 DEF BalancedRun, Balanced
    <3>5. depth[0] \in Nat
      BY <3>4 DEF BalancedRun
    <3>. QED BY <1>1, <1>3, <2>2, <3>4, <3>5 DEF AtDepth, Base, Missing
  <2>. QED BY <2>1, <2>2
<1>. QED BY <1>3, <1>4, <1>5 DEF HeightsKnown

(* A call goes to the function that the tree has under that name.          *)
LEMMA CalledFunction ==
    ASSUME NEW locals, NEW opcodes, NEW n \in Nodes(locals, opcodes), NEW depth, BalancedRun(n, depth),
           NEW id, NEW count, id \notin Natives, Takes(n.tree, id, count)
    PROVE  /\ R!HasSymbol(program, id)
           /\ R!SymbolPos(program, id) \in DOMAIN program.code
           /\ depth[R!SymbolPos(program, id)] = count
           /\ Arity(id) = count
<1>1. /\ n.tree \in Seq(Funcs) /\ tree = n.tree
      /\ \A i, j \in DOMAIN n.tree : n.tree[i].symbol_id = n.tree[j].symbol_id => i = j
  BY TreeAssumption DEF Nodes, Fits, BalancedRun
<1>2. PICK i \in DOMAIN n.tree : n.tree[i].symbol_id = id /\ Len(n.tree[i].args) = count
  BY DEF Takes
<1>3. program.symbols \in Seq(Symbol) /\ Len(program.symbols) = Len(n.tree)
  BY CodeOfProgram DEF BalancedRun, Balanced
<1>4. DOMAIN program.symbols = DOMAIN n.tree /\ DOMAIN n.tree \subseteq Nat
  BY <1>1, <1>3, LenProperties
<1>5. \A j \in DOMAIN n.tree :
         /\ program.symbols[j].id = n.tree[j].symbol_id /\ program.symbols[j].pos \in DOMAIN program.code
         /\ depth[program.symbols[j].pos] = Len(n.tree[j].args)
  BY <1>4 DEF BalancedRun, Balanced
<1>6. \A j \in DOMAIN n.tree : program.symbols[j].id = id <=> j = i
  BY <1>1, <1>2, <1>5
<1>7. R!SymbolPos(program, id) = program.symbols[i].pos
  <2> DEFINE last == CHOOSE k \in DOMAIN program.symbols :
                        /\ program.symbols[k].id = id
                        /\ \A j \in DOMAIN program.symbols : j > k => program.symbols[j].id # id
  <2>1. \A j \in DOMAIN program.symbols : j > i => program.symbols[j].id # id
    BY <1>2, <1>4, <1>6
  <2>2. last = i
    BY <1>2, <1>4, <1>6, <2>1
  <2>. QED BY <2>2 DEF R!SymbolPos
<1>8. Arity(id) = Len(n.tree[i].args)
  <2>1. (CHOOSE k \in DOMAIN tree : tree[k].symbol_id = id) = i
    BY <1>1, <1>2
  <2>. QED BY <1>1, <2>1 DEF Arity
<1>. QED BY <1>2, <1>4, <1>5, <1>6, <1>7, <1>8 DEF R!HasSymbol

(* A call finds its arguments above the words of the caller that remain.   *)
LEMMA CallHeights ==
    ASSUME NEW locals, NEW opcodes, NEW n \in Nodes(locals, opcodes), NEW depth, BalancedRun(n, depth),
           R!CallUser, R!Inv', HeightsFollow
    PROVE  HeightsKnown(depth)'
<1> DEFINE id == R!Inst.operand
<1>0. PICK new : new = calls.size
  OBVIOUS
<1>1. /\ status = "run" /\ status' = "run" /\ ip \in DOMAIN program.code /\ UNCHANGED <<program, data>>
      /\ R!Inst.opcode = "CALL" /\ id \notin R!Natives
      /\ ip' = R!SymbolPos(program, id) /\ R!PushFrame(R!Inst.next, frame)
  BY DEF R!CallUser, R!Enter, R!Step
<1>2. R!Inst.next \in DOMAIN program.code
      /\ Shifts(n, "CALL", id, depth[ip], depth[R!Inst.next])
  BY <1>1, AtInst DEF BalancedRun
<1>3. depth[ip] \in Nat /\ depth[R!Inst.next] \in Nat
  BY <1>1, <1>2 DEF BalancedRun
<1>4. PICK count : count = depth[ip] + 1 - depth[R!Inst.next]
  OBVIOUS
<1>5. Takes(n.tree, id, count) /\ depth[R!Inst.next] >= 1
  <2>1. "CALL" \notin BinOps \cup UnOps
    BY DEF BinOps, IntOps, FloatOps, UnOps
  <2>. QED BY <1>2, <1>4, <2>1 DEF Shifts
<1>6. /\ ip' \in DOMAIN program.code /\ depth[ip'] = count /\ Arity(id) = count
  <2>1. id \notin Natives
    BY <1>1 DEF R!Natives, Natives
  <2> HIDE DEF id
  <2>. QED BY <1>1, <1>5, <2>1, CalledFunction
<1>7. /\ frame.off \in DOMAIN frames /\ Len(data) \in Nat /\ new \in Nat
      /\ new \notin DOMAIN frames /\ new # 0
  <2>1. status # "idle" /\ R!Inv
    BY <1>1 DEF BalancedRun
  <2>2. /\ frame.off \in DOMAIN frames /\ Len(data) \in Nat /\ calls.size \in Nat
        /\ \A o \in DOMAIN frames : o \in Nat /\ o + R!Stride <= calls.size
        /\ R!Stride \in Nat \ {0}
    BY <2>1, FramesOfRun
  <2>. QED BY <1>0, <2>2
<1>8. /\ frame'.off = new /\ DOMAIN frames' = DOMAIN frames \cup {new}
      /\ frames'[new].return_pos = R!Inst.next /\ frames'[new].prev = frame
      /\ \A o \in DOMAIN frames : frames'[o] = frames[o]
  <2>1. R!TypeOK /\ R!CapacityOK
    BY DEF BalancedRun, R!Inv
  <2>2. /\ frame'.off = calls.size
        /\ DOMAIN frames' = DOMAIN frames \cup {calls.size}
        /\ frames'[calls.size] = [loc_base   |-> calls.size + FrameSize,
                                  loc_size   |-> LocalSize,
                                  return_pos |-> R!Inst.next, prev |-> frame]
        /\ \A o \in DOMAIN frames : o # calls.size => frames'[o] = frames[o]
    BY <1>1, <2>1, Assumptions, R!PushFrameStep
  <2>. QED BY <1>0, <1>7, <2>2
<1>9. heights'[new] = Len(data) - count /\ DOMAIN heights' = DOMAIN frames'
  <2>1. new \notin DOMAIN heights
    BY <1>7 DEF BalancedRun, HeightsKnown
  <2>2. NewHeight = Len(data) - count
    BY <1>1, <1>6, SameData DEF NewHeight
  <2>. QED BY <1>8, <2>1, <2>2 DEF HeightsFollow
<1> HIDE DEF id
<1>10. \A o \in DOMAIN frames : /\ heights'[o] = heights[o] /\ Base(depth, o)' = Base(depth, o)
                                /\ o # 0 => HeightOK(depth, o)'
  BY <1>1, <1>8, OldHeights
<1>11. Len(data) = Base(depth, frame.off) + depth[ip] /\ Base(depth, frame.off) \in Int
       /\ Base(depth, frame.off) >= -Missing(depth) /\ Missing(depth) \in Nat
  <2>1. Missing(depth) \in Nat
    BY DEF Missing, BalancedRun
  <2>. QED BY <1>1, <1>7, <2>1, BaseType DEF BalancedRun, HeightsKnown, HeightOK, AtDepth, Base
<1>12. HeightOK(depth, new)'
  <2>1. PICK x, b, y, z, m, h :
           /\ x = Len(data) /\ b = Base(depth, frame.off) /\ y = depth[ip]
           /\ z = depth[R!Inst.next] /\ m = Missing(depth) /\ h = heights'[new]
    OBVIOUS
  <2>2. /\ x \in Int /\ b \in Int /\ y \in Int /\ z \in Int /\ m \in Int
        /\ h = x - count /\ count = y + 1 - z /\ x = b + y /\ z >= 1 /\ b >= -m
    BY <1>3, <1>4, <1>5, <1>7, <1>9, <1>11, <2>1
  <2>3. h \in Int /\ h >= -m /\ h + 1 = b + z
    BY ONLY <2>2
  <2>4. heights'[new] \in Int /\ heights'[new] >= -Missing(depth)
        /\ heights'[new] + 1 = Base(depth, frame.off) + depth[R!Inst.next]
    BY <2>1, <2>3
  <2>5. Missing(depth)' = Missing(depth)
    BY <1>1 DEF Missing
  <2>6. Base(depth, frames[new].prev.off)' = Base(depth, frame.off)
    <3>1. PICK o : o = frame.off
      OBVIOUS
    <3>2. Base(depth, o)' = Base(depth, o)
      BY <1>7, <1>10, <3>1
    <3>. QED BY <1>7, <1>8, <2>5, <3>1, <3>2 DEF Base
  <2>. QED BY <1>1, <1>2, <1>8, <2>4, <2>5, <2>6 DEF HeightOK
<1>13. AtDepth(depth)'
  <2>1. Len(data) = (Len(data) - count) + count
    <3>1. count \in Int
      BY <1>3, <1>4
    <3>. QED BY <1>7, <3>1
  <2>. QED BY <1>1, <1>6, <1>7, <1>8, <1>9, <2>1 DEF AtDepth, Base
<1>14. 0 \in DOMAIN frames' /\ heights'[0] = 0
  BY <1>1, <1>8, <1>10 DEF BalancedRun, HeightsKnown
<1>. QED BY <1>8, <1>9, <1>10, <1>12, <1>13, <1>14 DEF HeightsKnown

(* A return leaves one word more than its caller's.                        *)
LEMMA RetHeights ==
    ASSUME NEW n, NEW depth, BalancedRun(n, depth), R!Ret, R!Inv', HeightsFollow
    PROVE  HeightsKnown(depth)' /\ Len(data) = heights[frame.off] + 1
<1>1. /\ status = "run" /\ status' = "run" /\ ip \in DOMAIN program.code /\ UNCHANGED <<program, data>>
      /\ R!Inst.opcode = "RET" /\ ip' = frames[frame.off].return_pos
  BY DEF R!Ret, R!Step, R!Cur
<1>2. depth[ip] = 1
  BY <1>1, AtInst DEF BalancedRun
<1>3. /\ frame.off # 0 /\ frame.off \in DOMAIN frames
      /\ DOMAIN frames' = DOMAIN frames \ {frame.off}
      /\ \A o \in DOMAIN frames' : frames'[o] = frames[o]
      /\ frame' = frames[frame.off].prev
  BY Assumptions, R!RetStep DEF BalancedRun
<1>4. /\ HeightOK(depth, frame.off) /\ Len(data) = Base(depth, frame.off) + depth[ip]
  BY <1>1, <1>3 DEF BalancedRun, HeightsKnown, AtDepth
<1>5. Len(data) = heights[frame.off] + 1
  BY <1>2, <1>3, <1>4 DEF Base
<1>6. \A o \in DOMAIN frames' : /\ heights'[o] = heights[o] /\ Base(depth, o)' = Base(depth, o)
                                /\ o # 0 => HeightOK(depth, o)'
  BY <1>1, <1>3, OldHeights
<1>7. frame'.off \in DOMAIN frames'
  BY <1>1, FramesOfRun DEF R!Inv, R!FrameChain, R!Live
<1>8. AtDepth(depth)'
  <2>1. PICK o : o = frame'.off
    OBVIOUS
  <2>2. Base(depth, o)' = Base(depth, frames[frame.off].prev.off)
    BY <1>3, <1>6, <1>7, <2>1
  <2>3. Len(data) = Base(depth, frames[frame.off].prev.off) + depth[frames[frame.off].return_pos]
        /\ frames[frame.off].return_pos \in DOMAIN program.code
    BY <1>4, <1>5 DEF HeightOK
  <2>. QED BY <1>1, <2>1, <2>2, <2>3 DEF AtDepth, Base, Missing
<1>9. DOMAIN heights' = DOMAIN frames' /\ 0 \in DOMAIN frames' /\ heights'[0] = 0
  BY <1>1, <1>3, <1>6 DEF HeightsFollow, BalancedRun, HeightsKnown
<1>. QED BY <1>5, <1>6, <1>8, <1>9 DEF HeightsKnown

LEMMA StopHeights ==
    ASSUME NEW n, NEW depth, BalancedRun(n, depth), R!Exit \/ R!Trap, R!Inv', HeightsFollow
    PROVE  HeightsKnown(depth)'
<1>1. status = "run" /\ UNCHANGED <<program, frames>> /\ status' \in {"exit"} \cup R!Traps
  BY DEF R!Exit, R!Trap, R!Traps
<1>2. status' \notin {"idle", "run"}
  BY <1>1 DEF R!Traps
<1>3. \A o \in DOMAIN frames : heights'[o] = heights[o] /\ (o # 0 => HeightOK(depth, o)')
  BY <1>1, <1>2, OldHeights
<1>. QED BY <1>1, <1>2, <1>3 DEF HeightsFollow, BalancedRun, HeightsKnown

LEMMA AlwaysInBody ==
    ASSUME NEW n, NEW depth, BalancedRun(n, depth), status = "run"
    PROVE  ip # -1
BY CodeOfProgram DEF BalancedRun, HeightsKnown, AtDepth

(* Every step of the interpreter keeps the heights, and a return finds the *)
(* one word it leaves.                                                     *)
LEMMA RunStep ==
    ASSUME NEW locals, NEW opcodes, NEW n \in Nodes(locals, opcodes), NEW depth, BalancedRun(n, depth),
           R!Next, HeightsFollow, tree' = tree
    PROVE  /\ BalancedRun(n, depth)'
           /\ DOMAIN frames' # DOMAIN frames /\ frame.off \notin DOMAIN frames' =>
                 Len(data) = heights[frame.off] + 1
<1>1. R!Inv' /\ Fits(n)
  BY Assumptions, R!InvNext DEF BalancedRun, Nodes
<1>2. program' = program
  BY DEF R!Next, R!Start, R!Nop, R!Ldi, R!Ldl, R!Stl, R!Pop1, R!Dup, R!BinOp, R!UnOp, R!CallNative,
         R!CallUser, R!Enter, R!Ret, R!Exit, R!Br, R!ReadBefore, R!Trap, R!Step
<1>3. HeightsKnown(depth)'
  <2>1. CASE R!Start
    BY <1>1, <2>1, StartHeights
  <2>2. CASE R!Within
    BY <1>1, <2>2, WithinHeights
  <2>3. CASE R!CallUser
    BY <1>1, <2>3, CallHeights
  <2>4. CASE R!Ret
    BY <1>1, <2>4, RetHeights
  <2>5. CASE R!Exit \/ R!Trap
    BY <1>1, <2>5, StopHeights
  <2>6. CASE R!ReadBefore
    BY <2>6, AlwaysInBody DEF R!ReadBefore
  <2>. QED BY <2>1, <2>2, <2>3, <2>4, <2>5, <2>6 DEF R!Next, R!Within
<1>4. ASSUME DOMAIN frames' # DOMAIN frames, frame.off \notin DOMAIN frames'
      PROVE  Len(data) = heights[frame.off] + 1
  <2>1. CASE R!Start
    <3>1. status = "idle" /\ status' = "run" /\ frame.off = 0
      BY <2>1 DEF R!Start, BalancedRun
    <3>2. 0 \in DOMAIN frames'
      BY <1>3, <3>1 DEF HeightsKnown
    <3>. QED BY <1>4, <3>1, <3>2
  <2>2. CASE R!Within
    BY <1>4, <2>2, Assumptions, R!WordsMoved DEF BalancedRun
  <2>3. CASE R!CallUser
    <3>1. R!TypeOK /\ R!CapacityOK /\ R!PushFrame(R!Inst.next, frame) /\ status = "run"
      BY <2>3 DEF BalancedRun, R!Inv, R!CallUser, R!Enter, R!Step
    <3>2. DOMAIN frames' = DOMAIN frames \cup {calls.size}
      BY <3>1, Assumptions, R!PushFrameStep
    <3>3. frame.off \in DOMAIN frames
      BY <3>1, FramesOfRun DEF BalancedRun
    <3>. QED BY <1>4, <3>2, <3>3
  <2>4. CASE R!Ret
    BY <1>1, <2>4, RetHeights
  <2>5. CASE R!Exit \/ R!Trap \/ R!ReadBefore
    BY <1>4, <2>5 DEF R!Exit, R!Trap, R!ReadBefore
  <2>. QED BY <2>1, <2>2, <2>3, <2>4, <2>5 DEF R!Next, R!Within
<1>5. status' # "idle"
  BY DEF R!Next, R!Start, R!Nop, R!Ldi, R!Ldl, R!Stl, R!Pop1, R!Dup, R!BinOp, R!UnOp, R!CallNative,
         R!CallUser, R!Enter, R!Ret, R!Exit, R!Br, R!ReadBefore, R!Trap, R!Step, R!Traps
<1>. QED BY <1>1, <1>2, <1>3, <1>4, <1>5 DEF BalancedRun

-----------------------------------------------------------------------------
(* The whole: the emitter's invariant until the program is linked, and     *)
(* balanced runs from then on.                                             *)
Unstarted == status = "idle" /\ frame.off = 0 /\ frames = <<>> /\ heights = <<>>

SystemInv(locals, opcodes) ==
    /\ EmitInv /\ IsMap(code)
    /\ \E n \in Nodes(locals, opcodes) : n.tree = tree /\ EmitDepths(n)
    /\ ~linked => R!Inv
    /\ ~linked \/ reported => Unstarted
    /\ linked => program = Program
    /\ linked /\ ~reported => Emitted
    /\ linked /\ ~reported /\ InPlace =>
          \E n \in Nodes(locals, opcodes) : \E depth : BalancedRun(n, depth)

LEMMA SystemInitInv ==
    ASSUME NEW locals, NEW opcodes, \A t \in Trees : Checked(t, locals, opcodes), SystemInit
    PROVE  SystemInv(locals, opcodes)
<1>1. EmitInit /\ tree = funcs /\ linked = FALSE /\ program = NoProgram
  BY DEF SystemInit
<1>2. EmitInv
  BY <1>1, EmitInitInv
<1>3. IsMap(code)
  BY <1>1 DEF EmitInit, IsMap
<1>4. PICK n \in Nodes(locals, opcodes) : n.tree = tree
  BY <1>1 DEF EmitInit, Checked
<1>5. EmitDepths(n)
  BY <1>1, <1>4, EmitInitDepths
<1>6. R!Inv
  <2>1. NoProgram \in AllPrograms
    <3>1. <<>> \in [{} -> Instruction] /\ <<>> \in Seq(Symbol)
      OBVIOUS
    <3>2. <<>> \in UNION {[S -> Instruction] : S \in SUBSET Nat}
      BY <3>1
    <3>. QED BY <3>1, <3>2 DEF NoProgram, AllPrograms
  <2>2. R!Init
    BY <1>1, <2>1 DEF SystemInit, R!Init, EmptyBuffer, R!EmptyBuffer, R!Null, Runtime!Null
  <2>. QED BY <2>2, Assumptions, R!InvInit
<1>7. Unstarted
  BY DEF SystemInit, Unstarted, Runtime!Null
<1>. QED BY <1>1, <1>2, <1>3, <1>4, <1>5, <1>6, <1>7 DEF SystemInv

LEMMA EmitterIsDone == Emitted => ~EmitNext
BY DEF Emitted, EmitNext, EmitInst, EmitExpr, EmitBadAssign, EmitStmt, EmitCondition, EmitIf,
       EmitWhile, EmitIfElse, EmitIfEnd, EmitWhileEnd, EmitFunc, FuncWith, Is

LEMMA SameEmitter ==
    ASSUME NEW n, EmitInv, IsMap(code), EmitDepths(n), UNCHANGED emitVars
    PROVE  EmitInv' /\ IsMap(code') /\ EmitDepths(n)' /\ (InPlace' <=> InPlace)
           /\ Program' = Program /\ (Emitted' <=> Emitted)
<1>1. UNCHANGED <<funcs, work, symbols, body, code>>
  BY DEF emitVars
<1>2. EmitInv' /\ IsMap(code')
  BY <1>1, EmitStepInv
<1>3. InPlace' <=> InPlace
  BY <1>1 DEF InPlace, Unpatched
<1>4. EmitDepths(n)'
  BY <1>1, <1>3, SameDepths DEF EmitDepths
<1>. QED BY <1>1, <1>2, <1>3, <1>4 DEF Program, Emitted

LEMMA EmittingKeepsInv ==
    ASSUME NEW locals, NEW opcodes, SystemInv(locals, opcodes), Emitting
    PROVE  SystemInv(locals, opcodes)'
<1>1. /\ ~reported /\ EmitNext /\ EmitInv /\ IsMap(code)
      /\ UNCHANGED <<tree, runtimeVars, reported, linked, heights>>
  BY DEF Emitting, SystemInv
<1>2. ~linked
  BY <1>1, EmitterIsDone DEF SystemInv
<1>3. PICK n \in Nodes(locals, opcodes) : n.tree = tree /\ EmitDepths(n)
  BY DEF SystemInv
<1>4. EmitInv' /\ IsMap(code')
  BY <1>1, EmitStepInv, EmitStepMap
<1>5. EmitDepths(n)'
  <2>1. Fits(n) /\ n.tree \in Trees
    BY DEF Nodes
  <2>. QED BY <1>1, <1>3, <2>1, EmitStepDepths
<1>6. UNCHANGED <<program, ip, data, calls, frames, words, frame, output, status>>
  BY <1>1 DEF runtimeVars
<1>7. R!Inv'
  <2>1. R!Inv
    BY <1>2 DEF SystemInv
  <2>. QED BY <1>6, <2>1, Assumptions, R!InvNext DEF R!vars
<1>8. Unstarted'
  BY <1>1, <1>2, <1>6 DEF SystemInv, Unstarted
<1>. QED BY <1>1, <1>2, <1>3, <1>4, <1>5, <1>7, <1>8 DEF SystemInv

LEMMA LinkKeepsInv ==
    ASSUME NEW locals, NEW opcodes, SystemInv(locals, opcodes), Link
    PROVE  SystemInv(locals, opcodes)'
<1>1. /\ Emitted \/ reported
      /\ ~linked /\ linked' = TRUE /\ program' = Program
      /\ UNCHANGED <<tree, reported, ip, data, calls, frames, words, frame, output, status, heights>>
      /\ UNCHANGED emitVars
  BY DEF Link
<1>2. PICK n \in Nodes(locals, opcodes) : n.tree = tree /\ EmitDepths(n)
  BY DEF SystemInv
<1>3. EmitInv /\ IsMap(code) /\ R!Inv /\ Unstarted
  BY <1>1 DEF SystemInv
<1>4. EmitInv' /\ IsMap(code') /\ EmitDepths(n)' /\ (InPlace' <=> InPlace)
      /\ Program' = Program /\ (Emitted' <=> Emitted)
  BY <1>1, <1>2, <1>3, SameEmitter
<1>5. Unstarted'
  BY <1>1, <1>3 DEF Unstarted
<1>6. ASSUME ~reported, InPlace
      PROVE  \E depth : BalancedRun(n, depth)'
  <2>1. Emitted
    BY <1>1, <1>6
  <2>2. PICK d : DepthInv(n, d)
    BY <1>2, <1>6 DEF EmitDepths
  <2>3. IsProgram(Program) /\ \E depth \in [DOMAIN code -> Nat] : Balanced(n, Program, depth)
    BY <1>3, <1>6, <2>1, <2>2, EmittedIsBalanced
  <2>4. PICK depth \in [DOMAIN code -> Nat] : Balanced(n, Program, depth)
    BY <2>3
  <2>5. Program.code = code /\ Program.symbols = symbols
    BY DEF Program
  <2>6. Program \in AllPrograms
    <3>1. symbols \in Seq(Symbol) /\ \A pos \in DOMAIN code : pos \in Nat /\ code[pos] \in Instruction
      BY <2>3, <2>5 DEF IsProgram
    <3>2. code \in [DOMAIN code -> Instruction] /\ DOMAIN code \in SUBSET Nat
      BY <1>3, <3>1 DEF IsMap
    <3>3. code \in UNION {[S -> Instruction] : S \in SUBSET Nat}
      BY <3>2
    <3>. QED BY <3>1, <3>3 DEF Program, AllPrograms
  <2>7. R!Inv'
    <3>1. R!TypeOK'
      BY <1>1, <1>3, <2>6 DEF R!Inv, R!TypeOK
    <3>2. R!Untouched' /\ R!CapacityOK'
      BY <1>1, <1>3 DEF R!Inv, R!Untouched, R!CapacityOK
    <3>3. ~R!Live'
      BY <1>1, <1>3 DEF R!Live, Unstarted
    <3>. QED BY <3>1, <3>2, <3>3 DEF R!Inv, R!FrameChain, R!PointersKnown
  <2>8. WordMax \notin DOMAIN code
    BY <1>3, <1>6, WordAssumption DEF InPlace, Unpatched, EmitInv, EmitTypeOK, Buffer
  <2>9. HeightsKnown(depth)'
    <3>1. DOMAIN heights' = {} /\ DOMAIN frames' = {} /\ status' = "idle"
      BY <1>5, EmptySeq DEF Unstarted
    <3>. QED BY <3>1 DEF HeightsKnown
  <2>. QED BY <1>1, <1>2, <1>5, <2>4, <2>5, <2>7, <2>8, <2>9 DEF BalancedRun, Unstarted
<1>. QED BY <1>1, <1>2, <1>4, <1>5, <1>6 DEF SystemInv

LEMMA RunningKeepsInv ==
    ASSUME NEW locals, NEW opcodes, SystemInv(locals, opcodes), Running
    PROVE  SystemInv(locals, opcodes)'
<1>1. linked /\ ~reported /\ R!Next /\ HeightsFollow /\ UNCHANGED <<tree, reported, linked>>
      /\ UNCHANGED emitVars
  BY SameNext DEF Running, HeightsFollow
<1>2. PICK n \in Nodes(locals, opcodes) : n.tree = tree /\ EmitDepths(n)
  BY DEF SystemInv
<1>3. EmitInv /\ IsMap(code)
  BY <1>1 DEF SystemInv
<1>4. EmitInv' /\ IsMap(code') /\ EmitDepths(n)' /\ (InPlace' <=> InPlace)
      /\ Program' = Program /\ (Emitted' <=> Emitted)
  BY <1>1, <1>2, <1>3, SameEmitter
<1>5. program' = program
  BY <1>1 DEF R!Next, R!Start, R!Nop, R!Ldi, R!Ldl, R!Stl, R!Pop1, R!Dup, R!BinOp, R!UnOp,
         R!CallNative, R!CallUser, R!Enter, R!Ret, R!Exit, R!Br, R!ReadBefore, R!Trap, R!Step
<1>6. ASSUME InPlace PROVE \E m \in Nodes(locals, opcodes) : \E depth : BalancedRun(m, depth)'
  <2>0. PICK m \in Nodes(locals, opcodes) : \E depth : BalancedRun(m, depth)
    BY <1>1, <1>6 DEF SystemInv
  <2>1. PICK depth : BalancedRun(m, depth)
    BY <2>0
  <2>2. BalancedRun(m, depth)'
    BY <1>1, <2>1, RunStep
  <2>. QED BY <2>2
<1>. QED BY <1>1, <1>2, <1>4, <1>5, <1>6 DEF SystemInv

LEMMA SystemStepInv ==
    ASSUME NEW locals, NEW opcodes, SystemInv(locals, opcodes), [SystemNext]_systemVars
    PROVE  SystemInv(locals, opcodes)'
<1>1. CASE SystemNext
  BY <1>1, EmittingKeepsInv, LinkKeepsInv, RunningKeepsInv DEF SystemNext
<1>2. CASE UNCHANGED systemVars
  <2>1. /\ UNCHANGED emitVars /\ UNCHANGED <<tree, reported, linked, heights>>
        /\ UNCHANGED <<program, ip, data, calls, frames, words, frame, output, status>>
    BY <1>2 DEF systemVars, runtimeVars, emitVars
  <2>2. PICK n \in Nodes(locals, opcodes) : n.tree = tree /\ EmitDepths(n)
    BY DEF SystemInv
  <2>3. EmitInv' /\ IsMap(code') /\ EmitDepths(n)' /\ (InPlace' <=> InPlace)
        /\ Program' = Program /\ (Emitted' <=> Emitted)
    BY <2>1, <2>2, SameEmitter DEF SystemInv
  <2>4. R!Inv => R!Inv'
    BY <2>1, Assumptions, R!InvNext DEF R!vars
  <2>5. Unstarted' <=> Unstarted
    BY <2>1 DEF Unstarted
  <2>6. ASSUME NEW m, NEW depth, BalancedRun(m, depth) PROVE BalancedRun(m, depth)'
    <3>1. R!Inv'
      BY <2>4, <2>6 DEF BalancedRun
    <3>2. HeightsKnown(depth)'
      BY <2>1, <2>6 DEF BalancedRun, HeightsKnown, HeightOK, AtDepth, Base, Missing
    <3>. QED BY <2>1, <2>6, <3>1, <3>2 DEF BalancedRun
  <2>. QED BY <2>1, <2>2, <2>3, <2>4, <2>5, <2>6 DEF SystemInv
<1>. QED BY <1>1, <1>2

LEMMA SystemInvariant ==
    ASSUME NEW CONSTANT locals, NEW CONSTANT opcodes, \A t \in Trees : Checked(t, locals, opcodes)
    PROVE  SystemSpec => []SystemInv(locals, opcodes)
<1>1. SystemInit => SystemInv(locals, opcodes)
  BY SystemInitInv
<1>2. SystemInv(locals, opcodes) /\ [SystemNext]_systemVars => SystemInv(locals, opcodes)'
  BY SystemStepInv
<1>. QED BY <1>1, <1>2, PTL DEF SystemSpec

-----------------------------------------------------------------------------
LEMMA StartedIsBalanced ==
    ASSUME NEW locals, NEW opcodes, SystemInv(locals, opcodes), InPlace, status # "idle"
    PROVE  linked /\ ~reported /\ \E n \in Nodes(locals, opcodes) : \E depth : BalancedRun(n, depth)
BY DEF SystemInv, Unstarted

(* While a function of a compiled program runs, its callers' operands stay *)
(* on the data stack: the code of a checked tree is balanced, every call   *)
(* passes what its function takes, and every function returns one word, so *)
(* no path through CALL and RET digs below (dk.c, dk_run_program).         *)
THEOREM CallersKeepOperands ==
    ASSUME NEW CONSTANT locals, NEW CONSTANT opcodes, \A t \in Trees : Checked(t, locals, opcodes)
    PROVE  SystemSpec => [](InPlace => OperandsKept)
<1>1. SystemInv(locals, opcodes) /\ InPlace => OperandsKept
  <2> SUFFICES ASSUME SystemInv(locals, opcodes), InPlace, status = "run"
               PROVE  Len(data) >= heights[frame.off]
    BY DEF OperandsKept
  <2>0. PICK n \in Nodes(locals, opcodes) : \E depth : BalancedRun(n, depth)
    BY StartedIsBalanced
  <2>1. PICK depth : BalancedRun(n, depth)
    BY <2>0
  <2>2. frame.off \in DOMAIN frames /\ Len(data) \in Nat
    BY <2>1, FramesOfRun DEF BalancedRun
  <2>3. CASE frame.off = 0
    BY <2>1, <2>2, <2>3 DEF BalancedRun, HeightsKnown
  <2>4. CASE frame.off # 0
    <3>1. heights[frame.off] \in Int
      BY <2>1, <2>2, <2>4 DEF BalancedRun, HeightsKnown, HeightOK
    <3>2. ip \in DOMAIN program.code /\ Len(data) = heights[frame.off] + depth[ip]
      BY <2>1, <2>4 DEF BalancedRun, HeightsKnown, AtDepth, Base
    <3>3. depth[ip] \in Nat
      BY <2>1, <3>2 DEF BalancedRun
    <3>. QED BY <3>1, <3>2, <3>3
  <2>. QED BY <2>3, <2>4
<1>. QED BY <1>1, SystemInvariant, PTL

LEMMA ReturningStep ==
    ASSUME NEW locals, NEW opcodes, SystemInv(locals, opcodes), InPlace, [SystemNext]_systemVars,
           DOMAIN frames' # DOMAIN frames, frame.off \notin DOMAIN frames'
    PROVE  Len(data) = heights[frame.off] + 1
<1>1. Running
  BY DEF SystemNext, Emitting, Link, systemVars, runtimeVars
<1>2. linked /\ ~reported /\ R!Next /\ HeightsFollow /\ tree' = tree
  BY <1>1, SameNext DEF Running, HeightsFollow
<1>3. PICK n \in Nodes(locals, opcodes) : \E depth : BalancedRun(n, depth)
  BY <1>2 DEF SystemInv
<1>4. PICK depth : BalancedRun(n, depth)
  BY <1>3
<1>. QED BY <1>2, <1>4, RunStep

(* Every return leaves the words its caller had below the arguments and    *)
(* one word more, whatever branches were taken and calls made before it.   *)
THEOREM EveryReturnIsOneWord ==
    ASSUME NEW CONSTANT locals, NEW CONSTANT opcodes, \A t \in Trees : Checked(t, locals, opcodes)
    PROVE  SystemSpec /\ []InPlace => ReturnsOneWord
<1>1. SystemInv(locals, opcodes) /\ InPlace /\ [SystemNext]_systemVars =>
        [DOMAIN frames' # DOMAIN frames /\ frame.off \notin DOMAIN frames'
            => Len(data) = heights[frame.off] + 1]_systemVars
  BY ReturningStep
<1>. QED BY <1>1, SystemInvariant, PTL DEF SystemSpec, ReturnsOneWord

-----------------------------------------------------------------------------
(* Of what can stop the interpreter, a compiled program leaves a division  *)
(* that faults and a frame that dangles.  (Its locals fit an activation,   *)
(* and its first function, which is entered with an empty data stack,      *)
(* takes no argument.)                                                     *)
Divisions == {"UDIV", "IDIV"}
Stops(opcodes) == status = "stale" \/ (status = "divide" /\ opcodes \cap Divisions # {})

TrapsKnown(opcodes) ==
    linked /\ ~reported /\ InPlace =>
        R!FrameAssertsHold /\ R!UnmovedIsFresh /\ (status \in R!Traps => Stops(opcodes))

Runnable(locals) == /\ locals \subseteq 0..LocalSize-1
                    /\ \A t \in Trees : t # <<>> /\ t[1].args = <<>>

(* The instruction the interpreter is at, and the words it will find.      *)
LEMMA RunnableAtInst ==
    ASSUME NEW locals, NEW opcodes, Runnable(locals), NEW n \in Nodes(locals, opcodes),
           NEW depth, BalancedRun(n, depth), status = "run"
    PROVE  ip \in DOMAIN program.code /\ ip # -1 /\ Len(data) >= depth[ip] /\ depth[ip] \in Nat
<1>1. /\ n.tree # <<>> /\ n.tree[1].args = <<>> /\ n.tree \in Seq(Funcs)
      /\ \A i \in DOMAIN program.symbols : depth[program.symbols[i].pos] = Len(n.tree[i].args)
      /\ Len(program.symbols) = Len(n.tree)
  BY TreeAssumption DEF Runnable, Nodes, BalancedRun, Balanced
<1>2. program.symbols \in Seq(Symbol)
  BY CodeOfProgram DEF BalancedRun
<1>3. 1 \in DOMAIN program.symbols /\ program.symbols # <<>>
  BY <1>1, <1>2, LenProperties, EmptySeq
<1>4. program.symbols[1].pos = 0 /\ 0 \in DOMAIN program.code
  BY <1>3 DEF BalancedRun, Balanced
<1>5. Missing(depth) = 0
  BY <1>1, <1>3, <1>4 DEF Missing
<1>6. ip \in DOMAIN program.code /\ Len(data) = Base(depth, frame.off) + depth[ip]
  BY <1>4 DEF BalancedRun, HeightsKnown, AtDepth
<1>7. depth[ip] \in Nat
  BY <1>6 DEF BalancedRun
<1>8. frame.off \in DOMAIN frames
  BY FramesOfRun DEF BalancedRun
<1>9. Base(depth, frame.off) \in Int /\ Base(depth, frame.off) >= 0
  BY <1>5, <1>8, BaseType DEF Base, BalancedRun, HeightsKnown, HeightOK
<1>10. ip # -1
  BY <1>6, CodeOfProgram DEF BalancedRun
<1>. QED BY <1>6, <1>7, <1>9, <1>10

LEMMA RunnableTraps ==
    ASSUME NEW locals, NEW opcodes, Runnable(locals), NEW n \in Nodes(locals, opcodes),
           NEW depth, BalancedRun(n, depth), R!Trap, R!FrameAssertsHold'
    PROVE  Stops(opcodes)'
<1>1. /\ status = "run" /\ UNCHANGED <<program, ip>>
  BY DEF R!Trap
<1>2. ip \in DOMAIN program.code /\ ip # -1 /\ Len(data) >= depth[ip] /\ depth[ip] \in Nat
  BY <1>1, RunnableAtInst
<1>3. PICK t \in R!Traps \ {"read"} : status' = t /\ R!Fails(t)
  BY <1>2 DEF R!Trap, R!ReadFails
<1>4. Fits(n) /\ n.locals = locals /\ n.opcodes = opcodes
  BY DEF Nodes
<1>5. /\ R!Inst.opcode # "RET" =>
            /\ R!Inst.next \in DOMAIN program.code
            /\ Shifts(n, R!Inst.opcode, R!Inst.operand, depth[ip], depth[R!Inst.next])
  BY <1>2, AtInst DEF BalancedRun
<1>6. t # "data"
  <2>1. Len(data) >= R!Pops(program, R!Inst)
    <3>1. CASE R!Inst.opcode = "RET" \/ (R!Inst.opcode = "CALL" /\ R!Inst.operand \notin R!Natives)
      <4>1. R!Pops(program, R!Inst) = 0
        BY <3>1 DEF R!Pops, R!BinOps, R!IntOps, R!FloatOps, R!UnOps
      <4>2. Len(data) \in Nat
        BY <1>1, FramesOfRun DEF BalancedRun
      <4>. QED BY <4>1, <4>2
    <3>2. CASE ~(R!Inst.opcode = "RET" \/ (R!Inst.opcode = "CALL" /\ R!Inst.operand \notin R!Natives))
      <4>1. R!Inst.next \in DOMAIN program.code /\ depth[R!Inst.next] \in Nat
        BY <1>5, <3>2 DEF BalancedRun
      <4>2. n.opcodes \subseteq BinOps \cup UnOps /\ R!Natives = Natives
        BY <1>4 DEF Fits, R!Natives, Natives
      <4>3. depth[ip] >= R!Pops(program, R!Inst)
        BY <1>2, <1>5, <3>2, <4>1, <4>2, ShiftsAreMoves
      <4>4. R!Pops(program, R!Inst) \in Nat /\ Len(data) \in Nat
        BY <1>1, FramesOfRun DEF BalancedRun, R!Pops
      <4>. QED BY <1>2, <4>3, <4>4
    <3>. QED BY <3>1, <3>2
  <2>2. Len(data) \in Nat /\ R!Pops(program, R!Inst) \in Nat
    BY <1>1, FramesOfRun DEF BalancedRun, R!Pops
  <2>3. ~R!DataFails
    BY <2>1, <2>2 DEF R!DataFails
  <2>. QED BY <1>3, <2>3 DEF R!Fails
<1>7. t # "local"
  <2> SUFFICES ASSUME t = "local" PROVE FALSE
    OBVIOUS
  <2>1. R!Inst.opcode \in {"LDL", "STL"}
    BY <1>3 DEF R!Fails, R!LocalFails
  <2>2. R!Inst.operand \in 0..LocalSize-1
    <3>1. {"LDL", "STL"} \cap (BinOps \cup UnOps \cup {"NOT"}) = {}
      BY DEF BinOps, IntOps, FloatOps, UnOps
    <3>2. R!Inst.operand \in n.locals
      BY <1>5, <2>1, <3>1 DEF Shifts
    <3>. QED BY <1>4, <3>2 DEF Runnable
  <2>3. R!Inst.operand >= LocalSize
    BY <1>1, <1>3 DEF R!FrameAssertsHold, R!Inst
  <2>. QED BY <2>2, <2>3, SystemAssumption
<1>8. t # "symbol"
  <2> SUFFICES ASSUME t = "symbol" PROVE FALSE
    OBVIOUS
  <2>1. R!Inst.opcode = "CALL" /\ R!Inst.operand \notin R!Natives
        /\ ~R!HasSymbol(program, R!Inst.operand)
    BY <1>3 DEF R!Fails, R!SymbolFails
  <2>2. \E count : Takes(n.tree, R!Inst.operand, count)
    <3>1. "CALL" \notin BinOps \cup UnOps
      BY DEF BinOps, IntOps, FloatOps, UnOps
    <3>2. Shifts(n, "CALL", R!Inst.operand, depth[ip], depth[R!Inst.next])
      BY <1>5, <2>1
    <3>. QED BY <3>1, <3>2 DEF Shifts
  <2>3. R!Inst.operand \notin Natives
    BY <2>1 DEF R!Natives, Natives
  <2>. QED BY <2>1, <2>2, <2>3, CalledFunction
<1>9. t \notin {"pop", "null"}
  BY <1>3 DEF R!FrameAssertsHold
<1>10. t = "divide" => opcodes \cap Divisions # {}
  <2> SUFFICES ASSUME t = "divide" PROVE opcodes \cap Divisions # {}
    OBVIOUS
  <2>1. PICK op : op = R!Inst.opcode
    OBVIOUS
  <2>2. op \in Divisions
    BY <1>3, <2>1 DEF R!Fails, R!DivideFails, Divisions
  <2>3. Shifts(n, op, R!Inst.operand, depth[ip], depth[R!Inst.next])
    BY <1>5, <2>1, <2>2 DEF Divisions
  <2>4. op \in n.opcodes
    BY <2>2, <2>3 DEF Shifts, Divisions, UnOps
  <2>. QED BY <1>4, <2>2, <2>4
<1>. QED BY <1>3, <1>6, <1>7, <1>8, <1>9, <1>10 DEF R!Traps, Stops

LEMMA RunningTraps ==
    ASSUME NEW locals, NEW opcodes, Runnable(locals), NEW n \in Nodes(locals, opcodes),
           NEW depth, BalancedRun(n, depth), R!Next,
           R!FrameAssertsHold, R!UnmovedIsFresh, status \in R!Traps => Stops(opcodes)
    PROVE  R!FrameAssertsHold' /\ R!UnmovedIsFresh' /\ (status' \in R!Traps => Stops(opcodes)')
<1>1. R!Inv /\ R!Inv'
  BY Assumptions, R!InvNext DEF BalancedRun
<1>2. R!FrameAssertsHold'
  BY <1>1, Assumptions, R!FrameAssertsStep
<1>3. R!UnmovedIsFresh'
  BY <1>1, Assumptions, R!FreshStep
<1>4. \/ status' = status
      \/ status' \in {"run", "exit"}
      \/ R!Trap
  BY <1>1, Assumptions, R!StatusSteps
<1>5. CASE status' = status
  BY <1>2, <1>3, <1>5 DEF Stops
<1>6. CASE status' \in {"run", "exit"}
  BY <1>2, <1>3, <1>6 DEF R!Traps
<1>7. CASE R!Trap
  BY <1>2, <1>3, <1>7, RunnableTraps
<1>. QED BY <1>4, <1>5, <1>6, <1>7

LEMMA TrapsStep ==
    ASSUME NEW locals, NEW opcodes, Runnable(locals), SystemInv(locals, opcodes),
           TrapsKnown(opcodes), [SystemNext]_systemVars
    PROVE  TrapsKnown(opcodes)'
<1>1. CASE Emitting
  <2>1. ~linked
    BY <1>1, EmitterIsDone DEF Emitting, SystemInv
  <2>. QED BY <1>1, <2>1 DEF Emitting, TrapsKnown
<1>2. CASE Link
  <2>1. status' = "idle"
    BY <1>2 DEF Link, SystemInv, Unstarted
  <2>. QED BY <2>1 DEF TrapsKnown, R!FrameAssertsHold, R!UnmovedIsFresh, R!Live, R!Traps
<1>3. CASE Running
  <2>1. linked /\ ~reported /\ R!Next /\ UNCHANGED emitVars
    BY <1>3, SameNext DEF Running
  <2> SUFFICES ASSUME InPlace'
               PROVE  R!FrameAssertsHold' /\ R!UnmovedIsFresh' /\ (status' \in R!Traps => Stops(opcodes)')
    BY DEF TrapsKnown
  <2>2. InPlace
    BY <2>1 DEF InPlace, emitVars, Unpatched
  <2>3. PICK n \in Nodes(locals, opcodes) : \E depth : BalancedRun(n, depth)
    BY <2>1, <2>2 DEF SystemInv
  <2>4. PICK depth : BalancedRun(n, depth)
    BY <2>3
  <2>. QED BY <2>1, <2>2, <2>4, RunningTraps DEF TrapsKnown
<1>4. CASE UNCHANGED systemVars
  BY <1>4 DEF systemVars, runtimeVars, TrapsKnown, Stops, InPlace, Unpatched, R!FrameAssertsHold,
              R!UnmovedIsFresh, R!Live, R!Stale, R!Inst
<1>. QED BY <1>1, <1>2, <1>3, <1>4 DEF SystemNext

LEMMA TrapsAlwaysKnown ==
    ASSUME NEW CONSTANT locals, NEW CONSTANT opcodes, \A t \in Trees : Checked(t, locals, opcodes),
           Runnable(locals)
    PROVE  SystemSpec => [](InPlace /\ calls.block <= 1 /\ ~NoTrap =>
                              status = "divide" /\ opcodes \cap Divisions # {})
<1>1. SystemInit => TrapsKnown(opcodes)
  BY DEF SystemInit, TrapsKnown
<1>2. SystemInv(locals, opcodes) /\ TrapsKnown(opcodes) /\ [SystemNext]_systemVars => TrapsKnown(opcodes)'
  BY TrapsStep
<1>3. SystemInv(locals, opcodes) /\ TrapsKnown(opcodes) =>
        (InPlace /\ calls.block <= 1 /\ ~NoTrap => status = "divide" /\ opcodes \cap Divisions # {})
  <2> SUFFICES ASSUME SystemInv(locals, opcodes), TrapsKnown(opcodes),
                      InPlace, calls.block <= 1, status \in R!Traps
               PROVE  status = "divide" /\ opcodes \cap Divisions # {}
    BY SameChecks DEF NoTrap
  <2>1. status # "idle"
    BY DEF R!Traps
  <2>2. linked /\ ~reported
    BY <2>1, StartedIsBalanced
  <2>3. R!Inv
    BY <2>1, StartedIsBalanced DEF BalancedRun
  <2>4. calls.block = 1
    <3>1. frame.block \in 1..calls.block /\ calls.block \in Nat
      BY <2>1, <2>3 DEF R!Inv, R!PointersKnown, R!Live, R!TypeOK, R!Buffer
    <3>. QED BY <3>1
  <2>5. status # "stale"
    BY <2>1, <2>2, <2>4 DEF TrapsKnown, R!UnmovedIsFresh, R!Live
  <2>. QED BY <2>2, <2>5 DEF TrapsKnown, Stops
<1>. QED BY <1>1, <1>2, <1>3, SystemInvariant, PTL DEF SystemSpec

(* No assertion fails in a compiled program, as long as neither the body   *)
(* nor the call stack was moved: none of its loops, branches and calls     *)
(* reads outside the body or below the data stack, reaches a local or a    *)
(* function that is not there, or returns into a broken frame.  (It calls  *)
(* no intrinsic that divides.)                                             *)
THEOREM CompiledNeverTraps ==
    ASSUME NEW CONSTANT locals, NEW CONSTANT opcodes, \A t \in Trees : Checked(t, locals, opcodes),
           Runnable(locals), opcodes \cap Divisions = {}
    PROVE  SystemSpec => [](InPlace /\ calls.block <= 1 => NoTrap)
<1>1. SystemSpec => [](InPlace /\ calls.block <= 1 /\ ~NoTrap =>
                         status = "divide" /\ opcodes \cap Divisions # {})
  BY TrapsAlwaysKnown
<1>2. (InPlace /\ calls.block <= 1 /\ ~NoTrap => status = "divide" /\ opcodes \cap Divisions # {})
        => (InPlace /\ calls.block <= 1 => NoTrap)
  OBVIOUS
<1>. QED BY <1>1, <1>2, PTL

(* With divisions, the SIGFPE of a division is all that can stop it.       *)
THEOREM OnlyDivisionTraps ==
    ASSUME NEW CONSTANT locals, NEW CONSTANT opcodes, \A t \in Trees : Checked(t, locals, opcodes),
           Runnable(locals)
    PROVE  SystemSpec => [](InPlace /\ calls.block <= 1 => NoTrap \/ status = "divide")
<1>1. SystemSpec => [](InPlace /\ calls.block <= 1 /\ ~NoTrap =>
                         status = "divide" /\ opcodes \cap Divisions # {})
  BY TrapsAlwaysKnown
<1>2. (InPlace /\ calls.block <= 1 /\ ~NoTrap => status = "divide" /\ opcodes \cap Divisions # {})
        => (InPlace /\ calls.block <= 1 => NoTrap \/ status = "divide")
  OBVIOUS
<1>. QED BY <1>1, <1>2, PTL
=============================================================================
