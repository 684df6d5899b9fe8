-------------------------- MODULE DkRuntimeProofs ---------------------------
(***************************************************************************)
(* Proofs about dk_run_program, for every program, every frame and local   *)
(* size, every initial capacity that holds one activation, and every       *)
(* behaviour of heap_realloc: the frames stay chained, and the interpreter *)
(* implements the machine of private activations.                          *)
(***************************************************************************)
EXTENDS DkRuntimeProps, FiniteSetTheorems, SequenceTheorems, WellFoundedInduction, TLAPS

-----------------------------------------------------------------------------
(* Words, programs and the growth of a dk_buffer.                          *)

(* Reducing any integer to a word gives a word (base_core.h u64).          *)
LEMMA U64Type == \A i \in Int : u64(i) \in Word
BY WordAssumption DEF u64, Word

(* The signed view of a word is an integer (base_core.h i64).              *)
LEMMA I64Type == \A w \in Word : i64(w) \in Int
BY WordAssumption DEF i64, Word

(* C division of integers by a nonzero integer gives an integer.           *)
LEMMA TruncType == \A a, b \in Int : b # 0 => Trunc(a, b) \in Int
BY DEF Trunc

(* The words that stand for truth values.                                  *)
LEMMA TruthWords == 0 \in Word /\ 1 \in Word /\ u64_from_f64(One) \in Word
<1>1. One \in Int
  BY WordAssumption
<1>. QED BY <1>1, WordAssumption, U64Type DEF u64_from_f64, Word

(* Every binary opcode that does not fault pushes a word.                  *)
LEMMA CalcType ==
    ASSUME NEW op \in BinOps, NEW a \in Word, NEW b \in Word, ~DivideFaults(op, a, b)
    PROVE  Calc(op, a, b) \in Word
<1>1. CASE op \in IntOps
  <2>1. i64(a) \in Int /\ i64(b) \in Int /\ a \in Int /\ b \in Int
    BY I64Type DEF Word
  <2>2. a + b \in Int /\ a - b \in Int /\ a * b \in Int /\ i64(a) * i64(b) \in Int
    BY <2>1
  <2>3. op = "UDIV" => a \div b \in Int
    BY <2>1 DEF DivideFaults, Word
  <2>4. op = "IDIV" => i64(b) # 0
    BY WordAssumption DEF DivideFaults, i64, Word
  <2>5. op = "IDIV" => Trunc(i64(a), i64(b)) \in Int
    BY <2>1, <2>4, TruncType
  <2>6. Calc(op, a, b) = CalcInt(op, a, b)
    BY <1>1 DEF Calc
  <2>7. CASE op \in {"ADD", "SUB", "UMUL", "UDIV", "IMUL", "IDIV"}
    BY <2>2, <2>3, <2>5, <2>6, <2>7, U64Type DEF CalcInt
  <2>8. CASE op \in {"AND", "OR", "EQ", "LT", "GT"}
    BY <2>6, <2>8, TruthWords DEF CalcInt, BoolWord
  <2>. QED BY <1>1, <2>7, <2>8 DEF IntOps
<1>2. CASE op \in FloatOps
  <2> DEFINE f == f64_from_u64(a)
             g == f64_from_u64(b)
  <2>1. f \in Int /\ g \in Int
    BY I64Type DEF f64_from_u64
  <2>2. One \in Int /\ One # 0 /\ Infinity \in Int
    BY WordAssumption DEF Infinity
  <2> HIDE DEF f, g
  <2>3. f + g \in Int /\ f - g \in Int /\ f * g \in Int /\ f * One \in Int
    BY <2>1, <2>2
  <2>4. Trunc(f * g, One) \in Int /\ FloatQuotient(f, g) \in Int
    BY <2>1, <2>2, <2>3, TruncType DEF FloatQuotient
  <2>5. CalcFloat(op, f, g) \in Word
    <3>1. CASE op \in {"FADD", "FSUB", "FMUL", "FDIV"}
      BY <3>1, <2>3, <2>4, U64Type DEF CalcFloat, u64_from_f64
    <3>2. CASE op \in {"FEQ", "FLT", "FGT"}
      BY <3>2, TruthWords DEF CalcFloat, FloatBool
    <3>. QED BY <1>2, <3>1, <3>2 DEF FloatOps
  <2>6. op \notin IntOps
    BY <1>2 DEF IntOps, FloatOps
  <2>. QED BY <2>5, <2>6 DEF Calc, f, g
<1>. QED BY <1>1, <1>2 DEF BinOps

(* NOT and the two casts push a word.                                      *)
LEMMA CalcUnaryType ==
    ASSUME NEW op \in UnOps, NEW a \in Word
    PROVE  CalcUnary(op, a) \in Word
<1>1. i64(a) \in Int /\ One \in Int /\ One # 0
  BY I64Type, WordAssumption
<1>2. i64(a) * One \in Int /\ Trunc(i64(a), One) \in Int
  BY <1>1, TruncType
<1>. QED
  BY <1>2, U64Type, TruthWords DEF CalcUnary, UnOps, BoolWord, u64_from_f64, f64_from_u64

(* A built-in print adds a well-formed line.                               *)
LEMMA PrintedType ==
    ASSUME NEW id \in Natives, NEW a \in Word
    PROVE  Printed(id, a) \in OutputLine
<1>1. i64(a) \in Int
  BY I64Type
<1>2. id = NativeBase \/ id = NativeBase + 1 \/ id = NativeBase + 2
  BY DEF Natives
<1>. QED
  BY <1>1, <1>2, NativeAssumption DEF Printed, OutputLine, f64_from_u64

(* The scan of CALL over the symbols finds one when there is one: among    *)
(* the symbols with the wanted id there is a last.                         *)
LEMMA SymbolPosType ==
    ASSUME NEW p, IsProgram(p), NEW id, HasSymbol(p, id)
    PROVE  SymbolPos(p, id) \in Nat
<1> DEFINE S    == p.symbols
           Hit  == {i \in DOMAIN S : S[i].id = id}
           Gaps == {Len(S) - i : i \in Hit}
<1>1. S \in Seq(Symbol) /\ DOMAIN S = 1..Len(S) /\ Len(S) \in Nat
  BY LenProperties DEF IsProgram
<1>2. Hit # {} /\ Hit \subseteq 1..Len(S)
  BY <1>1 DEF HasSymbol
<1>3. Gaps # {} /\ Gaps \subseteq Nat
  <2>1. \A i \in Hit : Len(S) - i \in Nat
    BY <1>1, <1>2
  <2> HIDE DEF Hit
  <2>. QED BY <1>2, <2>1
<1>4. PICK m \in Gaps : \A k \in Gaps : ~(<<k, m>> \in OpToRel(<, Nat))
  BY <1>3, NatLessThanWellFounded, WFMin
<1>5. PICK i \in Hit : m = Len(S) - i
  BY <1>4
<1>6. \A j \in DOMAIN S : j > i => S[j].id # id
  <2> SUFFICES ASSUME NEW j \in DOMAIN S, j > i, S[j].id = id PROVE FALSE
    OBVIOUS
  <2>1. Len(S) - j \in Gaps /\ Len(S) - j < m
    BY <1>1, <1>2, <1>5
  <2>2. <<Len(S) - j, m>> \in OpToRel(<, Nat)
    BY <1>3, <2>1 DEF OpToRel
  <2>. QED BY <1>4, <2>1, <2>2
<1>7. \E k \in DOMAIN S : S[k].id = id /\ \A j \in DOMAIN S : j > k => S[j].id # id
  BY <1>5, <1>6
<1> DEFINE last == CHOOSE k \in DOMAIN S :
                     S[k].id = id /\ \A j \in DOMAIN S : j > k => S[j].id # id
<1>8. last \in DOMAIN S
  BY <1>7
<1>9. S[last] \in Symbol
  BY <1>1, <1>8, ElementOfSeq
<1>. QED BY <1>9 DEF SymbolPos, Symbol

(* A push on a buffer: the assertion holds and the header stays well-formed *)
(* (dk_buffer_push).                                                       *)
LEMMA PushProperties ==
    ASSUME NEW b \in Buffer, b.size <= b.capacity,
           b.capacity = 0 \/ b.capacity >= InitialCapacity,
           NEW n \in Nat \ {0}, n <= InitialCapacity, NEW moved
    PROVE  LET c == Push(b, n, moved) IN
           /\ PushFits(b, n)
           /\ c \in Buffer /\ c.size = b.size + n
           /\ c.size <= c.capacity /\ c.capacity >= InitialCapacity
           /\ c.capacity >= b.capacity /\ c.block >= b.block /\ c.block >= (IF b.capacity = 0 THEN 1 ELSE b.block)
<1>1. b.size \in Nat /\ b.capacity \in Nat /\ b.block \in Nat
  BY DEF Buffer
<1>2. b = [size |-> b.size, capacity |-> b.capacity, block |-> b.block]
  BY DEF Buffer
<1>3. CASE Grows(b, n)
  BY <1>1, <1>3, CapacityAssumption DEF Push, PushFits, Grows, NextCapacity, Buffer
<1>4. CASE ~Grows(b, n)
  BY <1>1, <1>2, <1>4, CapacityAssumption DEF Push, PushFits, Grows, Buffer
<1>. QED BY <1>3, <1>4

-----------------------------------------------------------------------------
(* The frame chain.                                                        *)

(* What the inductive argument adds to the properties: before the setup    *)
(* nothing is on the call stack, and its capacity is 0 or at least the     *)
(* first allocation, so that one doubling is enough for any push.          *)
Untouched   == status = "idle" => calls = EmptyBuffer /\ frames = <<>>
CapacityOK  == calls.capacity = 0 \/ calls.capacity >= InitialCapacity

Inv == TypeOK /\ Untouched /\ CapacityOK /\ FrameChain /\ PointersKnown

-----------------------------------------------------------------------------
(* The two pushes of an activation (dk.c, the setup of the initial frame   *)
(* and DK_BC_OPCODE_CALL): the new header lies at the old end of the       *)
(* buffer, the older headers and all existing words are kept.              *)
LEMMA PushFrameStep ==
    ASSUME TypeOK, CapacityOK, NEW ret, NEW prev, PushFrame(ret, prev)
    PROVE  /\ calls' \in Buffer /\ calls'.size = calls.size + Stride
           /\ calls'.size <= calls'.capacity /\ CapacityOK'
           /\ calls'.capacity >= calls.capacity
           /\ calls'.block >= calls.block
           /\ frame' \in Pointer /\ frame'.off = calls.size
           /\ frame'.block >= (IF calls.capacity = 0 THEN 1 ELSE calls.block)
           /\ frame'.block <= calls'.block
           /\ DOMAIN frames' = DOMAIN frames \cup {calls.size}
           /\ frames'[calls.size] = [loc_base   |-> calls.size + FrameSize,
                                     loc_size   |-> LocalSize,
                                     return_pos |-> ret, prev |-> prev]
           /\ \A o \in DOMAIN frames : o # calls.size => frames'[o] = frames[o]
           /\ words' \in [0..calls'.capacity-1 -> Word]
           /\ \A i \in DOMAIN words : words'[i] = words[i]
<1>1. PICK moved1 \in Moves, moved2 \in Moves :
        LET header == Push(calls, FrameSize, moved1)
            after  == Push(header, LocalSize, moved2)
        IN  /\ calls'  = after
            /\ frames' = [o \in DOMAIN frames \cup {calls.size} |->
                            IF o = calls.size
                            THEN [loc_base   |-> calls.size + FrameSize, loc_size |-> LocalSize,
                                  return_pos |-> ret, prev     |-> prev]
                            ELSE frames[o]]
            /\ frame'  = Pushed(calls, header)
            /\ Grown(after)
  BY DEF PushFrame, PushActivation
<1> DEFINE header == Push(calls, FrameSize, moved1)
           after  == Push(header, LocalSize, moved2)
<1>2. /\ calls \in Buffer /\ calls.size <= calls.capacity
      /\ FrameSize \in Nat \ {0} /\ LocalSize \in Nat \ {0}
      /\ FrameSize <= InitialCapacity /\ LocalSize <= InitialCapacity
  BY RuntimeAssumption, CapacityAssumption DEF TypeOK
<1>3. /\ header \in Buffer /\ header.size = calls.size + FrameSize
      /\ header.size <= header.capacity /\ header.capacity >= InitialCapacity
      /\ header.capacity >= calls.capacity /\ header.block >= calls.block
      /\ header.block >= (IF calls.capacity = 0 THEN 1 ELSE calls.block)
  BY <1>2, PushProperties DEF CapacityOK
<1> HIDE DEF header
<1>4. /\ after \in Buffer /\ after.size = header.size + LocalSize
      /\ after.size <= after.capacity /\ after.capacity >= InitialCapacity
      /\ after.capacity >= header.capacity /\ after.block >= header.block
  BY <1>2, <1>3, PushProperties, CapacityAssumption DEF Buffer
<1> HIDE DEF after
<1>5. calls' = after /\ frame' = [block |-> header.block, off |-> calls.size] /\ Grown(after)
  BY <1>1 DEF header, after, Pushed
<1>6. /\ DOMAIN frames' = DOMAIN frames \cup {calls.size}
      /\ frames'[calls.size] = [loc_base   |-> calls.size + FrameSize,
                                loc_size   |-> LocalSize,
                                return_pos |-> ret, prev |-> prev]
      /\ \A o \in DOMAIN frames : o # calls.size => frames'[o] = frames[o]
  BY <1>1, <1>3 DEF header
<1>7. calls.size \in Nat /\ calls.capacity \in Nat /\ calls.block \in Nat
      /\ header.block \in Nat /\ header.capacity \in Nat /\ after.capacity \in Nat
      /\ after.block \in Nat
  BY <1>2, <1>3, <1>4 DEF Buffer
<1>8. words' \in [0..calls'.capacity-1 -> Word] /\ \A i \in DOMAIN words : words'[i] = words[i]
  <2>1. PICK fill \in Fills :
          words' = [i \in 0..after.capacity-1 |-> IF i \in DOMAIN words THEN words[i] ELSE fill]
    BY <1>5 DEF Grown
  <2>2. fill \in Word /\ DOMAIN words = 0..calls.capacity-1
        /\ \A i \in DOMAIN words : words[i] \in Word
    BY RuntimeAssumption DEF TypeOK
  <2>3. DOMAIN words \subseteq 0..after.capacity-1
    BY <1>3, <1>4, <1>7, <2>2
  <2>. QED BY <1>5, <2>1, <2>2, <2>3
<1>9. /\ calls' \in Buffer /\ calls'.size = calls.size + Stride
      /\ calls'.size <= calls'.capacity /\ CapacityOK'
      /\ calls'.capacity >= calls.capacity /\ calls'.block >= calls.block
  BY <1>2, <1>3, <1>4, <1>5, <1>7 DEF CapacityOK, Stride
<1>10. /\ frame' \in Pointer /\ frame'.off = calls.size
       /\ frame'.block >= (IF calls.capacity = 0 THEN 1 ELSE calls.block)
       /\ frame'.block <= calls'.block
  BY <1>3, <1>4, <1>5, <1>7 DEF Pointer
<1>. QED BY <1>6, <1>8, <1>9, <1>10

-----------------------------------------------------------------------------
(* The data stack.                                                         *)

LEMMA DataProperties ==
    ASSUME data \in Seq(Word), NEW n \in Nat, n <= Len(data)
    PROVE  /\ Drop(n) \in Seq(Word) /\ Len(Drop(n)) = Len(data) - n
           /\ \A i \in 0..n-1 : Arg(i) \in Word
<1>1. Len(data) \in Nat /\ \A i \in 1..Len(data) : data[i] \in Word
  BY LenProperties, ElementOfSeq
<1>2. Drop(n) \in Seq(Word) /\ Len(Drop(n)) = Len(data) - n
  BY <1>1, SubSeqProperties DEF Drop
<1>3. \A i \in 0..n-1 : Len(data) - i \in 1..Len(data)
  BY <1>1
<1>. QED BY <1>1, <1>2, <1>3 DEF Arg

LEMMA AppendWord ==
    ASSUME NEW s \in Seq(Word), NEW w \in Word
    PROVE  Append(s, w) \in Seq(Word)
OBVIOUS

(* An instruction that is executed is well-formed.                         *)
LEMMA InstType ==
    ASSUME TypeOK, ip \in DOMAIN program.code
    PROVE  /\ IsProgram(program)
           /\ Inst \in Instruction /\ Inst.opcode \in Opcode
           /\ Inst.operand \in Word /\ Inst.next \in Nat
BY RuntimeAssumption DEF TypeOK, IsProgram, Inst, Instruction

(* The words that an executed instruction pops are there.                  *)
LEMMA EnoughData ==
    ASSUME TypeOK, NEW ops, Step(ops)
    PROVE  Len(data) >= Pops(program, Inst)
<1>1. ~DataFails
  BY DEF Step, Fails, Traps
<1>2. Len(data) \in Nat /\ Pops(program, Inst) \in Nat
  BY LenProperties DEF TypeOK, Pops
<1>. QED BY <1>1, <1>2 DEF DataFails

-----------------------------------------------------------------------------
(* The invariant holds initially.                                          *)
LEMMA InvInit == Init => Inv
<1> SUFFICES ASSUME Init PROVE Inv
  OBVIOUS
<1>1. words \in [0..calls.capacity-1 -> Word]
  BY DEF Init, EmptyBuffer
<1>2. TypeOK
  BY <1>1, EmptySeq DEF Init, TypeOK, EmptyBuffer, Buffer, Pointer, Null
<1>3. Untouched /\ CapacityOK /\ FrameChain /\ PointersKnown
  BY DEF Init, Untouched, CapacityOK, FrameChain, PointersKnown, Live, EmptyBuffer
<1>. QED BY <1>2, <1>3 DEF Inv

(* A step that leaves the headers and the frame pointer alone keeps the    *)
(* chain.                                                                  *)
LEMMA SameFrames ==
    ASSUME Inv, status = "run", status' # "idle", UNCHANGED <<calls, frames, frame>>
    PROVE  Untouched' /\ CapacityOK' /\ FrameChain' /\ PointersKnown'
BY DEF Inv, Untouched, CapacityOK, FrameChain, PointersKnown, Live, HeaderOK, LinkOK

(* The same for the type of the variables such a step leaves alone.        *)
LEMMA SameTypes ==
    ASSUME Inv, status = "run", UNCHANGED <<program, calls, frames, frame>>,
           ip' \in Nat \cup {-1}, data' \in Seq(Word), output' \in Seq(OutputLine),
           words' \in [0..calls.capacity-1 -> Word],
           status' \in {"run", "exit"} \cup Traps
    PROVE  Inv'
<1>1. TypeOK'
  BY DEF Inv, TypeOK
<1>2. status' # "idle"
  BY DEF Traps
<1>. QED BY <1>1, <1>2, SameFrames DEF Inv

(* The common shape of most instructions: a new data stack, maybe a line   *)
(* of output, and the next position.                                       *)
LEMMA OnDataStep ==
    ASSUME Inv, NEW ops, Step(ops), NEW d \in Seq(Word), OnData(d),
           output' \in Seq(OutputLine)
    PROVE  Inv'
<1>1. ip \in DOMAIN program.code /\ status = "run" /\ UNCHANGED <<program, status>>
  BY DEF Step
<1>2. Inst.next \in Nat
  BY <1>1, InstType DEF Inv
<1>3. ip' = Inst.next /\ data' = d /\ UNCHANGED <<calls, frames, words, frame>>
  BY DEF OnData
<1>4. words' \in [0..calls.capacity-1 -> Word]
  BY <1>3 DEF Inv, TypeOK
<1>. QED BY <1>1, <1>2, <1>3, <1>4, SameTypes

-----------------------------------------------------------------------------
(* Each action keeps the invariant.                                        *)

LEMMA DataActionsKeepInv ==
    ASSUME Inv, Nop \/ Ldi \/ Pop1 \/ Dup
    PROVE  Inv'
<1>1. TypeOK /\ data \in Seq(Word) /\ output \in Seq(OutputLine)
  BY DEF Inv, TypeOK
<1>2. CASE Nop
  BY <1>1, <1>2, OnDataStep DEF Nop
<1>3. CASE Ldi
  <2>1. Inst.operand \in Word
    BY <1>1, <1>3, InstType DEF Ldi, Step
  <2>. QED BY <1>1, <1>3, <2>1, OnDataStep, AppendWord DEF Ldi
<1>4. CASE Pop1
  <2>1. Pops(program, Inst) = 1
    BY <1>4 DEF Pop1, Step, Pops, BinOps, IntOps, FloatOps
  <2>2. Drop(1) \in Seq(Word)
    BY <1>1, <1>4, <2>1, EnoughData, DataProperties DEF Pop1
  <2>. QED BY <1>1, <1>4, <2>2, OnDataStep DEF Pop1
<1>5. CASE Dup
  <2>1. Pops(program, Inst) = 1
    BY <1>5 DEF Dup, Step, Pops, BinOps, IntOps, FloatOps
  <2>2. Len(data) >= 1
    BY <1>1, <1>5, <2>1, EnoughData DEF Dup
  <2>3. Drop(1) \in Seq(Word) /\ Arg(0) \in Word
    BY <1>1, <2>2, DataProperties
  <2>4. <<Arg(0), Arg(0)>> \in Seq(Word)
    BY <2>3
  <2>5. Drop(1) \o <<Arg(0), Arg(0)>> \in Seq(Word)
    BY <2>3, <2>4, ConcatProperties
  <2>. QED BY <1>1, <1>5, <2>5, OnDataStep DEF Dup
<1>. QED BY <1>2, <1>3, <1>4, <1>5

LEMMA ArithmeticKeepsInv ==
    ASSUME Inv, BinOp \/ UnOp
    PROVE  Inv'
<1>1. TypeOK /\ data \in Seq(Word) /\ output \in Seq(OutputLine)
  BY DEF Inv, TypeOK
<1>2. CASE BinOp
  <2>1. Step(BinOps) /\ Inst.opcode \in BinOps
    BY <1>2 DEF BinOp, Step
  <2>2. Pops(program, Inst) = 2
    BY <2>1 DEF Pops
  <2>3. Len(data) >= 2
    BY <1>1, <2>1, <2>2, EnoughData
  <2>4. Drop(2) \in Seq(Word) /\ Arg(0) \in Word /\ Arg(1) \in Word
    BY <1>1, <2>3, DataProperties
  <2>5. ~DivideFaults(Inst.opcode, Arg(1), Arg(0))
    BY <2>1, <2>3 DEF Step, Fails, Traps, DivideFails, DivideFaults
  <2>6. Append(Drop(2), Calc(Inst.opcode, Arg(1), Arg(0))) \in Seq(Word)
    BY <2>1, <2>4, <2>5, CalcType, AppendWord
  <2>. QED BY <1>1, <1>2, <2>1, <2>6, OnDataStep DEF BinOp
<1>3. CASE UnOp
  <2>1. Step(UnOps) /\ Inst.opcode \in UnOps
    BY <1>3 DEF UnOp, Step
  <2>2. Pops(program, Inst) = 1
    BY <2>1 DEF Pops, UnOps, BinOps, IntOps, FloatOps
  <2>3. Drop(1) \in Seq(Word) /\ Arg(0) \in Word
    BY <1>1, <2>1, <2>2, EnoughData, DataProperties
  <2>4. Append(Drop(1), CalcUnary(Inst.opcode, Arg(0))) \in Seq(Word)
    BY <2>1, <2>3, CalcUnaryType, AppendWord
  <2>. QED BY <1>1, <1>3, <2>1, <2>4, OnDataStep DEF UnOp
<1>. QED BY <1>2, <1>3

(* The word a local access touches lies inside the block.                  *)
LEMMA LocalInBlock ==
    ASSUME Inv, Step({"LDL", "STL"})
    PROVE  Cur.loc_base + Inst.operand \in 0..calls.capacity-1
<1>1. ip \in DOMAIN program.code /\ status = "run"
  BY DEF Step
<1>2. Inst.operand \in Nat
  BY <1>1, InstType, WordAssumption DEF Inv, Word
<1>3. Cur.loc_base \in Nat
  BY <1>1 DEF Inv, TypeOK, FrameChain, Live, Cur, Frame
<1>4. Cur.loc_base + Inst.operand + 1 <= calls.size
  <2>1. ~LocalFails /\ ~DataFails
    BY DEF Step, Fails, Traps
  <2>. QED BY <2>1 DEF Step, LocalFails, GetFits
<1>. QED BY <1>2, <1>3, <1>4 DEF Inv, TypeOK, Buffer

LEMMA LocalsKeepInv ==
    ASSUME Inv, Ldl \/ Stl
    PROVE  Inv'
<1>1. /\ TypeOK /\ data \in Seq(Word) /\ output \in Seq(OutputLine)
      /\ words \in [0..calls.capacity-1 -> Word]
  BY DEF Inv, TypeOK
<1>2. CASE Ldl
  <2>1. Step({"LDL"}) /\ Step({"LDL", "STL"})
    BY <1>2 DEF Ldl, Step
  <2>2. words[Cur.loc_base + Inst.operand] \in Word
    BY <1>1, <2>1, LocalInBlock
  <2>3. Append(data, words[Cur.loc_base + Inst.operand]) \in Seq(Word)
    BY <1>1, <2>2, AppendWord
  <2>. QED BY <1>1, <1>2, <2>1, <2>3, OnDataStep DEF Ldl
<1>3. CASE Stl
  <2>1. Step({"STL"}) /\ status = "run" /\ ip \in DOMAIN program.code
    BY <1>3 DEF Stl, Step
  <2>2. Pops(program, Inst) = 1
    BY <2>1 DEF Step, Pops, BinOps, IntOps, FloatOps
  <2>3. Drop(1) \in Seq(Word) /\ Arg(0) \in Word
    BY <1>1, <2>1, <2>2, EnoughData, DataProperties
  <2>4. words' \in [0..calls.capacity-1 -> Word]
    BY <1>1, <1>3, <2>3 DEF Stl
  <2>5. Inst.next \in Nat
    BY <1>1, <2>1, InstType
  <2>6. /\ UNCHANGED <<program, status, calls, frames, frame, output>>
        /\ ip' = Inst.next /\ data' = Drop(1)
    BY <1>3 DEF Stl, Step
  <2>. QED BY <1>1, <2>1, <2>3, <2>4, <2>5, <2>6, SameTypes
<1>. QED BY <1>2, <1>3

LEMMA NativeKeepsInv ==
    ASSUME Inv, CallNative
    PROVE  Inv'
<1>1. TypeOK /\ data \in Seq(Word) /\ output \in Seq(OutputLine)
  BY DEF Inv, TypeOK
<1>2. Step({"CALL"}) /\ Inst.opcode = "CALL" /\ Inst.operand \in Natives
  BY DEF CallNative, Step
<1>3. Pops(program, Inst) = 1
  BY <1>2 DEF Pops, BinOps, IntOps, FloatOps
<1>4. Drop(1) \in Seq(Word) /\ Arg(0) \in Word
  BY <1>1, <1>2, <1>3, EnoughData, DataProperties
<1>5. output' \in Seq(OutputLine)
  <2>1. Printed(Inst.operand, Arg(0)) \in OutputLine
    BY <1>2, <1>4, PrintedType
  <2>. QED BY <1>1, <2>1 DEF CallNative
<1>6. Append(Drop(1), 0) \in Seq(Word)
  BY <1>4, TruthWords, AppendWord
<1>. QED BY <1>2, <1>5, <1>6, OnDataStep DEF CallNative

LEMMA BranchKeepsInv ==
    ASSUME Inv, Br \/ ReadBefore
    PROVE  Inv'
<1>1. /\ TypeOK /\ data \in Seq(Word) /\ output \in Seq(OutputLine)
      /\ words \in [0..calls.capacity-1 -> Word]
  BY DEF Inv, TypeOK
<1>2. CASE Br
  <2>1. Step({"BR"}) /\ status = "run" /\ ip \in DOMAIN program.code
    BY <1>2 DEF Br, Step
  <2>2. Pops(program, Inst) = 1
    BY <2>1 DEF Step, Pops, BinOps, IntOps, FloatOps
  <2>3. Drop(1) \in Seq(Word)
    BY <1>1, <2>1, <2>2, EnoughData, DataProperties
  <2>4. Inst.next \in Nat /\ Inst.operand \in Nat
    BY <1>1, <2>1, InstType, WordAssumption DEF Word
  <2>5. ip' \in Nat \cup {-1}
    BY <1>2, <2>4 DEF Br
  <2>6. /\ UNCHANGED <<program, status, calls, frames, words, frame, output>>
        /\ data' = Drop(1)
    BY <1>2 DEF Br, Step
  <2>. QED BY <1>1, <2>1, <2>3, <2>5, <2>6, SameTypes
<1>3. CASE ReadBefore
  BY <1>1, <1>3, SameTypes DEF ReadBefore
<1>. QED BY <1>2, <1>3

LEMMA StopsKeepInv ==
    ASSUME Inv, Exit \/ Trap
    PROVE  Inv'
<1>1. /\ TypeOK /\ data \in Seq(Word) /\ output \in Seq(OutputLine)
      /\ ip \in Nat \cup {-1} /\ words \in [0..calls.capacity-1 -> Word]
  BY DEF Inv, TypeOK
<1>2. CASE Exit
  <2>1. output' \in Seq(OutputLine)
    BY <1>1, <1>2 DEF Exit, OutputLine
  <2>. QED BY <1>1, <1>2, <2>1, SameTypes DEF Exit
<1>3. CASE Trap
  <2>1. status' \in Traps
    BY <1>3 DEF Trap, Traps
  <2>. QED BY <1>1, <1>3, <2>1, SameTypes DEF Trap
<1>. QED BY <1>2, <1>3

(* Pushing an activation on top of a chain (or on an empty call stack)     *)
(* makes a longer chain.                                                   *)
LEMMA PushKeepsChain ==
    ASSUME Inv, status' = "run", NEW ret, NEW prev, PushFrame(ret, prev),
           \/ status = "idle" /\ ret = -1 /\ prev = Null
           \/ status = "run" /\ ret \in Nat /\ prev = frame
    PROVE  /\ Untouched' /\ CapacityOK' /\ FrameChain' /\ PointersKnown'
           /\ calls' \in Buffer /\ calls'.size <= calls'.capacity
           /\ DOMAIN frames' \subseteq Nat /\ \A o \in DOMAIN frames' : frames'[o] \in Frame
           /\ words' \in [0..calls'.capacity-1 -> Word] /\ frame' \in Pointer
<1> PICK new : new = calls.size
  OBVIOUS
<1>1. /\ calls \in Buffer /\ calls.size <= calls.capacity /\ DOMAIN frames \subseteq Nat
      /\ \A o \in DOMAIN frames : frames[o] \in Frame
      /\ frame \in Pointer /\ CapacityOK /\ TypeOK
  BY DEF Inv, TypeOK
<1>2. new \in Nat /\ calls.capacity \in Nat /\ calls.block \in Nat
      /\ FrameSize \in Nat \ {0} /\ LocalSize \in Nat \ {0} /\ Stride \in Nat \ {0}
      /\ Stride = FrameSize + LocalSize /\ InitialCapacity \in Nat \ {0}
  BY <1>1, RuntimeAssumption, CapacityAssumption DEF Buffer, Stride
<1>3. /\ calls' \in Buffer /\ calls'.size = new + Stride
      /\ calls'.size <= calls'.capacity /\ CapacityOK'
      /\ calls'.capacity >= calls.capacity
      /\ calls'.block >= calls.block
      /\ frame' \in Pointer /\ frame'.off = new
      /\ frame'.block >= (IF calls.capacity = 0 THEN 1 ELSE calls.block)
      /\ frame'.block <= calls'.block
      /\ DOMAIN frames' = DOMAIN frames \cup {new}
      /\ frames'[new] = [loc_base   |-> new + FrameSize, loc_size |-> LocalSize,
                         return_pos |-> ret, prev |-> prev]
      /\ \A o \in DOMAIN frames : o # new => frames'[o] = frames[o]
      /\ words' \in [0..calls'.capacity-1 -> Word]
  BY <1>1, PushFrameStep
<1>4. frames'[new] \in Frame
  BY <1>1, <1>2, <1>3 DEF Frame, Pointer, Null
<1>5. \A o \in DOMAIN frames' : o \in Nat /\ frames'[o] \in Frame
  BY <1>1, <1>2, <1>3, <1>4
<1>6. calls'.block \in Nat /\ frame'.block \in Nat
  BY <1>3 DEF Buffer, Pointer
<1>7. CASE status = "idle"
  <2>1. calls = EmptyBuffer /\ frames = <<>> /\ ret = -1
    BY <1>7 DEF Inv, Untouched
  <2>2. new = 0 /\ calls.capacity = 0 /\ DOMAIN frames' = {0}
    BY <1>3, <2>1 DEF EmptyBuffer
  <2>3. frame'.block \in 1..calls'.block
    BY <1>3, <1>6, <2>2
  <2>4. frame' # Null
    BY <2>3 DEF Null
  <2>5. \A o \in DOMAIN frames' : HeaderOK(o)' /\ LinkOK(o)'
    BY <1>2, <1>3, <2>1, <2>2 DEF HeaderOK, LinkOK
  <2>6. FrameChain'
    <3>1. frame'.off \in DOMAIN frames' /\ frame'.off + Stride = calls'.size
      BY <1>3
    <3>2. \A o, p \in DOMAIN frames' : o < p => o + Stride <= p
      BY <2>2
    <3>. QED BY <2>4, <2>5, <3>1, <3>2 DEF FrameChain
  <2>. QED
    BY <1>3, <1>5, <2>2, <2>3, <2>6 DEF Untouched, PointersKnown
<1>8. CASE status = "run"
  <2>1. FrameChain /\ PointersKnown /\ Live
    BY <1>8 DEF Inv, Live
  <2>2. /\ frame.off \in DOMAIN frames /\ frame.off + Stride = new /\ frame # Null
        /\ \A o \in DOMAIN frames : HeaderOK(o) /\ LinkOK(o)
        /\ \A o, p \in DOMAIN frames : o < p => o + Stride <= p
        /\ frame.block \in 1..calls.block
        /\ \A o \in DOMAIN frames \ {0} : frames[o].prev.block \in 1..calls.block
    BY <2>1 DEF FrameChain, PointersKnown
  <2>3. \A o \in DOMAIN frames : o + Stride <= new /\ o \in Nat
    BY <1>1, <2>2 DEF HeaderOK
  <2>4. new \notin DOMAIN frames /\ new # 0 /\ calls.capacity # 0
    BY <1>1, <1>2, <2>2, <2>3 DEF Buffer
  <2>5. \A o \in DOMAIN frames : frames'[o] = frames[o]
    BY <1>3, <2>4
  <2>6. \A o \in DOMAIN frames' : HeaderOK(o)'
    <3> SUFFICES ASSUME NEW o \in DOMAIN frames' PROVE HeaderOK(o)'
      OBVIOUS
    <3>1. CASE o = new
      BY <1>2, <1>3, <3>1 DEF HeaderOK
    <3>2. CASE o \in DOMAIN frames
      <4>1. frames'[o] = frames[o] /\ HeaderOK(o) /\ o + Stride <= new /\ o \in Nat
        BY <2>2, <2>3, <2>5, <3>2
      <4>. QED BY <1>2, <1>3, <4>1 DEF HeaderOK
    <3>. QED BY <1>3, <3>1, <3>2
  <2>7. \A o \in DOMAIN frames' : LinkOK(o)'
    <3> SUFFICES ASSUME NEW o \in DOMAIN frames' PROVE LinkOK(o)'
      OBVIOUS
    <3>1. CASE o = new
      <4>1. ret # -1 /\ prev = frame
        BY <1>8
      <4>. QED BY <1>3, <2>2, <2>4, <3>1, <4>1 DEF LinkOK
    <3>2. CASE o \in DOMAIN frames
      <4>1. frames'[o] = frames[o] /\ LinkOK(o)
        BY <2>2, <2>5, <3>2
      <4>. QED BY <1>3, <4>1 DEF LinkOK
    <3>. QED BY <1>3, <3>1, <3>2
  <2>8. \A o, p \in DOMAIN frames' : o < p => o + Stride <= p
    BY <1>2, <1>3, <2>2, <2>3
  <2>9. frame'.block \in 1..calls'.block /\ calls.block >= 1
    BY <1>2, <1>3, <1>6, <2>2, <2>4
  <2>10. frame' # Null
    BY <2>9 DEF Null
  <2>11. \A o \in DOMAIN frames' \ {0} : frames'[o].prev.block \in 1..calls'.block
    <3>1. \A o \in DOMAIN frames \ {0} : frames'[o].prev.block \in 1..calls'.block
      BY <1>2, <1>3, <1>6, <2>2, <2>5, SMTT(30)
    <3>2. frames'[new].prev.block \in 1..calls'.block
      BY <1>2, <1>3, <1>6, <1>8, <2>2
    <3>. QED BY <1>3, <3>1, <3>2
  <2>12. FrameChain'
    BY <1>3, <2>6, <2>7, <2>8, <2>10 DEF FrameChain
  <2>. QED
    BY <1>3, <1>5, <2>9, <2>11, <2>12 DEF Untouched, PointersKnown
<1>. QED BY <1>7, <1>8

LEMMA StartKeepsInv ==
    ASSUME Inv, Start
    PROVE  Inv'
<1>1. PushFrame(-1, Null) /\ status = "idle" /\ status' = "run"
  BY DEF Start
<1>2. ip' \in Nat \cup {-1} /\ data' \in Seq(Word) /\ output' \in Seq(OutputLine)
  BY DEF Start
<1>3. program' \in Programs
  BY DEF Start, Inv, TypeOK
<1>. QED BY <1>1, <1>2, <1>3, PushKeepsChain DEF Inv, TypeOK

LEMMA CallKeepsInv ==
    ASSUME Inv, CallUser
    PROVE  Inv'
<1>1. TypeOK /\ data \in Seq(Word) /\ output \in Seq(OutputLine) /\ program \in Programs
  BY DEF Inv, TypeOK
<1>2. /\ Step({"CALL"}) /\ ip \in DOMAIN program.code /\ Inst.opcode = "CALL"
      /\ status = "run" /\ status' = "run" /\ program' = program
      /\ Inst.operand \notin Natives
  BY DEF CallUser, Enter, Step
<1>3. IsProgram(program) /\ Inst.next \in Nat
  BY <1>1, <1>2, InstType
<1>4. HasSymbol(program, Inst.operand)
  BY <1>2 DEF Step, Fails, Traps, SymbolFails
<1>5. ip' \in Nat
  BY <1>3, <1>4, SymbolPosType DEF CallUser, Enter
<1>6. PushFrame(Inst.next, frame)
  BY DEF CallUser, Enter
<1>7. data' = data /\ output' = output
  BY DEF CallUser, Enter
<1>. QED BY <1>1, <1>2, <1>3, <1>5, <1>6, <1>7, PushKeepsChain DEF Inv, TypeOK

(* A return removes exactly the newest activation.                         *)
LEMMA RetStep ==
    ASSUME Inv, Ret
    PROVE  /\ frame.off # 0 /\ frame.off \in DOMAIN frames
           /\ calls' = [calls EXCEPT !.size = frame.off]
           /\ DOMAIN frames' = DOMAIN frames \ {frame.off}
           /\ \A o \in DOMAIN frames' : frames'[o] = frames[o]
           /\ frame' = frames[frame.off].prev
<1>1. FrameChain /\ Live /\ TypeOK /\ status = "run"
  BY DEF Inv, Ret, Step, Live
<1>2. /\ frame.off \in DOMAIN frames /\ frame.off + Stride = calls.size
      /\ \A o \in DOMAIN frames : HeaderOK(o) /\ LinkOK(o)
      /\ \A o, p \in DOMAIN frames : o < p => o + Stride <= p
  BY <1>1 DEF FrameChain
<1>3. Cur.return_pos # -1
  BY DEF Ret, Returning
<1>4. frame.off # 0
  BY <1>2, <1>3 DEF LinkOK, Cur
<1>5. /\ calls \in Buffer /\ calls.size \in Nat /\ frame.off \in Nat /\ DOMAIN frames \subseteq Nat
      /\ FrameSize \in Nat \ {0} /\ LocalSize \in Nat \ {0} /\ Stride = FrameSize + LocalSize
  BY <1>1, <1>2, RuntimeAssumption DEF TypeOK, Buffer, Stride
<1>6. Cur.loc_size = LocalSize
  BY <1>2 DEF HeaderOK, Cur
<1>7. calls' = Pop(Pop(calls, LocalSize), FrameSize)
  BY <1>6 DEF Ret
<1>8. calls' = [calls EXCEPT !.size = frame.off]
  <2>1. Pop(calls, LocalSize) = [calls EXCEPT !.size = calls.size - LocalSize]
    BY <1>5 DEF Pop
  <2>2. Pop(Pop(calls, LocalSize), FrameSize) = [calls EXCEPT !.size = calls.size - LocalSize - FrameSize]
    BY <1>5, <2>1 DEF Pop, Buffer
  <2>3. calls.size - LocalSize - FrameSize = frame.off
    BY <1>2, <1>5
  <2>. QED BY <1>7, <2>2, <2>3
<1>9. calls'.size = frame.off
  BY <1>5, <1>8 DEF Buffer
<1>10. \A o \in DOMAIN frames : o < frame.off <=> o # frame.off
  BY <1>2, <1>5 DEF HeaderOK
<1>11. frames' = [o \in {o \in DOMAIN frames : o < calls'.size} |-> frames[o]]
  BY DEF Ret
<1>. QED BY <1>2, <1>4, <1>8, <1>9, <1>10, <1>11 DEF Ret, Cur

LEMMA RetKeepsInv ==
    ASSUME Inv, Ret
    PROVE  Inv'
<1> DEFINE old == frame.off
<1>1. /\ TypeOK /\ FrameChain /\ PointersKnown /\ CapacityOK /\ Live
      /\ status = "run" /\ status' = "run" /\ program' = program
  BY DEF Inv, Ret, Step, Live
<1>2. /\ old # 0 /\ old \in DOMAIN frames
      /\ calls' = [calls EXCEPT !.size = old]
      /\ DOMAIN frames' = DOMAIN frames \ {old}
      /\ \A o \in DOMAIN frames' : frames'[o] = frames[o]
      /\ frame' = frames[old].prev
  BY RetStep
<1>3. /\ calls \in Buffer /\ calls.size \in Nat /\ calls.capacity \in Nat /\ calls.block \in Nat
      /\ old \in Nat /\ DOMAIN frames \subseteq Nat /\ \A o \in DOMAIN frames : frames[o] \in Frame
      /\ Stride \in Nat \ {0} /\ calls.size <= calls.capacity
  BY <1>1, <1>2, RuntimeAssumption DEF TypeOK, Buffer, Stride
<1>4. /\ old + Stride = calls.size
      /\ \A o \in DOMAIN frames : HeaderOK(o) /\ LinkOK(o)
      /\ \A o, p \in DOMAIN frames : o < p => o + Stride <= p
      /\ \A o \in DOMAIN frames \ {0} : frames[o].prev.block \in 1..calls.block
  BY <1>1 DEF FrameChain, PointersKnown
<1>5. /\ calls' \in Buffer /\ calls'.size = old /\ calls'.capacity = calls.capacity
      /\ calls'.block = calls.block /\ calls'.size <= calls'.capacity
  BY <1>2, <1>3, <1>4 DEF Buffer
<1>6. /\ frames[old].prev # Null /\ frames[old].prev.off \in DOMAIN frames
      /\ frames[old].prev.off + Stride = old
  BY <1>2, <1>4 DEF LinkOK
<1>7. frame'.off \in DOMAIN frames' /\ frame'.off + Stride = calls'.size /\ frame' # Null
  BY <1>2, <1>3, <1>5, <1>6
<1>8. \A o \in DOMAIN frames' : o + Stride <= old
  <2>1. \A o \in DOMAIN frames' : o < old
    BY <1>2, <1>3, <1>4 DEF HeaderOK
  <2>. QED BY <1>2, <1>4, <2>1
<1>9. \A o \in DOMAIN frames' : HeaderOK(o)' /\ LinkOK(o)'
  <2> SUFFICES ASSUME NEW o \in DOMAIN frames' PROVE HeaderOK(o)' /\ LinkOK(o)'
    OBVIOUS
  <2>1. frames'[o] = frames[o] /\ HeaderOK(o) /\ LinkOK(o) /\ o + Stride <= old
    BY <1>2, <1>4, <1>8
  <2>2. HeaderOK(o)'
    BY <1>5, <2>1 DEF HeaderOK
  <2>3. o # 0 => frames[o].prev.off # old
    BY <1>3, <1>2, <2>1 DEF LinkOK
  <2>4. LinkOK(o)'
    BY <1>2, <2>1, <2>3 DEF LinkOK
  <2>. QED BY <2>2, <2>4
<1>10. FrameChain'
  BY <1>2, <1>4, <1>7, <1>9 DEF FrameChain
<1>11. PointersKnown'
  BY <1>2, <1>4, <1>5 DEF PointersKnown
<1>12. TypeOK'
  <2>1. ip' \in Nat
    BY <1>2, <1>3 DEF Ret, Returning, Cur, Frame
  <2>2. \A o \in DOMAIN frames' : o \in Nat /\ frames'[o] \in Frame
    BY <1>2, <1>3
  <2>3. frame' \in Pointer
    BY <1>2, <1>3 DEF Frame
  <2>4. words' = words /\ data' = data /\ output' = output
    BY DEF Ret
  <2>. QED BY <1>1, <1>5, <2>1, <2>2, <2>3, <2>4 DEF TypeOK
<1>13. Untouched' /\ CapacityOK'
  BY <1>1, <1>5 DEF Untouched, CapacityOK
<1>. QED BY <1>10, <1>11, <1>12, <1>13 DEF Inv

LEMMA InvNext == Inv /\ [Next]_vars => Inv'
<1> SUFFICES ASSUME Inv, [Next]_vars PROVE Inv'
  OBVIOUS
<1>1. CASE UNCHANGED vars
  BY <1>1 DEF vars, Inv, TypeOK, Untouched, CapacityOK, FrameChain, PointersKnown,
              Live, HeaderOK, LinkOK
<1>2. CASE Start
  BY <1>2, StartKeepsInv
<1>3. CASE Nop \/ Ldi \/ Pop1 \/ Dup
  BY <1>3, DataActionsKeepInv
<1>4. CASE BinOp \/ UnOp
  BY <1>4, ArithmeticKeepsInv
<1>5. CASE Ldl \/ Stl
  BY <1>5, LocalsKeepInv
<1>6. CASE CallNative
  BY <1>6, NativeKeepsInv
<1>7. CASE CallUser
  BY <1>7, CallKeepsInv
<1>8. CASE Ret
  BY <1>8, RetKeepsInv
<1>9. CASE Br \/ ReadBefore
  BY <1>9, BranchKeepsInv
<1>10. CASE Exit \/ Trap
  BY <1>10, StopsKeepInv
<1>. QED
  BY <1>1, <1>2, <1>3, <1>4, <1>5, <1>6, <1>7, <1>8, <1>9, <1>10 DEF Next

-----------------------------------------------------------------------------
(* The theorems.                                                           *)

LEMMA InvAlways == Spec => []Inv
BY InvInit, InvNext, PTL DEF Spec

(* Every variable of the interpreter keeps its type, whatever the program: *)
(* words stay words, ip is a position or -1, the call stack never exceeds  *)
(* its capacity.                                                           *)
THEOREM TypeCorrect == Spec => []TypeOK
<1>1. Inv => TypeOK
  BY DEF Inv
<1>. QED BY <1>1, InvAlways, PTL

(* The call frames always form one chain of whole activations that ends at *)
(* the initial frame, however calls, returns and moves of the call stack   *)
(* interleave.                                                             *)
THEOREM FramesAreChained == Spec => []FrameChain
<1>1. Inv => FrameChain
  BY DEF Inv
<1>. QED BY <1>1, InvAlways, PTL

(* The assertion of dk_buffer_push never fires for a call: whatever the    *)
(* depth of the recursion, one doubling makes room for each push.          *)
THEOREM CallPushesFit == Spec => []PushesFit
<1>1. Inv => PushesFit
  <2> SUFFICES ASSUME Inv, NEW moved \in Moves
               PROVE  /\ PushFits(calls, FrameSize)
                      /\ PushFits(Push(calls, FrameSize, moved), LocalSize)
    BY DEF PushesFit
  <2>1. /\ calls \in Buffer /\ calls.size <= calls.capacity
        /\ calls.capacity = 0 \/ calls.capacity >= InitialCapacity
        /\ FrameSize \in Nat \ {0} /\ LocalSize \in Nat \ {0}
        /\ FrameSize <= InitialCapacity /\ LocalSize <= InitialCapacity
    BY RuntimeAssumption, CapacityAssumption DEF Inv, TypeOK, CapacityOK
  <2> DEFINE header == Push(calls, FrameSize, moved)
  <2>2. /\ PushFits(calls, FrameSize)
        /\ header \in Buffer /\ header.size <= header.capacity
        /\ header.capacity >= InitialCapacity
    BY <2>1, PushProperties
  <2> HIDE DEF header
  <2>3. PushFits(header, LocalSize)
    BY <2>1, <2>2, PushProperties
  <2>. QED BY <2>2, <2>3 DEF header
<1>. QED BY <1>1, InvAlways, PTL

(* Every step is the setup, an instruction, or the end of the run.         *)
LEMMA StatusSteps ==
    ASSUME [Next]_vars, Inv
    PROVE  \/ UNCHANGED <<status, program, ip, calls, frame>>
           \/ status \in {"idle", "run"} /\ status' \in {"run", "exit"}
           \/ Trap
BY DEF Next, vars, Start, Nop, Ldi, Ldl, Stl, Pop1, Dup, BinOp, UnOp, CallNative,
       CallUser, Enter, Ret, Exit, Br, ReadBefore, Step, OnData

(* The assertions of RET never fire, and a local access fails only when    *)
(* its operand is beyond the activation.                                   *)
LEMMA FrameAssertsStep == Inv /\ FrameAssertsHold /\ [Next]_vars => FrameAssertsHold'
<1> SUFFICES ASSUME Inv, FrameAssertsHold, [Next]_vars PROVE FrameAssertsHold'
  OBVIOUS
<1>1. CASE UNCHANGED <<status, program, ip, calls, frame>>
  BY <1>1 DEF FrameAssertsHold, Inst
<1>2. CASE status' \in {"run", "exit"}
  BY <1>2 DEF FrameAssertsHold
<1>3. CASE Trap
  <2>1. status = "run" /\ UNCHANGED <<program, ip, calls, frame, frames>>
    BY <1>3 DEF Trap
  <2>2. PICK t \in Traps : status' = t /\ (t = "read" \/ (ip \in DOMAIN program.code /\ Fails(t)))
    BY <1>3 DEF Trap, ReadFails, Traps
  <2>3. /\ frame.off \in DOMAIN frames /\ frame.off + Stride = calls.size
        /\ \A o \in DOMAIN frames : HeaderOK(o) /\ LinkOK(o)
        /\ TypeOK /\ calls.size \in Nat /\ frame.off \in Nat
    BY <2>1 DEF Inv, FrameChain, Live, TypeOK, Buffer, Pointer
  <2>4. FrameSize \in Nat /\ LocalSize \in Nat /\ Stride = FrameSize + LocalSize
    BY RuntimeAssumption DEF Stride
  <2>5. Cur.loc_base = frame.off + FrameSize /\ Cur.loc_size = LocalSize
    BY <2>3 DEF HeaderOK, Cur
  <2>6. ~PopFails
    BY <2>3, <2>4, <2>5 DEF PopFails, PopFits
  <2>7. ~NullFails
    BY <2>3 DEF NullFails, Returning, Cur, LinkOK
  <2>8. t # "pop" /\ t # "null"
    BY <2>2, <2>6, <2>7 DEF Fails
  <2>9. t = "local" => Inst.operand >= LocalSize
    <3> SUFFICES ASSUME t = "local" PROVE Inst.operand >= LocalSize
      OBVIOUS
    <3>1. LocalFails /\ ip \in DOMAIN program.code
      BY <2>2 DEF Fails
    <3>2. Inst.operand \in Nat
      BY <2>3, <3>1, InstType, WordAssumption DEF Word
    <3>3. ~(Cur.loc_base + Inst.operand + 1 <= calls.size)
      BY <3>1 DEF LocalFails, GetFits
    <3>. QED BY <2>3, <2>4, <2>5, <3>2, <3>3
  <2>. QED BY <2>1, <2>2, <2>8, <2>9 DEF FrameAssertsHold, Inst
<1>. QED BY <1>1, <1>2, <1>3, StatusSteps

(* The assertions on the frames hold in every run of every program: of all *)
(* the ways the interpreter can stop, none is a broken chain of frames.    *)
THEOREM FrameAsserts == Spec => []FrameAssertsHold
<1>1. Init => FrameAssertsHold
  BY DEF Init, FrameAssertsHold
<1>. QED BY <1>1, FrameAssertsStep, InvAlways, PTL DEF Spec

(* The block of a live call stack has a number, and it never goes back.    *)
LEMMA BlockGrows == Inv /\ [Next]_vars => calls'.block >= calls.block /\ calls.block \in Nat
<1> SUFFICES ASSUME Inv, [Next]_vars PROVE calls'.block >= calls.block /\ calls.block \in Nat
  OBVIOUS
<1>1. calls \in Buffer /\ calls.block \in Nat /\ TypeOK /\ CapacityOK
  BY DEF Inv, TypeOK, Buffer
<1>2. CASE Start \/ CallUser
  <2>1. \E ret, prev : PushFrame(ret, prev)
    BY <1>2 DEF Start, CallUser, Enter
  <2>. QED BY <1>1, <2>1, PushFrameStep
<1>3. CASE Ret
  BY <1>1, <1>3, RetStep DEF Buffer
<1>4. CASE ~(Start \/ CallUser \/ Ret)
  <2>1. calls' = calls
    BY <1>4 DEF Next, vars, Nop, Ldi, Ldl, Stl, Pop1, Dup, BinOp, UnOp, CallNative,
                Exit, Br, ReadBefore, Trap, OnData
  <2>. QED BY <1>1, <2>1
<1>. QED BY <1>2, <1>3, <1>4

(* No frame pointer dangles before the first move of the call stack.       *)
LEMMA FreshStep == Inv /\ Inv' /\ UnmovedIsFresh /\ [Next]_vars => UnmovedIsFresh'
<1> SUFFICES ASSUME Inv, Inv', UnmovedIsFresh, [Next]_vars, Live', calls'.block = 1
             PROVE  ~Stale(calls', frame') /\ status' # "stale"
  BY DEF UnmovedIsFresh, Stale
<1>1. frame'.block = 1 /\ PointersKnown
  BY DEF Inv, PointersKnown
<1>2. ~Stale(calls', frame')
  BY <1>1 DEF Stale
<1>3. status' # "stale"
  <2>1. CASE UNCHANGED <<status, program, ip, calls, frame>>
    BY <2>1 DEF UnmovedIsFresh, Live
  <2>2. CASE status' \in {"run", "exit"}
    BY <2>2
  <2>3. CASE Trap
    <3>1. status = "run" /\ calls' = calls /\ frame' = frame
      BY <2>3 DEF Trap
    <3>2. ~Stale(calls, frame)
      BY <1>2, <3>1 DEF Stale
    <3>. QED BY <2>3, <3>2 DEF Trap, Fails, Traps
  <2>. QED BY <2>1, <2>2, <2>3, StatusSteps
<1>. QED BY <1>2, <1>3

(* As long as the call stack is in its first block the interpreter reads   *)
(* no freed memory: a stale frame needs a move, and a move needs a call    *)
(* deeper than InitialCapacity holds.                                      *)
THEOREM FreshUntilMoved == Spec => []UnmovedIsFresh
<1>1. Init => UnmovedIsFresh
  BY DEF Init, UnmovedIsFresh, Live
<1>. QED BY <1>1, FreshStep, InvAlways, PTL DEF Spec

-----------------------------------------------------------------------------
(* How many words an instruction pushes on the data stack, besides those   *)
(* it pops, when it does not enter or leave a function.                    *)
Pushes(inst) ==
    IF inst.opcode = "DUP" THEN 2
    ELSE IF \/ inst.opcode \in {"LDI", "LDL"} \cup BinOps \cup UnOps
            \/ inst.opcode = "CALL" /\ inst.operand \in Natives
         THEN 1 ELSE 0

Within == Nop \/ Ldi \/ Ldl \/ Stl \/ Pop1 \/ Dup \/ BinOp \/ UnOp \/ CallNative \/ Br

LEMMA DroppedLength ==
    ASSUME Inv, NEW ops, Step(ops), NEW n \in Nat, Pops(program, Inst) = n
    PROVE  /\ Len(data) >= n /\ Drop(n) \in Seq(Word)
           /\ Len(Drop(n)) = Len(data) - n
           /\ \A w : Len(Append(Drop(n), w)) = Len(data) - n + 1
<1>1. TypeOK /\ data \in Seq(Word)
  BY DEF Inv, TypeOK
<1>2. Len(data) >= n
  BY <1>1, EnoughData
<1>3. Drop(n) \in Seq(Word) /\ Len(Drop(n)) = Len(data) - n
  BY <1>1, <1>2, DataProperties
<1>4. \A s \in Seq(Word) : \A w : Len(Append(s, w)) = Len(s) + 1
  OBVIOUS
<1>. QED BY <1>2, <1>3, <1>4

LEMMA NoBinOps ==
    ASSUME NEW op, op \in {"NOP", "POP", "DUP", "RET", "LDI", "LDL", "STL", "CALL", "BR"} \cup UnOps
    PROVE  op \notin BinOps
BY DEF BinOps, IntOps, FloatOps, UnOps

(* What the instructions that stay in their function do to the stack.      *)
LEMMA WordsMoved ==
    ASSUME Inv, Within
    PROVE  /\ status = "run" /\ UNCHANGED <<program, frames, frame, status>>
           /\ ip \in DOMAIN program.code /\ Inst.opcode # "RET"
           /\ Inst.opcode = "CALL" => Inst.operand \in Natives
           /\ \/ ip' = Inst.next
              \/ Inst.opcode = "BR" /\ ip' = IF Inst.operand = WordMax THEN -1 ELSE Inst.operand
           /\ Len(data) >= Pops(program, Inst)
           /\ Len(data') = Len(data) - Pops(program, Inst) + Pushes(Inst)
<1>1. data \in Seq(Word) /\ Len(data) \in Nat
  BY LenProperties DEF Inv, TypeOK
<1>2. CASE Nop \/ Ldi \/ Ldl
  <2>1. /\ Step({"NOP", "LDI", "LDL"}) /\ Inst.opcode \in {"NOP", "LDI", "LDL"}
        /\ ip' = Inst.next /\ UNCHANGED <<frames, frame>>
    BY <1>2 DEF Nop, Ldi, Ldl, Step, OnData
  <2>2. Pops(program, Inst) = 0
    BY <2>1, NoBinOps DEF Pops, UnOps
  <2>3. \A w : Len(Append(data, w)) = Len(data) + 1
    BY <1>1
  <2>4. CASE Nop
    <3>1. Inst.opcode = "NOP" /\ data' = data
      BY <2>4 DEF Nop, Step, OnData
    <3>2. Pushes(Inst) = 0
      BY <3>1, NoBinOps DEF Pushes, UnOps
    <3>. QED BY <1>1, <2>1, <2>2, <3>1, <3>2 DEF Step
  <2>5. CASE Ldi \/ Ldl
    <3>1. Inst.opcode \in {"LDI", "LDL"} /\ \E w : data' = Append(data, w)
      BY <2>5 DEF Ldi, Ldl, Step, OnData
    <3>2. Pushes(Inst) = 1
      BY <3>1 DEF Pushes
    <3>. QED BY <1>1, <2>1, <2>2, <2>3, <3>1, <3>2 DEF Step
  <2>. QED BY <1>2, <2>4, <2>5
<1>3. CASE Stl \/ Pop1 \/ Br
  <2>1. /\ Step({"STL", "POP", "BR"}) /\ Inst.opcode \in {"STL", "POP", "BR"}
        /\ data' = Drop(1) /\ UNCHANGED <<frames, frame>>
    BY <1>3 DEF Stl, Pop1, Br, Step, OnData
  <2>2. Pops(program, Inst) = 1 /\ Pushes(Inst) = 0
    BY <2>1, NoBinOps DEF Pops, Pushes, UnOps
  <2>3. Len(data) >= 1 /\ Len(Drop(1)) = Len(data) - 1
    BY <2>1, <2>2, DroppedLength
  <2>4. \/ ip' = Inst.next
        \/ Inst.opcode = "BR" /\ ip' = IF Inst.operand = WordMax THEN -1 ELSE Inst.operand
    BY <1>3 DEF Stl, Pop1, Br, Step, OnData
  <2>. QED BY <1>1, <2>1, <2>2, <2>3, <2>4 DEF Step
<1>4. CASE Dup
  <2>1. /\ Step({"DUP"}) /\ Inst.opcode = "DUP" /\ ip' = Inst.next /\ UNCHANGED <<frames, frame>>
        /\ data' = Drop(1) \o <<Arg(0), Arg(0)>>
    BY <1>4 DEF Dup, Step, OnData
  <2>2. Pops(program, Inst) = 1 /\ Pushes(Inst) = 2
    BY <2>1, NoBinOps DEF Pops, Pushes
  <2>3. Len(data) >= 1 /\ Len(Drop(1)) = Len(data) - 1 /\ Drop(1) \in Seq(Word)
    BY <2>1, <2>2, DroppedLength
  <2>4. Arg(0) \in Word
    BY <1>1, <2>3, DataProperties
  <2>5. \A s \in Seq(Word), w \in Word : Len(s \o <<w, w>>) = Len(s) + 2
    OBVIOUS
  <2>6. Len(data') = Len(data) - 1 + 2
    BY <1>1, <2>1, <2>3, <2>4, <2>5
  <2>. QED BY <1>1, <2>1, <2>2, <2>3, <2>6 DEF Step
<1>5. CASE BinOp
  <2>1. /\ Step(BinOps) /\ Inst.opcode \in BinOps /\ ip' = Inst.next /\ UNCHANGED <<frames, frame>>
        /\ \E w : data' = Append(Drop(2), w)
    BY <1>5 DEF BinOp, Step, OnData
  <2>2. Pops(program, Inst) = 2 /\ Pushes(Inst) = 1
    BY <2>1, NoBinOps DEF Pops, Pushes
  <2>3. Len(data) >= 2 /\ Len(data') = Len(data) - 2 + 1
    BY <2>1, <2>2, DroppedLength
  <2>. QED BY <1>1, <2>1, <2>2, <2>3, NoBinOps DEF Step
<1>6. CASE UnOp
  <2>1. /\ Step(UnOps) /\ Inst.opcode \in UnOps /\ ip' = Inst.next /\ UNCHANGED <<frames, frame>>
        /\ \E w : data' = Append(Drop(1), w)
    BY <1>6 DEF UnOp, Step, OnData
  <2>2. Pops(program, Inst) = 1 /\ Pushes(Inst) = 1 /\ Inst.opcode \notin {"RET", "CALL"}
    BY <2>1, NoBinOps DEF Pops, Pushes, UnOps
  <2>3. Len(data) >= 1 /\ Len(data') = Len(data) - 1 + 1
    BY <2>1, <2>2, DroppedLength
  <2>. QED BY <1>1, <2>1, <2>2, <2>3 DEF Step
<1>7. CASE CallNative
  <2>1. /\ Step({"CALL"}) /\ Inst.opcode = "CALL" /\ Inst.operand \in Natives
        /\ ip' = Inst.next /\ UNCHANGED <<frames, frame>>
        /\ data' = Append(Drop(1), 0)
    BY <1>7 DEF CallNative, Step, OnData
  <2>2. Pops(program, Inst) = 1 /\ Pushes(Inst) = 1
    BY <2>1, NoBinOps DEF Pops, Pushes
  <2>3. Len(data) >= 1 /\ Len(data') = Len(data) - 1 + 1
    BY <2>1, <2>2, DroppedLength
  <2>. QED BY <1>1, <2>1, <2>2, <2>3 DEF Step
<1>. QED BY <1>2, <1>3, <1>4, <1>5, <1>6, <1>7 DEF Within

-----------------------------------------------------------------------------
(* Suspended activations.                                                  *)

LEMMA CallerLocalsStep ==
    Inv /\ [Next]_vars =>
        [\A o \in Suspended :
           /\ o \in DOMAIN frames' /\ frames'[o] = frames[o]
           /\ \A i \in LocalsOf(o) : words'[i] = words[i]]_vars
<1> SUFFICES ASSUME Inv, Next, NEW o \in Suspended
             PROVE  /\ o \in DOMAIN frames' /\ frames'[o] = frames[o]
                    /\ \A i \in LocalsOf(o) : words'[i] = words[i]
  OBVIOUS
<1>1. o \in DOMAIN frames /\ o # frame.off
  BY DEF Suspended
<1>2. TypeOK /\ CapacityOK /\ o \in Nat
  BY <1>1 DEF Inv, TypeOK
<1>3. CASE Start
  BY <1>1, <1>3 DEF Start, Inv, Untouched
<1>4. CASE ~Start
  <2>1. status = "run"
    BY <1>4 DEF Next, Nop, Ldi, Ldl, Stl, Pop1, Dup, BinOp, UnOp, CallNative,
                CallUser, Enter, Ret, Exit, Br, ReadBefore, Trap, Step
  <2>2. /\ frame.off \in DOMAIN frames /\ frame.off + Stride = calls.size
        /\ \A p \in DOMAIN frames : HeaderOK(p)
        /\ \A p, q \in DOMAIN frames : p < q => p + Stride <= q
    BY <2>1 DEF Inv, FrameChain, Live
  <2>3. /\ calls.size \in Nat /\ calls.capacity \in Nat /\ calls.size <= calls.capacity
        /\ FrameSize \in Nat \ {0} /\ LocalSize \in Nat \ {0} /\ Stride = FrameSize + LocalSize
        /\ frame.off \in Nat /\ words \in [0..calls.capacity-1 -> Word]
    BY <1>2, <2>2, RuntimeAssumption DEF TypeOK, Buffer, Stride
  <2>4. frames[o].loc_base = o + FrameSize /\ frames[o].loc_size = LocalSize
        /\ o + Stride <= calls.size
    BY <1>1, <2>2 DEF HeaderOK
  <2>5. o < frame.off
    <3>1. frame.off < o => frame.off + Stride <= o
      BY <1>1, <2>2
    <3>2. Stride \in Nat \ {0}
      BY <2>3
    <3>. QED BY <1>1, <1>2, <2>2, <2>3, <2>4, <3>1, <3>2
  <2>6. o + Stride <= frame.off
    BY <1>1, <2>2, <2>5
  <2>7. \A i \in LocalsOf(o) : i \in DOMAIN words /\ i < frame.off /\ i \in Nat
    <3>1. LocalsOf(o) = o + FrameSize .. o + FrameSize + LocalSize - 1
      BY <2>4 DEF LocalsOf
    <3>2. DOMAIN words = 0..calls.capacity-1 /\ o + FrameSize + LocalSize <= frame.off
          /\ frame.off <= calls.size
      BY <1>2, <2>2, <2>3, <2>6
    <3>. QED BY <1>2, <2>3, <3>1, <3>2
  <2>8. CASE CallUser
    <3>1. PushFrame(Inst.next, frame)
      BY <2>8 DEF CallUser, Enter
    <3>2. o # calls.size
      BY <1>2, <2>3, <2>4
    <3>. QED BY <1>1, <1>2, <2>7, <3>1, <3>2, PushFrameStep
  <2>9. CASE Ret
    BY <1>1, <2>9, RetStep DEF Ret
  <2>10. CASE Stl
    <3>1. Step({"LDL", "STL"}) /\ UNCHANGED frames
      BY <2>10 DEF Stl, Step
    <3>2. words' = [words EXCEPT ![Cur.loc_base + Inst.operand] = Arg(0)]
      BY <2>10 DEF Stl
    <3>3. Cur.loc_base = frame.off + FrameSize
      BY <2>2 DEF HeaderOK, Cur
    <3>4. Inst.operand \in Nat
      BY <1>2, <3>1, InstType, WordAssumption DEF Step, Word
    <3>5. \A i \in LocalsOf(o) : i # Cur.loc_base + Inst.operand
      BY <2>3, <2>7, <3>3, <3>4
    <3>. QED BY <1>1, <2>3, <2>7, <3>1, <3>2, <3>5
  <2>11. CASE ~(CallUser \/ Ret \/ Stl)
    <3>1. UNCHANGED <<frames, words>>
      BY <1>4, <2>11 DEF Next, Nop, Ldi, Ldl, Pop1, Dup, BinOp, UnOp, CallNative,
                         Exit, Br, ReadBefore, Trap, OnData
    <3>. QED BY <1>1, <3>1
  <2>. QED BY <2>8, <2>9, <2>10, <2>11
<1>. QED BY <1>3, <1>4

(* Calls, returns, stores and growth never disturb a suspended activation: *)
(* its header and its locals are as it left them when it resumes.          *)
THEOREM CallersUndisturbed == Spec => CallerLocalsKept
BY CallerLocalsStep, InvAlways, PTL DEF Spec, CallerLocalsKept

-----------------------------------------------------------------------------
(* Every return goes to the position after a CALL instruction.             *)
LEMMA ReturnSitesStep == Inv /\ ReturnSites /\ [Next]_vars => ReturnSites'
<1> SUFFICES ASSUME Inv, ReturnSites, [Next]_vars PROVE ReturnSites'
  OBVIOUS
<1> DEFINE Site(p, f) == \/ f.return_pos = -1
                         \/ \E pos \in DOMAIN p.code :
                              p.code[pos].opcode = "CALL" /\ p.code[pos].next = f.return_pos
<1>1. \A o \in DOMAIN frames : Site(program, frames[o])
  BY DEF ReturnSites
<1>2. program' = program
  BY DEF Next, vars, Start, Nop, Ldi, Ldl, Stl, Pop1, Dup, BinOp, UnOp, CallNative,
         CallUser, Enter, Ret, Exit, Br, ReadBefore, Trap, Step
<1>3. TypeOK /\ CapacityOK
  BY DEF Inv
<1> SUFFICES \A o \in DOMAIN frames' : Site(program, frames'[o])
  BY <1>2 DEF ReturnSites
<1>4. CASE Start
  <2>1. PushFrame(-1, Null)
    BY <1>4 DEF Start
  <2>2. /\ DOMAIN frames' = DOMAIN frames \cup {calls.size}
        /\ \A o \in DOMAIN frames : o # calls.size => frames'[o] = frames[o]
        /\ frames'[calls.size] = [loc_base   |-> calls.size + FrameSize,
                                  loc_size   |-> LocalSize,
                                  return_pos |-> -1, prev |-> Null]
    BY <1>3, <2>1, PushFrameStep
  <2>3. Site(program, frames'[calls.size])
    BY <2>2
  <2> HIDE DEF Site
  <2>. QED BY <1>1, <2>2, <2>3
<1>5. CASE CallUser
  <2>1. PushFrame(Inst.next, frame)
    BY <1>5 DEF CallUser, Enter
  <2>2. ip \in DOMAIN program.code /\ program.code[ip].opcode = "CALL"
    BY <1>5 DEF CallUser, Enter, Step, Inst
  <2>3. /\ DOMAIN frames' = DOMAIN frames \cup {calls.size}
        /\ \A o \in DOMAIN frames : o # calls.size => frames'[o] = frames[o]
        /\ frames'[calls.size] = [loc_base   |-> calls.size + FrameSize,
                                  loc_size   |-> LocalSize,
                                  return_pos |-> Inst.next, prev |-> frame]
    BY <1>3, <2>1, PushFrameStep
  <2>4. Site(program, frames'[calls.size])
    BY <2>2, <2>3 DEF Inst
  <2> HIDE DEF Site
  <2>. QED BY <1>1, <2>3, <2>4
<1>6. CASE Ret
  BY <1>1, <1>6, RetStep
<1>7. CASE ~(Start \/ CallUser \/ Ret)
  <2>1. frames' = frames
    BY <1>7 DEF Next, vars, Nop, Ldi, Ldl, Stl, Pop1, Dup, BinOp, UnOp, CallNative,
                Exit, Br, ReadBefore, Trap, OnData
  <2>. QED BY <1>1, <2>1
<1>. QED BY <1>4, <1>5, <1>6, <1>7

(* A return resumes right after the call that made the frame, for every    *)
(* program: return_pos is never a position the program did not call from.  *)
THEOREM ReturnsToCallSites == Spec => []ReturnSites
<1>1. Init => ReturnSites
  BY DEF Init, ReturnSites
<1>. QED BY <1>1, ReturnSitesStep, InvAlways, PTL DEF Spec

-----------------------------------------------------------------------------
(* dk_run_program implements the machine of private activations.           *)
(* The buffer holds whole activations and nothing else; as long as it was  *)
(* not grown it is in its first block, or in none.                         *)
DepthKnown ==
    /\ IsFiniteSet(DOMAIN frames)
    /\ Cardinality(DOMAIN frames) * Stride = calls.size
    /\ calls.capacity = 0 => calls.block = 0
    /\ calls.capacity <= InitialCapacity => calls.block <= 1

MachineInv == Inv /\ DepthKnown

-----------------------------------------------------------------------------
(* The operators of DkBytecode mean the same to the machine.               *)
LEMMA SameCardinality == \A S : Machine!Cardinality(S) = Cardinality(S)
BY DEF Machine!Cardinality, Cardinality, Machine!IsFiniteSet, IsFiniteSet

LEMMA SameOpcodes ==
    /\ Machine!BinOps = BinOps /\ Machine!UnOps = UnOps /\ Machine!Natives = Natives
    /\ Machine!Word = Word
BY DEF Machine!BinOps, BinOps, Machine!IntOps, IntOps, Machine!FloatOps, FloatOps,
       Machine!UnOps, UnOps, Machine!Natives, Natives, Machine!Word, Word

LEMMA SamePops == \A p, inst : Machine!Pops(p, inst) = Pops(p, inst)
BY SameOpcodes DEF Machine!Pops, Pops

LEMMA SameSymbols ==
    \A p, id : /\ Machine!HasSymbol(p, id) <=> HasSymbol(p, id)
               /\ Machine!SymbolPos(p, id) = SymbolPos(p, id)
BY DEF Machine!HasSymbol, HasSymbol, Machine!SymbolPos, SymbolPos

LEMMA SameOutput ==
    /\ \A id, a : Machine!Printed(id, a) = Printed(id, a)
    /\ Machine!WrongSize = WrongSize
BY DEF Machine!Printed, Printed, Machine!WrongSize, WrongSize,
       Machine!f64_from_u64, f64_from_u64, Machine!i64, i64

LEMMA SameDivision == \A op, a, b : Machine!DivideFaults(op, a, b) <=> DivideFaults(op, a, b)
BY DEF Machine!DivideFaults, DivideFaults, Machine!i64, i64, Machine!MinInt, MinInt

LEMMA SameCalc ==
    /\ \A op, a, b : Machine!Calc(op, a, b) = Calc(op, a, b)
    /\ \A op, a : Machine!CalcUnary(op, a) = CalcUnary(op, a)
BY DEF Machine!Calc, Calc, Machine!CalcInt, CalcInt, Machine!CalcFloat, CalcFloat,
       Machine!CalcUnary, CalcUnary, Machine!IntOps, IntOps, Machine!u64, u64, Machine!i64, i64,
       Machine!Trunc, Trunc, Machine!f64_from_u64, f64_from_u64, Machine!u64_from_f64, u64_from_f64,
       Machine!FloatQuotient, FloatQuotient, Machine!FloatBool, FloatBool,
       Machine!BoolWord, BoolWord, Machine!Infinity, Infinity

-----------------------------------------------------------------------------
(* How deep calls are nested.                                              *)

(* n activations of s words do not fit into c words when n is more than    *)
(* the whole number of activations that do.                                *)
LEMMA HowManyFit ==
    ASSUME NEW n \in Nat, NEW s \in Nat \ {0}, NEW c \in Nat
    PROVE  n > c \div s <=> n * s > c
<1> DEFINE q == c \div s
<1>1. q \in Nat /\ q * s <= c /\ c < (q + 1) * s
  OBVIOUS
<1> HIDE DEF q
<1>2. CASE n > q
  <2>1. n >= q + 1
    BY <1>1, <1>2
  <2>2. n * s >= (q + 1) * s
    BY <1>1, <2>1
  <2>. QED BY <1>1, <1>2, <2>2 DEF q
<1>3. CASE ~(n > q)
  <2>1. n * s <= q * s
    BY <1>1, <1>3
  <2>. QED BY <1>1, <1>3, <2>1 DEF q
<1>. QED BY <1>2, <1>3

(* One push: the capacity passes the first allocation exactly when the     *)
(* size does, and the block is moved only then.                            *)
LEMMA PushAllocates ==
    ASSUME NEW b \in Buffer, b.size <= b.capacity,
           b.capacity = 0 \/ b.capacity >= InitialCapacity,
           b.capacity = 0 => b.block = 0, b.capacity <= InitialCapacity => b.block <= 1,
           NEW n \in Nat \ {0}, n <= InitialCapacity, NEW moved \in BOOLEAN
    PROVE  LET c == Push(b, n, moved) IN
           /\ c.capacity > InitialCapacity
                <=> (b.capacity > InitialCapacity \/ b.size + n > InitialCapacity)
           /\ c.capacity = 0 => c.block = 0
           /\ c.capacity <= InitialCapacity => c.block <= 1
<1>1. b.size \in Nat /\ b.capacity \in Nat /\ b.block \in Nat
  BY DEF Buffer
<1>2. b = [size |-> b.size, capacity |-> b.capacity, block |-> b.block]
  BY DEF Buffer
<1>3. CASE Grows(b, n)
  BY <1>1, <1>3, CapacityAssumption DEF Push, Grows, NextCapacity
<1>4. CASE ~Grows(b, n)
  BY <1>1, <1>2, <1>4, CapacityAssumption DEF Push, Grows
<1>. QED BY <1>3, <1>4

(* A new activation nests deeper than the first allocation has room for    *)
(* exactly when the buffer has to grow beyond it.                          *)
LEMMA PushDeepens ==
    ASSUME MachineInv, status \in {"idle", "run"}, NEW ret, NEW prev, PushFrame(ret, prev)
    PROVE  /\ DepthKnown'
           /\ calls.size \notin DOMAIN frames
           /\ NestedDeep' <=> (NestedDeep \/ Cardinality(DOMAIN frames') > InitialCapacity \div Stride)
<1>1. /\ Inv /\ TypeOK /\ CapacityOK /\ DepthKnown
      /\ calls \in Buffer /\ calls.size <= calls.capacity
      /\ calls.size \in Nat /\ calls.capacity \in Nat /\ calls.block \in Nat
  BY DEF MachineInv, Inv, TypeOK, Buffer
<1>2. /\ FrameSize \in Nat \ {0} /\ LocalSize \in Nat \ {0} /\ Stride = FrameSize + LocalSize
      /\ Stride \in Nat \ {0} /\ Stride <= InitialCapacity /\ InitialCapacity \in Nat \ {0}
  BY RuntimeAssumption, CapacityAssumption DEF Stride
<1>3. PICK moved1 \in Moves, moved2 \in Moves :
        calls' = Push(Push(calls, FrameSize, moved1), LocalSize, moved2)
  BY DEF PushFrame, PushActivation
<1>4. moved1 \in BOOLEAN /\ moved2 \in BOOLEAN
  BY RuntimeAssumption
<1> DEFINE header == Push(calls, FrameSize, moved1)
<1>5. /\ header \in Buffer /\ header.size = calls.size + FrameSize
      /\ header.size <= header.capacity /\ header.capacity >= InitialCapacity
  BY <1>1, <1>2, PushProperties DEF CapacityOK
<1>6. /\ header.capacity > InitialCapacity
           <=> (calls.capacity > InitialCapacity \/ calls.size + FrameSize > InitialCapacity)
      /\ header.capacity = 0 => header.block = 0
      /\ header.capacity <= InitialCapacity => header.block <= 1
  BY <1>1, <1>2, <1>4, PushAllocates DEF CapacityOK, DepthKnown
<1> HIDE DEF header
<1>7. /\ calls'.capacity > InitialCapacity
           <=> (header.capacity > InitialCapacity \/ header.size + LocalSize > InitialCapacity)
      /\ calls'.capacity = 0 => calls'.block = 0
      /\ calls'.capacity <= InitialCapacity => calls'.block <= 1
  BY <1>2, <1>3, <1>4, <1>5, <1>6, PushAllocates DEF header
<1>8. /\ calls'.size = calls.size + Stride
      /\ DOMAIN frames' = DOMAIN frames \cup {calls.size}
  BY <1>1, PushFrameStep
<1>9. calls.size \notin DOMAIN frames
  <2>1. CASE status = "idle"
    BY <1>1, <2>1 DEF Inv, Untouched
  <2>2. CASE status = "run"
    BY <1>1, <1>2, <2>2 DEF Inv, FrameChain, Live, HeaderOK
  <2>. QED BY <2>1, <2>2
<1> DEFINE n == Cardinality(DOMAIN frames)
<1>10. /\ IsFiniteSet(DOMAIN frames) /\ n \in Nat /\ n * Stride = calls.size
  BY <1>1, FS_CardinalityType DEF DepthKnown
<1>11. IsFiniteSet(DOMAIN frames') /\ Cardinality(DOMAIN frames') = n + 1
  BY <1>8, <1>9, <1>10, FS_AddElement
<1> HIDE DEF n
<1>12. (n + 1) * Stride = calls'.size
  BY <1>2, <1>8, <1>10
<1>13. Cardinality(DOMAIN frames') > InitialCapacity \div Stride <=> calls'.size > InitialCapacity
  <2>1. n + 1 > InitialCapacity \div Stride <=> (n + 1) * Stride > InitialCapacity
    <3>1. n + 1 \in Nat
      BY <1>10
    <3>. QED BY <1>2, <3>1, HowManyFit
  <2>. QED BY <1>11, <1>12, <2>1
<1>14. NestedDeep' <=> (NestedDeep \/ calls'.size > InitialCapacity)
  BY <1>1, <1>2, <1>5, <1>6, <1>7, <1>8 DEF NestedDeep
<1>15. DepthKnown'
  BY <1>7, <1>11, <1>12 DEF DepthKnown
<1>. QED BY <1>9, <1>13, <1>14, <1>15

LEMMA DepthInit == Init => DepthKnown
<1> SUFFICES ASSUME Init PROVE DepthKnown
  OBVIOUS
<1>1. DOMAIN frames = {} /\ calls = EmptyBuffer
  BY DEF Init
<1>2. Stride \in Nat
  BY RuntimeAssumption DEF Stride
<1>. QED BY <1>1, <1>2, FS_EmptySet DEF DepthKnown, EmptyBuffer

LEMMA DepthNext == MachineInv /\ [Next]_vars => DepthKnown'
<1> SUFFICES ASSUME MachineInv, [Next]_vars PROVE DepthKnown'
  OBVIOUS
<1>1. CASE Start \/ CallUser
  <2>1. status \in {"idle", "run"} /\ \E ret, prev : PushFrame(ret, prev)
    BY <1>1 DEF Start, CallUser, Enter, Step
  <2>. QED BY <2>1, PushDeepens
<1>2. CASE Ret
  <2>1. /\ frame.off \in DOMAIN frames /\ calls' = [calls EXCEPT !.size = frame.off]
        /\ DOMAIN frames' = DOMAIN frames \ {frame.off} /\ status = "run"
    BY <1>2, RetStep DEF MachineInv, Ret, Step
  <2>2. /\ calls \in Buffer /\ calls.size \in Nat /\ frame.off + Stride = calls.size
        /\ frame.off \in Nat
    BY <2>1 DEF MachineInv, Inv, TypeOK, Buffer, FrameChain, Live
  <2>3. /\ calls'.size = frame.off /\ calls'.capacity = calls.capacity
        /\ calls'.block = calls.block
    BY <2>1, <2>2 DEF Buffer
  <2> DEFINE n == Cardinality(DOMAIN frames)
  <2>4. /\ IsFiniteSet(DOMAIN frames) /\ n \in Nat /\ n * Stride = calls.size
    BY FS_CardinalityType DEF MachineInv, DepthKnown
  <2>5. IsFiniteSet(DOMAIN frames') /\ Cardinality(DOMAIN frames') = n - 1
    BY <2>1, <2>4, FS_RemoveElement
  <2> HIDE DEF n
  <2>6. Stride \in Nat /\ (n - 1) * Stride = frame.off
    <3>1. Stride \in Nat
      BY RuntimeAssumption DEF Stride
    <3>. QED BY <2>2, <2>4, <3>1
  <2>. QED BY <2>3, <2>5, <2>6 DEF MachineInv, DepthKnown
<1>3. CASE ~(Start \/ CallUser \/ Ret)
  <2>1. UNCHANGED <<calls, frames>>
    BY <1>3 DEF Next, vars, Nop, Ldi, Ldl, Stl, Pop1, Dup, BinOp, UnOp, CallNative,
                Exit, Br, ReadBefore, Trap, OnData
  <2>. QED BY <2>1 DEF MachineInv, DepthKnown
<1>. QED BY <1>1, <1>2, <1>3

LEMMA MachineInvAlways == Spec => []MachineInv
<1>1. Init => MachineInv
  BY InvInit, DepthInit DEF MachineInv
<1>2. MachineInv /\ [Next]_vars => MachineInv'
  BY InvNext, DepthNext DEF MachineInv
<1>. QED BY <1>1, <1>2, PTL DEF Spec

-----------------------------------------------------------------------------
(* The data stack, as the machine writes it down.                          *)
LEMMA StackTop ==
    ASSUME data \in Seq(Word), NEW n \in 0..2, n <= Len(data)
    PROVE  /\ Machine!Below(n) = Drop(n)
           /\ n = 0 => Machine!Below(n) = data /\ Machine!Tops(n) = <<>>
           /\ n = 1 => Machine!Tops(n) = <<Arg(0)>>
           /\ n = 2 => Machine!Tops(n) = <<Arg(1), Arg(0)>>
<1>1. Len(data) \in Nat /\ \A i \in 1..Len(data) : data[i] \in Word
  BY LenProperties, ElementOfSeq
<1>2. Machine!Below(n) = Drop(n)
  BY DEF Machine!Below, Drop
<1>3. /\ Machine!Tops(n) \in Seq(Word) /\ Len(Machine!Tops(n)) = n
      /\ \A i \in 1..n : Machine!Tops(n)[i] = data[Len(data) - n + i]
  BY <1>1, SubSeqProperties DEF Machine!Tops
<1>4. n = 0 => Machine!Below(n) = data
  BY <1>1, SubSeqProperties DEF Machine!Below
<1>5. n = 0 => Machine!Tops(n) = <<>>
  BY <1>3, EmptySeq
<1>6. n = 1 => Machine!Tops(n) = <<Arg(0)>>
  BY <1>1, <1>3 DEF Arg
<1>7. n = 2 => Machine!Tops(n) = <<Arg(1), Arg(0)>>
  BY <1>1, <1>3 DEF Arg
<1>. QED BY <1>2, <1>4, <1>5, <1>6, <1>7

(* The current activation and its locals.                                  *)
LEMMA CurrentLocals ==
    ASSUME Inv, status = "run"
    PROVE  /\ CurrentActivation = frame.off /\ frame.off \in DOMAIN Activations
           /\ Machine!Act.ret = Cur.return_pos
           /\ Machine!Act.caller = IF Cur.prev = Null THEN -1 ELSE Cur.prev.off
           /\ \A i \in 0..LocalSize-1 : Machine!Act.locals[i] = words[Cur.loc_base + i]
           /\ Cur.loc_base = frame.off + FrameSize
           /\ DOMAIN Activations = DOMAIN frames
<1>1. frame.off \in DOMAIN frames /\ HeaderOK(frame.off)
  BY DEF Inv, FrameChain, Live
<1>2. CurrentActivation = frame.off /\ DOMAIN Activations = DOMAIN frames
  BY DEF CurrentActivation, Activations
<1>3. Machine!Act = Activations[frame.off]
  BY <1>2 DEF Machine!Act
<1>. QED BY <1>1, <1>2, <1>3 DEF Activations, HeaderOK, Cur

(* What the assertions of an instruction leave open is what the machine    *)
(* needs: the words it pops, a local of its activation, a known symbol, a  *)
(* division with a result.                                                 *)
LEMMA ChecksAreMachines ==
    ASSUME Inv, status = "run"
    PROVE  /\ Machine!Inst = Inst
           /\ DataFails <=> Len(data) < Machine!Pops(program, Inst)
           /\ ip \in DOMAIN program.code /\ LocalFails
                => Inst.opcode \in {"LDL", "STL"} /\ Inst.operand >= LocalSize
           /\ ip \in DOMAIN program.code /\ ~DataFails /\ Inst.opcode \in {"LDL", "STL"}
                => LocalFails \/ Inst.operand \in 0..LocalSize-1
           /\ SymbolFails <=> /\ Inst.opcode = "CALL"
                              /\ ~(Inst.operand \in Machine!Natives
                                   \/ Machine!HasSymbol(program, Inst.operand))
           /\ ~DataFails => (DivideFails <=>
                /\ Inst.opcode \in {"UDIV", "IDIV"}
                /\ Machine!DivideFaults(Inst.opcode, Machine!Tops(2)[1], Machine!Tops(2)[2]))
<1>1. TypeOK /\ data \in Seq(Word) /\ Len(data) \in Nat
  BY LenProperties DEF Inv, TypeOK
<1>2. Machine!Inst = Inst
  BY DEF Machine!Inst, Inst
<1>3. DataFails <=> Len(data) < Machine!Pops(program, Inst)
  BY SamePops DEF DataFails
<1>4. /\ frame.off + Stride = calls.size /\ frame.off \in Nat /\ calls.size \in Nat
      /\ LocalSize \in Nat /\ FrameSize \in Nat /\ Stride = FrameSize + LocalSize
      /\ Cur.loc_base = frame.off + FrameSize
  BY <1>1, CurrentLocals, RuntimeAssumption DEF Inv, FrameChain, Live, TypeOK, Buffer, Pointer, Stride
<1>5. ip \in DOMAIN program.code => Inst.operand \in Nat
  BY <1>1, InstType, WordAssumption DEF Word
<1>6. ip \in DOMAIN program.code /\ LocalFails
        => Inst.opcode \in {"LDL", "STL"} /\ Inst.operand >= LocalSize
  BY <1>4, <1>5 DEF LocalFails, GetFits
<1>7. ip \in DOMAIN program.code /\ ~DataFails /\ Inst.opcode \in {"LDL", "STL"}
        => LocalFails \/ Inst.operand \in 0..LocalSize-1
  BY <1>4, <1>5 DEF LocalFails, GetFits
<1>8. SymbolFails <=> /\ Inst.opcode = "CALL"
                      /\ ~(Inst.operand \in Machine!Natives
                           \/ Machine!HasSymbol(program, Inst.operand))
  BY SameOpcodes, SameSymbols DEF SymbolFails
<1>9. ASSUME ~DataFails, Inst.opcode \in {"UDIV", "IDIV"}
      PROVE  Machine!Tops(2) = <<Arg(1), Arg(0)>>
  <2>1. Pops(program, Inst) = 2
    BY <1>9 DEF Pops, BinOps, IntOps
  <2>2. 2 <= Len(data)
    BY <1>1, <1>9, <2>1 DEF DataFails
  <2>. QED BY <1>1, <2>2, StackTop
<1>10. ~DataFails => (DivideFails <=>
          /\ Inst.opcode \in {"UDIV", "IDIV"}
          /\ Machine!DivideFaults(Inst.opcode, Machine!Tops(2)[1], Machine!Tops(2)[2]))
  BY <1>9, SameDivision DEF DivideFails
<1>. QED BY <1>2, <1>3, <1>6, <1>7, <1>8, <1>10

LEMMA TwoWords ==
    ASSUME NEW w \in Word
    PROVE  <<w>> \o <<w>> = <<w, w>>
<1>1. <<w>> \in Seq(Word) /\ Len(<<w>>) = 1 /\ <<w>>[1] = w
  OBVIOUS
<1>2. <<w, w>> \in Seq(Word) /\ Len(<<w, w>>) = 2 /\ <<w, w>>[1] = w /\ <<w, w>>[2] = w
  OBVIOUS
<1> DEFINE s == <<w>> \o <<w>>
<1>3. s \in Seq(Word) /\ Len(s) = 2 /\ \A i \in 1..2 : s[i] = w
  BY <1>1, ConcatProperties
<1> HIDE DEF s
<1>4. \A i \in 1..Len(s) : s[i] = <<w, w>>[i]
  BY <1>2, <1>3
<1>5. s = <<w, w>>
  BY <1>2, <1>3, <1>4, SeqEqual
<1>. QED BY <1>5 DEF s

-----------------------------------------------------------------------------
(* Each action of the interpreter is one of the machine.                   *)

LEMMA MachineStep ==
    ASSUME Inv, NEW ops, Step(ops)
    PROVE  Machine!Step
<1>1. /\ status = "run" /\ ip \in DOMAIN program.code /\ UNCHANGED <<program, status>>
      /\ ~DataFails /\ ~LocalFails /\ ~SymbolFails /\ ~DivideFails
  BY DEF Step, Fails, Traps
<1>2. Len(data) \in Nat /\ Machine!Pops(program, Inst) \in Nat
  BY SamePops, LenProperties DEF Inv, TypeOK, Pops
<1>3. Inst.opcode \in {"LDL", "STL"} => Inst.operand \in 0..LocalSize-1
  BY <1>1, ChecksAreMachines
<1>4. ~Machine!ProgramError
  <2>1. ~(Len(data) < Machine!Pops(program, Inst))
    BY <1>1, ChecksAreMachines
  <2>2. ~(Inst.opcode \in {"LDL", "STL"} /\ Inst.operand >= LocalSize)
    <3>1. LocalSize \in Nat
      BY RuntimeAssumption
    <3>. QED BY <1>3, <3>1
  <2>3. ~(Inst.opcode = "CALL"
            /\ ~(Inst.operand \in Machine!Natives \/ Machine!HasSymbol(program, Inst.operand)))
    BY <1>1, ChecksAreMachines
  <2>4. ~(Inst.opcode \in {"UDIV", "IDIV"}
            /\ Machine!DivideFaults(Inst.opcode, Machine!Tops(2)[1], Machine!Tops(2)[2]))
    BY <1>1, ChecksAreMachines
  <2>. QED BY <1>1, <2>1, <2>2, <2>3, <2>4, ChecksAreMachines DEF Machine!ProgramError
<1>5. Outcome = "run" /\ Outcome' = "run"
  BY <1>1 DEF Outcome, Traps
<1>. QED BY <1>1, <1>4, <1>5 DEF Machine!Step

LEMMA SimpleStep ==
    ASSUME Inv, NEW ops, Step(ops), NEW d, OnData(d),
           d = Machine!Below(Pops(program, Inst))
                 \o Machine!Replaced(Inst, Machine!Tops(Pops(program, Inst))),
           \/ Inst.opcode \notin {"CALL", "RET", "BR", "STL"} /\ UNCHANGED output
           \/ /\ Inst.opcode = "CALL" /\ Inst.operand \in Natives
              /\ output' = Append(output, Printed(Inst.operand, Machine!Tops(1)[1]))
    PROVE  Machine!Simple
<1>1. Machine!Step /\ Machine!Inst = Inst /\ status' = status
  BY MachineStep, ChecksAreMachines DEF Step
<1>2. UNCHANGED <<Activations, CurrentActivation, NestedDeep>>
  BY <1>1 DEF OnData, Activations, CurrentActivation, NestedDeep
<1>3. data' = d /\ ip' = Inst.next
  BY DEF OnData
<1>. QED
  BY <1>1, <1>2, <1>3, SamePops, SameOpcodes, SameOutput DEF Machine!Simple

(* What an instruction leaves in place of the words it popped.             *)
LEMMA ReplacedWords ==
    ASSUME NEW inst, NEW top
    PROVE  LET new == Machine!Replaced(inst, top) IN
           /\ inst.opcode = "LDI" => new = <<inst.operand>>
           /\ inst.opcode = "LDL" => new = <<Machine!Act.locals[inst.operand]>>
           /\ inst.opcode = "DUP" => new = top \o top
           /\ inst.opcode \in UnOps => new = <<CalcUnary(inst.opcode, top[1])>>
           /\ inst.opcode \in BinOps => new = <<Calc(inst.opcode, top[1], top[2])>>
           /\ inst.opcode = "CALL" => new = <<0>>
           /\ inst.opcode \in {"NOP", "POP"} => new = <<>>
<1> DEFINE ops == {"LDI", "LDL", "DUP", "CALL", "NOP", "POP"}
<1>1. BinOps \cap ops = {} /\ UnOps \cap ops = {} /\ BinOps \cap UnOps = {}
  BY DEF BinOps, IntOps, FloatOps, UnOps
<1>. QED BY <1>1, SameOpcodes, SameCalc DEF Machine!Replaced

LEMMA DataActionsAreSimple ==
    ASSUME Inv, Nop \/ Ldi \/ Pop1 \/ Dup
    PROVE  Machine!Simple
<1>1. TypeOK /\ data \in Seq(Word) /\ Len(data) \in Nat
  BY LenProperties DEF Inv, TypeOK
<1>2. CASE Nop
  <2>1. Step({"NOP"}) /\ Inst.opcode = "NOP" /\ Pops(program, Inst) = 0
    BY <1>2 DEF Nop, Step, Pops, BinOps, IntOps, FloatOps, UnOps
  <2>2. Machine!Replaced(Inst, Machine!Tops(0)) = <<>>
    BY <2>1, ReplacedWords
  <2>3. Machine!Below(0) \o <<>> = data
    BY <1>1, StackTop, ConcatEmptySeq
  <2>. QED BY <1>2, <2>1, <2>2, <2>3, SimpleStep DEF Nop
<1>3. CASE Ldi
  <2>1. Step({"LDI"}) /\ Inst.opcode = "LDI" /\ Pops(program, Inst) = 0 /\ Inst.operand \in Word
    BY <1>1, <1>3, InstType DEF Ldi, Step, Pops, BinOps, IntOps, FloatOps, UnOps
  <2>2. Machine!Replaced(Inst, Machine!Tops(0)) = <<Inst.operand>>
    BY <2>1, ReplacedWords
  <2>3. Machine!Below(0) \o <<Inst.operand>> = Append(data, Inst.operand)
    BY <1>1, <2>1, StackTop, AppendIsConcat
  <2>. QED BY <1>3, <2>1, <2>2, <2>3, SimpleStep DEF Ldi
<1>4. CASE Pop1
  <2>1. Step({"POP"}) /\ Inst.opcode = "POP" /\ Pops(program, Inst) = 1
    BY <1>4 DEF Pop1, Step, Pops, BinOps, IntOps, FloatOps, UnOps
  <2>2. 1 <= Len(data)
    BY <1>1, <2>1, EnoughData
  <2>3. Machine!Replaced(Inst, Machine!Tops(1)) = <<>>
    BY <2>1, ReplacedWords
  <2>4. Machine!Below(1) \o <<>> = Drop(1)
    BY <1>1, <2>2, StackTop, DataProperties, ConcatEmptySeq
  <2>. QED BY <1>4, <2>1, <2>3, <2>4, SimpleStep DEF Pop1
<1>5. CASE Dup
  <2>1. Step({"DUP"}) /\ Inst.opcode = "DUP" /\ Pops(program, Inst) = 1
    BY <1>5 DEF Dup, Step, Pops, BinOps, IntOps, FloatOps, UnOps
  <2>2. 1 <= Len(data)
    BY <1>1, <2>1, EnoughData
  <2>3. Machine!Tops(1) = <<Arg(0)>> /\ Machine!Below(1) = Drop(1)
    BY <1>1, <2>2, StackTop
  <2>4. Machine!Replaced(Inst, Machine!Tops(1)) = <<Arg(0)>> \o <<Arg(0)>>
    BY <2>1, <2>3, ReplacedWords
  <2>5. <<Arg(0)>> \o <<Arg(0)>> = <<Arg(0), Arg(0)>>
    <3>1. Arg(0) \in Word
      BY <1>1, <2>2, DataProperties
    <3>. QED BY <3>1, TwoWords
  <2>. QED BY <1>5, <2>1, <2>3, <2>4, <2>5, SimpleStep DEF Dup
<1>. QED BY <1>2, <1>3, <1>4, <1>5

LEMMA ArithmeticIsSimple ==
    ASSUME Inv, BinOp \/ UnOp
    PROVE  Machine!Simple
<1>1. TypeOK /\ data \in Seq(Word) /\ Len(data) \in Nat
  BY LenProperties DEF Inv, TypeOK
<1>2. CASE BinOp
  <2> DEFINE w == Calc(Inst.opcode, Arg(1), Arg(0))
  <2>1. Step(BinOps) /\ Inst.opcode \in BinOps /\ Pops(program, Inst) = 2
    BY <1>2 DEF BinOp, Step, Pops
  <2>2. 2 <= Len(data)
    BY <1>1, <2>1, EnoughData
  <2>3. Machine!Tops(2) = <<Arg(1), Arg(0)>> /\ Machine!Below(2) = Drop(2)
    BY <1>1, <2>2, StackTop
  <2>4. Machine!Replaced(Inst, Machine!Tops(2)) = <<w>>
    BY <2>1, <2>3, ReplacedWords
  <2>5. Drop(2) \in Seq(Word) /\ w \in Word
    <3>1. Drop(2) \in Seq(Word) /\ Arg(0) \in Word /\ Arg(1) \in Word
      BY <1>1, <2>2, DataProperties
    <3>2. ~DivideFaults(Inst.opcode, Arg(1), Arg(0))
      BY <2>1, <2>2 DEF Step, Fails, Traps, DivideFails, DivideFaults
    <3>. QED BY <2>1, <3>1, <3>2, CalcType
  <2>6. Append(Drop(2), w) = Drop(2) \o <<w>>
    BY <2>5, AppendIsConcat
  <2>7. Inst.opcode \notin {"CALL", "RET", "BR", "STL"}
    BY <2>1 DEF BinOps, IntOps, FloatOps
  <2>8. OnData(Append(Drop(2), w)) /\ UNCHANGED output
    BY <1>2 DEF BinOp
  <2> HIDE DEF w
  <2>. QED BY <2>1, <2>3, <2>4, <2>6, <2>7, <2>8, SimpleStep
<1>3. CASE UnOp
  <2> DEFINE w == CalcUnary(Inst.opcode, Arg(0))
  <2>1. Step(UnOps) /\ Inst.opcode \in UnOps /\ Pops(program, Inst) = 1
    BY <1>3 DEF UnOp, Step, Pops, UnOps, BinOps, IntOps, FloatOps
  <2>2. 1 <= Len(data)
    BY <1>1, <2>1, EnoughData
  <2>3. Machine!Tops(1) = <<Arg(0)>> /\ Machine!Below(1) = Drop(1)
    BY <1>1, <2>2, StackTop
  <2>4. Machine!Replaced(Inst, Machine!Tops(1)) = <<w>>
    BY <2>1, <2>3, ReplacedWords
  <2>5. Drop(1) \in Seq(Word) /\ w \in Word
    BY <1>1, <2>1, <2>2, DataProperties, CalcUnaryType
  <2>6. Append(Drop(1), w) = Drop(1) \o <<w>>
    BY <2>5, AppendIsConcat
  <2>7. Inst.opcode \notin {"CALL", "RET", "BR", "STL"}
    BY <2>1 DEF UnOps
  <2>8. OnData(Append(Drop(1), w)) /\ UNCHANGED output
    BY <1>3 DEF UnOp
  <2> HIDE DEF w
  <2>. QED BY <2>1, <2>3, <2>4, <2>6, <2>7, <2>8, SimpleStep
<1>. QED BY <1>2, <1>3

LEMMA LoadIsSimple ==
    ASSUME Inv, Ldl
    PROVE  Machine!Simple
<1> DEFINE w == words[Cur.loc_base + Inst.operand]
<1>1. TypeOK /\ data \in Seq(Word) /\ Len(data) \in Nat /\ words \in [0..calls.capacity-1 -> Word]
  BY LenProperties DEF Inv, TypeOK
<1>2. /\ Step({"LDL"}) /\ Step({"LDL", "STL"}) /\ Inst.opcode = "LDL" /\ Pops(program, Inst) = 0
      /\ status = "run" /\ ip \in DOMAIN program.code /\ ~DataFails /\ ~LocalFails
  BY DEF Ldl, Step, Fails, Traps, Pops, BinOps, IntOps, FloatOps, UnOps
<1>3. Machine!Act.locals[Inst.operand] = w
  BY <1>2, ChecksAreMachines, CurrentLocals
<1>4. w \in Word
  BY <1>1, <1>2, LocalInBlock
<1> HIDE DEF w
<1>5. Machine!Replaced(Inst, Machine!Tops(0)) = <<w>>
  BY <1>2, <1>3, ReplacedWords
<1>6. Machine!Below(0) \o <<w>> = Append(data, w)
  BY <1>1, <1>4, StackTop, AppendIsConcat
<1>7. OnData(Append(data, w)) /\ UNCHANGED output
  BY DEF Ldl, w
<1>. QED BY <1>2, <1>5, <1>6, <1>7, SimpleStep

LEMMA NativeIsSimple ==
    ASSUME Inv, CallNative
    PROVE  Machine!Simple
<1>1. TypeOK /\ data \in Seq(Word) /\ Len(data) \in Nat
  BY LenProperties DEF Inv, TypeOK
<1>2. /\ Step({"CALL"}) /\ Inst.opcode = "CALL" /\ Inst.operand \in Natives
      /\ Pops(program, Inst) = 1
  BY DEF CallNative, Step, Pops, BinOps, IntOps, FloatOps, UnOps
<1>3. 1 <= Len(data)
  BY <1>1, <1>2, EnoughData
<1>4. Machine!Tops(1) = <<Arg(0)>> /\ Machine!Below(1) = Drop(1) /\ Drop(1) \in Seq(Word)
  BY <1>1, <1>3, StackTop, DataProperties
<1>5. Append(Drop(1), 0) = Drop(1) \o <<0>>
  BY <1>4, TruthWords, AppendIsConcat
<1>6. Machine!Replaced(Inst, Machine!Tops(1)) = <<0>>
  BY <1>2, ReplacedWords
<1>7. OnData(Append(Drop(1), 0)) /\ output' = Append(output, Printed(Inst.operand, Machine!Tops(1)[1]))
  BY <1>4 DEF CallNative
<1>. QED BY <1>2, <1>4, <1>5, <1>6, <1>7, SimpleStep

LEMMA BrIsBranch ==
    ASSUME Inv, Br
    PROVE  Machine!Branch
<1>1. TypeOK /\ data \in Seq(Word) /\ Len(data) \in Nat
  BY LenProperties DEF Inv, TypeOK
<1>2. /\ Step({"BR"}) /\ Inst.opcode = "BR" /\ Pops(program, Inst) = 1 /\ UNCHANGED status
  BY DEF Br, Step, Pops, BinOps, IntOps, FloatOps, UnOps
<1>3. 1 <= Len(data)
  BY <1>1, <1>2, EnoughData
<1>4. Machine!Tops(1) = <<Arg(0)>> /\ Machine!Below(1) = Drop(1)
  BY <1>1, <1>3, StackTop
<1>5. UNCHANGED <<Activations, CurrentActivation, NestedDeep>>
  BY <1>2 DEF Br, Activations, CurrentActivation, NestedDeep
<1>6. Machine!Step /\ Machine!Inst = Inst
  BY <1>2, MachineStep, ChecksAreMachines DEF Step
<1>. QED BY <1>2, <1>4, <1>5, <1>6 DEF Br, Machine!Branch

LEMMA ReadBeforeIsRestart ==
    ASSUME ReadBefore
    PROVE  Machine!Restart
BY DEF ReadBefore, Machine!Restart, Activations, CurrentActivation, NestedDeep, Outcome, Traps

LEMMA ExitIsExit ==
    ASSUME Inv, Exit
    PROVE  Machine!Exit
<1>1. /\ status = "run" /\ ip \in DOMAIN program.code /\ Inst.opcode = "RET"
      /\ Cur.return_pos = -1 /\ status' = "exit"
  BY DEF Exit
<1>2. Machine!Inst = Inst /\ Machine!Act.ret = -1
  BY <1>1, ChecksAreMachines, CurrentLocals
<1>3. ~Machine!ProgramError
  <2>1. Machine!Pops(program, Inst) = 0
    BY <1>1, SamePops DEF Pops, BinOps, IntOps, FloatOps, UnOps
  <2>2. Len(data) \in Nat
    BY LenProperties DEF Inv, TypeOK
  <2>. QED BY <1>1, <1>2, <2>1, <2>2 DEF Machine!ProgramError
<1>4. Outcome = "run" /\ Outcome' = "exit"
  BY <1>1 DEF Outcome, Traps
<1>5. UNCHANGED <<Activations, CurrentActivation, NestedDeep>>
  BY <1>1 DEF Exit, Activations, CurrentActivation, NestedDeep
<1>. QED BY <1>1, <1>2, <1>3, <1>4, <1>5, SameOutput DEF Exit, Machine!Exit

LEMMA SameFunction ==
    ASSUME NEW S, NEW f, NEW g, f = [x \in S |-> f[x]], g = [x \in S |-> g[x]],
           \A x \in S : f[x] = g[x]
    PROVE  f = g
OBVIOUS

(* The words of two activations lie apart, and those of the current one    *)
(* end where the buffer ends.                                              *)
LEMMA LocalsApart ==
    ASSUME Inv, status = "run", NEW o \in DOMAIN frames, NEW i \in 0..LocalSize-1
    PROVE  /\ frames[o].loc_base = o + FrameSize /\ o \in Nat
           /\ frames[o].loc_base + i \in DOMAIN words
           /\ frames[o].loc_base + i < calls.size
           /\ \A j \in 0..LocalSize-1 :
                 o # frame.off => frames[o].loc_base + i # frame.off + FrameSize + j
<1>1. /\ frame.off \in DOMAIN frames /\ frame.off + Stride = calls.size
      /\ HeaderOK(o)
      /\ o # frame.off => (o + Stride <= frame.off \/ frame.off + Stride <= o)
      /\ DOMAIN frames \subseteq Nat /\ words \in [0..calls.capacity-1 -> Word]
      /\ calls.size \in Nat /\ calls.capacity \in Nat /\ calls.size <= calls.capacity
  BY DEF Inv, TypeOK, FrameChain, Live, Buffer
<1>2. FrameSize \in Nat /\ LocalSize \in Nat /\ Stride = FrameSize + LocalSize
  BY RuntimeAssumption DEF Stride
<1>3. frames[o].loc_base = o + FrameSize /\ o + Stride <= calls.size
  BY <1>1 DEF HeaderOK
<1>4. /\ frames[o].loc_base + i \in 0..calls.capacity-1
      /\ frames[o].loc_base + i < calls.size
  <2>1. i \in Int /\ 0 <= i /\ i < LocalSize /\ o \in Nat
    BY <1>1, <1>2
  <2>2. 0 <= o + FrameSize + i /\ o + FrameSize + i < o + Stride
    BY <1>2, <2>1
  <2>3. /\ o + Stride <= calls.size /\ calls.size <= calls.capacity
        /\ o + Stride \in Int /\ calls.size \in Int /\ calls.capacity \in Int
    BY <1>1, <1>2, <1>3, <2>1, SMTT(30)
  <2>. DEFINE at == o + FrameSize + i
  <2>4. at \in Int /\ 0 <= at /\ at < o + Stride /\ frames[o].loc_base + i = at
    BY <1>2, <1>3, <2>1, <2>2
  <2>. QED
    <3>1. at < calls.size /\ at <= calls.capacity - 1
      <4>. HIDE DEF at
      <4>. QED BY <2>3, <2>4
    <3>. HIDE DEF at
    <3>. QED BY <2>3, <2>4, <3>1
<1>5. ASSUME NEW j \in 0..LocalSize-1, o # frame.off
      PROVE  frames[o].loc_base + i # frame.off + FrameSize + j
  <2>1. /\ frame.off \in Nat /\ i \in Int /\ j \in Int /\ i < LocalSize /\ j < LocalSize
        /\ i >= 0 /\ j >= 0 /\ o \in Nat
    BY <1>1, <1>2
  <2>2. CASE o + Stride <= frame.off
    BY <1>2, <1>3, <2>1, <2>2
  <2>3. CASE frame.off + Stride <= o
    BY <1>2, <1>3, <2>1, <2>3
  <2>. QED BY <1>1, <1>5, <2>2, <2>3
<1>6. o \in Nat /\ DOMAIN words = 0..calls.capacity-1
  BY <1>1
<1>. QED BY <1>3, <1>4, <1>5, <1>6

LEMMA StlIsStore ==
    ASSUME Inv, Stl
    PROVE  Machine!Store
<1> DEFINE k == Inst.operand
           w == Arg(0)
<1>1. /\ TypeOK /\ data \in Seq(Word) /\ Len(data) \in Nat
      /\ words \in [0..calls.capacity-1 -> Word]
  BY LenProperties DEF Inv, TypeOK
<1>2. /\ Step({"STL"}) /\ Inst.opcode = "STL" /\ Pops(program, Inst) = 1
      /\ status = "run" /\ status' = "run" /\ ip \in DOMAIN program.code /\ ~DataFails /\ ~LocalFails
  BY DEF Stl, Step, Fails, Traps, Pops, BinOps, IntOps, FloatOps, UnOps
<1>3. 1 <= Len(data)
  BY <1>1, <1>2, EnoughData
<1>4. Machine!Tops(1) = <<w>> /\ Machine!Below(1) = Drop(1)
  BY <1>1, <1>3, StackTop
<1>5. Machine!Step /\ Machine!Inst = Inst /\ k \in 0..LocalSize-1
  BY <1>2, MachineStep, ChecksAreMachines
<1>6. /\ frame.off \in DOMAIN frames /\ CurrentActivation = frame.off
      /\ Cur.loc_base = frame.off + FrameSize
  BY <1>2, CurrentLocals DEF Inv, FrameChain, Live, CurrentActivation
<1>7. words' = [words EXCEPT ![frame.off + FrameSize + k] = w] /\ frames' = frames
  BY <1>6 DEF Stl
<1> HIDE DEF w, k
<1> DEFINE stored == [Activations EXCEPT ![frame.off].locals[k] = w]
<1>8. Activations' = stored
  <2>1. DOMAIN Activations' = DOMAIN frames /\ DOMAIN stored = DOMAIN frames
    BY <1>7 DEF Activations
  <2>2. \A o \in DOMAIN frames : \A i \in 0..LocalSize-1 :
           words'[frames[o].loc_base + i] =
             IF o = frame.off /\ i = k THEN w ELSE words[frames[o].loc_base + i]
    <3> SUFFICES ASSUME NEW o \in DOMAIN frames, NEW i \in 0..LocalSize-1
                 PROVE  words'[frames[o].loc_base + i] =
                          IF o = frame.off /\ i = k THEN w ELSE words[frames[o].loc_base + i]
      OBVIOUS
    <3>1. /\ frames[o].loc_base = o + FrameSize /\ frames[o].loc_base + i \in DOMAIN words
          /\ o # frame.off => frames[o].loc_base + i # frame.off + FrameSize + k
          /\ o \in Nat
      BY <1>2, <1>5, LocalsApart
    <3>2. o = frame.off /\ i # k => frames[o].loc_base + i # frame.off + FrameSize + k
      BY <1>5, <3>1, RuntimeAssumption
    <3>. QED BY <1>7, <3>1, <3>2
  <2>3. \A o \in DOMAIN frames : Activations'[o] = stored[o]
    <3> SUFFICES ASSUME NEW o \in DOMAIN frames PROVE Activations'[o] = stored[o]
      OBVIOUS
    <3> DEFINE loc == [i \in 0..LocalSize-1 |-> words[frames[o].loc_base + i]]
               new == [i \in 0..LocalSize-1 |-> words'[frames[o].loc_base + i]]
               ret == frames[o].return_pos
               caller == IF frames[o].prev = Null THEN -1 ELSE frames[o].prev.off
    <3>1. /\ Activations[o] = [locals |-> loc, ret |-> ret, caller |-> caller]
          /\ Activations'[o] = [locals |-> new, ret |-> ret, caller |-> caller]
      BY <1>7 DEF Activations
    <3>2. new = IF o = frame.off THEN [loc EXCEPT ![k] = w] ELSE loc
      BY <2>2
    <3> HIDE DEF loc, new, ret, caller
    <3>3. CASE o = frame.off
      <4>1. stored[o] = [Activations[o] EXCEPT !.locals = [Activations[o].locals EXCEPT ![k] = w]]
        BY <2>1, <3>3 DEF Activations
      <4>. QED BY <3>1, <3>2, <3>3, <4>1
    <3>4. CASE o # frame.off
      <4>1. stored[o] = Activations[o]
        BY <2>1, <3>4 DEF Activations
      <4>. QED BY <3>1, <3>2, <3>4, <4>1
    <3>. QED BY <3>3, <3>4
  <2> HIDE DEF stored
  <2>4. /\ Activations' = [o \in DOMAIN frames |-> Activations'[o]]
        /\ stored = [o \in DOMAIN frames |-> stored[o]]
    BY <1>7 DEF Activations, stored
  <2>. QED BY <2>3, <2>4, SameFunction
<1>9. UNCHANGED <<CurrentActivation, NestedDeep, output>> /\ data' = Drop(1) /\ ip' = Inst.next
  BY <1>2 DEF Stl, CurrentActivation, NestedDeep
<1>10. Machine!Inst.operand = k /\ Machine!Tops(1)[1] = w /\ Machine!Inst.opcode = "STL"
  BY <1>2, <1>4, <1>5 DEF k
<1>11. Activations' = [Activations EXCEPT
                         ![CurrentActivation].locals[Machine!Inst.operand] = Machine!Tops(1)[1]]
  BY <1>6, <1>8, <1>10
<1>. QED BY <1>4, <1>5, <1>9, <1>10, <1>11 DEF Machine!Store

(* Pushing a header and its locals makes a fresh activation.               *)
LEMMA PushIsFresh ==
    ASSUME MachineInv, status \in {"idle", "run"}, status' = "run",
           NEW ret, NEW prev, PushFrame(ret, prev)
    PROVE  Machine!Fresh(ret, IF prev = Null THEN -1 ELSE prev.off)
<1> DEFINE new == calls.size
           caller == IF prev = Null THEN -1 ELSE prev.off
           fresh == [i \in 0..LocalSize-1 |-> words'[new + FrameSize + i]]
<1>1. Inv /\ TypeOK /\ CapacityOK /\ new \in Nat
  BY DEF MachineInv, Inv, TypeOK, Buffer
<1>2. /\ calls'.size = new + Stride /\ calls'.capacity \in Nat /\ calls'.size <= calls'.capacity
      /\ frame'.off = new
      /\ DOMAIN frames' = DOMAIN frames \cup {new}
      /\ frames'[new] = [loc_base   |-> new + FrameSize, loc_size   |-> LocalSize,
                         return_pos |-> ret, prev |-> prev]
      /\ \A o \in DOMAIN frames : o # new => frames'[o] = frames[o]
      /\ words' \in [0..calls'.capacity-1 -> Word]
      /\ \A i \in DOMAIN words : words'[i] = words[i]
  BY <1>1, PushFrameStep DEF Buffer
<1>3. /\ new \notin DOMAIN frames
      /\ NestedDeep' <=> (NestedDeep \/ Cardinality(DOMAIN frames') > InitialCapacity \div Stride)
  BY PushDeepens
<1>4. fresh \in Machine!Locals
  <2>1. \A i \in 0..LocalSize-1 : new + FrameSize + i \in 0..calls'.capacity-1
    <3> SUFFICES ASSUME NEW i \in 0..LocalSize-1
                 PROVE  new + FrameSize + i \in 0..calls'.capacity-1
      OBVIOUS
    <3>1. FrameSize \in Nat /\ LocalSize \in Nat /\ Stride = FrameSize + LocalSize
      BY RuntimeAssumption DEF Stride
    <3>2. i \in Int /\ 0 <= i /\ i < LocalSize
      BY <3>1
    <3>. QED BY <1>1, <1>2, <3>1, <3>2
  <2>2. \A i \in 0..LocalSize-1 : words'[new + FrameSize + i] \in Word
    BY <1>2, <2>1
  <2>. QED BY <2>2, SameOpcodes DEF Machine!Locals
<1>5. /\ DOMAIN Activations = DOMAIN frames /\ DOMAIN Activations' = DOMAIN frames \cup {new}
      /\ Activations' = [o \in DOMAIN frames \cup {new} |-> Activations'[o]]
  BY <1>2 DEF Activations
<1>6. Activations'[new] = [locals |-> fresh, ret |-> ret, caller |-> caller]
  <2>1. Activations'[new] =
          [locals |-> [i \in 0..LocalSize-1 |-> words'[frames'[new].loc_base + i]],
           ret    |-> frames'[new].return_pos,
           caller |-> IF frames'[new].prev = Null THEN -1 ELSE frames'[new].prev.off]
    BY <1>5 DEF Activations
  <2>2. /\ frames'[new].loc_base = new + FrameSize /\ frames'[new].return_pos = ret
        /\ frames'[new].prev = prev
    BY <1>2
  <2>. QED BY <2>1, <2>2
<1>7. ASSUME NEW o \in DOMAIN frames
      PROVE  Activations'[o] = Activations[o]
  <2>1. frames'[o] = frames[o]
    BY <1>2, <1>3
  <2>2. \A i \in 0..LocalSize-1 :
           words'[frames[o].loc_base + i] = words[frames[o].loc_base + i]
    <3>1. CASE status = "idle"
      BY <1>1, <3>1 DEF Inv, Untouched
    <3>2. CASE status = "run"
      BY <1>1, <1>2, <3>2, LocalsApart
    <3>. QED BY <3>1, <3>2
  <2> DEFINE before == [i \in 0..LocalSize-1 |-> words[frames[o].loc_base + i]]
             after  == [i \in 0..LocalSize-1 |-> words'[frames'[o].loc_base + i]]
  <2>3. before = after
    BY <2>1, <2>2
  <2>4. Activations[o] = [locals |-> before, ret |-> frames[o].return_pos,
                          caller |-> IF frames[o].prev = Null THEN -1 ELSE frames[o].prev.off]
    BY DEF Activations
  <2>5. Activations'[o] = [locals |-> after, ret |-> frames'[o].return_pos,
                           caller |-> IF frames'[o].prev = Null THEN -1 ELSE frames'[o].prev.off]
    BY <1>2 DEF Activations
  <2> HIDE DEF before, after
  <2>. QED BY <2>1, <2>3, <2>4, <2>5
<1> HIDE DEF fresh, caller
<1> DEFINE grown == [a \in DOMAIN Activations \cup {new} |->
                       IF a = new
                       THEN [locals |-> Activations'[new].locals, ret |-> ret, caller |-> caller]
                       ELSE Activations[a]]
<1>8. Activations' = grown
  <2>1. \A a \in DOMAIN frames \cup {new} : Activations'[a] = grown[a]
    BY <1>3, <1>5, <1>6, <1>7
  <2>2. grown = [a \in DOMAIN frames \cup {new} |-> grown[a]]
    BY <1>5
  <2> HIDE DEF grown
  <2>. QED BY <1>5, <2>1, <2>2, SameFunction
<1>9. CurrentActivation' = new
  BY <1>2 DEF CurrentActivation
<1>10. NestedDeep' = (NestedDeep \/ Machine!Cardinality(DOMAIN Activations') > InitialCapacity \div Stride)
  <2>1. Machine!Cardinality(DOMAIN Activations') = Cardinality(DOMAIN frames')
    BY <1>2, <1>5, SameCardinality
  <2>2. NestedDeep \in BOOLEAN /\ NestedDeep' \in BOOLEAN
    BY DEF NestedDeep
  <2>. QED BY <1>3, <2>1, <2>2
<1>11. new \in DOMAIN Activations' \ DOMAIN Activations /\ Activations'[new].locals \in Machine!Locals
  BY <1>3, <1>4, <1>5, <1>6
<1> HIDE DEF new
<1>. QED BY <1>8, <1>9, <1>10, <1>11 DEF Machine!Fresh, caller

LEMMA CallIsCall ==
    ASSUME MachineInv, CallUser
    PROVE  Machine!Call
<1>1. /\ Step({"CALL"}) /\ Inst.opcode = "CALL" /\ Inst.operand \notin Natives
      /\ status = "run" /\ status' = "run" /\ PushFrame(Inst.next, frame)
      /\ ip' = SymbolPos(program, Inst.operand) /\ UNCHANGED <<data, output>>
  BY DEF CallUser, Enter, Step
<1>2. Inv /\ frame # Null
  BY <1>1 DEF MachineInv, Inv, FrameChain, Live
<1>3. Machine!Step /\ Machine!Inst = Inst
  BY <1>1, <1>2, MachineStep, ChecksAreMachines
<1>4. Machine!Fresh(Inst.next, CurrentActivation)
  <2>1. Machine!Fresh(Inst.next, IF frame = Null THEN -1 ELSE frame.off)
    BY <1>1, PushIsFresh
  <2>2. CurrentActivation = IF frame = Null THEN -1 ELSE frame.off
    BY <1>1, <1>2 DEF CurrentActivation
  <2>. QED BY <2>1, <2>2
<1>. QED BY <1>1, <1>3, <1>4, SameOpcodes, SameSymbols DEF Machine!Call

LEMMA StartIsBoot ==
    ASSUME MachineInv, Start
    PROVE  Machine!Boot
<1>1. /\ status = "idle" /\ status' = "run" /\ PushFrame(-1, Null)
      /\ ip' = 0 /\ data' = <<>> /\ output' = <<>> /\ UNCHANGED program
  BY DEF Start
<1>2. Machine!Fresh(-1, -1)
  <2>1. Machine!Fresh(-1, IF Null = Null THEN -1 ELSE Null.off)
    BY <1>1, PushIsFresh
  <2>. QED BY <2>1
<1>3. Outcome = "idle" /\ Outcome' = "run"
  BY <1>1 DEF Outcome, Traps
<1>. QED BY <1>1, <1>2, <1>3 DEF Machine!Boot

(* A return discards the current activation and leaves the others as they  *)
(* were.                                                                   *)
LEMMA RetIsReturn ==
    ASSUME Inv, Ret
    PROVE  Machine!Return
<1>1. /\ Step({"RET"}) /\ Inst.opcode = "RET" /\ status = "run" /\ status' = "run"
      /\ ip \in DOMAIN program.code /\ Cur.return_pos # -1 /\ ip' = Cur.return_pos
      /\ UNCHANGED <<data, words, output>>
  BY DEF Ret, Step, Returning
<1>2. /\ frame.off # 0 /\ frame.off \in DOMAIN frames
      /\ calls' = [calls EXCEPT !.size = frame.off]
      /\ DOMAIN frames' = DOMAIN frames \ {frame.off}
      /\ \A o \in DOMAIN frames' : frames'[o] = frames[o]
      /\ frame' = Cur.prev
  BY RetStep DEF Cur
<1>3. Cur.prev # Null
  BY <1>1, <1>2 DEF Inv, FrameChain, Live, LinkOK, Cur
<1>4. CurrentActivation = frame.off /\ CurrentActivation' = Cur.prev.off
  BY <1>1, <1>2 DEF CurrentActivation
<1>5. Machine!Act.ret = Cur.return_pos /\ Machine!Act.caller = Cur.prev.off
  BY <1>1, <1>3, CurrentLocals
<1>6. Activations' = [a \in DOMAIN Activations \ {CurrentActivation} |-> Activations[a]]
  <2>1. DOMAIN Activations = DOMAIN frames
    BY DEF Activations
  <2>2. \A o \in DOMAIN frames' : Activations'[o] = Activations[o]
    BY <1>1, <1>2 DEF Activations
  <2>3. Activations' = [o \in DOMAIN frames \ {frame.off} |-> Activations'[o]]
    BY <1>2 DEF Activations
  <2>. QED BY <1>2, <1>4, <2>1, <2>2, <2>3
<1>7. NestedDeep' = NestedDeep
  <2>1. calls'.capacity = calls.capacity
    BY <1>2 DEF Inv, TypeOK, Buffer
  <2>. QED BY <2>1 DEF NestedDeep
<1>8. Machine!Step /\ Machine!Inst = Inst
  BY <1>1, MachineStep, ChecksAreMachines
<1>. QED BY <1>1, <1>4, <1>5, <1>6, <1>7, <1>8 DEF Machine!Return

(* The interpreter stops only where the machine fails: a check that fails  *)
(* is an error of the program, and a stale frame needs calls that were     *)
(* nested deeper than the first allocation has room for.                   *)
LEMMA TrapIsFail ==
    ASSUME MachineInv, FrameAssertsHold', Trap
    PROVE  Machine!Fail
<1>1. /\ status = "run" /\ ip # -1
      /\ UNCHANGED <<program, ip, data, calls, frames, words, frame, output>>
  BY DEF Trap
<1>2. PICK t \in Traps : /\ status' = t
                         /\ t = "read" => ReadFails
                         /\ t # "read" => ~ReadFails /\ Fails(t)
  BY DEF Trap, Traps
<1>3. Inv /\ Machine!Inst = Inst
  BY <1>1, ChecksAreMachines DEF MachineInv
<1>4. t # "read" => ip \in DOMAIN program.code
  BY <1>1, <1>2 DEF ReadFails
<1>5. t \notin {"pop", "null"}
  BY <1>2 DEF FrameAssertsHold
<1>6. Machine!ProgramError \/ Machine!Lost
  <2>1. CASE t = "read"
    BY <1>2, <2>1 DEF ReadFails, Machine!ProgramError
  <2>2. CASE t = "data"
    <3>1. DataFails
      BY <1>2, <2>2 DEF Fails
    <3>. QED BY <1>1, <1>3, <3>1, ChecksAreMachines DEF Machine!ProgramError
  <2>3. CASE t = "local"
    <3>1. LocalFails
      BY <1>2, <2>3 DEF Fails
    <3>2. Inst.opcode \in {"LDL", "STL"} /\ Inst.operand >= LocalSize
      BY <1>1, <1>3, <1>4, <2>3, <3>1, ChecksAreMachines
    <3>. QED BY <1>3, <3>2 DEF Machine!ProgramError
  <2>4. CASE t = "symbol"
    <3>1. SymbolFails
      BY <1>2, <2>4 DEF Fails
    <3>. QED BY <1>1, <1>3, <3>1, ChecksAreMachines DEF Machine!ProgramError
  <2>5. CASE t = "divide"
    <3>1. DivideFails /\ ~DataFails
      BY <1>2, <2>5 DEF Fails, DivideFails
    <3>. QED BY <1>1, <1>3, <3>1, ChecksAreMachines DEF Machine!ProgramError
  <2>6. CASE t = "stale"
    <3>1. Inst.opcode \in {"LDL", "STL", "RET"} /\ frame.block # calls.block
      BY <1>2, <2>6 DEF Fails, Stale
    <3>2. frame.block \in 1..calls.block /\ calls.block \in Nat /\ calls.capacity \in Nat
      BY <1>1 DEF MachineInv, Inv, PointersKnown, Live, TypeOK, Buffer
    <3>3. NestedDeep
      BY <3>1, <3>2, CapacityAssumption DEF MachineInv, DepthKnown, NestedDeep
    <3>. QED BY <1>3, <3>1, <3>3 DEF Machine!Lost
  <2>. QED BY <1>5, <2>1, <2>2, <2>3, <2>4, <2>5, <2>6 DEF Traps
<1>7. Outcome = "run" /\ Outcome' = "fault"
  BY <1>1, <1>2 DEF Outcome, Traps
<1>8. UNCHANGED <<Activations, CurrentActivation, NestedDeep>>
  <2>1. status' # "idle"
    BY <1>2 DEF Traps
  <2>. QED BY <1>1, <2>1 DEF Activations, CurrentActivation, NestedDeep
<1>. QED BY <1>1, <1>6, <1>7, <1>8 DEF Machine!Fail

-----------------------------------------------------------------------------
(* The refinement.                                                         *)

LEMMA InitIsMachines == Init => Machine!Init
<1> SUFFICES ASSUME Init PROVE Machine!Init
  OBVIOUS
<1>1. DOMAIN frames = {} /\ calls = EmptyBuffer /\ status = "idle"
  BY DEF Init
<1>2. Activations = <<>>
  BY <1>1 DEF Activations
<1>3. CurrentActivation = -1 /\ Outcome = "idle"
  BY <1>1 DEF CurrentActivation, Outcome, Traps
<1>4. NestedDeep = FALSE
  BY <1>1, CapacityAssumption DEF NestedDeep, EmptyBuffer
<1>. QED BY <1>2, <1>3, <1>4 DEF Init, Machine!Init

LEMMA NextIsMachines ==
    MachineInv /\ FrameAssertsHold /\ [Next]_vars => [Machine!Next]_(Machine!machineVars)
<1> SUFFICES ASSUME MachineInv, FrameAssertsHold, [Next]_vars
             PROVE  Machine!Next \/ UNCHANGED Machine!machineVars
  OBVIOUS
<1>1. Inv /\ FrameAssertsHold'
  BY FrameAssertsStep DEF MachineInv
<1>2. CASE UNCHANGED vars
  BY <1>2 DEF vars, Machine!machineVars, Activations, CurrentActivation, NestedDeep, Outcome
<1>3. CASE Start
  BY <1>3, StartIsBoot DEF Machine!Next
<1>4. CASE Nop \/ Ldi \/ Pop1 \/ Dup
  BY <1>1, <1>4, DataActionsAreSimple DEF Machine!Next
<1>5. CASE BinOp \/ UnOp
  BY <1>1, <1>5, ArithmeticIsSimple DEF Machine!Next
<1>6. CASE Ldl
  BY <1>1, <1>6, LoadIsSimple DEF Machine!Next
<1>7. CASE Stl
  BY <1>1, <1>7, StlIsStore DEF Machine!Next
<1>8. CASE CallNative
  BY <1>1, <1>8, NativeIsSimple DEF Machine!Next
<1>9. CASE CallUser
  BY <1>9, CallIsCall DEF Machine!Next
<1>10. CASE Ret
  BY <1>1, <1>10, RetIsReturn DEF Machine!Next
<1>11. CASE Exit
  BY <1>1, <1>11, ExitIsExit DEF Machine!Next
<1>12. CASE Br
  BY <1>1, <1>12, BrIsBranch DEF Machine!Next
<1>13. CASE ReadBefore
  BY <1>13, ReadBeforeIsRestart DEF Machine!Next
<1>14. CASE Trap
  BY <1>1, <1>14, TrapIsFail DEF Machine!Next
<1>. QED BY <1>2, <1>3, <1>4, <1>5, <1>6, <1>7, <1>8, <1>9, <1>10, <1>11, <1>12, <1>13, <1>14
         DEF Next

(* The interpreter, with its one growing buffer of headers, locals and raw *)
(* pointers, is a machine with private activations: whatever the program,  *)
(* it computes what the machine computes, and it stops early only where    *)
(* the program itself is wrong or where calls were once nested deeper than *)
(* the first allocation of the call stack has room for.                    *)
THEOREM RuntimeImplementsMachine == Spec => ImplementsMachine
<1>1. MachineInv /\ FrameAssertsHold /\ [Next]_vars => [Machine!Next]_(Machine!machineVars)
  BY NextIsMachines
<1>. QED
  BY <1>1, InitIsMachines, MachineInvAlways, FrameAsserts, PTL
  DEF Spec, ImplementsMachine, Machine!Spec
=============================================================================
