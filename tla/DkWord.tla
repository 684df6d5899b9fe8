------------------------------- MODULE DkWord -------------------------------
(***************************************************************************)
(* The machine words of the dansk virtual machine and the arithmetic its   *)
(* opcodes do on them (the DK_BC_BINOP_IMPL table of dk_run_program).      *)
(* A word is a u64; WordMax stands for U64_MAX, so that additions wrap and *)
(* a word read as an i64 has a sign.  A flyder (f64) is abstracted to a    *)
(* fixed-point number stored in a word, One units being 1.0: what is kept  *)
(* of IEEE doubles is that 0.0 has the bits 0, that the bits of 1.0 are    *)
(* not the integer 1, that dividing by 0.0 does not trap, and that a cast  *)
(* to heltal truncates.  NaN, -0.0 and rounding are not modelled.          *)
(***************************************************************************)
EXTENDS Integers

CONSTANTS WordMax,  \* U64_MAX
          One       \* the bits of 1.0

(* Words have a sign bit, and 1.0 is a positive f64 other than the bits 1. *)
ASSUME WordAssumption == /\ WordMax \in Nat \ {0} /\ WordMax % 2 = 1
                         /\ One \in 2..(WordMax \div 2)

Word == 0..WordMax

(* base_core.h: u64(i) and i64(w) reinterpret a word.                      *)
u64(i) == i % (WordMax + 1)
i64(w) == IF w <= WordMax \div 2 THEN w ELSE w - (WordMax + 1)
MinInt == -(WordMax \div 2) - 1

(* C integer division truncates towards zero.                              *)
Trunc(a, b) == LET abs(n) == IF n < 0 THEN -n ELSE n
                   q      == abs(a) \div abs(b)
               IN  IF (a < 0) # (b < 0) THEN -q ELSE q

f64_from_u64(w) == i64(w)
u64_from_f64(f) == u64(f)
Infinity        == WordMax \div 2

FloatQuotient(f, g) ==
    IF g = 0 THEN (IF f < 0 THEN -Infinity ELSE Infinity) ELSE Trunc(f * One, g)

(* A C truth value pushed as a word, and one that first becomes an f64     *)
(* (DK_BC_OPCODE_FEQ and its siblings push the bits of 1.0 for "true").    *)
BoolWord(p)  == IF p THEN 1 ELSE 0
FloatBool(p) == IF p THEN u64_from_f64(One) ELSE 0

IntOps   == {"ADD", "SUB", "UMUL", "UDIV", "IMUL", "IDIV", "AND", "OR", "EQ", "LT", "GT"}
FloatOps == {"FADD", "FSUB", "FMUL", "FDIV", "FEQ", "FLT", "FGT"}
BinOps   == IntOps \cup FloatOps

CalcInt(op, a, b) ==
    CASE op = "ADD"  -> u64(a + b)
      [] op = "SUB"  -> u64(a - b)
      [] op = "UMUL" -> u64(a * b)
      [] op = "UDIV" -> u64(a \div b)
      [] op = "IMUL" -> u64(i64(a) * i64(b))
      [] op = "IDIV" -> u64(Trunc(i64(a), i64(b)))
      [] op = "AND"  -> BoolWord(a # 0 /\ b # 0)
      [] op = "OR"   -> BoolWord(a # 0 \/ b # 0)
      [] op = "EQ"   -> BoolWord(i64(a) = i64(b))
      [] op = "LT"   -> BoolWord(i64(a) < i64(b))
      [] op = "GT"   -> BoolWord(i64(a) > i64(b))

CalcFloat(op, f, g) ==
    CASE op = "FADD" -> u64_from_f64(f + g)
      [] op = "FSUB" -> u64_from_f64(f - g)
      [] op = "FMUL" -> u64_from_f64(Trunc(f * g, One))
      [] op = "FDIV" -> u64_from_f64(FloatQuotient(f, g))
      [] op = "FEQ"  -> FloatBool(f = g)
      [] op = "FLT"  -> FloatBool(f < g)
      [] op = "FGT"  -> FloatBool(f > g)

(* c = calc in DK_BC_BINOP_IMPL: a was pushed before b.                    *)
Calc(op, a, b) == IF op \in IntOps THEN CalcInt(op, a, b)
                  ELSE CalcFloat(op, f64_from_u64(a), f64_from_u64(b))

(* The divisions the processor refuses (SIGFPE): by zero, and INT_MIN / -1. *)
DivideFaults(op, a, b) ==
    \/ op \in {"UDIV", "IDIV"} /\ b = 0
    \/ op = "IDIV" /\ i64(a) = MinInt /\ i64(b) = -1

(* DK_BC_OPCODE_NOT, I2F and F2I.                                          *)
UnOps == {"NOT", "I2F", "F2I"}
CalcUnary(op, a) ==
    CASE op = "NOT" -> BoolWord(a = 0)
      [] op = "I2F" -> u64_from_f64(i64(a) * One)
      [] op = "F2I" -> u64(Trunc(f64_from_u64(a), One))
=============================================================================
