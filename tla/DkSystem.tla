------------------------------ MODULE DkSystem ------------------------------
(***************************************************************************)
(* dk_program_from_str from the checked tree on, and dk_run_program, as    *)
(* the `run' command and the tests call them: the emitter works until      *)
(* nothing is left, its two buffers become the program, and the            *)
(* interpreter runs it.  With an error in the sink of the phases before,   *)
(* the emitter stops at once, and the empty program is not run.  (The      *)
(* interpreter is instantiated with its own unit for InitialCapacity: the  *)
(* body of the program is counted in bytes, the call stack in words.)      *)
(***************************************************************************)
EXTENDS DkEmit

CONSTANTS StackCapacity, FrameSize, LocalSize, Moves, Fills

ASSUME SystemAssumption ==
    /\ FrameSize \in Nat \ {0} /\ LocalSize \in Nat \ {0} /\ StackCapacity \in Nat
    /\ FrameSize + LocalSize <= StackCapacity
    /\ Moves \subseteq BOOLEAN
    /\ Fills \subseteq Word

VARIABLES tree,     \* the tree the program was compiled from
          program, ip, data, calls, frames, words, frame, output, status,
          reported, \* the error sink is not empty: one of the phases before complained
          linked,   \* dk_program_from_tree has returned
          heights   \* history: words below the callee's own at each call

Runtime == INSTANCE DkRuntimeProps
               WITH InitialCapacity <- StackCapacity, Programs <- {}

runtimeVars == <<program, ip, data, calls, frames, words, frame, output, status>>
systemVars  == <<funcs, work, symbols, body, code, error, tree, runtimeVars, reported, linked, heights>>

NoProgram == [symbols |-> <<>>, code |-> <<>>]

Emitting ==
    /\ ~reported
    /\ EmitNext
    /\ UNCHANGED <<tree, runtimeVars, reported, linked, heights>>

(* dk_program_from_tree returns the head and the body of the emitter.      *)
Link ==
    /\ (Emitted \/ reported) /\ ~linked
    /\ linked' = TRUE /\ program' = Program
    /\ UNCHANGED <<emitVars, tree, reported, ip, data, calls, frames, words, frame, output, status, heights>>

Arity(id) == LET func == CHOOSE i \in DOMAIN tree : tree[i].symbol_id = id
             IN  Len(tree[func].args)

(* A new activation owns its arguments; what lies below belongs to callers. *)
NewHeight == IF status = "idle" THEN 0 ELSE Len(data) - Arity(Runtime!Inst.operand)

Running ==
    /\ linked /\ ~reported
    /\ Runtime!Next
    /\ heights' = [o \in DOMAIN frames' |->
                     IF o \in DOMAIN heights THEN heights[o] ELSE NewHeight]
    /\ UNCHANGED <<emitVars, tree, reported, linked>>

SystemNext == Emitting \/ Link \/ Running

SystemInit ==
    /\ EmitInit /\ tree = funcs
    /\ program = NoProgram /\ reported \in BOOLEAN /\ linked = FALSE
    /\ ip = 0 /\ data = <<>> /\ output = <<>> /\ status = "idle"
    /\ calls = EmptyBuffer /\ frames = <<>> /\ words = [i \in 0..-1 |-> 0]
    /\ frame = Runtime!Null /\ heights = <<>>

SystemSpec == SystemInit /\ [][SystemNext]_systemVars
(* Compiler and interpreter are one sequential C program that keeps going. *)
FairSystemSpec == SystemSpec /\ WF_systemVars(SystemNext)
=============================================================================
