--------------------------- MODULE DkSystemProps ----------------------------
(***************************************************************************)
(* What must hold of compiling and running a checked tree.                 *)
(***************************************************************************)
EXTENDS DkSystem, DkEmitProps

(* Nothing the interpreter asserts fails on a compiled program.            *)
NoTrap == status \notin Runtime!Traps

(* The assertion of dk_buffer_get holds for the local of every LDL and STL *)
(* of a compiled program, however many locals its functions declare.       *)
LocalAssertHolds == status # "local"

(* While a function runs, the operands its callers left on the shared data *)
(* stack stay below it: a callee pops its arguments and nothing else.      *)
OperandsKept == status = "run" => Len(data) >= heights[frame.off]

(* A return leaves the caller's operands and one word more.                *)
ReturnsOneWord ==
    [][DOMAIN frames' # DOMAIN frames /\ frame.off \notin DOMAIN frames'
        => Len(data) = heights[frame.off] + 1]_systemVars

(* The emitter finishes, and then the interpreter does, unless an error    *)
(* was reported: then there is no program to run.                          *)
Completes == <>(error # "none" \/ (linked /\ reported) \/ status \notin {"idle", "run"})
=============================================================================
