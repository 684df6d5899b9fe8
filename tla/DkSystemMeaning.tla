-------------------------- MODULE DkSystemMeaning ---------------------------
(***************************************************************************)
(* What a compiled program must print.  (The meaning of a tree is defined  *)
(* by recursion over it.)                                                  *)
(***************************************************************************)
EXTENDS DkSystemProps

CONSTANT MaxLocals
Reference == INSTANCE DkReference

(* The program prints what the tree means, and it leaves exactly one word  *)
(* on the data stack (no "Invalid stack size on exit" line is printed).    *)
OutputIsMeaning == status = "exit" => output = Reference!Meaning(tree)
=============================================================================
