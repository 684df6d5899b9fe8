---------------------------- MODULE DkCheckProps -----------------------------
(***************************************************************************)
(* What must hold of a checked tree, so that it can be emitted and run.    *)
(***************************************************************************)
EXTENDS DkCheck

IsCall(e) == e.kind \in {"func", "assign"} /\ e.callee # 0

(* A word of the clause stands where the pattern has a parameter of that   *)
(* name, and there is no argument for it ("laeg a sammen med b", with no   *)
(* local a or b): dk_resolve_func compares the names of both.              *)
WordForParam(e) == \E i \in DOMAIN e.want : ~e.want[i].typed /\ funcs[e.callee].pattern[i].type # ""

(* The locals the prelude of the function stores its arguments in (dk.c    *)
(* 1483) are as many as the call hands over, and of their types.           *)
Accepts(f, args) ==
    /\ {i \in DOMAIN slots[f] : slots[f][i].arg} = DOMAIN args
    /\ \A i \in DOMAIN args : slots[f][i].type \in {nodes[args[i]].type, "$any"}

(* In a tree without errors every call hands over one argument for each    *)
(* parameter of its function, of the parameter's type, and an assignment   *)
(* has a source and a target of one type.  The emitted call pops as many   *)
(* words as there are parameters, whatever was pushed.  Calls with a word  *)
(* for a parameter are the exception: the checker lets them pass.          *)
CallsAreSaturated ==
    errs = <<>> =>
        \A n \in DOMAIN nodes : LET e == nodes[n] IN
            IsCall(e) /\ ~WordForParam(e) /\ e.callee \in DOMAIN slots =>
                /\ Accepts(e.callee, e.kids)
                /\ e.kind = "assign" => \A i, j \in DOMAIN e.kids : nodes[e.kids[i]].type = nodes[e.kids[j]].type

(* A local is known by its offset only once the tree is checked.  In every *)
(* body the offsets are the places in the function's own list, parameters  *)
(* first, and a word means the first local of its name, of its type.       *)
(* Bodies are checked one after the other with one list and one count.     *)
RefersToOwnSlots ==
    /\ \A f \in DOMAIN slots : \A i \in DOMAIN slots[f] :
          /\ slots[f][i].off = i - 1
          /\ slots[f][i].arg => \A j \in 1..i : slots[f][j].arg
    /\ \A n \in DOMAIN nodes : LET e == nodes[n] IN
          e.kind = "local" /\ e.in \in DOMAIN slots =>
              /\ e.local.off + 1 \in DOMAIN slots[e.in] /\ slots[e.in][e.local.off + 1] = e.local
              /\ e.type = e.local.type
              /\ \A i \in 1..e.local.off : slots[e.in][i].name # e.local.name

(* Every expression has a type when it is asked for one (dk.c 911, 968,    *)
(* 988, 1043), also that of a function declared further down, or of one    *)
(* that calls itself; and the symbols of user functions are told apart.    *)
ExpressionsTyped ==
    /\ trap # "untyped"
    /\ \A f, g \in DOMAIN symbols : symbols[f] = symbols[g] /\ f # g => symbols[f] = 0

(* The errors are those of one function: the first body with errors is     *)
(* checked to its end, and none after it, so that the tree of a text with  *)
(* errors holds half a checked program, which is not to be run.            *)
ErrorsOfOneBody ==
    /\ \A i, j \in DOMAIN errs : errs[i] = errs[j]
    /\ errs # <<>> => bodies <= errs[1]
=============================================================================
