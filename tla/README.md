# A TLA+ model of the dansk compiler and interpreter

`dansk` (`src/`) compiles programs written in Danish sentences to bytecode and
interprets them. This directory holds TLA+ modules that model it, TLC
configurations that check them on small instances, and proofs, checked by
TLAPS, of what holds for every program and every size.

Everything runs in one thread. What makes the program hard is not concurrency
but memory: the interpreter and the emitter keep raw pointers into buffers that
grow and may move, locals share one untyped byte buffer, caller and callee share
one data stack, branches are emitted with holes that are filled in later,
linked lists are rewritten while they are walked, and parser and checker carry on
after an error.

## The system

| Component | State | Operations | Correct when |
|---|---|---|---|
| Tokenizer (`dk.c` 182-379) | position in the source, two bytes of look-ahead | next token, list of all tokens | every byte belongs to one token, gap or reported error; it ends on every input |
| Number spelling (98-173) | partial sums `a`, `b`, `c` | text to number or -1 | agrees with the Danish spelling of the numbers it can read; which it misreads |
| Parser (410-764) | token cursor, error list | functions, statements, clause lists | it ends; a tree without errors has the shape of the text |
| `den`/`det` rewriting (631-673) | linked lists of clauses and parts | moves the clauses before `det` under it | lists stay acyclic, every clause is kept, in order |
| Checker (783-1222) | types, functions, locals of the current function | resolve types, locals, functions; type every expression | what it accepts can be emitted and run |
| Dynamic buffer (1228-1283) | data pointer, size, capacity | push, pop, get, read | no pointer into it is used after it moved |
| Emitter (1288-1517) | head and body buffer, recursion over the tree | expression, statement list, function | the bytecode means what the tree means |
| Interpreter (1527-1729) | ip, data stack, call stack, frame pointer, output | one action per opcode | behaves like a machine with private activations |
| Errors, debug printing (1-93, 1750-2041) | error list | report, print | - |
| Arena, heap, darray (`base_memory.c`) | chain of blocks, position, marks, scopes | push, mark, reset, scope | live allocations never overlap |
| Map, fixed buffer, strings, unicode, formatting (`base/`) | see the files | pure helpers and containers | agree with a reference definition |
| OS layer (`base_os.c`) | on Windows, objects with generations | threads, mutexes, files | a stale handle is recognised |
| Test harness (`base_test.c`, `dk_tests.c`) | current context and scope | contexts, scopes, assertions | scopes and their arena undo each other |

They are called in a pipeline by `dk_program_from_str` and `main`: text, tokens,
tree, checked tree, program, output. Errors go to a global list. `dk_program_from_str`
does not look at it: every phase is called whatever the one before reported, and looks
at the list at the head of its outermost loop only. Trees and tokens live in one arena and are never
freed; the buffers come from the heap.

## Modules

| Module | Models |
|---|---|
| `DkWord` | 64-bit words as `0..WordMax`, with sign, wrap-around and truncating division; `flyder` as fixed-point numbers |
| `DkBytecode` | opcodes, operands, symbols, what a print puts into the output |
| `DkBuffer` | `dk_buffer`: push with growth in place or by a move, pop, get; stale pointers |
| `DkRuntime` | `dk_run_program`, one action per opcode (arithmetic grouped), one trap per assertion |
| `DkRuntimeProps` | its properties, and the refinement mapping to `DkMachine` |
| `DkMachine` | abstract specification: a stack machine whose calls have private activations |
| `DkEmit` | `dk_emit_tree`: the C recursion as a stack of work items, the body buffer, the holes |
| `DkEmitProps` | its properties |
| `DkReference` | the meaning of a checked tree, by recursion on the tree (a definition to compare with) |
| `DkSystem`, `DkSystemProps` | emitter, linking and interpreter composed; properties of the whole |
| `DkSystemMeaning` | what the output must be, by `DkReference`; apart from the others because its recursion is out of the prover's reach |
| `DkParse`, `DkParseProps` | `dk_parse_tree` and every function below it: the C recursion as a stack, the tree as its traversal; its properties |
| `DkCheck`, `DkCheckProps` | `dk_check_tree`: signatures, bodies, statements, clauses and their parts as actions, the C recursion over lists as a stack; its properties |
| `DkNumber` | `dk_number_from_str`, one action per turn of its loops |
| `BaseArena` | the arena of `base_memory.c`, with marks and scopes, and its properties |
| `BaseMap` | the hash map, and the refinement mapping to `BaseDict` |
| `BaseDict` | abstract specification: a dictionary |
| `DkTokenizer`, `DkTokenizerProps` | `dk_next_token` and the loop around it, one action per iteration of each loop; its properties |
| `DkFixup`, `DkFixupProps` | `dk_fixup_den_det_clause_list` over a heap of clauses; its properties |
| `MCRuntime`, `MCTrees`, `MCSystem`, `MCEmit`, `MCTokenizer`, `MCFixup`, `MCParse`, `MCCheck`, `MCNumber`, `MCArena`, `MCMap` | programs, trees, texts, clause lists, requests and keys for TLC |
| `DkRuntimeProofs`, `DkEmitProofs`, `DkSystemProofs`, `DkTokenizerProofs`, `DkFixupProofs`, `DkCheckProofs`, `DkParseProofs`, `BaseProofs` | theorems and proofs |

### The interpreter

`ip`, `data` (data stack, in words), `calls` (header of `call_stack`), `words` (its
contents), `frame` (the C local) and `output` correspond one to one to the locals
of `dk_run_program`. `frames` holds the `dk_call_frame` headers by their offset;
the real ones are in the same bytes, but no instruction writes over a header, so
keeping them apart loses nothing (that locals and headers do not overlap is
`FrameChain`, and is proved). The body is seen decoded: position, opcode, operand,
position of the next instruction. `ip` is -1 where the code's `i64` is.

`calls.block` counts the heap blocks the buffer has had. A pointer is a block and
an offset, and is stale when its block is not the current one. A stale read
either finds the old bytes, which equal the moved copy, or anything; then an
assertion stops the process (trap `stale`) or, in the real program, an arbitrary
value is used. The model stops there: it does not follow a program that reads
garbage that happens to pass the assertions.

An operation that cannot be carried out leads to a trap, one for each assertion of
`dk_buffer_pop`, `dk_buffer_get`, `dk_buffer_read`, of the symbol lookup and of
`RET`, and one for the processor's refusal to divide. The asserts are active in
the builds the repository makes (`build.sh` defines no `NDEBUG`).

### The emitter

`work` is the C call stack of `dk_emit_stmt_list` and `dk_emit_expr`, read top
first: what remains to be emitted, and for a half-emitted IF or WHILE its C locals
(`start_pos`, `else_pos`, `end_pos`). Pushing an instruction is two pushes, prefix
and operand, of which either may move the body. A patch through a stale pointer
writes to freed memory, so the operand stays `U64_MAX`.

A position is a byte offset, and operands take 1, 2, 4 or 8 bytes by value as in
`dk_emit_inst2`; `Widths` gives the largest value of each size, so that small
programs meet every size. The three literal kinds are words already. Types are
abstracted: every built-in type has a size above 0, so the `size > 0` conditions
are always true. The emitter is entered only without reported errors (as after a
clean check), so the `break` on the error list never happens; the numbering of
symbols and native ids comes from the checker and is an input here.

### The whole

`DkSystem` lets the emitter work until nothing is left, links its two buffers into
a program as `dk_program_from_tree` does, and runs it. `reported` says that the error
sink is not empty after the checker: `dk_emit_tree` then stops before its first
function, the empty program is linked, and `main` and the tests do not run it. `heights` is a history
variable: how many words of the data stack belong to callers at each activation.

### The tokenizer

`loc` is `t->loc`, `begin` is `begin_loc`, `tokens` the list under construction and
`errs` where `dk_report_err` was called. `pc` says which loop `dk_next_token` is in:
`space` at its start, `word`, `comment` or `number`. `peek0` and `peek1` are not
variables: between two calls of `dk_tokenizer_eat` they are functions of the text
and the position (`Peek`). Characters are told apart by the classes of
`char_flags_table`, and one by one where the code compares them. Whether a word is
a literal or the comment word depends on sets of spellings, because it is a
comparison with tables (`dk_number_from_str` is `DkNumber`). Values
of literals are left out. A literal with one decimal separator is a float, as
`strtod` reads it to its end; one with more, or one that does not fit in
`FloatRoom` characters, is reported and ends the list. The position is followed
`EndSlack` characters past the end: nothing differs further out.

### The den/det rewriting

A clause is a number, `next` its pointer, `parts` its parts in order; a list is a
record of its `first` and `last` pointers, in `list` for the statement's and in the
part for one in parentheses. `stack` is the C call stack of the recursive walk,
with the locals `head`, `prev` and `curr` and the current part of each call; `place`
is the argument, the list to be changed. The part that was a `den` or `det` becomes
a list, which this walk does not enter. `text` is a history variable: the lists as
they were parsed, which the properties compare with. Dereferencing null is the
trap `null`. `Heap` puts the three parts of the memory together; what makes lists of it
(`LinkedOnce`, `NoCircle`, `LastsEnd`) is said without recursion, of links and of sets of clauses,
so that it can be assumed of the texts, checked and proved in the same words.

### The parser

`peek` is `p->peek`, an index into the tokens; one past the end is the static
`null_token`, whose kind is that of the end of the file and whose successor is itself.
`work` is the C call stack, read top first: what the active parse functions still have
to do, from "eat a dot" to "the statements of a block"; where a function has a loop, its
entry stays on the stack until the loop is left. `tree` is the tree as it is traversed,
so that making a node is appending it; the lists that a parenthesis drops are cut off
again (`ParenList`). Every `dk_eat_token_kind` and `dk_eat_token_text` reports what is
not wanted, eats it, and goes on. The words are lower case, without Danish letters.
The error list may be non-empty at the start: the tokenizer shares it.

Three things the code does with texts that are not programs: a parenthesis with several
lists keeps the last one only (which takes a missing comma or a stray token, reported
elsewhere or not at all); an empty parenthesis ends its clause; a clause
without parts fails an assertion (trap `assert`).

### The checker

The tree comes as sequences: a clause is a sequence of parts, a list a sequence of
clauses. `funcs` holds the user functions and behind them the built-in ones with
the patterns of `dk_check_tree`. One action resolves one signature, declares one parameter or
local, takes one part of a clause, or ends a clause, a list or a body. `work` is the C call
stack of `dk_check_clause_list` and `dk_check_clause`, innermost first: of each list the clauses that are left
and the expressions of those before, and of the clause at hand its parts that are left, the wanted pattern and the arguments. `nodes`
holds the expressions, each with the function it was made in, and `roots` those of the statements; an expression refers to
another by its place, as the code does by pointer. The blocks of a statement are put in front of the statements
that are left, since the code checks them in the same scope. `locals` and `count` are `c->locals` with its pointers and its count
kept apart, as they are restored apart. Types that do not exist (trap `type`), an assignment without any
argument (`null`) and an expression without a type (`untyped`) stop the program.

What the checker accepts though one might expect otherwise, and which the properties
therefore except or do not mention: a word of a clause with the name of a
parameter matches it, so that a call may be short of an argument (`WordForParam`); the
condition of `hvis` and `imens`, and what `tilbagegiv` returns, may have any type; a local
may be declared twice, and the first one wins; the target of `gem` may be any expression.

### Number spelling

`s`, `a`, `b`, `c`, `last_mult` and `word_count` are the locals of `dk_number_from_str`.
Texts are TLA+ strings, since what matters is which entry of which table is a prefix of what
is left. `milliard` is left out (TLC's integers are 32 bits wide).

The function does not read every number of Danish as what it means. Two kinds of spellings
are known to be misread, and `MCNumber` has them beside the `Numbers` it reads right:

- `FactorLost`: thousands and hundreds both before millions. The hundreds are a smaller multiplier
  and close the group of the thousands (`dk.c` 146), which then miss the factor of a million:
  `ettusindetrehundredemillioner` is read as 300001000. Thousands with less than a hundred
  behind them (`totusindseksogtyve millioner`, as in `dk_tests.c`), or hundreds alone, are read right.
- `CutShort`: a multiplier without its last e right in front of a word that begins with e. The long one
  comes first in the table and takes that e: `tusindelleve` leaves `lleve` and gives -1. With a hyphen or
  `og` in between, or the long multiplier, it is read right.

Nothing in the repository says what these must give, so they are no finding: the properties state what they do give.
Glue at the end of a number is dropped like glue inside one (`toog` is 2, `Trailing`).

### Arena

`blocks` is the chain of blocks from the head on, each with position and capacity;
`curr` the index of `arena->curr`; `marks` the marks and scopes that are open, newest last,
with what was live when they were taken (a history variable, like `live`). A push takes
the current block, else the first later one with room (blocks passed over lose their position),
else a new one. A scope's own record is pushed to the arena after its mark was taken.
Setting a mark gives its position to the *first* block, whatever block it was taken in
(`Rewound`): later blocks keep their position until the search passes them again, so
that memory is left unused, but none is used twice. Positions are in words of 8 bytes,
as the header has 8 and a scope 3. Marks are closed in the order of a stack, which is how
the scopes of the tests and `os_read_entire_file` use them, and `arena_reset` is called with none
open.

### Map

A table is a record of two arrays, count and capacity; `Hash` is any function into the words, and
`Word` is where `hash + probe` wraps around. `map_put` grows a table that is three quarters full: it
makes one twice as large (`PutGrows`) and puts every slot of the old one into it (`MoveSlot`), the
empty ones too, whose key 0 fails the assertion (`MoveFails`); with a capacity below 4 the table is
full when it grows and there is no such slot. The run's tables grow to at most 4 slots,
from full ones, so that `MoveFails` is not taken there (tables of 8 have too many states for it). `grow` is the local `expanded` with the loop index and
the arguments; when every slot has been moved the table is exchanged and the key put (`PutGrown`).
`Caps` bounds the capacities: a larger table than those is refused, as one that does not fit the heap.
`cut` is a history variable: a remove emptied a slot in front of a taken one. From then on keys that
were probed past that slot are not found, and the dictionary promises nothing.

## Runs

| Run | Checks | Shows |
|---|---|---|
| `Runtime` | `TypeOK`, `FrameChain`, `PushesFit`, `FrameAssertsHold`, `UnmovedIsFresh`, `CallerLocalsKept`, `ImplementsMachine`, `Terminates` | every opcode, trap and print, and recursion across two growths of the call stack, moved or not |
| `Emit` | `EmitTypeOK`, `Contiguous`, `BranchesPatched`, `BranchesStayInside` | emission with a body that may move at each growth |
| `System` | `OutputIsMeaning`, `NoTrap`, `OperandsKept`, `ReturnsOneWord`, `Completes` | programs of `README.md` and `dk_tests.dk`, and all pairs of statements of a small grammar, print what they mean |
| `Tokenizer` | `TokensTypeOK`, `TokensTile`, `TokensAreMaximal`, `LocationsCounted`, `StopsAreExplained`, `Ends` | all short texts: nothing is lost, tokens are maximal, locations right, every text ends |
| `Number` | `SpelledNumbersAreRead`, `OthersAreWords` | the spellings of `Numbers` are read as what they mean, those of `FactorLost` without the lost factor; words that only begin like a number are none, nor are the numbers of `CutShort` |
| `Parse` | `NothingLost`, `ProgramsParse`, `ParseEnds` | programs, and all texts one token away from one: nothing is lost in silence, programs are accepted, the parser ends |
| `Fixup` | `Acyclic`, `EveryClauseOnce`, `LastEndsChain`, `DetIsPrevious`, `FixupEnds` | clause lists with at most one `den`/`det` per clause stay lists, at every step of the walk |
| `Check` | `CallsAreSaturated`, `RefersToOwnSlots`, `ExpressionsTyped`, `ErrorsOfOneBody` | what is accepted has as many arguments as parameters, of their types, and offsets inside its own locals |
| `Arena` | `LiveIsKept`, `ArenaAssertsHold` | pushes, marks, scopes and resets in any order: live memory is never handed out twice |
| `Map` | `ImplementsDict` | any sequence of calls answers like a dictionary, until a remove cuts a probe sequence |
| `UnsetLocal` | `WhileTestPasses` (violated) | the "while loop" test reads a local it never set |
| `TwoParameters` | `OutputIsMeaning` (violated) | two arguments arrive swapped |

`ImplementsMachine` says in one sentence what the call stack is for: `DkMachine` knows
no memory, only activations that nothing else can reach. It is allowed to stop for
no reason of the program's only after calls were nested deeper than `Depth`, the
number of activations the first allocation holds; until then, and after that unless
it stops, every step of `dk_run_program` is a step of it.

A `den` or `det` in the first clause of a list has nothing to stand for. The code
means to take `head` then (`prev ? prev : head`, `dk.c` 646) but dereferences `prev`
two lines on (648): the process dies there (trap `null`, confirmed with the built
program).

`OutputIsMeaning` in the passing run is about functions of at most one parameter
that set their locals before they read them, and bodies and call stacks that are
not moved: each of these limits is needed, as the next section shows.

`NothingLost` compares text and tree between two functions, as long as nothing was
reported: the tree, written out again, is the text but for the words that may be left out. A
text with an empty parenthesis (there may be a comment in it) is the exception. `ProgramsParse` has no such
limit (it leaves out only that the tokenizer itself reported an error, after which no token is parsed: `Tokenless`), and neither has `ParseEnds`: one action at least per loop eats a token, sees
the end or stops.

Bounds. In `DkRuntime` the call stack is counted in words. The real sizes are a
header of 32 bytes and 64 bytes of locals in an initial 4096, so that the 43rd
activation grows the buffer, in the push of its locals (42 * 96 + 32 < 4096). The
runs take 2 + 4 words in 16, which grows first at the third activation, also in
the push of the locals, and again at the sixth: `Sum(7)` has nine. `Moves`
chooses at every growth whether `heap_realloc` moves the block; `Fills` are the
words fresh memory may hold. `WordMax` is 31 in the interpreter's runs (every wrap
and sign case of the opcodes on operands 0, 1, 2, 3 and the extreme words) and
4095 in those of the whole, where positions must fit in operands. `One`, the bits
of 1.0, is any word but 0 and 1. The body buffer starts at 16 bytes in `Emit`,
instead of 4096, so that it grows inside the smallest IF; an
instruction has at most 9 bytes and a step of the emitter pushes at most 11, so as
in the code no step grows twice. The trees nest IF, WHILE, returns, calls in
operands and lists three deep, and the grammar of `Pairs` (in `MCTrees`) combines
each first statement with each second one, since what goes wrong between
statements is a word too many on the data stack or a wrong branch target.

The tokenizer runs on every text of up to three characters over an alphabet with
one or two members of each class, every text of up to four over those that make
up numbers and lines, and longer ones; every branch of `dk_next_token` looks at no
more than two characters and a flag, so a run of two characters of a class, with
one before and one behind it, meets every combination. `FloatRoom` is 6 instead of
256, so that literals on both sides of the limit are short. In the passing run every
comment has its newline. The clause lists have up to four clauses in the
statement, or two and a parenthesis of two, or parentheses in parentheses, with `den`
or `det` in any of them; a `det` in the first clause of a list is included and stops
there. Four clauses give a rewriting after a rewriting after a rewriting, and the
walk keeps no state that reaches back further than the last one (`head`).

The texts of `Parse` are six programs with every kind of statement and nested
parentheses, and for each of them every text with one token left out, put in or
exchanged, or broken off after any token: with one token of look-ahead a function meets a
wrong token in each of its places. The trees of `Check` have every clause of up to
two parts, and every assignment and addition, over words, locals, literals, calls
and lists, with no, one or three locals and a function whose pattern fits or does not; and
trees with blocks, recursion, functions of one pattern, and errors in two functions.
The numbers are all of 0 to 99, and hundreds, thousands and millions with a choice of counts
on either side of each change of rule: multipliers in falling order, a count of thousands that is below a hundred or hundreds,
a count of millions that is below a hundred, hundreds, or thousands with less than a hundred, and every number below a hundred behind a short
multiplier. Counts of millions with thousands and hundreds, and short multipliers cut by a following e, are checked for how
they are misread. A multiplier said twice (`ettusindeettusinde`) is not tried. The arena has blocks of 16 words behind a header of 8, up to
three blocks, two marks and four live places, and requests that fit, need alignment, or are
larger than a block: a mark in the first block and one in a later one, with blocks passed
over in between, is as far as blocks and marks can interact. The map has five keys, of which
three collide and two are hashed behind them or with them, in tables of 1, 2 and 4 slots, with 16
words, the last of which three keys are hashed to.

Deadlock is not checked: the interpreter, the emitter, the whole, the tokenizer, the
parser, the rewriting, the checker and the number spelling do stop, and the bounded arena and a map whose
assertion failed stop too.

Fairness. `FairSpec`, `FairSystemSpec`, `FairTokensSpec`, `FairParseSpec` and `FairFixupSpec` assume weak fairness of the whole
next-state relation: the program is one sequential loop and does not stop while it
has a step to take. No choice inside a step (where memory moves, what it holds) is
assumed fair. Programs given to `Terminates` and `Completes` have loops that end.

## Known disagreements

Two runs end with a counterexample, because the code does not do what the repository says of
it. Five more were found in the same way; the definitions they need are kept, so that
each can be seen again by changing a configuration as the last column says.

| What the code does | What the repository says | Shown by |
|---|---|---|
| A local is never initialised (`dk.c` 1556) | test "while loop" expects 1 to 5 and never sets A (`dk_tests.dk` 283) | run `UnsetLocal` |
| Two arguments arrive swapped (`dk.c` 1359, 1483) | `README.md` writes them in the order of the parameters | run `TwoParameters` |
| `frame` dangles after the call stack moved (`dk.c` 1671, 1235) | `assert(size <= buffer->size)` (`dk.c` 1246) | `Runtime.cfg` with `Programs <- DeepSum` and only `INVARIANT CallStackAssertsHold` |
| A ninth local lies beyond the 64 bytes of an activation (`dk.c` 1550) | `assert(pos + size <= buffer->size)` (`dk.c` 1253) | `TwoParameters.cfg` with `Trees <- LocalTrees` and `INVARIANT LocalAssertHolds` |
| Branches are patched in freed memory when the body moved (`dk.c` 1436) | test "if" expects 1 and 4 (`dk_tests.dk` 98) | `TwoParameters.cfg` with `Trees <- IfTrees`, `BodyMoves = {TRUE}` and `INVARIANT IfTestPasses` |
| A comment at the end of the file is read for ever (`dk.c` 294) | "Continue comment until newline." (`dk.c` 291), and tests are trimmed | `Tokenizer.cfg` with `Sources <- LastComment` and only `PROPERTY Ends` |
| A second `det` in a clause makes the clause part of itself (`dk.c` 645) | test "expr list": `det` is the clause before (`dk_tests.dk` 113) | `Fixup.cfg` with `Texts <- TwoDets` and only `INVARIANT Acyclic` |

## Proofs

For every set of programs, word size, frame and local size, initial capacity and
policy of moving, from the assumptions `WordAssumption`, `NativeAssumption`,
`CapacityAssumption` and `RuntimeAssumption`, the interpreter (`DkRuntimeProofs`):

- `TypeCorrect`, `FramesAreChained`, `CallPushesFit`: from the inductive invariant
  `Inv`, the conjunction of `TypeOK`, `FrameChain`, `PointersKnown`, `Untouched` (nothing
  is on the call stack before the setup) and `CapacityOK` (a capacity is 0 or at
  least the first allocation, so that one doubling is enough). `FrameChain` is
  needed for types already: a `RET` takes `return_pos` and `prev` out of memory, so
  that `frame` points at a header afterwards rests on the whole chain, and that
  `words` is indexed inside the block rests on every header lying below `calls.size`.
- `FrameAsserts`, `FreshUntilMoved`, `CallersUndisturbed`, `ReturnsToCallSites`: each
  from `Inv` and one more step argument. `CallersUndisturbed` is an action property;
  `STL` writes between the newest header's base and the end of the buffer, and
  headers of other activations lie a whole activation below.
- `RuntimeImplementsMachine`, the refinement: every step of `dk_run_program` is a step of `DkMachine`
  or leaves it as it is. The machine may stop for no reason of the program's only when calls were nested
  deeper than `Depth`, so that `Inv` is not enough: `DepthKnown` says that the buffer holds whole activations and nothing
  else (the number of headers times an activation's size is its size), and that it is in its first block until it has outgrown the first
  allocation. A stale pointer then implies more activations than `Depth`. `MachineInv` is both.

For every set of trees, operand size and policy of moving, with `TreeAssumption`
and `EmitAssumption` (the nodes of the trees are in the given sets; the initial
capacity is at least one step's pushes):

- `EmitterTypeCorrect`, `CodeIsContiguous`, `HolesAreKept`, `BranchesArePatched`, from
  the inductive invariant `EmitInv`: the types, contiguous code, holes that are
  operands of distinct branches, `start_pos` of every pending WHILE at an instruction
  or the end of the body, and pending pointers into a block the body has had. A
  patch is right only because no two pending work items share a hole and because
  the hole's branch is exactly one byte before it; both must be carried through the
  replacement of the top work item by several others, which is lemma `HolesStep`.
- `BranchesAreInside`, from the part `InsideInv` of `EmitInv`. A branch may be patched to the end of
  the body, where no instruction is yet, and whether that is still the same function depends on what is
  emitted next. So the invariant says what keeps functions apart: everything that is open lies behind
  every symbol (`OpenInCurrent`), a branch stays in its function or is open (`BranchesInside`), a function's last
  instruction, the `RET` of the epilogue, is still to come while it is emitted (`ReturnComesLast`), and when it is
  done no branch goes to the end (`NoneBehind`).
- `CodeIsBalanced`, about the data stack of the finished code. `Balanced` gives each position one depth: how many
  words the activation has on the data stack when control gets there, by whatever path. Each instruction finds enough and leaves
  what the next position (for a branch, both) expects; a function begins with its arguments, every call passes as many as
  its function takes, and a return or branch finds one word. That an expression leaves one word more and a statement none would be an induction
  over the tree. Here it is one over the steps of the emitter: `DepthInv` says that the pending items of `work`, taken in
  order, each begin at the depth the one before will leave, the last at 0 (`Carries`), with every instruction emitted so far balanced
  (`InstFits`), and with pending loops starting where the depth is 0 (`Restarts`). To replace an item by those of its parts is to join such chains (`CarriesJoin`).

For every set of trees that is checked, and all of the sizes and policies above, the whole (`DkSystemProofs`, with the two invariants above
and `SystemAssumption`). `Checked(t, locals, opcodes)` says what the theorems need of a tree: in each call the arguments
match the function called in number, an intrinsic is among `opcodes` and has its one or two, locals are among `locals`, and no
two functions share a symbol. `CheckInv` is where these come from in the checker; TLC finds all trees of `System` to
be so (`TreesAreChecked`), so that the hypotheses are met.

- `CallersKeepOperands` and `EveryReturnIsOneWord`, as long as the body of the program was not moved (`InPlace`; else branches are unpatched, and both
  fail). The invariant `BalancedRun` joins the depths of the code with the heights of the activations: `heights[o]`, what lies below an
  activation, plus the depth of `ip` is the length of the data stack (`AtDepth`), and each suspended
  activation will be returned to one word above what it passed, which is what the depth at its return
  position says (`HeightOK`). So it is kept by a `CALL` and a `RET` far apart, with any calls in between.
- `CompiledNeverTraps` and `OnlyDivisionTraps`: of the assertions of the interpreter none fails, and only a division stops it, in a program whose
  locals fit an activation, whose first function takes no argument (it is started with an empty data stack), and
  while the call stack too is in its first block. Reads are in the body since every depth is at an instruction; pops find their operands by `Balanced` and `AtDepth`;
  a called symbol exists by `Takes`; the frames are whole by `FrameAssertsHold`, and not stale by
  `UnmovedIsFresh`. Each condition is needed: a ninth local, a stale frame and an unpatched branch (the section before), a
  division by zero, and a first function with a parameter each stop a program.

For every text, alphabet, set of spellings and limit, with `CharAssumption` (the
classes are disjoint where `char_flags_table` keeps them apart):

- `TokenizerTypeCorrect`, `TextIsTiled`, `EndsAreExplained`, from the inductive invariant
  `TokensInv`: the types, `RunStarted` (a loop for words, numbers or comments has
  eaten a character since `begin`, or is about to), `TokensTile` and `StopsAreExplained`. `TokensTile` alone is not
  inductive: that a word has at least one character rests on `WordStart` lying inside
  `WordChar`, through `RunStarted`; and that nothing but a comment passes the end of the
  text rests on `'\0'` being in no class that is eaten.
- `LocationsAreCounted`, with the location of the token at hand, and `TokensMaximal`, with `RunRead`: what the loop at hand has
  read since `begin` belongs to its token, so that at the token's end only the character behind it is left to look at.

For every set of texts, with `TextsAssumption` (what the tokenizer ends is its only EOF token, the last):

- `ParserKeepsText` (`TreeSaysText`), the part of `NothingLost` that can be said without flattening, and at every step, not only between
  functions: nodes that are made of a token are so in the order of the text, each of a token of its own that says
  what the node says (`Traces`), and no word, literal or comma before `peek` is left out (`Covers`) except the words the grammar asks
  for (`Structure`). What could lose words is `ParenList`, which drops all but the last list of a parenthesis. It never drops a node: a list ends
  where no word, literal, parenthesis or comma stands (`TopOK`), so that another list begins only at a dot, where the
  next clause has no part and the assertion stops the program (`Stopping`). An empty parenthesis breaks this: it ends its clause wherever that is
  (`Opened` is what tells that a parenthesis closed without a list was opened just before).
- `ParserStackFits` is what these arguments need of the C stack: what may stand on what (`Fits`), and that
  parentheses are nested with all that came before an inner one kept (`ParensNest`). `ParseInv` is both and `TopOK`.

For every set of clause lists that are lists (`TextAssumption`: every clause linked from one place, no circles,
last pointers at the ends), with any number of clauses and any nesting:

- `DetsArePrevious`, from `DetInv`: next pointers are only ever cut, and the clause before `curr` in every walk, those
  that wait for an inner one too, is the one before it in the text.
- `RewritingMakesNoCircle`, `RewritingLosesNoClause` and `RewritingKeepsLasts`, when no clause has two `den` or
  `det`: a second one makes the clause part of itself (`TwoDets` below), so that the condition is needed, and it is the one under
  which the run checks them. The invariant is `FixupInv`. The three properties alone are
  not inductive, since what is moved is said by locals of walks, not by the lists: `Walks` says that `head` begins the list
  of each walk, that `prev` and `curr` are on its chain with the link between them uncut as long as a `den` is ahead,
  and that the walks are nested, no two in one clause; `Unbegun`, that what a walk has ahead lies in a set of clauses no walk has
  begun. `NoCircle` is said of sets: of every set of clauses one is linked to none of it. So it is kept by an
  argument about one link moved, without induction over chains; the same goes for `Reaches`.

For every kind of arena, header, first capacity, set of requests and of rounded capacities,
and any number of blocks and marks, with the assumptions of `BaseArena` (`HeaderAssumption`
says that the header fits in the first block; alignments are positive):

- `ArenaKeepsLive`, `ArenaAssertsAlwaysHold`, from the inductive invariant `ArenaInv`. That live places are disjoint
  needs that they lie below the positions of the blocks up to `curr` (`LiveHeld`), and to keep
  that after a rewind, that every open mark would leave it true (`MarksOK`), with the
  marks nested (`Nested`). That a mark passes its assertion needs that no block is smaller
  than the first (`BlocksOK`): only then does its position, taken from the first block, lie below the
  capacity of the block it is compared with.

For every set of keys, hash function into the words, and set of capacities for which probing visits the slots in order (`InOrder`: each
capacity divides `Word`, as powers of two do, or no hash comes that near to `Word`):

- `MapImplementsDict`, the refinement of `BaseDict`, from the inductive invariant `MapInv`: until `cut`, the map is `Sound`, and
  while it grows so is the new table, which has the keys and values of the slots moved so far and no others (`GrowsSoundly`).
  A table is sound when no key is in two slots, `count` is the number of keys, and each key is come to from its hash
  over taken slots (`Reached`); the last is what a remove may break and `cut` tells of. That a slot moved into the new table
  finds room needs that it has fewer keys than slots, so that one is empty, and that probes come to every slot. `InOrder` is needed:
  `hash + probe` wraps around at 2^64, and if that is no multiple of the capacity the probes jump. With `SmallCaps == {6}` in `MCMap` TLC shows a key
  that is lost by removing one from a slot it does not follow. Without the wrap the capacity may be any number.

For every set of trees the parser can hand over (`CheckAssumption`: no list is empty), with any names, functions, blocks and
parentheses:

- `CheckerInvariant`, the inductive invariant `CheckInv`, and from it `CallsSaturated`, `OwnSlots`, `TypesAreKnown` and `OneBodyFails`.
  The four properties are far from inductive, as they speak of bodies that are done or of a tree without errors. Three parts carry
  the argument. `Phases` and `SignaturesKnown`: no body is begun before all signatures are checked, unless there are
  errors and then no body is begun at all; so no type looked up in a body is unknown, which is why `CheckTypeOK` may leave the trap `untyped` out.
  `LocalsDeclared`: after k parts of the pattern the locals are its typed parts among the first k, in order, and from then on
  those with locals of the body behind them; an expression refers to `locals` while its body is checked and to `slots` once it is done
  (`NodeOK`). `WorkTakes`: the arguments collected so far are those of the typed parts of the wanted pattern, in every list on
  the stack. So the arguments of a call and the parameters of its function both enumerate, in increasing
  order, places of a pattern with a type (`Declares`, `Takes`, both by `Enum`); where no word stands for a parameter these are the same places, and a
  set of numbers has one such enumeration only (`EnumIsUnique`). That an assignment has its source first and its target last rests on the
  patterns of the built-in functions (`Assignments`).

Only model-checked: the liveness properties (`Terminates`, `Completes`, `Ends`, `ParseEnds`, `FixupEnds`; the prover has
no rules for fairness); `OutputIsMeaning` (the reference definition is recursive on trees, out of the prover's reach; that the program gets to
its end without a trap, and with one word for each call, is proved); `NothingLost` as a whole (brackets too,
and the words of the grammar: it flattens sequences, which is defined by recursion) and `ProgramsParse` (about the texts of a grammar); and `DkNumber`, which is recursion
over texts throughout.

## Not modelled

The command line, files and console: pure I/O. Printing of errors and debug output. The values of
literals in digits (`flyder` and `heltal` literals are words already in `DkEmit`). Floats are
fixed-point: NaN, rounding and -0.0 are left out. Running out of heap is left out except in
`BaseMap`: nothing else checks for it. `arena_destroy`, which ends an arena's life; `darray`, which
nothing uses. Of `base/`: formatting, unicode, fixed buffers, strings and string lists are pure
helpers whose results the models take as they are; threads and mutexes on Windows are wrapped and used
by nothing. The phases are not composed from text to output: each is checked on its own
inputs, those of the emitter being what `Check` shows of an accepted tree.

## Plan

1. Composition of parser and rewriting (`DkParse` with `DkFixup`), of checker and emitter (an accepted
   tree satisfies `TreeAssumption`).
2. Proofs: with the composition of checker and emitter, that an accepted tree is `Checked`.
