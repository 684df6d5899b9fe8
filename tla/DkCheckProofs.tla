---------------------------- MODULE DkCheckProofs ----------------------------
(***************************************************************************)
(* The checker's invariant for every tree: whatever the functions, blocks  *)
(* and parentheses.  That a call hands over its function's parameters      *)
(* relates two loops that never meet, the one over the parts of the clause *)
(* and the one over the parts of the pattern: both enumerate in order the  *)
(* places that have a type.                                                *)
(***************************************************************************)
EXTENDS DkCheckProps, SequenceTheorems, WellFoundedInduction, TLAPS

(* The enumerations of a set of n places in increasing order.              *)
Enum(n, S) ==
    {pos \in [1..n -> S] : /\ \A i, j \in 1..n : i < j => pos[i] < pos[j]
                           /\ \A x \in S : \E i \in 1..n : pos[i] = x}

Local  == [name : Names, type : Names, off : Nat, arg : BOOLEAN]
Wanted == [typed : BOOLEAN, name : Names]
Node   == [kind : {"local", "literal", "func", "assign", "list"}, in : Nat, type : Names, local : Local,
           callee : Nat, want : Seq(Wanted), kids : Seq(Nat)]
List   == [clauses : Seq(Seq(ClausePart)), exprs : Seq(Nat), parts : Seq(ClausePart),
           want : Seq(Wanted), args : Seq(Nat)]
Func   == [kind : {"user", "opcode", "assign", "native"}, pattern : Seq(PatternPart), returns : Names, stmts : Seq(Statements)]

CheckTypeOK ==
    /\ funcs \in Seq(Func) /\ sigs \in 0..Len(funcs) /\ bodies \in 0..Len(funcs)
    /\ symbols \in Seq(Nat) /\ Len(symbols) = sigs /\ counter \in Nat
    /\ params \in Seq(PatternPart) /\ todo \in Seq(Statements)
    /\ locals \in Seq(Local) /\ count \in Nat
    /\ slots \in Seq(Seq(Local)) /\ Len(slots) = bodies
    /\ work \in Seq(List) /\ nodes \in Seq(Node) /\ roots \in Seq(Nat) /\ errs \in Seq(Nat)
    /\ pc \in {"sigs", "bodies", "params", "stmts", "clauses", "done"}
    /\ trap \in {"none", "type", "null"}

InBody == pc \in {"params", "stmts", "clauses"}

Assignments ==
    \A f \in DOMAIN funcs : funcs[f].kind = "assign" =>
        /\ Len(funcs[f].pattern) = 4
        /\ \A i \in 1..4 : funcs[f].pattern[i].type # "" => i \in {2, 4}

(* The phases: all signatures are checked before the first body is.        *)
Phases ==
    /\ pc = "sigs" => bodies = 0
    /\ InBody => bodies < Len(funcs)
    /\ InBody \/ (pc = "bodies" /\ errs = <<>>) => sigs = Len(funcs)
    /\ pc # "params" /\ pc # "done" => params = <<>>
    /\ pc # "clauses" /\ pc # "done" => work = <<>>
    /\ pc = "clauses" => work # <<>> /\ todo # <<>> /\ todo[1].kind # "decl"
    /\ pc \in {"sigs", "bodies"} => locals = <<>> /\ count = 0

SignaturesKnown ==
    pc # "done" => \A f \in 1..sigs :
        /\ funcs[f].returns \in Types
        /\ \A i \in DOMAIN funcs[f].pattern : funcs[f].pattern[i].type \in Types \cup {""}

SymbolsDistinct ==
    /\ \A f \in DOMAIN symbols : symbols[f] <= counter
    /\ \A f, g \in DOMAIN symbols : symbols[f] = symbols[g] /\ f # g => symbols[f] = 0

OneBody ==
    /\ \A i \in DOMAIN errs : errs[i] = errs[1] /\ bodies <= errs[i]
    /\ InBody => \A i \in DOMAIN errs : errs[i] = bodies + 1

(* The locals of a function after k parts of its pattern.                  *)
TypedParts(pattern, k) == {i \in 1..k : pattern[i].type # ""}
Placed(ls) == \A i \in DOMAIN ls : ls[i].off = i - 1 /\ (ls[i].arg => \A j \in 1..i : ls[j].arg)
Declares(ls, pattern, k) ==
    \E n \in 0..Len(ls) : \E pos \in Enum(n, TypedParts(pattern, k)) :
        /\ {i \in DOMAIN ls : ls[i].arg} = 1..n
        /\ \A i \in 1..n : ls[i].type = pattern[pos[i]].type

LocalsDeclared ==
    /\ InBody => /\ Placed(locals) /\ count = Len(locals)
                 /\ \A i \in DOMAIN locals : locals[i].type \in Types
                 /\ Len(params) <= Len(funcs[bodies + 1].pattern)
                 /\ Declares(locals, funcs[bodies + 1].pattern, Len(funcs[bodies + 1].pattern) - Len(params))
    /\ pc = "params" => /\ \A i \in DOMAIN locals : locals[i].arg
                        /\ \A i \in DOMAIN params :
                              params[i] = funcs[bodies + 1].pattern[Len(funcs[bodies + 1].pattern) - Len(params) + i]
    /\ \A f \in DOMAIN slots : Placed(slots[f]) /\ Declares(slots[f], funcs[f].pattern, Len(funcs[f].pattern))

(* The arguments are those of the wanted pattern's typed parts.            *)
TypedWants(want) == {i \in 1..Len(want) : want[i].typed}
Takes(es, args, want) ==
    /\ \A i \in DOMAIN args : args[i] \in DOMAIN es
    /\ \E pos \in Enum(Len(args), TypedWants(want)) : \A i \in 1..Len(args) : es[args[i]].type = want[pos[i]].name

ListOK(es, fr) ==
    /\ Takes(es, fr.args, fr.want)
    /\ \A i \in DOMAIN fr.exprs : fr.exprs[i] \in DOMAIN es
    /\ fr.exprs = <<>> => fr.clauses # <<>>
WorkTakes == pc = "clauses" => \A w \in DOMAIN work : ListOK(nodes, work[w])

Fits(want, pattern) ==
    /\ Len(want) = Len(pattern)
    /\ \A i \in 1..Len(want) :
          IF want[i].typed THEN want[i].name = pattern[i].type \/ pattern[i].type = "$any"
                           ELSE want[i].name = pattern[i].name

CallOK(fs, e) ==
    /\ e.callee \in DOMAIN fs /\ Fits(e.want, fs[e.callee].pattern)
    /\ e.kind = "assign" => fs[e.callee].kind = "assign"
EndsAlike(es, e) == e.kind = "assign" /\ e.kids # <<>> => es[e.kids[1]].type = es[e.kids[Len(e.kids)]].type

IsLocalOf(e, ls) ==
    /\ e.local.off + 1 \in DOMAIN ls /\ ls[e.local.off + 1] = e.local /\ e.type = e.local.type
    /\ \A i \in 1..e.local.off : ls[i].name # e.local.name

NodeOK(e) ==
    /\ e.type \in Types \cup {""} /\ e.in \in 1..(IF pc \in {"sigs", "bodies"} THEN bodies ELSE bodies + 1)
    /\ errs = <<>> => e.type # "" /\ EndsAlike(nodes, e)
    /\ IsCall(e) => CallOK(funcs, e)
    /\ e.kind \in {"func", "assign"} => Takes(nodes, e.kids, e.want)
    /\ e.kind = "local" => IsLocalOf(e, IF e.in <= bodies THEN slots[e.in] ELSE locals)
NodesKnown == \A n \in DOMAIN nodes : NodeOK(nodes[n])

CheckInv ==
    /\ CheckTypeOK /\ Assignments /\ Phases /\ SignaturesKnown /\ SymbolsDistinct
    /\ OneBody /\ LocalsDeclared /\ WorkTakes /\ NodesKnown
-----------------------------------------------------------------------------
(* Numbers, sequences and enumerations.                                    *)
LEMMA LeastExists ==
    ASSUME NEW S, S \subseteq Nat, S # {}
    PROVE  \E x \in S : \A y \in S : x <= y
<1>1. PICK x \in S : \A y \in S : ~(<<y, x>> \in OpToRel(<, Nat))
  BY WFMin, NatLessThanWellFounded, Zenon
<1>2. \A y \in S : ~(y < x)
  BY <1>1 DEF OpToRel
<1>. QED BY <1>2

LEMMA FirstIndexIsLeast ==
    ASSUME NEW S, S \subseteq Nat \ {0}
    PROVE  /\ FirstIndex(S) = 0 <=> S = {}
           /\ S # {} => FirstIndex(S) \in S /\ \A j \in S : FirstIndex(S) <= j
<1>1. CASE S = {}
  BY <1>1 DEF FirstIndex
<1>2. CASE S # {}
  <2>1. \E x \in S : \A y \in S : x <= y
    BY <1>2, LeastExists
  <2>2. FirstIndex(S) = CHOOSE i \in S : \A j \in S : i <= j
    BY <1>2 DEF FirstIndex
  <2>3. FirstIndex(S) \in S /\ \A j \in S : FirstIndex(S) <= j
    BY <2>1, <2>2, Zenon
  <2>. QED BY <1>2, <2>3
<1>. QED BY <1>1, <1>2

LEMMA EnumGrows ==
    ASSUME NEW n \in Nat, NEW S, S \subseteq Nat, NEW pos \in Enum(n, S), NEW x \in Nat, \A y \in S : y < x
    PROVE  [i \in 1..n+1 |-> IF i = n + 1 THEN x ELSE pos[i]] \in Enum(n + 1, S \cup {x})
<1> DEFINE q == [i \in 1..n+1 |-> IF i = n + 1 THEN x ELSE pos[i]]
<1>1. /\ pos \in [1..n -> S]
      /\ \A i, j \in 1..n : i < j => pos[i] < pos[j]
      /\ \A y \in S : \E i \in 1..n : pos[i] = y
  BY DEF Enum
<1>2. /\ \A i \in 1..n : i \in 1..n+1 /\ q[i] = pos[i] /\ pos[i] \in S
      /\ n + 1 \in 1..n+1 /\ q[n + 1] = x
      /\ \A i \in 1..n+1 : i \in 1..n \/ i = n + 1
  BY <1>1
<1>3. q \in [1..n+1 -> S \cup {x}]
  BY <1>1
<1> HIDE DEF q
<1>4. \A i, j \in 1..n+1 : i < j => q[i] < q[j]
  <2>. SUFFICES ASSUME NEW i \in 1..n+1, NEW j \in 1..n+1, i < j PROVE q[i] < q[j]
    OBVIOUS
  <2>1. i \in 1..n
    OBVIOUS
  <2>2. CASE j \in 1..n
    BY <1>1, <1>2, <2>1, <2>2
  <2>3. CASE j = n + 1
    BY <1>2, <2>1, <2>3
  <2>. QED BY <1>2, <2>2, <2>3
<1>5. \A y \in S \cup {x} : \E i \in 1..n+1 : q[i] = y
  BY <1>1, <1>2
<1>6. q \in Enum(n + 1, S \cup {x})
  BY <1>3, <1>4, <1>5 DEF Enum
<1>. QED BY <1>6 DEF q

LEMMA EnumIsUnique ==
    ASSUME NEW n \in Nat, NEW m \in Nat, NEW S, S \subseteq Nat, NEW p \in Enum(n, S), NEW q \in Enum(m, S)
    PROVE  n <= m /\ \A i \in 1..n : p[i] = q[i]
<1> DEFINE Bad == {i \in 1..n : i > m \/ p[i] # q[i]}
<1>1. /\ p \in [1..n -> S] /\ \A i, j \in 1..n : i < j => p[i] < p[j]
      /\ \A y \in S : \E i \in 1..n : p[i] = y
      /\ q \in [1..m -> S] /\ \A i, j \in 1..m : i < j => q[i] < q[j]
      /\ \A y \in S : \E i \in 1..m : q[i] = y
  BY DEF Enum
<1>2. ASSUME Bad # {} PROVE FALSE
  <2>1. PICK i \in Bad : \A j \in Bad : i <= j
    <3>1. Bad \subseteq Nat
      OBVIOUS
    <3>. HIDE DEF Bad
    <3>. QED BY <1>2, <3>1, LeastExists
  <2>2. i \in 1..n /\ \A j \in 1..n : j < i => j <= m /\ p[j] = q[j]
    BY <2>1
  <2>3. PICK j \in 1..m : q[j] = p[i]
    BY <1>1, <2>2
  <2>4. ~(j < i)
    <3>1. ASSUME j < i PROVE FALSE
      <4>1. j \in 1..n /\ p[j] = p[i]
        BY <2>2, <2>3, <3>1
      <4>2. p[j] < p[i] /\ p[i] \in Nat
        BY <1>1, <2>2, <3>1, <4>1
      <4>. QED BY <4>1, <4>2
    <3>. QED BY <3>1
  <2>5. i <= m /\ i # j
    BY <2>1, <2>2, <2>3, <2>4
  <2>6. q[i] < p[i] /\ i \in 1..m
    BY <1>1, <2>2, <2>3, <2>4, <2>5
  <2>7. PICK k \in 1..n : p[k] = q[i]
    BY <1>1, <2>6
  <2>8. p[k] < p[i] /\ p[k] \in Nat /\ p[i] \in Nat
    BY <1>1, <2>2, <2>6, <2>7
  <2>9. k < i
    <3>1. ~(i < k) /\ i # k
      BY <1>1, <2>2, <2>8
    <3>. QED BY <2>2, <3>1
  <2>10. q[k] = q[i] /\ k \in 1..m
    BY <2>2, <2>7, <2>9
  <2>11. q[k] < q[i] /\ q[i] \in Nat
    BY <1>1, <2>6, <2>9, <2>10
  <2>. QED BY <2>10, <2>11
<1>3. \A i \in 1..n : i <= m /\ p[i] = q[i]
  BY <1>2
<1>4. n <= m
  <2>1. CASE n = 0
    BY <2>1
  <2>2. CASE n # 0
    BY <1>3, <2>2
  <2>. QED BY <2>1, <2>2
<1>. QED BY <1>3, <1>4

(* What one more element, one less, or another first one does.             *)
LEMMA AppendIs ==
    ASSUME NEW S, NEW s \in Seq(S), NEW e \in S
    PROVE  /\ Append(s, e) \in Seq(S) /\ Len(Append(s, e)) = Len(s) + 1 /\ Len(s) \in Nat
           /\ DOMAIN Append(s, e) = 1..Len(s)+1 /\ DOMAIN s = 1..Len(s) /\ Append(s, e) # <<>>
           /\ \A i \in 1..Len(s) : Append(s, e)[i] = s[i]
           /\ Append(s, e)[Len(s) + 1] = e
BY AppendProperties, LenProperties

LEMMA ErrorAdded ==
    ASSUME CheckTypeOK
    PROVE  Append(errs, bodies + 1) # <<>>
<1>1. errs \in Seq(Nat) /\ bodies + 1 \in Nat
  BY LenProperties DEF CheckTypeOK
<1> DEFINE r == Append(errs, bodies + 1)
<1>2. Len(r) = Len(errs) + 1 /\ Len(errs) \in Nat
  BY <1>1, AppendProperties, LenProperties
<1> HIDE DEF r
<1>3. r # <<>>
  BY <1>2
<1>. QED BY <1>3 DEF r

LEMMA TailIs ==
    ASSUME NEW S, NEW s \in Seq(S), s # <<>>
    PROVE  /\ Tail(s) \in Seq(S) /\ Len(Tail(s)) = Len(s) - 1 /\ Len(s) \in Nat \ {0}
           /\ DOMAIN Tail(s) = 1..Len(s)-1 /\ DOMAIN s = 1..Len(s)
           /\ s[1] \in S /\ \A i \in 1..Len(s)-1 : Tail(s)[i] = s[i + 1]
<1>1. Len(s) \in Nat \ {0} /\ DOMAIN s = 1..Len(s)
  BY EmptySeq, LenProperties
<1>2. /\ Tail(s) \in Seq(S) /\ Len(Tail(s)) = Len(s) - 1
      /\ \A i \in 1..Len(Tail(s)) : Tail(s)[i] = s[i + 1]
  BY HeadTailProperties
<1>3. DOMAIN Tail(s) = 1..Len(s)-1
  BY <1>2, LenProperties
<1>4. s[1] \in S
  BY <1>1, ElementOfSeq
<1>. QED BY <1>1, <1>2, <1>3, <1>4

LEMMA OneIs ==
    ASSUME NEW S, NEW e \in S
    PROVE  /\ <<e>> \in Seq(S) /\ Len(<<e>>) = 1 /\ <<e>>[1] = e
           /\ DOMAIN <<e>> = 1..1 /\ <<e>> # <<>>
OBVIOUS

LEMMA ConsIs ==
    ASSUME NEW S, NEW s \in Seq(S), NEW e \in S
    PROVE  /\ <<e>> \o s \in Seq(S) /\ Len(<<e>> \o s) = Len(s) + 1 /\ Len(s) \in Nat
           /\ DOMAIN (<<e>> \o s) = 1..Len(s)+1 /\ <<e>> \o s # <<>>
           /\ (<<e>> \o s)[1] = e
           /\ \A i \in 2..Len(s)+1 : (<<e>> \o s)[i] = s[i - 1]
<1>1. /\ <<e>> \in Seq(S) /\ Len(<<e>>) = 1 /\ <<e>>[1] = e /\ Len(s) \in Nat
  BY OneIs, LenProperties
<1> DEFINE r == <<e>> \o s
<1>2. /\ r \in Seq(S) /\ Len(r) = Len(s) + 1
      /\ \A i \in 1..Len(s)+1 : r[i] = IF i <= 1 THEN <<e>>[i] ELSE s[i - 1]
  <2>. HIDE DEF r
  <2>1. /\ r \in Seq(S) /\ Len(r) = Len(<<e>>) + Len(s)
        /\ \A i \in 1..Len(<<e>>)+Len(s) : r[i] = IF i <= Len(<<e>>) THEN <<e>>[i] ELSE s[i - Len(<<e>>)]
    BY <1>1, ConcatProperties DEF r
  <2>2. Len(<<e>>) + Len(s) = Len(s) + 1
    BY <1>1
  <2>. QED BY <1>1, <2>1, <2>2
<1>3. DOMAIN r = 1..Len(s)+1 /\ r # <<>>
  BY <1>1, <1>2, LenProperties, EmptySeq
<1> HIDE DEF r
<1>4. /\ r[1] = e /\ \A i \in 2..Len(s)+1 : r[i] = s[i - 1]
  BY <1>1, <1>2
<1>. QED BY <1>1, <1>2, <1>3, <1>4 DEF r
-----------------------------------------------------------------------------
(* The functions: of the built-in ones only "gem .. i .." is an assignment *)
(* and its parameters are the second part and the fourth.                  *)
GemOnly(f) ==
    f.kind = "assign" => Len(f.pattern) = 4 /\ \A i \in 1..4 : f.pattern[i].type # "" => i \in {2, 4}
Known == {f \in Func : GemOnly(f)}

LEMMA NamesAreNames ==
    /\ "laeg" \in Names /\ "sammen" \in Names /\ "med" \in Names /\ "traek" \in Names /\ "fra" \in Names
    /\ "gang" \in Names /\ "del" \in Names /\ "er" \in Names /\ "mindre" \in Names /\ "end" \in Names
    /\ "stoerre" \in Names /\ "lig" \in Names /\ "enten" \in Names /\ "eller" \in Names /\ "baade" \in Names
    /\ "og" \in Names /\ "ikke" \in Names /\ "stoeb" \in Names /\ "som" \in Names /\ "gem" \in Names
    /\ "i" \in Names /\ "print" \in Names /\ "a" \in Names /\ "b" \in Names /\ "src" \in Names /\ "dst" \in Names
    /\ "heltal" \in Names /\ "flyder" \in Names /\ "paastand" \in Names /\ "$any" \in Names
    /\ "" \in Names /\ Null \in Names /\ Types \subseteq Names
BY CheckAssumption DEF Keywords, Types

LEMMA TuplesAreSequences ==
    ASSUME NEW S, NEW a \in S, NEW b \in S
    PROVE  /\ <<a, b>> \in Seq(S)
           /\ \A c \in S : <<a, b, c>> \in Seq(S)
           /\ \A c, d \in S : <<a, b, c, d>> \in Seq(S)
           /\ \A c, d, e \in S : <<a, b, c, d, e>> \in Seq(S)
OBVIOUS

LEMMA PartsAreParts ==
    ASSUME NEW w \in Names, NEW ty \in Names
    PROVE  W(w) \in PatternPart /\ T(w, ty) \in PatternPart
BY NamesAreNames DEF W, T, PatternPart

LEMMA OpcodeIsKnown ==
    ASSUME NEW ret \in Names, NEW pattern \in Seq(PatternPart)
    PROVE  Opcode(ret, pattern) \in Known
<1>1. <<>> \in Seq(Statements)
  BY EmptySeq
<1>2. Opcode(ret, pattern) \in Func /\ Opcode(ret, pattern).kind = "opcode"
  BY <1>1 DEF Opcode, Func
<1>. QED BY <1>2 DEF Known, GemOnly

LEMMA ArithIsKnown ==
    ASSUME NEW ty \in Names
    PROVE  Arith(ty) \in Seq(Known)
<1> DEFINE p1 == <<W("laeg"), T("a", ty), W("sammen"), W("med"), T("b", ty)>>
           p2 == <<W("traek"), T("a", ty), W("fra"), T("b", ty)>>
           p3 == <<W("gang"), T("a", ty), W("med"), T("b", ty)>>
           p4 == <<W("del"), T("a", ty), W("med"), T("b", ty)>>
<1>1. p1 \in Seq(PatternPart) /\ p2 \in Seq(PatternPart) /\ p3 \in Seq(PatternPart) /\ p4 \in Seq(PatternPart)
  <2>1. /\ W("laeg") \in PatternPart /\ T("a", ty) \in PatternPart
        /\ W("sammen") \in PatternPart /\ W("med") \in PatternPart
        /\ T("b", ty) \in PatternPart /\ W("traek") \in PatternPart
        /\ W("fra") \in PatternPart /\ W("gang") \in PatternPart /\ W("del") \in PatternPart
    BY PartsAreParts, NamesAreNames, Zenon
  <2>. QED BY <2>1, TuplesAreSequences
<1>2. /\ Opcode(ty, p1) \in Known /\ Opcode(ty, p2) \in Known
      /\ Opcode(ty, p3) \in Known /\ Opcode(ty, p4) \in Known
  BY <1>1, OpcodeIsKnown, NamesAreNames
<1>3. Arith(ty) = <<Opcode(ty, p1), Opcode(ty, p2), Opcode(ty, p3), Opcode(ty, p4)>>
  BY DEF Arith
<1> HIDE DEF p1, p2, p3, p4
<1>. QED BY <1>2, <1>3

LEMMA ComparisonIsKnown ==
    ASSUME NEW ty \in Names
    PROVE  Comparison(ty) \in Seq(Known)
<1> DEFINE p1 == <<T("a", ty), W("er"), W("mindre"), W("end"), T("b", ty)>>
           p2 == <<T("a", ty), W("er"), W("stoerre"), W("end"), T("b", ty)>>
           p3 == <<T("a", ty), W("er"), W("lig"), W("med"), T("b", ty)>>
<1>1. p1 \in Seq(PatternPart) /\ p2 \in Seq(PatternPart) /\ p3 \in Seq(PatternPart)
  <2>1. /\ T("a", ty) \in PatternPart /\ W("er") \in PatternPart
        /\ W("mindre") \in PatternPart /\ W("end") \in PatternPart
        /\ T("b", ty) \in PatternPart /\ W("stoerre") \in PatternPart
        /\ W("lig") \in PatternPart /\ W("med") \in PatternPart
    BY PartsAreParts, NamesAreNames, Zenon
  <2>. QED BY <2>1, TuplesAreSequences
<1>2. Opcode("paastand", p1) \in Known /\ Opcode("paastand", p2) \in Known /\ Opcode("paastand", p3) \in Known
  BY <1>1, OpcodeIsKnown, NamesAreNames
<1>3. Comparison(ty) = <<Opcode("paastand", p1), Opcode("paastand", p2), Opcode("paastand", p3)>>
  BY DEF Comparison
<1> HIDE DEF p1, p2, p3
<1>. QED BY <1>2, <1>3

LEMMA LogicAndCastsAreKnown == Logic \in Seq(Known) /\ Casts \in Seq(Known)
<1> DEFINE p1 == <<W("enten"), T("a", "paastand"), W("eller"), T("b", "paastand")>>
           p2 == <<W("baade"), T("a", "paastand"), W("og"), T("b", "paastand")>>
           p3 == <<W("ikke"), T("a", "paastand")>>
           p4 == <<W("stoeb"), T("a", "flyder"), W("som"), W("heltal")>>
           p5 == <<W("stoeb"), T("a", "heltal"), W("som"), W("flyder")>>
<1>1. /\ p1 \in Seq(PatternPart) /\ p2 \in Seq(PatternPart) /\ p3 \in Seq(PatternPart)
      /\ p4 \in Seq(PatternPart) /\ p5 \in Seq(PatternPart)
  <2>1. /\ W("enten") \in PatternPart /\ T("a", "paastand") \in PatternPart
        /\ W("eller") \in PatternPart /\ T("b", "paastand") \in PatternPart
        /\ W("baade") \in PatternPart /\ W("og") \in PatternPart /\ W("ikke") \in PatternPart
        /\ W("stoeb") \in PatternPart /\ T("a", "flyder") \in PatternPart
        /\ W("som") \in PatternPart /\ W("heltal") \in PatternPart
        /\ T("a", "heltal") \in PatternPart /\ W("flyder") \in PatternPart
    BY PartsAreParts, NamesAreNames, Zenon
  <2>. QED BY <2>1, TuplesAreSequences
<1>2. /\ Opcode("paastand", p1) \in Known /\ Opcode("paastand", p2) \in Known /\ Opcode("paastand", p3) \in Known
      /\ Opcode("heltal", p4) \in Known /\ Opcode("flyder", p5) \in Known
  BY <1>1, OpcodeIsKnown, NamesAreNames
<1>3. /\ Logic = <<Opcode("paastand", p1), Opcode("paastand", p2), Opcode("paastand", p3)>>
      /\ Casts = <<Opcode("heltal", p4), Opcode("flyder", p5)>>
  BY DEF Logic, Casts
<1> HIDE DEF p1, p2, p3, p4, p5
<1>. QED BY <1>2, <1>3

LEMMA AssignIsKnown == Assign \in Seq(Known)
<1> DEFINE p == <<W("gem"), T("src", "$any"), W("i"), T("dst", "$any")>>
           f == [kind |-> "assign", returns |-> "heltal", stmts |-> <<>>, pattern |-> p]
<1>1. p \in Seq(PatternPart)
  <2>1. /\ W("gem") \in PatternPart /\ T("src", "$any") \in PatternPart
        /\ W("i") \in PatternPart /\ T("dst", "$any") \in PatternPart
    BY PartsAreParts, NamesAreNames, Zenon
  <2>. QED BY <2>1, TuplesAreSequences
<1>2. Len(p) = 4 /\ p[1] = W("gem") /\ p[3] = W("i")
  OBVIOUS
<1>3. \A i \in 1..4 : p[i].type # "" => i \in {2, 4}
  <2>1. W("gem").type = "" /\ W("i").type = ""
    BY DEF W
  <2>. HIDE DEF p
  <2>2. p[1].type = "" /\ p[3].type = ""
    BY <1>2, <2>1, Zenon
  <2>3. \A i \in 1..4 : i \in {1, 3} \/ i \in {2, 4}
    OBVIOUS
  <2>. QED BY <2>2, <2>3, Zenon
<1> HIDE DEF p
<1>4. f \in Known
  <2>1. <<>> \in Seq(Statements)
    BY EmptySeq
  <2>2. f \in Func /\ f.pattern = p
    BY <1>1, <2>1, NamesAreNames DEF Func
  <2>. QED BY <1>2, <1>3, <2>2 DEF Known, GemOnly
<1>5. Assign = <<f>>
  BY DEF Assign, p
<1> HIDE DEF f
<1>. QED BY <1>4, <1>5

LEMMA NativePrintIsKnown ==
    ASSUME NEW ty \in Names
    PROVE  NativePrint(ty) \in Seq(Known)
<1> DEFINE p == <<W("print"), T("a", ty)>>
           f == [kind |-> "native", returns |-> "heltal", stmts |-> <<>>, pattern |-> p]
<1>1. p \in Seq(PatternPart)
  <2>1. /\ W("print") \in PatternPart /\ T("a", ty) \in PatternPart
    BY PartsAreParts, NamesAreNames, Zenon
  <2>. QED BY <2>1, TuplesAreSequences
<1> HIDE DEF p
<1>2. f \in Known
  <2>1. <<>> \in Seq(Statements)
    BY EmptySeq
  <2>2. f \in Func /\ f.kind = "native"
    BY <1>1, <2>1, NamesAreNames DEF Func
  <2>. QED BY <2>2 DEF Known, GemOnly
<1>3. NativePrint(ty) = <<f>>
  BY DEF NativePrint, p
<1> HIDE DEF f
<1>. QED BY <1>2, <1>3

LEMMA FunctionsAreKnown ==
    ASSUME NEW t \in Trees
    PROVE  t \o Builtins \in Seq(Known)
<1>1. /\ Arith("heltal") \in Seq(Known) /\ Arith("flyder") \in Seq(Known)
      /\ Comparison("heltal") \in Seq(Known) /\ Comparison("flyder") \in Seq(Known)
      /\ Logic \in Seq(Known) /\ Casts \in Seq(Known) /\ Assign \in Seq(Known)
      /\ NativePrint("heltal") \in Seq(Known) /\ NativePrint("flyder") \in Seq(Known)
      /\ NativePrint("paastand") \in Seq(Known)
  BY ArithIsKnown, ComparisonIsKnown, LogicAndCastsAreKnown, AssignIsKnown, NativePrintIsKnown, NamesAreNames
<1>2. \A s1, s2 \in Seq(Known) : s1 \o s2 \in Seq(Known)
  BY ConcatProperties
<1>3. Builtins \in Seq(Known)
  BY <1>1, <1>2, Zenon DEF Builtins
<1>4. t \in Seq(Known)
  <2>1. t \in Seq(UserFunc)
    BY CheckAssumption
  <2>2. UserFunc \subseteq Known
    BY DEF UserFunc, Known, Func, GemOnly
  <2>. QED BY <2>1, <2>2, SeqMonotonic
<1>. QED BY <1>2, <1>3, <1>4

-----------------------------------------------------------------------------
(* A list that is being checked.                                           *)
LEMMA FrameIs ==
    ASSUME NEW clauses \in Seq(Seq(ClausePart)), NEW exprs \in Seq(Nat)
    PROVE  LET fr == Frame(clauses, exprs) IN
           /\ fr \in List /\ fr.clauses = clauses /\ fr.exprs = exprs /\ fr.want = <<>> /\ fr.args = <<>>
<1> DEFINE parts == IF clauses = <<>> THEN <<>> ELSE clauses[1]
<1>1. parts \in Seq(ClausePart)
  <2>1. CASE clauses = <<>>
    BY <2>1, EmptySeq
  <2>2. CASE clauses # <<>>
    BY <2>2, TailIs
  <2>. QED BY <2>1, <2>2
<1>2. <<>> \in Seq(Wanted) /\ <<>> \in Seq(Nat)
  BY EmptySeq
<1>3. Frame(clauses, exprs) = [clauses |-> clauses, exprs |-> exprs, parts |-> parts, want |-> <<>>, args |-> <<>>]
  BY DEF Frame
<1> HIDE DEF parts
<1>. QED BY <1>1, <1>2, <1>3 DEF List

LEMMA NextPartIs ==
    ASSUME NEW fr \in List, fr.parts # <<>>
    PROVE  /\ NextPart(fr) \in List /\ NextPart(fr).clauses = fr.clauses /\ NextPart(fr).exprs = fr.exprs
           /\ NextPart(fr).want = fr.want /\ NextPart(fr).args = fr.args
           /\ fr.parts[1] \in ClausePart
<1>1. fr.parts \in Seq(ClausePart)
  BY DEF List
<1>2. Tail(fr.parts) \in Seq(ClausePart) /\ fr.parts[1] \in ClausePart
  BY <1>1, TailIs
<1>3. NextPart(fr) = [fr EXCEPT !.parts = Tail(fr.parts)]
  BY DEF NextPart
<1>. QED BY <1>2, <1>3 DEF List

LEMMA AddArgIs ==
    ASSUME NEW fr \in List, NEW n \in Nat, NEW ty \in Names
    PROVE  LET r == AddArg(fr, n, ty) IN
           /\ r \in List /\ r.clauses = fr.clauses /\ r.exprs = fr.exprs
           /\ r.want = Append(fr.want, [typed |-> TRUE, name |-> ty]) /\ r.args = Append(fr.args, n)
<1> DEFINE w == [typed |-> TRUE, name |-> ty]
<1>1. w \in Wanted
  BY DEF Wanted
<1> HIDE DEF w
<1>2. Append(fr.want, w) \in Seq(Wanted) /\ Append(fr.args, n) \in Seq(Nat)
  BY <1>1, AppendProperties DEF List
<1>3. AddArg(fr, n, ty) = [fr EXCEPT !.want = Append(fr.want, w), !.args = Append(fr.args, n)]
  BY DEF AddArg, w
<1>. QED BY <1>2, <1>3 DEF List, w

LEMMA AddWordIs ==
    ASSUME NEW fr \in List, NEW word \in Names
    PROVE  LET r == AddWord(fr, word) IN
           /\ r \in List /\ r.clauses = fr.clauses /\ r.exprs = fr.exprs /\ r.args = fr.args
           /\ r.want = Append(fr.want, [typed |-> FALSE, name |-> word])
<1> DEFINE w == [typed |-> FALSE, name |-> word]
<1>1. w \in Wanted
  BY DEF Wanted
<1> HIDE DEF w
<1>2. Append(fr.want, w) \in Seq(Wanted)
  BY <1>1, AppendProperties DEF List
<1>3. AddWord(fr, word) = [fr EXCEPT !.want = Append(fr.want, w)]
  BY DEF AddWord, w
<1>. QED BY <1>2, <1>3 DEF List, w

LEMMA EndClauseIs ==
    ASSUME NEW fr \in List, fr.clauses # <<>>, NEW n \in Nat
    PROVE  LET r == EndClause(fr, n) IN
           /\ r \in List /\ r.exprs = Append(fr.exprs, n) /\ r.want = <<>> /\ r.args = <<>>
<1>1. fr.clauses \in Seq(Seq(ClausePart)) /\ fr.exprs \in Seq(Nat)
  BY DEF List
<1>2. Tail(fr.clauses) \in Seq(Seq(ClausePart)) /\ Append(fr.exprs, n) \in Seq(Nat)
  BY <1>1, TailIs, AppendProperties
<1>. QED BY <1>2, FrameIs DEF EndClause

LEMMA WithTopIs ==
    ASSUME work \in Seq(List), work # <<>>, NEW fr \in List
    PROVE  /\ WithTop(fr) \in Seq(List) /\ WithTop(fr) # <<>> /\ Top \in List
           /\ Len(WithTop(fr)) = Len(work) /\ DOMAIN WithTop(fr) = 1..Len(work) /\ DOMAIN work = 1..Len(work)
           /\ WithTop(fr)[1] = fr /\ Len(work) \in Nat \ {0}
           /\ \A w \in 2..Len(work) : WithTop(fr)[w] = work[w]
<1>1. /\ Tail(work) \in Seq(List) /\ Len(Tail(work)) = Len(work) - 1 /\ Len(work) \in Nat \ {0}
      /\ DOMAIN work = 1..Len(work) /\ work[1] \in List
      /\ \A w \in 1..Len(work)-1 : Tail(work)[w] = work[w + 1]
  BY TailIs
<1>2. /\ WithTop(fr) \in Seq(List) /\ Len(WithTop(fr)) = Len(work) /\ WithTop(fr) # <<>>
      /\ DOMAIN WithTop(fr) = 1..Len(work) /\ WithTop(fr)[1] = fr
      /\ \A w \in 2..Len(work) : WithTop(fr)[w] = Tail(work)[w - 1]
  <2>1. Len(Tail(work)) + 1 = Len(work)
    BY <1>1
  <2>. QED BY <1>1, <2>1, ConsIs DEF WithTop
<1>3. \A w \in 2..Len(work) : WithTop(fr)[w] = work[w]
  <2>1. \A w \in 2..Len(work) : w - 1 \in 1..Len(work)-1 /\ (w - 1) + 1 = w
    BY <1>1
  <2>. QED BY <1>1, <1>2, <2>1
<1>. QED BY <1>1, <1>2, <1>3 DEF Top

(* The arguments and the wanted pattern grow together.                     *)
LEMMA TakesNothing == \A es : Takes(es, <<>>, <<>>)
<1>1. TypedWants(<<>>) = {} /\ Len(<<>>) = 0 /\ DOMAIN <<>> = {}
  BY DEF TypedWants
<1>2. [i \in 1..0 |-> 1] \in Enum(0, {})
  BY DEF Enum
<1>3. ASSUME NEW es PROVE Takes(es, <<>>, <<>>)
  <2>1. \E pos \in Enum(Len(<<>>), TypedWants(<<>>)) :
           \A i \in 1..Len(<<>>) : es[(<<>>)[i]].type = (<<>>)[pos[i]].name
    <3>1. \A i \in 1..Len(<<>>) : FALSE
      BY <1>1
    <3>2. [i \in 1..0 |-> 1] \in Enum(Len(<<>>), TypedWants(<<>>))
      BY <1>1, <1>2
    <3>. QED BY <3>1, <3>2, Zenon
  <2>2. \A i \in DOMAIN <<>> : (<<>>)[i] \in DOMAIN es
    BY <1>1
  <2>. QED BY <2>1, <2>2, Zenon DEF Takes
<1>. QED BY <1>3

LEMMA TakesStable ==
    ASSUME NEW es \in Seq(Node), NEW e \in Node, NEW args \in Seq(Nat), NEW want \in Seq(Wanted),
           Takes(es, args, want)
    PROVE  Takes(Append(es, e), args, want)
<1>1. /\ DOMAIN es = 1..Len(es) /\ Len(es) \in Nat /\ DOMAIN Append(es, e) = 1..Len(es)+1
      /\ \A i \in 1..Len(es) : Append(es, e)[i] = es[i]
      /\ DOMAIN args = 1..Len(args)
  BY AppendIs, LenProperties
<1>2. /\ \A i \in 1..Len(args) : args[i] \in 1..Len(es)
      /\ \E pos \in Enum(Len(args), TypedWants(want)) : \A i \in 1..Len(args) : es[args[i]].type = want[pos[i]].name
  BY <1>1 DEF Takes
<1>. QED BY <1>1, <1>2 DEF Takes

LEMMA TakesWord ==
    ASSUME NEW es, NEW args \in Seq(Nat), NEW want \in Seq(Wanted), Takes(es, args, want), NEW word \in Names
    PROVE  Takes(es, args, Append(want, [typed |-> FALSE, name |-> word]))
<1> DEFINE w == [typed |-> FALSE, name |-> word]
           r == Append(want, w)
<1>1. w \in Wanted /\ w.typed = FALSE
  BY DEF Wanted
<1> HIDE DEF w
<1>2. /\ Len(r) = Len(want) + 1 /\ Len(want) \in Nat
      /\ \A i \in 1..Len(want) : r[i] = want[i]
      /\ r[Len(want) + 1] = w
  BY <1>1, AppendIs
<1> HIDE DEF r
<1>3. TypedWants(r) = TypedWants(want)
  BY <1>1, <1>2 DEF TypedWants
<1>4. PICK pos \in Enum(Len(args), TypedWants(want)) : \A i \in 1..Len(args) : es[args[i]].type = want[pos[i]].name
  BY DEF Takes
<1>5. \A i \in 1..Len(args) : pos[i] \in 1..Len(want)
  BY DEF Enum, TypedWants
<1>6. \A i \in 1..Len(args) : es[args[i]].type = r[pos[i]].name
  BY <1>2, <1>4, <1>5
<1>7. Takes(es, args, r)
  BY <1>3, <1>6 DEF Takes
<1>. QED BY <1>7 DEF r, w

LEMMA TakesArg ==
    ASSUME NEW es \in Seq(Node), NEW args \in Seq(Nat), NEW want \in Seq(Wanted), Takes(es, args, want),
           NEW n \in 1..Len(es)
    PROVE  Takes(es, Append(args, n), Append(want, [typed |-> TRUE, name |-> es[n].type]))
<1> DEFINE w == [typed |-> TRUE, name |-> es[n].type]
           r == Append(want, w)
           a == Append(args, n)
<1>0. DOMAIN es = 1..Len(es) /\ Len(es) \in Nat /\ es[n] \in Node /\ n \in Nat
  BY LenProperties, ElementOfSeq
<1>1. w \in Wanted /\ w.typed = TRUE /\ w.name = es[n].type
  BY <1>0 DEF Wanted, Node
<1> HIDE DEF w
<1>2. /\ Len(r) = Len(want) + 1 /\ Len(want) \in Nat
      /\ \A i \in 1..Len(want) : r[i] = want[i]
      /\ r[Len(want) + 1] = w
  BY <1>1, AppendIs
<1>3. /\ Len(a) = Len(args) + 1 /\ Len(args) \in Nat
      /\ \A i \in 1..Len(args) : a[i] = args[i]
      /\ a[Len(args) + 1] = n
      /\ DOMAIN a = 1..Len(args)+1 /\ DOMAIN args = 1..Len(args)
  BY <1>0, AppendIs
<1> HIDE DEF r, a
<1>4. TypedWants(r) = TypedWants(want) \cup {Len(want) + 1}
  BY <1>1, <1>2 DEF TypedWants
<1>5. PICK pos \in Enum(Len(args), TypedWants(want)) : \A i \in 1..Len(args) : es[args[i]].type = want[pos[i]].name
  BY DEF Takes
<1>6. \A i \in 1..Len(args) : pos[i] \in 1..Len(want)
  BY DEF Enum, TypedWants
<1> DEFINE q == [i \in 1..Len(args)+1 |-> IF i = Len(args) + 1 THEN Len(want) + 1 ELSE pos[i]]
<1>7. q \in Enum(Len(args) + 1, TypedWants(r))
  <2>1. TypedWants(want) \subseteq Nat /\ \A y \in TypedWants(want) : y < Len(want) + 1
    BY <1>2 DEF TypedWants
  <2>2. Len(want) + 1 \in Nat
    BY <1>2
  <2>3. q \in Enum(Len(args) + 1, TypedWants(want) \cup {Len(want) + 1})
    BY <1>3, <2>1, <2>2, EnumGrows, Zenon
  <2>. HIDE DEF q
  <2>. QED BY <1>4, <2>3
<1>8. \A i \in 1..Len(args)+1 : es[a[i]].type = r[q[i]].name
  <2>. TAKE i \in 1..Len(args)+1
  <2>1. CASE i = Len(args) + 1
    BY <1>1, <1>2, <1>3, <2>1
  <2>2. CASE i # Len(args) + 1
    <3>1. i \in 1..Len(args)
      BY <1>3, <2>2
    <3>. QED BY <1>2, <1>3, <1>5, <1>6, <2>2, <3>1
  <2>. QED BY <2>1, <2>2
<1>9. \A i \in DOMAIN a : a[i] \in DOMAIN es
  <2>1. \A i \in DOMAIN args : args[i] \in DOMAIN es
    BY DEF Takes
  <2>2. \A i \in 1..Len(args)+1 : i \in 1..Len(args) \/ i = Len(args) + 1
    BY <1>3
  <2>. QED BY <1>0, <1>3, <2>1, <2>2
<1> HIDE DEF q
<1>10. Takes(es, a, r)
  BY <1>3, <1>7, <1>8, <1>9 DEF Takes
<1>. QED BY <1>10 DEF r, w, a

-----------------------------------------------------------------------------
(* What is looked up.                                                      *)
LEMMA ResolveLocalIs ==
    ASSUME CheckTypeOK, NEW word
    PROVE  ResolveLocal(word) # 0 =>
              /\ ResolveLocal(word) \in DOMAIN locals /\ locals[ResolveLocal(word)].name = word
              /\ \A j \in 1..ResolveLocal(word)-1 : locals[j].name # word
<1> DEFINE S == {i \in DOMAIN locals : locals[i].name = word}
           r == ResolveLocal(word)
<1>1. DOMAIN locals = 1..Len(locals) /\ Len(locals) \in Nat
  BY LenProperties DEF CheckTypeOK
<1>2. S \subseteq Nat \ {0} /\ r = FirstIndex(S) /\ S \subseteq 1..Len(locals)
  BY <1>1 DEF ResolveLocal
<1>3. r # 0 => r \in S /\ \A j \in S : r <= j
  <2>. HIDE DEF S, r
  <2>. QED BY <1>2, FirstIndexIsLeast
<1>4. ASSUME r # 0, NEW j \in 1..r-1 PROVE j \notin S /\ j \in DOMAIN locals
  <2>. HIDE DEF S, r
  <2>1. r \in 1..Len(locals) /\ \A i \in S : r <= i
    BY <1>2, <1>3, <1>4
  <2>2. j \in Nat /\ j < r /\ j \in 1..Len(locals)
    BY <1>1, <2>1
  <2>3. ~(r <= j)
    BY <1>1, <2>1, <2>2
  <2>. QED BY <1>1, <2>1, <2>2, <2>3
<1>. QED BY <1>3, <1>4

LEMMA ResolveFuncIs ==
    ASSUME CheckTypeOK, sigs = Len(funcs), NEW want \in Seq(Wanted)
    PROVE  /\ ResolveFunc(want) \in Nat
           /\ ResolveFunc(want) # 0 => /\ ResolveFunc(want) \in DOMAIN funcs
                                      /\ Fits(want, funcs[ResolveFunc(want)].pattern)
<1> DEFINE S == {f \in DOMAIN funcs : Matches(want, f)}
           r == ResolveFunc(want)
<1>1. DOMAIN funcs = 1..Len(funcs) /\ Len(funcs) \in Nat /\ DOMAIN want = 1..Len(want)
  BY LenProperties DEF CheckTypeOK
<1>2. S \subseteq Nat \ {0} /\ r = FirstIndex(S)
  BY <1>1 DEF ResolveFunc
<1>3. r # 0 => r \in S
  <2>. HIDE DEF S, r
  <2>. QED BY <1>2, FirstIndexIsLeast
<1>4. r # 0 => r \in DOMAIN funcs /\ Matches(want, r)
  <2>. HIDE DEF r
  <2>. QED BY <1>3
<1>5. r \in Nat
  <2>. HIDE DEF r
  <2>. QED BY <1>1, <1>4
<1>6. r # 0 => Fits(want, funcs[r].pattern)
  <2>. HIDE DEF r
  <2>. QED BY <1>1, <1>4 DEF Matches, Fits
<1>. QED BY <1>4, <1>5, <1>6

LEMMA ErrIs ==
    ASSUME CheckTypeOK, NEW n \in {0, 1}, Err(n)
    PROVE  errs' = IF n = 0 THEN errs ELSE Append(errs, bodies + 1)
<1>1. errs \in Seq(Nat) /\ bodies + 1 \in Nat
  BY LenProperties DEF CheckTypeOK
<1>2. CASE n = 0
  <2>1. [i \in 1..0 |-> bodies + 1] = <<>>
    OBVIOUS
  <2>. QED BY <1>1, <1>2, <2>1, ConcatEmptySeq DEF Err
<1>3. CASE n = 1
  <2>1. [i \in 1..1 |-> bodies + 1] = <<bodies + 1>>
    BY <1>1
  <2>2. Append(errs, bodies + 1) = errs \o <<bodies + 1>>
    BY <1>1, AppendIsConcat
  <2>. QED BY <1>3, <2>1, <2>2 DEF Err
<1>. QED BY <1>2, <1>3

-----------------------------------------------------------------------------
(* What the steps of a clause have in common.                              *)
LEMMA ListStable ==
    ASSUME NEW es \in Seq(Node), NEW e \in Node, NEW fr \in List, ListOK(es, fr)
    PROVE  ListOK(Append(es, e), fr)
<1>1. /\ DOMAIN es = 1..Len(es) /\ Len(es) \in Nat /\ DOMAIN Append(es, e) = 1..Len(es)+1
  BY AppendIs
<1>2. Takes(Append(es, e), fr.args, fr.want)
  BY TakesStable DEF ListOK, List
<1>. QED BY <1>1, <1>2 DEF ListOK

LEMMA NodesStay ==
    ASSUME CheckInv, pc = "clauses", clauseUnchanged, pc' \in {"clauses", "stmts", "done"},
           errs' = <<>> => errs = <<>>, nodes' = nodes
    PROVE  NodesKnown'
<1>1. \A n \in DOMAIN nodes : NodeOK(nodes[n])'
  BY DEF CheckInv, NodesKnown, NodeOK, clauseUnchanged, signatureVars
<1>. QED BY <1>1 DEF NodesKnown

LEMMA NodeAdded ==
    ASSUME CheckInv, pc = "clauses", clauseUnchanged, pc' \in {"clauses", "stmts", "done"},
           errs' = <<>> => errs = <<>>, NEW e \in Node, nodes' = Append(nodes, e), NodeOK(e)'
    PROVE  /\ nodes' \in Seq(Node) /\ NodesKnown' /\ New \in 1..Len(nodes') /\ nodes'[New] = e /\ New \in Nat
           /\ \A fr \in List : ListOK(nodes, fr) => ListOK(nodes', fr)
<1>1. /\ nodes \in Seq(Node) /\ nodes' \in Seq(Node) /\ Len(nodes') = Len(nodes) + 1 /\ Len(nodes) \in Nat
      /\ DOMAIN nodes = 1..Len(nodes) /\ DOMAIN nodes' = 1..Len(nodes)+1
      /\ \A n \in 1..Len(nodes) : nodes'[n] = nodes[n] /\ nodes[n] \in Node
      /\ nodes'[Len(nodes) + 1] = e
  BY AppendIs, ElementOfSeq DEF CheckInv, CheckTypeOK
<1>2. ASSUME NEW d \in Node, NodeOK(d) PROVE NodeOK(d)'
  <2>1. d.want \in Seq(Wanted) /\ d.kids \in Seq(Nat)
    BY DEF Node
  <2>2. d.kind \in {"func", "assign"} => Takes(nodes, d.kids, d.want) /\ Takes(nodes', d.kids, d.want)
    BY <1>1, <1>2, <2>1, TakesStable DEF NodeOK
  <2>3. EndsAlike(nodes, d) => EndsAlike(nodes', d)
    <3>1. d.kids # <<>> => 1 \in DOMAIN d.kids /\ Len(d.kids) \in DOMAIN d.kids
      <4>1. d.kids # <<>> => Len(d.kids) \in Nat \ {0} /\ DOMAIN d.kids = 1..Len(d.kids)
        BY <2>1, EmptySeq, LenProperties
      <4>. QED BY <4>1
    <3>2. d.kind = "assign" /\ d.kids # <<>> =>
             /\ nodes'[d.kids[1]] = nodes[d.kids[1]]
             /\ nodes'[d.kids[Len(d.kids)]] = nodes[d.kids[Len(d.kids)]]
      BY <1>1, <2>2, <3>1 DEF Takes
    <3>. QED BY <3>2 DEF EndsAlike
  <2>4. /\ funcs' = funcs /\ bodies' = bodies /\ slots' = slots /\ locals' = locals
        /\ pc \notin {"sigs", "bodies"} /\ pc' \notin {"sigs", "bodies"}
    BY DEF clauseUnchanged, signatureVars
  <2>. QED BY <1>2, <2>2, <2>3, <2>4 DEF NodeOK
<1>3. NodesKnown'
  <2>1. \A n \in 1..Len(nodes)+1 : n \in 1..Len(nodes) \/ n = Len(nodes) + 1
    BY <1>1
  <2>2. ASSUME NEW n \in 1..Len(nodes) PROVE NodeOK(nodes[n])'
    <3>1. PICK d \in Node : d = nodes[n] /\ d = nodes'[n]
      BY <1>1
    <3>2. NodeOK(d)
      BY <1>1, <3>1 DEF CheckInv, NodesKnown
    <3>3. NodeOK(d)'
      BY <1>2, <3>2
    <3>4. nodes'[n] = d
      BY <3>1
    <3>. QED BY <3>3, <3>4, Zenon DEF NodeOK
  <2>3. ASSUME NEW n, n = Len(nodes) + 1 PROVE NodeOK(nodes[n])'
    BY <1>1, <2>3 DEF NodeOK
  <2>4. \A n \in DOMAIN nodes' : NodeOK(nodes[n])'
    BY <1>1, <2>1, <2>2, <2>3
  <2>. QED BY <2>4 DEF NodesKnown
<1>4. \A fr \in List : ListOK(nodes, fr) => ListOK(nodes', fr)
  BY <1>1, ListStable
<1>. QED BY <1>1, <1>3, <1>4 DEF New

LEMMA TopChanges ==
    ASSUME CheckInv, pc = "clauses", NEW fr \in List, work' = WithTop(fr), ListOK(nodes', fr),
           \A f \in List : ListOK(nodes, f) => ListOK(nodes', f)
    PROVE  work' \in Seq(List) /\ work' # <<>> /\ WorkTakes'
<1>1. work \in Seq(List) /\ work # <<>> /\ DOMAIN work = 1..Len(work)
  BY LenProperties DEF CheckInv, CheckTypeOK, Phases
<1>2. /\ work' \in Seq(List) /\ work' # <<>> /\ DOMAIN work' = 1..Len(work) /\ work'[1] = fr
      /\ Len(work) \in Nat /\ \A w \in 2..Len(work) : work'[w] = work[w]
  BY <1>1, WithTopIs
<1>3. ASSUME NEW w \in 1..Len(work) PROVE ListOK(nodes', work'[w])
  <2>1. CASE w = 1
    BY <1>2, <2>1
  <2>2. CASE w # 1
    <3>1. w \in 2..Len(work)
      BY <1>2, <2>2
    <3>2. work'[w] = work[w] /\ work[w] \in List /\ ListOK(nodes, work[w])
      BY <1>1, <1>2, <3>1, ElementOfSeq DEF CheckInv, WorkTakes
    <3>. QED BY <3>2
  <2>. QED BY <2>1, <2>2
<1>. QED BY <1>2, <1>3 DEF WorkTakes

LEMMA TopIs ==
    ASSUME CheckInv, pc = "clauses"
    PROVE  /\ Top \in List /\ ListOK(nodes, Top) /\ Top.args \in Seq(Nat) /\ Top.want \in Seq(Wanted)
           /\ Top.exprs \in Seq(Nat) /\ Top.clauses \in Seq(Seq(ClausePart)) /\ Top.parts \in Seq(ClausePart)
           /\ work \in Seq(List) /\ work # <<>> /\ sigs = Len(funcs) /\ nodes \in Seq(Node) /\ bodies + 1 \in Nat
<1>1. work \in Seq(List) /\ work # <<>>
  BY DEF CheckInv, CheckTypeOK, Phases
<1>2. work[1] \in List /\ 1 \in DOMAIN work
  BY <1>1, TailIs
<1>3. ListOK(nodes, work[1])
  BY <1>2 DEF CheckInv, WorkTakes
<1>4. sigs = Len(funcs) /\ nodes \in Seq(Node) /\ bodies + 1 \in Nat
  BY LenProperties DEF CheckInv, CheckTypeOK, Phases, InBody
<1>. QED BY <1>1, <1>2, <1>3, <1>4 DEF Top, List

(* The end of every step of a clause.                                      *)
ClauseEffect ==
    /\ pc = "clauses" /\ clauseUnchanged
    /\ work' \in Seq(List) /\ nodes' \in Seq(Node)
    /\ \/ pc' = "clauses" /\ work' # <<>> /\ UNCHANGED <<todo, roots, trap>>
       \/ pc' = "stmts" /\ work' = <<>> /\ UNCHANGED trap /\ todo' \in Seq(Statements) /\ roots' \in Seq(Nat)
       \/ pc' = "done" /\ trap' = "null" /\ UNCHANGED <<todo, roots>>
    /\ errs' = errs \/ errs' = Append(errs, bodies + 1)

LEMMA ClauseKeepsInv ==
    ASSUME CheckInv, ClauseEffect, WorkTakes', NodesKnown'
    PROVE  CheckInv'
<1>1. errs \in Seq(Nat) /\ bodies + 1 \in Nat /\ bodies \in Nat
  BY LenProperties DEF CheckInv, CheckTypeOK
<1>2. /\ errs' \in Seq(Nat)
      /\ \A i \in DOMAIN errs' : errs'[i] = bodies + 1
      /\ errs' # <<>> => errs'[1] = bodies + 1
  <2>1. \A i \in DOMAIN errs : errs[i] = bodies + 1
    BY DEF CheckInv, OneBody, InBody, ClauseEffect
  <2>2. errs # <<>> => 1 \in DOMAIN errs
    BY <1>1, TailIs
  <2>3. CASE errs' = errs
    BY <1>1, <2>1, <2>2, <2>3
  <2>4. CASE errs' = Append(errs, bodies + 1)
    <3>1. /\ errs' \in Seq(Nat) /\ DOMAIN errs' = 1..Len(errs)+1 /\ DOMAIN errs = 1..Len(errs) /\ Len(errs) \in Nat
          /\ \A i \in 1..Len(errs) : errs'[i] = errs[i]
          /\ errs'[Len(errs) + 1] = bodies + 1
      BY <1>1, <2>4, AppendIs
    <3>2. \A i \in 1..Len(errs)+1 : i \in 1..Len(errs) \/ i = Len(errs) + 1
      BY <3>1
    <3>3. \A i \in DOMAIN errs' : errs'[i] = bodies + 1
      BY <2>1, <3>1, <3>2
    <3>4. 1 \in DOMAIN errs'
      BY <3>1
    <3>. QED BY <3>1, <3>3, <3>4
  <2>. QED BY <2>3, <2>4 DEF ClauseEffect
<1>3. CheckTypeOK'
  BY <1>2 DEF CheckInv, CheckTypeOK, ClauseEffect, clauseUnchanged, signatureVars
<1>4. Phases'
  BY DEF CheckInv, Phases, InBody, ClauseEffect, clauseUnchanged, signatureVars
<1>5. OneBody'
  <2>1. \A i \in DOMAIN errs' : errs'[i] = errs'[1] /\ bodies' <= errs'[i]
    <3>1. ASSUME NEW i \in DOMAIN errs' PROVE errs'[i] = bodies + 1 /\ errs'[1] = bodies + 1
      <4>1. errs' # <<>>
        <5>1. DOMAIN <<>> = {}
          OBVIOUS
        <5>. QED BY <5>1
      <4>. QED BY <1>2, <4>1
    <3>. QED BY <1>1, <3>1 DEF ClauseEffect, clauseUnchanged
  <2>. QED BY <1>2, <2>1 DEF OneBody, ClauseEffect, clauseUnchanged
<1>6. Assignments' /\ SignaturesKnown' /\ SymbolsDistinct'
  BY DEF CheckInv, Assignments, SignaturesKnown, SymbolsDistinct, ClauseEffect, clauseUnchanged, signatureVars
<1>7. LocalsDeclared'
  BY DEF CheckInv, LocalsDeclared, InBody, ClauseEffect, clauseUnchanged, signatureVars
<1>. QED BY <1>3, <1>4, <1>5, <1>6, <1>7 DEF CheckInv

-----------------------------------------------------------------------------
(* Lists after a part and after a clause, and new expressions.             *)
LEMMA PartTaken ==
    ASSUME NEW es, NEW fr \in List, ListOK(es, fr), fr.parts # <<>>
    PROVE  /\ NextPart(fr) \in List /\ ListOK(es, NextPart(fr)) /\ fr.parts[1] \in ClausePart
           /\ NextPart(fr).want = fr.want
BY NextPartIs DEF ListOK

LEMMA ArgAdded ==
    ASSUME NEW es \in Seq(Node), NEW fr \in List, ListOK(es, fr), NEW n \in 1..Len(es)
    PROVE  AddArg(fr, n, es[n].type) \in List /\ ListOK(es, AddArg(fr, n, es[n].type))
<1>1. es[n] \in Node /\ n \in Nat
  BY LenProperties, ElementOfSeq
<1>2. es[n].type \in Names /\ fr.args \in Seq(Nat) /\ fr.want \in Seq(Wanted)
  BY <1>1 DEF Node, List
<1>3. Takes(es, Append(fr.args, n), Append(fr.want, [typed |-> TRUE, name |-> es[n].type]))
  BY <1>2, TakesArg DEF ListOK
<1>. QED BY <1>1, <1>2, <1>3, AddArgIs DEF ListOK

LEMMA WordAdded ==
    ASSUME NEW es, NEW fr \in List, ListOK(es, fr), NEW word \in Names
    PROVE  AddWord(fr, word) \in List /\ ListOK(es, AddWord(fr, word))
<1>1. fr.args \in Seq(Nat) /\ fr.want \in Seq(Wanted)
  BY DEF List
<1>2. Takes(es, fr.args, Append(fr.want, [typed |-> FALSE, name |-> word]))
  BY <1>1, TakesWord DEF ListOK
<1>. QED BY <1>2, AddWordIs DEF ListOK

LEMMA ClauseEnded ==
    ASSUME NEW es \in Seq(Node), NEW fr \in List, ListOK(es, fr), fr.clauses # <<>>, NEW n \in 1..Len(es)
    PROVE  EndClause(fr, n) \in List /\ ListOK(es, EndClause(fr, n))
<1> DEFINE r == EndClause(fr, n)
<1>1. n \in Nat /\ fr.exprs \in Seq(Nat) /\ DOMAIN es = 1..Len(es)
  BY LenProperties DEF List
<1>2. r \in List /\ r.exprs = Append(fr.exprs, n) /\ r.want = <<>> /\ r.args = <<>>
  BY <1>1, EndClauseIs
<1> HIDE DEF r
<1>3. /\ DOMAIN r.exprs = 1..Len(fr.exprs)+1 /\ DOMAIN fr.exprs = 1..Len(fr.exprs) /\ Len(fr.exprs) \in Nat
      /\ r.exprs # <<>> /\ \A i \in 1..Len(fr.exprs) : r.exprs[i] = fr.exprs[i]
      /\ r.exprs[Len(fr.exprs) + 1] = n
  <2>. DEFINE s == fr.exprs
              a == Append(s, n)
  <2>1. /\ Len(a) = Len(s) + 1 /\ Len(s) \in Nat /\ DOMAIN a = 1..Len(s)+1 /\ DOMAIN s = 1..Len(s) /\ a # <<>>
        /\ \A i \in 1..Len(s) : a[i] = s[i]
        /\ a[Len(s) + 1] = n
    <3>. HIDE DEF s
    <3>1. s \in Seq(Nat)
      BY <1>1 DEF s
    <3>. QED BY <1>1, <3>1, AppendIs
  <2>2. r.exprs = a
    BY <1>2
  <2>. HIDE DEF a
  <2>. QED BY <2>1, <2>2
<1>4. \A i \in DOMAIN r.exprs : r.exprs[i] \in DOMAIN es
  <2>1. \A i \in 1..Len(fr.exprs)+1 : i \in 1..Len(fr.exprs) \/ i = Len(fr.exprs) + 1
    BY <1>3
  <2>. QED BY <1>1, <1>3, <2>1 DEF ListOK
<1>5. Takes(es, r.args, r.want)
  BY <1>2, TakesNothing
<1>6. r \in List /\ ListOK(es, r)
  BY <1>2, <1>3, <1>4, <1>5 DEF ListOK
<1>. QED BY <1>6 DEF r

LEMMA ListOpened ==
    ASSUME NEW es, NEW list \in Lists
    PROVE  Frame(list, <<>>) \in List /\ ListOK(es, Frame(list, <<>>))
<1> DEFINE none == <<>>
           fr   == Frame(list, none)
<1>1. list \in Seq(Seq(ClausePart)) /\ list # <<>>
  BY CheckAssumption
<1>2. none \in Seq(Nat) /\ DOMAIN none = {} /\ Takes(es, none, none)
  BY EmptySeq, TakesNothing
<1>3. fr \in List /\ fr.clauses = list /\ fr.exprs = none /\ fr.want = none /\ fr.args = none
  BY <1>1, <1>2, FrameIs
<1> HIDE DEF none, fr
<1>4. fr \in List /\ ListOK(es, fr)
  BY <1>1, <1>2, <1>3 DEF ListOK
<1>. QED BY <1>4 DEF fr, none

LEMMA ExprIs ==
    ASSUME bodies + 1 \in Nat, NEW kind \in {"local", "literal", "func", "assign", "list"}, NEW ty \in Names
    PROVE  /\ Expr(kind, ty) \in Node /\ Expr(kind, ty).kind = kind /\ Expr(kind, ty).type = ty
           /\ Expr(kind, ty).in = bodies + 1 /\ Expr(kind, ty).kids = <<>> /\ Expr(kind, ty).want = <<>>
           /\ Expr(kind, ty).callee = 0
<1>1. <<>> \in Seq(Wanted) /\ <<>> \in Seq(Nat)
  BY EmptySeq
<1>2. NoLocal \in Local
  BY NamesAreNames DEF NoLocal, Local
<1>. QED BY <1>1, <1>2 DEF Expr, Node

LEMMA TypesAreNames == Types \subseteq Names /\ "" \notin Types /\ Null \notin Types /\ "" \in Names /\ Null # ""
<1>1. "" \notin Types /\ Null \notin Types /\ Null # ""
  BY DEF Types, Null
<1>. QED BY <1>1, NamesAreNames

-----------------------------------------------------------------------------
(* The steps of a clause, one by one.                                      *)
LEMMA LocalStep ==
    ASSUME CheckInv, CheckLocal
    PROVE  CheckInv'
<1> DEFINE i == ResolveLocal(Part.word)
<1>1. /\ pc = "clauses" /\ Top.parts # <<>> /\ i # 0 /\ clauseUnchanged
      /\ nodes' = Append(nodes, LocalExpr(locals[i]))
      /\ work'  = WithTop(AddArg(NextPart(Top), New, locals[i].type))
      /\ UNCHANGED <<todo, roots, errs, pc, trap>>
  BY DEF CheckLocal, AtPart
<1>2. i \in DOMAIN locals /\ \A j \in 1..i-1 : locals[j].name # locals[i].name
  BY <1>1, ResolveLocalIs DEF CheckInv
<1> HIDE DEF i
<1>3. /\ DOMAIN locals = 1..Len(locals) /\ Len(locals) \in Nat /\ locals \in Seq(Local) /\ bodies \in Nat
      /\ bodies + 1 \in Nat
  BY LenProperties DEF CheckInv, CheckTypeOK
<1>4. /\ locals[i] \in Local /\ locals[i].off = i - 1 /\ locals[i].type \in Types /\ locals[i].type \in Names
  <2>1. Placed(locals) /\ locals[i].type \in Types
    BY <1>1, <1>2 DEF CheckInv, LocalsDeclared, InBody
  <2>. QED BY <1>2, <1>3, <2>1, ElementOfSeq, TypesAreNames DEF Placed
<1>5. PICK e : e = LocalExpr(locals[i])
  OBVIOUS
<1>6. /\ e \in Node /\ e.kind = "local" /\ e.type = locals[i].type /\ e.in = bodies + 1 /\ e.local = locals[i]
  <2>1. LocalExpr(locals[i]) = [Expr("local", locals[i].type) EXCEPT !.local = locals[i]]
    BY DEF LocalExpr
  <2>. QED BY <1>3, <1>4, <1>5, <2>1, ExprIs DEF Node
<1>7. NodeOK(e)'
  <2>1. /\ locals' = locals /\ bodies' = bodies /\ pc' = "clauses"
    BY <1>1 DEF clauseUnchanged
  <2>2. IsLocalOf(e, locals)
    BY <1>2, <1>3, <1>4, <1>6 DEF IsLocalOf
  <2>3. e.type \in Types /\ e.type # ""
    BY <1>4, <1>6, TypesAreNames
  <2>4. ~IsCall(e) /\ EndsAlike(nodes', e) /\ e.kind \notin {"func", "assign"}
    BY <1>6 DEF IsCall, EndsAlike
  <2>5. ~(e.in <= bodies) /\ e.in \in 1..bodies+1
    BY <1>3, <1>6
  <2>. QED BY <2>1, <2>2, <2>3, <2>4, <2>5 DEF NodeOK
<1>8. /\ nodes' \in Seq(Node) /\ NodesKnown' /\ New \in 1..Len(nodes') /\ nodes'[New] = e
      /\ \A fr \in List : ListOK(nodes, fr) => ListOK(nodes', fr)
  BY <1>1, <1>5, <1>6, <1>7, NodeAdded
<1>9. /\ AddArg(NextPart(Top), New, locals[i].type) \in List
      /\ ListOK(nodes', AddArg(NextPart(Top), New, locals[i].type))
  <2>1. NextPart(Top) \in List /\ ListOK(nodes', NextPart(Top))
    BY <1>1, <1>8, TopIs, PartTaken
  <2>2. locals[i].type = nodes'[New].type
    BY <1>6, <1>8
  <2>. QED BY <1>8, <2>1, <2>2, ArgAdded
<1>10. work' \in Seq(List) /\ work' # <<>> /\ WorkTakes'
  BY <1>1, <1>8, <1>9, TopChanges
<1>11. ClauseEffect
  BY <1>1, <1>8, <1>10 DEF ClauseEffect
<1>. QED BY <1>8, <1>10, <1>11, ClauseKeepsInv

LEMMA WordStep ==
    ASSUME CheckInv, CheckWord
    PROVE  CheckInv'
<1>1. /\ pc = "clauses" /\ Top.parts # <<>> /\ Part = Top.parts[1] /\ Part.kind = "word" /\ clauseUnchanged
      /\ work' = WithTop(AddWord(NextPart(Top), Part.word))
      /\ UNCHANGED <<todo, nodes, roots, errs, pc, trap>>
  BY DEF CheckWord, AtPart, Part
<1>2. NodesKnown'
  BY <1>1, NodesStay
<1>3. NextPart(Top) \in List /\ ListOK(nodes, NextPart(Top)) /\ Part \in ClausePart
  BY <1>1, TopIs, PartTaken
<1>4. Part.word \in Names
  BY <1>1, <1>3 DEF ClausePart
<1>5. /\ AddWord(NextPart(Top), Part.word) \in List /\ ListOK(nodes, AddWord(NextPart(Top), Part.word))
  BY <1>3, <1>4, WordAdded
<1>6. work' \in Seq(List) /\ work' # <<>> /\ WorkTakes'
  BY <1>1, <1>5, TopChanges
<1>7. ClauseEffect
  BY <1>1, <1>6, TopIs DEF ClauseEffect
<1>. QED BY <1>2, <1>6, <1>7, ClauseKeepsInv

LEMMA LiteralStep ==
    ASSUME CheckInv, CheckLiteral
    PROVE  CheckInv'
<1>1. /\ pc = "clauses" /\ Top.parts # <<>> /\ Part = Top.parts[1] /\ Part.kind = "literal" /\ clauseUnchanged
      /\ nodes' = Append(nodes, Expr("literal", Part.type))
      /\ work'  = WithTop(AddArg(NextPart(Top), New, Part.type))
      /\ UNCHANGED <<todo, roots, errs, pc, trap>>
  BY DEF CheckLiteral, AtPart, Part
<1>2. NextPart(Top) \in List /\ ListOK(nodes, NextPart(Top)) /\ Part \in ClausePart
  BY <1>1, TopIs, PartTaken
<1>3. Part.type \in Types /\ Part.type \in Names /\ Part.type # ""
  <2>1. Part.type \in Types
    BY <1>1, <1>2 DEF ClausePart
  <2>. QED BY <2>1, TypesAreNames
<1>4. PICK e : e = Expr("literal", Part.type)
  OBVIOUS
<1>5. bodies \in Nat /\ bodies + 1 \in Nat
  BY LenProperties DEF CheckInv, CheckTypeOK
<1>6. e \in Node /\ e.kind = "literal" /\ e.type = Part.type /\ e.in = bodies + 1
  BY <1>3, <1>4, <1>5, ExprIs
<1>7. NodeOK(e)'
  <2>1. bodies' = bodies /\ pc' = "clauses" /\ e.type \in Types /\ e.type # ""
    BY <1>1, <1>3, <1>6 DEF clauseUnchanged
  <2>3. e.in \in 1..bodies+1
    BY <1>5, <1>6
  <2>2. ~IsCall(e) /\ EndsAlike(nodes', e) /\ e.kind \notin {"func", "assign", "local"}
    BY <1>6 DEF IsCall, EndsAlike
  <2>. QED BY <2>1, <2>2, <2>3 DEF NodeOK
<1>8. /\ nodes' \in Seq(Node) /\ NodesKnown' /\ New \in 1..Len(nodes') /\ nodes'[New] = e
      /\ \A fr \in List : ListOK(nodes, fr) => ListOK(nodes', fr)
  BY <1>1, <1>4, <1>6, <1>7, NodeAdded
<1>9. AddArg(NextPart(Top), New, Part.type) \in List /\ ListOK(nodes', AddArg(NextPart(Top), New, Part.type))
  <2>1. NextPart(Top) \in List /\ ListOK(nodes', NextPart(Top))
    BY <1>2, <1>8
  <2>2. Part.type = nodes'[New].type
    BY <1>6, <1>8
  <2>. QED BY <1>8, <2>1, <2>2, ArgAdded
<1>10. work' \in Seq(List) /\ work' # <<>> /\ WorkTakes'
  BY <1>1, <1>8, <1>9, TopChanges
<1>11. ClauseEffect
  BY <1>1, <1>8, <1>10 DEF ClauseEffect
<1>. QED BY <1>8, <1>10, <1>11, ClauseKeepsInv

LEMMA PartListStep ==
    ASSUME CheckInv, CheckPartList
    PROVE  CheckInv'
<1>1. /\ pc = "clauses" /\ Top.parts # <<>> /\ Part = Top.parts[1] /\ Part.kind = "list" /\ clauseUnchanged
      /\ work' = <<Frame(Part.list, <<>>)>> \o WithTop(NextPart(Top))
      /\ UNCHANGED <<todo, nodes, roots, errs, pc, trap>>
  BY DEF CheckPartList, AtPart, Part
<1>2. NodesKnown'
  BY <1>1, NodesStay
<1>3. NextPart(Top) \in List /\ ListOK(nodes, NextPart(Top)) /\ Part \in ClausePart
  BY <1>1, TopIs, PartTaken
<1>4. Part.list \in Lists
  BY <1>1, <1>3 DEF ClausePart
<1> DEFINE opened == Frame(Part.list, <<>>)
           below  == WithTop(NextPart(Top))
<1>5. opened \in List /\ ListOK(nodes, opened)
  BY <1>4, ListOpened
<1>6. /\ below \in Seq(List) /\ Len(below) = Len(work) /\ Len(work) \in Nat /\ below[1] = NextPart(Top)
      /\ \A w \in 2..Len(work) : below[w] = work[w] /\ ListOK(nodes, work[w])
  <2>1. work \in Seq(List) /\ work # <<>> /\ DOMAIN work = 1..Len(work) /\ Len(work) \in Nat
    BY <1>1, TopIs, LenProperties
  <2>2. \A w \in 2..Len(work) : w \in DOMAIN work
    BY <2>1
  <2>3. \A w \in DOMAIN work : ListOK(nodes, work[w])
    BY <1>1 DEF CheckInv, WorkTakes
  <2>. QED BY <1>3, <2>1, <2>2, <2>3, WithTopIs
<1>7. work' = <<opened>> \o below
  BY <1>1
<1> HIDE DEF opened, below
<1>8. /\ work' \in Seq(List) /\ work' # <<>> /\ DOMAIN work' = 1..Len(work)+1 /\ work'[1] = opened
      /\ \A w \in 2..Len(work)+1 : work'[w] = below[w - 1]
  BY <1>5, <1>6, <1>7, ConsIs
<1>9. ASSUME NEW w \in 1..Len(work)+1 PROVE ListOK(nodes, work'[w])
  <2>1. CASE w = 1
    BY <1>5, <1>8, <2>1
  <2>2. CASE w = 2
    BY <1>3, <1>6, <1>8, <2>2
  <2>3. CASE w # 1 /\ w # 2
    <3>1. w \in 2..Len(work)+1 /\ w - 1 \in 2..Len(work)
      BY <1>6, <2>3
    <3>. QED BY <1>6, <1>8, <3>1
  <2>. QED BY <2>1, <2>2, <2>3
<1>10. WorkTakes'
  BY <1>1, <1>8, <1>9 DEF WorkTakes
<1>11. ClauseEffect
  BY <1>1, <1>8, TopIs DEF ClauseEffect
<1>. QED BY <1>2, <1>10, <1>11, ClauseKeepsInv

LEMMA ArgumentStep ==
    ASSUME CheckInv, TakeArgument
    PROVE  CheckInv'
<1>1. /\ pc = "clauses" /\ Top.clauses # <<>> /\ Top.args # <<>> /\ clauseUnchanged
      /\ work' = WithTop(EndClause(Top, Top.args[1]))
      /\ UNCHANGED <<todo, nodes, roots, errs, pc, trap>>
  BY DEF TakeArgument, AtClauseEnd, IsArgument
<1>2. NodesKnown'
  BY <1>1, NodesStay
<1>3. Top \in List /\ ListOK(nodes, Top) /\ nodes \in Seq(Node) /\ Top.args \in Seq(Nat)
  BY <1>1, TopIs
<1>4. Top.args[1] \in 1..Len(nodes)
  <2>1. 1 \in DOMAIN Top.args
    BY <1>1, <1>3, TailIs
  <2>2. DOMAIN nodes = 1..Len(nodes)
    BY <1>3, LenProperties
  <2>. QED BY <1>3, <2>1, <2>2 DEF ListOK, Takes
<1>5. EndClause(Top, Top.args[1]) \in List /\ ListOK(nodes, EndClause(Top, Top.args[1]))
  BY <1>1, <1>3, <1>4, ClauseEnded
<1>6. work' \in Seq(List) /\ work' # <<>> /\ WorkTakes'
  BY <1>1, <1>5, TopChanges
<1>7. ClauseEffect
  BY <1>1, <1>3, <1>6 DEF ClauseEffect
<1>. QED BY <1>2, <1>6, <1>7, ClauseKeepsInv

LEMMA CallStep ==
    ASSUME CheckInv, CheckCall
    PROVE  CheckInv'
<1>1. PICK e : e = CallExpr(Callee, Top.want, Top.args)
  OBVIOUS
<1>2. /\ pc = "clauses" /\ Top.clauses # <<>> /\ clauseUnchanged
      /\ nodes' = Append(nodes, e) /\ Err(IF Callee = 0 THEN 1 ELSE 0)
      /\ IF e.type # Null THEN work' = WithTop(EndClause(Top, New)) /\ UNCHANGED <<pc, trap>>
                          ELSE Stop("untyped") /\ UNCHANGED work
      /\ UNCHANGED <<todo, roots>>
  BY <1>1 DEF CheckCall, AtClauseEnd
<1>3. /\ Top \in List /\ ListOK(nodes, Top) /\ nodes \in Seq(Node) /\ bodies + 1 \in Nat
      /\ Top.args \in Seq(Nat) /\ Top.want \in Seq(Wanted) /\ sigs = Len(funcs)
  BY <1>2, TopIs
<1> DEFINE f  == Callee
           ty == IF f = 0 THEN "" ELSE FuncType(f)
<1>4. f \in Nat /\ (f # 0 => f \in DOMAIN funcs /\ Fits(Top.want, funcs[f].pattern))
  BY <1>3, ResolveFuncIs DEF CheckInv, Callee
<1>5. /\ ty \in Types \cup {""} /\ (f # 0 => ty # "") /\ ty # Null /\ ty \in Names
  <2>1. CASE f = 0
    BY <2>1, TypesAreNames
  <2>2. CASE f # 0
    <3>1. f \in 1..sigs
      BY <1>3, <1>4, <2>2, LenProperties DEF CheckInv, CheckTypeOK
    <3>2. funcs[f].returns \in Types
      BY <1>2, <3>1 DEF CheckInv, SignaturesKnown
    <3>3. ty = funcs[f].returns
      BY <2>2, <3>1 DEF FuncType
    <3>. QED BY <3>2, <3>3, TypesAreNames
  <2>. QED BY <2>1, <2>2
<1>6. /\ e \in Node /\ e.kind = "func" /\ e.type = ty /\ e.in = bodies + 1
      /\ e.callee = f /\ e.want = Top.want /\ e.kids = Top.args
  <2>1. PICK e0 : e0 = Expr("func", ty)
    OBVIOUS
  <2>2. e = [e0 EXCEPT !.callee = f, !.want = Top.want, !.kids = Top.args]
    BY <1>1, <2>1 DEF CallExpr
  <2> HIDE DEF f, ty
  <2>3. e0 \in Node /\ e0.kind = "func" /\ e0.type = ty /\ e0.in = bodies + 1
    BY <1>3, <1>5, <2>1, ExprIs
  <2>. QED BY <1>3, <1>4, <2>2, <2>3 DEF Node
<1>7. errs' = IF f = 0 THEN Append(errs, bodies + 1) ELSE errs
  BY <1>2, ErrIs DEF CheckInv
<1> HIDE DEF f, ty
<1>8. work' = WithTop(EndClause(Top, New)) /\ UNCHANGED <<pc, trap>>
  BY <1>2, <1>5, <1>6
<1>9. (errs' = <<>> => errs = <<>> /\ f # 0) /\ (errs' = errs \/ errs' = Append(errs, bodies + 1))
  BY <1>7, ErrorAdded DEF CheckInv
<1>10. NodeOK(e)'
  <2>1. Takes(nodes', e.kids, e.want)
    BY <1>2, <1>3, <1>6, TakesStable DEF ListOK
  <2>2. IsCall(e) => CallOK(funcs, e)
    BY <1>4, <1>6 DEF IsCall, CallOK
  <2>3. EndsAlike(nodes', e) /\ e.kind # "local"
    BY <1>6 DEF EndsAlike
  <2>4. funcs' = funcs /\ bodies' = bodies /\ pc' = "clauses"
    BY <1>2, <1>8 DEF clauseUnchanged, signatureVars
  <2>6. e.in \in 1..bodies+1
    <3>1. bodies \in Nat
      BY LenProperties DEF CheckInv, CheckTypeOK
    <3>. QED BY <1>6, <3>1
  <2>5. e.type \in Types \cup {""} /\ (errs' = <<>> => e.type # "")
    BY <1>5, <1>6, <1>9
  <2>. QED BY <2>1, <2>2, <2>3, <2>4, <2>5, <2>6 DEF NodeOK
<1>11. /\ nodes' \in Seq(Node) /\ NodesKnown' /\ New \in 1..Len(nodes')
       /\ \A fr \in List : ListOK(nodes, fr) => ListOK(nodes', fr)
  BY <1>2, <1>6, <1>8, <1>9, <1>10, NodeAdded
<1>12. EndClause(Top, New) \in List /\ ListOK(nodes', EndClause(Top, New))
  BY <1>2, <1>3, <1>11, ClauseEnded
<1>13. work' \in Seq(List) /\ work' # <<>> /\ WorkTakes'
  BY <1>2, <1>8, <1>11, <1>12, TopChanges
<1>14. ClauseEffect
  BY <1>2, <1>8, <1>9, <1>11, <1>13 DEF ClauseEffect
<1>. QED BY <1>11, <1>13, <1>14, ClauseKeepsInv

LEMMA AssignStep ==
    ASSUME CheckInv, CheckAssign
    PROVE  CheckInv'
<1>1. PICK e : e = AssignExpr(Callee, Top.want, Top.args)
  OBVIOUS
<1> DEFINE first == Top.args[1]
           last  == Top.args[Len(Top.args)]
<1>2. /\ pc = "clauses" /\ Top.clauses # <<>> /\ clauseUnchanged /\ IsAssign
      /\ nodes' = Append(nodes, e)
      /\ IF Top.args = <<>> THEN Stop("null") /\ UNCHANGED <<work, errs>>
         ELSE /\ Err(IF nodes[first].type # nodes[last].type THEN 1 ELSE 0)
              /\ work' = WithTop(EndClause(Top, New)) /\ UNCHANGED <<pc, trap>>
      /\ UNCHANGED <<todo, roots>>
  BY <1>1 DEF CheckAssign, AtClauseEnd
<1>3. /\ Top \in List /\ ListOK(nodes, Top) /\ nodes \in Seq(Node) /\ bodies + 1 \in Nat
      /\ Top.args \in Seq(Nat) /\ Top.want \in Seq(Wanted) /\ sigs = Len(funcs) /\ work \in Seq(List)
  BY <1>2, TopIs
<1> DEFINE f == Callee
<1>4. f \in Nat /\ f \in DOMAIN funcs /\ Fits(Top.want, funcs[f].pattern) /\ funcs[f].kind = "assign"
  BY <1>2, <1>3, ResolveFuncIs DEF CheckInv, Callee, IsAssign
<1>5. /\ e \in Node /\ e.kind = "assign" /\ e.type = "heltal" /\ e.in = bodies + 1
      /\ e.callee = f /\ e.want = Top.want /\ e.kids = Top.args
  <2>1. PICK e0 : e0 = Expr("assign", "heltal")
    OBVIOUS
  <2>2. e = [e0 EXCEPT !.callee = f, !.want = Top.want, !.kids = Top.args]
    BY <1>1, <2>1 DEF AssignExpr
  <2> HIDE DEF f
  <2>3. e0 \in Node /\ e0.kind = "assign" /\ e0.type = "heltal" /\ e0.in = bodies + 1
    BY <1>3, <2>1, ExprIs, NamesAreNames
  <2>. QED BY <1>3, <1>4, <2>2, <2>3 DEF Node
<1> HIDE DEF f
<1>6. Top.args # <<>> =>
         /\ first \in DOMAIN nodes /\ last \in DOMAIN nodes
         /\ errs' = IF nodes[first].type # nodes[last].type THEN Append(errs, bodies + 1) ELSE errs
  <2>1. Top.args # <<>> => 1 \in DOMAIN Top.args /\ Len(Top.args) \in DOMAIN Top.args
    <3>1. Top.args # <<>> => Len(Top.args) \in Nat \ {0} /\ DOMAIN Top.args = 1..Len(Top.args)
      BY <1>3, EmptySeq, LenProperties
    <3>. QED BY <3>1
  <2>2. Top.args # <<>> => errs' = IF nodes[first].type # nodes[last].type THEN Append(errs, bodies + 1) ELSE errs
    BY <1>2, ErrIs DEF CheckInv
  <2>. QED BY <1>3, <2>1, <2>2 DEF ListOK, Takes
<1>7. Append(errs, bodies + 1) # <<>>
  BY ErrorAdded DEF CheckInv
<1>8. (errs' = <<>> => errs = <<>>) /\ (errs' = errs \/ errs' = Append(errs, bodies + 1))
  BY <1>2, <1>3, <1>6, <1>7
<1>9. pc' \in {"clauses", "done"}
  BY <1>2 DEF Stop
<1>10. NodeOK(e)'
  <2>1. Takes(nodes', e.kids, e.want)
    BY <1>2, <1>3, <1>5, TakesStable DEF ListOK
  <2>2. CallOK(funcs, e)
    BY <1>4, <1>5 DEF CallOK
  <2>3. errs' = <<>> => EndsAlike(nodes', e)
    <3>1. CASE Top.args = <<>>
      BY <1>5, <3>1 DEF EndsAlike
    <3>2. CASE Top.args # <<>>
      <4>1. \A n \in DOMAIN nodes : nodes'[n] = nodes[n]
        BY <1>2, <1>3, <1>5, AppendIs
      <4>2. errs' = <<>> => nodes[first].type = nodes[last].type
        BY <1>3, <1>6, <1>7, <3>2
      <4>. QED BY <1>5, <1>6, <3>2, <4>1, <4>2 DEF EndsAlike
    <3>. QED BY <3>1, <3>2
  <2>4. funcs' = funcs /\ bodies' = bodies
    BY <1>2 DEF clauseUnchanged, signatureVars
  <2>5. e.in \in 1..bodies+1
    <3>1. bodies \in Nat
      BY LenProperties DEF CheckInv, CheckTypeOK
    <3>. QED BY <1>5, <3>1
  <2>6. e.type \in Types \cup {""} /\ e.type # "" /\ e.kind # "local"
    BY <1>5 DEF Types
  <2>. QED BY <1>9, <2>1, <2>2, <2>3, <2>4, <2>5, <2>6 DEF NodeOK
<1>11. /\ nodes' \in Seq(Node) /\ NodesKnown' /\ New \in 1..Len(nodes')
       /\ \A fr \in List : ListOK(nodes, fr) => ListOK(nodes', fr)
  BY <1>2, <1>5, <1>8, <1>9, <1>10, NodeAdded
<1>12. CASE Top.args = <<>>
  <2>1. WorkTakes'
    BY <1>2, <1>12 DEF WorkTakes, Stop
  <2>2. ClauseEffect
    BY <1>2, <1>3, <1>8, <1>11, <1>12 DEF ClauseEffect, Stop
  <2>. QED BY <1>11, <2>1, <2>2, ClauseKeepsInv
<1>13. CASE Top.args # <<>>
  <2>1. EndClause(Top, New) \in List /\ ListOK(nodes', EndClause(Top, New))
    BY <1>2, <1>3, <1>11, ClauseEnded
  <2>2. work' \in Seq(List) /\ work' # <<>> /\ WorkTakes'
    BY <1>2, <1>11, <1>13, <2>1, TopChanges
  <2>3. ClauseEffect
    BY <1>2, <1>8, <1>11, <1>13, <2>2 DEF ClauseEffect
  <2>. QED BY <1>11, <2>2, <2>3, ClauseKeepsInv
<1>. QED BY <1>12, <1>13

(* The expression of a list that is at its end.                            *)
LEMMA ListEnded ==
    ASSUME CheckInv, EndList
    PROVE  LET single == Len(Top.exprs) = 1
               expr   == IF single THEN Top.exprs[1] ELSE New
           IN  /\ nodes' \in Seq(Node) /\ NodesKnown' /\ expr \in 1..Len(nodes')
               /\ \A fr \in List : ListOK(nodes, fr) => ListOK(nodes', fr)
<1> DEFINE exprs  == Top.exprs
           single == Len(exprs) = 1
           expr   == IF single THEN exprs[1] ELSE New
<1>1. /\ pc = "clauses" /\ Top.clauses = <<>> /\ clauseUnchanged /\ pc' \in {"clauses", "stmts"}
      /\ nodes' = IF single THEN nodes ELSE Append(nodes, ListExpr(exprs))
      /\ errs' = errs
  BY DEF EndList
<1>2. /\ Top \in List /\ ListOK(nodes, Top) /\ nodes \in Seq(Node) /\ bodies + 1 \in Nat /\ exprs \in Seq(Nat)
      /\ DOMAIN nodes = 1..Len(nodes)
  BY <1>1, TopIs, LenProperties
<1> HIDE DEF exprs
<1>3. exprs # <<>> /\ \A i \in DOMAIN exprs : exprs[i] \in DOMAIN nodes
  BY <1>1, <1>2 DEF ListOK, exprs
<1>4. exprs[1] \in DOMAIN nodes /\ exprs[Len(exprs)] \in DOMAIN nodes
  <2>1. Len(exprs) \in Nat \ {0} /\ DOMAIN exprs = 1..Len(exprs)
    BY <1>2, <1>3, EmptySeq, LenProperties
  <2>2. 1 \in DOMAIN exprs /\ Len(exprs) \in DOMAIN exprs
    BY <2>1
  <2>. QED BY <1>3, <2>2
<1>5. CASE single
  <2>1. NodesKnown'
    BY <1>1, <1>5, NodesStay
  <2>. QED BY <1>1, <1>2, <1>4, <1>5, <2>1 DEF exprs
<1>6. CASE ~single
  <2>1. PICK e : e = ListExpr(exprs)
    OBVIOUS
  <2>2. PICK ty : ty = nodes[exprs[Len(exprs)]].type
    OBVIOUS
  <2>3. ty \in Types \cup {""} /\ (errs = <<>> => ty # "")
    BY <1>4, <2>2 DEF CheckInv, NodesKnown, NodeOK
  <2>4. e \in Node /\ e.kind = "list" /\ e.type = ty /\ e.in = bodies + 1
    <3>1. PICK e0 : e0 = Expr("list", ty)
      OBVIOUS
    <3>2. e = [e0 EXCEPT !.kids = exprs]
      BY <2>1, <2>2, <3>1 DEF ListExpr
    <3>3. e0 \in Node /\ e0.kind = "list" /\ e0.type = ty /\ e0.in = bodies + 1
      <4>1. ty \in Names
        BY <2>3, TypesAreNames
      <4>. QED BY <1>2, <3>1, <4>1, ExprIs
    <3>. QED BY <1>2, <3>2, <3>3 DEF Node
  <2>5. NodeOK(e)'
    <3>1. ~IsCall(e) /\ EndsAlike(nodes', e) /\ e.kind \notin {"func", "assign", "local"}
      BY <2>4 DEF IsCall, EndsAlike
    <3>2. bodies' = bodies /\ pc' \notin {"sigs", "bodies"}
      BY <1>1 DEF clauseUnchanged
    <3>3. e.in \in 1..bodies+1
      <4>1. bodies \in Nat
        BY LenProperties DEF CheckInv, CheckTypeOK
      <4>. QED BY <2>4, <4>1
    <3>4. e.type \in Types \cup {""} /\ (errs' = <<>> => e.type # "")
      BY <1>1, <2>3, <2>4
    <3>. QED BY <3>1, <3>2, <3>3, <3>4 DEF NodeOK
  <2>6. nodes' = Append(nodes, e)
    BY <1>1, <1>6, <2>1
  <2>7. /\ nodes' \in Seq(Node) /\ NodesKnown' /\ New \in 1..Len(nodes')
        /\ \A fr \in List : ListOK(nodes, fr) => ListOK(nodes', fr)
    BY <1>1, <2>4, <2>5, <2>6, NodeAdded
  <2>. QED BY <1>6, <2>7 DEF exprs
<1>. QED BY <1>5, <1>6

LEMMA EndListStep ==
    ASSUME CheckInv, EndList
    PROVE  CheckInv'
<1>1. PICK expr : expr = IF Len(Top.exprs) = 1 THEN Top.exprs[1] ELSE New
  OBVIOUS
<1>2. /\ nodes' \in Seq(Node) /\ NodesKnown' /\ expr \in 1..Len(nodes') /\ Len(nodes') \in Nat
      /\ \A fr \in List : ListOK(nodes, fr) => ListOK(nodes', fr)
  BY <1>1, ListEnded, LenProperties
<1>3. /\ pc = "clauses" /\ clauseUnchanged /\ UNCHANGED <<errs, trap>>
      /\ IF Len(work) > 1
         THEN /\ work' = <<AddArg(work[2], expr, nodes'[expr].type)>> \o Tail(Tail(work))
              /\ UNCHANGED <<todo, roots, pc>>
         ELSE /\ work' = <<>> /\ roots' = Append(roots, expr) /\ pc' = "stmts"
              /\ todo' = todo[1].then \o todo[1].else \o Tail(todo)
  BY <1>1 DEF EndList
<1>4. /\ work \in Seq(List) /\ work # <<>> /\ Len(work) \in Nat \ {0} /\ DOMAIN work = 1..Len(work)
      /\ \A w \in 1..Len(work) : work[w] \in List /\ ListOK(nodes, work[w])
  <2>1. work \in Seq(List) /\ work # <<>> /\ \A w \in DOMAIN work : ListOK(nodes, work[w])
    BY <1>3, TopIs DEF CheckInv, WorkTakes
  <2>. QED BY <2>1, TailIs, ElementOfSeq
<1>5. CASE Len(work) > 1
  <2> DEFINE below == Tail(work)
             top   == AddArg(work[2], expr, nodes'[expr].type)
             rest  == Tail(below)
  <2>1. /\ below \in Seq(List) /\ Len(below) = Len(work) - 1
        /\ \A w \in 1..Len(work)-1 : below[w] = work[w + 1]
    BY <1>4, TailIs
  <2>2. top \in List /\ ListOK(nodes', top)
    <3>1. work[2] \in List /\ ListOK(nodes', work[2])
      BY <1>2, <1>4, <1>5
    <3>. QED BY <1>2, <3>1, ArgAdded
  <2>3. work' = <<top>> \o rest
    BY <1>3, <1>5
  <2> HIDE DEF below, top
  <2>4. /\ rest \in Seq(List) /\ Len(rest) = Len(work) - 2
        /\ \A w \in 1..Len(work)-2 : rest[w] = below[w + 1]
    <3>1. below # <<>>
      BY <1>5, <2>1, EmptySeq
    <3>2. /\ Tail(below) \in Seq(List) /\ Len(Tail(below)) = Len(below) - 1
          /\ \A w \in 1..Len(below)-1 : Tail(below)[w] = below[w + 1]
      BY <2>1, <3>1, TailIs
    <3>3. Len(below) - 1 = Len(work) - 2
      BY <1>4, <2>1
    <3>. QED BY <3>2, <3>3
  <2> HIDE DEF rest
  <2>5. /\ work' \in Seq(List) /\ work' # <<>> /\ DOMAIN work' = 1..Len(work)-1 /\ work'[1] = top
        /\ \A w \in 2..Len(work)-1 : work'[w] = rest[w - 1]
    <3>1. Len(rest) + 1 = Len(work) - 1
      BY <1>4, <2>4
    <3>. QED BY <2>2, <2>3, <2>4, <3>1, ConsIs
  <2>6. ASSUME NEW w \in 1..Len(work)-1 PROVE ListOK(nodes', work'[w])
    <3>1. CASE w = 1
      BY <2>2, <2>5, <3>1
    <3>2. CASE w # 1
      <4>1. /\ w \in 2..Len(work)-1 /\ w - 1 \in 1..Len(work)-2 /\ w \in 1..Len(work)-1 /\ (w - 1) + 1 = w
            /\ w + 1 \in 1..Len(work)
        BY <1>4, <1>5, <3>2
      <4>2. work'[w] = work[w + 1]
        BY <2>1, <2>4, <2>5, <4>1
      <4>. QED BY <1>2, <1>4, <4>1, <4>2
    <3>. QED BY <3>1, <3>2
  <2>7. WorkTakes'
    BY <1>3, <1>5, <2>5, <2>6 DEF WorkTakes
  <2>8. ClauseEffect
    BY <1>2, <1>3, <1>5, <2>5 DEF ClauseEffect
  <2>. QED BY <1>2, <2>7, <2>8, ClauseKeepsInv
<1>6. CASE ~(Len(work) > 1)
  <2>1. todo \in Seq(Statements) /\ todo # <<>> /\ todo[1].kind # "decl" /\ roots \in Seq(Nat)
    BY <1>3 DEF CheckInv, CheckTypeOK, Phases
  <2>2. todo[1] \in Statements /\ Tail(todo) \in Seq(Statements)
    BY <2>1, TailIs
  <2>3. todo[1].then \in Seq(Statements) /\ todo[1].else \in Seq(Statements)
    BY <2>1, <2>2, CheckAssumption
  <2>4. todo' \in Seq(Statements)
    <3>1. \A s1, s2 \in Seq(Statements) : s1 \o s2 \in Seq(Statements)
      BY ConcatProperties
    <3>2. todo[1].then \o todo[1].else \o Tail(todo) \in Seq(Statements)
      BY <2>2, <2>3, <3>1, Zenon
    <3>. QED BY <1>3, <1>6, <3>2
  <2>5. roots' \in Seq(Nat)
    <3>1. expr \in Nat
      BY <1>2
    <3>2. Append(roots, expr) \in Seq(Nat)
      BY <2>1, <3>1, AppendProperties, Zenon
    <3>. QED BY <1>3, <1>6, <3>2
  <2>6. work' \in Seq(List) /\ WorkTakes'
    BY <1>3, <1>6, EmptySeq DEF WorkTakes
  <2>7. ClauseEffect
    BY <1>2, <1>3, <1>6, <2>4, <2>5, <2>6 DEF ClauseEffect
  <2>. QED BY <1>2, <2>6, <2>7, ClauseKeepsInv
<1>. QED BY <1>5, <1>6

-----------------------------------------------------------------------------
(* The other steps.                                                        *)
LEMMA NodesKept ==
    ASSUME CheckInv, UNCHANGED <<nodes, funcs, slots, errs, bodies>>, DOMAIN locals \subseteq DOMAIN locals',
           \A i \in DOMAIN locals : locals'[i] = locals[i],
           pc \in {"sigs", "bodies"} \/ pc' \notin {"sigs", "bodies"}
    PROVE  NodesKnown'
<1>1. DOMAIN locals = 1..Len(locals) /\ Len(locals) \in Nat /\ bodies \in Nat
  BY LenProperties DEF CheckInv, CheckTypeOK
<1>2. ASSUME NEW e \in Node, IsLocalOf(e, locals) PROVE IsLocalOf(e, locals')
  <2>1. e.local.off \in Nat
    BY DEF Node, Local
  <2>2. e.local.off + 1 \in 1..Len(locals) /\ \A i \in 1..e.local.off : i \in 1..Len(locals)
    BY <1>1, <1>2, <2>1 DEF IsLocalOf
  <2>. QED BY <1>1, <1>2, <2>2 DEF IsLocalOf
<1>3. ASSUME NEW e \in Node, NodeOK(e) PROVE NodeOK(e)'
  <2>1. e.in \in 1..(IF pc' \in {"sigs", "bodies"} THEN bodies ELSE bodies + 1)
    <3>1. CASE pc' \in {"sigs", "bodies"}
      BY <1>3, <3>1 DEF NodeOK
    <3>2. CASE pc' \notin {"sigs", "bodies"}
      <4>1. e.in \in 1..bodies \/ e.in \in 1..bodies+1
        BY <1>3 DEF NodeOK
      <4>2. e.in \in 1..bodies+1
        BY <1>1, <4>1
      <4>. QED BY <3>2, <4>2
    <3>. QED BY <3>1, <3>2
  <2>. QED BY <1>2, <1>3, <2>1 DEF NodeOK
<1>4. \A n \in DOMAIN nodes : nodes[n] \in Node
  BY ElementOfSeq DEF CheckInv, CheckTypeOK
<1>5. ASSUME NEW n \in DOMAIN nodes PROVE NodeOK(nodes[n])'
  <2>1. PICK e \in Node : e = nodes[n]
    BY <1>4
  <2>2. NodeOK(e)'
    BY <1>3, <2>1 DEF CheckInv, NodesKnown
  <2>3. nodes'[n] = e
    BY <2>1
  <2>. QED BY <2>2, <2>3, Zenon DEF NodeOK
<1>. QED BY <1>5 DEF NodesKnown

LEMMA SigStep ==
    ASSUME CheckInv, CheckSig
    PROVE  CheckInv'
<1> DEFINE f  == funcs[sigs + 1]
           id == IF f.kind = "user" THEN counter + 1 ELSE 0
<1>1. /\ pc = "sigs" /\ errs = <<>> /\ sigs < Len(funcs) /\ sigs' = sigs + 1
      /\ counter' = (IF f.kind = "user" THEN counter + 1 ELSE counter) /\ symbols' = Append(symbols, id)
      /\ IF f.returns \in Types /\ \A i \in DOMAIN f.pattern : f.pattern[i].type \in Types \cup {""}
         THEN UNCHANGED <<pc, trap>> ELSE Stop("type")
      /\ UNCHANGED <<funcs, clauseVars, bodies, params, todo, locals, count, slots, errs>>
  BY DEF CheckSig
<1>2. /\ symbols \in Seq(Nat) /\ Len(symbols) = sigs /\ counter \in Nat /\ sigs \in Nat /\ Len(funcs) \in Nat
      /\ sigs + 1 \in 0..Len(funcs)
  <2>1. symbols \in Seq(Nat) /\ Len(symbols) = sigs /\ counter \in Nat /\ sigs \in 0..Len(funcs) /\ Len(funcs) \in Nat
    BY LenProperties DEF CheckInv, CheckTypeOK
  <2>2. sigs < Len(funcs)
    BY <1>1
  <2>3. sigs \in Nat /\ sigs + 1 \in 0..Len(funcs)
    BY <2>1, <2>2
  <2>. QED BY <2>1, <2>3
<1> HIDE DEF f
<1>10. /\ id \in Nat /\ counter' \in Nat /\ counter <= counter' /\ id <= counter'
       /\ id # 0 => counter < id
  <2>1. CASE f.kind = "user"
    <3>1. counter' = counter + 1 /\ id = counter + 1
      BY <1>1, <2>1
    <3>. QED BY <1>2, <3>1
  <2>2. CASE f.kind # "user"
    <3>1. counter' = counter /\ id = 0
      BY <1>1, <2>2
    <3>. QED BY <1>2, <3>1
  <2>. QED BY <2>1, <2>2
<1> HIDE DEF id
<1>3. /\ symbols' \in Seq(Nat) /\ Len(symbols') = sigs + 1 /\ DOMAIN symbols' = 1..sigs+1 /\ DOMAIN symbols = 1..sigs
      /\ \A i \in 1..sigs : symbols'[i] = symbols[i] /\ symbols[i] \in Nat
      /\ symbols'[sigs + 1] = id
  <2>1. DOMAIN symbols = 1..sigs
    BY <1>2, LenProperties
  <2>2. \A i \in 1..sigs : symbols[i] \in Nat
    BY <1>2, <2>1, ElementOfSeq
  <2> DEFINE new == Append(symbols, id)
  <2>3. /\ new \in Seq(Nat) /\ Len(new) = sigs + 1 /\ DOMAIN new = 1..sigs+1
        /\ \A i \in 1..sigs : new[i] = symbols[i]
        /\ new[sigs + 1] = id
    BY <1>2, <1>10, AppendIs
  <2> HIDE DEF new
  <2>4. symbols' = new
    BY <1>1 DEF new
  <2>. QED BY <2>1, <2>2, <2>3, <2>4
<1>4. CheckTypeOK'
  <2>1. pc' \in {"sigs", "done"} /\ trap' \in {"none", "type", "null"}
    BY <1>1 DEF CheckInv, CheckTypeOK, Stop
  <2>2. sigs' \in 0..Len(funcs') /\ symbols' \in Seq(Nat) /\ Len(symbols') = sigs' /\ counter' \in Nat
    BY <1>1, <1>2, <1>3, <1>10
  <2>3. UNCHANGED <<funcs, bodies, params, todo, locals, count, slots, work, nodes, roots, errs>>
    BY <1>1 DEF clauseVars
  <2>. QED BY <2>1, <2>2, <2>3 DEF CheckInv, CheckTypeOK
<1>5. Assignments' /\ Phases' /\ OneBody' /\ WorkTakes'
  BY <1>1 DEF CheckInv, Assignments, Phases, OneBody, InBody, WorkTakes, clauseVars, Stop
<1>6. SignaturesKnown'
  <2>1. \A i \in 1..sigs+1 : i \in 1..sigs \/ i = sigs + 1
    BY <1>2
  <2>. QED BY <1>1, <2>1 DEF CheckInv, SignaturesKnown, Stop, f
<1>7. SymbolsDistinct'
  <2>1. \A i \in 1..sigs+1 : i \in 1..sigs \/ i = sigs + 1
    BY <1>2
  <2>2. \A i \in 1..sigs : symbols[i] <= counter /\ \A j \in 1..sigs : symbols[i] = symbols[j] /\ i # j => symbols[i] = 0
    BY <1>3 DEF CheckInv, SymbolsDistinct
  <2>3. \A i \in 1..sigs : symbols[i] # id \/ id = 0
    BY <1>2, <1>3, <1>10, <2>2
  <2>5. \A i \in 1..sigs+1 : symbols'[i] <= counter'
    BY <1>2, <1>3, <1>10, <2>1, <2>2
  <2>6. \A i, j \in 1..sigs+1 : symbols'[i] = symbols'[j] /\ i # j => symbols'[i] = 0
    BY <1>3, <2>1, <2>2, <2>3
  <2>. QED BY <1>3, <2>5, <2>6 DEF SymbolsDistinct
<1>8. LocalsDeclared'
  BY <1>1 DEF CheckInv, LocalsDeclared, InBody, Stop
<1>9. NodesKnown'
  BY <1>1, NodesKept DEF clauseVars
<1>. QED BY <1>4, <1>5, <1>6, <1>7, <1>8, <1>9 DEF CheckInv

(* Steps that only go from one phase to the next.                          *)
LEMMA PhaseStep ==
    ASSUME CheckInv, BodiesAfterSigs \/ EndParams \/ EndCheck
    PROVE  CheckInv'
<1>1. /\ UNCHANGED <<signatureVars, clauseVars, bodies, params, todo, locals, count, slots, errs, trap>>
      /\ \/ pc = "sigs" /\ pc' = "bodies" /\ (sigs = Len(funcs) \/ errs # <<>>)
         \/ pc = "params" /\ pc' = "stmts" /\ params = <<>>
         \/ pc = "bodies" /\ pc' = "done"
  BY DEF BodiesAfterSigs, EndParams, EndCheck
<1>2. UNCHANGED <<funcs, sigs, symbols, counter, work, nodes, roots, bodies, params, todo, locals, count, slots, errs, trap>>
  BY <1>1 DEF signatureVars, clauseVars
<1>3. CheckTypeOK' /\ Assignments' /\ WorkTakes'
  BY <1>1, <1>2 DEF CheckInv, CheckTypeOK, Assignments, WorkTakes
<1>4. Phases' /\ OneBody'
  BY <1>1, <1>2 DEF CheckInv, Phases, OneBody, InBody
<1>5. SignaturesKnown' /\ SymbolsDistinct'
  BY <1>1, <1>2 DEF CheckInv, SignaturesKnown, SymbolsDistinct
<1>6. LocalsDeclared'
  BY <1>1, <1>2 DEF CheckInv, LocalsDeclared, InBody
<1>7. NodesKnown'
  BY <1>1, <1>2, NodesKept
<1>. QED BY <1>3, <1>4, <1>5, <1>6, <1>7 DEF CheckInv

LEMMA BeginBodyStep ==
    ASSUME CheckInv, BeginBody
    PROVE  CheckInv'
<1>1. /\ pc = "bodies" /\ errs = <<>> /\ bodies < Len(funcs) /\ pc' = "params" /\ locals' = <<>>
      /\ params' = funcs[bodies + 1].pattern /\ todo' = funcs[bodies + 1].stmts
      /\ UNCHANGED <<funcs, sigs, symbols, counter, work, nodes, roots, bodies, count, slots, errs, trap>>
  BY DEF BeginBody, signatureVars, clauseVars
<1>2. locals = <<>> /\ count = 0 /\ sigs = Len(funcs) /\ work = <<>>
  BY <1>1 DEF CheckInv, Phases, InBody
<1>3. bodies \in Nat /\ bodies + 1 \in DOMAIN funcs /\ funcs[bodies + 1] \in Func
  <2>1. bodies + 1 \in DOMAIN funcs /\ bodies \in Nat
    BY <1>1, LenProperties DEF CheckInv, CheckTypeOK
  <2>. QED BY <2>1, ElementOfSeq DEF CheckInv, CheckTypeOK
<1> DEFINE pattern == funcs[bodies + 1].pattern
           none    == <<>>
<1>4. pattern \in Seq(PatternPart) /\ params' = pattern /\ params' \in Seq(PatternPart) /\ todo' \in Seq(Statements)
  BY <1>1, <1>3 DEF Func
<1>5. CheckTypeOK' /\ Assignments' /\ WorkTakes'
  BY <1>1, <1>2, <1>4 DEF CheckInv, CheckTypeOK, Assignments, WorkTakes
<1>6. Phases' /\ OneBody'
  <2>1. DOMAIN <<>> = {}
    OBVIOUS
  <2>. QED BY <1>1, <1>2, <2>1 DEF CheckInv, Phases, OneBody, InBody
<1>7. SignaturesKnown' /\ SymbolsDistinct'
  BY <1>1 DEF CheckInv, SignaturesKnown, SymbolsDistinct
<1>8. DOMAIN none = {} /\ Len(none) = 0
  OBVIOUS
<1>9. Len(pattern) \in Nat /\ DOMAIN pattern = 1..Len(pattern)
  BY <1>4, LenProperties
<1>10. Declares(none, pattern, 0)
  <2>1. TypedParts(pattern, 0) = {}
    BY DEF TypedParts
  <2>2. [i \in 1..0 |-> 1] \in Enum(0, {})
    BY DEF Enum
  <2>3. 0 \in 0..Len(none) /\ {i \in DOMAIN none : none[i].arg} = 1..0
    BY <1>8
  <2>4. PICK pos \in Enum(0, TypedParts(pattern, 0)) : TRUE
    BY <2>1, <2>2
  <2>5. \A i \in 1..0 : FALSE
    OBVIOUS
  <2> HIDE DEF none, pattern
  <2>. QED BY <2>3, <2>4, <2>5, Zenon DEF Declares
<1>11. LocalsDeclared'
  <2>1. locals' = none /\ funcs' = funcs /\ bodies' = bodies /\ slots' = slots /\ count' = Len(none) /\ pc' = "params"
    BY <1>1, <1>2, <1>8
  <2>2. Placed(none) /\ \A i \in DOMAIN none : none[i].type \in Types /\ none[i].arg
    BY <1>8 DEF Placed
  <2>3. Len(params') = Len(pattern) /\ Len(pattern) - Len(params') = 0
    BY <1>4, <1>9
  <2>4. \A i \in DOMAIN pattern : 0 + i = i
    BY <1>9
  <2>5. \A f \in DOMAIN slots : Placed(slots[f]) /\ Declares(slots[f], funcs[f].pattern, Len(funcs[f].pattern))
    BY DEF CheckInv, LocalsDeclared
  <2> HIDE DEF none
  <2>. QED BY <1>4, <1>9, <1>10, <2>1, <2>2, <2>3, <2>4, <2>5 DEF LocalsDeclared
<1>12. NodesKnown'
  BY <1>1, <1>2, <1>8, NodesKept
<1>. QED BY <1>5, <1>6, <1>7, <1>11, <1>12 DEF CheckInv

(* One more local: a parameter, or a declared one.                         *)
LEMMA PlacedOneMore ==
    ASSUME NEW ls \in Seq(Local), Placed(ls), NEW l \in Local, l.off = Len(ls),
           l.arg => \A i \in DOMAIN ls : ls[i].arg
    PROVE  Placed(Append(ls, l))
<1> DEFINE r == Append(ls, l)
<1>1. /\ DOMAIN r = 1..Len(ls)+1 /\ DOMAIN ls = 1..Len(ls) /\ Len(ls) \in Nat
      /\ \A i \in 1..Len(ls) : r[i] = ls[i]
      /\ r[Len(ls) + 1] = l
  BY AppendIs
<1> HIDE DEF r
<1>2. \A i \in 1..Len(ls)+1 : i \in 1..Len(ls) \/ i = Len(ls) + 1
  BY <1>1
<1>3. ASSUME NEW i \in 1..Len(ls) PROVE r[i].off = i - 1 /\ (r[i].arg => \A j \in 1..i : r[j].arg)
  <2>1. \A j \in 1..i : j \in 1..Len(ls)
    BY <1>1
  <2>. QED BY <1>1, <2>1 DEF Placed
<1>4. l.off = (Len(ls) + 1) - 1 /\ (l.arg => \A j \in 1..Len(ls)+1 : r[j].arg)
  BY <1>1, <1>2
<1>5. ASSUME NEW i \in 1..Len(ls)+1 PROVE r[i].off = i - 1 /\ (r[i].arg => \A j \in 1..i : r[j].arg)
  BY <1>1, <1>2, <1>3, <1>4
<1>6. Placed(r)
  BY <1>1, <1>5 DEF Placed
<1>. QED BY <1>6 DEF r

LEMMA DeclaresOther ==
    ASSUME NEW ls \in Seq(Local), NEW l \in Local, l.arg = FALSE, NEW pattern, NEW k, Declares(ls, pattern, k)
    PROVE  Declares(Append(ls, l), pattern, k)
<1> DEFINE r == Append(ls, l)
<1>1. /\ DOMAIN r = 1..Len(ls)+1 /\ DOMAIN ls = 1..Len(ls) /\ Len(ls) \in Nat /\ Len(r) = Len(ls) + 1
      /\ \A i \in 1..Len(ls) : r[i] = ls[i]
      /\ r[Len(ls) + 1] = l
  BY AppendIs
<1> HIDE DEF r
<1>2. PICK n \in 0..Len(ls) : \E pos \in Enum(n, TypedParts(pattern, k)) :
         {i \in DOMAIN ls : ls[i].arg} = 1..n /\ \A i \in 1..n : ls[i].type = pattern[pos[i]].type
  BY DEF Declares
<1>0. PICK pos \in Enum(n, TypedParts(pattern, k)) :
         {i \in DOMAIN ls : ls[i].arg} = 1..n /\ \A i \in 1..n : ls[i].type = pattern[pos[i]].type
  BY <1>2
<1>3. {i \in DOMAIN r : r[i].arg} = 1..n
  <2>1. \A i \in 1..Len(ls)+1 : i \in 1..Len(ls) \/ i = Len(ls) + 1
    BY <1>1
  <2>2. {i \in DOMAIN r : r[i].arg} = {i \in DOMAIN ls : ls[i].arg}
    BY <1>1, <2>1
  <2>. QED BY <1>0, <2>2
<1>4. \A i \in 1..n : r[i].type = pattern[pos[i]].type
  BY <1>1, <1>0
<1>5. n \in 0..Len(r)
  BY <1>1
<1>6. Declares(r, pattern, k)
  BY <1>3, <1>4, <1>5 DEF Declares
<1>. QED BY <1>6 DEF r

LEMMA TypedPartsGrow ==
    ASSUME NEW pattern, NEW k \in Nat
    PROVE  /\ TypedParts(pattern, k) \subseteq 1..k
           /\ k + 1 \in TypedParts(pattern, k + 1) => TypedParts(pattern, k + 1) = TypedParts(pattern, k) \cup {k + 1}
           /\ k + 1 \notin TypedParts(pattern, k + 1) => TypedParts(pattern, k + 1) = TypedParts(pattern, k)
<1> DEFINE typed == {i \in Nat : pattern[i].type # ""}
<1>1. \A m \in Nat : TypedParts(pattern, m) = (1..m) \cap typed
  <2>1. \A m \in Nat : \A i \in 1..m : i \in Nat
    OBVIOUS
  <2>. QED BY <2>1, Zenon DEF TypedParts
<1> HIDE DEF typed
<1>2. TypedParts(pattern, k) = (1..k) \cap typed /\ TypedParts(pattern, k + 1) = (1..k+1) \cap typed
  <2>1. k + 1 \in Nat
    OBVIOUS
  <2>. QED BY <1>1, <2>1
<1>3. 1..k+1 = (1..k) \cup {k + 1}
  OBVIOUS
<1>. QED BY <1>2, <1>3, Zenon

LEMMA DeclaresParam ==
    ASSUME NEW ls \in Seq(Local), NEW l \in Local, l.arg = TRUE, \A i \in DOMAIN ls : ls[i].arg, NEW pattern,
           NEW k \in Nat, Declares(ls, pattern, k), k + 1 \in TypedParts(pattern, k + 1),
           NEW part, part = pattern[k + 1], l.type = part.type
    PROVE  Declares(Append(ls, l), pattern, k + 1)
<1> DEFINE r == Append(ls, l)
<1>1. /\ DOMAIN r = 1..Len(ls)+1 /\ DOMAIN ls = 1..Len(ls) /\ Len(ls) \in Nat /\ Len(r) = Len(ls) + 1
      /\ \A i \in 1..Len(ls) : r[i] = ls[i]
      /\ r[Len(ls) + 1] = l
  BY AppendIs
<1> HIDE DEF r
<1>2. PICK n \in 0..Len(ls) : \E pos \in Enum(n, TypedParts(pattern, k)) :
         {i \in DOMAIN ls : ls[i].arg} = 1..n /\ \A i \in 1..n : ls[i].type = pattern[pos[i]].type
  BY DEF Declares
<1>0. PICK pos \in Enum(n, TypedParts(pattern, k)) :
         {i \in DOMAIN ls : ls[i].arg} = 1..n /\ \A i \in 1..n : ls[i].type = pattern[pos[i]].type
  BY <1>2
<1>3. n = Len(ls) /\ n \in Nat
  <2>1. 1..n = 1..Len(ls)
    BY <1>0, <1>1
  <2>2. ASSUME n # Len(ls) PROVE FALSE
    <3>1. Len(ls) \in Nat
      BY <1>1
    <3>2. n < Len(ls)
      BY <2>2, <3>1
    <3>3. Len(ls) \in 1..Len(ls) /\ Len(ls) \notin 1..n
      BY <3>1, <3>2
    <3>. QED BY <2>1, <3>3
  <2>. QED BY <1>1, <2>2
<1>4. TypedParts(pattern, k + 1) = TypedParts(pattern, k) \cup {k + 1}
  BY TypedPartsGrow
<1> DEFINE q == [i \in 1..n+1 |-> IF i = n + 1 THEN k + 1 ELSE pos[i]]
<1>5. q \in Enum(n + 1, TypedParts(pattern, k + 1))
  <2>1. TypedParts(pattern, k) \subseteq Nat /\ \A y \in TypedParts(pattern, k) : y < k + 1
    <3>1. TypedParts(pattern, k) \subseteq 1..k
      BY TypedPartsGrow
    <3>. QED BY <3>1
  <2>2. k + 1 \in Nat
    OBVIOUS
  <2>3. q \in Enum(n + 1, TypedParts(pattern, k) \cup {k + 1})
    BY <1>3, <2>1, <2>2, EnumGrows, Zenon
  <2>. HIDE DEF q
  <2>. QED BY <1>4, <2>3
<1>6. \A i \in 1..n+1 : (i \in 1..n /\ q[i] = pos[i]) \/ (i = n + 1 /\ q[i] = k + 1)
  BY <1>3
<1> HIDE DEF q
<1>7. {i \in DOMAIN r : r[i].arg} = 1..n+1
  BY <1>1, <1>3, <1>6
<1>8. \A i \in 1..n+1 : r[i].type = pattern[q[i]].type
  BY <1>1, <1>0, <1>3, <1>6
<1>9. n + 1 \in 0..Len(r)
  BY <1>1, <1>3
<1>10. Declares(r, pattern, k + 1)
  BY <1>5, <1>7, <1>8, <1>9 DEF Declares
<1>. QED BY <1>10 DEF r

LEMMA DeclaresWord ==
    ASSUME NEW ls, NEW pattern, NEW k \in Nat, Declares(ls, pattern, k), k + 1 \notin TypedParts(pattern, k + 1)
    PROVE  Declares(ls, pattern, k + 1)
<1>1. TypedParts(pattern, k + 1) = TypedParts(pattern, k)
  BY TypedPartsGrow
<1>. QED BY <1>1 DEF Declares

LEMMA LocalPushed ==
    ASSUME CheckInv, InBody, NEW name \in Names, NEW ty \in Types, NEW arg \in BOOLEAN, PushLocal(name, ty, arg)
    PROVE  \E l \in Local :
              /\ l.off = Len(locals) /\ l.arg = arg /\ l.type = ty
              /\ locals' = Append(locals, l) /\ locals' \in Seq(Local)
              /\ count' = Len(locals') /\ count' \in Nat /\ DOMAIN locals \subseteq DOMAIN locals'
              /\ \A i \in DOMAIN locals : locals'[i] = locals[i]
              /\ \A i \in DOMAIN locals' : i \in DOMAIN locals \/ locals'[i] = l
<1>1. locals \in Seq(Local) /\ count = Len(locals) /\ count \in Nat
  BY DEF CheckInv, CheckTypeOK, LocalsDeclared
<1>2. PICK l : l = [name |-> name, type |-> ty, off |-> count, arg |-> arg]
  OBVIOUS
<1>3. l \in Local /\ l.off = Len(locals) /\ l.arg = arg /\ l.type = ty
  BY <1>1, <1>2, TypesAreNames DEF Local
<1>4. locals' = Append(locals, l) /\ count' = count + 1
  BY <1>2 DEF PushLocal
<1>5. /\ locals' \in Seq(Local) /\ Len(locals') = Len(locals) + 1 /\ DOMAIN locals = 1..Len(locals)
      /\ DOMAIN locals' = 1..Len(locals)+1 /\ \A i \in 1..Len(locals) : locals'[i] = locals[i]
      /\ locals'[Len(locals) + 1] = l
  BY <1>1, <1>3, <1>4, AppendIs
<1>6. DOMAIN locals \subseteq DOMAIN locals' /\ count' = Len(locals') /\ count' \in Nat
  BY <1>1, <1>4, <1>5
<1>7. \A i \in DOMAIN locals' : i \in DOMAIN locals \/ locals'[i] = l
  BY <1>1, <1>5
<1>. QED BY <1>3, <1>4, <1>5, <1>6, <1>7

(* What steps of a body outside of its clauses leave to show.              *)
LEMMA BodyStepKeepsInv ==
    ASSUME CheckInv, pc \in {"params", "stmts"}, pc' = pc,
           UNCHANGED <<funcs, sigs, symbols, counter, work, nodes, roots, bodies, slots, errs, trap>>,
           params' \in Seq(PatternPart), pc = "stmts" => params' = params, todo' \in Seq(Statements),
           locals' \in Seq(Local), count' = Len(locals'), Placed(locals'),
           \A j \in DOMAIN locals' : locals'[j].type \in Types /\ (pc = "params" => locals'[j].arg),
           DOMAIN locals \subseteq DOMAIN locals', \A j \in DOMAIN locals : locals'[j] = locals[j],
           LET pattern == funcs[bodies + 1].pattern
           IN  /\ Len(params') <= Len(pattern) /\ Declares(locals', pattern, Len(pattern) - Len(params'))
               /\ pc = "params" => \A j \in DOMAIN params' : params'[j] = pattern[Len(pattern) - Len(params') + j]
    PROVE  CheckInv'
<1>1. count' \in Nat
  BY LenProperties
<1>2. CheckTypeOK' /\ Assignments' /\ WorkTakes'
  BY <1>1 DEF CheckInv, CheckTypeOK, Assignments, WorkTakes
<1>3. Phases' /\ OneBody'
  BY DEF CheckInv, Phases, OneBody, InBody
<1>4. SignaturesKnown' /\ SymbolsDistinct'
  BY DEF CheckInv, SignaturesKnown, SymbolsDistinct
<1>5. LocalsDeclared'
  BY DEF CheckInv, LocalsDeclared, InBody
<1>6. NodesKnown'
  BY NodesKept
<1>. QED BY <1>2, <1>3, <1>4, <1>5, <1>6 DEF CheckInv

LEMMA ParamStep ==
    ASSUME CheckInv, CheckParam
    PROVE  CheckInv'
<1>1. /\ pc = "params" /\ params # <<>> /\ params' = Tail(params) /\ pc' = pc /\ todo' = todo
      /\ IF params[1].type = "" THEN UNCHANGED <<locals, count>> ELSE PushLocal(params[1].name, params[1].type, TRUE)
      /\ UNCHANGED <<funcs, sigs, symbols, counter, work, nodes, roots, bodies, slots, errs, trap>>
  BY DEF CheckParam, signatureVars, clauseVars
<1>2. PICK pattern : pattern = funcs[bodies + 1].pattern
  OBVIOUS
<1>3. bodies \in Nat /\ bodies + 1 \in DOMAIN funcs /\ bodies + 1 \in 1..sigs /\ funcs[bodies + 1] \in Func
  <2>3. bodies \in 0..Len(funcs) /\ Len(funcs) \in Nat /\ DOMAIN funcs = 1..Len(funcs)
    BY LenProperties DEF CheckInv, CheckTypeOK
  <2>4. bodies < Len(funcs)
    BY <1>1 DEF CheckInv, Phases, InBody
  <2>1. bodies \in Nat /\ bodies + 1 \in DOMAIN funcs /\ bodies + 1 \in 1..Len(funcs)
    BY <2>3, <2>4
  <2>2. sigs = Len(funcs)
    BY <1>1 DEF CheckInv, Phases, InBody
  <2>. QED BY <2>1, <2>2, ElementOfSeq DEF CheckInv, CheckTypeOK
<1>4. /\ pattern \in Seq(PatternPart) /\ Len(pattern) \in Nat /\ DOMAIN pattern = 1..Len(pattern)
      /\ \A i \in DOMAIN pattern : pattern[i].type \in Types \cup {""}
  <2>1. pattern \in Seq(PatternPart)
    BY <1>2, <1>3 DEF Func
  <2>2. \A i \in DOMAIN pattern : pattern[i].type \in Types \cup {""}
    BY <1>1, <1>2, <1>3 DEF CheckInv, SignaturesKnown
  <2>. QED BY <2>1, <2>2, LenProperties
<1>5. /\ params \in Seq(PatternPart) /\ Tail(params) \in Seq(PatternPart) /\ Len(Tail(params)) = Len(params) - 1
      /\ DOMAIN Tail(params) = 1..Len(params)-1 /\ DOMAIN params = 1..Len(params) /\ Len(params) \in Nat \ {0}
      /\ \A i \in 1..Len(params)-1 : Tail(params)[i] = params[i + 1]
  <2>1. params \in Seq(PatternPart)
    BY DEF CheckInv, CheckTypeOK
  <2>. QED BY <1>1, <2>1, TailIs
<1>6. /\ Placed(locals) /\ count = Len(locals) /\ Len(params) <= Len(pattern)
      /\ Declares(locals, pattern, Len(pattern) - Len(params))
      /\ \A i \in DOMAIN locals : locals[i].type \in Types /\ locals[i].arg
      /\ \A i \in DOMAIN params : params[i] = pattern[Len(pattern) - Len(params) + i]
  BY <1>1, <1>2 DEF CheckInv, LocalsDeclared, InBody
<1>7. PICK k \in Nat : k = Len(pattern) - Len(params) /\ k + 1 \in DOMAIN pattern
  <2>1. Len(pattern) \in Nat /\ Len(params) \in Nat \ {0} /\ Len(params) <= Len(pattern)
    BY <1>4, <1>5, <1>6
  <2>2. Len(pattern) - Len(params) \in Nat /\ Len(pattern) - Len(params) + 1 \in 1..Len(pattern)
    BY <2>1
  <2>. QED BY <1>4, <2>2
<1>8. k + 1 = Len(pattern) - Len(params') /\ Len(params') <= Len(pattern)
  <2>1. Len(pattern) \in Nat /\ Len(params) \in Nat \ {0} /\ Len(params) <= Len(pattern)
    BY <1>4, <1>5, <1>6
  <2>2. Len(params') = Len(params) - 1
    BY <1>1, <1>5
  <2>. QED BY <1>7, <2>1, <2>2
<1>9. PICK part \in PatternPart : part = params[1] /\ part = pattern[k + 1]
  <2>1. 1 \in DOMAIN params
    BY <1>5
  <2>. QED BY <1>4, <1>6, <1>7, <2>1, ElementOfSeq
<1>10. \A j \in DOMAIN params' : params'[j] = pattern[Len(pattern) - Len(params') + j]
  <2>1. ASSUME NEW j \in 1..Len(params)-1 PROVE params'[j] = pattern[Len(pattern) - Len(params') + j]
    <3>1. j + 1 \in DOMAIN params /\ j \in Nat
      BY <1>5
    <3>2. params'[j] = pattern[k + (j + 1)]
      BY <1>1, <1>5, <1>6, <1>7, <3>1
    <3>3. k + (j + 1) = Len(pattern) - Len(params') + j
      BY <1>8, <3>1
    <3>. QED BY <3>2, <3>3
  <2>. QED BY <1>1, <1>5, <2>1
<1>11. params' \in Seq(PatternPart) /\ Len(params') <= Len(pattern) /\ todo' \in Seq(Statements)
  <2>1. todo' \in Seq(Statements)
    BY <1>1 DEF CheckInv, CheckTypeOK
  <2>. QED BY <1>1, <1>5, <1>8, <2>1
<1>12. k + 1 \in TypedParts(pattern, k + 1) <=> part.type # ""
  <2>1. k + 1 \in 1..k+1
    OBVIOUS
  <2>. QED BY <1>9, <2>1, Zenon DEF TypedParts
<1>13. Declares(locals, pattern, k)
  BY <1>6, <1>7
<1>14. CASE part.type = ""
  <2>1. locals' = locals /\ count' = count
    BY <1>1, <1>9, <1>14
  <2>2. Declares(locals, pattern, k + 1)
    BY <1>12, <1>13, <1>14, DeclaresWord
  <2>3. locals \in Seq(Local)
    BY DEF CheckInv, CheckTypeOK
  <2>. QED BY <1>1, <1>2, <1>6, <1>8, <1>10, <1>11, <2>1, <2>2, <2>3, BodyStepKeepsInv
<1>15. CASE part.type # ""
  <2>0. part.type \in Types /\ part.name \in Names
    <3>1. part.type \in Types \cup {""}
      BY <1>4, <1>7, <1>9
    <3>. QED BY <1>15, <3>1 DEF PatternPart
  <2>1. PICK name \in Names, ty \in Types, arg \in BOOLEAN :
           ty = part.type /\ arg = TRUE /\ PushLocal(name, ty, arg)
    <3>1. PushLocal(part.name, part.type, TRUE)
      BY <1>1, <1>9, <1>15
    <3>. QED BY <2>0, <3>1
  <2>3. PICK l \in Local :
           /\ l.off = Len(locals) /\ l.arg = arg /\ l.type = ty
           /\ locals' = Append(locals, l) /\ locals' \in Seq(Local)
           /\ count' = Len(locals') /\ DOMAIN locals \subseteq DOMAIN locals'
           /\ \A i \in DOMAIN locals : locals'[i] = locals[i]
           /\ \A i \in DOMAIN locals' : i \in DOMAIN locals \/ locals'[i] = l
    <3>1. InBody
      BY <1>1 DEF InBody
    <3>2. PushLocal(name, ty, arg)
      BY <2>1
    <3>. QED BY <3>1, <3>2, LocalPushed
  <2>4. locals \in Seq(Local)
    BY DEF CheckInv, CheckTypeOK
  <2>5. Declares(locals', pattern, k + 1)
    <3>1. l.arg = TRUE /\ l.type = part.type
      BY <2>1, <2>3
    <3>. QED BY <1>6, <1>9, <1>12, <1>13, <1>15, <2>3, <2>4, <3>1, DeclaresParam
  <2>6. Placed(locals')
    BY <1>6, <2>3, <2>4, PlacedOneMore
  <2>7. \A j \in DOMAIN locals' : locals'[j].type \in Types /\ locals'[j].arg
    BY <1>6, <2>1, <2>3
  <2>. QED BY <1>1, <1>2, <1>8, <1>10, <1>11, <2>3, <2>5, <2>6, <2>7, BodyStepKeepsInv
<1>. QED BY <1>14, <1>15

LEMMA DeclStep ==
    ASSUME CheckInv, CheckDecl
    PROVE  CheckInv'
<1> DEFINE s == todo[1]
<1>1. /\ pc = "stmts" /\ todo # <<>> /\ s.kind = "decl"
      /\ IF s.type \in Types
         THEN PushLocal(s.name, s.type, FALSE) /\ todo' = Tail(todo) /\ UNCHANGED <<pc, trap>>
         ELSE Stop("type") /\ UNCHANGED <<locals, count, todo>>
      /\ UNCHANGED <<funcs, sigs, symbols, counter, work, nodes, roots, bodies, params, slots, errs>>
  BY DEF CheckDecl, signatureVars, clauseVars
<1>2. s \in Statements /\ Tail(todo) \in Seq(Statements)
  <2>1. todo \in Seq(Statements)
    BY DEF CheckInv, CheckTypeOK
  <2>. QED BY <1>1, <2>1, TailIs
<1> HIDE DEF s
<1>3. s.name \in Names
  BY <1>1, <1>2, CheckAssumption
<1>4. CASE s.type \notin Types
  <2>1. /\ pc' = "done" /\ trap' = "type"
        /\ UNCHANGED <<funcs, sigs, symbols, counter, work, nodes, roots, bodies, params, todo, locals, count, slots, errs>>
    BY <1>1, <1>4 DEF Stop
  <2>2. CheckTypeOK' /\ Assignments' /\ WorkTakes'
    BY <2>1 DEF CheckInv, CheckTypeOK, Assignments, WorkTakes
  <2>3. Phases' /\ OneBody'
    BY <2>1 DEF CheckInv, Phases, OneBody, InBody
  <2>4. SignaturesKnown' /\ SymbolsDistinct'
    BY <2>1 DEF CheckInv, SignaturesKnown, SymbolsDistinct
  <2>5. LocalsDeclared'
    BY <2>1 DEF CheckInv, LocalsDeclared, InBody
  <2>6. NodesKnown'
    BY <2>1, NodesKept
  <2>. QED BY <2>2, <2>3, <2>4, <2>5, <2>6 DEF CheckInv
<1>5. CASE s.type \in Types
  <2>1. PushLocal(s.name, s.type, FALSE) /\ todo' = Tail(todo) /\ UNCHANGED <<pc, trap>>
    BY <1>1, <1>5
  <2>2. PICK l \in Local :
           /\ l.off = Len(locals) /\ l.arg = FALSE /\ l.type = s.type
           /\ locals' = Append(locals, l) /\ locals' \in Seq(Local)
           /\ count' = Len(locals') /\ count' \in Nat /\ DOMAIN locals \subseteq DOMAIN locals'
           /\ \A i \in DOMAIN locals : locals'[i] = locals[i]
           /\ \A i \in DOMAIN locals' : i \in DOMAIN locals \/ locals'[i] = l
    <3>1. InBody /\ FALSE \in BOOLEAN
      BY <1>1 DEF InBody
    <3>2. CheckInv /\ s.name \in Names /\ s.type \in Types /\ PushLocal(s.name, s.type, FALSE)
      BY <1>3, <1>5, <2>1
    <3>. QED BY <3>1, <3>2, LocalPushed
  <2>3. PICK pattern : pattern = funcs[bodies + 1].pattern
    OBVIOUS
  <2>4. /\ Placed(locals) /\ Len(params) <= Len(pattern) /\ Declares(locals, pattern, Len(pattern) - Len(params))
        /\ \A i \in DOMAIN locals : locals[i].type \in Types
        /\ locals \in Seq(Local) /\ params \in Seq(PatternPart)
    BY <1>1, <2>3 DEF CheckInv, CheckTypeOK, LocalsDeclared, InBody
  <2>5. Placed(locals')
    BY <2>2, <2>4, PlacedOneMore
  <2>6. Declares(locals', pattern, Len(pattern) - Len(params))
    BY <2>2, <2>4, DeclaresOther
  <2>7. \A j \in DOMAIN locals' : locals'[j].type \in Types
    BY <1>5, <2>2, <2>4
  <2>. QED BY <1>1, <1>2, <2>1, <2>2, <2>3, <2>4, <2>5, <2>6, <2>7, BodyStepKeepsInv
<1>. QED BY <1>4, <1>5

LEMMA BeginStmtStep ==
    ASSUME CheckInv, BeginStmt
    PROVE  CheckInv'
<1> DEFINE list == Frame(todo[1].clauses, <<>>)
<1>1. /\ pc = "stmts" /\ todo # <<>> /\ todo[1].kind # "decl" /\ work' = <<list>> /\ pc' = "clauses"
      /\ UNCHANGED <<funcs, sigs, symbols, counter, nodes, roots, bodies, params, todo, locals, count, slots, errs, trap>>
  BY DEF BeginStmt, signatureVars
<1>2. todo[1].clauses \in Lists
  <2>1. todo \in Seq(Statements)
    BY DEF CheckInv, CheckTypeOK
  <2>2. todo[1] \in Statements
    BY <1>1, <2>1, TailIs
  <2>. QED BY <1>1, <2>2, CheckAssumption
<1>3. list \in List /\ ListOK(nodes, list)
  BY <1>2, ListOpened
<1> HIDE DEF list
<1>4. work' \in Seq(List) /\ DOMAIN work' = 1..1 /\ work'[1] = list /\ work' # <<>>
  BY <1>1, <1>3, OneIs
<1>5. WorkTakes'
  BY <1>1, <1>3, <1>4 DEF WorkTakes
<1>6. CheckTypeOK' /\ Assignments'
  BY <1>1, <1>4 DEF CheckInv, CheckTypeOK, Assignments
<1>7. Phases' /\ OneBody'
  BY <1>1, <1>4 DEF CheckInv, Phases, OneBody, InBody
<1>8. SignaturesKnown' /\ SymbolsDistinct'
  BY <1>1 DEF CheckInv, SignaturesKnown, SymbolsDistinct
<1>9. LocalsDeclared'
  BY <1>1 DEF CheckInv, LocalsDeclared, InBody
<1>10. NodesKnown'
  BY <1>1, NodesKept
<1>. QED BY <1>5, <1>6, <1>7, <1>8, <1>9, <1>10 DEF CheckInv

LEMMA EndBodyStep ==
    ASSUME CheckInv, EndBody
    PROVE  CheckInv'
<1>1. /\ pc = "stmts" /\ slots' = Append(slots, locals) /\ bodies' = bodies + 1 /\ pc' = "bodies"
      /\ locals' = <<>> /\ count' = 0
      /\ UNCHANGED <<funcs, sigs, symbols, counter, work, nodes, roots, params, todo, errs, trap>>
  BY DEF EndBody, signatureVars, clauseVars
<1>2. /\ slots \in Seq(Seq(Local)) /\ Len(slots) = bodies /\ bodies \in Nat /\ locals \in Seq(Local)
      /\ bodies + 1 \in 0..Len(funcs) /\ params = <<>> /\ work = <<>> /\ sigs = Len(funcs)
  <2>1. /\ bodies \in 0..Len(funcs) /\ bodies < Len(funcs) /\ Len(funcs) \in Nat
        /\ slots \in Seq(Seq(Local)) /\ Len(slots) = bodies /\ locals \in Seq(Local)
        /\ params = <<>> /\ work = <<>> /\ sigs = Len(funcs)
    BY <1>1, LenProperties DEF CheckInv, CheckTypeOK, Phases, InBody
  <2>. QED BY <2>1
<1>3. /\ slots' \in Seq(Seq(Local)) /\ Len(slots') = bodies + 1 /\ DOMAIN slots' = 1..bodies+1 /\ DOMAIN slots = 1..bodies
      /\ \A f \in 1..bodies : slots'[f] = slots[f]
      /\ slots'[bodies + 1] = locals
  BY <1>1, <1>2, AppendIs
<1>4. CheckTypeOK' /\ Assignments' /\ WorkTakes'
  BY <1>1, <1>2, <1>3, EmptySeq DEF CheckInv, CheckTypeOK, Assignments, WorkTakes
<1>5. Phases'
  BY <1>1, <1>2 DEF CheckInv, Phases, InBody
<1>6. OneBody'
  <2>1. \A i \in DOMAIN errs : errs[i] = bodies + 1 /\ errs[i] = errs[1]
    BY <1>1 DEF CheckInv, OneBody, InBody
  <2>. QED BY <1>1, <1>2, <2>1 DEF OneBody, InBody
<1>7. SignaturesKnown' /\ SymbolsDistinct'
  BY <1>1 DEF CheckInv, SignaturesKnown, SymbolsDistinct
<1>8. \A f \in 1..bodies+1 : f \in 1..bodies \/ f = bodies + 1
  BY <1>2
<1>9. LocalsDeclared'
  <2>1. Placed(locals) /\ Declares(locals, funcs[bodies + 1].pattern, Len(funcs[bodies + 1].pattern))
    <3>1. PICK pattern : pattern = funcs[bodies + 1].pattern
      OBVIOUS
    <3>2. Placed(locals) /\ Declares(locals, pattern, Len(pattern) - Len(params))
      BY <1>1, <3>1 DEF CheckInv, LocalsDeclared, InBody
    <3>3. Len(pattern) \in Nat
      <4>1. bodies + 1 \in DOMAIN funcs
        BY <1>1, <1>2, LenProperties DEF CheckInv, CheckTypeOK
      <4>2. funcs[bodies + 1] \in Func
        BY <4>1, ElementOfSeq DEF CheckInv, CheckTypeOK
      <4>3. pattern \in Seq(PatternPart)
        BY <3>1, <4>2 DEF Func
      <4>. QED BY <4>3, LenProperties
    <3>4. Len(params) = 0
      BY <1>2
    <3>5. Len(pattern) - Len(params) = Len(pattern)
      BY <3>3, <3>4
    <3>. QED BY <3>1, <3>2, <3>5
  <2>2. \A f \in 1..bodies : Placed(slots[f]) /\ Declares(slots[f], funcs[f].pattern, Len(funcs[f].pattern))
    BY <1>3 DEF CheckInv, LocalsDeclared
  <2>3. \A f \in 1..bodies+1 : Placed(slots'[f]) /\ Declares(slots'[f], funcs[f].pattern, Len(funcs[f].pattern))
    BY <1>3, <1>8, <2>1, <2>2
  <2>. QED BY <1>1, <1>3, <2>3 DEF LocalsDeclared, InBody
<1>10. ASSUME NEW e \in Node, NodeOK(e) PROVE NodeOK(e)'
  <2>1. e.in \in 1..bodies+1
    BY <1>1, <1>10 DEF NodeOK
  <2>2. e.kind = "local" => IsLocalOf(e, slots'[e.in])
    <3>1. CASE e.in \in 1..bodies
      <4>1. e.in <= bodies
        BY <1>2, <3>1
      <4>. QED BY <1>3, <1>10, <3>1, <4>1 DEF NodeOK
    <3>2. CASE e.in = bodies + 1
      <4>1. ~(e.in <= bodies)
        BY <1>2, <3>2
      <4>. QED BY <1>3, <1>10, <3>2, <4>1 DEF NodeOK
    <3>. QED BY <1>8, <2>1, <3>1, <3>2
  <2>3. e.in <= bodies' /\ e.in \in 1..bodies'
    BY <1>1, <1>2, <2>1
  <2>. QED BY <1>1, <1>10, <2>2, <2>3 DEF NodeOK
<1>11. NodesKnown'
  <2>1. \A n \in DOMAIN nodes : nodes[n] \in Node
    BY ElementOfSeq DEF CheckInv, CheckTypeOK
  <2>2. ASSUME NEW n \in DOMAIN nodes PROVE NodeOK(nodes[n])'
    <3>1. PICK e \in Node : e = nodes[n]
      BY <2>1
    <3>2. NodeOK(e)'
      BY <1>10, <3>1 DEF CheckInv, NodesKnown
    <3>3. nodes'[n] = e
      BY <1>1, <3>1
    <3>. QED BY <3>2, <3>3, Zenon DEF NodeOK
  <2>. QED BY <1>1, <2>2 DEF NodesKnown
<1>. QED BY <1>4, <1>5, <1>6, <1>7, <1>9, <1>11 DEF CheckInv

-----------------------------------------------------------------------------
LEMMA InitHolds ==
    ASSUME CheckInit
    PROVE  CheckInv
<1>1. funcs \in Seq(Func) /\ Assignments
  <2>1. PICK t \in Trees : funcs = t \o Builtins
    BY DEF CheckInit
  <2>2. funcs \in Seq(Known)
    BY <2>1, FunctionsAreKnown
  <2>3. funcs \in Seq(Func)
    BY <2>2, SeqMonotonic DEF Known
  <2>4. \A f \in DOMAIN funcs : funcs[f] \in Known
    BY <2>2, ElementOfSeq
  <2>. QED BY <2>3, <2>4 DEF Assignments, Known, GemOnly
<1>2. /\ sigs = 0 /\ bodies = 0 /\ symbols = <<>> /\ counter = 0 /\ params = <<>> /\ todo = <<>>
      /\ locals = <<>> /\ count = 0 /\ slots = <<>> /\ work = <<>> /\ nodes = <<>> /\ roots = <<>>
      /\ errs \in {<<>>, <<0>>} /\ pc = "sigs" /\ trap = "none"
  BY DEF CheckInit
<1>3. DOMAIN symbols = {} /\ DOMAIN slots = {} /\ DOMAIN nodes = {} /\ Len(symbols) = 0 /\ Len(slots) = 0
  BY <1>2
<1>4. errs \in Seq(Nat) /\ \A i \in DOMAIN errs : errs[i] = 0 /\ errs[1] = 0
  <2>1. CASE errs = <<>>
    BY <2>1, EmptySeq
  <2>2. CASE errs = <<0>>
    BY <2>2, OneIs
  <2>. QED BY <1>2, <2>1, <2>2
<1>5. CheckTypeOK
  <2>1. Len(funcs) \in Nat
    BY <1>1, LenProperties
  <2>2. sigs \in 0..Len(funcs) /\ bodies \in 0..Len(funcs)
    BY <1>2, <2>1
  <2>. QED BY <1>1, <1>2, <1>3, <1>4, <2>2, EmptySeq DEF CheckTypeOK
<1>6. Phases /\ SignaturesKnown /\ SymbolsDistinct /\ OneBody
  BY <1>2, <1>3, <1>4 DEF Phases, SignaturesKnown, SymbolsDistinct, OneBody, InBody
<1>7. LocalsDeclared /\ WorkTakes /\ NodesKnown
  BY <1>2, <1>3 DEF LocalsDeclared, InBody, WorkTakes, NodesKnown
<1>. QED BY <1>1, <1>5, <1>6, <1>7 DEF CheckInv

LEMMA StutterKeepsInv ==
    ASSUME CheckInv, UNCHANGED checkVars
    PROVE  CheckInv'
<1>1. UNCHANGED <<funcs, sigs, symbols, counter, work, nodes, roots, bodies, params, todo, locals, count, slots, errs, pc, trap>>
  BY DEF checkVars, signatureVars, clauseVars
<1>2. CheckTypeOK' /\ Assignments' /\ WorkTakes'
  BY <1>1 DEF CheckInv, CheckTypeOK, Assignments, WorkTakes
<1>3. Phases' /\ OneBody' /\ SignaturesKnown' /\ SymbolsDistinct'
  BY <1>1 DEF CheckInv, Phases, OneBody, InBody, SignaturesKnown, SymbolsDistinct
<1>4. LocalsDeclared'
  BY <1>1 DEF CheckInv, LocalsDeclared, InBody
<1>5. NodesKnown'
  BY <1>1, NodesKept
<1>. QED BY <1>2, <1>3, <1>4, <1>5 DEF CheckInv

(* The checker's invariant holds for every tree: whatever the functions,   *)
(* statements, blocks and clauses in parentheses that it is handed.        *)
THEOREM CheckerInvariant == CheckSpec => []CheckInv
<1>1. CheckInit => CheckInv
  BY InitHolds
<1>2. CheckInv /\ [CheckNext]_checkVars => CheckInv'
  BY SigStep, PhaseStep, BeginBodyStep, ParamStep, DeclStep, BeginStmtStep, EndBodyStep, LocalStep, WordStep,
     LiteralStep, PartListStep, ArgumentStep, CallStep, AssignStep, EndListStep, StutterKeepsInv, Zenon
     DEF CheckNext
<1>. QED BY <1>1, <1>2, PTL DEF CheckSpec

(* The arguments of a call are the parameters of its function.             *)
LEMMA ArgumentsAreParameters ==
    ASSUME CheckInv, errs = <<>>, NEW n \in DOMAIN nodes, NEW e, e = nodes[n], IsCall(e), ~WordForParam(e),
           NEW ls \in Seq(Local), NEW pattern \in Seq(PatternPart), pattern = funcs[e.callee].pattern,
           Declares(ls, pattern, Len(pattern))
    PROVE  /\ {i \in DOMAIN ls : ls[i].arg} = DOMAIN e.kids
           /\ \A i \in DOMAIN e.kids : ls[i].type \in {nodes[e.kids[i]].type, "$any"}
           /\ \E pos \in Enum(Len(e.kids), TypedParts(pattern, Len(pattern))) : TRUE
<1>1. NodeOK(e) /\ e.want \in Seq(Wanted) /\ e.kids \in Seq(Nat)
  <2>1. e \in Node
    BY ElementOfSeq DEF CheckInv, CheckTypeOK
  <2>2. NodeOK(e)
    BY DEF CheckInv, NodesKnown
  <2>. QED BY <2>1, <2>2 DEF Node
<1>2. Takes(nodes, e.kids, e.want) /\ Fits(e.want, pattern)
  BY <1>1 DEF NodeOK, IsCall, CallOK
<1> DEFINE kids == e.kids
           want == e.want
<1>3. /\ Len(kids) \in Nat /\ Len(pattern) \in Nat /\ DOMAIN kids = 1..Len(kids) /\ DOMAIN want = 1..Len(want)
      /\ Len(want) = Len(pattern) /\ DOMAIN ls = 1..Len(ls) /\ Len(ls) \in Nat
  BY <1>1, <1>2, LenProperties DEF Fits
<1>4. PICK q \in Enum(Len(kids), TypedWants(want)) : \A i \in 1..Len(kids) : nodes[kids[i]].type = want[q[i]].name
  BY <1>2 DEF Takes
<1>5. PICK m \in 0..Len(ls) : \E pos \in Enum(m, TypedParts(pattern, Len(pattern))) :
         {i \in DOMAIN ls : ls[i].arg} = 1..m /\ \A i \in 1..m : ls[i].type = pattern[pos[i]].type
  BY DEF Declares
<1>6. PICK pos \in Enum(m, TypedParts(pattern, Len(pattern))) :
         {i \in DOMAIN ls : ls[i].arg} = 1..m /\ \A i \in 1..m : ls[i].type = pattern[pos[i]].type
  BY <1>5
<1>7. \A i \in 1..Len(kids) : nodes[kids[i]].type # ""
  <2>1. \A i \in 1..Len(kids) : kids[i] \in DOMAIN nodes
    BY <1>2, <1>3 DEF Takes
  <2>2. \A k \in DOMAIN nodes : nodes[k].type # ""
    BY DEF CheckInv, NodesKnown, NodeOK
  <2>. QED BY <2>1, <2>2
<1> HIDE DEF kids, want
<1>8. TypedWants(want) = TypedParts(pattern, Len(pattern))
  <2>1. ASSUME NEW i \in TypedWants(want) PROVE i \in TypedParts(pattern, Len(pattern))
    <3>1. i \in 1..Len(want) /\ want[i].typed
      BY <2>1 DEF TypedWants
    <3>2. PICK j \in 1..Len(kids) : q[j] = i
      BY <1>4, <2>1 DEF Enum
    <3>3. want[i].name # ""
      BY <1>4, <1>7, <3>2
    <3>4. want[i].name = pattern[i].type \/ pattern[i].type = "$any"
      BY <1>2, <3>1 DEF Fits, want
    <3>5. pattern[i].type # ""
      BY <3>3, <3>4, Zenon
    <3>. QED BY <1>3, <3>1, <3>5, Zenon DEF TypedParts
  <2>2. ASSUME NEW i \in TypedParts(pattern, Len(pattern)) PROVE i \in TypedWants(want)
    <3>1. i \in 1..Len(pattern) /\ pattern[i].type # ""
      BY <2>2, Zenon DEF TypedParts
    <3>2. want[i].typed
      BY <1>3, <3>1, Zenon DEF WordForParam, want
    <3>. QED BY <1>3, <3>1, <3>2 DEF TypedWants
  <2>. QED BY <2>1, <2>2
<1>9. m = Len(kids) /\ \A i \in 1..m : pos[i] = q[i]
  <2>1. PICK S : S = TypedWants(want) /\ S \subseteq Nat
    <3>1. TypedWants(want) \subseteq 1..Len(want)
      BY DEF TypedWants
    <3>2. 1..Len(want) \subseteq Nat
      BY <1>3
    <3>. QED BY <3>1, <3>2, Zenon
  <2>2. PICK k \in Nat : k = Len(kids)
    BY <1>3
  <2>3. pos \in Enum(m, S) /\ q \in Enum(k, S) /\ m \in Nat
    BY <1>3, <1>8, <2>1, <2>2
  <2>4. m <= k /\ \A i \in 1..m : pos[i] = q[i]
    BY <2>1, <2>3, EnumIsUnique
  <2>5. k <= m
    BY <2>1, <2>3, EnumIsUnique
  <2>. QED BY <2>2, <2>3, <2>4, <2>5
<1>10. \A i \in 1..Len(kids) : ls[i].type \in {nodes[kids[i]].type, "$any"}
  <2>. TAKE i \in 1..Len(kids)
  <2>1. q[i] \in TypedWants(want)
    BY <1>4 DEF Enum
  <2>2. q[i] \in 1..Len(want) /\ want[q[i]].typed
    BY <2>1 DEF TypedWants
  <2>3. want[q[i]].name = pattern[q[i]].type \/ pattern[q[i]].type = "$any"
    BY <1>2, <2>2 DEF Fits, want
  <2>4. ls[i].type = pattern[q[i]].type /\ nodes[kids[i]].type = want[q[i]].name
    BY <1>4, <1>6, <1>9
  <2>. QED BY <2>3, <2>4, Zenon
<1>11. {i \in DOMAIN ls : ls[i].arg} = DOMAIN kids
  BY <1>3, <1>6, <1>9
<1>12. \E p \in Enum(Len(kids), TypedParts(pattern, Len(pattern))) : TRUE
  BY <1>4, <1>8
<1>. QED BY <1>3, <1>10, <1>11, <1>12 DEF kids

LEMMA InvSaturates ==
    ASSUME CheckInv
    PROVE  CallsAreSaturated
<1> SUFFICES ASSUME errs = <<>>, NEW n \in DOMAIN nodes,
                    IsCall(nodes[n]), ~WordForParam(nodes[n]), nodes[n].callee \in DOMAIN slots
             PROVE  /\ Accepts(nodes[n].callee, nodes[n].kids)
                    /\ nodes[n].kind = "assign" =>
                          \A i, j \in DOMAIN nodes[n].kids : nodes[nodes[n].kids[i]].type = nodes[nodes[n].kids[j]].type
  BY DEF CallsAreSaturated
<1>1. PICK e \in Node : e = nodes[n]
  BY ElementOfSeq DEF CheckInv, CheckTypeOK
<1>2. NodeOK(e) /\ IsCall(e) /\ ~WordForParam(e) /\ e.callee \in DOMAIN slots
  BY <1>1 DEF CheckInv, NodesKnown
<1>3. PICK ls \in Seq(Local) : ls = slots[e.callee]
  BY <1>2, ElementOfSeq DEF CheckInv, CheckTypeOK
<1>4. e.callee \in DOMAIN funcs /\ (e.kind = "assign" => funcs[e.callee].kind = "assign")
  BY <1>2 DEF NodeOK, CallOK
<1>5. PICK pattern \in Seq(PatternPart) : pattern = funcs[e.callee].pattern
  <2>1. funcs[e.callee] \in Func
    BY <1>4, ElementOfSeq DEF CheckInv, CheckTypeOK
  <2>. QED BY <2>1 DEF Func
<1>6. Declares(ls, pattern, Len(pattern))
  BY <1>2, <1>3, <1>5 DEF CheckInv, LocalsDeclared
<1>7. /\ {i \in DOMAIN ls : ls[i].arg} = DOMAIN e.kids
      /\ \A i \in DOMAIN e.kids : ls[i].type \in {nodes[e.kids[i]].type, "$any"}
      /\ \E pos \in Enum(Len(e.kids), TypedParts(pattern, Len(pattern))) : TRUE
  BY <1>1, <1>2, <1>5, <1>6, ArgumentsAreParameters
<1>8. Accepts(e.callee, e.kids)
  BY <1>3, <1>7 DEF Accepts
<1>9. ASSUME e.kind = "assign" PROVE \A i, j \in DOMAIN e.kids : nodes[e.kids[i]].type = nodes[e.kids[j]].type
  <2>1. Len(pattern) = 4 /\ \A i \in 1..4 : pattern[i].type # "" => i \in {2, 4}
    BY <1>4, <1>5, <1>9 DEF CheckInv, Assignments
  <2>2. TypedParts(pattern, Len(pattern)) \subseteq {2, 4}
    BY <2>1, Zenon DEF TypedParts
  <2>3. PICK pos \in Enum(Len(e.kids), TypedParts(pattern, Len(pattern))) : TRUE
    BY <1>7
  <2>4. /\ \A i \in 1..Len(e.kids) : pos[i] \in {2, 4}
        /\ \A i, j \in 1..Len(e.kids) : i < j => pos[i] < pos[j]
    BY <2>2, <2>3 DEF Enum
  <2>5. Len(e.kids) \in Nat /\ DOMAIN e.kids = 1..Len(e.kids)
    BY LenProperties DEF Node
  <2>6. Len(e.kids) <= 2
    <3>1. ASSUME Len(e.kids) > 2 PROVE FALSE
      <4>1. 1 \in 1..Len(e.kids) /\ 2 \in 1..Len(e.kids) /\ 3 \in 1..Len(e.kids)
        BY <2>5, <3>1
      <4>2. pos[1] < pos[2] /\ pos[2] < pos[3]
        BY <2>4, <4>1
      <4>. QED BY <2>4, <4>1, <4>2
    <3>. QED BY <2>5, <3>1
  <2>7. e.kids # <<>> => nodes[e.kids[1]].type = nodes[e.kids[Len(e.kids)]].type
    BY <1>2, <1>9 DEF NodeOK, EndsAlike
  <2>8. ASSUME NEW i \in DOMAIN e.kids PROVE nodes[e.kids[i]].type = nodes[e.kids[1]].type
    <3>1. e.kids # <<>>
      BY <2>5, EmptySeq
    <3>2. i = 1 \/ i = Len(e.kids)
      BY <2>5, <2>6
    <3>. QED BY <2>7, <3>1, <3>2
  <2>. QED BY <2>8
<1>. QED BY <1>1, <1>8, <1>9

(* Every call of a checked tree without errors hands over as many          *)
(* arguments as the prelude of its function takes from the stack, of their *)
(* types, and every assignment has a source and a target of one type.      *)
THEOREM CallsSaturated == CheckSpec => []CallsAreSaturated
BY CheckerInvariant, InvSaturates, PTL

(* Offsets are places in the function's own list, parameters first, and a  *)
(* word means the first local of its name.                                 *)
THEOREM OwnSlots == CheckSpec => []RefersToOwnSlots
<1>1. CheckInv => RefersToOwnSlots
  <2>. SUFFICES ASSUME CheckInv PROVE RefersToOwnSlots
    OBVIOUS
  <2>1. \A f \in DOMAIN slots : Placed(slots[f])
    BY DEF CheckInv, LocalsDeclared
  <2>2. ASSUME NEW n \in DOMAIN nodes, nodes[n].kind = "local", nodes[n].in \in DOMAIN slots
        PROVE  IsLocalOf(nodes[n], slots[nodes[n].in])
    <3>1. NodeOK(nodes[n])
      BY DEF CheckInv, NodesKnown
    <3>2. DOMAIN slots = 1..bodies /\ bodies \in Nat
      BY LenProperties DEF CheckInv, CheckTypeOK
    <3>3. nodes[n].in <= bodies
      BY <2>2, <3>2
    <3>. QED BY <2>2, <3>1, <3>3 DEF NodeOK
  <2>. QED BY <2>1, <2>2 DEF RefersToOwnSlots, Placed, IsLocalOf
<1>. QED BY <1>1, CheckerInvariant, PTL

(* Whoever asks an expression for its type gets one, and no two user       *)
(* functions have the same symbol.                                         *)
THEOREM TypesAreKnown == CheckSpec => []ExpressionsTyped
<1>1. CheckInv => ExpressionsTyped
  BY DEF CheckInv, CheckTypeOK, SymbolsDistinct, ExpressionsTyped
<1>. QED BY <1>1, CheckerInvariant, PTL

(* All errors are in one body, and no body is checked after it.            *)
THEOREM OneBodyFails == CheckSpec => []ErrorsOfOneBody
<1>1. CheckInv => ErrorsOfOneBody
  <2>. SUFFICES ASSUME CheckInv PROVE ErrorsOfOneBody
    OBVIOUS
  <2>1. errs # <<>> => 1 \in DOMAIN errs
    <3>1. errs \in Seq(Nat)
      BY DEF CheckInv, CheckTypeOK
    <3>. QED BY <3>1, TailIs
  <2>. QED BY <2>1 DEF CheckInv, OneBody, ErrorsOfOneBody
<1>. QED BY <1>1, CheckerInvariant, PTL
=============================================================================
