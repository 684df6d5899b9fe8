------------------------------- MODULE MCCheck -------------------------------
(***************************************************************************)
(* Trees for the checker: every clause of up to three parts over the words *)
(* of the patterns, literals, a local and nested lists, in a function that *)
(* may declare a local and call another one declared after it.             *)
(***************************************************************************)
EXTENDS DkCheckProps, Functions

Wd(w) == [kind |-> "word", word |-> w]
Lit(ty) == [kind |-> "literal", type |-> ty]
Sub(list) == [kind |-> "list", list |-> list]

Decl(name, ty) == [kind |-> "decl", name |-> name, type |-> ty]
Do(list) == [kind |-> "expr", clauses |-> list, then |-> <<>>, else |-> <<>>]
If(list, then, else) == [kind |-> "if", clauses |-> list, then |-> then, else |-> else]
User(pattern, ret, stmts) == [kind |-> "user", pattern |-> pattern, returns |-> ret, stmts |-> stmts]

Vis(ty, ret) == User(<<W("vis"), T("x", ty)>>, ret, <<Do(<<<<Wd("print"), Wd("x")>>>>)>>)
Main(stmts)  == User(<<W("main")>>, "heltal", stmts)

Parts == {Wd("vis"), Wd("x"), Wd("a"), Wd("main"), Lit("heltal"), Lit("flyder"), Sub(<<<<Wd("vis"), Lit("heltal")>>>>),
          Sub(<<<<Lit("heltal")>>, <<Lit("flyder")>>>>)}
ShortClauses == {<<p>> : p \in Parts} \cup {<<p, q>> : p, q \in Parts}
Assigns == {<<Wd("gem"), p, Wd("i"), q>> : p \in Parts \cup {Wd("src")}, q \in Parts \cup {Wd("dst")}}
Sums    == {<<Wd("laeg"), p, Wd("sammen"), Wd("med"), q>> : p \in Parts, q \in Parts \cup {Wd("b")}}

Decls == {<<>>, <<Decl("a", "heltal")>>, <<Decl("b", "flyder"), Decl("a", "flyder"), Decl("a", "heltal")>>}

Single ==
    {<<Main(d \o <<Do(<<c>>)>>), Vis(ty, "flyder")>> :
        d \in Decls, c \in ShortClauses \cup Assigns \cup Sums, ty \in {"heltal", "flyder"}}

(* Blocks, functions of the same pattern, errors in two functions, types   *)
(* that do not exist, a function that calls itself.                        *)
Others ==
    { <<Main(<<If(<<<<Lit("paastand")>>>>, <<Decl("a", "heltal")>>, <<Decl("a", "flyder")>>),
               Do(<<<<Wd("print"), Wd("a")>>, <<Wd("vis"), Wd("a")>>>>)>>), Vis("heltal", "heltal")>>,
      <<Vis("heltal", "flyder"), Vis("heltal", "heltal"), Main(<<Do(<<<<Wd("print"), Sub(<<<<Wd("vis"), Lit("heltal")>>>>)>>>>)>>)>>,
      <<Main(<<Do(<<<<Wd("y")>>, <<Wd("z")>>>>), Decl("a", "heltal"), Do(<<<<Wd("a")>>>>)>>), Main(<<Do(<<<<Wd("z")>>>>)>>)>>,
      <<User(<<W("main")>>, "tal", <<>>)>>, <<Vis("tal", "heltal")>>, <<Main(<<Decl("a", "tal")>>)>>,
      <<User(<<W("f"), T("x", "flyder"), T("y", "heltal")>>, "flyder",
             <<Do(<<<<Wd("f"), Sub(<<<<Wd("f"), Wd("x"), Wd("y")>>>>), Wd("y")>>>>)>>)>>,
      <<>> }

AllNames == STRING
AllTrees == Single \cup Others

(* Everything in the trees: blocks and parentheses are nested.             *)
RECURSIVE WithBlocks(_), WithInner(_)
WithBlocks(stmts) == UNION { {s} \cup IF s.kind = "decl" THEN {} ELSE WithBlocks(s.then) \cup WithBlocks(s.else) : s \in Range(stmts)}
WithInner(list)   == {list} \cup UNION {WithInner(p.list) : p \in {q \in UNION {Range(c) : c \in Range(list)} : q.kind = "list"}}

AllStatements == UNION {WithBlocks(f.stmts) : f \in UNION {Range(t) : t \in AllTrees}}
AllLists      == UNION {WithInner(s.clauses) : s \in {s \in AllStatements : s.kind # "decl"}}
=============================================================================
