---------------------------- MODULE DkParseProofs ----------------------------
(***************************************************************************)
(* Proofs about the parser, for every set of texts: every node was written *)
(* where it stands, and no word of the text leaves the tree in silence.    *)
(***************************************************************************)
EXTENDS DkParseProps, SequenceTheorems, WellFoundedInduction, TLAPS

(* Words that the grammar asks for, or lets be left out: they are eaten    *)
(* without a trace.  "lad" is known by the name that follows it.           *)
Structure == {"offentlig", "og", "en", "et", "vaere", "som", "tilbagegiver", "goddag", "farvel", "lad"}
Content(t) == t.kind \in {"word", "literal", "comma"} /\ t.text \notin Structure

(* Nodes that stand for no token, and the token that a node is made of.    *)
Silent(n) == n.node \in {"list", "begin", "end"} \/ (n.node = "stmt" /\ n.text = "")
Names == {"param", "type", "decl", "returns"}
Says(t, n) ==
    /\ n.node \in {"word", "literal"} => t.kind = n.node
    /\ n.node \in Names   => t.kind = "word"
    /\ n.node = "next"    => t.kind = "comma"
    /\ n.node = "close"   => t.kind = "paren_close"
    /\ n.node = "func"    => t.text = "funktion"
    /\ n.node = "else"    => t.text = "ellers"
    /\ n.node \in Names \cup {"word", "literal", "stmt"} => t.text = n.text

(* at[i] is the token of the text tx, before the one at p, that node i of  *)
(* the tree tr is made of: the order is kept, and (Covers) no token with   *)
(* content is left out.                                                    *)
Traces(tx, tr, p, at) ==
    /\ at \in [DOMAIN tr -> Nat]
    /\ \A i \in DOMAIN tr : ~Silent(tr[i]) => at[i] \in 1 .. p - 1 /\ Says(tx[at[i]], tr[i])
    /\ \A i, j \in DOMAIN tr : i < j /\ ~Silent(tr[i]) /\ ~Silent(tr[j]) => at[i] < at[j]
Covers(tx, tr, p, at) ==
    \A k \in 1 .. p - 1 : Content(tx[k]) => \E i \in DOMAIN tr : ~Silent(tr[i]) /\ at[i] = k

(* A clause is due where a dot stands: the program is about to stop.       *)
Stopping == work # <<>> /\ Peek.kind = "dot" /\ (Top = "list" \/ (Top = "clause" /\ Arg = 0))

Sound == errs = <<>> /\ trap = "none" /\ ~EmptyParen

(* As long as nothing was reported: the nodes of the tree are tokens of    *)
(* the text in its order, and every word, literal and comma of the text up *)
(* to peek other than those of the grammar is one of them, unless the      *)
(* program is about to stop.                                               *)
TreeSaysText ==
    Sound => \E at \in [DOMAIN tree -> Nat] : /\ Traces(text, tree, peek, at)
                                              /\ Stopping \/ Covers(text, tree, peek, at)

-----------------------------------------------------------------------------
(* The C call stack.                                                       *)
Plain == ({"text", "maybe"} \X Structure)
         \cup ({"kind"} \X {"dot", "paren_close"})
         \cup ({"field"} \X Names)
         \cup ({"list", "stmt", "stmts", "block", "else", "pattern", "func", "tree"} \X {0})
Item == Plain \cup ({"more"} \X {0}) \cup ({"clause", "paren"} \X Nat)

(* What may stand just above what: "more" is met after a clause only, a    *)
(* parenthesis after a list of clauses only, and it belongs to a clause.   *)
Fits(a, b) ==
    /\ b[1] = "more"  => a[1] = "clause"
    /\ b[1] = "paren" => a[1] \in {"list", "more"}
    /\ a[1] = "paren" => b[1] = "clause"

(* n nodes are in the tree: an outer parenthesis began before an inner     *)
(* one, and those that wait for a list hold a node.                        *)
ParensNest(w, n) ==
    /\ \A j \in 1 .. Len(w) : w[j][1] = "paren" =>
           j < Len(w) /\ w[j][2] <= n /\ (j > 1 => w[j][2] < n)
    /\ \A i, j \in 1 .. Len(w) : i < j /\ w[i][1] = "paren" /\ w[j][1] = "paren" => w[j][2] < w[i][2]

StackOK(w, n) ==
    /\ w \in Seq(Item)
    /\ \A j \in 1 .. Len(w) - 1 : Fits(w[j], w[j + 1])
    /\ ParensNest(w, n)

(* (The provers do not know of "" that it is a string.)                    *)
Kinds    == {"eof", "dot", "comma", "paren_open", "paren_close", "literal", "word"}
TreeNode == [node : Names \cup {"func", "stmt", "begin", "end", "else", "list", "close", "next", "word", "literal"},
             text : STRING \cup {""}]
ParseTypeOK ==
    /\ text \in Texts /\ text \in Seq(Token)
    /\ peek \in 1 .. Len(text) + 1 /\ Peek.kind # "comment"
    /\ tree \in Seq(TreeNode)
    /\ errs \in Seq(Nat) /\ trap \in {"none", "assert"}
    /\ StackOK(work, Len(tree))

(* After a clause stands no word, literal or parenthesis; so a parenthesis *)
(* that has had a list has no other to come, or the program stops at it.   *)
Opened == \E i \in DOMAIN text : text[i].kind = "paren_open" /\ peek = After(text, i)
TopOK ==
    work # <<>> =>
        /\ Top = "more" => Peek.kind \notin {"word", "literal", "paren_open"}
        /\ Top = "paren" => \/ Len(tree) = Arg /\ Opened
                            \/ Len(tree) > Arg /\ Peek.kind \in {"eof", "paren_close", "dot"}

ParseInv == ParseTypeOK /\ (Sound => TopOK) /\ TreeSaysText
-----------------------------------------------------------------------------
(* The next token that is no comment.                                      *)
LEMMA LeastToken ==
    ASSUME NEW S, S \subseteq Nat, S # {}
    PROVE  \E x \in S : \A y \in S : x <= y
<1>1. PICK x \in S : \A y \in S : ~(<<y, x>> \in OpToRel(<, Nat))
  BY WFMin, NatLessThanWellFounded, Zenon
<1>2. \A y \in S : ~(y < x)
  BY <1>1 DEF OpToRel
<1>. QED BY <1>2

LEMMA AfterIsNext ==
    ASSUME NEW toks \in Seq(Token), NEW n \in 0 .. Len(toks) + 1
    PROVE  /\ After(toks, n) \in 1 .. Len(toks) + 1
           /\ n <= After(toks, n) /\ (n <= Len(toks) => n < After(toks, n))
           /\ \A k \in n + 1 .. After(toks, n) - 1 : toks[k].kind = "comment"
           /\ After(toks, n) <= Len(toks) => toks[After(toks, n)].kind # "comment"
<1>. DEFINE S == {m \in n + 1 .. Len(toks) : toks[m].kind # "comment"}
<1>. Len(toks) \in Nat
  OBVIOUS
<1>1. CASE S = {}
  <2>1. After(toks, n) = Len(toks) + 1
    BY <1>1 DEF After
  <2>2. \A k \in n + 1 .. Len(toks) : toks[k].kind = "comment"
    BY <1>1
  <2>. QED BY <2>1, <2>2
<1>2. CASE S # {}
  <2>1. PICK x \in S : \A y \in S : x <= y
    <3>1. S \subseteq Nat
      OBVIOUS
    <3>. HIDE DEF S
    <3>. QED BY <1>2, <3>1, LeastToken
  <2>2. \E m \in n + 1 .. Len(toks) :
            toks[m].kind # "comment" /\ \A k \in n + 1 .. m - 1 : toks[k].kind = "comment"
    <3>1. \A k \in n + 1 .. x - 1 : k \notin S
      BY <2>1
    <3>2. \A k \in n + 1 .. x - 1 : toks[k].kind = "comment"
      BY <3>1
    <3>. QED BY <3>2
  <2>. DEFINE a == After(toks, n)
  <2>3. a \in n + 1 .. Len(toks) /\ toks[a].kind # "comment" /\ \A k \in n + 1 .. a - 1 : toks[k].kind = "comment"
    BY <2>2 DEF After
  <2>. QED BY <2>3
<1>. QED BY <1>1, <1>2

(* Eating.                                                                 *)
LEMMA EatIsNext ==
    ASSUME ParseTypeOK, Eat, UNCHANGED text
    PROVE  /\ peek' \in 1 .. Len(text') + 1 /\ (Peek.kind # "comment")'
           /\ peek <= Len(text) => peek < peek'
           /\ peek <= peek'
           /\ \A k \in peek + 1 .. peek' - 1 : ~Content(text[k])
<1>1. /\ peek' \in 1 .. Len(text) + 1
      /\ peek <= peek' /\ (peek <= Len(text) => peek < peek')
      /\ \A k \in peek + 1 .. peek' - 1 : text[k].kind = "comment"
      /\ peek' <= Len(text) => text[peek'].kind # "comment"
  BY AfterIsNext DEF ParseTypeOK, Eat
<1>2. \A k \in peek + 1 .. peek' - 1 : ~Content(text[k])
  BY <1>1 DEF Content
<1>3. (Peek.kind # "comment")'
  BY <1>1 DEF Peek, TokenAt, NullToken, ParseTypeOK
<1>. QED BY <1>1, <1>2, <1>3 DEF ParseTypeOK

HasToken == Peek.kind # "eof" \/ Peek.text # ""

LEMMA PeekIsToken ==
    ASSUME ParseTypeOK
    PROVE  /\ Peek.kind \in Kinds /\ Peek.text \in STRING \cup {""}
           /\ HasToken => peek \in 1 .. Len(text) /\ Peek = text[peek]
<1>1. CASE peek \in 1 .. Len(text)
  <2>1. Peek = text[peek] /\ text[peek] \in Token
    BY <1>1, ElementOfSeq DEF ParseTypeOK, Peek, TokenAt
  <2>. QED BY <1>1, <2>1 DEF ParseTypeOK, Token, Kinds
<1>2. CASE peek \notin 1 .. Len(text)
  <2>1. Peek = NullToken
    BY <1>2 DEF ParseTypeOK, Peek, TokenAt
  <2>. QED BY <2>1 DEF NullToken, Kinds, HasToken
<1>. QED BY <1>1, <1>2

-----------------------------------------------------------------------------
(* The stack: what pops, and what is pushed over it.                       *)
LEMMA ItemFields ==
    ASSUME NEW x \in Item
    PROVE  x = <<x[1], x[2]>> /\ (x[1] \in {"clause", "paren"} => x[2] \in Nat)
<1>1. CASE x \in Plain
  BY <1>1 DEF Plain
<1>2. CASE x \in {"more"} \X {0}
  BY <1>2
<1>3. CASE x \in {"clause", "paren"} \X Nat
  BY <1>3
<1>. QED BY <1>1, <1>2, <1>3 DEF Item

LEMMA Waits ==
    ASSUME NEW n \in Nat, NEW m \in Nat, n <= m, NEW w, StackOK(w, n)
    PROVE  StackOK(w, m)
<1>1. \A j \in 1 .. Len(w) : w[j][1] = "paren" => w[j][2] \in Nat
  BY ItemFields, ElementOfSeq DEF StackOK
<1>2. ParensNest(w, m)
  BY <1>1 DEF StackOK, ParensNest
<1>. QED BY <1>2 DEF StackOK

LEMMA Pop ==
    ASSUME NEW n \in Nat, NEW m \in Nat, n <= m, NEW w, StackOK(w, n), w # <<>>
    PROVE  /\ StackOK(Tail(w), m)
           /\ Tail(w) # <<>> => /\ Tail(w)[1] = w[2] /\ Fits(w[1], Tail(w)[1])
                                /\ w[2] \in Item /\ (w[2][1] = "paren" => w[2][2] < n)
<1>1. w \in Seq(Item) /\ Len(w) \in Nat /\ Len(w) > 0
  BY DEF StackOK
<1>2. Tail(w) \in Seq(Item) /\ Len(Tail(w)) = Len(w) - 1 /\ \A i \in 1 .. Len(w) - 1 : Tail(w)[i] = w[i + 1]
  BY <1>1, HeadTailProperties
<1>3. \A j \in 1 .. Len(Tail(w)) - 1 : Fits(Tail(w)[j], Tail(w)[j + 1])
  <2>1. \A j \in 1 .. Len(w) - 1 : Fits(w[j], w[j + 1])
    BY DEF StackOK
  <2>. QED BY <1>1, <1>2, <2>1
<1>4. \A j \in 1 .. Len(w) : w[j][1] = "paren" => w[j][2] \in Nat
  BY ItemFields, ElementOfSeq DEF StackOK
<1>5. ParensNest(Tail(w), m)
  <2>1. ParensNest(w, n)
    BY DEF StackOK
  <2>2. ASSUME NEW j \in 1 .. Len(Tail(w)), Tail(w)[j][1] = "paren"
        PROVE  j < Len(Tail(w)) /\ Tail(w)[j][2] <= m /\ (j > 1 => Tail(w)[j][2] < m)
    <3>. DEFINE k == w[j + 1][2]
    <3>1. j + 1 \in 1 .. Len(w) /\ Tail(w)[j] = w[j + 1] /\ j + 1 > 1
      BY <1>1, <1>2
    <3>2. j + 1 < Len(w) /\ k < n /\ k \in Nat
      BY <1>1, <1>4, <2>1, <2>2, <3>1 DEF ParensNest
    <3>3. j < Len(Tail(w)) /\ k < m /\ k <= m
      BY <1>1, <1>2, <3>2
    <3>. QED BY <3>1, <3>3
  <2>3. ASSUME NEW i \in 1 .. Len(Tail(w)), NEW j \in 1 .. Len(Tail(w)),
               i < j, Tail(w)[i][1] = "paren", Tail(w)[j][1] = "paren"
        PROVE  Tail(w)[j][2] < Tail(w)[i][2]
    <3>1. /\ i + 1 \in 1 .. Len(w) /\ j + 1 \in 1 .. Len(w) /\ i + 1 < j + 1
          /\ Tail(w)[i] = w[i + 1] /\ Tail(w)[j] = w[j + 1]
      BY <1>1, <1>2, <2>3
    <3>. QED BY <2>1, <2>3, <3>1 DEF ParensNest
  <2>. QED BY <2>2, <2>3 DEF ParensNest
<1>6. ASSUME Tail(w) # <<>>
      PROVE  /\ Tail(w)[1] = w[2] /\ Fits(w[1], Tail(w)[1])
             /\ w[2] \in Item /\ (w[2][1] = "paren" => w[2][2] < n)
  <2>1. Len(w) >= 2
    BY <1>1, <1>2, <1>6, EmptySeq
  <2>2. Tail(w)[1] = w[2] /\ w[2] \in Item
    BY <1>1, <1>2, <2>1
  <2>3. Fits(w[1], w[2])
    <3>1. 1 \in 1 .. Len(w) - 1 /\ 1 + 1 = 2
      BY <1>1, <2>1
    <3>. QED BY <3>1 DEF StackOK
  <2>4. w[2][1] = "paren" => w[2][2] < n
    BY <1>1, <2>1 DEF StackOK, ParensNest
  <2>. QED BY <2>2, <2>3, <2>4
<1>. QED BY <1>2, <1>3, <1>5, <1>6 DEF StackOK

LEMMA Push ==
    ASSUME NEW n \in Nat, NEW m \in Nat, n <= m, NEW w, StackOK(w, n),
           NEW q \in Seq(Item), q # <<>>,
           \A j \in 1 .. Len(q) : q[j][1] # "paren",
           \A j \in 1 .. Len(q) - 1 : Fits(q[j], q[j + 1]),
           w # <<>> => Fits(q[Len(q)], w[1]) /\ (w[1][1] = "paren" => w[1][2] < m)
    PROVE  StackOK(q \o w, m) /\ q \o w # <<>> /\ (q \o w)[1] = q[1]
<1>. DEFINE s == q \o w
<1>1. w \in Seq(Item) /\ Len(w) \in Nat /\ Len(q) \in Nat /\ Len(q) > 0
  BY DEF StackOK
<1>2. /\ s \in Seq(Item) /\ Len(s) = Len(q) + Len(w)
      /\ \A i \in 1 .. Len(q) : s[i] = q[i]
      /\ \A i \in Len(q) + 1 .. Len(s) : i - Len(q) \in 1 .. Len(w) /\ s[i] = w[i - Len(q)]
  <2>1. /\ s \in Seq(Item) /\ Len(s) = Len(q) + Len(w)
        /\ \A i \in 1 .. Len(q) + Len(w) : s[i] = IF i <= Len(q) THEN q[i] ELSE w[i - Len(q)]
    BY <1>1, ConcatProperties
  <2>. QED BY <1>1, <2>1
<1>. HIDE DEF s
<1>3. ASSUME NEW j \in 1 .. Len(s) - 1 PROVE Fits(s[j], s[j + 1])
  <2>1. CASE j < Len(q)
    BY <1>1, <1>2, <2>1
  <2>2. CASE j = Len(q)
    <3>1. s[j] = q[Len(q)] /\ s[j + 1] = w[1] /\ w # <<>>
      BY <1>1, <1>2, <2>2
    <3>. QED BY <3>1
  <2>3. CASE j > Len(q)
    <3>1. j - Len(q) \in 1 .. Len(w) - 1 /\ s[j] = w[j - Len(q)] /\ s[j + 1] = w[(j - Len(q)) + 1]
      BY <1>1, <1>2, <2>3
    <3>. QED BY <3>1 DEF StackOK
  <2>. QED BY <1>1, <2>1, <2>2, <2>3
<1>4. \A j \in 1 .. Len(w) : w[j][1] = "paren" => w[j][2] \in Nat
  BY ItemFields, ElementOfSeq DEF StackOK
<1>5. ParensNest(w, n)
  BY DEF StackOK
<1>6. ASSUME NEW j \in 1 .. Len(s), s[j][1] = "paren"
      PROVE  j - Len(q) \in 1 .. Len(w) /\ s[j] = w[j - Len(q)] /\ j < Len(s) /\ s[j][2] < m
  <2>1. j > Len(q) /\ j - Len(q) \in 1 .. Len(w) /\ s[j] = w[j - Len(q)]
    BY <1>1, <1>2, <1>6
  <2>2. w # <<>>
    BY <1>1, <2>1
  <2>3. j - Len(q) < Len(w) /\ w[j - Len(q)][2] \in Nat /\ (j - Len(q) > 1 => w[j - Len(q)][2] < n)
    BY <1>4, <1>5, <1>6, <2>1 DEF ParensNest
  <2>. QED BY <1>1, <1>2, <1>6, <2>1, <2>2, <2>3
<1>7. ParensNest(s, m)
  <2>1. \A j \in 1 .. Len(s) : s[j][1] = "paren" => j < Len(s) /\ s[j][2] <= m /\ (j > 1 => s[j][2] < m)
    <3>. SUFFICES ASSUME NEW j \in 1 .. Len(s), s[j][1] = "paren"
                  PROVE  j < Len(s) /\ s[j][2] < m /\ s[j][2] \in Nat
      OBVIOUS
    <3>. QED BY <1>4, <1>6
  <2>2. ASSUME NEW i \in 1 .. Len(s), NEW j \in 1 .. Len(s), i < j, s[i][1] = "paren", s[j][1] = "paren"
        PROVE  s[j][2] < s[i][2]
    <3>1. /\ i - Len(q) \in 1 .. Len(w) /\ s[i] = w[i - Len(q)]
          /\ j - Len(q) \in 1 .. Len(w) /\ s[j] = w[j - Len(q)]
      BY <1>6, <2>2
    <3>2. i - Len(q) < j - Len(q)
      BY <1>1, <2>2
    <3>. QED BY <1>5, <2>2, <3>1, <3>2 DEF ParensNest
  <2>. QED BY <2>1, <2>2 DEF ParensNest
<1>8. s # <<>> /\ s[1] = q[1]
  BY <1>1, <1>2
<1>. QED BY <1>2, <1>3, <1>7, <1>8 DEF StackOK, s

-----------------------------------------------------------------------------
(* The tree: what a node that is added says.                               *)
LEMMA NodeAdded ==
    ASSUME NEW tr \in Seq(TreeNode), NEW n \in TreeNode
    PROVE  /\ Append(tr, n) \in Seq(TreeNode) /\ Len(tr) \in Nat
           /\ DOMAIN tr = 1 .. Len(tr) /\ DOMAIN Append(tr, n) = 1 .. Len(tr) + 1
           /\ Len(Append(tr, n)) = Len(tr) + 1
           /\ \A i \in 1 .. Len(tr) : Append(tr, n)[i] = tr[i]
           /\ Append(tr, n)[Len(tr) + 1] = n
BY AppendProperties, LenProperties

LEMMA TraceOfMore ==
    ASSUME NEW tx, NEW tr \in Seq(TreeNode), NEW p \in Nat, NEW q \in Nat, p <= q, NEW at,
           Traces(tx, tr, p, at), \A k \in p .. q - 1 : ~Content(tx[k])
    PROVE  Traces(tx, tr, q, at) /\ (Covers(tx, tr, p, at) => Covers(tx, tr, q, at))
<1>1. \A i \in DOMAIN tr : ~Silent(tr[i]) => at[i] \in 1 .. q - 1
  <2>. SUFFICES ASSUME NEW i \in DOMAIN tr, ~Silent(tr[i]) PROVE at[i] \in 1 .. q - 1
    OBVIOUS
  <2>1. at[i] \in 1 .. p - 1
    BY DEF Traces
  <2>. QED BY <2>1
<1>2. Covers(tx, tr, p, at) => Covers(tx, tr, q, at)
  <2>. SUFFICES ASSUME Covers(tx, tr, p, at), NEW k \in 1 .. q - 1, Content(tx[k])
                PROVE  \E i \in DOMAIN tr : ~Silent(tr[i]) /\ at[i] = k
    BY DEF Covers
  <2>1. k \in 1 .. p - 1
    OBVIOUS
  <2>. QED BY <2>1 DEF Covers
<1>. QED BY <1>1, <1>2 DEF Traces

LEMMA TraceOfNode ==
    ASSUME NEW tx, NEW tr \in Seq(TreeNode), NEW n \in TreeNode,
           NEW p \in Nat \ {0}, NEW q \in Nat, p <= q, NEW at, Traces(tx, tr, p, at),
           ~Silent(n) => p < q /\ Says(tx[p], n),
           \A k \in (IF Silent(n) THEN p ELSE p + 1) .. q - 1 : ~Content(tx[k])
    PROVE  LET t2 == Append(tr, n)
           IN  \E at2 \in [DOMAIN t2 -> Nat] : Traces(tx, t2, q, at2) /\ (Covers(tx, tr, p, at) => Covers(tx, t2, q, at2))
<1>. DEFINE t2 == Append(tr, n)
            z == Len(tr) + 1
<1>1. /\ Len(tr) \in Nat /\ DOMAIN tr = 1 .. Len(tr) /\ DOMAIN t2 = 1 .. z
      /\ \A i \in 1 .. Len(tr) : t2[i] = tr[i]
      /\ t2[z] = n
  BY NodeAdded
<1>. HIDE DEF t2
<1>. DEFINE at2 == [i \in DOMAIN t2 |-> IF i <= Len(tr) THEN at[i] ELSE p]
<1>2. /\ at2 \in [DOMAIN t2 -> Nat] /\ at2[z] = p
      /\ \A i \in 1 .. Len(tr) : at2[i] = at[i]
  BY <1>1 DEF Traces
<1>. HIDE DEF at2
<1>3. ASSUME NEW i \in 1 .. Len(tr), ~Silent(tr[i])
      PROVE  at[i] \in 1 .. p - 1 /\ Says(tx[at[i]], tr[i])
  BY <1>1, <1>3 DEF Traces
<1>4. Traces(tx, t2, q, at2)
  <2>1. ASSUME NEW i \in DOMAIN t2, ~Silent(t2[i]) PROVE at2[i] \in 1 .. q - 1 /\ Says(tx[at2[i]], t2[i])
    <3>1. CASE i = z
      BY <1>1, <1>2, <2>1, <3>1
    <3>2. CASE i # z
      <4>1. i \in 1 .. Len(tr) /\ t2[i] = tr[i] /\ at2[i] = at[i]
        BY <1>1, <1>2, <3>2
      <4>2. at[i] \in 1 .. p - 1 /\ Says(tx[at[i]], tr[i])
        BY <1>3, <2>1, <4>1
      <4>. QED BY <4>1, <4>2
    <3>. QED BY <3>1, <3>2
  <2>2. ASSUME NEW i \in DOMAIN t2, NEW j \in DOMAIN t2, i < j, ~Silent(t2[i]), ~Silent(t2[j])
        PROVE  at2[i] < at2[j]
    <3>1. i \in 1 .. Len(tr) /\ t2[i] = tr[i] /\ at2[i] = at[i]
      BY <1>1, <1>2, <2>2
    <3>2. CASE j = z
      <4>1. at[i] \in 1 .. p - 1
        BY <1>3, <2>2, <3>1
      <4>. QED BY <1>2, <3>1, <3>2, <4>1
    <3>3. CASE j # z
      <4>1. j \in 1 .. Len(tr) /\ t2[j] = tr[j] /\ at2[j] = at[j]
        BY <1>1, <1>2, <2>2, <3>3
      <4>. QED BY <1>1, <2>2, <3>1, <4>1 DEF Traces
    <3>. QED BY <3>2, <3>3
  <2>. QED BY <1>2, <2>1, <2>2 DEF Traces
<1>5. ASSUME Covers(tx, tr, p, at), NEW k \in 1 .. q - 1, Content(tx[k])
      PROVE  \E i \in DOMAIN t2 : ~Silent(t2[i]) /\ at2[i] = k
  <2>1. CASE k \in 1 .. p - 1
    <3>1. PICK i \in 1 .. Len(tr) : ~Silent(tr[i]) /\ at[i] = k
      BY <1>1, <1>5, <2>1 DEF Covers
    <3>2. i \in DOMAIN t2 /\ t2[i] = tr[i] /\ at2[i] = at[i]
      BY <1>1, <1>2
    <3>. QED BY <3>1, <3>2
  <2>2. CASE k \notin 1 .. p - 1
    <3>1. k \in p .. q - 1
      BY <2>2
    <3>2. ~Silent(n) /\ k = p
      BY <1>5, <3>1
    <3>3. z \in DOMAIN t2
      BY <1>1
    <3>. QED BY <1>1, <1>2, <3>2, <3>3
  <2>. QED BY <2>1, <2>2
<1>6. Covers(tx, tr, p, at) => Covers(tx, t2, q, at2)
  BY <1>5 DEF Covers
<1>7. \E at3 \in [DOMAIN t2 -> Nat] : Traces(tx, t2, q, at3) /\ (Covers(tx, tr, p, at) => Covers(tx, t2, q, at3))
  BY <1>2, <1>4, <1>6
<1>. QED BY <1>7 DEF t2

(* Nodes that are forgotten leave a tree that says no more than before.    *)
LEMMA TraceOfPart ==
    ASSUME NEW tx, NEW tr \in Seq(TreeNode), NEW p \in Nat, NEW at, Traces(tx, tr, p, at), NEW a \in 0 .. Len(tr)
    PROVE  /\ SubSeq(tr, 1, a) \in Seq(TreeNode) /\ Len(SubSeq(tr, 1, a)) = a
           /\ \E at2 \in [1 .. a -> Nat] : Traces(tx, SubSeq(tr, 1, a), p, at2)
<1>. DEFINE s == SubSeq(tr, 1, a)
<1>1. Len(tr) \in Nat /\ DOMAIN tr = 1 .. Len(tr)
  BY LenProperties
<1>2. s \in Seq(TreeNode) /\ Len(s) = a /\ DOMAIN s = 1 .. a /\ \A i \in 1 .. a : s[i] = tr[i]
  <2>1. \A i \in 1 .. a : tr[i] \in TreeNode
    BY <1>1, ElementOfSeq
  <2>2. /\ s \in Seq(TreeNode) /\ Len(s) = IF 1 <= a THEN a - 1 + 1 ELSE 0
        /\ \A i \in 1 .. a - 1 + 1 : s[i] = tr[1 + i - 1]
    BY <1>1, <2>1, SubSeqProperties
  <2>3. a - 1 + 1 = a /\ \A i \in 1 .. a : 1 + i - 1 = i
    BY <1>1
  <2>4. Len(s) = a /\ \A i \in 1 .. a : s[i] = tr[i]
    BY <1>1, <2>2, <2>3
  <2>. QED BY <2>2, <2>4, LenProperties
<1>. HIDE DEF s
<1>. DEFINE at2 == [i \in 1 .. a |-> at[i]]
<1>3. at2 \in [1 .. a -> Nat] /\ \A i \in 1 .. a : at2[i] = at[i]
  BY <1>1 DEF Traces
<1>. HIDE DEF at2
<1>4. \A i \in DOMAIN s : i \in DOMAIN tr /\ s[i] = tr[i] /\ at2[i] = at[i]
  BY <1>1, <1>2, <1>3
<1>5. Traces(tx, s, p, at2)
  BY <1>2, <1>3, <1>4 DEF Traces
<1>. QED BY <1>2, <1>3, <1>5 DEF s

-----------------------------------------------------------------------------
(* What a step does to the tree and to the text before peek.               *)
LEMMA ErrsGrow ==
    ASSUME ParseTypeOK
    PROVE  Append(errs, peek) \in Seq(Nat) /\ Append(errs, peek) # <<>>
<1>1. errs \in Seq(Nat) /\ peek \in Nat
  BY DEF ParseTypeOK
<1>. QED BY <1>1, AppendProperties

LEMMA SameParens ==
    ASSUME UNCHANGED text
    PROVE  EmptyParen' = EmptyParen
BY DEF EmptyParen, TokenAt, NullToken

LEMMA FirstOrLater ==
    ASSUME NEW p \in Nat, NEW q \in Nat, NEW k \in p .. q - 1
    PROVE  k = p \/ k \in p + 1 .. q - 1
OBVIOUS

LEMMA PeekIsText ==
    ASSUME ParseTypeOK, NEW q \in 1 .. Len(text) + 1, NEW k \in peek .. q - 1
    PROVE  peek \in 1 .. Len(text) /\ Peek = text[peek] /\ k \in Nat
<1>1. Len(text) \in Nat /\ peek \in 1 .. Len(text)
  BY DEF ParseTypeOK
<1>. QED BY <1>1 DEF ParseTypeOK, Peek, TokenAt

LEMMA TreeKept ==
    ASSUME ParseTypeOK, TreeSaysText, UNCHANGED <<text, tree>>,
           Sound' => Sound /\ (Stopping => Stopping'),
           UNCHANGED peek \/ (Eat /\ (Sound' => ~Content(Peek)))
    PROVE  TreeSaysText'
<1>. SUFFICES ASSUME Sound'
              PROVE  \E at \in [DOMAIN tree' -> Nat] : /\ Traces(text', tree', peek', at)
                                                       /\ Stopping' \/ Covers(text', tree', peek', at)
  BY DEF TreeSaysText
<1>1. PICK at \in [DOMAIN tree -> Nat] : Traces(text, tree, peek, at) /\ (Stopping \/ Covers(text, tree, peek, at))
  BY DEF TreeSaysText
<1>2. tree \in Seq(TreeNode) /\ peek \in Nat
  BY DEF ParseTypeOK
<1>3. CASE UNCHANGED peek
  BY <1>1, <1>3
<1>4. CASE ~UNCHANGED peek
  <2>1. Eat /\ ~Content(Peek)
    BY <1>4
  <2>2. /\ peek' \in 1 .. Len(text) + 1 /\ peek <= peek'
        /\ \A k \in peek + 1 .. peek' - 1 : ~Content(text[k])
    BY <2>1, EatIsNext
  <2>3. peek' \in Nat
    BY <2>2 DEF ParseTypeOK
  <2>4. ASSUME NEW k \in peek .. peek' - 1 PROVE ~Content(text[k])
    <3>1. Peek = text[peek]
      BY <2>2, PeekIsText
    <3>2. k = peek \/ k \in peek + 1 .. peek' - 1
      BY <1>2, <2>3, FirstOrLater
    <3>. QED BY <2>1, <2>2, <3>1, <3>2
  <2>5. /\ Traces(text, tree, peek', at)
        /\ Covers(text, tree, peek, at) => Covers(text, tree, peek', at)
    BY <1>1, <1>2, <2>2, <2>3, <2>4, TraceOfMore
  <2>. QED BY <1>1, <2>5
<1>. QED BY <1>3, <1>4

LEMMA SilentAdded ==
    ASSUME ParseTypeOK, TreeSaysText, NEW n \in TreeNode, Silent(n),
           tree' = Append(tree, n), UNCHANGED <<text, peek>>,
           Sound' => Sound /\ (Stopping => Stopping')
    PROVE  TreeSaysText'
<1>. SUFFICES ASSUME Sound'
              PROVE  \E at \in [DOMAIN tree' -> Nat] : /\ Traces(text', tree', peek', at)
                                                       /\ Stopping' \/ Covers(text', tree', peek', at)
  BY DEF TreeSaysText
<1>1. PICK at \in [DOMAIN tree -> Nat] : Traces(text, tree, peek, at) /\ (Stopping \/ Covers(text, tree, peek, at))
  BY DEF TreeSaysText
<1>2. tree \in Seq(TreeNode) /\ peek \in Nat \ {0}
  BY DEF ParseTypeOK
<1>3. \A k \in peek .. peek - 1 : ~Content(text[k])
  BY <1>2
<1>4. \E at2 \in [DOMAIN Append(tree, n) -> Nat] :
          /\ Traces(text, Append(tree, n), peek, at2)
          /\ Covers(text, tree, peek, at) => Covers(text, Append(tree, n), peek, at2)
  BY <1>1, <1>2, <1>3, TraceOfNode
<1>. QED BY <1>1, <1>4

LEMMA SaidAdded ==
    ASSUME ParseTypeOK, TreeSaysText, NEW n \in TreeNode, ~Silent(n),
           tree' = Append(tree, n), Eat, UNCHANGED text,
           Sound' => Sound /\ ~Stopping /\ Says(Peek, n) /\ HasToken
    PROVE  TreeSaysText'
<1>. SUFFICES ASSUME Sound'
              PROVE  \E at \in [DOMAIN tree' -> Nat] : /\ Traces(text', tree', peek', at)
                                                       /\ Stopping' \/ Covers(text', tree', peek', at)
  BY DEF TreeSaysText
<1>1. PICK at \in [DOMAIN tree -> Nat] : Traces(text, tree, peek, at) /\ Covers(text, tree, peek, at)
  BY DEF TreeSaysText
<1>2. tree \in Seq(TreeNode) /\ peek \in Nat \ {0}
  BY DEF ParseTypeOK
<1>3. peek \in 1 .. Len(text) /\ Peek = text[peek]
  BY PeekIsToken
<1>4. /\ peek' \in Nat /\ peek < peek'
      /\ \A k \in peek + 1 .. peek' - 1 : ~Content(text[k])
  BY <1>3, EatIsNext DEF ParseTypeOK
<1>5. Says(text[peek], n)
  BY <1>3
<1>6. peek <= peek'
  BY <1>2, <1>4
<1>7. \E at2 \in [DOMAIN Append(tree, n) -> Nat] :
          /\ Traces(text, Append(tree, n), peek', at2)
          /\ Covers(text, tree, peek, at) => Covers(text, Append(tree, n), peek', at2)
  BY <1>1, <1>2, <1>4, <1>5, <1>6, TraceOfNode
<1>. QED BY <1>1, <1>7

-----------------------------------------------------------------------------
(* What is on top, and what is there when it has been done.                *)
PlainTags == {"text", "maybe", "kind", "field", "list", "stmt", "stmts", "block", "else", "pattern", "func", "tree"}

LEMMA TopItem ==
    ASSUME ParseTypeOK, Parsing
    PROVE  /\ work[1] \in Item /\ Len(tree) \in Nat
           /\ Top \in {"text", "maybe"} => Arg \in Structure
           /\ Top = "kind"  => Arg \in {"dot", "paren_close"}
           /\ Top = "field" => Arg \in Names
           /\ Top \in {"clause", "paren"} => Arg \in Nat
<1>1. work \in Seq(Item) /\ work # <<>> /\ Len(tree) \in Nat
  BY LenProperties DEF ParseTypeOK, StackOK, Parsing
<1>2. work[1] \in Item
  BY <1>1
<1>. DEFINE x == work[1]
<1>3. CASE x \in {"text", "maybe"} \X Structure
  BY <1>1, <1>2, <1>3 DEF Top, Arg
<1>4. CASE x \in {"kind"} \X {"dot", "paren_close"}
  BY <1>1, <1>2, <1>4 DEF Top, Arg
<1>5. CASE x \in {"field"} \X Names
  BY <1>1, <1>2, <1>5 DEF Top, Arg
<1>6. CASE x \in ({"list", "stmt", "stmts", "block", "else", "pattern", "func", "tree"} \X {0}) \cup ({"more"} \X {0})
  BY <1>1, <1>2, <1>6 DEF Top, Arg
<1>7. CASE x \in {"clause", "paren"} \X Nat
  BY <1>1, <1>2, <1>7 DEF Top, Arg
<1>. QED BY <1>2, <1>3, <1>4, <1>5, <1>6, <1>7 DEF Item, Plain

LEMMA PlainItems ==
    ASSUME NEW x \in Plain
    PROVE  x \in Item /\ x[1] \in PlainTags
<1>1. x \in Item
  BY DEF Item
<1>2. x[1] \in PlainTags
  BY DEF Plain, PlainTags
<1>. QED BY <1>1, <1>2

LEMMA PlainPop ==
    ASSUME ParseTypeOK, Parsing, Top \in PlainTags \ {"list"}, NEW m \in Nat, Len(tree) <= m
    PROVE  StackOK(Rest, m) /\ (Rest # <<>> => Rest[1][1] \notin {"more", "paren"})
<1>1. StackOK(work, Len(tree)) /\ work # <<>> /\ Len(tree) \in Nat
  BY TopItem DEF ParseTypeOK, Parsing
<1>2. StackOK(Tail(work), m) /\ (Tail(work) # <<>> => Fits(work[1], Tail(work)[1]))
  BY <1>1, Pop
<1>. QED BY <1>2 DEF Rest, Fits, Top, PlainTags

LEMMA PlainPush ==
    ASSUME NEW n \in Nat, NEW m \in Nat, n <= m, NEW w, StackOK(w, n), w # <<>> => w[1][1] \notin {"more", "paren"},
           NEW q \in Seq(Plain), q # <<>>
    PROVE  StackOK(q \o w, m) /\ q \o w # <<>> /\ (q \o w)[1][1] \notin {"more", "paren"}
<1>1. Len(q) \in Nat /\ Len(q) > 0 /\ \A j \in 1 .. Len(q) : q[j] \in Plain
  OBVIOUS
<1>2. \A j \in 1 .. Len(q) : q[j] \in Item /\ q[j][1] \in PlainTags
  BY <1>1, PlainItems
<1>3. q \in Seq(Item)
  BY <1>1, <1>2
<1>4. \A j \in 1 .. Len(q) - 1 : Fits(q[j], q[j + 1])
  <2>. TAKE j \in 1 .. Len(q) - 1
  <2>1. j \in 1 .. Len(q) /\ j + 1 \in 1 .. Len(q)
    BY <1>1
  <2>2. q[j][1] \in PlainTags /\ q[j + 1][1] \in PlainTags
    BY <1>2, <2>1
  <2>. QED BY <2>2 DEF Fits, PlainTags
<1>5. \A j \in 1 .. Len(q) : q[j][1] # "paren"
  BY <1>2 DEF PlainTags
<1>6. q[Len(q)][1] \in PlainTags /\ q[1][1] \in PlainTags
  BY <1>1, <1>2
<1>7. w # <<>> => Fits(q[Len(q)], w[1]) /\ (w[1][1] = "paren" => w[1][2] < m)
  BY <1>6 DEF Fits, PlainTags
<1>8. StackOK(q \o w, m) /\ q \o w # <<>> /\ (q \o w)[1] = q[1]
  BY <1>3, <1>4, <1>5, <1>7, Push
<1>. QED BY <1>6, <1>8 DEF PlainTags

(* What a step that changes no text has to show.                           *)
LEMMA InvAfter ==
    ASSUME ParseInv, UNCHANGED text, UNCHANGED peek \/ Eat,
           tree' \in Seq(TreeNode), errs' \in Seq(Nat), trap' \in {"none", "assert"},
           StackOK(work', Len(tree')),
           Sound' => TopOK', TreeSaysText'
    PROVE  ParseInv'
<1>1. peek' \in 1 .. Len(text') + 1 /\ (Peek.kind # "comment")'
  <2>1. CASE UNCHANGED peek
    BY <2>1 DEF ParseInv, ParseTypeOK, Peek, TokenAt, NullToken
  <2>2. CASE Eat
    BY <2>2, EatIsNext DEF ParseInv
  <2>. QED BY <2>1, <2>2
<1>2. text' \in Texts /\ text' \in Seq(Token)
  BY DEF ParseInv, ParseTypeOK
<1>. QED BY <1>1, <1>2 DEF ParseInv, ParseTypeOK

LEMMA SoundBefore ==
    ASSUME ParseInv, UNCHANGED text, trap' = "none" => trap = "none", errs' \in {errs, Append(errs, peek)}
    PROVE  errs' \in Seq(Nat) /\ (Sound' => Sound /\ errs' # Append(errs, peek))
<1>1. Append(errs, peek) \in Seq(Nat) /\ Append(errs, peek) # <<>> /\ errs \in Seq(Nat)
  BY ErrsGrow DEF ParseInv, ParseTypeOK
<1>2. EmptyParen' = EmptyParen
  BY SameParens
<1>. QED BY <1>1, <1>2 DEF Sound

LEMMA PlainTop ==
    ASSUME work' # <<>> => work'[1][1] \notin {"more", "paren"}
    PROVE  TopOK'
BY DEF TopOK, Top

LEMMA TreeTypes ==
    ASSUME ParseInv
    PROVE  ParseTypeOK /\ TreeSaysText /\ tree \in Seq(TreeNode) /\ Len(tree) \in Nat /\ trap \in {"none", "assert"}
           /\ errs \in Seq(Nat) /\ StackOK(work, Len(tree))
<1>1. tree \in Seq(TreeNode)
  BY DEF ParseInv, ParseTypeOK
<1>. QED BY <1>1, LenProperties DEF ParseInv, ParseTypeOK

-----------------------------------------------------------------------------
(* A wanted token is eaten, and the tree stays as it is.                   *)
LEMMA WantedEaten ==
    ASSUME ParseInv, Parsing, Top \in PlainTags \ {"list"}, UNCHANGED peek \/ Eat, work' = Rest, UNCHANGED <<text, tree, trap>>,
           errs' \in {errs, Append(errs, peek)}, UNCHANGED peek \/ (Sound' => ~Content(Peek))
    PROVE  ParseInv'
<1>1. ParseTypeOK /\ TreeSaysText /\ tree \in Seq(TreeNode) /\ Len(tree) \in Nat /\ trap \in {"none", "assert"}
  BY TreeTypes
<1>2. StackOK(work', Len(tree')) /\ TopOK'
  <2>1. Len(tree) <= Len(tree)
    BY <1>1
  <2>2. StackOK(Rest, Len(tree)) /\ (Rest # <<>> => Rest[1][1] \notin {"more", "paren"})
    BY <1>1, <2>1, PlainPop
  <2>. QED BY <2>2, PlainTop
<1>3. errs' \in Seq(Nat) /\ (Sound' => Sound)
  BY SoundBefore
<1>4. ~Stopping
  BY DEF Stopping, PlainTags
<1>5. TreeSaysText'
  <2>1. Sound' => Sound /\ (Stopping => Stopping')
    BY <1>3, <1>4
  <2>2. UNCHANGED peek \/ (Eat /\ (Sound' => ~Content(Peek)))
    OBVIOUS
  <2>3. UNCHANGED <<text, tree>>
    OBVIOUS
  <2>. QED BY <1>1, <2>1, <2>2, <2>3, TreeKept
<1>6. UNCHANGED text /\ tree' \in Seq(TreeNode) /\ trap' \in {"none", "assert"}
  BY <1>1
<1>. QED BY <1>2, <1>3, <1>5, <1>6, InvAfter

LEMMA EatTextStep ==
    ASSUME ParseInv, EatText
    PROVE  ParseInv'
<1>1. Parsing /\ Top = "text" /\ Eat /\ work' = Rest /\ UNCHANGED <<text, tree, trap>>
      /\ errs' = IF Peek.text # Arg THEN Append(errs, peek) ELSE errs
  BY DEF EatText, Report
<1>2. Sound' => Peek.text = Arg
  BY <1>1, SoundBefore
<1>3. Arg \in Structure
  BY <1>1, TopItem DEF ParseInv
<1>4. Sound' => ~Content(Peek)
  BY <1>2, <1>3 DEF Content
<1>. QED BY <1>1, <1>4, WantedEaten DEF PlainTags

LEMMA EatKindStep ==
    ASSUME ParseInv, EatKind
    PROVE  ParseInv'
<1>1. Parsing /\ Top = "kind" /\ Eat /\ work' = Rest /\ UNCHANGED <<text, tree, trap>>
      /\ errs' = IF Peek.kind # Arg THEN Append(errs, peek) ELSE errs
  BY DEF EatKind, Report
<1>2. Sound' => Peek.kind = Arg
  BY <1>1, SoundBefore
<1>3. Arg \in {"dot", "paren_close"}
  BY <1>1, TopItem DEF ParseInv
<1>4. Sound' => ~Content(Peek)
  BY <1>2, <1>3 DEF Content
<1>. QED BY <1>1, <1>4, WantedEaten DEF PlainTags

LEMMA EatMaybeStep ==
    ASSUME ParseInv, EatMaybe
    PROVE  ParseInv'
<1>1. Parsing /\ Top = "maybe" /\ work' = Rest /\ UNCHANGED <<text, tree, errs, trap>>
      /\ IF Peek.text = Arg THEN Eat ELSE UNCHANGED peek
  BY DEF EatMaybe
<1>2. Arg \in Structure
  BY <1>1, TopItem DEF ParseInv
<1>3. UNCHANGED peek \/ (Eat /\ ~Content(Peek))
  BY <1>1, <1>2 DEF Content
<1>. QED BY <1>1, <1>3, WantedEaten DEF PlainTags

-----------------------------------------------------------------------------
(* A node of a word or of another token.                                   *)
LEMMA NodeOf ==
    ASSUME NEW node \in Names \cup {"func", "stmt", "begin", "end", "else", "list", "close", "next", "word", "literal"},
           NEW word \in STRING \cup {""}
    PROVE  /\ Node(node, word) \in TreeNode
           /\ Node(node, word).node = node /\ Node(node, word).text = word
BY DEF Node, TreeNode

LEMMA EatFieldStep ==
    ASSUME ParseInv, EatField
    PROVE  ParseInv'
<1>1. Parsing /\ Top = "field" /\ Eat /\ work' = Rest /\ UNCHANGED <<text, trap>>
      /\ errs' = (IF Peek.kind # "word" THEN Append(errs, peek) ELSE errs)
      /\ tree' = Append(tree, Node(Arg, Peek.text))
  BY DEF EatField, Report, AddNode
<1>2. ParseTypeOK /\ TreeSaysText /\ tree \in Seq(TreeNode) /\ Len(tree) \in Nat /\ trap \in {"none", "assert"}
  BY TreeTypes
<1>3. errs' \in Seq(Nat) /\ (Sound' => Sound /\ Peek.kind = "word")
  BY <1>1, SoundBefore
<1>4. Arg \in Names /\ Peek.text \in STRING \cup {""}
  BY <1>1, <1>2, TopItem, PeekIsToken
<1>. DEFINE n == Node(Arg, Peek.text)
<1>5. n \in TreeNode /\ n.node = Arg /\ n.text = Peek.text
  BY <1>4, NodeOf
<1>6. ~Silent(n)
  BY <1>4, <1>5 DEF Silent, Names
<1>7. Sound' => Says(Peek, n)
  BY <1>3, <1>4, <1>5 DEF Says, Names
<1>8. tree' \in Seq(TreeNode) /\ Len(tree') = Len(tree) + 1
  BY <1>1, <1>2, <1>5, NodeAdded
<1>. HIDE DEF n
<1>9. TreeSaysText'
  <2>1. ~Stopping
    BY <1>1 DEF Stopping
  <2>2. Sound' => HasToken
    BY <1>3 DEF HasToken
  <2>3. tree' = Append(tree, n)
    BY <1>1 DEF n
  <2>. QED BY <1>1, <1>2, <1>3, <1>5, <1>6, <1>7, <2>1, <2>2, <2>3, SaidAdded
<1>10. StackOK(work', Len(tree')) /\ TopOK'
  <2>1. Len(tree') \in Nat /\ Len(tree) <= Len(tree')
    BY <1>2, <1>8
  <2>2. Top \in PlainTags \ {"list"}
    BY <1>1 DEF PlainTags
  <2>3. StackOK(Rest, Len(tree')) /\ (Rest # <<>> => Rest[1][1] \notin {"more", "paren"})
    BY <1>1, <1>2, <2>1, <2>2, PlainPop
  <2>. QED BY <1>1, <2>3, PlainTop
<1>. QED BY <1>1, <1>2, <1>3, <1>8, <1>9, <1>10, InvAfter

LEMMA SaidStep ==
    ASSUME ParseInv, NEW n \in TreeNode, ~Silent(n), tree' = Append(tree, n), Eat, UNCHANGED text,
           Sound' => Sound /\ ~Stopping /\ Says(Peek, n) /\ HasToken
    PROVE  TreeSaysText' /\ tree' \in Seq(TreeNode) /\ Len(tree) \in Nat /\ Len(tree') = Len(tree) + 1
<1>1. ParseTypeOK /\ TreeSaysText /\ tree \in Seq(TreeNode) /\ Len(tree) \in Nat
  BY TreeTypes
<1>2. tree' \in Seq(TreeNode) /\ Len(tree') = Len(tree) + 1
  BY <1>1, NodeAdded
<1>3. TreeSaysText'
  BY <1>1, SaidAdded
<1>. QED BY <1>1, <1>2, <1>3

LEMMA SilentStep ==
    ASSUME ParseInv, NEW n \in TreeNode, Silent(n), tree' = Append(tree, n), UNCHANGED <<text, peek>>,
           Sound' => Sound /\ (Stopping => Stopping')
    PROVE  TreeSaysText' /\ tree' \in Seq(TreeNode) /\ Len(tree) \in Nat /\ Len(tree') = Len(tree) + 1
<1>1. ParseTypeOK /\ TreeSaysText /\ tree \in Seq(TreeNode) /\ Len(tree) \in Nat
  BY TreeTypes
<1>2. tree' \in Seq(TreeNode) /\ Len(tree') = Len(tree) + 1
  BY <1>1, NodeAdded
<1>3. TreeSaysText'
  BY <1>1, SilentAdded
<1>. QED BY <1>1, <1>2, <1>3

-----------------------------------------------------------------------------
(* Clauses and parentheses.                                                *)
LEMMA OneItem ==
    ASSUME NEW x \in Item
    PROVE  /\ <<x>> \in Seq(Item) /\ <<x>> # <<>> /\ Len(<<x>>) = 1 /\ <<x>>[1] = x
           /\ \A j \in 1 .. Len(<<x>>) - 1 : Fits(<<x>>[j], <<x>>[j + 1])
OBVIOUS

LEMMA ClauseItem ==
    ASSUME NEW k \in Nat
    PROVE  LET x == <<"clause", k>> IN x \in Item /\ x[1] = "clause" /\ x[2] = k
BY DEF Item

(* The top of the stack, no parenthesis, makes way for another of its kind.*)
LEMMA Retop ==
    ASSUME NEW n \in Nat, NEW m \in Nat, n <= m, NEW w, StackOK(w, n), w # <<>>,
           NEW x \in Item, x[1] = w[1][1], x[1] # "paren"
    PROVE  StackOK(<<x>> \o Tail(w), m) /\ <<x>> \o Tail(w) # <<>> /\ (<<x>> \o Tail(w))[1] = x
<1>. DEFINE t == Tail(w)
            q == <<x>>
<1>1. /\ StackOK(t, n)
      /\ t # <<>> => t[1] = w[2] /\ Fits(w[1], t[1]) /\ w[2] \in Item /\ (w[2][1] = "paren" => w[2][2] < n)
  BY Pop
<1>2. /\ q \in Seq(Item) /\ q # <<>> /\ Len(q) = 1 /\ q[1] = x
      /\ \A j \in 1 .. Len(q) - 1 : Fits(q[j], q[j + 1])
  BY OneItem
<1>. HIDE DEF t, q
<1>3. t # <<>> => Fits(x, t[1]) /\ (t[1][1] = "paren" => t[1][2] < m)
  <2>. SUFFICES ASSUME t # <<>> PROVE Fits(x, t[1]) /\ (t[1][1] = "paren" => t[1][2] < m)
    OBVIOUS
  <2>1. Fits(x, t[1])
    BY <1>1 DEF Fits
  <2>2. ASSUME t[1][1] = "paren" PROVE t[1][2] < m
    <3>. DEFINE k == w[2][2]
    <3>1. k \in Nat /\ k < n /\ t[1] = w[2]
      BY <1>1, <2>2, ItemFields
    <3>. QED BY <3>1
  <2>. QED BY <2>1, <2>2
<1>4. \A j \in 1 .. Len(q) : q[j][1] # "paren"
  BY <1>2
<1>5. StackOK(q \o t, m) /\ q \o t # <<>> /\ (q \o t)[1] = q[1]
  BY <1>1, <1>2, <1>3, <1>4, Push
<1>. QED BY <1>2, <1>5 DEF q, t

LEMMA ClausePartStep ==
    ASSUME ParseInv, ClausePart
    PROVE  ParseInv'
<1>. DEFINE n == Node(Peek.kind, Peek.text)
            x == <<"clause", Arg + 1>>
<1>1. /\ Parsing /\ Top = "clause" /\ Peek.kind \in {"word", "literal"} /\ Eat
      /\ tree' = Append(tree, n) /\ work' = <<x>> \o Rest /\ UNCHANGED <<text, errs, trap>>
  BY DEF ClausePart, AddNode
<1>2. ParseTypeOK /\ Len(tree) \in Nat /\ trap \in {"none", "assert"} /\ errs \in Seq(Nat) /\ StackOK(work, Len(tree))
  BY TreeTypes
<1>3. Peek.text \in STRING \cup {""} /\ Arg \in Nat
  BY <1>1, <1>2, PeekIsToken, TopItem
<1>4. n \in TreeNode /\ n.node = Peek.kind /\ n.text = Peek.text
  BY <1>1, <1>3, NodeOf
<1>5. ~Silent(n)
  BY <1>1, <1>4 DEF Silent
<1>6. Says(Peek, n)
  BY <1>1, <1>4 DEF Says, Names
<1>7. HasToken /\ ~Stopping
  BY <1>1 DEF HasToken, Stopping
<1>8. Sound' => Sound
  BY <1>1, SoundBefore
<1>9. x \in Item /\ x[1] = "clause"
  <2>1. Arg \in Nat
    BY <1>1, <1>2, TopItem
  <2>2. Arg + 1 \in Nat
    BY <2>1
  <2>. QED BY <2>2, ClauseItem
<1>. HIDE DEF n, x
<1>10. TreeSaysText' /\ tree' \in Seq(TreeNode) /\ Len(tree) \in Nat /\ Len(tree') = Len(tree) + 1
  BY <1>1, <1>4, <1>5, <1>6, <1>7, <1>8, SaidStep
<1>11. StackOK(work', Len(tree')) /\ TopOK'
  <2>1. Len(tree') \in Nat /\ Len(tree) <= Len(tree')
    BY <1>10
  <2>2. work # <<>> /\ work[1][1] = "clause"
    BY <1>1 DEF Parsing, Top
  <2>3. StackOK(<<x>> \o Tail(work), Len(tree')) /\ (<<x>> \o Tail(work))[1] = x
    BY <1>2, <1>9, <2>1, <2>2, Retop
  <2>. QED BY <1>1, <1>9, <2>3, PlainTop DEF Rest
<1>. QED BY <1>1, <1>2, <1>10, <1>11, InvAfter

LEMMA PushParen ==
    ASSUME NEW n \in Nat, NEW w, StackOK(w, n), w # <<>>, w[1][1] = "clause"
    PROVE  LET s == <<<<"paren", n>>>> \o w IN StackOK(s, n) /\ s # <<>> /\ s[1] = <<"paren", n>>
<1>. DEFINE x == <<"paren", n>>
            s == <<x>> \o w
<1>1. w \in Seq(Item) /\ Len(w) \in Nat /\ Len(w) > 0 /\ x \in Item /\ <<x>> \in Seq(Item)
  <2>1. w \in Seq(Item)
    BY DEF StackOK
  <2>2. x \in Item
    BY DEF Item
  <2>. HIDE DEF x
  <2>. QED BY <2>1, <2>2, OneItem
<1>2. /\ s \in Seq(Item) /\ Len(s) = Len(w) + 1 /\ s[1] = x
      /\ \A i \in 2 .. Len(s) : i - 1 \in 1 .. Len(w) /\ s[i] = w[i - 1]
  <2>1. /\ s \in Seq(Item) /\ Len(s) = Len(<<x>>) + Len(w)
        /\ \A i \in 1 .. Len(<<x>>) + Len(w) : s[i] = IF i <= Len(<<x>>) THEN <<x>>[i] ELSE w[i - Len(<<x>>)]
    BY <1>1, ConcatProperties
  <2>2. Len(<<x>>) = 1 /\ <<x>>[1] = x
    OBVIOUS
  <2>. HIDE DEF s, x
  <2>. QED BY <1>1, <2>1, <2>2
<1>3. x[1] = "paren" /\ x[2] = n
  OBVIOUS
<1>. HIDE DEF s, x
<1>4. ASSUME NEW j \in 1 .. Len(s) - 1 PROVE Fits(s[j], s[j + 1])
  <2>1. CASE j = 1
    <3>1. s[j] = x /\ s[j + 1] = w[1]
      BY <1>1, <1>2, <2>1
    <3>. QED BY <1>3, <3>1 DEF Fits
  <2>2. CASE j # 1
    <3>1. j - 1 \in 1 .. Len(w) - 1 /\ s[j] = w[j - 1] /\ s[j + 1] = w[(j - 1) + 1]
      BY <1>1, <1>2, <2>2
    <3>. QED BY <3>1 DEF StackOK
  <2>. QED BY <2>1, <2>2
<1>5. \A j \in 1 .. Len(w) : w[j][1] = "paren" => w[j][2] \in Nat
  BY ItemFields, ElementOfSeq DEF StackOK
<1>6. ASSUME NEW j \in 2 .. Len(s), s[j][1] = "paren"
      PROVE  j < Len(s) /\ s[j][2] < n
  <2>1. j - 1 \in 1 .. Len(w) /\ s[j] = w[j - 1]
    BY <1>2
  <2>2. j - 1 # 1
    BY <1>6, <2>1
  <2>3. j - 1 < Len(w) /\ (j - 1 > 1 => w[j - 1][2] < n)
    BY <1>6, <2>1 DEF StackOK, ParensNest
  <2>. QED BY <1>1, <1>2, <2>1, <2>2, <2>3
<1>7. ParensNest(s, n)
  <2>1. ASSUME NEW j \in 1 .. Len(s), s[j][1] = "paren" PROVE j < Len(s) /\ s[j][2] <= n /\ (j > 1 => s[j][2] < n)
    <3>1. CASE j = 1
      BY <1>1, <1>2, <1>3, <3>1
    <3>2. CASE j # 1
      <4>. DEFINE k == w[j - 1][2]
      <4>1. j \in 2 .. Len(s) /\ s[j] = w[j - 1] /\ j - 1 \in 1 .. Len(w)
        BY <1>1, <1>2, <3>2
      <4>2. j < Len(s) /\ k < n /\ k \in Nat
        BY <1>5, <1>6, <2>1, <4>1
      <4>3. k <= n
        BY <4>2
      <4>. QED BY <4>1, <4>2, <4>3
    <3>. QED BY <3>1, <3>2
  <2>2. ASSUME NEW i \in 1 .. Len(s), NEW j \in 1 .. Len(s), i < j, s[i][1] = "paren", s[j][1] = "paren"
        PROVE  s[j][2] < s[i][2]
    <3>1. j \in 2 .. Len(s) /\ s[j] = w[j - 1] /\ j - 1 \in 1 .. Len(w) /\ s[j][2] < n
      BY <1>1, <1>2, <1>6, <2>2
    <3>2. CASE i = 1
      BY <1>2, <1>3, <3>1, <3>2
    <3>3. CASE i # 1
      <4>1. i - 1 \in 1 .. Len(w) /\ s[i] = w[i - 1] /\ i - 1 < j - 1
        BY <1>1, <1>2, <2>2, <3>3
      <4>. QED BY <2>2, <3>1, <4>1 DEF StackOK, ParensNest
    <3>. QED BY <3>2, <3>3
  <2>. QED BY <2>1, <2>2 DEF ParensNest
<1>8. s # <<>>
  BY <1>1, <1>2
<1>9. StackOK(s, n) /\ s # <<>> /\ s[1] = x
  BY <1>2, <1>4, <1>7, <1>8 DEF StackOK
<1>. QED BY <1>9 DEF s, x

LEMMA ParenOpenStep ==
    ASSUME ParseInv, ParenOpen
    PROVE  ParseInv'
<1>1. /\ Parsing /\ Top = "clause" /\ Peek.kind = "paren_open" /\ Eat
      /\ work' = <<<<"paren", Len(tree)>>>> \o work /\ UNCHANGED <<text, tree, errs, trap>>
  BY DEF ParenOpen
<1>2. ParseTypeOK /\ TreeSaysText /\ tree \in Seq(TreeNode) /\ Len(tree) \in Nat /\ trap \in {"none", "assert"}
      /\ errs \in Seq(Nat) /\ StackOK(work, Len(tree))
  BY TreeTypes
<1>3. ~Stopping /\ ~Content(Peek) /\ HasToken
  BY <1>1 DEF Stopping, Content, HasToken
<1>4. Sound' => Sound
  BY <1>1, SoundBefore
<1>5. TreeSaysText'
  BY <1>1, <1>2, <1>3, <1>4, TreeKept
<1>6. work # <<>> /\ work[1][1] = "clause"
  BY <1>1 DEF Parsing, Top
<1>7. StackOK(work', Len(tree)) /\ work' # <<>> /\ work'[1] = <<"paren", Len(tree)>>
  BY <1>1, <1>2, <1>6, PushParen
<1>8. Top' = "paren" /\ Arg' = Len(tree)
  BY <1>7 DEF Top, Arg
<1>9. Opened'
  <2>1. peek \in 1 .. Len(text) /\ Peek = text[peek]
    BY <1>2, <1>3, PeekIsToken
  <2>2. peek \in DOMAIN text' /\ text'[peek].kind = "paren_open" /\ peek' = After(text', peek)
    BY <1>1, <1>2, <2>1 DEF Eat, ParseTypeOK
  <2>. QED BY <2>2 DEF Opened
<1>10. TopOK'
  BY <1>1, <1>8, <1>9 DEF TopOK
<1>. QED BY <1>1, <1>2, <1>5, <1>7, <1>10, InvAfter

LEMMA ListItems ==
    LET x == <<"list", 0>>  y == <<"more", 0>>
    IN  x \in Item /\ x[1] = "list" /\ y \in Item /\ y[1] = "more"
BY DEF Item, Plain

(* A parenthesis that has had a list gets no other, unless the program is  *)
(* to stop: what is forgotten are no nodes.                                *)
LEMMA ParenListStep ==
    ASSUME ParseInv, ParenList
    PROVE  ParseInv'
<1>. DEFINE n == Node("list", "")
            x == <<"list", 0>>
            s == SubSeq(tree, 1, Arg)
<1>1. /\ Parsing /\ Top = "paren" /\ InParen /\ tree' = Append(s, n)
      /\ work' = <<x>> \o work /\ UNCHANGED <<text, peek, errs, trap>>
  BY DEF ParenList, Call
<1>2. ParseTypeOK /\ TreeSaysText /\ tree \in Seq(TreeNode) /\ Len(tree) \in Nat /\ trap \in {"none", "assert"}
      /\ errs \in Seq(Nat) /\ StackOK(work, Len(tree))
  BY TreeTypes
<1>3. Arg \in Nat /\ Arg <= Len(tree) /\ work # <<>> /\ work[1][1] = "paren" /\ work[1][2] = Arg
  <2>1. Arg \in Nat
    BY <1>1, <1>2, TopItem
  <2>2. work # <<>> /\ work[1][1] = "paren" /\ work[1][2] = Arg
    BY <1>1 DEF Parsing, Top, Arg
  <2>3. work \in Seq(Item)
    BY <1>2 DEF StackOK
  <2>4. 1 \in 1 .. Len(work)
    BY <2>2, <2>3
  <2>5. work[1][2] <= Len(tree)
    BY <1>2, <2>2, <2>4 DEF StackOK, ParensNest
  <2>. QED BY <2>1, <2>2, <2>5
<1>4. n \in TreeNode /\ Silent(n)
  BY NodeOf DEF Silent
<1>5. x \in Item /\ x[1] = "list"
  BY ListItems
<1>. HIDE DEF n, x
<1>6. SubSeq(tree, 1, Arg) \in Seq(TreeNode) /\ Len(s) = Arg
  <2>1. tree = SubSeq(tree, 1, Len(tree)) /\ Arg \in 0 .. Len(tree)
    BY <1>2, <1>3, SubSeqFull
  <2>2. \A i \in 1 .. Arg : tree[i] \in TreeNode
    BY <1>2, <1>3, ElementOfSeq
  <2>3. s \in Seq(TreeNode) /\ Len(s) = IF 1 <= Arg THEN Arg - 1 + 1 ELSE 0
    BY <1>3, <2>2, SubSeqProperties
  <2>. QED BY <1>3, <2>3
<1>7. tree' \in Seq(TreeNode) /\ Len(tree') = Arg + 1
  BY <1>1, <1>4, <1>6, NodeAdded
<1>8. Sound' => Sound
  BY <1>1, SoundBefore
<1>9. StackOK(work', Len(tree')) /\ work' # <<>> /\ work'[1] = x
  <2>1. StackOK(work, Arg)
    <3>1. work \in Seq(Item) /\ ParensNest(work, Len(tree))
      BY <1>2 DEF StackOK
    <3>2. Len(work) \in Nat /\ Len(work) > 0
      BY <1>3, <3>1
    <3>3. \A j \in 1 .. Len(work) : work[j][1] = "paren" => work[j][2] \in Nat
      BY <3>1, ItemFields, ElementOfSeq
    <3>4. ASSUME NEW j \in 1 .. Len(work), work[j][1] = "paren"
          PROVE  j < Len(work) /\ work[j][2] <= Arg /\ (j > 1 => work[j][2] < Arg)
      <4>1. j < Len(work)
        BY <3>1, <3>4 DEF ParensNest
      <4>2. CASE j = 1
        BY <1>3, <4>1, <4>2
      <4>3. CASE j # 1
        <5>. DEFINE k == work[j][2]
        <5>1. 1 \in 1 .. Len(work) /\ 1 < j
          BY <3>2, <4>3
        <5>2. k < Arg /\ k \in Nat
          BY <1>3, <3>1, <3>3, <3>4, <5>1 DEF ParensNest
        <5>3. k <= Arg
          BY <1>3, <5>2
        <5>. QED BY <4>1, <5>2, <5>3
      <4>. QED BY <4>2, <4>3
    <3>5. ParensNest(work, Arg)
      BY <3>1, <3>4 DEF ParensNest
    <3>. QED BY <1>2, <3>5 DEF StackOK
  <2>2. Len(tree') \in Nat /\ Arg <= Len(tree') /\ work[1][2] < Len(tree')
    BY <1>3, <1>7
  <2>3. /\ <<x>> \in Seq(Item) /\ <<x>> # <<>> /\ Len(<<x>>) = 1 /\ <<x>>[1] = x
        /\ \A j \in 1 .. Len(<<x>>) - 1 : Fits(<<x>>[j], <<x>>[j + 1])
    BY <1>5, OneItem
  <2>. DEFINE q == <<x>>
  <2>4. Fits(q[Len(q)], work[1])
    BY <1>3, <1>5, <2>3 DEF Fits
  <2>5. \A j \in 1 .. Len(q) : q[j][1] # "paren"
    BY <1>5, <2>3
  <2>. HIDE DEF q
  <2>6. StackOK(q \o work, Len(tree')) /\ q \o work # <<>> /\ (q \o work)[1] = q[1]
    <3>1. q \in Seq(Item) /\ q # <<>> /\ \A j \in 1 .. Len(q) - 1 : Fits(q[j], q[j + 1])
      BY <2>3 DEF q
    <3>. QED BY <1>3, <2>1, <2>2, <2>4, <2>5, <3>1, Push
  <2>. QED BY <1>1, <2>3, <2>6 DEF q
<1>10. TopOK'
  BY <1>5, <1>9, PlainTop
<1>11. Peek.kind \in Kinds /\ Peek.kind \notin {"eof", "paren_close"}
  BY <1>1, <1>2, PeekIsToken DEF InParen
<1>12. TreeSaysText'
  <2>1. CASE Peek.kind = "dot"
    <3>. SUFFICES ASSUME Sound'
                  PROVE  \E at \in [DOMAIN tree' -> Nat] : /\ Traces(text', tree', peek', at)
                                                           /\ Stopping' \/ Covers(text', tree', peek', at)
      BY DEF TreeSaysText
    <3>1. PICK at \in [DOMAIN tree -> Nat] : Traces(text, tree, peek, at)
      BY <1>2, <1>8 DEF TreeSaysText
    <3>2. Stopping'
      <4>1. Peek' = Peek
        BY <1>1 DEF Peek, TokenAt, NullToken
      <4>2. Top' = "list"
        BY <1>5, <1>9 DEF Top
      <4>. QED BY <1>9, <2>1, <4>1, <4>2 DEF Stopping
    <3>3. peek \in Nat \ {0} /\ Arg \in 0 .. Len(tree)
      BY <1>2, <1>3 DEF ParseTypeOK
    <3>4. PICK at2 \in [1 .. Arg -> Nat] : Traces(text, s, peek, at2)
      BY <1>2, <3>1, <3>3, TraceOfPart
    <3>5. \A k \in peek .. peek - 1 : ~Content(text[k])
      BY <3>3
    <3>6. \E at3 \in [DOMAIN Append(s, n) -> Nat] : Traces(text, Append(s, n), peek, at3)
      <4>. HIDE DEF s
      <4>1. s \in Seq(TreeNode) /\ peek <= peek /\ peek \in Nat
        BY <1>6, <3>3 DEF s
      <4>2. \E at3 \in [DOMAIN Append(s, n) -> Nat] :
                /\ Traces(text, Append(s, n), peek, at3)
                /\ Covers(text, s, peek, at2) => Covers(text, Append(s, n), peek, at3)
        BY <1>4, <3>3, <3>4, <3>5, <4>1, TraceOfNode
      <4>. QED BY <4>2
    <3>. QED BY <1>1, <3>2, <3>6
  <2>2. CASE Peek.kind # "dot" /\ Sound'
    <3>1. TopOK
      BY <1>8, <2>2 DEF ParseInv
    <3>2. Len(tree) = Arg
      BY <1>1, <1>11, <2>2, <3>1 DEF TopOK, Parsing
    <3>3. s = tree
      BY <1>2, <3>2, SubSeqFull
    <3>4. ~Stopping
      BY <1>1 DEF Stopping
    <3>. QED BY <1>1, <1>4, <1>8, <3>3, <3>4, SilentStep
  <2>3. CASE ~Sound'
    BY <2>3 DEF TreeSaysText
  <2>. QED BY <2>1, <2>2, <2>3
<1>. QED BY <1>1, <1>2, <1>7, <1>9, <1>10, <1>12, InvAfter

LEMMA UnderParen ==
    ASSUME ParseTypeOK, Parsing, Top = "paren"
    PROVE  /\ StackOK(Rest, Len(tree)) /\ Rest # <<>> /\ Rest[1][1] = "clause" /\ Rest[1][2] \in Nat
<1>1. StackOK(work, Len(tree)) /\ work # <<>> /\ Len(tree) \in Nat
  BY TopItem DEF ParseTypeOK, Parsing
<1>2. work \in Seq(Item) /\ work[1][1] = "paren"
  BY <1>1 DEF StackOK, Top
<1>3. Len(work) \in Nat /\ 1 \in 1 .. Len(work)
  BY <1>1, <1>2
<1>4. 1 < Len(work)
  BY <1>1, <1>2, <1>3 DEF StackOK, ParensNest
<1>. DEFINE t == Tail(work)
<1>5. /\ StackOK(t, Len(tree))
      /\ t # <<>> => t[1] = work[2] /\ Fits(work[1], t[1]) /\ work[2] \in Item
  BY <1>1, Pop
<1>6. Len(t) = Len(work) - 1 /\ t \in Seq(Item)
  BY <1>1, <1>2, HeadTailProperties
<1>. HIDE DEF t
<1>7. t # <<>>
  BY <1>3, <1>4, <1>6
<1>8. t[1] \in Item /\ t[1][1] = "clause"
  BY <1>2, <1>5, <1>7 DEF Fits
<1>9. t[1][2] \in Nat
  BY <1>8, ItemFields
<1>. QED BY <1>5, <1>7, <1>8, <1>9 DEF Rest, t

(* A parenthesis that is closed with no list in it was empty.              *)
LEMMA ParenCloseStep ==
    ASSUME ParseInv, ParenClose
    PROVE  ParseInv'
<1>1. /\ Parsing /\ Top = "paren" /\ Eat /\ UNCHANGED text
      /\ errs' = IF Peek.kind # "paren_close" THEN Append(errs, peek) ELSE errs
  BY DEF ParenClose, Report
<1>2. ParseTypeOK /\ TreeSaysText /\ tree \in Seq(TreeNode) /\ Len(tree) \in Nat /\ trap \in {"none", "assert"}
  BY TreeTypes
<1>3. trap = "none"
  BY <1>1 DEF Parsing
<1>4. errs' \in Seq(Nat) /\ (Sound' => Sound /\ Peek.kind = "paren_close")
  BY <1>1, <1>3, SoundBefore
<1>5. StackOK(Rest, Len(tree)) /\ Rest # <<>> /\ Rest[1][1] = "clause" /\ Rest[1][2] \in Nat
  BY <1>1, <1>2, UnderParen
<1>6. CASE Len(tree) > Arg
  <2>. DEFINE n == Node("close", "")
              x == <<"clause", Rest[1][2] + 1>>
  <2>1. tree' = Append(tree, n) /\ work' = <<x>> \o Tail(Rest) /\ trap' = trap
    BY <1>6 DEF ParenClose, AddNode
  <2>2. n \in TreeNode /\ n.node = "close" /\ n.text = ""
    BY NodeOf
  <2>3. ~Silent(n) /\ (Sound' => Says(Peek, n))
    BY <1>4, <2>2 DEF Silent, Says, Names
  <2>4. x \in Item /\ x[1] = "clause"
    <3>1. Rest[1][2] + 1 \in Nat
      BY <1>5
    <3>. QED BY <3>1, ClauseItem
  <2>. HIDE DEF n, x
  <2>5. ~Stopping /\ (Sound' => HasToken)
    BY <1>1, <1>4 DEF Stopping, HasToken
  <2>6. TreeSaysText' /\ tree' \in Seq(TreeNode) /\ Len(tree') = Len(tree) + 1
    BY <1>1, <1>4, <2>1, <2>2, <2>3, <2>5, SaidStep
  <2>7. StackOK(work', Len(tree')) /\ work' # <<>> /\ work'[1] = x
    <3>1. Len(tree') \in Nat /\ Len(tree) <= Len(tree')
      BY <1>2, <2>6
    <3>. QED BY <1>2, <1>5, <2>1, <2>4, <3>1, Retop
  <2>8. TopOK'
    BY <2>4, <2>7, PlainTop
  <2>. QED BY <1>1, <1>2, <1>4, <2>1, <2>6, <2>7, <2>8, InvAfter
<1>7. CASE ~(Len(tree) > Arg)
  <2>1. tree' = tree /\ work' = Tail(Rest) /\ trap' \in {trap, "assert"}
    BY <1>7 DEF ParenClose, EndClause
  <2>2. ~Sound'
    <3>. SUFFICES ASSUME Sound' PROVE FALSE
      OBVIOUS
    <3>1. Sound /\ TopOK /\ Peek.kind = "paren_close"
      BY <1>4 DEF ParseInv
    <3>2. Opened
      BY <1>1, <1>7, <3>1 DEF TopOK, Parsing
    <3>. QED BY <3>1, <3>2 DEF Opened, Sound, EmptyParen, Peek
  <2>3. StackOK(work', Len(tree'))
    <3>1. Len(tree) <= Len(tree)
      BY <1>2
    <3>. QED BY <1>2, <1>5, <2>1, <3>1, Pop
  <2>4. TreeSaysText'
    BY <2>2 DEF TreeSaysText
  <2>. QED BY <1>1, <1>2, <1>4, <2>1, <2>2, <2>3, <2>4, InvAfter
<1>. QED BY <1>6, <1>7

LEMMA ClauseEndStep ==
    ASSUME ParseInv, ClauseEnd
    PROVE  ParseInv'
<1>1. /\ Parsing /\ Top = "clause" /\ Peek.kind \notin {"word", "literal", "paren_open"}
      /\ trap' = (IF Arg = 0 THEN "assert" ELSE trap) /\ work' = Rest /\ UNCHANGED <<text, peek, tree, errs>>
  BY DEF ClauseEnd, EndClause
<1>2. ParseTypeOK /\ TreeSaysText /\ tree \in Seq(TreeNode) /\ Len(tree) \in Nat /\ trap \in {"none", "assert"}
      /\ errs \in Seq(Nat) /\ StackOK(work, Len(tree))
  BY TreeTypes
<1>3. trap = "none" /\ work # <<>> /\ work[1][1] = "clause"
  BY <1>1 DEF Parsing, Top
<1>4. StackOK(work', Len(tree')) /\ (work' # <<>> => Fits(work[1], work'[1]))
  <2>1. Len(tree) <= Len(tree)
    BY <1>2
  <2>2. StackOK(Tail(work), Len(tree)) /\ (Tail(work) # <<>> => Fits(work[1], Tail(work)[1]))
    BY <1>2, <1>3, <2>1, Pop
  <2>. QED BY <1>1, <2>2 DEF Rest
<1>5. TopOK'
  <2>1. Peek' = Peek
    BY <1>1 DEF Peek, TokenAt, NullToken
  <2>2. work' # <<>> => Top' # "paren"
    BY <1>3, <1>4 DEF Fits, Top
  <2>. QED BY <1>1, <2>1, <2>2 DEF TopOK
<1>6. Sound' => Sound /\ Arg # 0
  <2>1. Sound' => trap' = "none"
    BY DEF Sound
  <2>. QED BY <1>1, <1>3, <2>1, SoundBefore
<1>7. TreeSaysText'
  <2>1. Sound' => Sound /\ (Stopping => Stopping')
    BY <1>1, <1>6 DEF Stopping
  <2>. QED BY <1>1, <1>2, <2>1, TreeKept
<1>. QED BY <1>1, <1>2, <1>4, <1>5, <1>7, InvAfter

LEMMA ListStep ==
    ASSUME ParseInv, List
    PROVE  ParseInv'
<1>. DEFINE c == <<"clause", 0>>
            m == <<"more", 0>>
            q == <<c, m>>
<1>1. Parsing /\ Top = "list" /\ work' = q \o Rest /\ UNCHANGED <<text, peek, tree, errs, trap>>
  BY DEF List, Call
<1>2. ParseTypeOK /\ TreeSaysText /\ tree \in Seq(TreeNode) /\ Len(tree) \in Nat /\ trap \in {"none", "assert"}
      /\ errs \in Seq(Nat) /\ StackOK(work, Len(tree))
  BY TreeTypes
<1>3. c \in Item /\ c[1] = "clause" /\ c[2] = 0 /\ m \in Item /\ m[1] = "more"
  BY ClauseItem, ListItems
<1>. HIDE DEF c, m
<1>4. q \in Seq(Item) /\ q # <<>> /\ Len(q) = 2 /\ q[1] = c /\ q[2] = m
  BY <1>3
<1>. HIDE DEF q
<1>5. work # <<>> /\ work[1][1] = "list"
  BY <1>1 DEF Parsing, Top
<1>6. /\ StackOK(Rest, Len(tree))
      /\ Rest # <<>> => Fits(work[1], Rest[1]) /\ (Rest[1][1] = "paren" => Rest[1][2] < Len(tree))
  <2>. DEFINE t == Tail(work)
  <2>1. Len(tree) <= Len(tree)
    BY <1>2
  <2>2. /\ StackOK(t, Len(tree))
        /\ t # <<>> => t[1] = work[2] /\ Fits(work[1], t[1]) /\ (work[2][1] = "paren" => work[2][2] < Len(tree))
    BY <1>2, <1>5, <2>1, Pop
  <2>. HIDE DEF t
  <2>3. t # <<>> => Fits(work[1], t[1]) /\ (t[1][1] = "paren" => t[1][2] < Len(tree))
    BY <2>2
  <2>. QED BY <2>2, <2>3 DEF t, Rest
<1>7. \A j \in 1 .. Len(q) : q[j][1] # "paren"
  BY <1>3, <1>4
<1>8. \A j \in 1 .. Len(q) - 1 : Fits(q[j], q[j + 1])
  <2>1. Fits(c, m)
    BY <1>3 DEF Fits
  <2>2. \A j \in 1 .. Len(q) - 1 : j = 1 /\ j + 1 = 2
    BY <1>4
  <2>. QED BY <1>4, <2>1, <2>2
<1>9. Rest # <<>> => Fits(q[Len(q)], Rest[1])
  BY <1>3, <1>4, <1>5, <1>6 DEF Fits
<1>10. StackOK(work', Len(tree')) /\ work' # <<>> /\ work'[1] = c
  <2>1. Len(tree) <= Len(tree)
    BY <1>2
  <2>2. StackOK(q \o Rest, Len(tree)) /\ q \o Rest # <<>> /\ (q \o Rest)[1] = q[1]
    BY <1>2, <1>4, <1>6, <1>7, <1>8, <1>9, <2>1, Push
  <2>. QED BY <1>1, <1>4, <2>2
<1>11. TopOK'
  BY <1>3, <1>10, PlainTop
<1>12. TreeSaysText'
  <2>1. Sound' => Sound
    BY <1>1, SoundBefore
  <2>2. Stopping => Stopping'
    <3>1. Peek' = Peek
      BY <1>1 DEF Peek, TokenAt, NullToken
    <3>2. Top' = "clause" /\ Arg' = 0
      BY <1>3, <1>10 DEF Top, Arg
    <3>. QED BY <1>10, <3>1, <3>2 DEF Stopping
  <2>. QED BY <1>1, <1>2, <2>1, <2>2, TreeKept
<1>. QED BY <1>1, <1>2, <1>10, <1>11, <1>12, InvAfter

LEMMA MoreClausesStep ==
    ASSUME ParseInv, MoreClauses
    PROVE  ParseInv'
<1>1. Parsing /\ Top = "more" /\ UNCHANGED <<text, errs, trap>>
  BY DEF MoreClauses
<1>2. ParseTypeOK /\ TreeSaysText /\ tree \in Seq(TreeNode) /\ Len(tree) \in Nat /\ trap \in {"none", "assert"}
      /\ errs \in Seq(Nat) /\ StackOK(work, Len(tree))
  BY TreeTypes
<1>3. Sound' => Sound
  BY <1>1, SoundBefore
<1>4. work # <<>> /\ work[1][1] = "more"
  BY <1>1 DEF Parsing, Top
<1>5. ~Stopping
  BY <1>1 DEF Stopping
<1>6. CASE Peek.kind = "comma"
  <2>. DEFINE n == Node("next", "")
              o == <<"maybe", "og">>
              c == <<"clause", 0>>
              q == <<o, c>>
  <2>1. Eat /\ tree' = Append(tree, n) /\ work' = q \o work
    BY <1>6 DEF MoreClauses, AddNode, Maybe
  <2>2. n \in TreeNode /\ n.node = "next" /\ n.text = ""
    BY NodeOf
  <2>3. ~Silent(n) /\ Says(Peek, n)
    BY <1>6, <2>2 DEF Silent, Says, Names
  <2>4. o \in Item /\ o[1] = "maybe" /\ c \in Item /\ c[1] = "clause"
    <3>1. o \in Item /\ o[1] = "maybe"
      BY DEF Item, Plain, Structure
    <3>. QED BY <3>1, ClauseItem
  <2>. HIDE DEF n, o, c
  <2>5. q \in Seq(Item) /\ q # <<>> /\ Len(q) = 2 /\ q[1] = o /\ q[2] = c
    BY <2>4
  <2>. HIDE DEF q
  <2>6. HasToken
    BY <1>6 DEF HasToken
  <2>7. TreeSaysText' /\ tree' \in Seq(TreeNode) /\ Len(tree') = Len(tree) + 1
    BY <1>1, <1>3, <1>5, <2>1, <2>2, <2>3, <2>6, SaidStep
  <2>8. \A j \in 1 .. Len(q) : q[j][1] # "paren"
    BY <2>4, <2>5
  <2>9. \A j \in 1 .. Len(q) - 1 : Fits(q[j], q[j + 1])
    <3>1. Fits(o, c)
      BY <2>4 DEF Fits
    <3>2. \A j \in 1 .. Len(q) - 1 : j = 1 /\ j + 1 = 2
      BY <2>5
    <3>. QED BY <2>5, <3>1, <3>2
  <2>10. work # <<>> => Fits(q[Len(q)], work[1]) /\ (work[1][1] = "paren" => work[1][2] < Len(tree'))
    BY <1>4, <2>4, <2>5 DEF Fits
  <2>11. StackOK(work', Len(tree')) /\ work' # <<>> /\ work'[1] = o
    <3>1. Len(tree') \in Nat /\ Len(tree) <= Len(tree')
      BY <1>2, <2>7
    <3>2. StackOK(q \o work, Len(tree')) /\ q \o work # <<>> /\ (q \o work)[1] = q[1]
      <4>1. q \in Seq(Item) /\ q # <<>> /\ StackOK(work, Len(tree)) /\ Len(tree) \in Nat
        BY <1>2, <2>5
      <4>. QED BY <2>8, <2>9, <2>10, <3>1, <4>1, Push
    <3>. QED BY <2>1, <2>5, <3>2
  <2>12. TopOK'
    BY <2>4, <2>11, PlainTop
  <2>. QED BY <1>1, <1>2, <2>1, <2>7, <2>11, <2>12, InvAfter
<1>7. CASE Peek.kind # "comma"
  <2>1. work' = Tail(work) /\ UNCHANGED <<peek, tree>>
    BY <1>7 DEF MoreClauses, Rest
  <2>. DEFINE t == Tail(work)
  <2>2. /\ StackOK(t, Len(tree))
        /\ t # <<>> => t[1] = work[2] /\ Fits(work[1], t[1]) /\ (work[2][1] = "paren" => work[2][2] < Len(tree))
    <3>1. Len(tree) <= Len(tree)
      BY <1>2
    <3>. QED BY <1>2, <1>4, <3>1, Pop
  <2>. HIDE DEF t
  <2>3. work' = t
    BY <2>1 DEF t
  <2>4. Sound' => TopOK'
    <3>. SUFFICES ASSUME Sound', work' # <<>>
                  PROVE  /\ Top' # "more"
                         /\ Top' = "paren" => Len(tree') > Arg' /\ Peek'.kind \in {"eof", "paren_close", "dot"}
      BY DEF TopOK
    <3>1. Top' # "more"
      BY <1>4, <2>2, <2>3 DEF Fits, Top
    <3>2. Peek' = Peek
      BY <1>1, <2>1 DEF Peek, TokenAt, NullToken
    <3>3. Peek.kind \in Kinds
      BY <1>2, PeekIsToken
    <3>4. Peek.kind \notin {"word", "literal", "paren_open"}
      BY <1>1, <1>3 DEF ParseInv, TopOK, Parsing
    <3>5. Peek.kind \in {"eof", "paren_close", "dot"}
      BY <1>7, <3>3, <3>4 DEF Kinds
    <3>6. ASSUME Top' = "paren" PROVE Len(tree') > Arg'
      <4>1. t[1][1] = "paren" /\ Arg' = t[1][2] /\ t[1] = work[2] /\ t \in Seq(Item) /\ t # <<>>
        BY <2>2, <2>3, <3>6 DEF Top, Arg, StackOK
      <4>. DEFINE k == t[1][2]
      <4>2. k \in Nat
        BY <4>1, ItemFields
      <4>3. k < Len(tree)
        BY <2>2, <4>1
      <4>4. Len(tree) > k
        BY <1>2, <4>2, <4>3
      <4>. QED BY <2>1, <4>1, <4>4
    <3>. QED BY <3>1, <3>2, <3>5, <3>6
  <2>5. TreeSaysText'
    BY <1>1, <1>2, <1>3, <1>5, <2>1, TreeKept
  <2>6. StackOK(work', Len(tree'))
    BY <2>1, <2>2, <2>3
  <2>. QED BY <1>1, <1>2, <2>1, <2>4, <2>5, <2>6, InvAfter
<1>. QED BY <1>6, <1>7

-----------------------------------------------------------------------------
(* Statements and functions.                                               *)
LEMMA PlainWork ==
    ASSUME ParseInv, Parsing, Top \in PlainTags \ {"list"}, Len(tree') \in Nat, Len(tree) <= Len(tree'),
           NEW q \in Seq(Plain), q # <<>>, work' \in {Rest, work, q \o Rest, q \o work}
    PROVE  StackOK(work', Len(tree')) /\ TopOK'
<1>1. ParseTypeOK /\ Len(tree) \in Nat /\ StackOK(work, Len(tree))
  BY TreeTypes
<1>2. StackOK(Rest, Len(tree')) /\ (Rest # <<>> => Rest[1][1] \notin {"more", "paren"})
  BY <1>1, PlainPop
<1>3. StackOK(work, Len(tree')) /\ work[1][1] \notin {"more", "paren"}
  BY <1>1, Waits DEF Top, PlainTags
<1>4. Len(tree') <= Len(tree')
  OBVIOUS
<1>5. StackOK(q \o Rest, Len(tree')) /\ (q \o Rest)[1][1] \notin {"more", "paren"}
  BY <1>2, <1>4, PlainPush
<1>6. StackOK(q \o work, Len(tree')) /\ (q \o work)[1][1] \notin {"more", "paren"}
  BY <1>3, <1>4, PlainPush
<1>7. StackOK(work', Len(tree')) /\ (work' # <<>> => work'[1][1] \notin {"more", "paren"})
  BY <1>2, <1>3, <1>5, <1>6
<1>. QED BY <1>7, PlainTop

LEMMA PlainStep ==
    ASSUME ParseInv, Parsing, Top \in PlainTags \ {"list"}, UNCHANGED <<text, errs, trap>>,
           NEW q \in Seq(Plain), q # <<>>, work' \in {Rest, work, q \o Rest, q \o work},
           \/ UNCHANGED tree /\ (UNCHANGED peek \/ (Eat /\ ~Content(Peek)))
           \/ \E n \in TreeNode : tree' = Append(tree, n) /\ Silent(n) /\ UNCHANGED peek
           \/ \E n \in TreeNode : tree' = Append(tree, n) /\ ~Silent(n) /\ Eat /\ Says(Peek, n) /\ HasToken
    PROVE  ParseInv'
<1>1. ParseTypeOK /\ TreeSaysText /\ tree \in Seq(TreeNode) /\ Len(tree) \in Nat /\ trap \in {"none", "assert"}
      /\ errs \in Seq(Nat)
  BY TreeTypes
<1>2. (Sound' => Sound) /\ ~Stopping
  BY SoundBefore DEF Stopping, PlainTags
<1>3. /\ tree' \in Seq(TreeNode) /\ Len(tree') \in Nat /\ Len(tree) <= Len(tree')
      /\ UNCHANGED peek \/ Eat
      /\ TreeSaysText'
  <2>1. CASE UNCHANGED tree /\ (UNCHANGED peek \/ (Eat /\ ~Content(Peek)))
    <3>1. TreeSaysText'
      BY <1>1, <1>2, <2>1, TreeKept
    <3>. QED BY <1>1, <2>1, <3>1
  <2>2. CASE \E n \in TreeNode : tree' = Append(tree, n) /\ Silent(n) /\ UNCHANGED peek
    <3>1. PICK n \in TreeNode : tree' = Append(tree, n) /\ Silent(n) /\ UNCHANGED peek
      BY <2>2
    <3>2. TreeSaysText' /\ tree' \in Seq(TreeNode) /\ Len(tree) \in Nat /\ Len(tree') = Len(tree) + 1
      BY <1>2, <3>1, SilentStep
    <3>. QED BY <3>1, <3>2
  <2>3. CASE \E n \in TreeNode : tree' = Append(tree, n) /\ ~Silent(n) /\ Eat /\ Says(Peek, n) /\ HasToken
    <3>1. PICK n \in TreeNode : tree' = Append(tree, n) /\ ~Silent(n) /\ Eat /\ Says(Peek, n) /\ HasToken
      BY <2>3
    <3>2. TreeSaysText' /\ tree' \in Seq(TreeNode) /\ Len(tree) \in Nat /\ Len(tree') = Len(tree) + 1
      BY <1>2, <3>1, SaidStep
    <3>. QED BY <3>1, <3>2
  <2>. QED BY <2>1, <2>2, <2>3
<1>4. StackOK(work', Len(tree')) /\ TopOK'
  BY <1>3, PlainWork
<1>. QED BY <1>1, <1>3, <1>4, InvAfter

LEMMA PlainItemsAre ==
    /\ \A w \in Structure : Text(w) \in Plain /\ Maybe(w) \in Plain
    /\ \A k \in {"dot", "paren_close"} : Kind(k) \in Plain
    /\ \A f \in Names : Field(f) \in Plain
    /\ \A f \in {"list", "stmt", "stmts", "block", "else", "pattern", "func", "tree"} : Call(f) \in Plain
BY DEF Plain, Text, Maybe, Kind, Field, Call

LEMMA After1stIsPlain ==
    ASSUME NEW word \in StmtWords
    PROVE  After1st(word) \in Seq(Plain) /\ After1st(word) # <<>>
<1>. DEFINE dot == Kind("dot")
            decl == Field("decl")
            vaere == Text("vaere")
            en == Maybe("en")
            et == Maybe("et")
            type == Field("type")
            list == Call("list")
            block == Call("block")
            else == Call("else")
<1>1. dot \in Plain /\ list \in Plain /\ block \in Plain /\ else \in Plain
  BY PlainItemsAre
<1>2. decl \in Plain /\ vaere \in Plain /\ en \in Plain /\ et \in Plain /\ type \in Plain
  BY PlainItemsAre DEF Structure, Names
<1>3. CASE word = "lad"
  <2>1. After1st(word) = <<decl, vaere, en, et, type, dot>>
    BY <1>3 DEF After1st
  <2>. HIDE DEF dot, decl, vaere, en, et, type, list, block, else
  <2>. QED BY <1>1, <1>2, <2>1
<1>4. CASE word = "hvis"
  <2>1. After1st(word) = (<<list>> \o <<dot, block>>) \o <<else>>
    BY <1>4 DEF After1st, Block
  <2>. HIDE DEF dot, decl, vaere, en, et, type, list, block, else
  <2>2. <<list>> \in Seq(Plain) /\ <<dot, block>> \in Seq(Plain) /\ <<else>> \in Seq(Plain) /\ Len(<<else>>) = 1
    BY <1>1
  <2>3. <<list>> \o <<dot, block>> \in Seq(Plain)
    BY <2>2, ConcatProperties
  <2>4. After1st(word) \in Seq(Plain) /\ Len(After1st(word)) = Len(<<list>> \o <<dot, block>>) + 1
    BY <2>1, <2>2, <2>3, ConcatProperties
  <2>. QED BY <2>3, <2>4
<1>5. CASE word \in {"imens", "imedens"}
  <2>1. After1st(word) = <<list>> \o <<dot, block>>
    BY <1>5 DEF After1st, Block
  <2>. HIDE DEF dot, decl, vaere, en, et, type, list, block, else
  <2>2. <<list>> \in Seq(Plain) /\ <<dot, block>> \in Seq(Plain) /\ Len(<<list>>) = 1 /\ Len(<<dot, block>>) = 2
    BY <1>1
  <2>3. After1st(word) \in Seq(Plain) /\ Len(After1st(word)) = 3
    BY <2>1, <2>2, ConcatProperties
  <2>. QED BY <2>3
<1>6. CASE word = "tilbagegiv"
  <2>1. After1st(word) = <<list, dot>>
    BY <1>6 DEF After1st
  <2>. HIDE DEF dot, decl, vaere, en, et, type, list, block, else
  <2>. QED BY <1>1, <2>1
<1>. QED BY <1>3, <1>4, <1>5, <1>6 DEF StmtWords

LEMMA BlockIsPlain ==
    Block \in Seq(Plain) /\ Block # <<>>
<1>1. Kind("dot") \in Plain /\ Call("block") \in Plain
  BY PlainItemsAre
<1>. QED BY <1>1 DEF Block

LEMMA PeekText ==
    ASSUME ParseInv
    PROVE  Peek.text \in STRING \cup {""} /\ (Peek.text # "" => HasToken) /\ (Peek.kind # "eof" => HasToken)
BY PeekIsToken, TreeTypes DEF HasToken

LEMMA KeywordStep ==
    ASSUME ParseInv, Keyword
    PROVE  ParseInv'
<1>1. /\ Parsing /\ Top = "stmt" /\ Peek.text \in StmtWords /\ Eat
      /\ work' = After1st(Peek.text) \o Rest /\ UNCHANGED <<text, errs, trap>>
  BY DEF Keyword
<1>2. After1st(Peek.text) \in Seq(Plain) /\ After1st(Peek.text) # <<>>
  BY <1>1, After1stIsPlain
<1>. DEFINE q == After1st(Peek.text)
<1>3. CASE Peek.text = "lad"
  <2>1. UNCHANGED tree /\ ~Content(Peek)
    BY <1>3 DEF Keyword, Content, Structure
  <2>2. Top \in PlainTags \ {"list"} /\ work' \in {Rest, work, q \o Rest, q \o work}
    BY <1>1 DEF PlainTags
  <2>. HIDE DEF q
  <2>3. q \in Seq(Plain) /\ q # <<>>
    BY <1>2 DEF q
  <2>. QED BY <1>1, <2>1, <2>2, <2>3, PlainStep
<1>4. CASE Peek.text # "lad"
  <2>. DEFINE n == Node("stmt", Peek.text)
  <2>1. tree' = Append(tree, n)
    BY <1>4 DEF Keyword, AddNode
  <2>2. n \in TreeNode /\ n.node = "stmt" /\ n.text = Peek.text
    BY PeekText, NodeOf
  <2>3. Peek.text # "" /\ HasToken
    BY <1>1, PeekText DEF StmtWords
  <2>4. ~Silent(n) /\ Says(Peek, n)
    BY <2>2, <2>3 DEF Silent, Says, Names
  <2>5. Top \in PlainTags \ {"list"} /\ work' \in {Rest, work, q \o Rest, q \o work}
    BY <1>1 DEF PlainTags
  <2>. HIDE DEF q, n
  <2>6. q \in Seq(Plain) /\ q # <<>>
    BY <1>2 DEF q
  <2>7. \E m \in TreeNode : tree' = Append(tree, m) /\ ~Silent(m) /\ Eat /\ Says(Peek, m) /\ HasToken
    BY <1>1, <2>1, <2>2, <2>3, <2>4
  <2>. QED BY <1>1, <2>5, <2>6, <2>7, PlainStep
<1>. QED BY <1>3, <1>4

LEMMA ExprStmtStep ==
    ASSUME ParseInv, ExprStmt
    PROVE  ParseInv'
<1>. DEFINE q == <<Call("list"), Kind("dot")>>
            n == Node("stmt", "")
<1>1. Parsing /\ Top = "stmt" /\ tree' = Append(tree, n) /\ work' = q \o Rest /\ UNCHANGED <<text, peek, errs, trap>>
  BY DEF ExprStmt, AddNode
<1>2. q \in Seq(Plain) /\ q # <<>>
  <2>1. Call("list") \in Plain /\ Kind("dot") \in Plain
    BY PlainItemsAre
  <2>. QED BY <2>1
<1>3. n \in TreeNode /\ Silent(n)
  <2>1. n \in TreeNode /\ n.node = "stmt" /\ n.text = ""
    BY NodeOf
  <2>. HIDE DEF n
  <2>. QED BY <2>1 DEF Silent
<1>4. Top \in PlainTags \ {"list"} /\ work' \in {Rest, work, q \o Rest, q \o work}
  BY <1>1 DEF PlainTags
<1>. HIDE DEF q, n
<1>5. \E m \in TreeNode : tree' = Append(tree, m) /\ Silent(m) /\ UNCHANGED peek
  BY <1>1, <1>3
<1>. QED BY <1>1, <1>2, <1>4, <1>5, PlainStep

LEMMA ElseStep ==
    ASSUME ParseInv, Else
    PROVE  ParseInv'
<1>1. Parsing /\ Top = "else" /\ UNCHANGED <<text, errs, trap>>
  BY DEF Else
<1>2. Block \in Seq(Plain) /\ Block # <<>> /\ Top \in PlainTags \ {"list"}
  BY <1>1, BlockIsPlain DEF PlainTags
<1>3. CASE Peek.text = "ellers"
  <2>. DEFINE n == Node("else", "")
  <2>1. Eat /\ tree' = Append(tree, n) /\ work' = Block \o Rest
    BY <1>3 DEF Else, AddNode
  <2>2. n \in TreeNode /\ n.node = "else" /\ n.text = ""
    BY NodeOf
  <2>3. ~Silent(n) /\ Says(Peek, n) /\ HasToken
    BY <1>3, <2>2 DEF Silent, Says, Names, HasToken
  <2>. HIDE DEF n
  <2>4. \E m \in TreeNode : tree' = Append(tree, m) /\ ~Silent(m) /\ Eat /\ Says(Peek, m) /\ HasToken
    BY <2>1, <2>2, <2>3
  <2>5. work' \in {Rest, work, Block \o Rest, Block \o work}
    BY <2>1
  <2>. QED BY <1>1, <1>2, <2>4, <2>5, PlainStep
<1>4. CASE Peek.text # "ellers"
  <2>1. work' = Rest /\ UNCHANGED <<peek, tree>>
    BY <1>4 DEF Else
  <2>. QED BY <1>1, <1>2, <2>1, PlainStep
<1>. QED BY <1>3, <1>4

LEMMA BeginBlockStep ==
    ASSUME ParseInv, BeginBlock
    PROVE  ParseInv'
<1>. DEFINE q == <<Text("goddag"), Kind("dot"), Call("stmts"), Text("farvel"), Kind("dot")>>
            n == Node("begin", "")
<1>1. Parsing /\ Top = "block" /\ tree' = Append(tree, n) /\ work' = q \o Rest /\ UNCHANGED <<text, peek, errs, trap>>
  BY DEF BeginBlock, AddNode
<1>2. q \in Seq(Plain) /\ q # <<>>
  <2>1. Text("goddag") \in Plain /\ Kind("dot") \in Plain /\ Call("stmts") \in Plain /\ Text("farvel") \in Plain
    BY PlainItemsAre DEF Structure
  <2>. QED BY <2>1
<1>3. n \in TreeNode /\ Silent(n)
  <2>1. n \in TreeNode /\ n.node = "begin"
    BY NodeOf
  <2>. HIDE DEF n
  <2>. QED BY <2>1 DEF Silent
<1>4. Top \in PlainTags \ {"list"} /\ work' \in {Rest, work, q \o Rest, q \o work}
  BY <1>1 DEF PlainTags
<1>. HIDE DEF q, n
<1>5. \E m \in TreeNode : tree' = Append(tree, m) /\ Silent(m) /\ UNCHANGED peek
  BY <1>1, <1>3
<1>. QED BY <1>1, <1>2, <1>4, <1>5, PlainStep

LEMMA StmtsStep ==
    ASSUME ParseInv, Stmts
    PROVE  ParseInv'
<1>. DEFINE q == <<Call("stmt")>>
            n == Node("end", "")
<1>1. /\ Parsing /\ Top = "stmts" /\ UNCHANGED <<text, peek, errs, trap>>
      /\ \/ tree' = Append(tree, n) /\ work' = Rest
         \/ UNCHANGED tree /\ work' = q \o work
  BY DEF Stmts, AddNode
<1>2. q \in Seq(Plain) /\ q # <<>>
  <2>1. Call("stmt") \in Plain
    BY PlainItemsAre
  <2>. QED BY <2>1
<1>3. n \in TreeNode /\ Silent(n)
  <2>1. n \in TreeNode /\ n.node = "end"
    BY NodeOf
  <2>. HIDE DEF n
  <2>. QED BY <2>1 DEF Silent
<1>4. Top \in PlainTags \ {"list"} /\ work' \in {Rest, work, q \o Rest, q \o work}
  BY <1>1 DEF PlainTags
<1>. HIDE DEF q, n
<1>5. \/ UNCHANGED tree /\ UNCHANGED peek
      \/ \E m \in TreeNode : tree' = Append(tree, m) /\ Silent(m) /\ UNCHANGED peek
  BY <1>1, <1>3
<1>. QED BY <1>1, <1>2, <1>4, <1>5, PlainStep

LEMMA PatternStep ==
    ASSUME ParseInv, Pattern
    PROVE  ParseInv'
<1>. DEFINE q == <<Field("param"), Text("som"), Field("type"), Kind("paren_close")>>
            n == Node("word", Peek.text)
<1>1. /\ Parsing /\ Top = "pattern" /\ UNCHANGED <<text, errs, trap>>
      /\ \/ Peek.kind = "word" /\ Eat /\ tree' = Append(tree, n) /\ work' = work
         \/ Peek.kind = "paren_open" /\ Eat /\ UNCHANGED tree /\ work' = q \o work
         \/ work' = Rest /\ UNCHANGED <<peek, tree>>
  BY DEF Pattern, AddNode
<1>2. q \in Seq(Plain) /\ q # <<>>
  <2>1. Field("param") \in Plain /\ Text("som") \in Plain /\ Field("type") \in Plain /\ Kind("paren_close") \in Plain
    BY PlainItemsAre DEF Structure, Names
  <2>. QED BY <2>1
<1>3. n \in TreeNode /\ n.node = "word" /\ n.text = Peek.text
  BY PeekText, NodeOf
<1>4. Top \in PlainTags \ {"list"} /\ work' \in {Rest, work, q \o Rest, q \o work}
  BY <1>1 DEF PlainTags
<1>5. Peek.kind = "word" => ~Silent(n) /\ Says(Peek, n) /\ HasToken
  BY <1>3 DEF Silent, Says, Names, HasToken
<1>. HIDE DEF q, n
<1>6. Peek.kind = "paren_open" => ~Content(Peek)
  BY DEF Content
<1>7. \/ UNCHANGED tree /\ (UNCHANGED peek \/ (Eat /\ ~Content(Peek)))
      \/ \E m \in TreeNode : tree' = Append(tree, m) /\ ~Silent(m) /\ Eat /\ Says(Peek, m) /\ HasToken
  BY <1>1, <1>3, <1>5, <1>6
<1>. QED BY <1>1, <1>2, <1>4, <1>7, PlainStep

LEMMA FuncMaybeStep ==
    ASSUME ParseInv, FuncMaybe
    PROVE  ParseInv'
<1>. DEFINE q == <<Call("pattern"), Text("tilbagegiver"), Field("returns"), Kind("dot"), Call("block")>>
            n == Node("func", "")
<1>1. /\ Parsing /\ Top = "func" /\ UNCHANGED <<text, errs, trap>>
      /\ \/ Peek.text = "funktion" /\ Eat /\ tree' = Append(tree, n) /\ work' = q \o Rest
         \/ work' = Rest /\ UNCHANGED <<peek, tree>>
  BY DEF FuncMaybe, AddNode
<1>2. q \in Seq(Plain) /\ q # <<>>
  <2>1. Call("pattern") \in Plain /\ Text("tilbagegiver") \in Plain /\ Field("returns") \in Plain
        /\ Kind("dot") \in Plain /\ Call("block") \in Plain
    BY PlainItemsAre DEF Structure, Names
  <2>. QED BY <2>1
<1>3. n \in TreeNode /\ n.node = "func" /\ n.text = ""
  BY NodeOf
<1>4. Top \in PlainTags \ {"list"} /\ work' \in {Rest, work, q \o Rest, q \o work}
  BY <1>1 DEF PlainTags
<1>. HIDE DEF q, n
<1>5. Peek.text = "funktion" => ~Silent(n) /\ Says(Peek, n) /\ HasToken
  BY <1>3 DEF Silent, Says, Names, HasToken
<1>6. \/ UNCHANGED tree /\ UNCHANGED peek
      \/ \E m \in TreeNode : tree' = Append(tree, m) /\ ~Silent(m) /\ Eat /\ Says(Peek, m) /\ HasToken
  BY <1>1, <1>3, <1>5
<1>. QED BY <1>1, <1>2, <1>4, <1>6, PlainStep

LEMMA TreeStep ==
    ASSUME ParseInv, Tree
    PROVE  ParseInv'
<1>. DEFINE q == <<Text("offentlig"), Call("func")>>
<1>1. /\ Parsing /\ Top = "tree" /\ UNCHANGED <<text, peek, tree, errs, trap>>
      /\ work' \in {Rest, q \o work}
  BY DEF Tree
<1>2. q \in Seq(Plain) /\ q # <<>>
  <2>1. Text("offentlig") \in Plain /\ Call("func") \in Plain
    BY PlainItemsAre DEF Structure
  <2>. QED BY <2>1
<1>3. Top \in PlainTags \ {"list"} /\ work' \in {Rest, work, q \o Rest, q \o work}
  BY <1>1 DEF PlainTags
<1>. HIDE DEF q
<1>. QED BY <1>1, <1>2, <1>3, PlainStep

-----------------------------------------------------------------------------
LEMMA ParseStarts ==
    ASSUME ParseInit
    PROVE  ParseInv
<1>1. text \in Texts /\ text \in Seq(Token) /\ text # <<>>
  BY TextsAssumption DEF ParseInit
<1>2. Len(text) \in Nat
  BY <1>1
<1>3. peek = After(text, 0) /\ work = <<Call("tree")>> /\ tree = <<>> /\ errs \in {<<>>, <<Len(text)>>} /\ trap = "none"
  BY DEF ParseInit
<1>4. /\ peek \in 1 .. Len(text) + 1
      /\ \A k \in 1 .. peek - 1 : text[k].kind = "comment"
      /\ peek <= Len(text) => text[peek].kind # "comment"
  <2>1. 0 \in 0 .. Len(text) + 1
    BY <1>2
  <2>. QED BY <1>1, <1>3, <2>1, AfterIsNext
<1>5. Peek.kind # "comment"
  BY <1>1, <1>4 DEF Peek, TokenAt, NullToken
<1>6. errs \in Seq(Nat)
  <2>1. \A k \in Nat : <<k>> \in Seq(Nat)
    OBVIOUS
  <2>2. <<Len(text)>> \in Seq(Nat)
    BY <1>2, <2>1
  <2>3. errs = <<>> \/ errs = <<Len(text)>>
    BY <1>3
  <2>4. CASE errs = <<>>
    BY <2>4
  <2>5. CASE errs = <<Len(text)>>
    BY <2>2, <2>5
  <2>. QED BY <2>3, <2>4, <2>5
<1>7. tree \in Seq(TreeNode) /\ Len(tree) = 0 /\ DOMAIN tree = {}
  BY <1>3
<1>. DEFINE x == Call("tree")
<1>8. x \in Item /\ x[1] = "tree"
  BY DEF Call, Item, Plain
<1>. HIDE DEF x
<1>9. work \in Seq(Item) /\ Len(work) = 1 /\ work[1] = x
  BY <1>3, <1>8 DEF x
<1>10. StackOK(work, Len(tree))
  BY <1>8, <1>9 DEF StackOK, ParensNest
<1>11. TopOK
  BY <1>8, <1>9 DEF TopOK, Top
<1>12. TreeSaysText
  <2>. DEFINE at == [i \in {} |-> 0]
  <2>1. at \in [DOMAIN tree -> Nat]
    BY <1>7
  <2>2. Traces(text, tree, peek, at)
    BY <1>7, <2>1 DEF Traces
  <2>3. Covers(text, tree, peek, at)
    BY <1>4 DEF Covers, Content
  <2>. HIDE DEF at
  <2>. QED BY <2>1, <2>2, <2>3 DEF TreeSaysText
<1>. QED BY <1>1, <1>3, <1>4, <1>5, <1>6, <1>7, <1>10, <1>11, <1>12 DEF ParseInv, ParseTypeOK

LEMMA ParseStep ==
    ASSUME ParseInv, [ParseNext]_parseVars
    PROVE  ParseInv'
<1>1. CASE ParseNext
  BY <1>1, EatTextStep, EatKindStep, EatFieldStep, EatMaybeStep, ClausePartStep, ParenOpenStep, ParenListStep,
     ParenCloseStep, ClauseEndStep, ListStep, MoreClausesStep, KeywordStep, ExprStmtStep, ElseStep, BeginBlockStep,
     StmtsStep, PatternStep, FuncMaybeStep, TreeStep DEF ParseNext
<1>2. CASE UNCHANGED parseVars
  BY <1>2 DEF parseVars, ParseInv, ParseTypeOK, TopOK, TreeSaysText, Sound, EmptyParen, Stopping, Opened,
     Peek, TokenAt, NullToken, Top, Arg
<1>. QED BY <1>1, <1>2

(* The parser keeps what a text says (dk_parse_tree): as long as nothing   *)
(* was reported, the nodes of the tree are tokens of the text in its order,*)
(* none is made up or doubled, and every word, literal and comma that was  *)
(* eaten is there, other than the words of the grammar.                    *)
THEOREM ParserKeepsText ==
    ParseSpec => []TreeSaysText
<1>1. ParseInit => ParseInv
  BY ParseStarts
<1>2. ParseInv /\ [ParseNext]_parseVars => ParseInv'
  BY ParseStep
<1>3. ParseInv => TreeSaysText
  BY DEF ParseInv
<1>. QED BY <1>1, <1>2, <1>3, PTL DEF ParseSpec

(* The parser's call stack (dk_parse_clause, dk_parse_clause_list): a      *)
(* parenthesis stands between the clause that it belongs to and its list,  *)
(* and an outer one began before an inner one, so that forgetting lists    *)
(* (ParenList) never reaches what stands before the parenthesis.           *)
THEOREM ParserStackFits ==
    ParseSpec => []ParseTypeOK
<1>1. ParseInit => ParseInv
  BY ParseStarts
<1>2. ParseInv /\ [ParseNext]_parseVars => ParseInv'
  BY ParseStep
<1>3. ParseInv => ParseTypeOK
  BY DEF ParseInv
<1>. QED BY <1>1, <1>2, <1>3, PTL DEF ParseSpec
=============================================================================
