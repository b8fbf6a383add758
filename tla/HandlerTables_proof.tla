------------------------- MODULE HandlerTables_proof -------------------------
(***************************************************************************)
(* For any interrupts, devices, permissions, modes and registers: the      *)
(* three tables are red-black trees that lose and mix up nothing, a lookup *)
(* finds what was registered for it, interrupts are sent only as permitted,*)
(* and the registers of a guest are as the architecture banks them         *)
(* (invariants of HandlerTables).                                          *)
(*                                                                         *)
(* First the red-black tree itself, for any pool and any order: its shape; *)
(* the turn of three nodes and what it preserves; the four branches of     *)
(* rotate, assignment by assignment; one turn of the loop of rbtree_insert *)
(* and all of them; insertion; search; the walk and the counts that        *)
(* TreesExact is stated with.  Then the three tables on one pool, the      *)
(* registrations they hold, the actions and the theorems; at the end the   *)
(* registers.                                                              *)
(***************************************************************************)
EXTENDS HandlerTables, ListLemmas

-----------------------------------------------------------------------------
\* What a pool and a tree are.
KeyType == Int \cup AddrRange
ValType == Int \cup SUBSET Sender
NodeType == [key : KeyType, val : ValType, left : Nat, right : Nat, par : Nat, red : BOOLEAN]

\* U[n] is the set of the nodes from n down, H[n] the black nodes on each way down.
Under(U, c) == IF c = Nil THEN {} ELSE U[c]
Deep(H, c)  == IF c = Nil THEN 0 ELSE H[c]
Weight(q, n) == IF q[n].red THEN 0 ELSE 1
Rank(q, rk, n) == rk[q[n].key]

Placed(q, N, U, n) ==
  /\ q[n].left # Nil => q[n].left \in N /\ q[q[n].left].par = n
  /\ q[n].right # Nil => q[n].right \in N /\ q[q[n].right].par = n
  /\ U[n] = {n} \cup Under(U, q[n].left) \cup Under(U, q[n].right)
  /\ n \notin Under(U, q[n].left) /\ n \notin Under(U, q[n].right)
  /\ Under(U, q[n].left) \cap Under(U, q[n].right) = {}

Hangs(q, N, n) ==
  /\ q[n].par \in N
  /\ n = q[q[n].par].left \/ n = q[q[n].par].right

Shape(q, h, N, U) ==
  /\ q \in Seq(NodeType) /\ N \subseteq 1 .. Len(q) /\ U \in [N -> SUBSET N]
  /\ h \in N /\ U[h] = N /\ q[h].par = Nil
  /\ \A n \in N : Placed(q, N, U, n)
  /\ \A n \in N : n # h => Hangs(q, N, n)

\* What a pool is made of.
LEMMA PoolNodes ==
  ASSUME NEW q \in Seq(NodeType)
  PROVE  /\ DOMAIN q = 1 .. Len(q) /\ Len(q) \in Nat
         /\ \A n \in 1 .. Len(q) :
              /\ q[n] \in NodeType
              /\ q[n].key \in KeyType /\ q[n].val \in ValType
              /\ q[n].left \in Nat /\ q[n].right \in Nat /\ q[n].par \in Nat
              /\ q[n].red \in BOOLEAN
         /\ Nil \notin 1 .. Len(q)
<1>1. DOMAIN q = 1 .. Len(q) /\ Len(q) \in Nat /\ \A n \in 1 .. Len(q) : q[n] \in NodeType
  BY LenProperties, ElementOfSeq
<1> QED  BY <1>1 DEF NodeType, Nil

\* A node is under itself, its children under it, and under them are fewer.
LEMMA Smaller ==
  ASSUME NEW q, NEW h, NEW N, NEW U, Shape(q, h, N, U), NEW n \in N
  PROVE  /\ n \in U[n] /\ IsFiniteSet(U[n]) /\ Cardinality(U[n]) \in 1 .. Len(q)
         /\ \A c \in {q[n].left, q[n].right} : c # Nil =>
              c \in N /\ U[c] \subseteq U[n] /\ Cardinality(U[c]) < Cardinality(U[n])
<1>1. Placed(q, N, U, n) /\ N \subseteq 1 .. Len(q) /\ U[n] \subseteq N /\ Len(q) \in Nat
  BY PoolNodes DEF Shape
<1>2. n \in U[n]
  BY <1>1 DEF Placed
<1>3. IsFiniteSet(1 .. Len(q)) /\ Cardinality(1 .. Len(q)) = Len(q)
  <2>1. IsFiniteSet(1 .. Len(q)) /\ Cardinality(1 .. Len(q)) = IF 1 > Len(q) THEN 0 ELSE Len(q) - 1 + 1
    BY <1>1, FS_Interval
  <2> QED  BY <1>1, <2>1
<1>4. IsFiniteSet(U[n]) /\ Cardinality(U[n]) <= Len(q) /\ Cardinality(U[n]) \in Nat
  <2>1. U[n] \subseteq 1 .. Len(q)
    BY <1>1
  <2>2. IsFiniteSet(U[n]) /\ Cardinality(U[n]) <= Cardinality(1 .. Len(q))
    BY <1>3, <2>1, FS_Subset
  <2> QED  BY <1>3, <2>2, FS_CardinalityType
<1>5. Cardinality(U[n]) # 0
  BY <1>2, <1>4, FS_EmptySet
<1>6. ASSUME NEW c \in {q[n].left, q[n].right}, c # Nil
      PROVE  c \in N /\ U[c] \subseteq U[n] /\ Cardinality(U[c]) < Cardinality(U[n])
  <2>1. c \in N /\ U[c] \subseteq U[n] /\ n \notin U[c]
    BY <1>1, <1>6 DEF Placed, Under
  <2>2. /\ IsFiniteSet(U[c]) /\ Cardinality(U[c]) <= Cardinality(U[n])
        /\ Cardinality(U[c]) = Cardinality(U[n]) => U[c] = U[n]
    BY <1>4, <2>1, FS_Subset
  <2>3. Cardinality(U[c]) \in Nat
    BY <2>2, FS_CardinalityType
  <2> QED  BY <1>2, <1>4, <2>1, <2>2, <2>3
<1> QED  BY <1>1, <1>2, <1>4, <1>5, <1>6

\* Induction from the leaves up.
LEMMA TreeInduction ==
  ASSUME NEW q, NEW h, NEW N, NEW U, Shape(q, h, N, U), NEW S,
         \A n \in N : (\A c \in {q[n].left, q[n].right} : c # Nil => c \in S) => n \in S
  PROVE  N \subseteq S
<1> DEFINE Good == {k \in Nat : \A n \in N : Cardinality(U[n]) <= k => n \in S}
<1>1. 0 \in Good
  <2>1. \A n \in N : ~(Cardinality(U[n]) <= 0)
    BY Smaller
  <2> QED  BY <2>1
<1>2. ASSUME NEW k \in Nat, k \in Good PROVE k + 1 \in Good
  <2> SUFFICES ASSUME NEW n \in N, Cardinality(U[n]) <= k + 1 PROVE n \in S
    OBVIOUS
  <2>1. ASSUME NEW c \in {q[n].left, q[n].right}, c # Nil PROVE c \in S
    <3>1. c \in N /\ Cardinality(U[c]) < Cardinality(U[n]) /\ Cardinality(U[n]) \in Nat
      BY <2>1, Smaller
    <3>2. Cardinality(U[c]) \in Nat
      BY <3>1, Smaller
    <3> QED  BY <1>2, <3>1, <3>2
  <2> QED  BY <2>1
<1> HIDE DEF Good
<1>3. \A k \in Nat : k \in Good
  BY <1>1, <1>2, Induction
<1>4. ASSUME NEW n \in N PROVE n \in S
  <2>1. Cardinality(U[n]) \in Nat
    BY Smaller
  <2> QED  BY <1>3, <2>1 DEF Good
<1> QED  BY <1>4

\* The subtree of a node of a subtree lies in it.
LEMMA Nested ==
  ASSUME NEW q, NEW h, NEW N, NEW U, Shape(q, h, N, U), NEW m \in N, NEW n \in U[m]
  PROVE  n \in N /\ U[n] \subseteq U[m]
<1> DEFINE S == {k \in N : \A x \in U[k] : U[x] \subseteq U[k]}
<1>1. ASSUME NEW k \in N, \A c \in {q[k].left, q[k].right} : c # Nil => c \in S
      PROVE  k \in S
  <2> SUFFICES ASSUME NEW x \in U[k] PROVE U[x] \subseteq U[k]
    OBVIOUS
  <2>1. \/ x = k
        \/ \E c \in {q[k].left, q[k].right} : c # Nil /\ x \in U[c]
    BY DEF Shape, Placed, Under
  <2>2. ASSUME NEW c \in {q[k].left, q[k].right}, c # Nil, x \in U[c] PROVE U[x] \subseteq U[k]
    <3>1. U[c] \subseteq U[k]
      BY <2>2, Smaller
    <3>2. U[x] \subseteq U[c]
      BY <1>1, <2>2
    <3> QED  BY <3>1, <3>2
  <2> QED  BY <2>1, <2>2
<1>2. N \subseteq S
  <2> HIDE DEF S
  <2> QED  BY <1>1, TreeInduction
<1> QED  BY <1>2 DEF Shape

\* Who is below m, other than m, has a parent below m.
LEMMA ParentUnder ==
  ASSUME NEW q, NEW h, NEW N, NEW U, Shape(q, h, N, U), NEW m \in N, NEW n \in U[m], n # m
  PROVE  q[n].par \in U[m]
<1> DEFINE S == {k \in N : \A x \in U[k] : x # k => q[x].par \in U[k]}
<1>1. ASSUME NEW k \in N, \A c \in {q[k].left, q[k].right} : c # Nil => c \in S
      PROVE  k \in S
  <2> SUFFICES ASSUME NEW x \in U[k], x # k PROVE q[x].par \in U[k]
    OBVIOUS
  <2>1. PICK c \in {q[k].left, q[k].right} : c # Nil /\ x \in U[c]
    BY DEF Shape, Placed, Under
  <2>2. U[c] \subseteq U[k] /\ k \in U[k]
    BY <2>1, Smaller
  <2>3. x # c => q[x].par \in U[c]
    BY <1>1, <2>1
  <2>4. q[c].par = k
    BY <2>1 DEF Shape, Placed
  <2> QED  BY <2>2, <2>3, <2>4
<1>2. N \subseteq S
  <2> HIDE DEF S
  <2> QED  BY <1>1, TreeInduction
<1> QED  BY <1>2

\* Two subtrees are apart, unless one is inside the other.
LEMMA Laminar ==
  ASSUME NEW q, NEW h, NEW N, NEW U, Shape(q, h, N, U), NEW g \in N, NEW m \in N,
         m \notin U[g], g \notin U[m]
  PROVE  U[m] \cap U[g] = {}
<1> DEFINE S == {k \in N : k \notin U[g] /\ g \notin U[k] => U[k] \cap U[g] = {}}
<1>1. ASSUME NEW k \in N, \A c \in {q[k].left, q[k].right} : c # Nil => c \in S
      PROVE  k \in S
  <2> SUFFICES ASSUME k \notin U[g], g \notin U[k], NEW x \in U[k], x \in U[g] PROVE FALSE
    OBVIOUS
  <2>1. PICK c \in {q[k].left, q[k].right} : c # Nil /\ x \in U[c]
    BY DEF Shape, Placed, Under
  <2>2. c \in N /\ q[c].par = k /\ U[c] \subseteq U[k] /\ c \in U[c]
    <3>1. q[c].par = k
      BY <2>1 DEF Shape, Placed
    <3>2. c \in N /\ U[c] \subseteq U[k]
      BY <2>1, Smaller
    <3> QED  BY <3>1, <3>2, Smaller
  <2>3. c \notin U[g]
    BY <2>2, ParentUnder
  <2> QED  BY <1>1, <2>1, <2>2, <2>3
<1>2. N \subseteq S
  <2> HIDE DEF S
  <2> QED  BY <1>1, TreeInduction
<1> QED  BY <1>2

-----------------------------------------------------------------------------
\* A clump: g, the top of a subtree, with the others of the set T, and the four
\* subtrees below them.
Subtrees(U, c1, c2, c3, c4) == Under(U, c1) \cup Under(U, c2) \cup Under(U, c3) \cup Under(U, c4)

Apart4(U, T, c1, c2, c3, c4) ==
  /\ T \cap Under(U, c1) = {} /\ T \cap Under(U, c2) = {}
  /\ T \cap Under(U, c3) = {} /\ T \cap Under(U, c4) = {}
  /\ Under(U, c1) \cap Under(U, c2) = {} /\ Under(U, c1) \cap Under(U, c3) = {}
  /\ Under(U, c1) \cap Under(U, c4) = {} /\ Under(U, c2) \cap Under(U, c3) = {}
  /\ Under(U, c2) \cap Under(U, c4) = {} /\ Under(U, c3) \cap Under(U, c4) = {}

Clump(q, N, U, g, T, c1, c2, c3, c4) ==
  /\ T \subseteq N /\ g \in T
  /\ \A n \in T : /\ n # g => q[n].par \in T
                  /\ q[n].left \in T \cup {Nil, c1, c2, c3, c4}
                  /\ q[n].right \in T \cup {Nil, c1, c2, c3, c4}
  /\ \A c \in {c1, c2, c3, c4} : c # Nil => c \in N /\ q[c].par \in T
  /\ U[g] = T \cup Subtrees(U, c1, c2, c3, c4)
  /\ Apart4(U, T, c1, c2, c3, c4)

\* The three nodes of a clump after a rotation: m on top of x and y.
Joined(q, m, x, y, c1, c2, c3, c4) ==
  /\ q[m].left = x /\ q[m].right = y /\ q[x].par = m /\ q[y].par = m
  /\ q[x].left = c1 /\ q[x].right = c2 /\ q[y].left = c3 /\ q[y].right = c4
  /\ c1 # Nil => q[c1].par = x
  /\ c2 # Nil => q[c2].par = x
  /\ c3 # Nil => q[c3].par = y
  /\ c4 # Nil => q[c4].par = y

Elsewhere(p, q, N, g, m, T, C) ==
  /\ q[m].par = p[g].par
  /\ \A n \in N \ T :
       /\ q[n].key = p[n].key /\ q[n].val = p[n].val /\ q[n].red = p[n].red
       /\ q[n].left = (IF p[n].left = g THEN m ELSE p[n].left)
       /\ q[n].right = (IF p[n].right = g THEN m ELSE p[n].right)
       /\ n \notin C => q[n].par = p[n].par

Rehung(U, N, g, m, x, y, c1, c2, c3, c4) ==
  [n \in N |-> IF n = m THEN U[g]
               ELSE IF n = x THEN {x} \cup Under(U, c1) \cup Under(U, c2)
               ELSE IF n = y THEN {y} \cup Under(U, c3) \cup Under(U, c4)
               ELSE U[n]]

TopOf(p, g, m, h) == IF p[g].par = Nil THEN m ELSE h

\* The situation of the lemmas that follow.
Turned(p, q, h, N, U, g, m, x, y, c1, c2, c3, c4) ==
  /\ Shape(p, h, N, U)
  /\ Clump(p, N, U, g, {m, x, y}, c1, c2, c3, c4)
  /\ m # x /\ m # y /\ x # y
  /\ q \in Seq(NodeType) /\ Len(q) = Len(p)
  /\ Joined(q, m, x, y, c1, c2, c3, c4)
  /\ Elsewhere(p, q, N, g, m, {m, x, y}, {c1, c2, c3, c4})

\* What holds of a subtree of a clump.
LEMMA ClumpSubtree ==
  ASSUME NEW q, NEW h, NEW N, NEW U, NEW g, NEW T, NEW c1, NEW c2, NEW c3, NEW c4,
         Shape(q, h, N, U), Clump(q, N, U, g, T, c1, c2, c3, c4),
         NEW c \in {c1, c2, c3, c4}, c # Nil
  PROVE  /\ c \in N /\ c \notin T /\ c \in U[c] /\ Under(U, c) = U[c]
         /\ U[c] \subseteq U[g] /\ U[c] \cap T = {}
<1>1. c \in N
  BY DEF Clump
<1>2. c \in U[c]
  BY <1>1, Smaller
<1>3. Under(U, c) = U[c]
  BY DEF Under
<1>4. U[c] \subseteq U[g] /\ U[c] \cap T = {}
  BY <1>3 DEF Clump, Subtrees, Apart4
<1> QED  BY <1>1, <1>2, <1>3, <1>4

\* Who is not of the clump, and has no child there but its top.
LEMMA Outsider ==
  ASSUME NEW q, NEW h, NEW N, NEW U, NEW g, NEW T, NEW c1, NEW c2, NEW c3, NEW c4,
         Shape(q, h, N, U), Clump(q, N, U, g, T, c1, c2, c3, c4),
         NEW n \in N, n \notin T,
         NEW c \in {q[n].left, q[n].right}, c # Nil
  PROVE  /\ c \in N /\ c \notin {c1, c2, c3, c4} /\ q[c].par = n
         /\ c \in T => c = g
<1>1. c \in N /\ q[c].par = n
  BY DEF Shape, Placed
<1> QED  BY <1>1 DEF Clump

\* After the turn of a clump, each node has what is under it in the two subtrees.
LEMMA TurnedPlaced ==
  ASSUME NEW p, NEW q, NEW h, NEW N, NEW U, NEW g, NEW m, NEW x, NEW y,
         NEW c1, NEW c2, NEW c3, NEW c4,
         Turned(p, q, h, N, U, g, m, x, y, c1, c2, c3, c4),
         NEW n \in N
  PROVE  Placed(q, N, Rehung(U, N, g, m, x, y, c1, c2, c3, c4), n)
<1> DEFINE V == Rehung(U, N, g, m, x, y, c1, c2, c3, c4)
           T == {m, x, y}
<1> SUFFICES Placed(q, N, V, n)
  OBVIOUS
<1>1. Shape(p, h, N, U) /\ Clump(p, N, U, g, T, c1, c2, c3, c4) /\ Joined(q, m, x, y, c1, c2, c3, c4)
      /\ Elsewhere(p, q, N, g, m, T, {c1, c2, c3, c4}) /\ m # x /\ m # y /\ x # y
  BY DEF Turned
<1>2. /\ T \subseteq N /\ g \in T /\ Nil \notin N
      /\ \A c \in {c1, c2, c3, c4} : c # Nil => c \in N \ T
      /\ U[g] = T \cup Subtrees(U, c1, c2, c3, c4)
      /\ Apart4(U, T, c1, c2, c3, c4)
  <2>1. Nil \notin N
    BY <1>1 DEF Shape, Nil
  <2>2. \A c \in {c1, c2, c3, c4} : c # Nil => c \in N \ T
    BY <1>1, ClumpSubtree
  <2> QED  BY <1>1, <2>1, <2>2 DEF Clump
<1>3. /\ V[m] = U[g] /\ V[x] = {x} \cup Under(U, c1) \cup Under(U, c2)
      /\ V[y] = {y} \cup Under(U, c3) \cup Under(U, c4)
      /\ \A k \in N \ T : V[k] = U[k]
  BY <1>1, <1>2 DEF Rehung
<1>4. \A c \in {c1, c2, c3, c4} : Under(V, c) = Under(U, c)
  BY <1>2, <1>3 DEF Under
<1>5. Under(V, x) = V[x] /\ Under(V, y) = V[y]
  BY <1>2 DEF Under
<1> HIDE DEF V
<1>6. CASE n = m
  <2>1. U[g] = {m} \cup V[x] \cup V[y] /\ m \notin V[x] /\ m \notin V[y] /\ V[x] \cap V[y] = {}
    BY <1>1, <1>2, <1>3 DEF Subtrees, Apart4
  <2>2. q[m].left = x /\ q[m].right = y /\ q[x].par = m /\ q[y].par = m
    BY <1>1 DEF Joined
  <2> QED  BY <1>2, <1>3, <1>5, <1>6, <2>1, <2>2 DEF Placed
<1>7. CASE n = x
  <2>1. q[x].left = c1 /\ q[x].right = c2 /\ (c1 # Nil => q[c1].par = x) /\ (c2 # Nil => q[c2].par = x)
    BY <1>1 DEF Joined
  <2>2. /\ x \notin Under(U, c1) /\ x \notin Under(U, c2) /\ Under(U, c1) \cap Under(U, c2) = {}
    BY <1>2 DEF Apart4
  <2> QED  BY <1>2, <1>3, <1>4, <1>7, <2>1, <2>2 DEF Placed
<1>8. CASE n = y
  <2>1. q[y].left = c3 /\ q[y].right = c4 /\ (c3 # Nil => q[c3].par = y) /\ (c4 # Nil => q[c4].par = y)
    BY <1>1 DEF Joined
  <2>2. /\ y \notin Under(U, c3) /\ y \notin Under(U, c4) /\ Under(U, c3) \cap Under(U, c4) = {}
    BY <1>2 DEF Apart4
  <2> QED  BY <1>2, <1>3, <1>4, <1>8, <2>1, <2>2 DEF Placed
<1>9. CASE n \notin T
  <2>1. Placed(p, N, U, n)
    BY <1>1 DEF Shape
  <2>2. /\ q[n].left = (IF p[n].left = g THEN m ELSE p[n].left)
        /\ q[n].right = (IF p[n].right = g THEN m ELSE p[n].right)
    BY <1>1, <1>9 DEF Elsewhere
  <2>3. ASSUME NEW c \in {p[n].left, p[n].right}, NEW d, d = IF c = g THEN m ELSE c
        PROVE  /\ Under(V, d) = Under(U, c)
               /\ d # Nil => d \in N /\ q[d].par = n
    <3>1. CASE c = g
      <4>1. d = m /\ c # Nil
        BY <1>2, <2>3, <3>1
      <4>2. p[g].par = n
        BY <1>1, <1>9, <3>1, <4>1, Outsider
      <4>3. q[m].par = p[g].par
        BY <1>1 DEF Elsewhere
      <4> QED  BY <1>2, <1>3, <3>1, <4>1, <4>2, <4>3 DEF Under
    <3>2. CASE c # g /\ c # Nil
      <4>1. c \in N /\ c \notin {c1, c2, c3, c4} /\ p[c].par = n /\ c \notin T
        BY <1>1, <1>9, <3>2, Outsider
      <4>2. q[c].par = p[c].par
        BY <1>1, <4>1 DEF Elsewhere
      <4> QED  BY <1>3, <2>3, <3>2, <4>1, <4>2 DEF Under
    <3>3. CASE c = Nil
      BY <1>2, <2>3, <3>3 DEF Under
    <3> QED  BY <3>1, <3>2, <3>3
  <2>4. V[n] = U[n]
    BY <1>3, <1>9
  <2>5. /\ Under(V, q[n].left) = Under(U, p[n].left)
        /\ q[n].left # Nil => q[n].left \in N /\ q[q[n].left].par = n
    BY <2>2, <2>3
  <2>6. /\ Under(V, q[n].right) = Under(U, p[n].right)
        /\ q[n].right # Nil => q[n].right \in N /\ q[q[n].right].par = n
    BY <2>2, <2>3
  <2> QED  BY <2>1, <2>4, <2>5, <2>6 DEF Placed
<1> QED  BY <1>6, <1>7, <1>8, <1>9

\* ... and each node but the head hangs from its parent.
LEMMA TurnedHangs ==
  ASSUME NEW p, NEW q, NEW h, NEW N, NEW U, NEW g, NEW m, NEW x, NEW y,
         NEW c1, NEW c2, NEW c3, NEW c4,
         Turned(p, q, h, N, U, g, m, x, y, c1, c2, c3, c4),
         NEW n \in N, n # TopOf(p, g, m, h)
  PROVE  Hangs(q, N, n)
<1> DEFINE T == {m, x, y}
           C == {c1, c2, c3, c4}
<1>1. Shape(p, h, N, U) /\ Clump(p, N, U, g, T, c1, c2, c3, c4) /\ Joined(q, m, x, y, c1, c2, c3, c4)
      /\ Elsewhere(p, q, N, g, m, T, C) /\ m # x /\ m # y /\ x # y
  BY DEF Turned
<1>2. T \subseteq N /\ g \in T /\ g \in N /\ Nil \notin N
  <2>1. Nil \notin N
    BY <1>1 DEF Shape, Nil
  <2> QED  BY <1>1, <2>1 DEF Clump
<1>3. ASSUME NEW k \in N, k \notin T, k \notin C, k # h PROVE Hangs(q, N, k)
  <2>1. Hangs(p, N, k)
    BY <1>1, <1>3 DEF Shape
  <2> DEFINE up == p[k].par
  <2>2. up \in N /\ (k = p[up].left \/ k = p[up].right) /\ k # g
    BY <1>2, <1>3, <2>1 DEF Hangs
  <2>3. up \notin T
    <3>1. up \in T => k \in T \cup {Nil} \cup C
      BY <1>1, <2>2 DEF Clump
    <3> QED  BY <1>2, <1>3, <3>1
  <2>4. q[k].par = up /\ (k = q[up].left \/ k = q[up].right)
    BY <1>1, <1>3, <2>2, <2>3 DEF Elsewhere
  <2> QED  BY <2>2, <2>4 DEF Hangs
<1>4. ASSUME p[g].par # Nil PROVE Hangs(q, N, m)
  <2> DEFINE up == p[g].par
  <2>1. Hangs(p, N, g)
    BY <1>1, <1>2, <1>4 DEF Shape
  <2>2. up \in N /\ (g = p[up].left \/ g = p[up].right)
    BY <2>1 DEF Hangs
  <2>3. up \notin T
    <3>1. Placed(p, N, U, up)
      BY <1>1, <2>2 DEF Shape
    <3>2. up \notin U[g]
      BY <1>2, <2>2, <3>1 DEF Placed, Under
    <3>3. T \subseteq U[g]
      BY <1>1 DEF Clump
    <3> QED  BY <3>2, <3>3
  <2>4. q[m].par = up /\ (m = q[up].left \/ m = q[up].right)
    BY <1>1, <2>2, <2>3 DEF Elsewhere
  <2> QED  BY <2>2, <2>4 DEF Hangs
<1>5. ASSUME NEW k \in {x, y} PROVE Hangs(q, N, k)
  BY <1>1, <1>2, <1>5 DEF Joined, Hangs
<1>6. ASSUME NEW k \in C, k # Nil PROVE Hangs(q, N, k)
  BY <1>1, <1>2, <1>6 DEF Joined, Hangs
<1>7. CASE p[g].par = Nil
  <2>1. g = h
    BY <1>1, <1>2, <1>7 DEF Shape, Hangs
  <2>2. n # m
    BY <1>7 DEF TopOf
  <2> QED  BY <1>2, <1>3, <1>5, <1>6, <2>1, <2>2
<1>8. CASE p[g].par # Nil
  BY <1>2, <1>3, <1>4, <1>5, <1>6, <1>8 DEF TopOf
<1> QED  BY <1>7, <1>8

\* ... so the tree is a tree of the same nodes.
LEMMA TurnedShape ==
  ASSUME NEW p, NEW q, NEW h, NEW N, NEW U, NEW g, NEW m, NEW x, NEW y,
         NEW c1, NEW c2, NEW c3, NEW c4,
         Turned(p, q, h, N, U, g, m, x, y, c1, c2, c3, c4)
  PROVE  Shape(q, TopOf(p, g, m, h), N, Rehung(U, N, g, m, x, y, c1, c2, c3, c4))
<1> DEFINE V == Rehung(U, N, g, m, x, y, c1, c2, c3, c4)
           T == {m, x, y}
           C == {c1, c2, c3, c4}
           top == TopOf(p, g, m, h)
<1> SUFFICES Shape(q, top, N, V)
  OBVIOUS
<1>1. Shape(p, h, N, U) /\ Clump(p, N, U, g, T, c1, c2, c3, c4)
      /\ Elsewhere(p, q, N, g, m, T, C) /\ q \in Seq(NodeType) /\ Len(q) = Len(p)
  BY DEF Turned
<1>2. T \subseteq N /\ g \in T /\ g \in N /\ Nil \notin N /\ h \in N /\ U \in [N -> SUBSET N]
      /\ U[h] = N /\ p[h].par = Nil
  <2>1. Nil \notin N
    BY <1>1 DEF Shape, Nil
  <2> QED  BY <1>1, <2>1 DEF Clump, Shape
<1>3. \A n \in N : Placed(q, N, V, n)
  BY TurnedPlaced
<1>4. \A n \in N : n # top => Hangs(q, N, n)
  BY TurnedHangs
<1>5. V \in [N -> SUBSET N]
  <2>1. \A c \in C : Under(U, c) \subseteq N
    BY <1>1, <1>2 DEF Under, Clump
  <2> QED  BY <1>2, <2>1 DEF Rehung
<1>6. top \in N /\ V[top] = N /\ q[top].par = Nil
  <2>1. CASE p[g].par = Nil
    <3>1. g = h /\ top = m
      BY <1>1, <1>2, <2>1 DEF Shape, Hangs, TopOf
    <3>2. V[m] = U[g] /\ q[m].par = p[g].par
      BY <1>1, <1>2 DEF Rehung, Elsewhere
    <3> QED  BY <1>2, <3>1, <3>2, <2>1
  <2>2. CASE p[g].par # Nil
    <3>1. top = h /\ h # g
      BY <1>2, <2>2 DEF TopOf
    <3>2. h \notin T /\ h \notin C
      BY <1>1, <1>2, <3>1 DEF Clump
    <3>3. V[h] = U[h] /\ q[h].par = p[h].par
      BY <1>1, <1>2, <3>2 DEF Rehung, Elsewhere
    <3> QED  BY <1>2, <3>1, <3>3
  <2> QED  BY <2>1, <2>2
<1> HIDE DEF V, top
<1> QED  BY <1>1, <1>3, <1>4, <1>5, <1>6 DEF Shape

-----------------------------------------------------------------------------
\* Order, heights, colours.

Sorted(q, N, U, rk) ==
  \A n \in N :
    /\ Rank(q, rk, n) \in Int
    /\ \A a \in Under(U, q[n].left) : Rank(q, rk, a) <= Rank(q, rk, n)
    /\ \A a \in Under(U, q[n].right) : Rank(q, rk, n) <= Rank(q, rk, a)

Heights(q, N, H) ==
  /\ H \in [N -> Nat]
  /\ \A n \in N : /\ Deep(H, q[n].left) = Deep(H, q[n].right)
                  /\ H[n] = Deep(H, q[n].left) + Weight(q, n)

\* A red node has no red parent, t perhaps excepted.
NoReds(q, N, t) ==
  \A n \in N : n # t /\ q[n].red /\ q[n].par # Nil => ~q[q[n].par].red

\* The contents of the three nodes are in order, with the subtrees in between.
Between(q, rk, S1, S2, S3, S4, lo, mid, hi) ==
  /\ lo \in Int /\ mid \in Int /\ hi \in Int /\ lo <= mid /\ mid <= hi
  /\ \A a \in S1 : Rank(q, rk, a) <= lo
  /\ \A a \in S2 : lo <= Rank(q, rk, a) /\ Rank(q, rk, a) <= mid
  /\ \A a \in S3 : mid <= Rank(q, rk, a) /\ Rank(q, rk, a) <= hi
  /\ \A a \in S4 : hi <= Rank(q, rk, a)

Ranked(p, q, rk, U, T, m, x, y, c1, c2, c3, c4) ==
  /\ Between(p, rk, Under(U, c1), Under(U, c2), Under(U, c3), Under(U, c4),
             Rank(q, rk, x), Rank(q, rk, m), Rank(q, rk, y))
  /\ \A r \in {Rank(q, rk, n) : n \in T} : \E n \in T : r = Rank(p, rk, n)

\* ... in order, if the three contents are in order with the subtrees in between.
LEMMA TurnedSorted ==
  ASSUME NEW p, NEW q, NEW h, NEW N, NEW U, NEW g, NEW m, NEW x, NEW y,
         NEW c1, NEW c2, NEW c3, NEW c4, NEW rk,
         Turned(p, q, h, N, U, g, m, x, y, c1, c2, c3, c4),
         Sorted(p, N, U, rk), Ranked(p, q, rk, U, {m, x, y}, m, x, y, c1, c2, c3, c4)
  PROVE  Sorted(q, N, Rehung(U, N, g, m, x, y, c1, c2, c3, c4), rk)
<1> DEFINE V == Rehung(U, N, g, m, x, y, c1, c2, c3, c4)
           T == {m, x, y}
           C == {c1, c2, c3, c4}
           K(n) == Rank(q, rk, n)
<1> SUFFICES Sorted(q, N, V, rk)
  OBVIOUS
<1>1. Shape(p, h, N, U) /\ Clump(p, N, U, g, T, c1, c2, c3, c4) /\ Joined(q, m, x, y, c1, c2, c3, c4)
      /\ Elsewhere(p, q, N, g, m, T, C) /\ m # x /\ m # y /\ x # y
  BY DEF Turned
<1>2. /\ T \subseteq N /\ g \in T /\ g \in N /\ Nil \notin N
      /\ \A c \in C : c # Nil => c \in N \ T
      /\ U[g] = T \cup Subtrees(U, c1, c2, c3, c4)
      /\ Apart4(U, T, c1, c2, c3, c4)
  <2>1. Nil \notin N
    BY <1>1 DEF Shape, Nil
  <2>2. \A c \in {c1, c2, c3, c4} : c # Nil => c \in N \ T
    BY <1>1, ClumpSubtree
  <2> QED  BY <1>1, <2>1, <2>2 DEF Clump
<1>3. /\ V[m] = U[g] /\ V[x] = {x} \cup Under(U, c1) \cup Under(U, c2)
      /\ V[y] = {y} \cup Under(U, c3) \cup Under(U, c4)
      /\ \A k \in N \ T : V[k] = U[k]
  BY <1>1, <1>2 DEF Rehung
<1>4. \A c \in C : Under(V, c) = Under(U, c) /\ Under(U, c) \subseteq N /\ Under(U, c) \cap T = {}
  <2>1. \A c \in C : Under(U, c) \subseteq N
    BY <1>1, <1>2 DEF Under, Shape
  <2> QED  BY <1>2, <1>3, <2>1 DEF Under, Apart4
<1>5. Under(V, x) = V[x] /\ Under(V, y) = V[y]
  BY <1>2 DEF Under
<1> HIDE DEF V
<1>6. \A n \in N \ T : K(n) = Rank(p, rk, n)
  BY <1>1 DEF Elsewhere, Rank
<1>7. \A n \in N : Rank(p, rk, n) \in Int
  BY DEF Sorted
<1>8. /\ K(x) \in Int /\ K(m) \in Int /\ K(y) \in Int /\ K(x) <= K(m) /\ K(m) <= K(y)
      /\ \A a \in Under(U, c1) : K(a) <= K(x)
      /\ \A a \in Under(U, c2) : K(x) <= K(a) /\ K(a) <= K(m)
      /\ \A a \in Under(U, c3) : K(m) <= K(a) /\ K(a) <= K(y)
      /\ \A a \in Under(U, c4) : K(y) <= K(a)
  <2>1. \A c \in C : \A a \in Under(U, c) : a \in N \ T
    BY <1>4
  <2> QED  BY <1>6, <2>1 DEF Ranked, Between
<1>9. \A n \in N : K(n) \in Int
  BY <1>6, <1>7, <1>8
<1>10. \A r \in T : \E n \in T : K(r) = Rank(p, rk, n)
  BY DEF Ranked
<1> SUFFICES ASSUME NEW n \in N
             PROVE  /\ \A a \in Under(V, q[n].left) : K(a) <= K(n)
                    /\ \A a \in Under(V, q[n].right) : K(n) <= K(a)
  BY <1>9 DEF Sorted
<1>11. CASE n = x
  <2>1. q[n].left = c1 /\ q[n].right = c2
    BY <1>1, <1>11 DEF Joined
  <2> HIDE DEF K
  <2> QED  BY <1>4, <1>8, <1>11, <2>1
<1>12. CASE n = y
  <2>1. q[n].left = c3 /\ q[n].right = c4
    BY <1>1, <1>12 DEF Joined
  <2> HIDE DEF K
  <2> QED  BY <1>4, <1>8, <1>12, <2>1
<1>13. CASE n = m
  <2>1. q[n].left = x /\ q[n].right = y
    BY <1>1, <1>13 DEF Joined
  <2>2. ASSUME NEW a \in V[x] PROVE K(a) <= K(m)
    <3>1. a = x \/ a \in Under(U, c1) \/ a \in Under(U, c2)
      BY <1>3
    <3>2. a \in N
      BY <1>2, <1>4, <3>1
    <3>3. K(a) \in Int
      BY <1>9, <3>2
    <3> HIDE DEF K
    <3> QED  BY <1>8, <3>1, <3>3
  <2>3. ASSUME NEW a \in V[y] PROVE K(m) <= K(a)
    <3>1. a = y \/ a \in Under(U, c3) \/ a \in Under(U, c4)
      BY <1>3
    <3>2. a \in N
      BY <1>2, <1>4, <3>1
    <3>3. K(a) \in Int
      BY <1>9, <3>2
    <3> HIDE DEF K
    <3> QED  BY <1>8, <3>1, <3>3
  <2> HIDE DEF K
  <2> QED  BY <1>5, <1>13, <2>1, <2>2, <2>3
<1>14. CASE n \notin T
  <2>1. /\ q[n].left = (IF p[n].left = g THEN m ELSE p[n].left)
        /\ q[n].right = (IF p[n].right = g THEN m ELSE p[n].right)
    BY <1>1, <1>14 DEF Elsewhere
  <2>2. ASSUME NEW c \in {p[n].left, p[n].right}, NEW d, d = IF c = g THEN m ELSE c
        PROVE  /\ Under(V, d) = Under(U, c)
               /\ \A r \in T : r \in Under(U, c) => T \subseteq Under(U, c)
    <3>1. CASE c = g
      <4>1. Under(V, d) = Under(U, c) /\ Under(U, c) = U[g]
        BY <1>2, <1>3, <2>2, <3>1 DEF Under
      <4> QED  BY <1>2, <4>1
    <3>2. CASE c # g /\ c # Nil
      <4>1. c \in N /\ p[c].par = n /\ c \notin T /\ c \notin C
        BY <1>1, <1>14, <3>2, Outsider
      <4>2. Under(V, d) = Under(U, c) /\ Under(U, c) = U[c]
        BY <1>3, <2>2, <3>2, <4>1 DEF Under
      <4>3. ASSUME NEW r \in T, r \in U[c] PROVE T \subseteq U[c]
        <5>1. CASE g \in U[c]
          <6>1. U[g] \subseteq U[c]
            BY <1>1, <4>1, <5>1, Nested
          <6> QED  BY <1>2, <6>1
        <5>2. CASE c \in U[g]
          <6>1. PICK e \in C : c \in Under(U, e)
            BY <1>2, <4>1, <5>2 DEF Subtrees
          <6>2. e # Nil /\ e \in N /\ Under(U, e) = U[e]
            BY <1>2, <6>1 DEF Under
          <6>3. U[c] \subseteq U[e]
            BY <1>1, <6>1, <6>2, Nested
          <6> QED  BY <1>4, <4>3, <6>2, <6>3
        <5>3. CASE g \notin U[c] /\ c \notin U[g]
          <6>1. U[c] \cap U[g] = {}
            BY <1>1, <1>2, <4>1, <5>3, Laminar
          <6> QED  BY <1>2, <4>3, <6>1
        <5> QED  BY <5>1, <5>2, <5>3
      <4> QED  BY <4>2, <4>3
    <3>3. CASE c = Nil
      BY <1>2, <2>2, <3>3 DEF Under
    <3> QED  BY <3>1, <3>2, <3>3
  <2>3. K(n) = Rank(p, rk, n)
    BY <1>6, <1>14
  <2>4. ASSUME NEW c \in {p[n].left, p[n].right}, NEW a \in Under(U, c)
        PROVE  \E b \in Under(U, c) : K(a) = Rank(p, rk, b)
    <3>1. a \in N
      <4>1. c = Nil \/ c \in N
        BY <1>1 DEF Shape, Placed
      <4> QED  BY <1>1, <2>4, <4>1 DEF Under, Shape
    <3>2. CASE a \in T
      BY <1>10, <2>2, <2>4, <3>2
    <3>3. CASE a \notin T
      BY <1>6, <2>4, <3>1, <3>3
    <3> QED  BY <3>2, <3>3
  <2>5. /\ \A b \in Under(U, p[n].left) : Rank(p, rk, b) <= Rank(p, rk, n)
        /\ \A b \in Under(U, p[n].right) : Rank(p, rk, n) <= Rank(p, rk, b)
    BY DEF Sorted
  <2>6. Under(V, q[n].left) = Under(U, p[n].left) /\ Under(V, q[n].right) = Under(U, p[n].right)
    BY <2>1, <2>2
  <2> HIDE DEF K
  <2>7. \A a \in Under(U, p[n].left) : K(a) <= K(n)
    BY <2>3, <2>4, <2>5
  <2>8. \A a \in Under(U, p[n].right) : K(n) <= K(a)
    BY <2>3, <2>4, <2>5
  <2> QED  BY <2>6, <2>7, <2>8
<1> QED  BY <1>11, <1>12, <1>13, <1>14

Reweighed(q, H, N, g, m, x, y, b) ==
  [n \in N |-> IF n = m THEN H[g] ELSE IF n \in {x, y} THEN b + Weight(q, x) ELSE H[n]]

\* The subtrees below have equally many black nodes on their ways.
Level(H, b, c1, c2, c3, c4) ==
  b \in Nat /\ Deep(H, c1) = b /\ Deep(H, c2) = b /\ Deep(H, c3) = b /\ Deep(H, c4) = b

\* Either the top is black and the two below it are red, or the other way round.
OneLevel(q, m, x, y) ==
  \/ ~q[m].red /\ q[x].red /\ q[y].red
  \/ q[m].red /\ ~q[x].red /\ ~q[y].red

\* ... with as many black nodes on each way down, if there were as many below the clump.
LEMMA TurnedHeights ==
  ASSUME NEW p, NEW q, NEW h, NEW N, NEW U, NEW g, NEW m, NEW x, NEW y,
         NEW c1, NEW c2, NEW c3, NEW c4, NEW H, NEW b,
         Turned(p, q, h, N, U, g, m, x, y, c1, c2, c3, c4),
         Heights(p, N, H), Level(H, b, c1, c2, c3, c4), H[g] = b + 1, OneLevel(q, m, x, y)
  PROVE  Heights(q, N, Reweighed(q, H, N, g, m, x, y, b))
<1> DEFINE G == Reweighed(q, H, N, g, m, x, y, b)
           T == {m, x, y}
           C == {c1, c2, c3, c4}
<1> SUFFICES Heights(q, N, G)
  OBVIOUS
<1>1. Shape(p, h, N, U) /\ Clump(p, N, U, g, T, c1, c2, c3, c4) /\ Joined(q, m, x, y, c1, c2, c3, c4)
      /\ Elsewhere(p, q, N, g, m, T, C) /\ m # x /\ m # y /\ x # y
  BY DEF Turned
<1>2. /\ T \subseteq N /\ g \in T /\ g \in N /\ Nil \notin N
      /\ \A c \in C : c # Nil => c \in N \ T
  <2>1. Nil \notin N
    BY <1>1 DEF Shape, Nil
  <2>2. \A c \in {c1, c2, c3, c4} : c # Nil => c \in N \ T
    BY <1>1, ClumpSubtree
  <2> QED  BY <1>1, <2>1, <2>2 DEF Clump
<1>3. H \in [N -> Nat] /\ b \in Nat
  BY DEF Heights, Level
<1>4. Weight(q, x) \in Nat /\ Weight(q, y) = Weight(q, x) /\ Weight(q, m) \in Nat
      /\ Weight(q, x) + Weight(q, m) = 1
  BY DEF OneLevel, Weight
<1>5. /\ G[m] = b + 1 /\ G[x] = b + Weight(q, x) /\ G[y] = b + Weight(q, x)
      /\ \A n \in N \ T : G[n] = H[n]
      /\ G \in [N -> Nat]
  BY <1>1, <1>2, <1>3, <1>4 DEF Reweighed
<1>6. \A c \in C : Deep(G, c) = b
  BY <1>2, <1>5 DEF Deep, Level
<1>7. Deep(G, x) = G[x] /\ Deep(G, y) = G[y] /\ Deep(G, m) = G[m]
  BY <1>2 DEF Deep
<1> HIDE DEF G
<1> SUFFICES ASSUME NEW n \in N
             PROVE  /\ Deep(G, q[n].left) = Deep(G, q[n].right)
                    /\ G[n] = Deep(G, q[n].left) + Weight(q, n)
  BY <1>5 DEF Heights
<1>8. CASE n = x
  <2>1. q[n].left = c1 /\ q[n].right = c2
    BY <1>1, <1>8 DEF Joined
  <2> QED  BY <1>5, <1>6, <1>8, <2>1
<1>9. CASE n = y
  <2>1. q[n].left = c3 /\ q[n].right = c4
    BY <1>1, <1>9 DEF Joined
  <2> QED  BY <1>4, <1>5, <1>6, <1>9, <2>1
<1>10. CASE n = m
  <2>1. q[n].left = x /\ q[n].right = y
    BY <1>1, <1>10 DEF Joined
  <2> QED  BY <1>3, <1>4, <1>5, <1>7, <1>10, <2>1
<1>11. CASE n \notin T
  <2>1. /\ q[n].left = (IF p[n].left = g THEN m ELSE p[n].left)
        /\ q[n].right = (IF p[n].right = g THEN m ELSE p[n].right)
        /\ Weight(q, n) = Weight(p, n)
    BY <1>1, <1>11 DEF Elsewhere, Weight
  <2>2. ASSUME NEW c \in {p[n].left, p[n].right}, NEW d, d = IF c = g THEN m ELSE c
        PROVE  Deep(G, d) = Deep(H, c)
    <3>1. CASE c = g
      BY <1>2, <1>5, <2>2, <3>1 DEF Deep
    <3>2. CASE c # g /\ c # Nil
      <4>1. c \in N /\ c \notin T
        BY <1>1, <1>11, <3>2, Outsider
      <4> QED  BY <1>5, <2>2, <3>2, <4>1 DEF Deep
    <3>3. CASE c = Nil
      BY <1>2, <2>2, <3>3 DEF Deep
    <3> QED  BY <3>1, <3>2, <3>3
  <2>3. Deep(H, p[n].left) = Deep(H, p[n].right) /\ H[n] = Deep(H, p[n].left) + Weight(p, n)
    BY DEF Heights
  <2>4. Deep(G, q[n].left) = Deep(H, p[n].left) /\ Deep(G, q[n].right) = Deep(H, p[n].right)
    BY <2>1, <2>2
  <2> QED  BY <1>5, <1>11, <2>1, <2>3, <2>4
<1> QED  BY <1>8, <1>9, <1>10, <1>11

\* ... and a red parent of a red node is only where the top of the clump is the child.
LEMMA TurnedReds ==
  ASSUME NEW p, NEW q, NEW h, NEW N, NEW U, NEW g, NEW m, NEW x, NEW y,
         NEW c1, NEW c2, NEW c3, NEW c4, NEW t \in {m, x, y},
         Turned(p, q, h, N, U, g, m, x, y, c1, c2, c3, c4),
         NoReds(p, N, t), OneLevel(q, m, x, y),
         \A c \in {c1, c2, c3, c4} : c # Nil => ~p[c].red
  PROVE  NoReds(q, N, m)
<1> DEFINE T == {m, x, y}
           C == {c1, c2, c3, c4}
<1>1. Shape(p, h, N, U) /\ Clump(p, N, U, g, T, c1, c2, c3, c4) /\ Joined(q, m, x, y, c1, c2, c3, c4)
      /\ Elsewhere(p, q, N, g, m, T, C) /\ m # x /\ m # y /\ x # y
  BY DEF Turned
<1>2. /\ T \subseteq N /\ g \in T /\ g \in N /\ Nil \notin N
      /\ \A c \in C : c # Nil => c \in N \ T
  <2>1. Nil \notin N
    BY <1>1 DEF Shape, Nil
  <2>2. \A c \in {c1, c2, c3, c4} : c # Nil => c \in N \ T
    BY <1>1, ClumpSubtree
  <2> QED  BY <1>1, <2>1, <2>2 DEF Clump
<1> SUFFICES ASSUME NEW n \in N, n # m, q[n].red, q[n].par # Nil PROVE ~q[q[n].par].red
  BY DEF NoReds
<1>3. CASE n \in {x, y}
  BY <1>1, <1>3 DEF Joined, OneLevel
<1>4. n \notin C
  <2>1. \A c \in C : c # Nil => ~q[c].red
    BY <1>1, <1>2 DEF Elsewhere
  <2> QED  BY <1>2, <2>1
<1>5. CASE n \notin T
  <2> DEFINE up == p[n].par
  <2>1. q[n].par = up /\ q[n].red = p[n].red
    BY <1>1, <1>4, <1>5 DEF Elsewhere
  <2>2. up \in N /\ (n = p[up].left \/ n = p[up].right)
    <3>1. n # h
      BY <1>1, <2>1 DEF Shape
    <3> QED  BY <1>1, <3>1 DEF Shape, Hangs
  <2>3. up \notin T
    <3>1. up \in T => n \in T \cup {Nil} \cup C
      BY <1>1, <2>2 DEF Clump
    <3> QED  BY <1>2, <1>4, <1>5, <3>1
  <2>4. q[up].red = p[up].red
    BY <1>1, <2>2, <2>3 DEF Elsewhere
  <2>5. ~p[up].red
    BY <1>5, <2>1 DEF NoReds
  <2> QED  BY <2>1, <2>4, <2>5
<1> QED  BY <1>3, <1>5

-----------------------------------------------------------------------------
\* The steps rotations are made of, field by field.

\* r is q with the child c of n on a side.
LinkedAs(q, r, n, side, c) ==
  /\ r \in Seq(NodeType) /\ Len(r) = Len(q)
  /\ \A k \in 1 .. Len(q) :
       /\ r[k].key = q[k].key /\ r[k].val = q[k].val /\ r[k].red = q[k].red
       /\ k # n => r[k].left = q[k].left /\ r[k].right = q[k].right
       /\ k # c => r[k].par = q[k].par
  /\ side = "left" => r[n].left = c /\ r[n].right = q[n].right
  /\ side = "right" => r[n].right = c /\ r[n].left = q[n].left
  /\ c # Nil => r[c].par = n

SwappedAs(q, r, n, m) ==
  /\ r \in Seq(NodeType) /\ Len(r) = Len(q)
  /\ \A k \in 1 .. Len(q) :
       /\ k # n /\ k # m => r[k].key = q[k].key /\ r[k].val = q[k].val
       /\ r[k].red = q[k].red /\ r[k].left = q[k].left
       /\ r[k].right = q[k].right /\ r[k].par = q[k].par
  /\ r[n].key = q[m].key /\ r[n].val = q[m].val
  /\ r[m].key = q[n].key /\ r[m].val = q[n].val

\* r is q with n of the colour b; with the parent c of n.
ColouredAs(q, r, n, b) ==
  /\ r \in Seq(NodeType) /\ Len(r) = Len(q)
  /\ \A k \in 1 .. Len(q) :
       /\ r[k].key = q[k].key /\ r[k].val = q[k].val
       /\ k # n => r[k].red = q[k].red
       /\ r[k].left = q[k].left /\ r[k].right = q[k].right /\ r[k].par = q[k].par
  /\ r[n].red = b

ParentAs(q, r, n, c) ==
  /\ r \in Seq(NodeType) /\ Len(r) = Len(q)
  /\ \A k \in 1 .. Len(q) :
       /\ r[k].key = q[k].key /\ r[k].val = q[k].val /\ r[k].red = q[k].red
       /\ r[k].left = q[k].left /\ r[k].right = q[k].right
       /\ k # n => r[k].par = q[k].par
  /\ r[n].par = c

\* One node of a pool is replaced.
LEMMA PoolExcept ==
  ASSUME NEW q \in Seq(NodeType), NEW n \in 1 .. Len(q), NEW e \in NodeType
  PROVE  /\ [q EXCEPT ![n] = e] \in Seq(NodeType) /\ Len([q EXCEPT ![n] = e]) = Len(q)
         /\ \A k \in 1 .. Len(q) : [q EXCEPT ![n] = e][k] = IF k = n THEN e ELSE q[k]
<1>1. /\ [q EXCEPT ![n] = e] \in Seq(NodeType) /\ Len([q EXCEPT ![n] = e]) = Len(q)
      /\ \A k \in 1 .. Len(q) : k # n => [q EXCEPT ![n] = e][k] = q[k]
  BY ExceptSeq
<1>2. [q EXCEPT ![n] = e][n] = e
  BY PoolNodes
<1> QED  BY <1>1, <1>2

\* The assignments of the code to a node, by what they leave: a colour,
LEMMA ColouredIs ==
  ASSUME NEW q \in Seq(NodeType), NEW n \in 1 .. Len(q), NEW b \in BOOLEAN
  PROVE  ColouredAs(q, [q EXCEPT ![n].red = b], n, b)
<1> DEFINE e == [q[n] EXCEPT !.red = b]
<1>1. q[n] \in NodeType /\ \A k \in 1 .. Len(q) : q[k] \in NodeType
  BY PoolNodes
<1>2. e \in NodeType /\ e.key = q[n].key /\ e.val = q[n].val /\ e.red = b /\ e.left = q[n].left
      /\ e.right = q[n].right /\ e.par = q[n].par
  BY <1>1 DEF NodeType
<1>3. [q EXCEPT ![n].red = b] = [q EXCEPT ![n] = e]
  OBVIOUS
<1> HIDE DEF e
<1> QED  BY <1>2, <1>3, PoolExcept DEF ColouredAs

\* a parent,
LEMMA ParentIs ==
  ASSUME NEW q \in Seq(NodeType), NEW n \in 1 .. Len(q), NEW c \in Nat
  PROVE  ParentAs(q, [q EXCEPT ![n].par = c], n, c)
<1> DEFINE e == [q[n] EXCEPT !.par = c]
<1>1. q[n] \in NodeType /\ \A k \in 1 .. Len(q) : q[k] \in NodeType
  BY PoolNodes
<1>2. e \in NodeType /\ e.key = q[n].key /\ e.val = q[n].val /\ e.red = q[n].red /\ e.left = q[n].left
      /\ e.right = q[n].right /\ e.par = c
  BY <1>1 DEF NodeType
<1>3. [q EXCEPT ![n].par = c] = [q EXCEPT ![n] = e]
  OBVIOUS
<1> HIDE DEF e
<1> DEFINE r == [q EXCEPT ![n] = e]
<1>4. /\ r \in Seq(NodeType) /\ Len(r) = Len(q)
      /\ \A k \in 1 .. Len(q) : r[k] = IF k = n THEN e ELSE q[k]
  BY <1>2, PoolExcept
<1> HIDE DEF r
<1>5. ParentAs(q, r, n, c)
  BY <1>2, <1>4 DEF ParentAs
<1> QED  BY <1>3, <1>5 DEF r

\* the keys and values of two nodes,
LEMMA SwappedIs ==
  ASSUME NEW q \in Seq(NodeType), NEW n \in 1 .. Len(q), NEW m \in 1 .. Len(q), n # m
  PROVE  SwappedAs(q, Swapped(q, n, m), n, m)
<1> DEFINE With(a, b) == [key |-> b.key, val |-> b.val, left |-> a.left, right |-> a.right,
                          par |-> a.par, red |-> a.red]
           e == With(q[n], q[m])
           f == With(q[m], q[n])
           r == [q EXCEPT ![n] = e]
<1>1. q[n] \in NodeType /\ q[m] \in NodeType
  BY PoolNodes
<1>2. e \in NodeType /\ e.key = q[m].key /\ e.val = q[m].val /\ e.red = q[n].red
      /\ e.left = q[n].left /\ e.right = q[n].right /\ e.par = q[n].par
  BY <1>1 DEF NodeType
<1>3. f \in NodeType /\ f.key = q[n].key /\ f.val = q[n].val /\ f.red = q[m].red
      /\ f.left = q[m].left /\ f.right = q[m].right /\ f.par = q[m].par
  BY <1>1 DEF NodeType
<1>4. Swapped(q, n, m) = [r EXCEPT ![m] = f]
  BY DEF Swapped
<1> HIDE DEF e, f, With
<1>5. /\ r \in Seq(NodeType) /\ Len(r) = Len(q)
      /\ \A k \in 1 .. Len(q) : r[k] = IF k = n THEN e ELSE q[k]
  BY <1>2, PoolExcept
<1> HIDE DEF r
<1>6. /\ Swapped(q, n, m) \in Seq(NodeType) /\ Len(Swapped(q, n, m)) = Len(q)
      /\ \A k \in 1 .. Len(q) : Swapped(q, n, m)[k] = IF k = m THEN f ELSE r[k]
  <2>1. m \in 1 .. Len(r)
    BY <1>5
  <2> QED  BY <1>3, <1>4, <1>5, <2>1, PoolExcept
<1> QED  BY <1>2, <1>3, <1>5, <1>6 DEF SwappedAs

\* a child and its parent.
LEMMA LinkedIs ==
  ASSUME NEW q \in Seq(NodeType), NEW n \in 1 .. Len(q), NEW side \in {"left", "right"},
         NEW c, c = Nil \/ c \in 1 .. Len(q)
  PROVE  LinkedAs(q, Linked(q, n, side, c), n, side, c)
<1> DEFINE e == IF side = "left" THEN [q[n] EXCEPT !.left = c] ELSE [q[n] EXCEPT !.right = c]
           r == [q EXCEPT ![n] = e]
<1>1. q[n] \in NodeType /\ c \in Nat /\ Nil \notin 1 .. Len(q)
  <2>1. Len(q) \in Nat
    BY PoolNodes
  <2> QED  BY <2>1, PoolNodes DEF Nil
<1>2. /\ e \in NodeType /\ e.key = q[n].key /\ e.val = q[n].val /\ e.red = q[n].red
      /\ e.left = (IF side = "left" THEN c ELSE q[n].left)
      /\ e.right = (IF side = "right" THEN c ELSE q[n].right) /\ e.par = q[n].par
  <2>1. CASE side = "left"
    BY <1>1, <2>1 DEF NodeType
  <2>2. CASE side = "right"
    BY <1>1, <2>2 DEF NodeType
  <2> QED  BY <2>1, <2>2
<1>3. Linked(q, n, side, c) = WithParent(r, c, n)
  <2>1. WithChild(q, n, side, c) = r
    <3>1. CASE side = "left"
      BY <3>1 DEF WithChild
    <3>2. CASE side = "right"
      BY <3>2 DEF WithChild
    <3> QED  BY <3>1, <3>2
  <2> HIDE DEF r
  <2> QED  BY <2>1 DEF Linked
<1> HIDE DEF e
<1>4. /\ r \in Seq(NodeType) /\ Len(r) = Len(q)
      /\ \A k \in 1 .. Len(q) : r[k] = IF k = n THEN e ELSE q[k]
  BY <1>2, PoolExcept
<1> HIDE DEF r
<1>5. CASE c = Nil
  <2>1. Linked(q, n, side, c) = r
    BY <1>3, <1>5 DEF WithParent
  <2> QED  BY <1>1, <1>2, <1>4, <1>5, <2>1 DEF LinkedAs
<1>6. CASE c # Nil
  <2>1. n \in Nat /\ c \in 1 .. Len(r)
    BY <1>4, <1>6
  <2>2. ParentAs(r, [r EXCEPT ![c].par = n], c, n)
    BY <1>4, <2>1, ParentIs
  <2>3. ParentAs(r, Linked(q, n, side, c), c, n)
    BY <1>3, <1>6, <2>2 DEF WithParent
  <2> QED  BY <1>2, <1>4, <2>3 DEF LinkedAs, ParentAs
<1> QED  BY <1>5, <1>6

-----------------------------------------------------------------------------
\* What each rotation does to the fields of the nodes.
IsLink(q, c) == c = Nil \/ c \in 1 .. Len(q)

\* g stays the top: nothing changes but the nodes of the clump, and the parents of
\* the subtrees below.
Stays(q, r, g, T, C) ==
  /\ r \in Seq(NodeType) /\ Len(r) = Len(q) /\ r[g].par = q[g].par
  /\ \A k \in 1 .. Len(q) : k \notin T =>
       /\ r[k].key = q[k].key /\ r[k].val = q[k].val /\ r[k].red = q[k].red
       /\ r[k].left = q[k].left /\ r[k].right = q[k].right
       /\ k \notin C => r[k].par = q[k].par

\* n has in r the contents of m in q.
Has(r, n, q, m) == r[n].key = q[m].key /\ r[n].val = q[m].val

AllApart(g, a, t, c1, c2, c3, c4) ==
  /\ g # a /\ g # t /\ a # t
  /\ \A c \in {c1, c2, c3, c4} : c # g /\ c # a /\ c # t
  /\ c1 # Nil => c1 # c2 /\ c1 # c3 /\ c1 # c4
  /\ c2 # Nil => c2 # c3 /\ c2 # c4
  /\ c3 # Nil => c3 # c4

SpinsLR(q, t, a, g, c1, c2, c3, c4) ==
  /\ q \in Seq(NodeType) /\ t \in 1 .. Len(q) /\ a \in 1 .. Len(q) /\ g \in 1 .. Len(q)
  /\ c1 = q[a].left /\ c2 = q[t].left /\ c3 = q[t].right /\ c4 = q[g].right
  /\ IsLink(q, c1) /\ IsLink(q, c2) /\ IsLink(q, c3) /\ IsLink(q, c4)
  /\ AllApart(g, a, t, c1, c2, c3, c4) /\ q[g].left = a /\ q[a].par = g
  /\ c1 # Nil => q[c1].par = a

SpunLR(q, r, t, a, g, c1, c2, c3, c4) ==
  /\ Joined(r, g, a, t, c1, c2, c3, c4)
  /\ Stays(q, r, g, {g, a, t}, {c1, c2, c3, c4})
  /\ Has(r, a, q, a) /\ Has(r, g, q, t) /\ Has(r, t, q, g)
  /\ r[g].red = q[g].red /\ r[a].red = q[a].red /\ r[t].red = FALSE

\* The rotation of a right child of a left child, assignment by assignment.
LEMMA RotatedLR ==
  ASSUME NEW q, NEW t, NEW a, NEW g, NEW c1, NEW c2, NEW c3, NEW c4,
         SpinsLR(q, t, a, g, c1, c2, c3, c4)
  PROVE  SpunLR(q, RotateLR(q, t, a, g).pool, t, a, g, c1, c2, c3, c4)
<1> USE DEF SpinsLR
<1> DEFINE p0 == [q EXCEPT ![t].red = FALSE]
           p1 == Swapped(p0, g, t)
           p2 == Linked(p1, a, "right", q[t].left)
           p3 == Linked(p2, t, "left", q[t].right)
           p4 == Linked(p3, t, "right", q[g].right)
           p5 == Linked(p4, g, "right", t)
<1>1. RotateLR(q, t, a, g).pool = p5
  BY DEF RotateLR
<1>2. ColouredAs(q, p0, t, FALSE)
  BY ColouredIs
<1> HIDE DEF p0
<1>3. SwappedAs(p0, p1, g, t)
  BY <1>2, SwappedIs DEF ColouredAs, AllApart
<1> HIDE DEF p1
<1>4. p1 \in Seq(NodeType) /\ Len(p1) = Len(q)
  BY <1>2, <1>3 DEF ColouredAs, SwappedAs
<1>5. LinkedAs(p1, p2, a, "right", c2)
  BY <1>4, LinkedIs DEF IsLink
<1> HIDE DEF p2
<1>6. p2 \in Seq(NodeType) /\ Len(p2) = Len(q)
  BY <1>4, <1>5 DEF LinkedAs
<1>7. LinkedAs(p2, p3, t, "left", c3)
  BY <1>6, LinkedIs DEF IsLink
<1> HIDE DEF p3
<1>8. p3 \in Seq(NodeType) /\ Len(p3) = Len(q)
  BY <1>6, <1>7 DEF LinkedAs
<1>9. LinkedAs(p3, p4, t, "right", c4)
  BY <1>8, LinkedIs DEF IsLink
<1> HIDE DEF p4
<1>10. p4 \in Seq(NodeType) /\ Len(p4) = Len(q)
  BY <1>8, <1>9 DEF LinkedAs
<1>11. LinkedAs(p4, p5, g, "right", t)
  BY <1>10, LinkedIs
<1> HIDE DEF p5
<1>12. p5 \in Seq(NodeType) /\ Len(p5) = Len(q)
  BY <1>10, <1>11 DEF LinkedAs
<1>13. Nil \notin 1 .. Len(q)
  BY PoolNodes DEF Nil
<1> USE DEF ColouredAs, SwappedAs, LinkedAs, AllApart
<1>14. Joined(p5, g, a, t, c1, c2, c3, c4)
  <2>1. p1[g].left = a /\ p1[a].left = c1 /\ p1[a].par = g /\ (c1 # Nil => p1[c1].par = a)
    BY <1>2, <1>3 DEF IsLink
  <2>2. p2[g].left = a /\ p2[a].left = c1 /\ p2[a].par = g /\ (c1 # Nil => p2[c1].par = a)
        /\ p2[a].right = c2 /\ (c2 # Nil => p2[c2].par = a)
    BY <1>4, <1>5, <2>1 DEF IsLink
  <2>3. p3[g].left = a /\ p3[a].left = c1 /\ p3[a].par = g /\ (c1 # Nil => p3[c1].par = a)
        /\ p3[a].right = c2 /\ (c2 # Nil => p3[c2].par = a)
        /\ p3[t].left = c3 /\ (c3 # Nil => p3[c3].par = t)
    BY <1>6, <1>7, <2>2 DEF IsLink
  <2>4. p4[g].left = a /\ p4[a].left = c1 /\ p4[a].par = g /\ (c1 # Nil => p4[c1].par = a)
        /\ p4[a].right = c2 /\ (c2 # Nil => p4[c2].par = a)
        /\ p4[t].left = c3 /\ (c3 # Nil => p4[c3].par = t)
        /\ p4[t].right = c4 /\ (c4 # Nil => p4[c4].par = t)
    BY <1>8, <1>9, <2>3 DEF IsLink
  <2> QED  BY <1>10, <1>11, <1>13, <2>4 DEF IsLink, Joined
<1>15. Stays(q, p5, g, {g, a, t}, {c1, c2, c3, c4})
  <2>1. p5[g].par = q[g].par
    BY <1>2, <1>3, <1>4, <1>5, <1>6, <1>7, <1>8, <1>9, <1>10, <1>11
  <2>2. ASSUME NEW k \in 1 .. Len(q), k \notin {g, a, t}
        PROVE  /\ p5[k].key = q[k].key /\ p5[k].val = q[k].val /\ p5[k].red = q[k].red
               /\ p5[k].left = q[k].left /\ p5[k].right = q[k].right
    BY <1>2, <1>3, <1>4, <1>5, <1>6, <1>7, <1>8, <1>9, <1>10, <1>11, <2>2
  <2>3. ASSUME NEW k \in 1 .. Len(q), k \notin {g, a, t}, k \notin {c1, c2, c3, c4}
        PROVE  p5[k].par = q[k].par
    BY <1>2, <1>3, <1>4, <1>5, <1>6, <1>7, <1>8, <1>9, <1>10, <1>11, <2>3
  <2> QED  BY <1>12, <2>1, <2>2, <2>3 DEF Stays
<1>16. /\ Has(p5, a, q, a) /\ Has(p5, g, q, t) /\ Has(p5, t, q, g)
       /\ p5[g].red = q[g].red /\ p5[a].red = q[a].red /\ p5[t].red = FALSE
  BY <1>2, <1>3, <1>4, <1>5, <1>6, <1>7, <1>8, <1>9, <1>10, <1>11
     DEF Has, ColouredAs, SwappedAs, LinkedAs, AllApart
<1> QED  BY <1>1, <1>14, <1>15, <1>16 DEF SpunLR

SpinsRL(q, t, a, g, c1, c2, c3, c4) ==
  /\ q \in Seq(NodeType) /\ t \in 1 .. Len(q) /\ a \in 1 .. Len(q) /\ g \in 1 .. Len(q)
  /\ c1 = q[g].left /\ c2 = q[t].left /\ c3 = q[t].right /\ c4 = q[a].right
  /\ IsLink(q, c1) /\ IsLink(q, c2) /\ IsLink(q, c3) /\ IsLink(q, c4)
  /\ AllApart(g, a, t, c1, c2, c3, c4) /\ q[g].right = a /\ q[a].par = g
  /\ c4 # Nil => q[c4].par = a

SpunRL(q, r, t, a, g, c1, c2, c3, c4) ==
  /\ Joined(r, g, t, a, c1, c2, c3, c4)
  /\ Stays(q, r, g, {g, a, t}, {c1, c2, c3, c4})
  /\ Has(r, a, q, a) /\ Has(r, g, q, t) /\ Has(r, t, q, g)
  /\ r[g].red = q[g].red /\ r[a].red = q[a].red /\ r[t].red = FALSE

\* The rotation of a left child of a right child, assignment by assignment.
LEMMA RotatedRL ==
  ASSUME NEW q, NEW t, NEW a, NEW g, NEW c1, NEW c2, NEW c3, NEW c4,
         SpinsRL(q, t, a, g, c1, c2, c3, c4)
  PROVE  SpunRL(q, RotateRL(q, t, a, g).pool, t, a, g, c1, c2, c3, c4)
<1> USE DEF SpinsRL
<1> DEFINE p0 == [q EXCEPT ![t].red = FALSE]
           p1 == Swapped(p0, g, t)
           p2 == Linked(p1, a, "left", q[t].right)
           p3 == Linked(p2, t, "right", q[t].left)
           p4 == Linked(p3, t, "left", q[g].left)
           p5 == Linked(p4, g, "left", t)
<1>1. RotateRL(q, t, a, g).pool = p5
  BY DEF RotateRL
<1>2. ColouredAs(q, p0, t, FALSE)
  BY ColouredIs
<1> HIDE DEF p0
<1>3. SwappedAs(p0, p1, g, t)
  BY <1>2, SwappedIs DEF ColouredAs, AllApart
<1> HIDE DEF p1
<1>4. p1 \in Seq(NodeType) /\ Len(p1) = Len(q)
  BY <1>2, <1>3 DEF ColouredAs, SwappedAs
<1>5. LinkedAs(p1, p2, a, "left", c3)
  BY <1>4, LinkedIs DEF IsLink
<1> HIDE DEF p2
<1>6. p2 \in Seq(NodeType) /\ Len(p2) = Len(q)
  BY <1>4, <1>5 DEF LinkedAs
<1>7. LinkedAs(p2, p3, t, "right", c2)
  BY <1>6, LinkedIs DEF IsLink
<1> HIDE DEF p3
<1>8. p3 \in Seq(NodeType) /\ Len(p3) = Len(q)
  BY <1>6, <1>7 DEF LinkedAs
<1>9. LinkedAs(p3, p4, t, "left", c1)
  BY <1>8, LinkedIs DEF IsLink
<1> HIDE DEF p4
<1>10. p4 \in Seq(NodeType) /\ Len(p4) = Len(q)
  BY <1>8, <1>9 DEF LinkedAs
<1>11. LinkedAs(p4, p5, g, "left", t)
  BY <1>10, LinkedIs
<1> HIDE DEF p5
<1>12. p5 \in Seq(NodeType) /\ Len(p5) = Len(q)
  BY <1>10, <1>11 DEF LinkedAs
<1>13. Nil \notin 1 .. Len(q)
  BY PoolNodes DEF Nil
<1> USE DEF ColouredAs, SwappedAs, LinkedAs, AllApart
<1>14. Joined(p5, g, t, a, c1, c2, c3, c4)
  <2>1. p1[g].right = a /\ p1[a].right = c4 /\ p1[a].par = g /\ (c4 # Nil => p1[c4].par = a)
    BY <1>2, <1>3 DEF IsLink
  <2>2. p2[g].right = a /\ p2[a].right = c4 /\ p2[a].par = g /\ (c4 # Nil => p2[c4].par = a)
        /\ p2[a].left = c3 /\ (c3 # Nil => p2[c3].par = a)
    BY <1>4, <1>5, <2>1 DEF IsLink
  <2>3. p3[g].right = a /\ p3[a].right = c4 /\ p3[a].par = g /\ (c4 # Nil => p3[c4].par = a)
        /\ p3[a].left = c3 /\ (c3 # Nil => p3[c3].par = a)
        /\ p3[t].right = c2 /\ (c2 # Nil => p3[c2].par = t)
    BY <1>6, <1>7, <2>2 DEF IsLink
  <2>4. p4[g].right = a /\ p4[a].right = c4 /\ p4[a].par = g /\ (c4 # Nil => p4[c4].par = a)
        /\ p4[a].left = c3 /\ (c3 # Nil => p4[c3].par = a)
        /\ p4[t].right = c2 /\ (c2 # Nil => p4[c2].par = t)
        /\ p4[t].left = c1 /\ (c1 # Nil => p4[c1].par = t)
    BY <1>8, <1>9, <2>3 DEF IsLink
  <2> QED  BY <1>10, <1>11, <1>13, <2>4 DEF IsLink, Joined
<1>15. Stays(q, p5, g, {g, a, t}, {c1, c2, c3, c4})
  <2>1. p5[g].par = q[g].par
    BY <1>2, <1>3, <1>4, <1>5, <1>6, <1>7, <1>8, <1>9, <1>10, <1>11
  <2>2. ASSUME NEW k \in 1 .. Len(q), k \notin {g, a, t}
        PROVE  /\ p5[k].key = q[k].key /\ p5[k].val = q[k].val /\ p5[k].red = q[k].red
               /\ p5[k].left = q[k].left /\ p5[k].right = q[k].right
    BY <1>2, <1>3, <1>4, <1>5, <1>6, <1>7, <1>8, <1>9, <1>10, <1>11, <2>2
  <2>3. ASSUME NEW k \in 1 .. Len(q), k \notin {g, a, t}, k \notin {c1, c2, c3, c4}
        PROVE  p5[k].par = q[k].par
    BY <1>2, <1>3, <1>4, <1>5, <1>6, <1>7, <1>8, <1>9, <1>10, <1>11, <2>3
  <2> QED  BY <1>12, <2>1, <2>2, <2>3 DEF Stays
<1>16. /\ Has(p5, a, q, a) /\ Has(p5, g, q, t) /\ Has(p5, t, q, g)
       /\ p5[g].red = q[g].red /\ p5[a].red = q[a].red /\ p5[t].red = FALSE
  BY <1>2, <1>3, <1>4, <1>5, <1>6, <1>7, <1>8, <1>9, <1>10, <1>11
     DEF Has, ColouredAs, SwappedAs, LinkedAs, AllApart
<1> QED  BY <1>1, <1>14, <1>15, <1>16 DEF SpunRL

SpinsRR(q, t, a, g, c1, c2, c3, c4) ==
  /\ q \in Seq(NodeType) /\ t \in 1 .. Len(q) /\ a \in 1 .. Len(q) /\ g \in 1 .. Len(q)
  /\ c1 = q[g].left /\ c2 = q[a].left /\ c3 = q[t].left /\ c4 = q[t].right
  /\ IsLink(q, c1) /\ IsLink(q, c2) /\ IsLink(q, c3) /\ IsLink(q, c4)
  /\ AllApart(g, a, t, c1, c2, c3, c4) /\ q[g].right = a /\ q[a].par = g

SpunRR(q, r, t, a, g, c1, c2, c3, c4) ==
  /\ Joined(r, g, t, a, c1, c2, c3, c4)
  /\ Stays(q, r, g, {g, a, t}, {c1, c2, c3, c4})
  /\ Has(r, t, q, g) /\ Has(r, g, q, a) /\ Has(r, a, q, t)
  /\ r[g].red = FALSE /\ r[a].red = TRUE /\ r[t].red = q[t].red

\* The rotation of a right child of a right child, assignment by assignment.
LEMMA RotatedRR ==
  ASSUME NEW q, NEW t, NEW a, NEW g, NEW c1, NEW c2, NEW c3, NEW c4,
         SpinsRR(q, t, a, g, c1, c2, c3, c4)
  PROVE  SpunRR(q, RotateRR(q, t, a, g).pool, t, a, g, c1, c2, c3, c4)
<1> USE DEF SpinsRR
<1> DEFINE p0 == Swapped(q, g, a)
           p1 == Swapped(p0, a, t)
           p2 == Linked(p1, a, "right", q[t].right)
           p3 == Linked(p2, t, "right", q[a].left)
           p4 == Linked(p3, a, "left", q[t].left)
           p5 == Linked(p4, t, "left", q[g].left)
           p6 == Linked(p5, g, "left", t)
           p7 == [p6 EXCEPT ![g].red = FALSE]
           p8 == [p7 EXCEPT ![a].red = TRUE]
<1>1. RotateRR(q, t, a, g).pool = p8
  BY DEF RotateRR
<1>2. SwappedAs(q, p0, g, a)
  BY SwappedIs DEF AllApart
<1> HIDE DEF p0
<1>3. SwappedAs(p0, p1, a, t)
  <2>1. p0 \in Seq(NodeType) /\ Len(p0) = Len(q) /\ a # t
    BY <1>2 DEF SwappedAs, AllApart
  <2> QED  BY <2>1, SwappedIs
<1> HIDE DEF p1
<1>4. p1 \in Seq(NodeType) /\ Len(p1) = Len(q)
  BY <1>2, <1>3 DEF SwappedAs
<1>5. LinkedAs(p1, p2, a, "right", c4)
  BY <1>4, LinkedIs DEF IsLink
<1> HIDE DEF p2
<1>6. p2 \in Seq(NodeType) /\ Len(p2) = Len(q)
  BY <1>4, <1>5 DEF LinkedAs
<1>7. LinkedAs(p2, p3, t, "right", c2)
  BY <1>6, LinkedIs DEF IsLink
<1> HIDE DEF p3
<1>8. p3 \in Seq(NodeType) /\ Len(p3) = Len(q)
  BY <1>6, <1>7 DEF LinkedAs
<1>9. LinkedAs(p3, p4, a, "left", c3)
  BY <1>8, LinkedIs DEF IsLink
<1> HIDE DEF p4
<1>10. p4 \in Seq(NodeType) /\ Len(p4) = Len(q)
  BY <1>8, <1>9 DEF LinkedAs
<1>11. LinkedAs(p4, p5, t, "left", c1)
  BY <1>10, LinkedIs DEF IsLink
<1> HIDE DEF p5
<1>12. p5 \in Seq(NodeType) /\ Len(p5) = Len(q)
  BY <1>10, <1>11 DEF LinkedAs
<1>13. LinkedAs(p5, p6, g, "left", t)
  BY <1>12, LinkedIs
<1> HIDE DEF p6
<1>14. p6 \in Seq(NodeType) /\ Len(p6) = Len(q)
  BY <1>12, <1>13 DEF LinkedAs
<1>15. ColouredAs(p6, p7, g, FALSE)
  BY <1>14, ColouredIs
<1> HIDE DEF p7
<1>16. p7 \in Seq(NodeType) /\ Len(p7) = Len(q)
  BY <1>14, <1>15 DEF ColouredAs
<1>17. ColouredAs(p7, p8, a, TRUE)
  BY <1>16, ColouredIs
<1> HIDE DEF p8
<1>18. p8 \in Seq(NodeType) /\ Len(p8) = Len(q)
  BY <1>16, <1>17 DEF ColouredAs
<1>19. Nil \notin 1 .. Len(q)
  BY PoolNodes DEF Nil
<1> USE DEF ColouredAs, SwappedAs, LinkedAs, AllApart
<1>20. Joined(p8, g, t, a, c1, c2, c3, c4)
  <2>1. p1[g].right = a /\ p1[a].par = g
    BY <1>2, <1>3
  <2>2. p2[g].right = a /\ p2[a].par = g /\ p2[a].right = c4 /\ (c4 # Nil => p2[c4].par = a)
    BY <1>4, <1>5, <2>1 DEF IsLink
  <2>3. p3[g].right = a /\ p3[a].par = g /\ p3[a].right = c4 /\ (c4 # Nil => p3[c4].par = a)
        /\ p3[t].right = c2 /\ (c2 # Nil => p3[c2].par = t)
    BY <1>6, <1>7, <2>2 DEF IsLink
  <2>4. p4[g].right = a /\ p4[a].par = g /\ p4[a].right = c4 /\ (c4 # Nil => p4[c4].par = a)
        /\ p4[t].right = c2 /\ (c2 # Nil => p4[c2].par = t)
        /\ p4[a].left = c3 /\ (c3 # Nil => p4[c3].par = a)
    BY <1>8, <1>9, <2>3 DEF IsLink
  <2>5. p5[g].right = a /\ p5[a].par = g /\ p5[a].right = c4 /\ (c4 # Nil => p5[c4].par = a)
        /\ p5[t].right = c2 /\ (c2 # Nil => p5[c2].par = t)
        /\ p5[a].left = c3 /\ (c3 # Nil => p5[c3].par = a)
        /\ p5[t].left = c1 /\ (c1 # Nil => p5[c1].par = t)
    BY <1>10, <1>11, <2>4 DEF IsLink
  <2>6. Joined(p6, g, t, a, c1, c2, c3, c4)
    BY <1>12, <1>13, <1>19, <2>5 DEF IsLink, Joined
  <2>7. Joined(p7, g, t, a, c1, c2, c3, c4)
    BY <1>14, <1>15, <2>6 DEF IsLink, Joined
  <2> QED  BY <1>16, <1>17, <2>7 DEF IsLink, Joined
<1>21. Stays(q, p8, g, {g, a, t}, {c1, c2, c3, c4})
  <2> DEFINE T == {g, a, t}
             C == {c1, c2, c3, c4}
  <2>1. p8[g].par = q[g].par
    BY <1>2, <1>3, <1>4, <1>5, <1>6, <1>7, <1>8, <1>9, <1>10, <1>11, <1>12, <1>13, <1>14, <1>15,
       <1>16, <1>17
  <2>2. Stays(q, p2, g, T, C)
    BY <1>2, <1>3, <1>4, <1>5, <1>6 DEF Stays
  <2>3. Stays(p2, p4, g, T, C)
    BY <1>6, <1>7, <1>8, <1>9, <1>10 DEF Stays
  <2>4. Stays(p4, p6, g, T, C)
    BY <1>10, <1>11, <1>12, <1>13, <1>14 DEF Stays
  <2>5. Stays(p6, p7, g, T, C)
    BY <1>14, <1>15, <1>16 DEF Stays
  <2>6. Stays(p7, p8, g, T, C)
    BY <1>16, <1>17, <1>18 DEF Stays
  <2>7. Stays(q, p4, g, T, C)
    BY <1>6, <1>10, <2>2, <2>3 DEF Stays
  <2>8. Stays(q, p6, g, T, C)
    BY <1>10, <1>14, <2>4, <2>7 DEF Stays
  <2>9. Stays(q, p7, g, T, C)
    BY <1>14, <1>16, <2>5, <2>8 DEF Stays
  <2> QED  BY <1>16, <1>18, <2>6, <2>9 DEF Stays
<1>22. Has(p1, t, q, g) /\ Has(p1, g, q, a) /\ Has(p1, a, q, t)
       /\ p1[g].red = q[g].red /\ p1[a].red = q[a].red /\ p1[t].red = q[t].red
  BY <1>2, <1>3 DEF Has
<1>23. /\ Has(p8, t, q, g) /\ Has(p8, g, q, a) /\ Has(p8, a, q, t)
       /\ p8[g].red = FALSE /\ p8[a].red = TRUE /\ p8[t].red = q[t].red
  <2>1. Has(p6, t, q, g) /\ Has(p6, g, q, a) /\ Has(p6, a, q, t) /\ p6[t].red = q[t].red
    BY <1>4, <1>5, <1>6, <1>7, <1>8, <1>9, <1>10, <1>11, <1>12, <1>13, <1>22 DEF Has
  <2> QED  BY <1>14, <1>15, <1>16, <1>17, <2>1 DEF Has
<1> QED  BY <1>1, <1>20, <1>21, <1>23 DEF SpunRR

\* m takes the place of g under the parent of g.
Rises(q, r, g, m, T, C) ==
  /\ r \in Seq(NodeType) /\ Len(r) = Len(q) /\ r[m].par = q[g].par
  /\ \A k \in 1 .. Len(q) : k \notin T =>
       /\ r[k].key = q[k].key /\ r[k].val = q[k].val /\ r[k].red = q[k].red
       /\ k # q[g].par => r[k].left = q[k].left /\ r[k].right = q[k].right
       /\ k \notin C => r[k].par = q[k].par
  /\ q[g].par # Nil =>
       IF q[q[g].par].left = g
       THEN r[q[g].par].left = m /\ r[q[g].par].right = q[q[g].par].right
       ELSE r[q[g].par].right = m /\ r[q[g].par].left = q[q[g].par].left

SpinsLL(q, t, a, g, c1, c2, c3, c4) ==
  /\ q \in Seq(NodeType) /\ t \in 1 .. Len(q) /\ a \in 1 .. Len(q) /\ g \in 1 .. Len(q)
  /\ c1 = q[t].left /\ c2 = q[t].right /\ c3 = q[a].right /\ c4 = q[g].right
  /\ IsLink(q, c1) /\ IsLink(q, c2) /\ IsLink(q, c3) /\ IsLink(q, c4)
  /\ AllApart(g, a, t, c1, c2, c3, c4) /\ q[a].left = t /\ q[t].par = a /\ IsLink(q, q[g].par) /\ q[g].par \notin {g, a, t}
  /\ c4 # Nil => q[c4].par = g
  /\ c1 # Nil => q[c1].par = t
  /\ c2 # Nil => q[c2].par = t

SpunLL(q, r, t, a, g, c1, c2, c3, c4) ==
  /\ Joined(r, a, t, g, c1, c2, c3, c4)
  /\ Rises(q, r, g, a, {g, a, t}, {c1, c2, c3, c4})
  /\ Has(r, t, q, t) /\ Has(r, a, q, a) /\ Has(r, g, q, g)
  /\ r[g].red = q[g].red /\ r[a].red = q[a].red /\ r[t].red = q[t].red

\* The rotation of a left child of a left child, which alone moves nodes.
LEMMA RotatedLL ==
  ASSUME NEW q, NEW t, NEW a, NEW g, NEW c1, NEW c2, NEW c3, NEW c4,
         SpinsLL(q, t, a, g, c1, c2, c3, c4)
  PROVE  SpunLL(q, RotateLL(q, a, g).pool, t, a, g, c1, c2, c3, c4)
<1> USE DEF SpinsLL
<1> DEFINE up == q[g].par
           p1 == [q EXCEPT ![a].par = up]
           side == IF p1[up].left = g THEN "left" ELSE "right"
           p2 == IF up = Nil THEN p1 ELSE Linked(p1, up, side, a)
           p3 == Linked(p2, g, "left", q[a].right)
           p4 == Linked(p3, a, "right", g)
           T == {g, a, t}
           C == {c1, c2, c3, c4}
<1>1. Nil \notin 1 .. Len(q) /\ up \in Nat
  BY PoolNodes DEF Nil
<1>2. RotateLL(q, a, g).pool = p4
  BY DEF RotateLL
<1>3. ParentAs(q, p1, a, up)
  BY <1>1, ParentIs
<1> HIDE DEF p1
<1>4. p1 \in Seq(NodeType) /\ Len(p1) = Len(q)
  BY <1>3 DEF ParentAs
<1>5. up # Nil => LinkedAs(p1, p2, up, side, a) /\ up \in 1 .. Len(q)
  BY <1>4, LinkedIs DEF IsLink
<1>6. up = Nil => p2 = p1
  OBVIOUS
<1>7. up # Nil => p1[up].left = q[up].left /\ (side = "left" <=> q[up].left = g)
                  /\ (side = "right" <=> q[up].left # g)
  BY <1>3, <1>5 DEF ParentAs
<1> HIDE DEF p2, side
<1>8. p2 \in Seq(NodeType) /\ Len(p2) = Len(q)
  BY <1>4, <1>5, <1>6 DEF LinkedAs
<1>9. /\ p2[a].par = up
      /\ \A k \in 1 .. Len(q) :
           /\ p2[k].key = q[k].key /\ p2[k].val = q[k].val /\ p2[k].red = q[k].red
           /\ k # up => p2[k].left = q[k].left /\ p2[k].right = q[k].right
           /\ k # a => p2[k].par = q[k].par
  <2>1. CASE up = Nil
    BY <1>3, <1>6, <2>1 DEF ParentAs
  <2>2. CASE up # Nil
    <3>1. a # Nil
      BY <1>1
    <3> QED  BY <1>3, <1>4, <1>5, <2>2, <3>1 DEF ParentAs, LinkedAs
  <2> QED  BY <2>1, <2>2
<1>10. up # Nil => IF q[up].left = g THEN p2[up].left = a /\ p2[up].right = q[up].right
                   ELSE p2[up].right = a /\ p2[up].left = q[up].left
  BY <1>3, <1>4, <1>5, <1>7 DEF ParentAs, LinkedAs
<1>11. LinkedAs(p2, p3, g, "left", c3)
  BY <1>8, LinkedIs DEF IsLink
<1> HIDE DEF p3
<1>12. p3 \in Seq(NodeType) /\ Len(p3) = Len(q)
  BY <1>8, <1>11 DEF LinkedAs
<1>13. LinkedAs(p3, p4, a, "right", g)
  BY <1>12, LinkedIs
<1> HIDE DEF p4
<1>14. p4 \in Seq(NodeType) /\ Len(p4) = Len(q)
  BY <1>12, <1>13 DEF LinkedAs
<1> USE DEF LinkedAs, AllApart
<1>15. Joined(p4, a, t, g, c1, c2, c3, c4)
  <2>1. /\ p2[a].left = t /\ p2[t].par = a /\ p2[g].right = c4 /\ p2[t].left = c1 /\ p2[t].right = c2
        /\ c4 # Nil => p2[c4].par = g
        /\ c1 # Nil => p2[c1].par = t
        /\ c2 # Nil => p2[c2].par = t
    BY <1>9 DEF IsLink
  <2>2. /\ p3[a].left = t /\ p3[t].par = a /\ p3[g].right = c4 /\ p3[t].left = c1 /\ p3[t].right = c2
        /\ c4 # Nil => p3[c4].par = g
        /\ c1 # Nil => p3[c1].par = t
        /\ c2 # Nil => p3[c2].par = t
        /\ p3[g].left = c3
        /\ c3 # Nil => p3[c3].par = g
    BY <1>8, <1>11, <2>1 DEF IsLink
  <2> QED  BY <1>1, <1>12, <1>13, <2>2 DEF IsLink, Joined
<1>16. Rises(q, p4, g, a, T, C)
  <2>1. p4[a].par = up
    BY <1>8, <1>9, <1>11, <1>12, <1>13
  <2>2. ASSUME NEW k \in 1 .. Len(q), k \notin T
        PROVE  /\ p4[k].key = q[k].key /\ p4[k].val = q[k].val /\ p4[k].red = q[k].red
               /\ p4[k].left = p2[k].left /\ p4[k].right = p2[k].right
               /\ k # up => p4[k].left = q[k].left /\ p4[k].right = q[k].right
               /\ k \notin C => p4[k].par = q[k].par
    BY <1>8, <1>9, <1>11, <1>12, <1>13, <2>2
  <2>3. up # Nil => p4[up].left = p2[up].left /\ p4[up].right = p2[up].right
    BY <1>5, <2>2
  <2> QED  BY <1>10, <1>14, <2>1, <2>2, <2>3 DEF Rises
<1>17. /\ Has(p4, t, q, t) /\ Has(p4, a, q, a) /\ Has(p4, g, q, g)
       /\ p4[g].red = q[g].red /\ p4[a].red = q[a].red /\ p4[t].red = q[t].red
  BY <1>8, <1>9, <1>11, <1>12, <1>13 DEF Has
<1> QED  BY <1>2, <1>15, <1>16, <1>17 DEF SpunLL

-----------------------------------------------------------------------------
\* A red node under a red node.

Balanced(q, h, N, U, H, rk, t) ==
  /\ Shape(q, h, N, U) /\ Sorted(q, N, U, rk) /\ Heights(q, N, H)
  /\ NoReds(q, N, t) /\ ~q[h].red /\ t \in N

\* t, its parent a and its grandparent g; the other children are u, w.
Family(q, N, t, a, g, u, w) ==
  /\ a = q[t].par /\ g = q[a].par /\ a \in N /\ g \in N
  /\ q[t].red /\ q[a].red /\ ~q[g].red
  /\ \/ q[g].left = a /\ q[g].right = u
     \/ q[g].left = u /\ q[g].right = a /\ u # a
  /\ \/ q[a].left = t /\ q[a].right = w
     \/ q[a].left = w /\ q[a].right = t /\ w # t
  /\ \A c \in {w, q[t].left, q[t].right} : c # Nil => ~q[c].red

\* Who is looked at by the loop when a red node has a red parent.
LEMMA FamilyIs ==
  ASSUME NEW q, NEW h, NEW N, NEW U, NEW H, NEW rk, NEW t,
         Balanced(q, h, N, U, H, rk, t), q[t].red, q[q[t].par].red
  PROVE  LET a == q[t].par
             g == q[a].par
             u == IF q[g].left = a THEN q[g].right ELSE q[g].left
             w == IF q[a].left = t THEN q[a].right ELSE q[a].left
         IN  Family(q, N, t, a, g, u, w)
<1> DEFINE a == q[t].par
           g == q[a].par
           u == IF q[g].left = a THEN q[g].right ELSE q[g].left
           w == IF q[a].left = t THEN q[a].right ELSE q[a].left
<1>1. Shape(q, h, N, U) /\ NoReds(q, N, t) /\ ~q[h].red /\ t \in N /\ Nil \notin N
  BY DEF Balanced, Shape, Nil
<1>2. a \in N /\ (t = q[a].left \/ t = q[a].right)
  <2>1. t # h
    BY <1>1
  <2> QED  BY <1>1, <2>1 DEF Shape, Hangs
<1>3. g \in N /\ (a = q[g].left \/ a = q[g].right)
  <2>1. a # h
    BY <1>1
  <2> QED  BY <1>1, <1>2, <2>1 DEF Shape, Hangs
<1>4. a # t
  BY <1>1, <1>2 DEF Shape, Placed, Under
<1>5. ~q[g].red
  BY <1>1, <1>2, <1>3, <1>4 DEF NoReds
<1>6. ASSUME NEW n \in {a, t}, NEW c \in {q[n].left, q[n].right}, c # Nil, c # t
      PROVE  ~q[c].red
  <2>1. n \in N /\ q[n].red /\ n # Nil
    BY <1>1, <1>2, <1>6
  <2>2. c \in N /\ q[c].par = n
    BY <1>1, <1>6, <2>1 DEF Shape, Placed
  <2> QED  BY <1>1, <1>6, <2>1, <2>2 DEF NoReds
<1>7. q[t].left # t /\ q[t].right # t
  BY <1>1 DEF Shape, Placed, Under, Nil
<1>8. ASSUME w = t PROVE FALSE
  <2>1. q[a].left = t /\ q[a].right = t
    BY <1>2, <1>8
  <2>2. t \in U[t] /\ t # Nil
    BY <1>1, Smaller
  <2>3. Under(U, q[a].left) \cap Under(U, q[a].right) = {}
    BY <1>1, <1>2 DEF Shape, Placed
  <2> QED  BY <2>1, <2>2, <2>3 DEF Under
<1>9. \A c \in {w, q[t].left, q[t].right} : c # Nil => ~q[c].red
  <2>1. w # Nil => ~q[w].red
    BY <1>6, <1>8
  <2>2. q[t].left # Nil => ~q[q[t].left].red
    BY <1>6, <1>7
  <2>3. q[t].right # Nil => ~q[q[t].right].red
    BY <1>6, <1>7
  <2> QED  BY <2>1, <2>2, <2>3
<1> QED  BY <1>2, <1>3, <1>5, <1>8, <1>9 DEF Family

Clan(q, N, U, t, a, g, u, w) ==
  /\ Clump(q, N, U, g, {g, a, t}, u, w, q[t].left, q[t].right)
  /\ AllApart(g, a, t, u, w, q[t].left, q[t].right)
  /\ \A c \in {u, w, q[t].left, q[t].right} : IsLink(q, c)
  /\ u # Nil => u \in N /\ q[u].par = g
  /\ w # Nil => w \in N /\ q[w].par = a
  /\ q[g].par \notin {g, a, t} /\ IsLink(q, q[g].par)

\* The node, its parent and its grandparent are a clump.
LEMMA FamilyClump ==
  ASSUME NEW q, NEW h, NEW N, NEW U, Shape(q, h, N, U), NEW t \in N,
         NEW a, NEW g, NEW u, NEW w, Family(q, N, t, a, g, u, w)
  PROVE  Clan(q, N, U, t, a, g, u, w)
<1> DEFINE v1 == q[t].left
           v2 == q[t].right
<1>1. Placed(q, N, U, g) /\ Placed(q, N, U, a) /\ Placed(q, N, U, t) /\ Nil \notin N
      /\ a \in N /\ g \in N /\ N \subseteq 1 .. Len(q)
  BY DEF Shape, Family, Nil
<1>2. a # Nil /\ g # Nil /\ t # Nil
  BY <1>1
<1>3. /\ U[g] = {g} \cup Under(U, a) \cup Under(U, u) /\ g \notin Under(U, a) /\ g \notin Under(U, u)
      /\ Under(U, a) \cap Under(U, u) = {}
      /\ u # Nil => u \in N /\ q[u].par = g
  BY <1>1 DEF Placed, Family
<1>4. /\ U[a] = {a} \cup Under(U, t) \cup Under(U, w) /\ a \notin Under(U, t) /\ a \notin Under(U, w)
      /\ Under(U, t) \cap Under(U, w) = {}
      /\ w # Nil => w \in N /\ q[w].par = a
  BY <1>1 DEF Placed, Family
<1>5. /\ U[t] = {t} \cup Under(U, v1) \cup Under(U, v2) /\ t \notin Under(U, v1) /\ t \notin Under(U, v2)
      /\ Under(U, v1) \cap Under(U, v2) = {}
      /\ v1 # Nil => v1 \in N /\ q[v1].par = t
      /\ v2 # Nil => v2 \in N /\ q[v2].par = t
  BY <1>1 DEF Placed
<1>6. Under(U, a) = U[a] /\ Under(U, t) = U[t]
  BY <1>2 DEF Under
<1>7. /\ U[g] = {g, a, t} \cup Subtrees(U, u, w, v1, v2)
      /\ Apart4(U, {g, a, t}, u, w, v1, v2)
      /\ g # a /\ g # t /\ a # t
  BY <1>3, <1>4, <1>5, <1>6 DEF Subtrees, Apart4
<1>8. \A c \in {u, w, v1, v2} : c # Nil => c \in N /\ q[c].par \in {g, a, t} /\ c \in Under(U, c)
  <2>1. \A c \in N : c \in U[c]
    BY Smaller
  <2> QED  BY <1>3, <1>4, <1>5, <2>1 DEF Under
<1> HIDE DEF v1, v2
<1>9. Clump(q, N, U, g, {g, a, t}, u, w, v1, v2)
  BY <1>1, <1>7, <1>8 DEF Clump, Family, v1, v2
<1>10. AllApart(g, a, t, u, w, v1, v2)
  BY <1>2, <1>7, <1>8 DEF AllApart, Apart4
<1>11. \A c \in {u, w, v1, v2} : IsLink(q, c)
  BY <1>1, <1>8 DEF IsLink
<1>12. q[g].par \notin {g, a, t} /\ IsLink(q, q[g].par)
  <2>1. CASE g = h
    BY <1>2, <2>1 DEF Shape, IsLink
  <2>2. CASE g # h
    <3>1. q[g].par \in N /\ (g = q[q[g].par].left \/ g = q[q[g].par].right)
      BY <1>1, <2>2 DEF Shape, Hangs
    <3>2. q[g].par \notin U[g]
      BY <1>1, <1>2, <3>1 DEF Shape, Placed, Under
    <3> QED  BY <1>1, <1>7, <3>1, <3>2 DEF IsLink
  <2> QED  BY <2>1, <2>2
<1> QED  BY <1>3, <1>4, <1>9, <1>10, <1>11, <1>12 DEF Clan, v1, v2

\* The colours change before the rotation.
Flipped(p, q, a, g) ==
  /\ q \in Seq(NodeType) /\ Len(q) = Len(p)
  /\ \A k \in 1 .. Len(p) :
       /\ q[k].key = p[k].key /\ q[k].val = p[k].val /\ q[k].par = p[k].par
       /\ q[k].left = p[k].left /\ q[k].right = p[k].right
       /\ k # a /\ k # g => q[k].red = p[k].red
  /\ q[a].red = FALSE /\ q[g].red = TRUE

\* The two colours changed before a rotation.
LEMMA FlippedIs ==
  ASSUME NEW p \in Seq(NodeType), NEW a \in 1 .. Len(p), NEW g \in 1 .. Len(p), a # g
  PROVE  Flipped(p, [p EXCEPT ![a].red = FALSE, ![g].red = TRUE], a, g)
<1> DEFINE p1 == [p EXCEPT ![a].red = FALSE]
           p2 == [p1 EXCEPT ![g].red = TRUE]
<1>1. ColouredAs(p, p1, a, FALSE)
  BY ColouredIs
<1>2. [p EXCEPT ![a].red = FALSE, ![g].red = TRUE] = p2
  OBVIOUS
<1> HIDE DEF p1
<1>3. p1 \in Seq(NodeType) /\ Len(p1) = Len(p)
  BY <1>1 DEF ColouredAs
<1>4. ColouredAs(p1, p2, g, TRUE)
  BY <1>3, ColouredIs
<1> HIDE DEF p2
<1>5. Flipped(p, p2, a, g)
  BY <1>1, <1>4 DEF ColouredAs, Flipped
<1> QED  BY <1>2, <1>5

-----------------------------------------------------------------------------
\* Rotations, with the colours that change before them.

SameAt(p, r, k) ==
  /\ r[k].key = p[k].key /\ r[k].val = p[k].val /\ r[k].red = p[k].red
  /\ r[k].left = p[k].left /\ r[k].right = p[k].right /\ r[k].par = p[k].par

\* Nothing changes outside of the tree.
Frame(p, r, N) ==
  r \in Seq(NodeType) /\ Len(r) = Len(p) /\ \A k \in 1 .. Len(p) : k \notin N => SameAt(p, r, k)

\* The same keys and values.
SameContents(p, r, N) ==
  /\ \A n \in N : \E k \in N : Has(r, n, p, k)
  /\ \A n \in N : \E k \in N : Has(r, k, p, n)

RotatedAs(p, r, h, N, U, H, rk, t, g, m, x, y, c1, c2, c3, c4) ==
  /\ Turned(p, r, h, N, U, g, m, x, y, c1, c2, c3, c4)
  /\ Ranked(p, r, rk, U, {m, x, y}, m, x, y, c1, c2, c3, c4)
  /\ OneLevel(r, m, x, y)
  /\ Level(H, H[t], c1, c2, c3, c4) /\ H[g] = H[t] + 1
  /\ t \in {m, x, y}
  /\ \A c \in {c1, c2, c3, c4} : c # Nil => ~p[c].red
  /\ Frame(p, r, N) /\ SameContents(p, r, {m, x, y})

RotatedTo(p, r, h, N, U, H, rk, t, m) ==
  \E g \in N : \E x, y, c1, c2, c3, c4 :
     RotatedAs(p, r, h, N, U, H, rk, t, g, m, x, y, c1, c2, c3, c4) /\ U[t] \subseteq U[g] /\ g # t

InTree(N, a, g, T, C) ==
  a \in T /\ g \in T /\ T \subseteq N /\ \A c \in C : c # Nil => c \in N

\* A rotation that moves contents leaves the rest of the tree as it was,
LEMMA StaysElsewhere ==
  ASSUME NEW p, NEW q, NEW r, NEW h, NEW N, NEW U, NEW a, NEW g, NEW T, NEW C,
         Shape(p, h, N, U), Flipped(p, q, a, g), Stays(q, r, g, T, C),
         InTree(N, a, g, T, C)
  PROVE  Elsewhere(p, r, N, g, g, T, C) /\ Frame(p, r, N)
<1> USE DEF InTree
<1>1. N \subseteq 1 .. Len(p) /\ g \in 1 .. Len(p) /\ p \in Seq(NodeType)
  BY DEF Shape
<1>2. Nil \notin 1 .. Len(p)
  BY <1>1, PoolNodes
<1>3. Elsewhere(p, r, N, g, g, T, C)
  BY <1>1 DEF Elsewhere, Flipped, Stays
<1>4. ASSUME NEW k \in 1 .. Len(p), k \notin N PROVE SameAt(p, r, k)
  <2>1. k \notin T /\ k \notin C
    BY <1>2, <1>4
  <2> QED  BY <1>4, <2>1 DEF Flipped, Stays, SameAt
<1> QED  BY <1>3, <1>4 DEF Frame, Flipped, Stays

\* and so does the one that moves nodes, but for the link from above.
LEMMA RisesElsewhere ==
  ASSUME NEW p, NEW q, NEW r, NEW h, NEW N, NEW U, NEW a, NEW g, NEW m, NEW T, NEW C,
         Shape(p, h, N, U), Flipped(p, q, a, g), Rises(q, r, g, m, T, C),
         InTree(N, a, g, T, C),
         p[g].par \notin T
  PROVE  Elsewhere(p, r, N, g, m, T, C) /\ Frame(p, r, N)
<1> USE DEF InTree
<1> DEFINE up == p[g].par
<1>1. N \subseteq 1 .. Len(p) /\ g \in 1 .. Len(p) /\ p \in Seq(NodeType) /\ g \in N
  BY DEF Shape
<1>2. Nil \notin 1 .. Len(p)
  BY <1>1, PoolNodes
<1>3. q[g].par = up
  BY <1>1 DEF Flipped
<1>4. up = Nil \/ (up \in N /\ (g = p[up].left \/ g = p[up].right))
  BY <1>1 DEF Shape, Hangs
<1>5. ASSUME NEW n \in N, n \notin T
      PROVE  /\ r[n].left = (IF p[n].left = g THEN m ELSE p[n].left)
             /\ r[n].right = (IF p[n].right = g THEN m ELSE p[n].right)
  <2>1. CASE n # up
    <3>1. Placed(p, N, U, n) /\ g # Nil
      BY <1>1, <1>2 DEF Shape
    <3>2. p[n].left # g /\ p[n].right # g
      BY <2>1, <3>1 DEF Placed
    <3> QED  BY <1>1, <1>3, <1>5, <2>1, <3>2 DEF Rises, Flipped
  <2>2. CASE n = up
    <3>1. up # Nil /\ up \in 1 .. Len(p)
      BY <1>1, <1>2, <2>2
    <3>2. ~(p[up].left = g /\ p[up].right = g)
      <4>1. g \in U[g] /\ g # Nil
        BY <1>1, <1>2, Smaller
      <4>2. Under(U, p[up].left) \cap Under(U, p[up].right) = {}
        BY <2>2 DEF Shape, Placed
      <4> QED  BY <4>1, <4>2 DEF Under
    <3>3. q[up].left = p[up].left /\ q[up].right = p[up].right
      BY <3>1 DEF Flipped
    <3>4. CASE p[up].left = g
      BY <1>3, <2>2, <3>1, <3>2, <3>3, <3>4 DEF Rises
    <3>5. CASE p[up].left # g
      BY <1>3, <1>4, <2>2, <3>1, <3>3, <3>5 DEF Rises
    <3> QED  BY <3>4, <3>5
  <2> QED  BY <2>1, <2>2
<1>6. ASSUME NEW n \in N, n \notin T
      PROVE  /\ r[n].key = p[n].key /\ r[n].val = p[n].val /\ r[n].red = p[n].red
             /\ n \notin C => r[n].par = p[n].par
  BY <1>1, <1>6 DEF Rises, Flipped
<1>7. Elsewhere(p, r, N, g, m, T, C)
  BY <1>3, <1>5, <1>6 DEF Elsewhere, Rises
<1>8. ASSUME NEW k \in 1 .. Len(p), k \notin N PROVE SameAt(p, r, k)
  <2>1. k \notin T /\ k \notin C /\ k # up
    BY <1>2, <1>4, <1>8
  <2> QED  BY <1>3, <1>8, <2>1 DEF Flipped, Rises, SameAt
<1> QED  BY <1>7, <1>8 DEF Frame, Flipped, Rises

\* The black nodes on the ways below the family of a red node.
LEMMA FamilyLevel ==
  ASSUME NEW q, NEW h, NEW N, NEW U, NEW H, NEW rk, NEW t,
         Balanced(q, h, N, U, H, rk, t), NEW a, NEW g, NEW u, NEW w, Family(q, N, t, a, g, u, w)
  PROVE  /\ Level(H, H[t], u, w, q[t].left, q[t].right) /\ H[g] = H[t] + 1 /\ H[a] = H[t]
         /\ H[t] \in Nat
<1>1. /\ H \in [N -> Nat] /\ t \in N /\ a \in N /\ g \in N /\ Nil \notin N
      /\ \A n \in N : Deep(H, q[n].left) = Deep(H, q[n].right)
      /\ \A n \in N : H[n] = Deep(H, q[n].left) + Weight(q, n)
  BY DEF Balanced, Heights, Family, Shape, Nil
<1>2. \A n \in N : Deep(H, n) = H[n] /\ H[n] \in Nat
  BY <1>1 DEF Deep
<1>3. Weight(q, t) = 0 /\ Weight(q, a) = 0 /\ Weight(q, g) = 1
  BY DEF Weight, Family
<1>4. /\ Deep(H, q[t].left) \in Nat /\ Deep(H, q[a].left) \in Nat /\ Deep(H, q[g].left) \in Nat
  BY <1>1, <1>2 DEF Balanced, Shape, Placed, Deep
<1>5. Deep(H, q[t].left) = H[t] /\ Deep(H, q[t].right) = H[t]
  BY <1>1, <1>3, <1>4
<1>6. H[a] = H[t] /\ Deep(H, w) = H[t]
  <2>1. H[a] = Deep(H, q[a].left) /\ H[a] = Deep(H, q[a].right)
    BY <1>1, <1>3, <1>4
  <2> QED  BY <1>1, <1>2, <2>1 DEF Family
<1>7. H[g] = H[t] + 1 /\ Deep(H, u) = H[t]
  <2>1. H[g] = Deep(H, q[g].left) + 1 /\ Deep(H, q[g].left) = Deep(H, q[g].right)
    BY <1>1, <1>3
  <2> QED  BY <1>1, <1>2, <1>6, <2>1 DEF Family
<1> QED  BY <1>1, <1>2, <1>5, <1>6, <1>7 DEF Level

\* The ranks of the subtrees of a node, with what is below them.
LEMMA RanksUnder ==
  ASSUME NEW q, NEW h, NEW N, NEW U, NEW rk, Shape(q, h, N, U), Sorted(q, N, U, rk), NEW n \in N
  PROVE  /\ Rank(q, rk, n) \in Int
         /\ \A b \in Under(U, q[n].left) : Rank(q, rk, b) \in Int /\ Rank(q, rk, b) <= Rank(q, rk, n)
         /\ \A b \in Under(U, q[n].right) : Rank(q, rk, b) \in Int /\ Rank(q, rk, n) <= Rank(q, rk, b)
<1>1. Under(U, q[n].left) \subseteq N /\ Under(U, q[n].right) \subseteq N
  BY DEF Shape, Placed, Under
<1> QED  BY <1>1 DEF Sorted

\* What does not depend on the case.
Moved(p, r, rk, m, x, y, lo, mid, hi) ==
  Has(r, x, p, lo) /\ Has(r, m, p, mid) /\ Has(r, y, p, hi)

Ordered(p, rk, U, lo, mid, hi, c1, c2, c3, c4) ==
  Between(p, rk, Under(U, c1), Under(U, c2), Under(U, c3), Under(U, c4),
          Rank(p, rk, lo), Rank(p, rk, mid), Rank(p, rk, hi))

\* Contents that are in order and moved to places in order are in order.
LEMMA MovedRanked ==
  ASSUME NEW p, NEW r, NEW rk, NEW U, NEW m, NEW x, NEW y, NEW lo, NEW mid, NEW hi,
         NEW c1, NEW c2, NEW c3, NEW c4,
         Moved(p, r, rk, m, x, y, lo, mid, hi), Ordered(p, rk, U, lo, mid, hi, c1, c2, c3, c4),
         {m, x, y} = {lo, mid, hi}
  PROVE  /\ Ranked(p, r, rk, U, {m, x, y}, m, x, y, c1, c2, c3, c4)
         /\ SameContents(p, r, {m, x, y})
<1>1. /\ Rank(r, rk, x) = Rank(p, rk, lo) /\ Rank(r, rk, m) = Rank(p, rk, mid)
      /\ Rank(r, rk, y) = Rank(p, rk, hi)
  BY DEF Rank, Moved, Has
<1>2. \A n \in {m, x, y} : \E k \in {m, x, y} : Rank(r, rk, n) = Rank(p, rk, k)
  BY <1>1
<1>3. Ranked(p, r, rk, U, {m, x, y}, m, x, y, c1, c2, c3, c4)
  BY <1>1, <1>2 DEF Ranked, Ordered
<1>4. SameContents(p, r, {m, x, y})
  BY DEF SameContents, Moved
<1> QED  BY <1>3, <1>4

\* The four rotations, of what the colours have changed.
Aside(p, q, h, N, U, H, rk, t, a, g, u, w) ==
  /\ Balanced(p, h, N, U, H, rk, t) /\ Family(p, N, t, a, g, u, w)
  /\ u # Nil => ~p[u].red
  /\ Flipped(p, q, a, g)

AsideFacts(p, q, N, U, t, a, g, u, w) ==
  /\ p \in Seq(NodeType) /\ q \in Seq(NodeType) /\ Len(q) = Len(p)
  /\ t \in N /\ a \in N /\ g \in N /\ t \in 1 .. Len(q) /\ a \in 1 .. Len(q) /\ g \in 1 .. Len(q)
  /\ Nil \notin N /\ N \subseteq 1 .. Len(p)
  /\ \A k \in N : q[k].left = p[k].left /\ q[k].right = p[k].right /\ q[k].par = p[k].par
                 /\ Has(q, k, p, k)
  /\ q[a].red = FALSE /\ q[g].red = TRUE /\ q[t].red = TRUE
  /\ Clump(p, N, U, g, {g, a, t}, u, w, p[t].left, p[t].right)
  /\ AllApart(g, a, t, u, w, p[t].left, p[t].right)
  /\ \A c \in {u, w, p[t].left, p[t].right} : IsLink(q, c) /\ (c # Nil => c \in N /\ ~p[c].red)
  /\ u # Nil => p[u].par = g
  /\ w # Nil => p[w].par = a
  /\ p[t].left # Nil => p[p[t].left].par = t
  /\ p[t].right # Nil => p[p[t].right].par = t
  /\ a = p[t].par /\ g = p[a].par /\ q[t].par = a /\ q[a].par = g
  /\ IsLink(q, q[g].par) /\ q[g].par \notin {g, a, t}

\* What the rotations need of the nodes around, with a black uncle.
LEMMA AsideIs ==
  ASSUME NEW p, NEW q, NEW h, NEW N, NEW U, NEW H, NEW rk, NEW t, NEW a, NEW g, NEW u, NEW w,
         Aside(p, q, h, N, U, H, rk, t, a, g, u, w)
  PROVE  AsideFacts(p, q, N, U, t, a, g, u, w)
<1>1. /\ Shape(p, h, N, U) /\ t \in N /\ a \in N /\ g \in N /\ Nil \notin N /\ N \subseteq 1 .. Len(p)
      /\ Family(p, N, t, a, g, u, w)
      /\ p \in Seq(NodeType) /\ q \in Seq(NodeType) /\ Len(q) = Len(p) /\ Flipped(p, q, a, g)
  <2>1. Balanced(p, h, N, U, H, rk, t) /\ Family(p, N, t, a, g, u, w) /\ Flipped(p, q, a, g)
    BY DEF Aside
  <2>2. Shape(p, h, N, U) /\ t \in N /\ a \in N /\ g \in N
    BY <2>1 DEF Balanced, Family
  <2>3. p \in Seq(NodeType) /\ N \subseteq 1 .. Len(p)
    BY <2>2 DEF Shape
  <2>4. Nil \notin N
    BY <2>3, PoolNodes
  <2>5. q \in Seq(NodeType) /\ Len(q) = Len(p)
    BY <2>1 DEF Flipped
  <2> QED  BY <2>1, <2>2, <2>3, <2>4, <2>5
<1>2. /\ Clump(p, N, U, g, {g, a, t}, u, w, p[t].left, p[t].right)
      /\ AllApart(g, a, t, u, w, p[t].left, p[t].right)
      /\ \A c \in {u, w, p[t].left, p[t].right} : IsLink(p, c)
      /\ u # Nil => u \in N /\ p[u].par = g
      /\ w # Nil => w \in N /\ p[w].par = a
      /\ p[g].par \notin {g, a, t} /\ IsLink(p, p[g].par)
  BY <1>1, FamilyClump DEF Clan
<1>3. \A k \in N : q[k].left = p[k].left /\ q[k].right = p[k].right /\ q[k].par = p[k].par
                 /\ Has(q, k, p, k)
  BY <1>1 DEF Flipped, Has
<1>4. q[a].red = FALSE /\ q[g].red = TRUE /\ q[t].red = TRUE
  <2>1. t # a /\ t # g
    BY <1>2 DEF AllApart
  <2> QED  BY <1>1, <2>1, PoolNodes DEF Flipped, Family
<1>5. \A c \in {u, w, p[t].left, p[t].right} : IsLink(q, c) /\ (c # Nil => c \in N /\ ~p[c].red)
  BY <1>1, <1>2 DEF IsLink, Clump, Family, Aside
<1>6. /\ p[t].left # Nil => p[p[t].left].par = t
      /\ p[t].right # Nil => p[p[t].right].par = t
  BY <1>1 DEF Shape, Placed
<1>7. a = p[t].par /\ g = p[a].par
  BY <1>1 DEF Family
<1>8. IsLink(q, q[g].par) /\ q[g].par \notin {g, a, t}
  BY <1>1, <1>2, <1>3 DEF IsLink
<1> QED  BY <1>1, <1>2, <1>3, <1>4, <1>5, <1>6, <1>7, <1>8 DEF AsideFacts

Collects(p, q, r, h, N, U, H, rk, t, a, g, u, w, m, x, y, lo, mid, hi, c1, c2, c3, c4) ==
  /\ Aside(p, q, h, N, U, H, rk, t, a, g, u, w)
  /\ {m, x, y} = {g, a, t} /\ {lo, mid, hi} = {g, a, t} /\ m # x /\ m # y /\ x # y
  /\ {c1, c2, c3, c4} = {u, w, p[t].left, p[t].right}
  /\ Clump(p, N, U, g, {g, a, t}, c1, c2, c3, c4)
  /\ Joined(r, m, x, y, c1, c2, c3, c4) /\ OneLevel(r, m, x, y)
  /\ Moved(p, r, rk, m, x, y, lo, mid, hi) /\ Ordered(p, rk, U, lo, mid, hi, c1, c2, c3, c4)
  /\ Elsewhere(p, r, N, g, m, {g, a, t}, {c1, c2, c3, c4}) /\ Frame(p, r, N)

\* The facts on a rotation, put together.
LEMMA Collected ==
  ASSUME NEW p, NEW q, NEW r, NEW h, NEW N, NEW U, NEW H, NEW rk, NEW t, NEW a, NEW g, NEW u, NEW w,
         NEW m, NEW x, NEW y, NEW lo, NEW mid, NEW hi, NEW c1, NEW c2, NEW c3, NEW c4,
         Collects(p, q, r, h, N, U, H, rk, t, a, g, u, w, m, x, y, lo, mid, hi, c1, c2, c3, c4)
  PROVE  RotatedTo(p, r, h, N, U, H, rk, t, m)
<1> USE DEF Collects
<1>0. AsideFacts(p, q, N, U, t, a, g, u, w)
  BY AsideIs
<1>1. Turned(p, r, h, N, U, g, m, x, y, c1, c2, c3, c4)
  <2>1. Shape(p, h, N, U)
    BY DEF Aside, Balanced
  <2>2. r \in Seq(NodeType) /\ Len(r) = Len(p)
    BY DEF Frame
  <2>3. {g, a, t} = {m, x, y} /\ m # x /\ m # y /\ x # y
    OBVIOUS
  <2>4. /\ Clump(p, N, U, g, {m, x, y}, c1, c2, c3, c4) /\ Joined(r, m, x, y, c1, c2, c3, c4)
        /\ Elsewhere(p, r, N, g, m, {m, x, y}, {c1, c2, c3, c4})
    BY <2>3
  <2> HIDE DEF Collects
  <2> QED  BY <2>1, <2>2, <2>3, <2>4 DEF Turned
<1>2. Ranked(p, r, rk, U, {m, x, y}, m, x, y, c1, c2, c3, c4) /\ SameContents(p, r, {m, x, y})
  <2>1. /\ Moved(p, r, rk, m, x, y, lo, mid, hi) /\ Ordered(p, rk, U, lo, mid, hi, c1, c2, c3, c4)
        /\ {m, x, y} = {lo, mid, hi}
    OBVIOUS
  <2> HIDE DEF Collects
  <2> QED  BY <2>1, MovedRanked
<1>3. /\ Level(H, H[t], c1, c2, c3, c4) /\ H[g] = H[t] + 1
  <2>1. Level(H, H[t], u, w, p[t].left, p[t].right) /\ H[g] = H[t] + 1
    BY FamilyLevel DEF Aside
  <2>2. H[t] \in Nat /\ \A c \in {u, w, p[t].left, p[t].right} : Deep(H, c) = H[t]
    BY <2>1 DEF Level
  <2> QED  BY <2>1, <2>2 DEF Level
<1>4. \A c \in {c1, c2, c3, c4} : c # Nil => ~p[c].red
  BY <1>0 DEF AsideFacts
<1>5. t \in {m, x, y}
  OBVIOUS
<1>6. RotatedAs(p, r, h, N, U, H, rk, t, g, m, x, y, c1, c2, c3, c4)
  BY <1>1, <1>2, <1>3, <1>4, <1>5 DEF RotatedAs
<1>7. g \in N /\ g # t /\ U[t] \subseteq U[g]
  <2>1. Clump(p, N, U, g, {g, a, t}, u, w, p[t].left, p[t].right) /\ g \in N /\ g # t
    BY <1>0 DEF AsideFacts, AllApart
  <2>2. t \in U[g]
    BY <2>1 DEF Clump
  <2>3. Shape(p, h, N, U)
    BY DEF Aside, Balanced
  <2> QED  BY <2>1, <2>2, <2>3, Nested
<1> QED  BY <1>6, <1>7 DEF RotatedTo

\* rotate, the first branch.
LEMMA RotatesLL ==
  ASSUME NEW p, NEW q, NEW h, NEW N, NEW U, NEW H, NEW rk, NEW t, NEW a, NEW g, NEW u, NEW w,
         Aside(p, q, h, N, U, H, rk, t, a, g, u, w), p[g].left = a, p[a].left = t
  PROVE  RotatedTo(p, rotate(q, t).pool, h, N, U, H, rk, t, rotate(q, t).top)
<1> DEFINE r == RotateLL(q, a, g).pool
           c1 == p[t].left
           c2 == p[t].right
           c3 == w
           c4 == u
           C == {c1, c2, c3, c4}
<1>1. AsideFacts(p, q, N, U, t, a, g, u, w) /\ Family(p, N, t, a, g, u, w)
      /\ Shape(p, h, N, U) /\ Sorted(p, N, U, rk) /\ Flipped(p, q, a, g)
  BY AsideIs DEF Aside, Balanced
<1>2. /\ t \in N /\ a \in N /\ g \in N /\ t \in 1 .. Len(q) /\ a \in 1 .. Len(q) /\ g \in 1 .. Len(q)
      /\ q \in Seq(NodeType) /\ q[t].par = a /\ q[a].par = g /\ g # a /\ g # t /\ a # t
      /\ q[t].left = p[t].left /\ q[t].right = p[t].right /\ q[a].left = p[a].left
      /\ q[a].right = p[a].right /\ q[g].left = p[g].left /\ q[g].right = p[g].right
      /\ q[a].red = FALSE /\ q[g].red = TRUE /\ q[t].red = TRUE
      /\ IsLink(q, q[g].par) /\ q[g].par \notin {g, a, t} /\ q[g].par = p[g].par
  BY <1>1 DEF AsideFacts, AllApart
<1>3. /\ p[g].left = a /\ p[g].right = u
      /\ p[a].left = t /\ p[a].right = w
  BY <1>1 DEF Family
<1>4. rotate(q, t) = [pool |-> r, top |-> a]
  BY <1>2, <1>3 DEF rotate, RotateLL
<1>5. /\ \A c \in C : IsLink(q, c) /\ (c # Nil => c \in N)
      /\ AllApart(g, a, t, c1, c2, c3, c4)
      /\ Clump(p, N, U, g, {g, a, t}, c1, c2, c3, c4)
  <2>1. /\ \A c \in C : IsLink(q, c) /\ (c # Nil => c \in N)
        /\ AllApart(g, a, t, u, w, p[t].left, p[t].right)
        /\ Clump(p, N, U, g, {g, a, t}, u, w, p[t].left, p[t].right)
    <3>1. \A c \in {u, w, p[t].left, p[t].right} : IsLink(q, c) /\ (c # Nil => c \in N)
      BY <1>1 DEF AsideFacts
    <3>2. C = {u, w, p[t].left, p[t].right}
      OBVIOUS
    <3>3. /\ AllApart(g, a, t, u, w, p[t].left, p[t].right)
          /\ Clump(p, N, U, g, {g, a, t}, u, w, p[t].left, p[t].right)
      BY <1>1 DEF AsideFacts
    <3> QED  BY <3>1, <3>2, <3>3
  <2>2. AllApart(g, a, t, c1, c2, c3, c4)
    BY <2>1 DEF AllApart
  <2>3. Clump(p, N, U, g, {g, a, t}, c1, c2, c3, c4)
    BY <2>1 DEF Clump, Subtrees, Apart4
  <2> QED  BY <2>1, <2>2, <2>3
<1>6. /\ u # Nil => q[u].par = g
      /\ w # Nil => q[w].par = a
      /\ p[t].left # Nil => q[p[t].left].par = t
      /\ p[t].right # Nil => q[p[t].right].par = t
  BY <1>1 DEF AsideFacts
<1>7. Ordered(p, rk, U, t, a, g, c1, c2, c3, c4)
  <2>1. /\ Rank(p, rk, g) \in Int
        /\ \A b \in Under(U, p[g].left) : Rank(p, rk, b) \in Int /\ Rank(p, rk, b) <= Rank(p, rk, g)
        /\ \A b \in Under(U, p[g].right) : Rank(p, rk, b) \in Int /\ Rank(p, rk, g) <= Rank(p, rk, b)
    BY <1>1, <1>2, RanksUnder
  <2>2. /\ Rank(p, rk, a) \in Int
        /\ \A b \in Under(U, p[a].left) : Rank(p, rk, b) \in Int /\ Rank(p, rk, b) <= Rank(p, rk, a)
        /\ \A b \in Under(U, p[a].right) : Rank(p, rk, b) \in Int /\ Rank(p, rk, a) <= Rank(p, rk, b)
    BY <1>1, <1>2, RanksUnder
  <2>3. /\ Rank(p, rk, t) \in Int
        /\ \A b \in Under(U, p[t].left) : Rank(p, rk, b) \in Int /\ Rank(p, rk, b) <= Rank(p, rk, t)
        /\ \A b \in Under(U, p[t].right) : Rank(p, rk, b) \in Int /\ Rank(p, rk, t) <= Rank(p, rk, b)
    BY <1>1, <1>2, RanksUnder
  <2>4. /\ Under(U, a) = {a} \cup Under(U, p[a].left) \cup Under(U, p[a].right)
        /\ Under(U, t) = {t} \cup Under(U, p[t].left) \cup Under(U, p[t].right)
    BY <1>1, <1>2 DEF Shape, Placed, Under, Nil
  <2>5. /\ Under(U, w) \cup Under(U, p[t].left) \cup Under(U, p[t].right) \cup {a, t} \subseteq Under(U, a)
        /\ Under(U, p[t].left) \cup Under(U, p[t].right) \cup {t} \subseteq Under(U, t)
    BY <1>3, <2>4
  <2> HIDE DEF r
  <2> QED  BY <1>3, <2>1, <2>2, <2>3, <2>5 DEF Ordered, Between
<1> HIDE DEF c1, c2, c3, c4
<1>8. /\ Joined(r, a, t, g, c1, c2, c3, c4)
      /\ Rises(q, r, g, a, {g, a, t}, C)
      /\ Moved(q, r, rk, a, t, g, t, a, g)
      /\ OneLevel(r, a, t, g)
  <2>1. SpinsLL(q, t, a, g, c1, c2, c3, c4)
    BY <1>2, <1>3, <1>5, <1>6 DEF SpinsLL, c1, c2, c3, c4
  <2>2. SpunLL(q, r, t, a, g, c1, c2, c3, c4)
    BY <2>1, RotatedLL
  <2> HIDE DEF r
  <2> QED  BY <1>2, <2>2 DEF SpunLL, Moved, OneLevel
<1> HIDE DEF r, C
<1>9. Moved(p, r, rk, a, t, g, t, a, g)
  <2>1. Has(q, t, p, t) /\ Has(q, a, p, a) /\ Has(q, g, p, g)
    BY <1>1 DEF AsideFacts
  <2> QED  BY <1>8, <2>1 DEF Moved, Has
<1>10. Elsewhere(p, r, N, g, a, {g, a, t}, C) /\ Frame(p, r, N)
  <2>1. InTree(N, a, g, {g, a, t}, C)
    BY <1>2, <1>5 DEF InTree
  <2> QED  BY <1>1, <1>2, <1>8, <2>1, RisesElsewhere
<1>11. C = {u, w, p[t].left, p[t].right} /\ {a, t, g} = {g, a, t} /\ {t, a, g} = {g, a, t}
  BY DEF c1, c2, c3, c4, C
<1>12. Collects(p, q, r, h, N, U, H, rk, t, a, g, u, w, a, t, g, t, a, g,
                c1, c2, c3, c4)
  BY <1>2, <1>5, <1>7, <1>8, <1>9, <1>10, <1>11 DEF Collects, C
<1>13. RotatedTo(p, r, h, N, U, H, rk, t, a)
  BY <1>12, Collected
<1> QED  BY <1>4, <1>13

\* rotate, the second branch.
LEMMA RotatesLR ==
  ASSUME NEW p, NEW q, NEW h, NEW N, NEW U, NEW H, NEW rk, NEW t, NEW a, NEW g, NEW u, NEW w,
         Aside(p, q, h, N, U, H, rk, t, a, g, u, w), p[g].left = a, p[a].left # t
  PROVE  RotatedTo(p, rotate(q, t).pool, h, N, U, H, rk, t, rotate(q, t).top)
<1> DEFINE r == RotateLR(q, t, a, g).pool
           c1 == w
           c2 == p[t].left
           c3 == p[t].right
           c4 == u
           C == {c1, c2, c3, c4}
<1>1. AsideFacts(p, q, N, U, t, a, g, u, w) /\ Family(p, N, t, a, g, u, w)
      /\ Shape(p, h, N, U) /\ Sorted(p, N, U, rk) /\ Flipped(p, q, a, g)
  BY AsideIs DEF Aside, Balanced
<1>2. /\ t \in N /\ a \in N /\ g \in N /\ t \in 1 .. Len(q) /\ a \in 1 .. Len(q) /\ g \in 1 .. Len(q)
      /\ q \in Seq(NodeType) /\ q[t].par = a /\ q[a].par = g /\ g # a /\ g # t /\ a # t
      /\ q[t].left = p[t].left /\ q[t].right = p[t].right /\ q[a].left = p[a].left
      /\ q[a].right = p[a].right /\ q[g].left = p[g].left /\ q[g].right = p[g].right
      /\ q[a].red = FALSE /\ q[g].red = TRUE /\ q[t].red = TRUE
      /\ IsLink(q, q[g].par) /\ q[g].par \notin {g, a, t} /\ q[g].par = p[g].par
  BY <1>1 DEF AsideFacts, AllApart
<1>3. /\ p[g].left = a /\ p[g].right = u
      /\ p[a].right = t /\ p[a].left = w
  BY <1>1 DEF Family
<1>4. rotate(q, t) = [pool |-> r, top |-> g]
  BY <1>2, <1>3 DEF rotate, RotateLR
<1>5. /\ \A c \in C : IsLink(q, c) /\ (c # Nil => c \in N)
      /\ AllApart(g, a, t, c1, c2, c3, c4)
      /\ Clump(p, N, U, g, {g, a, t}, c1, c2, c3, c4)
  <2>1. /\ \A c \in C : IsLink(q, c) /\ (c # Nil => c \in N)
        /\ AllApart(g, a, t, u, w, p[t].left, p[t].right)
        /\ Clump(p, N, U, g, {g, a, t}, u, w, p[t].left, p[t].right)
    BY <1>1 DEF AsideFacts
  <2>2. AllApart(g, a, t, c1, c2, c3, c4)
    BY <2>1 DEF AllApart
  <2>3. Clump(p, N, U, g, {g, a, t}, c1, c2, c3, c4)
    BY <2>1 DEF Clump, Subtrees, Apart4
  <2> QED  BY <2>1, <2>2, <2>3
<1>6. /\ u # Nil => q[u].par = g
      /\ w # Nil => q[w].par = a
      /\ p[t].left # Nil => q[p[t].left].par = t
      /\ p[t].right # Nil => q[p[t].right].par = t
  BY <1>1 DEF AsideFacts
<1>7. Ordered(p, rk, U, a, t, g, c1, c2, c3, c4)
  <2>1. /\ Rank(p, rk, g) \in Int
        /\ \A b \in Under(U, p[g].left) : Rank(p, rk, b) \in Int /\ Rank(p, rk, b) <= Rank(p, rk, g)
        /\ \A b \in Under(U, p[g].right) : Rank(p, rk, b) \in Int /\ Rank(p, rk, g) <= Rank(p, rk, b)
    BY <1>1, <1>2, RanksUnder
  <2>2. /\ Rank(p, rk, a) \in Int
        /\ \A b \in Under(U, p[a].left) : Rank(p, rk, b) \in Int /\ Rank(p, rk, b) <= Rank(p, rk, a)
        /\ \A b \in Under(U, p[a].right) : Rank(p, rk, b) \in Int /\ Rank(p, rk, a) <= Rank(p, rk, b)
    BY <1>1, <1>2, RanksUnder
  <2>3. /\ Rank(p, rk, t) \in Int
        /\ \A b \in Under(U, p[t].left) : Rank(p, rk, b) \in Int /\ Rank(p, rk, b) <= Rank(p, rk, t)
        /\ \A b \in Under(U, p[t].right) : Rank(p, rk, b) \in Int /\ Rank(p, rk, t) <= Rank(p, rk, b)
    BY <1>1, <1>2, RanksUnder
  <2>4. /\ Under(U, a) = {a} \cup Under(U, p[a].left) \cup Under(U, p[a].right)
        /\ Under(U, t) = {t} \cup Under(U, p[t].left) \cup Under(U, p[t].right)
    BY <1>1, <1>2 DEF Shape, Placed, Under, Nil
  <2>5. /\ Under(U, w) \cup Under(U, p[t].left) \cup Under(U, p[t].right) \cup {a, t} \subseteq Under(U, a)
        /\ Under(U, p[t].left) \cup Under(U, p[t].right) \cup {t} \subseteq Under(U, t)
    BY <1>3, <2>4
  <2> HIDE DEF r
  <2> QED  BY <1>3, <2>1, <2>2, <2>3, <2>5 DEF Ordered, Between
<1> HIDE DEF c1, c2, c3, c4
<1>8. /\ Joined(r, g, a, t, c1, c2, c3, c4)
      /\ Stays(q, r, g, {g, a, t}, C)
      /\ Moved(q, r, rk, g, a, t, a, t, g)
      /\ OneLevel(r, g, a, t)
  <2>1. SpinsLR(q, t, a, g, c1, c2, c3, c4)
    BY <1>2, <1>3, <1>5, <1>6 DEF SpinsLR, c1, c2, c3, c4
  <2>2. SpunLR(q, r, t, a, g, c1, c2, c3, c4)
    BY <2>1, RotatedLR
  <2> HIDE DEF r
  <2> QED  BY <1>2, <2>2 DEF SpunLR, Moved, OneLevel
<1> HIDE DEF r, C
<1>9. Moved(p, r, rk, g, a, t, a, t, g)
  <2>1. Has(q, t, p, t) /\ Has(q, a, p, a) /\ Has(q, g, p, g)
    BY <1>1 DEF AsideFacts
  <2> QED  BY <1>8, <2>1 DEF Moved, Has
<1>10. Elsewhere(p, r, N, g, g, {g, a, t}, C) /\ Frame(p, r, N)
  <2>1. InTree(N, a, g, {g, a, t}, C)
    BY <1>2, <1>5 DEF InTree
  <2> QED  BY <1>1, <1>2, <1>8, <2>1, StaysElsewhere
<1>11. C = {u, w, p[t].left, p[t].right} /\ {g, a, t} = {g, a, t} /\ {a, t, g} = {g, a, t}
  BY DEF c1, c2, c3, c4, C
<1>12. Collects(p, q, r, h, N, U, H, rk, t, a, g, u, w, g, a, t, a, t, g,
                c1, c2, c3, c4)
  BY <1>2, <1>5, <1>7, <1>8, <1>9, <1>10, <1>11 DEF Collects, C
<1>13. RotatedTo(p, r, h, N, U, H, rk, t, g)
  BY <1>12, Collected
<1> QED  BY <1>4, <1>13

\* rotate, the third branch.
LEMMA RotatesRR ==
  ASSUME NEW p, NEW q, NEW h, NEW N, NEW U, NEW H, NEW rk, NEW t, NEW a, NEW g, NEW u, NEW w,
         Aside(p, q, h, N, U, H, rk, t, a, g, u, w), p[g].left # a, p[a].right = t
  PROVE  RotatedTo(p, rotate(q, t).pool, h, N, U, H, rk, t, rotate(q, t).top)
<1> DEFINE r == RotateRR(q, t, a, g).pool
           c1 == u
           c2 == w
           c3 == p[t].left
           c4 == p[t].right
           C == {c1, c2, c3, c4}
<1>1. AsideFacts(p, q, N, U, t, a, g, u, w) /\ Family(p, N, t, a, g, u, w)
      /\ Shape(p, h, N, U) /\ Sorted(p, N, U, rk) /\ Flipped(p, q, a, g)
  BY AsideIs DEF Aside, Balanced
<1>2. /\ t \in N /\ a \in N /\ g \in N /\ t \in 1 .. Len(q) /\ a \in 1 .. Len(q) /\ g \in 1 .. Len(q)
      /\ q \in Seq(NodeType) /\ q[t].par = a /\ q[a].par = g /\ g # a /\ g # t /\ a # t
      /\ q[t].left = p[t].left /\ q[t].right = p[t].right /\ q[a].left = p[a].left
      /\ q[a].right = p[a].right /\ q[g].left = p[g].left /\ q[g].right = p[g].right
      /\ q[a].red = FALSE /\ q[g].red = TRUE /\ q[t].red = TRUE
      /\ IsLink(q, q[g].par) /\ q[g].par \notin {g, a, t} /\ q[g].par = p[g].par
  BY <1>1 DEF AsideFacts, AllApart
<1>3. /\ p[g].right = a /\ p[g].left = u
      /\ p[a].right = t /\ p[a].left = w
  BY <1>1 DEF Family
<1>4. rotate(q, t) = [pool |-> r, top |-> g]
  BY <1>2, <1>3 DEF rotate, RotateRR
<1>5. /\ \A c \in C : IsLink(q, c) /\ (c # Nil => c \in N)
      /\ AllApart(g, a, t, c1, c2, c3, c4)
      /\ Clump(p, N, U, g, {g, a, t}, c1, c2, c3, c4)
  <2>1. /\ \A c \in C : IsLink(q, c) /\ (c # Nil => c \in N)
        /\ AllApart(g, a, t, u, w, p[t].left, p[t].right)
        /\ Clump(p, N, U, g, {g, a, t}, u, w, p[t].left, p[t].right)
    BY <1>1 DEF AsideFacts
  <2>2. AllApart(g, a, t, c1, c2, c3, c4)
    BY <2>1 DEF AllApart
  <2>3. Clump(p, N, U, g, {g, a, t}, c1, c2, c3, c4)
    BY <2>1 DEF Clump, Subtrees, Apart4
  <2> QED  BY <2>1, <2>2, <2>3
<1>6. /\ u # Nil => q[u].par = g
      /\ w # Nil => q[w].par = a
      /\ p[t].left # Nil => q[p[t].left].par = t
      /\ p[t].right # Nil => q[p[t].right].par = t
  BY <1>1 DEF AsideFacts
<1>7. Ordered(p, rk, U, g, a, t, c1, c2, c3, c4)
  <2>1. /\ Rank(p, rk, g) \in Int
        /\ \A b \in Under(U, p[g].left) : Rank(p, rk, b) \in Int /\ Rank(p, rk, b) <= Rank(p, rk, g)
        /\ \A b \in Under(U, p[g].right) : Rank(p, rk, b) \in Int /\ Rank(p, rk, g) <= Rank(p, rk, b)
    BY <1>1, <1>2, RanksUnder
  <2>2. /\ Rank(p, rk, a) \in Int
        /\ \A b \in Under(U, p[a].left) : Rank(p, rk, b) \in Int /\ Rank(p, rk, b) <= Rank(p, rk, a)
        /\ \A b \in Under(U, p[a].right) : Rank(p, rk, b) \in Int /\ Rank(p, rk, a) <= Rank(p, rk, b)
    BY <1>1, <1>2, RanksUnder
  <2>3. /\ Rank(p, rk, t) \in Int
        /\ \A b \in Under(U, p[t].left) : Rank(p, rk, b) \in Int /\ Rank(p, rk, b) <= Rank(p, rk, t)
        /\ \A b \in Under(U, p[t].right) : Rank(p, rk, b) \in Int /\ Rank(p, rk, t) <= Rank(p, rk, b)
    BY <1>1, <1>2, RanksUnder
  <2>4. /\ Under(U, a) = {a} \cup Under(U, p[a].left) \cup Under(U, p[a].right)
        /\ Under(U, t) = {t} \cup Under(U, p[t].left) \cup Under(U, p[t].right)
    BY <1>1, <1>2 DEF Shape, Placed, Under, Nil
  <2>5. /\ Under(U, w) \cup Under(U, p[t].left) \cup Under(U, p[t].right) \cup {a, t} \subseteq Under(U, a)
        /\ Under(U, p[t].left) \cup Under(U, p[t].right) \cup {t} \subseteq Under(U, t)
    BY <1>3, <2>4
  <2> HIDE DEF r
  <2> QED  BY <1>3, <2>1, <2>2, <2>3, <2>5 DEF Ordered, Between
<1> HIDE DEF c1, c2, c3, c4
<1>8. /\ Joined(r, g, t, a, c1, c2, c3, c4)
      /\ Stays(q, r, g, {g, a, t}, C)
      /\ Moved(q, r, rk, g, t, a, g, a, t)
      /\ OneLevel(r, g, t, a)
  <2>1. SpinsRR(q, t, a, g, c1, c2, c3, c4)
    BY <1>2, <1>3, <1>5, <1>6 DEF SpinsRR, c1, c2, c3, c4
  <2>2. SpunRR(q, r, t, a, g, c1, c2, c3, c4)
    BY <2>1, RotatedRR
  <2> HIDE DEF r
  <2> QED  BY <1>2, <2>2 DEF SpunRR, Moved, OneLevel
<1> HIDE DEF r, C
<1>9. Moved(p, r, rk, g, t, a, g, a, t)
  <2>1. Has(q, t, p, t) /\ Has(q, a, p, a) /\ Has(q, g, p, g)
    BY <1>1 DEF AsideFacts
  <2> QED  BY <1>8, <2>1 DEF Moved, Has
<1>10. Elsewhere(p, r, N, g, g, {g, a, t}, C) /\ Frame(p, r, N)
  <2>1. InTree(N, a, g, {g, a, t}, C)
    BY <1>2, <1>5 DEF InTree
  <2> QED  BY <1>1, <1>2, <1>8, <2>1, StaysElsewhere
<1>11. C = {u, w, p[t].left, p[t].right} /\ {g, t, a} = {g, a, t} /\ {g, a, t} = {g, a, t}
  BY DEF c1, c2, c3, c4, C
<1>12. Collects(p, q, r, h, N, U, H, rk, t, a, g, u, w, g, t, a, g, a, t,
                c1, c2, c3, c4)
  BY <1>2, <1>5, <1>7, <1>8, <1>9, <1>10, <1>11 DEF Collects, C
<1>13. RotatedTo(p, r, h, N, U, H, rk, t, g)
  BY <1>12, Collected
<1> QED  BY <1>4, <1>13

\* rotate, the fourth branch.
LEMMA RotatesRL ==
  ASSUME NEW p, NEW q, NEW h, NEW N, NEW U, NEW H, NEW rk, NEW t, NEW a, NEW g, NEW u, NEW w,
         Aside(p, q, h, N, U, H, rk, t, a, g, u, w), p[g].left # a, p[a].right # t
  PROVE  RotatedTo(p, rotate(q, t).pool, h, N, U, H, rk, t, rotate(q, t).top)
<1> DEFINE r == RotateRL(q, t, a, g).pool
           c1 == u
           c2 == p[t].left
           c3 == p[t].right
           c4 == w
           C == {c1, c2, c3, c4}
<1>1. AsideFacts(p, q, N, U, t, a, g, u, w) /\ Family(p, N, t, a, g, u, w)
      /\ Shape(p, h, N, U) /\ Sorted(p, N, U, rk) /\ Flipped(p, q, a, g)
  BY AsideIs DEF Aside, Balanced
<1>2. /\ t \in N /\ a \in N /\ g \in N /\ t \in 1 .. Len(q) /\ a \in 1 .. Len(q) /\ g \in 1 .. Len(q)
      /\ q \in Seq(NodeType) /\ q[t].par = a /\ q[a].par = g /\ g # a /\ g # t /\ a # t
      /\ q[t].left = p[t].left /\ q[t].right = p[t].right /\ q[a].left = p[a].left
      /\ q[a].right = p[a].right /\ q[g].left = p[g].left /\ q[g].right = p[g].right
      /\ q[a].red = FALSE /\ q[g].red = TRUE /\ q[t].red = TRUE
      /\ IsLink(q, q[g].par) /\ q[g].par \notin {g, a, t} /\ q[g].par = p[g].par
  BY <1>1 DEF AsideFacts, AllApart
<1>3. /\ p[g].right = a /\ p[g].left = u
      /\ p[a].left = t /\ p[a].right = w
  BY <1>1 DEF Family
<1>4. rotate(q, t) = [pool |-> r, top |-> g]
  BY <1>2, <1>3 DEF rotate, RotateRL
<1>5. /\ \A c \in C : IsLink(q, c) /\ (c # Nil => c \in N)
      /\ AllApart(g, a, t, c1, c2, c3, c4)
      /\ Clump(p, N, U, g, {g, a, t}, c1, c2, c3, c4)
  <2>1. /\ \A c \in C : IsLink(q, c) /\ (c # Nil => c \in N)
        /\ AllApart(g, a, t, u, w, p[t].left, p[t].right)
        /\ Clump(p, N, U, g, {g, a, t}, u, w, p[t].left, p[t].right)
    BY <1>1 DEF AsideFacts
  <2>2. AllApart(g, a, t, c1, c2, c3, c4)
    BY <2>1 DEF AllApart
  <2>3. Clump(p, N, U, g, {g, a, t}, c1, c2, c3, c4)
    BY <2>1 DEF Clump, Subtrees, Apart4
  <2> QED  BY <2>1, <2>2, <2>3
<1>6. /\ u # Nil => q[u].par = g
      /\ w # Nil => q[w].par = a
      /\ p[t].left # Nil => q[p[t].left].par = t
      /\ p[t].right # Nil => q[p[t].right].par = t
  BY <1>1 DEF AsideFacts
<1>7. Ordered(p, rk, U, g, t, a, c1, c2, c3, c4)
  <2>1. /\ Rank(p, rk, g) \in Int
        /\ \A b \in Under(U, p[g].left) : Rank(p, rk, b) \in Int /\ Rank(p, rk, b) <= Rank(p, rk, g)
        /\ \A b \in Under(U, p[g].right) : Rank(p, rk, b) \in Int /\ Rank(p, rk, g) <= Rank(p, rk, b)
    BY <1>1, <1>2, RanksUnder
  <2>2. /\ Rank(p, rk, a) \in Int
        /\ \A b \in Under(U, p[a].left) : Rank(p, rk, b) \in Int /\ Rank(p, rk, b) <= Rank(p, rk, a)
        /\ \A b \in Under(U, p[a].right) : Rank(p, rk, b) \in Int /\ Rank(p, rk, a) <= Rank(p, rk, b)
    BY <1>1, <1>2, RanksUnder
  <2>3. /\ Rank(p, rk, t) \in Int
        /\ \A b \in Under(U, p[t].left) : Rank(p, rk, b) \in Int /\ Rank(p, rk, b) <= Rank(p, rk, t)
        /\ \A b \in Under(U, p[t].right) : Rank(p, rk, b) \in Int /\ Rank(p, rk, t) <= Rank(p, rk, b)
    BY <1>1, <1>2, RanksUnder
  <2>4. /\ Under(U, a) = {a} \cup Under(U, p[a].left) \cup Under(U, p[a].right)
        /\ Under(U, t) = {t} \cup Under(U, p[t].left) \cup Under(U, p[t].right)
    BY <1>1, <1>2 DEF Shape, Placed, Under, Nil
  <2>5. /\ Under(U, w) \cup Under(U, p[t].left) \cup Under(U, p[t].right) \cup {a, t} \subseteq Under(U, a)
        /\ Under(U, p[t].left) \cup Under(U, p[t].right) \cup {t} \subseteq Under(U, t)
    BY <1>3, <2>4
  <2> HIDE DEF r
  <2> QED  BY <1>3, <2>1, <2>2, <2>3, <2>5 DEF Ordered, Between
<1> HIDE DEF c1, c2, c3, c4
<1>8. /\ Joined(r, g, t, a, c1, c2, c3, c4)
      /\ Stays(q, r, g, {g, a, t}, C)
      /\ Moved(q, r, rk, g, t, a, g, t, a)
      /\ OneLevel(r, g, t, a)
  <2>1. SpinsRL(q, t, a, g, c1, c2, c3, c4)
    BY <1>2, <1>3, <1>5, <1>6 DEF SpinsRL, c1, c2, c3, c4
  <2>2. SpunRL(q, r, t, a, g, c1, c2, c3, c4)
    BY <2>1, RotatedRL
  <2> HIDE DEF r
  <2> QED  BY <1>2, <2>2 DEF SpunRL, Moved, OneLevel
<1> HIDE DEF r, C
<1>9. Moved(p, r, rk, g, t, a, g, t, a)
  <2>1. Has(q, t, p, t) /\ Has(q, a, p, a) /\ Has(q, g, p, g)
    BY <1>1 DEF AsideFacts
  <2> QED  BY <1>8, <2>1 DEF Moved, Has
<1>10. Elsewhere(p, r, N, g, g, {g, a, t}, C) /\ Frame(p, r, N)
  <2>1. InTree(N, a, g, {g, a, t}, C)
    BY <1>2, <1>5 DEF InTree
  <2> QED  BY <1>1, <1>2, <1>8, <2>1, StaysElsewhere
<1>11. C = {u, w, p[t].left, p[t].right} /\ {g, t, a} = {g, a, t} /\ {g, t, a} = {g, a, t}
  BY DEF c1, c2, c3, c4, C
<1>12. Collects(p, q, r, h, N, U, H, rk, t, a, g, u, w, g, t, a, g, t, a,
                c1, c2, c3, c4)
  BY <1>2, <1>5, <1>7, <1>8, <1>9, <1>10, <1>11 DEF Collects, C
<1>13. RotatedTo(p, r, h, N, U, H, rk, t, g)
  BY <1>12, Collected
<1> QED  BY <1>4, <1>13

\* rotate, whichever branch it takes.
LEMMA Rotates ==
  ASSUME NEW p, NEW q, NEW h, NEW N, NEW U, NEW H, NEW rk, NEW t, NEW a, NEW g, NEW u, NEW w,
         Aside(p, q, h, N, U, H, rk, t, a, g, u, w)
  PROVE  RotatedTo(p, rotate(q, t).pool, h, N, U, H, rk, t, rotate(q, t).top)
<1>1. CASE p[g].left = a /\ p[a].left = t
  BY <1>1, RotatesLL
<1>2. CASE p[g].left = a /\ p[a].left # t
  BY <1>2, RotatesLR
<1>3. CASE p[g].left # a /\ p[a].right = t
  BY <1>3, RotatesRR
<1>4. CASE p[g].left # a /\ p[a].right # t
  BY <1>4, RotatesRL
<1> QED  BY <1>1, <1>2, <1>3, <1>4

\* What a turn of the loop makes of a tree whose node t is red, as its parent is: m
\* is the node that is looked at next, above more nodes.
Turns(p, r, h, N, U, rk, t, m, V, G) ==
  /\ Shape(r, h, N, V) /\ Sorted(r, N, V, rk) /\ Heights(r, N, G) /\ NoReds(r, N, m) /\ m \in N
  /\ Cardinality(V[m]) > Cardinality(U[t])
  /\ Frame(p, r, N) /\ SameContents(p, r, N)

TurnsTo(p, r, h, N, U, rk, t, m) == \E V, G : Turns(p, r, h, N, U, rk, t, m, V, G)

\* Of two nodes, the one below has less below it.
LEMMA Bigger ==
  ASSUME NEW q, NEW h, NEW N, NEW U, Shape(q, h, N, U), NEW g \in N, NEW t \in U[g], t # g
  PROVE  /\ t \in N /\ Cardinality(U[t]) < Cardinality(U[g])
         /\ Cardinality(U[t]) \in Nat /\ Cardinality(U[g]) \in Nat
<1>1. PICK c \in {q[g].left, q[g].right} : c # Nil /\ t \in U[c]
  BY DEF Shape, Placed, Under
<1>2. c \in N /\ Cardinality(U[c]) < Cardinality(U[g])
  BY <1>1, Smaller
<1>3. t \in N /\ U[t] \subseteq U[c]
  BY <1>1, <1>2, Nested
<1>4. /\ IsFiniteSet(U[c]) /\ Cardinality(U[c]) \in Nat /\ Cardinality(U[t]) \in Nat
      /\ Cardinality(U[g]) \in Nat
  BY <1>2, <1>3, Smaller
<1>5. Cardinality(U[t]) <= Cardinality(U[c])
  BY <1>3, <1>4, FS_Subset
<1> QED  BY <1>2, <1>3, <1>4, <1>5

\* Contents that change places among some nodes change places among all.
LEMMA WholeContents ==
  ASSUME NEW p, NEW r, NEW N, NEW T, T \subseteq N, SameContents(p, r, T),
         \A n \in N \ T : Has(r, n, p, n)
  PROVE  SameContents(p, r, N)
BY DEF SameContents

\* A rotation makes a tree of the tree, and climbs.
LEMMA RotatedTurns ==
  ASSUME NEW p, NEW r, NEW h, NEW N, NEW U, NEW H, NEW rk, NEW t, NEW m,
         Balanced(p, h, N, U, H, rk, t), RotatedTo(p, r, h, N, U, H, rk, t, m)
  PROVE  /\ TurnsTo(p, r, IF r[m].par = Nil THEN m ELSE h, N, U, rk, t, m)
         /\ r[m].par # Nil => ~r[h].red
<1>1. PICK g \in N : \E x, y, c1, c2, c3, c4 :
        RotatedAs(p, r, h, N, U, H, rk, t, g, m, x, y, c1, c2, c3, c4) /\ U[t] \subseteq U[g] /\ g # t
  BY DEF RotatedTo
<1>2. PICK x, y, c1, c2, c3, c4 :
        RotatedAs(p, r, h, N, U, H, rk, t, g, m, x, y, c1, c2, c3, c4) /\ U[t] \subseteq U[g] /\ g # t
  BY <1>1
<1> DEFINE V == Rehung(U, N, g, m, x, y, c1, c2, c3, c4)
           G == Reweighed(r, H, N, g, m, x, y, H[t])
           top == TopOf(p, g, m, h)
<1>3. /\ Turned(p, r, h, N, U, g, m, x, y, c1, c2, c3, c4)
      /\ Ranked(p, r, rk, U, {m, x, y}, m, x, y, c1, c2, c3, c4)
      /\ OneLevel(r, m, x, y) /\ Level(H, H[t], c1, c2, c3, c4) /\ H[g] = H[t] + 1
      /\ t \in {m, x, y} /\ \A c \in {c1, c2, c3, c4} : c # Nil => ~p[c].red
      /\ Frame(p, r, N) /\ SameContents(p, r, {m, x, y})
  BY <1>2 DEF RotatedAs
<1>4. /\ Shape(p, h, N, U) /\ Sorted(p, N, U, rk) /\ Heights(p, N, H) /\ NoReds(p, N, t)
      /\ ~p[h].red
  BY DEF Balanced
<1>5. Shape(r, top, N, V)
  BY <1>3, TurnedShape
<1>6. Sorted(r, N, V, rk)
  BY <1>3, <1>4, TurnedSorted
<1>7. Heights(r, N, G)
  BY <1>3, <1>4, TurnedHeights
<1>8. NoReds(r, N, m)
  BY <1>3, <1>4, TurnedReds
<1>9. /\ {m, x, y} \subseteq N /\ g \in {m, x, y} /\ U[g] = {m, x, y} \cup Subtrees(U, c1, c2, c3, c4)
      /\ \A n \in {m, x, y} : n # g => p[n].par \in {m, x, y}
      /\ r[m].par = p[g].par
      /\ \A n \in N \ {m, x, y} : Has(r, n, p, n) /\ r[n].red = p[n].red
  BY <1>3 DEF Turned, Clump, Elsewhere, Has
<1>10. Cardinality(V[m]) > Cardinality(U[t])
  <2>1. V[m] = U[g]
    BY <1>9 DEF Rehung
  <2>2. t \in U[g]
    BY <1>3, <1>9
  <2>3. Cardinality(U[t]) < Cardinality(U[g]) /\ Cardinality(U[t]) \in Nat /\ Cardinality(U[g]) \in Nat
    BY <1>2, <1>4, <2>2, Bigger
  <2> QED  BY <2>1, <2>3
<1>11. top = IF r[m].par = Nil THEN m ELSE h
  BY <1>9 DEF TopOf
<1>12. SameContents(p, r, N)
  BY <1>3, <1>9, WholeContents
<1> HIDE DEF V, G, top
<1>13. Turns(p, r, top, N, U, rk, t, m, V, G)
  BY <1>3, <1>5, <1>6, <1>7, <1>8, <1>9, <1>10, <1>12 DEF Turns
<1>14. TurnsTo(p, r, top, N, U, rk, t, m)
  BY <1>13 DEF TurnsTo
<1>15. ASSUME r[m].par # Nil PROVE ~r[h].red
  <2>1. h \in N /\ p[h].par = Nil /\ Nil \notin N
    BY <1>4 DEF Shape, Nil
  <2>2. h \notin {m, x, y}
    BY <1>9, <1>15, <2>1
  <2> QED  BY <1>4, <1>9, <2>1, <2>2
<1> QED  BY <1>11, <1>14, <1>15

-----------------------------------------------------------------------------
\* Only colours change.
SameLinks(p, r, N) ==
  /\ r \in Seq(NodeType) /\ Len(r) = Len(p)
  /\ \A k \in 1 .. Len(p) :
       /\ r[k].key = p[k].key /\ r[k].val = p[k].val
       /\ r[k].left = p[k].left /\ r[k].right = p[k].right /\ r[k].par = p[k].par
       /\ k \notin N => r[k].red = p[k].red

\* Colours do not matter to the shape and the order.
LEMMA Recoloured ==
  ASSUME NEW p, NEW r, NEW h, NEW N, NEW U, NEW rk,
         Shape(p, h, N, U), Sorted(p, N, U, rk), SameLinks(p, r, N)
  PROVE  Shape(r, h, N, U) /\ Sorted(r, N, U, rk) /\ Frame(p, r, N) /\ SameContents(p, r, N)
<1>1. N \subseteq 1 .. Len(p) /\ Nil \notin N /\ h \in N
  BY DEF Shape, Nil
<1>2. \A k \in N : /\ r[k].key = p[k].key /\ r[k].val = p[k].val
                   /\ r[k].left = p[k].left /\ r[k].right = p[k].right /\ r[k].par = p[k].par
  BY <1>1 DEF SameLinks
<1>3. ASSUME NEW n \in N PROVE Placed(r, N, U, n)
  <2>1. Placed(p, N, U, n)
    BY DEF Shape
  <2> QED  BY <1>2, <2>1 DEF Placed
<1>4. ASSUME NEW n \in N, n # h PROVE Hangs(r, N, n)
  <2>1. Hangs(p, N, n)
    BY <1>4 DEF Shape
  <2> QED  BY <1>2, <2>1 DEF Hangs
<1>5. Shape(r, h, N, U)
  BY <1>1, <1>2, <1>3, <1>4 DEF Shape, SameLinks
<1>6. Sorted(r, N, U, rk)
  <2>1. \A n \in N : Under(U, p[n].left) \subseteq N /\ Under(U, p[n].right) \subseteq N
    BY DEF Shape, Placed, Under
  <2>2. \A n \in N : Rank(r, rk, n) = Rank(p, rk, n)
    BY <1>2 DEF Rank
  <2> QED  BY <1>2, <2>1, <2>2 DEF Sorted
<1>7. Frame(p, r, N)
  BY DEF Frame, SameAt, SameLinks
<1>8. SameContents(p, r, N)
  BY <1>2 DEF SameContents, Has
<1> QED  BY <1>5, <1>6, <1>7, <1>8

\* The uncle u is red: it takes over the red of t and its parent.
Recolours(p, q, r, h, N, U, H, rk, t, a, g, u, w) ==
  /\ Balanced(p, h, N, U, H, rk, t) /\ Family(p, N, t, a, g, u, w) /\ u # Nil /\ p[u].red
  /\ Flipped(p, q, a, g) /\ ColouredAs(q, r, u, FALSE)

\* A red uncle: the colours change, and the loop climbs to the grandparent.
LEMMA RecolourTurns ==
  ASSUME NEW p, NEW q, NEW r, NEW h, NEW N, NEW U, NEW H, NEW rk, NEW t, NEW a, NEW g, NEW u, NEW w,
         Recolours(p, q, r, h, N, U, H, rk, t, a, g, u, w)
  PROVE  /\ TurnsTo(p, r, h, N, U, rk, t, g)
         /\ r[g].par = Nil => g = h
         /\ r[g].par # Nil => ~r[h].red
<1> USE DEF Recolours
<1>1. /\ Shape(p, h, N, U) /\ Sorted(p, N, U, rk) /\ Heights(p, N, H) /\ NoReds(p, N, t)
      /\ ~p[h].red /\ t \in N /\ a \in N /\ g \in N /\ Nil \notin N /\ N \subseteq 1 .. Len(p)
  BY DEF Balanced, Family, Shape, Nil
<1>2. /\ u \in N /\ p[u].par = g /\ p[a].par = g /\ p[t].par = a
      /\ g # a /\ g # t /\ a # t /\ u # g /\ u # a /\ u # t
      /\ t \in U[g]
  <2>1. /\ Clump(p, N, U, g, {g, a, t}, u, w, p[t].left, p[t].right)
        /\ AllApart(g, a, t, u, w, p[t].left, p[t].right)
        /\ u # Nil => u \in N /\ p[u].par = g
    <3>1. Clan(p, N, U, t, a, g, u, w)
      BY <1>1, FamilyClump
    <3> QED  BY <3>1 DEF Clan
  <2>2. a = p[t].par /\ g = p[a].par
    BY DEF Family
  <2> QED  BY <2>1, <2>2 DEF Clump, AllApart
<1>3. SameLinks(p, r, N) /\ ~r[a].red /\ ~r[u].red /\ r[g].red
      /\ \A n \in N : n # a /\ n # u /\ n # g => r[n].red = p[n].red
  BY <1>1, <1>2 DEF Flipped, ColouredAs, SameLinks
<1>4. Shape(r, h, N, U) /\ Sorted(r, N, U, rk) /\ Frame(p, r, N) /\ SameContents(p, r, N)
  BY <1>1, <1>3, Recoloured
<1>5. \A k \in N : r[k].left = p[k].left /\ r[k].right = p[k].right /\ r[k].par = p[k].par
  BY <1>1, <1>3 DEF SameLinks
<1>6. p[a].red /\ p[u].red /\ ~p[g].red
  BY DEF Family
<1>7. \/ p[g].left = a /\ p[g].right = u
      \/ p[g].left = u /\ p[g].right = a
  BY DEF Family
<1> DEFINE G == [n \in N |-> IF n \in {a, u} THEN H[n] + 1 ELSE H[n]]
<1>8. Heights(r, N, G)
  <2>1. H \in [N -> Nat] /\ \A n \in N : /\ Deep(H, p[n].left) = Deep(H, p[n].right)
                                         /\ H[n] = Deep(H, p[n].left) + Weight(p, n)
    BY <1>1 DEF Heights
  <2>2. G \in [N -> Nat]
    BY <2>1
  <2>3. G[a] = H[a] + 1 /\ G[u] = H[u] + 1 /\ \A n \in N : n # a /\ n # u => G[n] = H[n]
    BY <1>1, <1>2
  <2> HIDE DEF G
  <2>4. ASSUME NEW n \in N, n # g, NEW c \in {p[n].left, p[n].right} PROVE Deep(G, c) = Deep(H, c)
    <3>1. c # Nil => c \in N /\ p[c].par = n
      BY <1>1 DEF Shape, Placed
    <3>2. c # a /\ c # u
      BY <1>1, <1>2, <2>4, <3>1
    <3> QED  BY <2>3, <3>1, <3>2 DEF Deep
  <2>5. a # Nil /\ u # Nil /\ H[a] \in Nat /\ H[u] \in Nat
    BY <1>1, <1>2, <2>1
  <2>6. Deep(G, a) = Deep(H, a) + 1 /\ Deep(G, u) = Deep(H, u) + 1 /\ Deep(H, a) \in Nat
        /\ Deep(H, u) \in Nat
    BY <2>3, <2>5 DEF Deep
  <2>7. ASSUME NEW n \in N
        PROVE  /\ Deep(G, r[n].left) = Deep(G, r[n].right)
               /\ G[n] = Deep(G, r[n].left) + Weight(r, n)
    <3>1. CASE n = g
      <4>1. Weight(p, n) = 1 /\ Weight(r, n) = 0 /\ G[n] = H[n] /\ r[n].left = p[n].left /\ r[n].right = p[n].right
        BY <1>1, <1>2, <1>3, <1>5, <1>6, <2>3, <3>1 DEF Weight
      <4>2. H[g] = Deep(H, p[g].left) + 1 /\ Deep(H, p[g].left) = Deep(H, p[g].right)
        BY <2>1, <3>1, <4>1
      <4> QED  BY <1>7, <2>6, <3>1, <4>1, <4>2
    <3>2. CASE n \in {a, u}
      <4>1. Weight(p, n) = 0 /\ Weight(r, n) = 1 /\ G[n] = H[n] + 1
        BY <1>3, <1>6, <2>3, <3>2 DEF Weight
      <4>2. Deep(G, p[n].left) = Deep(H, p[n].left) /\ Deep(G, p[n].right) = Deep(H, p[n].right)
        BY <1>2, <2>4, <3>2
      <4>3. H[n] = Deep(H, p[n].left) /\ H[n] \in Nat
        <5>1. H[n] = Deep(H, p[n].left) + 0 /\ H[n] \in Nat
          BY <2>1, <4>1
        <5>2. Deep(H, p[n].left) \in Nat
          BY <1>1, <2>1 DEF Deep, Shape, Placed
        <5> QED  BY <5>1, <5>2
      <4> QED  BY <1>5, <2>1, <4>1, <4>2, <4>3
    <3>3. CASE n # g /\ n # a /\ n # u
      <4>1. Weight(p, n) = Weight(r, n) /\ G[n] = H[n]
        BY <1>3, <2>3, <3>3 DEF Weight
      <4>2. Deep(G, p[n].left) = Deep(H, p[n].left) /\ Deep(G, p[n].right) = Deep(H, p[n].right)
        BY <2>4, <3>3
      <4> QED  BY <1>5, <2>1, <4>1, <4>2
    <3> QED  BY <3>1, <3>2, <3>3
  <2> QED  BY <2>2, <2>7 DEF Heights
<1>9. NoReds(r, N, g)
  <2> SUFFICES ASSUME NEW n \in N, n # g, r[n].red, r[n].par # Nil PROVE ~r[r[n].par].red
    BY DEF NoReds
  <2>1. n # a /\ n # u /\ p[n].red /\ r[n].par = p[n].par
    BY <1>3, <1>5
  <2> DEFINE up == p[n].par
  <2>2. n # h
    BY <1>1, <2>1
  <2>3. up \in N /\ (n = p[up].left \/ n = p[up].right)
    BY <1>1, <2>2 DEF Shape, Hangs
  <2>4. up # g
    BY <1>7, <2>1, <2>3
  <2>5. CASE up \in {a, u}
    BY <1>3, <2>1, <2>5
  <2>6. CASE up \notin {a, u}
    <3>1. n # t
      BY <1>2, <2>6
    <3>2. ~p[up].red
      BY <1>1, <2>1, <3>1 DEF NoReds
    <3> QED  BY <1>3, <2>1, <2>3, <2>4, <2>6, <3>2
  <2> QED  BY <2>5, <2>6
<1>10. Cardinality(U[g]) > Cardinality(U[t])
  BY <1>1, <1>2, Bigger
<1> HIDE DEF G
<1>11. TurnsTo(p, r, h, N, U, rk, t, g)
  BY <1>1, <1>4, <1>8, <1>9, <1>10 DEF TurnsTo, Turns
<1>12. r[g].par = Nil => g = h
  BY <1>1, <1>5 DEF Shape, Hangs
<1>13. ASSUME r[g].par # Nil PROVE ~r[h].red
  <2>1. p[h].par = Nil /\ h \in N
    BY <1>1 DEF Shape
  <2>2. h # g /\ h # a /\ h # u
    BY <1>1, <1>2, <1>5, <1>13, <2>1
  <2> QED  BY <1>1, <1>3, <2>1, <2>2
<1> QED  BY <1>11, <1>12, <1>13

\* The head of the tree is made black.
LEMMA Blackened ==
  ASSUME NEW p, NEW r, NEW m, NEW N, NEW V, NEW G, NEW rk,
         Shape(p, m, N, V), Sorted(p, N, V, rk), Heights(p, N, G), NoReds(p, N, m),
         ColouredAs(p, r, m, FALSE)
  PROVE  /\ \E K : Balanced(r, m, N, V, K, rk, m)
         /\ Frame(p, r, N) /\ SameContents(p, r, N)
<1>1. m \in N /\ p[m].par = Nil /\ Nil \notin N /\ N \subseteq 1 .. Len(p)
  BY DEF Shape, Nil
<1>2. SameLinks(p, r, N) /\ ~r[m].red /\ \A n \in N : n # m => r[n].red = p[n].red
  BY <1>1 DEF ColouredAs, SameLinks
<1>3. Shape(r, m, N, V) /\ Sorted(r, N, V, rk) /\ Frame(p, r, N) /\ SameContents(p, r, N)
  BY <1>2, Recoloured
<1>4. \A k \in N : r[k].left = p[k].left /\ r[k].right = p[k].right /\ r[k].par = p[k].par
  BY <1>1, <1>2 DEF SameLinks
<1> DEFINE K == [n \in N |-> IF n = m THEN Deep(G, p[m].left) + 1 ELSE G[n]]
<1>5. Heights(r, N, K)
  <2>1. G \in [N -> Nat] /\ \A n \in N : /\ Deep(G, p[n].left) = Deep(G, p[n].right)
                                         /\ G[n] = Deep(G, p[n].left) + Weight(p, n)
    BY DEF Heights
  <2>2. Deep(G, p[m].left) \in Nat
    BY <1>1, <2>1 DEF Deep, Shape, Placed
  <2>3. K \in [N -> Nat] /\ K[m] = Deep(G, p[m].left) + 1 /\ \A n \in N : n # m => K[n] = G[n]
    BY <1>1, <2>1, <2>2
  <2> HIDE DEF K
  <2>4. ASSUME NEW n \in N, NEW c \in {p[n].left, p[n].right} PROVE Deep(K, c) = Deep(G, c)
    <3>1. c # Nil => c \in N /\ p[c].par = n
      BY DEF Shape, Placed
    <3>2. c # Nil => c # m
      BY <1>1, <3>1
    <3> QED  BY <2>3, <3>1, <3>2 DEF Deep
  <2>5. ASSUME NEW n \in N
        PROVE  /\ Deep(K, r[n].left) = Deep(K, r[n].right)
               /\ K[n] = Deep(K, r[n].left) + Weight(r, n)
    <3>1. /\ Deep(K, r[n].left) = Deep(G, p[n].left)
          /\ Deep(K, r[n].right) = Deep(G, p[n].right)
      BY <1>4, <2>4
    <3>2. CASE n = m
      BY <1>2, <2>1, <2>3, <3>1, <3>2 DEF Weight
    <3>3. CASE n # m
      BY <1>2, <2>1, <2>3, <3>1, <3>3 DEF Weight
    <3> QED  BY <3>2, <3>3
  <2> QED  BY <2>3, <2>5 DEF Heights
<1>6. NoReds(r, N, m)
  <2> SUFFICES ASSUME NEW n \in N, n # m, r[n].red, r[n].par # Nil PROVE ~r[r[n].par].red
    BY DEF NoReds
  <2>1. p[n].red /\ r[n].par = p[n].par
    BY <1>2, <1>4
  <2>2. ~p[p[n].par].red /\ p[n].par \in N
    BY <2>1 DEF NoReds, Shape, Hangs
  <2> QED  BY <1>2, <2>1, <2>2
<1> HIDE DEF K
<1>7. Balanced(r, m, N, V, K, rk, m)
  BY <1>1, <1>2, <1>3, <1>5, <1>6 DEF Balanced
<1> QED  BY <1>3, <1>7

\* What two turns leave alone.
LEMMA FrameSteps ==
  ASSUME NEW p, NEW q, NEW r, NEW N, Frame(p, q, N), Frame(q, r, N),
         SameContents(p, q, N), SameContents(q, r, N)
  PROVE  Frame(p, r, N) /\ SameContents(p, r, N)
<1>1. Frame(p, r, N)
  BY DEF Frame, SameAt
<1>2. SameContents(p, r, N)
  <2>1. ASSUME NEW n \in N PROVE \E k \in N : Has(r, n, p, k)
    <3>1. PICK j \in N : Has(r, n, q, j)
      BY DEF SameContents
    <3>2. PICK k \in N : Has(q, j, p, k)
      BY DEF SameContents
    <3> QED  BY <3>1, <3>2 DEF Has
  <2>2. ASSUME NEW n \in N PROVE \E k \in N : Has(r, k, p, n)
    <3>1. PICK j \in N : Has(q, j, p, n)
      BY DEF SameContents
    <3>2. PICK k \in N : Has(r, k, q, j)
      BY DEF SameContents
    <3> QED  BY <3>1, <3>2 DEF Has
  <2> QED  BY <2>1, <2>2 DEF SameContents
<1> QED  BY <1>1, <1>2

\* Nothing happened.
LEMMA FrameStays ==
  ASSUME NEW p \in Seq(NodeType), NEW N
  PROVE  Frame(p, p, N) /\ SameContents(p, p, N)
BY DEF Frame, SameAt, SameContents, Has

-----------------------------------------------------------------------------
\* The loop of rbtree_insert: there is something to do; after k turns, the node that
\* is looked at has more than k below it.
Active(s) == s.pool[s.tar].red /\ s.pool[s.pool[s.tar].par].red

Climbs(s, N, rk, k, U, H) ==
  /\ Balanced(s.pool, s.head, N, U, H, rk, s.tar)
  /\ Active(s) => Cardinality(U[s.tar]) > k

Climbing(s, N, rk, k) == \E U, H : Climbs(s, N, rk, k, U, H)

\* What a turn puts in the pool before it looks at the head.
Repaired(s) ==
  LET t   == s.tar
      par == s.pool[t].par
      g   == s.pool[par].par
      u   == IF s.pool[g].left = par THEN s.pool[g].right ELSE s.pool[g].left
      q   == [s.pool EXCEPT ![par].red = FALSE, ![g].red = TRUE]
  IN  IF RedUncle(q, u) THEN [pool |-> [q EXCEPT ![u].red = FALSE], top |-> g]
      ELSE rotate(q, t)

\* One turn of the loop, in the words above.
LEMMA RebalancedIs ==
  ASSUME NEW s
  PROVE  Rebalanced(s) =
           IF ~Active(s) THEN s
           ELSE IF Repaired(s).pool[Repaired(s).top].par # Nil
                THEN [pool |-> Repaired(s).pool, tar |-> Repaired(s).top, head |-> s.head]
                ELSE [pool |-> [Repaired(s).pool EXCEPT ![Repaired(s).top].red = FALSE],
                      tar |-> Repaired(s).top, head |-> Repaired(s).top]
BY DEF Rebalanced, Active, Repaired

\* A turn of the loop before it blackens the head.
LEMMA RepairedTurns ==
  ASSUME NEW s, NEW N, NEW U, NEW H, NEW rk,
         Balanced(s.pool, s.head, N, U, H, rk, s.tar), Active(s)
  PROVE  LET r == Repaired(s).pool
             m == Repaired(s).top
         IN  /\ TurnsTo(s.pool, r, IF r[m].par = Nil THEN m ELSE s.head, N, U, rk, s.tar, m)
             /\ r[m].par # Nil => ~r[s.head].red
<1> DEFINE p == s.pool
           t == s.tar
           a == p[t].par
           g == p[a].par
           u == IF p[g].left = a THEN p[g].right ELSE p[g].left
           w == IF p[a].left = t THEN p[a].right ELSE p[a].left
           q == [p EXCEPT ![a].red = FALSE, ![g].red = TRUE]
<1>1. Family(p, N, t, a, g, u, w)
  BY FamilyIs DEF Active
<1>2. Repaired(s) = IF RedUncle(q, u) THEN [pool |-> [q EXCEPT ![u].red = FALSE], top |-> g]
                    ELSE rotate(q, t)
  BY DEF Repaired
<1> HIDE DEF u, w
<1>3. /\ Shape(p, s.head, N, U) /\ p \in Seq(NodeType) /\ N \subseteq 1 .. Len(p) /\ t \in N /\ a \in N /\ g \in N
  BY <1>1 DEF Balanced, Shape, Family
<1>4. Clan(p, N, U, t, a, g, u, w)
  BY <1>1, <1>3, FamilyClump
<1>5. a # g /\ u # a /\ u # g /\ (u # Nil => u \in N)
  BY <1>4 DEF Clan, AllApart
<1>6. Flipped(p, q, a, g)
  <2>1. a \in 1 .. Len(p) /\ g \in 1 .. Len(p)
    BY <1>3
  <2> HIDE DEF a, g
  <2> QED  BY <1>3, <1>5, <2>1, FlippedIs
<1> HIDE DEF q, a, g, p, t
<1>7. CASE RedUncle(q, u)
  <2>1. u # Nil /\ u \in 1 .. Len(p) /\ p[u].red
    BY <1>3, <1>5, <1>6, <1>7 DEF RedUncle, Flipped
  <2> DEFINE r == [q EXCEPT ![u].red = FALSE]
  <2>2. ColouredAs(q, r, u, FALSE)
    BY <1>6, <2>1, ColouredIs DEF Flipped
  <2>3. Repaired(s).pool = r /\ Repaired(s).top = g
    BY <1>2, <1>7
  <2> HIDE DEF r
  <2>4. Balanced(p, s.head, N, U, H, rk, t)
    BY DEF p, t
  <2>5. /\ TurnsTo(p, r, s.head, N, U, rk, t, g)
        /\ r[g].par = Nil => g = s.head
        /\ r[g].par # Nil => ~r[s.head].red
    <3>1. Recolours(p, q, r, s.head, N, U, H, rk, t, a, g, u, w)
      BY <1>1, <1>6, <2>1, <2>2, <2>4 DEF Recolours
    <3> QED  BY <3>1, RecolourTurns
  <2>6. TurnsTo(p, r, IF r[g].par = Nil THEN g ELSE s.head, N, U, rk, t, g)
    BY <2>5
  <2> QED  BY <2>3, <2>5, <2>6 DEF p, t
<1>8. CASE ~RedUncle(q, u)
  <2>1. u # Nil => ~p[u].red
    <3>1. u # Nil => u \in 1 .. Len(p)
      BY <1>3, <1>5
    <3> QED  BY <1>5, <1>6, <1>8, <3>1 DEF RedUncle, Flipped
  <2>2. Balanced(p, s.head, N, U, H, rk, t)
    BY DEF p, t
  <2>3. Aside(p, q, s.head, N, U, H, rk, t, a, g, u, w)
    BY <1>1, <1>6, <2>1, <2>2 DEF Aside
  <2>4. RotatedTo(p, rotate(q, t).pool, s.head, N, U, H, rk, t, rotate(q, t).top)
    BY <2>3, Rotates
  <2>5. Repaired(s) = rotate(q, t)
    BY <1>2, <1>8
  <2>6. LET r == rotate(q, t).pool
            m == rotate(q, t).top
        IN  /\ TurnsTo(p, r, IF r[m].par = Nil THEN m ELSE s.head, N, U, rk, t, m)
            /\ r[m].par # Nil => ~r[s.head].red
    BY <2>2, <2>4, RotatedTurns
  <2> QED  BY <2>5, <2>6 DEF p, t
<1> QED  BY <1>7, <1>8

\* A turn of the loop: it climbs, and keeps the tree, its contents and all else.
LEMMA TurnStep ==
  ASSUME NEW s, NEW N, NEW rk, NEW k \in Nat, Climbing(s, N, rk, k)
  PROVE  LET z == Rebalanced(s)
         IN  Climbing(z, N, rk, k + 1) /\ Frame(s.pool, z.pool, N) /\ SameContents(s.pool, z.pool, N)
<1>1. PICK U, H : Climbs(s, N, rk, k, U, H)
  BY DEF Climbing
<1>2. Balanced(s.pool, s.head, N, U, H, rk, s.tar) /\ s.pool \in Seq(NodeType)
  BY <1>1 DEF Climbs, Balanced, Shape
<1>3. CASE ~Active(s)
  <2>1. Rebalanced(s) = s
    BY <1>3, RebalancedIs
  <2>2. Climbs(s, N, rk, k + 1, U, H)
    BY <1>1, <1>3 DEF Climbs
  <2>3. Climbing(s, N, rk, k + 1)
    BY <2>2 DEF Climbing
  <2> QED  BY <1>2, <2>1, <2>3, FrameStays
<1>4. CASE Active(s)
  <2> DEFINE r == Repaired(s).pool
             m == Repaired(s).top
             h == IF r[m].par = Nil THEN m ELSE s.head
  <2>1. TurnsTo(s.pool, r, h, N, U, rk, s.tar, m) /\ (r[m].par # Nil => ~r[s.head].red)
    BY <1>2, <1>4, RepairedTurns
  <2>2. Rebalanced(s) = IF r[m].par # Nil THEN [pool |-> r, tar |-> m, head |-> s.head]
                        ELSE [pool |-> [r EXCEPT ![m].red = FALSE], tar |-> m, head |-> m]
    BY <1>4, RebalancedIs
  <2> HIDE DEF r, m
  <2>3. PICK V, G : Turns(s.pool, r, h, N, U, rk, s.tar, m, V, G)
    BY <2>1 DEF TurnsTo
  <2> HIDE DEF h
  <2>4. /\ Shape(r, h, N, V) /\ Sorted(r, N, V, rk) /\ Heights(r, N, G) /\ NoReds(r, N, m) /\ m \in N
        /\ Cardinality(V[m]) > Cardinality(U[s.tar])
        /\ Frame(s.pool, r, N) /\ SameContents(s.pool, r, N)
    BY <2>3 DEF Turns
  <2>5. CASE r[m].par # Nil
    <3> DEFINE z == [pool |-> r, tar |-> m, head |-> s.head]
    <3>1. h = s.head
      BY <2>5 DEF h
    <3>2. Balanced(r, s.head, N, V, G, rk, m)
      BY <2>1, <2>4, <2>5, <3>1 DEF Balanced
    <3>3. Cardinality(V[m]) > k + 1
      <4>1. Cardinality(U[s.tar]) > k
        BY <1>1, <1>4 DEF Climbs
      <4>2. Cardinality(U[s.tar]) \in Nat /\ Cardinality(V[m]) \in Nat
        <5>1. s.tar \in N /\ Shape(s.pool, s.head, N, U)
          BY <1>2 DEF Balanced
        <5> QED  BY <2>4, <5>1, Smaller
      <4> QED  BY <2>4, <4>1, <4>2
    <3>4. Climbs(z, N, rk, k + 1, V, G)
      BY <3>2, <3>3 DEF Climbs
    <3>5. Climbing(z, N, rk, k + 1)
      BY <3>4 DEF Climbing
    <3> QED  BY <2>2, <2>4, <2>5, <3>5
  <2>6. CASE r[m].par = Nil
    <3> DEFINE y == [r EXCEPT ![m].red = FALSE]
               z == [pool |-> y, tar |-> m, head |-> m]
    <3>1. h = m /\ r \in Seq(NodeType) /\ m \in 1 .. Len(r)
      BY <2>4, <2>6 DEF h, Shape
    <3>2. ColouredAs(r, y, m, FALSE)
      BY <3>1, ColouredIs
    <3> HIDE DEF y
    <3>3. /\ \E K : Balanced(y, m, N, V, K, rk, m)
          /\ Frame(r, y, N) /\ SameContents(r, y, N)
      BY <2>4, <3>1, <3>2, Blackened
    <3>4. PICK K : Balanced(y, m, N, V, K, rk, m)
      BY <3>3
    <3>5. ~Active(z)
      BY <3>2 DEF ColouredAs, Active
    <3>6. Climbs(z, N, rk, k + 1, V, K)
      BY <3>4, <3>5 DEF Climbs
    <3>7. Climbing(z, N, rk, k + 1)
      BY <3>6 DEF Climbing
    <3>8. Frame(s.pool, y, N) /\ SameContents(s.pool, y, N)
      BY <2>4, <3>3, FrameSteps
    <3>9. Rebalanced(s) = z
      BY <2>2, <2>6 DEF y
    <3> QED  BY <3>7, <3>8, <3>9
  <2> QED  BY <2>5, <2>6
<1> QED  BY <1>3, <1>4

-----------------------------------------------------------------------------
\* A recursive function of the nodes of a pool is there, when each node refers to nodes
\* of a lower rank.
Founded(L, left, right, R, K) ==
  \A n \in 1 .. L :
    /\ left[n] \in 0 .. L /\ right[n] \in 0 .. L /\ R[n] <= K
    /\ left[n] = 0 \/ R[left[n]] < R[n]
    /\ right[n] = 0 \/ R[right[n]] < R[n]

Computes(f, L, left, right, V, base, Step) ==
  /\ f \in [0 .. L -> V] /\ f[0] = base
  /\ \A n \in 1 .. L : f[n] = Step[<<n, f[left[n]], f[right[n]]>>]

Computed(L, left, right, V, base, Step) == \E f : Computes(f, L, left, right, V, base, Step)

\* A function on nodes that is defined by its values on two nodes of lesser rank exists.
LEMMA Recursion ==
  ASSUME NEW L \in Nat, NEW left, NEW right, NEW R \in [0 .. L -> Nat], NEW K \in Nat,
         Founded(L, left, right, R, K),
         NEW V, NEW base \in V, NEW Step \in [(1 .. L) \X V \X V -> V]
  PROVE  Computed(L, left, right, V, base, Step)
<1> DEFINE Goes(f, k) == /\ f[0] = base
                         /\ \A n \in 1 .. L : R[n] <= k => f[n] = Step[<<n, f[left[n]], f[right[n]]>>]
           Good == {k \in Nat : \E f \in [0 .. L -> V] : Goes(f, k)}
<1> USE DEF Founded
<1>1. 0 \in Good
  <2> DEFINE e == [n \in 0 .. L |-> base]
             f == [n \in 0 .. L |-> IF n = 0 THEN base ELSE Step[<<n, base, base>>]]
  <2>1. f \in [0 .. L -> V] /\ f[0] = base
    OBVIOUS
  <2>2. ASSUME NEW n \in 1 .. L, R[n] <= 0 PROVE f[n] = Step[<<n, f[left[n]], f[right[n]]>>]
    <3>1. left[n] = 0 /\ right[n] = 0
      BY <2>2
    <3> QED  BY <3>1
  <2> HIDE DEF f
  <2>3. Goes(f, 0)
    BY <2>1, <2>2
  <2> QED  BY <2>1, <2>3
<1>2. ASSUME NEW k \in Nat, k \in Good PROVE k + 1 \in Good
  <2>1. PICK f \in [0 .. L -> V] : Goes(f, k)
    BY <1>2
  <2> DEFINE e == [n \in 0 .. L |-> IF n # 0 /\ R[n] = k + 1 THEN Step[<<n, f[left[n]], f[right[n]]>>]
                                   ELSE f[n]]
  <2>2. ASSUME NEW n \in 0 .. L PROVE e[n] \in V
    <3>1. n # 0 => Step[<<n, f[left[n]], f[right[n]]>>] \in V
      <4>1. n # 0 => n \in 1 .. L /\ f[left[n]] \in V /\ f[right[n]] \in V
        OBVIOUS
      <4> QED  BY <4>1
    <3> QED  BY <3>1
  <2>3. /\ e \in [0 .. L -> V] /\ e[0] = base
        /\ \A n \in 0 .. L : n = 0 \/ R[n] # k + 1 => e[n] = f[n]
        /\ \A n \in 1 .. L : R[n] = k + 1 => e[n] = Step[<<n, f[left[n]], f[right[n]]>>]
    BY <2>1, <2>2
  <2> HIDE DEF e
  <2>4. ASSUME NEW n \in 1 .. L, R[n] <= k + 1 PROVE e[n] = Step[<<n, e[left[n]], e[right[n]]>>]
    <3>1. \A c \in {left[n], right[n]} : c \in 0 .. L /\ (c = 0 \/ R[c] # k + 1)
      BY <2>4
    <3>2. e[left[n]] = f[left[n]] /\ e[right[n]] = f[right[n]]
      BY <2>3, <3>1
    <3>3. CASE R[n] = k + 1
      BY <2>3, <3>2, <3>3
    <3>4. CASE R[n] # k + 1
      <4> HIDE DEF Founded
      <4>1. R[n] <= k
        BY <2>4, <3>4
      <4>2. f[n] = Step[<<n, f[left[n]], f[right[n]]>>]
        BY <2>1, <4>1
      <4>3. e[n] = f[n]
        BY <2>3, <3>4
      <4> QED  BY <3>2, <4>2, <4>3
    <3> QED  BY <3>3, <3>4
  <2>5. Goes(e, k + 1)
    BY <2>3, <2>4
  <2> HIDE DEF Goes
  <2> QED  BY <2>3, <2>5
<1> HIDE DEF Good
<1>3. K \in Good
  BY <1>1, <1>2, Induction
<1>4. PICK f \in [0 .. L -> V] : Goes(f, K)
  BY <1>3 DEF Good
<1>5. Computes(f, L, left, right, V, base, Step)
  BY <1>4 DEF Computes
<1> QED  BY <1>5 DEF Computed

\* Going down, and going up, ends.
Rooted(p) ==
  \E R \in [0 .. Len(p) -> 0 .. Len(p)] : \A n \in 1 .. Len(p) : \A c \in {p[n].left, p[n].right} :
    c = Nil \/ (c \in 1 .. Len(p) /\ R[c] < R[n])

Hung(p) ==
  \E R \in [0 .. Len(p) -> 0 .. Len(p)] : \A n \in 1 .. Len(p) :
    p[n].par = Nil \/ (p[n].par \in 1 .. Len(p) /\ R[p[n].par] < R[n])

RunsDown(f, p, V, base, Step) ==
  /\ f \in [0 .. Len(p) -> V] /\ f[0] = base
  /\ \A n \in 1 .. Len(p) : f[n] = Step[<<n, f[p[n].left], f[p[n].right]>>]

\* A function that is defined down a tree exists.
LEMMA RecursionDown ==
  ASSUME NEW p \in Seq(NodeType), Rooted(p),
         NEW V, NEW base \in V, NEW Step \in [(1 .. Len(p)) \X V \X V -> V]
  PROVE  \E f : RunsDown(f, p, V, base, Step)
<1> DEFINE L == Len(p)
           left == [n \in 1 .. L |-> p[n].left]
           right == [n \in 1 .. L |-> p[n].right]
<1>1. PICK R \in [0 .. L -> 0 .. L] : \A n \in 1 .. L : \A c \in {p[n].left, p[n].right} :
        c = Nil \/ (c \in 1 .. L /\ R[c] < R[n])
  BY DEF Rooted
<1>2. L \in Nat
  BY PoolNodes
<1> HIDE DEF L
<1>3. R \in [0 .. L -> Nat]
  BY <1>2
<1>5. \A n \in 1 .. L : left[n] = p[n].left /\ right[n] = p[n].right
  OBVIOUS
<1> HIDE DEF left, right
<1>4. Founded(L, left, right, R, L)
  <2> SUFFICES ASSUME NEW n \in 1 .. L
               PROVE  /\ left[n] \in 0 .. L /\ right[n] \in 0 .. L /\ R[n] <= L
                      /\ left[n] = 0 \/ R[left[n]] < R[n]
                      /\ right[n] = 0 \/ R[right[n]] < R[n]
    BY DEF Founded
  <2>1. R[n] \in 0 .. L
    BY <1>2
  <2>2. \A c \in {p[n].left, p[n].right} : c = 0 \/ (c \in 1 .. L /\ R[c] < R[n])
    BY <1>1 DEF Nil
  <2>3. left[n] = 0 \/ (left[n] \in 1 .. L /\ R[left[n]] < R[n])
    BY <1>5, <2>2
  <2>4. right[n] = 0 \/ (right[n] \in 1 .. L /\ R[right[n]] < R[n])
    BY <1>5, <2>2
  <2>5. R[n] <= L /\ 0 \in 0 .. L /\ \A c \in 1 .. L : c \in 0 .. L
    BY <1>2, <2>1
  <2> QED  BY <2>3, <2>4, <2>5
<1>6. Step \in [(1 .. L) \X V \X V -> V]
  BY DEF L
<1>7. Computed(L, left, right, V, base, Step)
  BY <1>2, <1>3, <1>4, <1>6, Recursion
<1>8. PICK f : Computes(f, L, left, right, V, base, Step)
  BY <1>7 DEF Computed
<1>9. RunsDown(f, p, V, base, Step)
  BY <1>5, <1>8 DEF L, Computes, RunsDown
<1> QED  BY <1>9

-----------------------------------------------------------------------------
\* The node under which a key is inserted.
IsDown(p, comp, f) ==
  f = [n \in DOMAIN p |-> LET next == Child(p, n, Side(comp[n])) IN IF next = Nil THEN n ELSE f[next]]

\* The way down that an insertion takes.
LEMMA SpotIs ==
  ASSUME NEW p \in Seq(NodeType), NEW comp, Rooted(p)
  PROVE  \E f : /\ \A h : Spot(p, h, comp) = f[h]
                /\ \A n \in 1 .. Len(p) :
                     LET next == Child(p, n, Side(comp[n])) IN f[n] = IF next = Nil THEN n ELSE f[next]
<1> DEFINE L == Len(p)
           V == Nat
           Step == [x \in (1 .. L) \X V \X V |->
                      IF Child(p, x[1], Side(comp[x[1]])) = Nil THEN x[1]
                      ELSE IF Side(comp[x[1]]) = "left" THEN x[2] ELSE x[3]]
<1>1. DOMAIN p = 1 .. L /\ L \in Nat
  BY PoolNodes
<1>2. \E f : IsDown(p, comp, f)
  <2>1. Step \in [(1 .. L) \X V \X V -> V]
    OBVIOUS
  <2>2. \A n \in 1 .. L : \A a, b \in V :
          Step[<<n, a, b>>] = IF Child(p, n, Side(comp[n])) = Nil THEN n
                              ELSE IF Side(comp[n]) = "left" THEN a ELSE b
    OBVIOUS
  <2> HIDE DEF Step
  <2>0. \E f : RunsDown(f, p, V, 0, Step)
    <3>1. 0 \in V
      OBVIOUS
    <3> HIDE DEF V
    <3> QED  BY <2>1, <3>1, RecursionDown
  <2>3. PICK f \in [0 .. L -> V] :
          f[0] = 0 /\ \A n \in 1 .. L : f[n] = Step[<<n, f[p[n].left], f[p[n].right]>>]
    BY <2>0 DEF RunsDown
  <2>4. \A n \in 1 .. L : p[n].left \in 0 .. L /\ p[n].right \in 0 .. L
    BY DEF Rooted, Nil
  <2>5. ASSUME NEW n \in 1 .. L
        PROVE  f[n] = IF Child(p, n, Side(comp[n])) = Nil THEN n ELSE f[Child(p, n, Side(comp[n]))]
    <3>1. f[p[n].left] \in V /\ f[p[n].right] \in V
      BY <2>4
    <3>2. f[n] = IF Child(p, n, Side(comp[n])) = Nil THEN n
                 ELSE IF Side(comp[n]) = "left" THEN f[p[n].left] ELSE f[p[n].right]
      BY <2>2, <2>3, <3>1
    <3> QED  BY <3>2 DEF Child
  <2> DEFINE d == [n \in 1 .. L |-> f[n]]
  <2>6. ASSUME NEW n \in 1 .. L, Child(p, n, Side(comp[n])) # Nil
        PROVE  f[Child(p, n, Side(comp[n]))] = d[Child(p, n, Side(comp[n]))]
    BY <1>1, <2>4, <2>6 DEF Child, Nil
  <2>7. IsDown(p, comp, d)
    <3>1. \A n \in 1 .. L : f[n] = IF Child(p, n, Side(comp[n])) = Nil THEN n ELSE d[Child(p, n, Side(comp[n]))]
      BY <2>5, <2>6
    <3>2. d = [n \in 1 .. L |-> IF Child(p, n, Side(comp[n])) = Nil THEN n ELSE d[Child(p, n, Side(comp[n]))]]
      BY <3>1
    <3> QED  BY <1>1, <3>2 DEF IsDown
  <2> QED  BY <2>7
<1> DEFINE f == CHOOSE f : IsDown(p, comp, f)
<1>3. IsDown(p, comp, f)
  BY <1>2
<1>4. \A h : Spot(p, h, comp) = f[h]
  BY DEF Spot, IsDown
<1> HIDE DEF f
<1>5. \A n \in 1 .. L : LET next == Child(p, n, Side(comp[n])) IN f[n] = IF next = Nil THEN n ELSE f[next]
  BY <1>1, <1>3 DEF IsDown
<1> QED  BY <1>4, <1>5

\* No node is under a child of its own subtrees.
LEMMA ChildNot ==
  ASSUME NEW q, NEW h, NEW N, NEW U, Shape(q, h, N, U), NEW m \in N, NEW k \in U[m],
         NEW c \in {q[k].left, q[k].right}
  PROVE  m \notin Under(U, c)
<1> SUFFICES ASSUME c # Nil, m \in U[c] PROVE FALSE
  BY DEF Under
<1>1. k \in N /\ U[k] \subseteq U[m]
  BY Nested
<1>2. c \in N /\ Cardinality(U[c]) < Cardinality(U[k])
  BY <1>1, Smaller
<1>3. U[m] \subseteq U[c]
  BY <1>2, Nested
<1>4. /\ IsFiniteSet(U[m]) /\ IsFiniteSet(U[c]) /\ Cardinality(U[m]) \in Nat /\ Cardinality(U[k]) \in Nat
      /\ Cardinality(U[c]) \in Nat
  BY <1>1, <1>2, Smaller
<1>5. Cardinality(U[k]) <= Cardinality(U[m]) /\ Cardinality(U[m]) <= Cardinality(U[c])
  BY <1>1, <1>3, <1>4, FS_Subset
<1> QED  BY <1>2, <1>4, <1>5

\* Where the way down ends, and that it went by the comparisons.
Led(p, N, U, comp, d, m) ==
  /\ d \in U[m] /\ Child(p, d, Side(comp[d])) = Nil
  /\ \A k \in U[m] : /\ d \in Under(U, p[k].left) => Side(comp[k]) = "left"
                     /\ d \in Under(U, p[k].right) => Side(comp[k]) = "right"

\* It ends at a free place, on the side of each node above that the comparator names.
LEMMA SpotLed ==
  ASSUME NEW p, NEW h, NEW N, NEW U, NEW comp, Shape(p, h, N, U), Rooted(p)
  PROVE  Led(p, N, U, comp, Spot(p, h, comp), h) /\ Spot(p, h, comp) \in N
<1>1. p \in Seq(NodeType) /\ N \subseteq 1 .. Len(p) /\ h \in N /\ Nil \notin N
  BY DEF Shape, Nil
<1>2. PICK f : /\ \A x : Spot(p, x, comp) = f[x]
               /\ \A n \in 1 .. Len(p) :
                    LET next == Child(p, n, Side(comp[n])) IN f[n] = IF next = Nil THEN n ELSE f[next]
  BY <1>1, SpotIs
<1> DEFINE S == {m \in N : Led(p, N, U, comp, f[m], m)}
<1>3. ASSUME NEW m \in N, \A c \in {p[m].left, p[m].right} : c # Nil => c \in S
      PROVE  m \in S
  <2> DEFINE next == Child(p, m, Side(comp[m]))
             d == f[m]
  <2> SUFFICES Led(p, N, U, comp, d, m)
    OBVIOUS
  <2>1. Side(comp[m]) \in {"left", "right"}
    BY DEF Side
  <2>2. next = IF Side(comp[m]) = "left" THEN p[m].left ELSE p[m].right
    BY DEF Child
  <2>3. d = IF next = Nil THEN m ELSE f[next]
    BY <1>1, <1>2
  <2>4. /\ U[m] = {m} \cup Under(U, p[m].left) \cup Under(U, p[m].right)
        /\ Under(U, p[m].left) \cap Under(U, p[m].right) = {}
    BY DEF Shape, Placed
  <2>5. CASE next = Nil
    <3>1. d = m /\ m \in U[m]
      BY <2>3, <2>4, <2>5
    <3>2. \A k \in U[m] : m \notin Under(U, p[k].left) /\ m \notin Under(U, p[k].right)
      BY ChildNot
    <3> QED  BY <2>5, <3>1, <3>2 DEF Led
  <2>6. CASE next # Nil
    <3>1. next \in {p[m].left, p[m].right} /\ next \in S /\ d = f[next]
      BY <1>3, <2>2, <2>3, <2>6
    <3>2. Led(p, N, U, comp, d, next) /\ Under(U, next) = U[next]
      BY <2>6, <3>1 DEF Under
    <3> HIDE DEF next, d, S
    <3>3. d \in U[next] /\ U[next] \subseteq U[m]
      BY <2>4, <3>1, <3>2 DEF Led
    <3>4. ASSUME NEW k \in U[m]
          PROVE  /\ d \in Under(U, p[k].left) => Side(comp[k]) = "left"
                 /\ d \in Under(U, p[k].right) => Side(comp[k]) = "right"
      <4>1. CASE k = m
        BY <2>1, <2>2, <2>4, <3>2, <3>3, <4>1
      <4>2. CASE k \in U[next]
        BY <3>2, <4>2 DEF Led
      <4>3. CASE k # m /\ k \notin U[next]
        <5>1. PICK c \in {p[m].left, p[m].right} : k \in Under(U, c) /\ c # next
          BY <2>4, <3>2, <4>3
        <5>2. c # Nil /\ Under(U, c) = U[c]
          BY <5>1 DEF Under
        <5>3. U[c] \cap U[next] = {}
          BY <2>2, <2>4, <3>1, <3>2, <5>1, <5>2
        <5>4. c \in N
          BY <5>1, <5>2 DEF Shape, Placed
        <5>5. k \in N /\ U[k] \subseteq U[c]
          BY <5>1, <5>2, <5>4, Nested
        <5>6. Under(U, p[k].left) \subseteq U[k] /\ Under(U, p[k].right) \subseteq U[k]
          BY <5>5 DEF Shape, Placed
        <5> QED  BY <3>3, <5>3, <5>5, <5>6
      <4> QED  BY <4>1, <4>2, <4>3
    <3> QED  BY <3>2, <3>3, <3>4 DEF Led
  <2> QED  BY <2>5, <2>6
<1>4. N \subseteq S
  <2> HIDE DEF S
  <2> QED  BY <1>3, TreeInduction
<1>5. Led(p, N, U, comp, f[h], h)
  BY <1>1, <1>4
<1> QED  BY <1>1, <1>2, <1>5 DEF Led, Shape

-----------------------------------------------------------------------------
\* A new red leaf under n.
Grafted(p, q, n, side, key, val) ==
  /\ q \in Seq(NodeType) /\ Len(q) = Len(p) + 1
  /\ \A k \in 1 .. Len(p) :
       /\ q[k].key = p[k].key /\ q[k].val = p[k].val /\ q[k].red = p[k].red /\ q[k].par = p[k].par
       /\ k # n => q[k].left = p[k].left /\ q[k].right = p[k].right
  /\ side = "left" => q[n].left = Len(q) /\ q[n].right = p[n].right
  /\ side = "right" => q[n].right = Len(q) /\ q[n].left = p[n].left
  /\ q[Len(q)].key = key /\ q[Len(q)].val = val /\ q[Len(q)].red /\ q[Len(q)].par = n
  /\ q[Len(q)].left = Nil /\ q[Len(q)].right = Nil

\* A new node.
LEMMA Alloc ==
  ASSUME NEW p \in Seq(NodeType), NEW key \in KeyType, NEW val \in ValType
  PROVE  LET q == rbtree_node_alloc(p, key, val)
         IN  /\ q \in Seq(NodeType) /\ Len(q) = Len(p) + 1
             /\ \A k \in 1 .. Len(p) : q[k] = p[k]
             /\ q[Len(q)] = [key |-> key, val |-> val, left |-> Nil, right |-> Nil,
                             par |-> Nil, red |-> TRUE]
<1> DEFINE e == [key |-> key, val |-> val, left |-> Nil, right |-> Nil, par |-> Nil, red |-> TRUE]
<1>1. e \in NodeType
  BY DEF NodeType, Nil
<1>2. rbtree_node_alloc(p, key, val) = Append(p, e)
  BY DEF rbtree_node_alloc
<1> HIDE DEF e
<1>3. /\ Append(p, e) \in Seq(NodeType) /\ Len(Append(p, e)) = Len(p) + 1
      /\ \A k \in 1 .. Len(p) : Append(p, e)[k] = p[k]
      /\ Append(p, e)[Len(p) + 1] = e
  BY <1>1, AppendProperties
<1> QED  BY <1>2, <1>3 DEF e

\* A new node in its place.
LEMMA GraftedIs ==
  ASSUME NEW p \in Seq(NodeType), NEW n \in 1 .. Len(p), NEW side \in {"left", "right"},
         NEW key \in KeyType, NEW val \in ValType
  PROVE  Grafted(p, Linked(rbtree_node_alloc(p, key, val), n, side, Len(rbtree_node_alloc(p, key, val))),
                 n, side, key, val)
<1> DEFINE a == rbtree_node_alloc(p, key, val)
           t == Len(a)
           q == Linked(a, n, side, t)
<1>1. /\ a \in Seq(NodeType) /\ t = Len(p) + 1
      /\ \A k \in 1 .. Len(p) : a[k] = p[k]
      /\ a[t] = [key |-> key, val |-> val, left |-> Nil, right |-> Nil, par |-> Nil, red |-> TRUE]
  BY Alloc
<1>2. Len(p) \in Nat /\ n \in 1 .. Len(a) /\ t \in 1 .. Len(a) /\ t # n /\ t # Nil
  <2>1. Len(p) \in Nat
    BY PoolNodes
  <2> QED  BY <1>1, <2>1 DEF Nil
<1> HIDE DEF a
<1>3. LinkedAs(a, q, n, side, t)
  BY <1>1, <1>2, LinkedIs
<1> HIDE DEF q
<1>4. Grafted(p, q, n, side, key, val)
  BY <1>1, <1>2, <1>3 DEF LinkedAs, Grafted
<1> QED  BY <1>4 DEF a, q

Below(N, U, n, t) ==
  [m \in N \cup {t} |-> IF m = t THEN {t} ELSE IF n \in U[m] THEN U[m] \cup {t} ELSE U[m]]

\* The key has its place where n has a child of that side.
Fits(p, N, U, rk, n, side, key) ==
  /\ rk[key] \in Int
  /\ side = "left" => rk[key] <= Rank(p, rk, n)
  /\ side = "right" => Rank(p, rk, n) <= rk[key]
  /\ \A m \in N : /\ n \in Under(U, p[m].left) => rk[key] <= Rank(p, rk, m)
                  /\ n \in Under(U, p[m].right) => Rank(p, rk, m) <= rk[key]

Grafts(p, q, h, N, U, n, side, key, val) ==
  /\ Shape(p, h, N, U) /\ n \in N /\ side \in {"left", "right"}
  /\ Grafted(p, q, n, side, key, val) /\ Child(p, n, side) = Nil

GraftedShape(p, q, h, N, U, n, t, V) ==
  /\ Shape(q, h, N \cup {t}, V)
  /\ \A m \in N : \A c \in {p[m].left, p[m].right} :
       Under(V, c) = Under(U, c) \cup (IF n \in Under(U, c) THEN {t} ELSE {})
  /\ t \notin N /\ t # Nil

\* The new node makes a tree of the tree.
LEMMA GraftShape ==
  ASSUME NEW p, NEW h, NEW N, NEW U, NEW n, NEW side, NEW key, NEW val, NEW q,
         Grafts(p, q, h, N, U, n, side, key, val)
  PROVE  GraftedShape(p, q, h, N, U, n, Len(q), Below(N, U, n, Len(q)))
<1> USE DEF Grafts
<1> DEFINE t == Len(q)
           M == N \cup {t}
           V == Below(N, U, n, t)
<1>1. /\ p \in Seq(NodeType) /\ N \subseteq 1 .. Len(p) /\ Nil \notin N /\ h \in N /\ Len(p) \in Nat
      /\ U \in [N -> SUBSET N] /\ U[h] = N /\ p[h].par = Nil
  BY PoolNodes DEF Shape, Nil
<1>2. t = Len(p) + 1 /\ t \notin N /\ t # Nil /\ t \in 1 .. Len(q) /\ M \subseteq 1 .. Len(q) /\ q \in Seq(NodeType)
  <2>1. t = Len(p) + 1 /\ q \in Seq(NodeType)
    BY DEF Grafted
  <2> HIDE DEF Grafts
  <2>2. t \notin N /\ t # Nil /\ t \in 1 .. t /\ N \subseteq 1 .. t
    <3> HIDE DEF t
    <3> QED  BY <1>1, <2>1 DEF Nil
  <2> QED  BY <2>1, <2>2
<1> HIDE DEF t
<1>3. /\ \A k \in N : /\ q[k].par = p[k].par
                      /\ k # n => q[k].left = p[k].left /\ q[k].right = p[k].right
      /\ q[t].par = n /\ q[t].left = Nil /\ q[t].right = Nil
      /\ side = "left" => q[n].left = t /\ q[n].right = p[n].right /\ p[n].left = Nil
      /\ side = "right" => q[n].right = t /\ q[n].left = p[n].left /\ p[n].right = Nil
  BY <1>1 DEF Grafted, Child, t
<1>4. /\ V[t] = {t} /\ \A m \in N : V[m] = IF n \in U[m] THEN U[m] \cup {t} ELSE U[m]
      /\ V \in [M -> SUBSET M]
  BY <1>1, <1>2 DEF Below
<1> HIDE DEF V
<1>5. ASSUME NEW m \in N, NEW c \in {p[m].left, p[m].right}
      PROVE  /\ Under(V, c) = Under(U, c) \cup (IF n \in Under(U, c) THEN {t} ELSE {})
             /\ Under(U, c) \subseteq N
             /\ c # Nil => c \in N /\ p[c].par = m
  <2>1. c # Nil => c \in N /\ p[c].par = m
    BY DEF Shape, Placed
  <2> QED  BY <1>1, <1>4, <2>1 DEF Under
<1>6. Under(V, t) = {t}
  BY <1>2, <1>4 DEF Under
<1>7. n \in U[n]
  BY Smaller
<1>8. ASSUME NEW m \in M PROVE Placed(q, M, V, m)
  <2>1. CASE m = t
    BY <1>3, <1>4, <2>1 DEF Placed, Under
  <2>2. CASE m \in N
    <3>1. Placed(p, N, U, m)
      BY <2>2 DEF Shape
    <3>2. CASE m # n
      <4>1. q[m].left = p[m].left /\ q[m].right = p[m].right
        BY <1>3, <2>2, <3>2
      <4>2. n \in U[m] <=> n \in Under(U, p[m].left) \/ n \in Under(U, p[m].right)
        BY <3>1, <3>2 DEF Placed
      <4>3. /\ Under(V, p[m].left) = Under(U, p[m].left) \cup (IF n \in Under(U, p[m].left) THEN {t} ELSE {})
            /\ Under(V, p[m].right) = Under(U, p[m].right) \cup (IF n \in Under(U, p[m].right) THEN {t} ELSE {})
            /\ Under(U, p[m].left) \subseteq N /\ Under(U, p[m].right) \subseteq N
        BY <1>5, <2>2
      <4>4. V[m] = {m} \cup Under(V, p[m].left) \cup Under(V, p[m].right)
        BY <1>4, <2>2, <3>1, <4>2, <4>3 DEF Placed
      <4>5. /\ m \notin Under(V, p[m].left) /\ m \notin Under(V, p[m].right)
            /\ Under(V, p[m].left) \cap Under(V, p[m].right) = {}
        <5>1. m # t /\ t \notin Under(U, p[m].left) /\ t \notin Under(U, p[m].right)
          BY <1>2, <2>2, <4>3
        <5>2. Under(U, p[m].left) \cap Under(U, p[m].right) = {} /\ m \notin Under(U, p[m].left)
              /\ m \notin Under(U, p[m].right)
          BY <3>1 DEF Placed
        <5> QED  BY <4>3, <5>1, <5>2
      <4>6. /\ p[m].left # Nil => p[m].left \in M /\ q[p[m].left].par = m
            /\ p[m].right # Nil => p[m].right \in M /\ q[p[m].right].par = m
        BY <1>3, <1>5, <2>2
      <4> QED  BY <4>1, <4>4, <4>5, <4>6 DEF Placed
    <3>3. CASE m = n
      <4>1. V[n] = U[n] \cup {t}
        BY <1>4, <1>7
      <4>2. n \notin Under(U, p[n].left) /\ n \notin Under(U, p[n].right)
        BY <3>1, <3>3 DEF Placed
      <4>3. Under(V, p[n].left) = Under(U, p[n].left) /\ Under(V, p[n].right) = Under(U, p[n].right)
            /\ Under(U, p[n].left) \subseteq N /\ Under(U, p[n].right) \subseteq N
        BY <1>5, <4>2
      <4>4. /\ p[n].left # Nil => p[n].left \in M /\ q[p[n].left].par = n
            /\ p[n].right # Nil => p[n].right \in M /\ q[p[n].right].par = n
        BY <1>3, <1>5
      <4>5. U[n] = {n} \cup Under(U, p[n].left) \cup Under(U, p[n].right)
        BY <3>1, <3>3 DEF Placed
      <4>6. CASE side = "left"
        <5>1. q[n].left = t /\ q[n].right = p[n].right /\ Under(U, p[n].left) = {}
          BY <1>3, <4>6 DEF Under
        <5> QED  BY <1>2, <1>3, <1>6, <3>3, <4>1, <4>2, <4>3, <4>4, <4>5, <5>1 DEF Placed
      <4>7. CASE side = "right"
        <5>1. q[n].right = t /\ q[n].left = p[n].left /\ Under(U, p[n].right) = {}
          BY <1>3, <4>7 DEF Under
        <5> QED  BY <1>2, <1>3, <1>6, <3>3, <4>1, <4>2, <4>3, <4>4, <4>5, <5>1 DEF Placed
      <4> QED  BY <4>6, <4>7
    <3> QED  BY <3>2, <3>3
  <2> QED  BY <2>1, <2>2
<1>9. ASSUME NEW m \in M, m # h PROVE Hangs(q, M, m)
  <2>1. CASE m = t
    BY <1>3, <2>1 DEF Hangs
  <2>2. CASE m \in N
    <3>1. p[m].par \in N /\ (m = p[p[m].par].left \/ m = p[p[m].par].right) /\ m # Nil
      BY <1>1, <1>9, <2>2 DEF Shape, Hangs
    <3>2. q[m].par = p[m].par
      BY <1>3, <2>2
    <3>3. CASE p[m].par # n
      BY <1>3, <3>1, <3>2, <3>3 DEF Hangs
    <3>4. CASE p[m].par = n
      BY <1>3, <3>1, <3>2, <3>4 DEF Hangs
    <3> QED  BY <3>3, <3>4
  <2> QED  BY <2>1, <2>2
<1>10. h \in M /\ V[h] = M /\ q[h].par = Nil
  BY <1>1, <1>3, <1>4
<1>11. Shape(q, h, M, V)
  BY <1>2, <1>4, <1>8, <1>9, <1>10 DEF Shape
<1> QED  BY <1>2, <1>5, <1>11 DEF V, t, GraftedShape

\* ... in order and balanced, but for the colours of the new node and its parent.
LEMMA GraftBalanced ==
  ASSUME NEW p, NEW h, NEW N, NEW U, NEW H, NEW rk, NEW z, Balanced(p, h, N, U, H, rk, z),
         NoReds(p, N, Nil),
         NEW n \in N, NEW side \in {"left", "right"},
         NEW key, NEW val, NEW q, Grafted(p, q, n, side, key, val), Child(p, n, side) = Nil,
         Fits(p, N, U, rk, n, side, key)
  PROVE  \E V, G : Balanced(q, h, N \cup {Len(q)}, V, G, rk, Len(q))
<1> DEFINE t == Len(q)
           M == N \cup {t}
           V == Below(N, U, n, t)
           G == [m \in M |-> IF m = t THEN 0 ELSE H[m]]
<1>1. Shape(p, h, N, U) /\ Sorted(p, N, U, rk) /\ Heights(p, N, H) /\ ~p[h].red
  BY DEF Balanced
<1>2. /\ Shape(q, h, M, V) /\ t \notin N /\ t # Nil
      /\ \A m \in N : \A c \in {p[m].left, p[m].right} :
           Under(V, c) = Under(U, c) \cup (IF n \in Under(U, c) THEN {t} ELSE {})
  <2>1. Grafts(p, q, h, N, U, n, side, key, val)
    BY <1>1 DEF Grafts
  <2>2. GraftedShape(p, q, h, N, U, n, t, V)
    <3> HIDE DEF Below
    <3> QED  BY <2>1, GraftShape
  <2> HIDE DEF V, t
  <2> QED  BY <2>2 DEF GraftedShape
<1>3. N \subseteq 1 .. Len(p) /\ h \in N
  BY <1>1 DEF Shape
<1> HIDE DEF V, t
<1>4. /\ \A k \in N : /\ q[k].par = p[k].par /\ q[k].red = p[k].red /\ q[k].key = p[k].key
                      /\ k # n => q[k].left = p[k].left /\ q[k].right = p[k].right
      /\ q[t].par = n /\ q[t].left = Nil /\ q[t].right = Nil /\ q[t].red /\ q[t].key = key
      /\ side = "left" => q[n].left = t /\ q[n].right = p[n].right /\ p[n].left = Nil
      /\ side = "right" => q[n].right = t /\ q[n].left = p[n].left /\ p[n].right = Nil
  BY <1>3 DEF Grafted, Child, t
<1>5. Under(V, t) = {t}
  BY <1>2, <1>4 DEF Under, Shape, Placed
<1>6. Sorted(q, M, V, rk)
  <2>1. /\ \A m \in N : Rank(q, rk, m) = Rank(p, rk, m) /\ Rank(p, rk, m) \in Int
        /\ Rank(q, rk, t) = rk[key] /\ rk[key] \in Int
    BY <1>1, <1>4 DEF Rank, Sorted, Fits
  <2>2. ASSUME NEW m \in N
        PROVE  /\ \A a \in Under(V, p[m].left) : Rank(q, rk, a) <= Rank(q, rk, m)
               /\ \A a \in Under(V, p[m].right) : Rank(q, rk, m) <= Rank(q, rk, a)
    <3>1. Under(U, p[m].left) \subseteq N /\ Under(U, p[m].right) \subseteq N
      BY <1>1 DEF Shape, Placed, Under
    <3>2. /\ \A a \in Under(U, p[m].left) : Rank(q, rk, a) <= Rank(q, rk, m)
          /\ \A a \in Under(U, p[m].right) : Rank(q, rk, m) <= Rank(q, rk, a)
      BY <1>1, <2>1, <3>1 DEF Sorted
    <3>3. /\ n \in Under(U, p[m].left) => Rank(q, rk, t) <= Rank(q, rk, m)
          /\ n \in Under(U, p[m].right) => Rank(q, rk, m) <= Rank(q, rk, t)
      BY <2>1 DEF Fits
    <3> QED  BY <1>2, <3>2, <3>3
  <2>3. ASSUME NEW m \in M
        PROVE  /\ Rank(q, rk, m) \in Int
               /\ \A a \in Under(V, q[m].left) : Rank(q, rk, a) <= Rank(q, rk, m)
               /\ \A a \in Under(V, q[m].right) : Rank(q, rk, m) <= Rank(q, rk, a)
    <3>1. CASE m = t
      BY <1>4, <2>1, <3>1 DEF Under
    <3>2. CASE m \in N /\ m # n
      BY <1>4, <2>1, <2>2, <3>2
    <3>3. CASE m = n
      <4>1. /\ side = "left" => Rank(q, rk, t) <= Rank(q, rk, n)
            /\ side = "right" => Rank(q, rk, n) <= Rank(q, rk, t)
        BY <2>1 DEF Fits
      <4>2. CASE side = "left"
        BY <1>4, <1>5, <2>1, <2>2, <3>3, <4>1, <4>2
      <4>3. CASE side = "right"
        BY <1>4, <1>5, <2>1, <2>2, <3>3, <4>1, <4>3
      <4> QED  BY <4>2, <4>3
    <3> QED  BY <3>1, <3>2, <3>3
  <2> QED  BY <2>3 DEF Sorted
<1>7. Heights(q, M, G)
  <2>1. H \in [N -> Nat] /\ \A m \in N : /\ Deep(H, p[m].left) = Deep(H, p[m].right)
                                         /\ H[m] = Deep(H, p[m].left) + Weight(p, m)
    BY <1>1 DEF Heights
  <2>2. G \in [M -> Nat] /\ G[t] = 0 /\ \A m \in N : G[m] = H[m]
    BY <1>2, <2>1
  <2> HIDE DEF G
  <2>3. ASSUME NEW m \in N, NEW c \in {p[m].left, p[m].right} PROVE Deep(G, c) = Deep(H, c)
    <3>1. c # Nil => c \in N
      BY <1>1 DEF Shape, Placed
    <3> QED  BY <2>2, <3>1 DEF Deep
  <2>4. Deep(G, t) = 0 /\ Deep(G, Nil) = 0 /\ Deep(H, Nil) = 0
    BY <1>2, <2>2 DEF Deep
  <2>5. \A m \in N : Weight(q, m) = Weight(p, m)
    BY <1>4 DEF Weight
  <2>6. ASSUME NEW m \in M
        PROVE  /\ Deep(G, q[m].left) = Deep(G, q[m].right)
               /\ G[m] = Deep(G, q[m].left) + Weight(q, m)
    <3>1. CASE m = t
      BY <1>4, <2>2, <2>4, <3>1 DEF Weight
    <3>2. CASE m \in N /\ m # n
      BY <1>4, <2>1, <2>2, <2>3, <2>5, <3>2
    <3>3. CASE m = n
      <4>1. CASE side = "left"
        BY <1>4, <2>1, <2>2, <2>3, <2>4, <2>5, <3>3, <4>1
      <4>2. CASE side = "right"
        BY <1>4, <2>1, <2>2, <2>3, <2>4, <2>5, <3>3, <4>2
      <4> QED  BY <4>1, <4>2
    <3> QED  BY <3>1, <3>2, <3>3
  <2> QED  BY <2>2, <2>6 DEF Heights
<1>8. NoReds(q, M, t)
  <2> SUFFICES ASSUME NEW m \in M, m # t, q[m].red, q[m].par # Nil PROVE ~q[q[m].par].red
    BY DEF NoReds
  <2>1. m \in N /\ p[m].red /\ q[m].par = p[m].par /\ m # Nil
    BY <1>3, <1>4 DEF Nil
  <2>2. p[m].par \in N
    BY <1>1, <2>1 DEF Shape, Hangs
  <2>3. ~p[p[m].par].red
    BY <2>1 DEF NoReds
  <2> QED  BY <1>4, <2>1, <2>2, <2>3
<1> HIDE DEF G
<1>9. Balanced(q, h, M, V, G, rk, t)
  BY <1>1, <1>2, <1>3, <1>4, <1>6, <1>7, <1>8 DEF Balanced
<1> QED  BY <1>9 DEF t

RedBlack(q, h, N, rk) ==
  \E U, H : /\ Shape(q, h, N, U) /\ Sorted(q, N, U, rk) /\ Heights(q, N, H)
            /\ NoReds(q, N, Nil) /\ ~q[h].red

Tree(q, h, N, rk) == IF h = Nil THEN N = {} ELSE RedBlack(q, h, N, rk)

Inserts(p, h, N, rk, key, val, comp) ==
  /\ p \in Seq(NodeType) /\ Rooted(p) /\ N \subseteq 1 .. Len(p) /\ Tree(p, h, N, rk)
  /\ key \in KeyType /\ val \in ValType /\ rk[key] \in Int
  /\ \A n \in N : comp[n] > 0 <=> Rank(p, rk, n) < rk[key]

Inserted(p, q, h, N, rk, key, val) ==
  LET t == Len(q)
  IN  /\ q \in Seq(NodeType) /\ t = Len(p) + 1 /\ Tree(q, h, N \cup {t}, rk)
      /\ \A k \in 1 .. Len(p) : k \notin N => SameAt(p, q, k)
      /\ \A n \in N : \E k \in N \cup {t} : Has(q, k, p, n)
      /\ \E k \in N \cup {t} : q[k].key = key /\ q[k].val = val
      /\ \A k \in N \cup {t} : \/ q[k].key = key /\ q[k].val = val
                               \/ \E n \in N : Has(q, k, p, n)

\* The comparator leads to the place of the key in the order.
LEMMA LedFits ==
  ASSUME NEW p, NEW h, NEW N, NEW U, NEW rk, NEW comp, NEW d, NEW key,
         Shape(p, h, N, U), Sorted(p, N, U, rk), Led(p, N, U, comp, d, h), d \in N, rk[key] \in Int,
         \A n \in N : comp[n] > 0 <=> Rank(p, rk, n) < rk[key]
  PROVE  Fits(p, N, U, rk, d, Side(comp[d]), key)
<1>1. \A n \in N : Rank(p, rk, n) \in Int
  BY DEF Sorted
<1>2. \A n \in N : /\ Side(comp[n]) = "left" => rk[key] <= Rank(p, rk, n)
                   /\ Side(comp[n]) = "right" => Rank(p, rk, n) <= rk[key]
  BY <1>1 DEF Side
<1>3. \A m \in N : /\ d \in Under(U, p[m].left) => Side(comp[m]) = "left"
                   /\ d \in Under(U, p[m].right) => Side(comp[m]) = "right"
  BY DEF Led, Shape
<1> QED  BY <1>2, <1>3 DEF Fits

-----------------------------------------------------------------------------
\* The loop, as far as its turn j.
Loops(f, s, j) ==
  f = [k \in 0 .. j |-> IF k = 0 THEN s ELSE Rebalanced(f[k - 1])]

\* The turns of the loop, as many as wanted.
LEMMA LoopExists ==
  ASSUME NEW s, NEW j \in Nat
  PROVE  \E f : Loops(f, s, j)
<1> DEFINE Good == {k \in Nat : \E f : Loops(f, s, k)}
<1>1. 0 \in Good
  <2> DEFINE f == [k \in 0 .. 0 |-> s]
  <2>1. f = [k \in 0 .. 0 |-> IF k = 0 THEN s ELSE Rebalanced(f[k - 1])]
    OBVIOUS
  <2> QED  BY <2>1 DEF Loops
<1>2. ASSUME NEW k \in Nat, k \in Good PROVE k + 1 \in Good
  <2>1. PICK f : Loops(f, s, k)
    BY <1>2
  <2> DEFINE g == [i \in 0 .. k + 1 |-> IF i = k + 1 THEN Rebalanced(f[k]) ELSE f[i]]
  <2>2. ASSUME NEW i \in 0 .. k + 1
        PROVE  g[i] = IF i = 0 THEN s ELSE Rebalanced(g[i - 1])
    <3>1. CASE i = k + 1
      BY <3>1
    <3>2. CASE i \in 0 .. k
      <4>1. f[i] = IF i = 0 THEN s ELSE Rebalanced(f[i - 1])
        BY <2>1, <3>2 DEF Loops
      <4>2. g[i] = f[i] /\ (i # 0 => g[i - 1] = f[i - 1])
        BY <3>2
      <4> QED  BY <4>1, <4>2
    <3> QED  BY <2>2, <3>1, <3>2
  <2>3. g = [i \in 0 .. k + 1 |-> g[i]]
    OBVIOUS
  <2> HIDE DEF g
  <2>4. g = [i \in 0 .. k + 1 |-> IF i = 0 THEN s ELSE Rebalanced(g[i - 1])]
    BY <2>2, <2>3
  <2>5. \E f2 : Loops(f2, s, k + 1)
    BY <2>4 DEF Loops
  <2> QED  BY <2>5
<1> HIDE DEF Good
<1>3. \A k \in Nat : k \in Good
  BY <1>1, <1>2, Induction
<1> QED  BY <1>3 DEF Good

\* What the loop leaves.
Settled(s, z, N, rk) ==
  /\ RedBlack(z.pool, z.head, N, rk)
  /\ Frame(s.pool, z.pool, N) /\ SameContents(s.pool, z.pool, N)

\* After as many turns as there are nodes, nothing is left to do.
LEMMA LoopSettles ==
  ASSUME NEW s, NEW N, NEW rk, NEW f, Climbing(s, N, rk, 0), Loops(f, s, Len(s.pool))
  PROVE  Settled(s, f[Len(s.pool)], N, rk)
<1> DEFINE L == Len(s.pool)
           Fine(k) == /\ Climbing(f[k], N, rk, k)
                      /\ Frame(s.pool, f[k].pool, N) /\ SameContents(s.pool, f[k].pool, N)
           Good == {k \in Nat : k <= L => Fine(k)}
<1>1. s.pool \in Seq(NodeType) /\ L \in Nat
  BY PoolNodes DEF Climbing, Climbs, Balanced, Shape
<1>2. f[0] = s /\ \A k \in Nat : k < L => f[k + 1] = Rebalanced(f[k])
  BY <1>1 DEF Loops
<1> HIDE DEF L
<1>3. 0 \in Good
  BY <1>1, <1>2, FrameStays
<1>4. ASSUME NEW k \in Nat, k \in Good PROVE k + 1 \in Good
  <2> SUFFICES ASSUME k + 1 <= L PROVE Fine(k + 1)
    OBVIOUS
  <2>1. Fine(k)
    BY <1>1, <1>4
  <2>2. f[k + 1] = Rebalanced(f[k])
    BY <1>1, <1>2
  <2>3. Climbing(f[k], N, rk, k)
    BY <2>1
  <2>4. /\ Climbing(f[k + 1], N, rk, k + 1)
        /\ Frame(f[k].pool, f[k + 1].pool, N) /\ SameContents(f[k].pool, f[k + 1].pool, N)
    <3> HIDE DEF Fine, Good
    <3> QED  BY <2>2, <2>3, TurnStep
  <2>5. Frame(s.pool, f[k + 1].pool, N) /\ SameContents(s.pool, f[k + 1].pool, N)
    BY <2>1, <2>4, FrameSteps
  <2> QED  BY <2>4, <2>5
<1>5. Fine(L)
  <2> HIDE DEF Good
  <2>1. \A k \in Nat : k \in Good
    BY <1>3, <1>4, Induction
  <2> QED  BY <1>1, <2>1 DEF Good
<1> DEFINE z == f[L]
<1>6. PICK U, H : Climbs(z, N, rk, L, U, H)
  BY <1>5 DEF Climbing
<1>7. Balanced(z.pool, z.head, N, U, H, rk, z.tar) /\ Len(z.pool) = L
  BY <1>5, <1>6 DEF Climbs, Frame, L
<1> HIDE DEF z
<1>8. ~Active(z)
  <2>1. Shape(z.pool, z.head, N, U) /\ z.tar \in N
    BY <1>7 DEF Balanced
  <2>2. Cardinality(U[z.tar]) \in 1 .. Len(z.pool)
    BY <2>1, Smaller
  <2> QED  BY <1>1, <1>6, <1>7, <2>2 DEF Climbs
<1>9. NoReds(z.pool, N, Nil)
  BY <1>7, <1>8 DEF Balanced, NoReds, Active
<1>10. RedBlack(z.pool, z.head, N, rk)
  BY <1>7, <1>9 DEF Balanced, RedBlack
<1>11. Frame(s.pool, z.pool, N) /\ SameContents(s.pool, z.pool, N)
  BY <1>5 DEF z
<1> QED  BY <1>10, <1>11 DEF Settled, z, L

\* What rbtree_insert starts its loop with.
Hooked(p, h, key, val, comp) ==
  LET q == rbtree_node_alloc(p, key, val)
      n == Spot(p, h, comp)
  IN  [pool |-> Linked(q, n, Side(comp[n]), Len(q)), tar |-> Len(q), head |-> h]

\* rbtree_insert, in the words above.
LEMMA InsertIs ==
  ASSUME NEW p \in Seq(NodeType), NEW key \in KeyType, NEW val \in ValType, NEW h, NEW comp
  PROVE  LET q == rbtree_node_alloc(p, key, val)
         IN  /\ h = Nil => rbtree_insert(p, h, key, val, comp) =
                             [pool |-> [q EXCEPT ![Len(q)].red = FALSE], head |-> Len(q)]
             /\ h # Nil => \E f : /\ Loops(f, Hooked(p, h, key, val, comp), Len(q))
                                  /\ rbtree_insert(p, h, key, val, comp) =
                                       [pool |-> f[Len(q)].pool, head |-> f[Len(q)].head]
<1> DEFINE q == rbtree_node_alloc(p, key, val)
           s == Hooked(p, h, key, val, comp)
           f == CHOOSE g : Loops(g, s, Len(q))
<1>1. Len(q) \in Nat
  <2>1. Len(q) = Len(p) + 1 /\ Len(p) \in Nat
    BY Alloc, PoolNodes
  <2> QED  BY <2>1
<1>2. Loops(f, s, Len(q))
  <2> HIDE DEF s, q
  <2>1. \E g : Loops(g, s, Len(q))
    BY <1>1, LoopExists
  <2> QED  BY <2>1
<1>3. h = Nil => rbtree_insert(p, h, key, val, comp) =
                   [pool |-> [q EXCEPT ![Len(q)].red = FALSE], head |-> Len(q)]
  BY DEF rbtree_insert
<1>4. h # Nil => rbtree_insert(p, h, key, val, comp) = [pool |-> f[Len(q)].pool, head |-> f[Len(q)].head]
  BY DEF rbtree_insert, Loops, Hooked
<1> HIDE DEF f
<1> QED  BY <1>2, <1>3, <1>4

\* The first node of a tree.
LEMMA FirstInserted ==
  ASSUME NEW p, NEW N, NEW rk, NEW key, NEW val, NEW comp, Inserts(p, Nil, N, rk, key, val, comp)
  PROVE  LET r == rbtree_insert(p, Nil, key, val, comp)
         IN  Inserted(p, r.pool, r.head, N, rk, key, val) /\ r.head # Nil
<1> DEFINE q == rbtree_node_alloc(p, key, val)
           t == Len(q)
           r == [q EXCEPT ![t].red = FALSE]
<1>1. p \in Seq(NodeType) /\ key \in KeyType /\ val \in ValType /\ rk[key] \in Int /\ N = {}
  BY DEF Inserts, Tree
<1>2. /\ q \in Seq(NodeType) /\ t = Len(p) + 1 /\ Len(p) \in Nat
      /\ \A k \in 1 .. Len(p) : q[k] = p[k]
      /\ q[t] = [key |-> key, val |-> val, left |-> Nil, right |-> Nil, par |-> Nil, red |-> TRUE]
  BY <1>1, Alloc, PoolNodes
<1>3. rbtree_insert(p, Nil, key, val, comp) = [pool |-> r, head |-> t]
  BY <1>1, InsertIs
<1> HIDE DEF q
<1>4. ColouredAs(q, r, t, FALSE)
  <2>1. Len(q) \in 1 .. Len(q)
    BY <1>2
  <2> QED  BY <1>2, <2>1, ColouredIs
<1> HIDE DEF r
<1>5. /\ r \in Seq(NodeType) /\ Len(r) = t /\ t \in 1 .. Len(r) /\ t # Nil
      /\ r[t].key = key /\ r[t].val = val /\ r[t].left = Nil /\ r[t].right = Nil
      /\ r[t].par = Nil /\ r[t].red = FALSE
      /\ \A k \in 1 .. Len(p) : SameAt(p, r, k)
  BY <1>2, <1>4 DEF ColouredAs, SameAt, Nil
<1> HIDE DEF t
<1> DEFINE U == [n \in {t} |-> {t}]
           H == [n \in {t} |-> 1]
<1>6. Shape(r, t, {t}, U)
  BY <1>5 DEF Shape, Placed, Under, Hangs
<1>7. Sorted(r, {t}, U, rk)
  BY <1>1, <1>5 DEF Sorted, Under, Rank
<1>8. Heights(r, {t}, H)
  BY <1>5 DEF Heights, Deep, Weight
<1>9. NoReds(r, {t}, Nil)
  BY <1>5 DEF NoReds
<1>10. RedBlack(r, t, {t}, rk)
  BY <1>5, <1>6, <1>7, <1>8, <1>9 DEF RedBlack
<1>11. Tree(r, t, N \cup {t}, rk)
  BY <1>1, <1>5, <1>10 DEF Tree
<1>12. Inserted(p, r, t, N, rk, key, val)
  BY <1>1, <1>2, <1>5, <1>11 DEF Inserted
<1> QED  BY <1>3, <1>5, <1>12

\* What the loop starts with.
LEMMA HookedClimbs ==
  ASSUME NEW p, NEW h, NEW N, NEW rk, NEW key, NEW val, NEW comp,
         Inserts(p, h, N, rk, key, val, comp), h # Nil
  PROVE  LET s == Hooked(p, h, key, val, comp)
             n == Spot(p, h, comp)
         IN  /\ Climbing(s, N \cup {Len(s.pool)}, rk, 0) /\ n \in N
             /\ Grafted(p, s.pool, n, Side(comp[n]), key, val)
             /\ Len(s.pool) = Len(rbtree_node_alloc(p, key, val))
<1> DEFINE s == Hooked(p, h, key, val, comp)
           n == Spot(p, h, comp)
           q == s.pool
           side == Side(comp[n])
<1>1. /\ p \in Seq(NodeType) /\ Rooted(p) /\ N \subseteq 1 .. Len(p)
      /\ key \in KeyType /\ val \in ValType /\ rk[key] \in Int
      /\ \A m \in N : comp[m] > 0 <=> Rank(p, rk, m) < rk[key]
      /\ RedBlack(p, h, N, rk)
  BY DEF Inserts, Tree
<1>2. PICK U, H : /\ Shape(p, h, N, U) /\ Sorted(p, N, U, rk) /\ Heights(p, N, H)
                  /\ NoReds(p, N, Nil) /\ ~p[h].red
  BY <1>1 DEF RedBlack
<1>3. Led(p, N, U, comp, n, h) /\ n \in N
  BY <1>1, <1>2, SpotLed
<1> HIDE DEF n
<1>4. Fits(p, N, U, rk, n, side, key) /\ side \in {"left", "right"} /\ Child(p, n, side) = Nil
  <2>1. Fits(p, N, U, rk, n, side, key)
    BY <1>1, <1>2, <1>3, LedFits
  <2>2. Child(p, n, side) = Nil
    BY <1>3 DEF Led
  <2> QED  BY <2>1, <2>2 DEF Side
<1>5. /\ q = Linked(rbtree_node_alloc(p, key, val), n, side, Len(rbtree_node_alloc(p, key, val)))
      /\ s.tar = Len(rbtree_node_alloc(p, key, val)) /\ s.head = h
  BY DEF Hooked, n
<1> HIDE DEF s, side
<1>6. Grafted(p, q, n, side, key, val)
  BY <1>1, <1>3, <1>4, <1>5, GraftedIs
<1>7. Len(q) = Len(p) + 1 /\ s.tar = Len(q)
  <2>1. Len(rbtree_node_alloc(p, key, val)) = Len(p) + 1
    BY <1>1, Alloc
  <2> QED  BY <1>5, <1>6, <2>1 DEF Grafted
<1>8. Balanced(p, h, N, U, H, rk, h)
  <2>1. h \in N /\ Nil \notin N
    BY <1>1, <1>2 DEF Shape, Nil
  <2>2. NoReds(p, N, h)
    BY <1>2, <2>1 DEF NoReds
  <2> QED  BY <1>2, <2>1, <2>2 DEF Balanced
<1> HIDE DEF q
<1>9. PICK V, G : Balanced(q, h, N \cup {Len(q)}, V, G, rk, Len(q))
  BY <1>2, <1>3, <1>4, <1>6, <1>8, GraftBalanced
<1>10. Cardinality(V[Len(q)]) > 0
  <2>1. Shape(q, h, N \cup {Len(q)}, V) /\ Len(q) \in N \cup {Len(q)}
    BY <1>9 DEF Balanced
  <2>2. Cardinality(V[Len(q)]) \in 1 .. Len(q)
    BY <2>1, Smaller
  <2> QED  BY <2>2
<1>11. Climbs(s, N \cup {Len(q)}, rk, 0, V, G)
  BY <1>5, <1>7, <1>9, <1>10 DEF Climbs, q
<1>12. Climbing(s, N \cup {Len(q)}, rk, 0)
  BY <1>11 DEF Climbing
<1> QED  BY <1>3, <1>5, <1>6, <1>7, <1>12 DEF s, n, q, side

\* The whole of rbtree_insert: a red-black tree of the old contents and the new.
THEOREM InsertTree ==
  ASSUME NEW p, NEW h, NEW N, NEW rk, NEW key, NEW val, NEW comp,
         Inserts(p, h, N, rk, key, val, comp)
  PROVE  LET r == rbtree_insert(p, h, key, val, comp)
         IN  Inserted(p, r.pool, r.head, N, rk, key, val) /\ r.head # Nil
<1>1. CASE h = Nil
  BY <1>1, FirstInserted
<1>2. CASE h # Nil
  <2> DEFINE s == Hooked(p, h, key, val, comp)
             n == Spot(p, h, comp)
             q == s.pool
             t == Len(q)
             M == N \cup {t}
  <2>1. /\ Climbing(s, M, rk, 0) /\ n \in N /\ Grafted(p, q, n, Side(comp[n]), key, val)
        /\ t = Len(rbtree_node_alloc(p, key, val))
    BY <1>2, HookedClimbs
  <2>2. p \in Seq(NodeType) /\ key \in KeyType /\ val \in ValType /\ N \subseteq 1 .. Len(p) /\ Len(p) \in Nat
    BY PoolNodes DEF Inserts
  <2>3. PICK f : Loops(f, s, t) /\ rbtree_insert(p, h, key, val, comp) = [pool |-> f[t].pool, head |-> f[t].head]
    <3> HIDE DEF s
    <3> QED  BY <1>2, <2>1, <2>2, InsertIs DEF s
  <2> HIDE DEF s
  <2>4. Settled(s, f[t], M, rk)
    BY <2>1, <2>3, LoopSettles
  <2> DEFINE z == f[t]
  <2>5. RedBlack(z.pool, z.head, M, rk) /\ Frame(q, z.pool, M) /\ SameContents(q, z.pool, M)
    BY <2>4 DEF Settled
  <2> HIDE DEF z, q, n
  <2>6. /\ z.pool \in Seq(NodeType) /\ Len(z.pool) = t /\ t = Len(p) + 1
        /\ \A k \in N : Has(q, k, p, k)
        /\ q[t].key = key /\ q[t].val = val
    BY <2>1, <2>2, <2>5 DEF Frame, Grafted, Has
  <2>7. z.head # Nil
    <3>1. PICK U : Shape(z.pool, z.head, M, U)
      BY <2>5 DEF RedBlack
    <3> QED  BY <3>1, <2>6 DEF Shape, Nil
  <2>8. Tree(z.pool, z.head, M, rk)
    BY <2>5, <2>7 DEF Tree
  <2>9. ASSUME NEW k \in 1 .. Len(p), k \notin N PROVE SameAt(p, z.pool, k)
    <3>1. k \in 1 .. Len(q) /\ k \notin M /\ k # n
      BY <2>1, <2>2, <2>6, <2>9
    <3>2. SameAt(q, z.pool, k)
      BY <2>5, <3>1 DEF Frame
    <3>3. SameAt(p, q, k)
      BY <2>1, <3>1 DEF Grafted, SameAt
    <3> QED  BY <3>2, <3>3 DEF SameAt
  <2>10. ASSUME NEW m \in N PROVE \E k \in M : Has(z.pool, k, p, m)
    <3>1. PICK k \in M : Has(z.pool, k, q, m)
      BY <2>5 DEF SameContents
    <3> QED  BY <3>1, <2>6 DEF Has
  <2>11. \E k \in M : z.pool[k].key = key /\ z.pool[k].val = val
    <3>1. PICK k \in M : Has(z.pool, k, q, t)
      BY <2>5 DEF SameContents
    <3> QED  BY <3>1, <2>6 DEF Has
  <2>12. ASSUME NEW k \in M
         PROVE  \/ z.pool[k].key = key /\ z.pool[k].val = val
                \/ \E m \in N : Has(z.pool, k, p, m)
    <3>1. PICK m \in M : Has(z.pool, k, q, m)
      BY <2>5 DEF SameContents
    <3>2. CASE m = t
      BY <3>1, <3>2, <2>6 DEF Has
    <3>3. CASE m \in N
      BY <3>1, <3>3, <2>6 DEF Has
    <3> QED  BY <3>2, <3>3
  <2> HIDE DEF M
  <2>13. Inserted(p, z.pool, z.head, N, rk, key, val)
    <3> HIDE DEF t
    <3>1. M = N \cup {t}
      BY DEF M
    <3> QED  BY <2>6, <2>8, <2>9, <2>10, <2>11, <2>12, <3>1 DEF Inserted
  <2>14. rbtree_insert(p, h, key, val, comp) = [pool |-> z.pool, head |-> z.head]
    BY <2>3 DEF z
  <2> QED  BY <2>7, <2>13, <2>14
<1> QED  BY <1>1, <1>2

\* Where links go in a pool whose nodes are in trees.
LEMMA RootedLinks ==
  ASSUME NEW p \in Seq(NodeType), Rooted(p)
  PROVE  \A n \in 1 .. Len(p) : p[n].left \in 0 .. Len(p) /\ p[n].right \in 0 .. Len(p)
BY DEF Rooted, Nil

-----------------------------------------------------------------------------
\* The search.
IsFind(p, comp, f) ==
  f = [n \in 0 .. Len(p) |->
         IF n = Nil \/ comp[n] = 0 THEN n ELSE f[Child(p, n, Side(comp[n]))]]

Finds(p, comp, f) ==
  /\ \A h : rbtree_search(p, h, comp) = f[h]
  /\ f[Nil] = Nil
  /\ \A n \in 1 .. Len(p) : f[n] = IF comp[n] = 0 THEN n ELSE f[Child(p, n, Side(comp[n]))]

\* The way down that a search takes.
LEMMA SearchIs ==
  ASSUME NEW p \in Seq(NodeType), NEW comp, Rooted(p)
  PROVE  \E f : Finds(p, comp, f)
<1> DEFINE L == Len(p)
           V == Nat
           Step == [x \in (1 .. L) \X V \X V |->
                      IF comp[x[1]] = 0 THEN x[1]
                      ELSE IF Side(comp[x[1]]) = "left" THEN x[2] ELSE x[3]]
<1>1. L \in Nat
  BY PoolNodes
<1>2. \E f : IsFind(p, comp, f)
  <2>1. Step \in [(1 .. L) \X V \X V -> V]
    OBVIOUS
  <2>2. \A n \in 1 .. L : \A a, b \in V :
          Step[<<n, a, b>>] = IF comp[n] = 0 THEN n
                              ELSE IF Side(comp[n]) = "left" THEN a ELSE b
    OBVIOUS
  <2> HIDE DEF Step
  <2>3. \E f : RunsDown(f, p, V, 0, Step)
    <3>1. 0 \in V
      OBVIOUS
    <3> HIDE DEF V
    <3> QED  BY <2>1, <3>1, RecursionDown
  <2>4. PICK f \in [0 .. L -> V] :
          f[0] = 0 /\ \A n \in 1 .. L : f[n] = Step[<<n, f[p[n].left], f[p[n].right]>>]
    BY <2>3 DEF RunsDown
  <2>5. \A n \in 1 .. L : p[n].left \in 0 .. L /\ p[n].right \in 0 .. L
    BY RootedLinks
  <2>6. ASSUME NEW n \in 1 .. L
        PROVE  f[n] = IF comp[n] = 0 THEN n ELSE f[Child(p, n, Side(comp[n]))]
    <3>1. f[p[n].left] \in V /\ f[p[n].right] \in V
      BY <2>5
    <3>2. f[n] = IF comp[n] = 0 THEN n
                 ELSE IF Side(comp[n]) = "left" THEN f[p[n].left] ELSE f[p[n].right]
      <4>1. f[n] = Step[<<n, f[p[n].left], f[p[n].right]>>]
        BY <2>4
      <4> QED  BY <2>2, <3>1, <4>1
    <3> QED  BY <3>2 DEF Child
  <2>7. ASSUME NEW n \in 0 .. L
        PROVE  f[n] = IF n = Nil \/ comp[n] = 0 THEN n ELSE f[Child(p, n, Side(comp[n]))]
    <3>1. CASE n = 0
      BY <2>4, <3>1 DEF Nil
    <3>2. CASE n \in 1 .. L
      BY <1>1, <2>6, <3>2 DEF Nil
    <3> QED  BY <1>1, <3>1, <3>2
  <2>8. IsFind(p, comp, f)
    BY <2>7 DEF IsFind
  <2> QED  BY <2>8
<1> DEFINE f == CHOOSE f : IsFind(p, comp, f)
<1>3. IsFind(p, comp, f)
  BY <1>2
<1>4. \A h : rbtree_search(p, h, comp) = f[h]
  BY DEF rbtree_search, IsFind
<1> HIDE DEF f
<1>5. f[Nil] = Nil
  BY <1>1, <1>3 DEF IsFind, Nil
<1>6. \A n \in 1 .. L : f[n] = IF comp[n] = 0 THEN n ELSE f[Child(p, n, Side(comp[n]))]
  BY <1>1, <1>3 DEF IsFind, Nil
<1>7. Finds(p, comp, f)
  BY <1>4, <1>5, <1>6 DEF Finds
<1> QED  BY <1>7

\* The keys that match lie on the side the comparator names.
Guides(p, N, rk, comp) ==
  \A n \in N : /\ comp[n] \in Int
               /\ \A m \in N : comp[m] = 0 =>
                    /\ comp[n] > 0 => Rank(p, rk, n) < Rank(p, rk, m)
                    /\ comp[n] < 0 => Rank(p, rk, m) < Rank(p, rk, n)

Found(r, N, comp) ==
  IF r = Nil THEN \A n \in N : comp[n] # 0 ELSE r \in N /\ comp[r] = 0

\* rbtree_search, whatever the rotations did: it stops at a node whose key matches,
\* and comes back with nothing only if no node of the tree matches.
THEOREM SearchFinds ==
  ASSUME NEW p, NEW h, NEW N, NEW rk, NEW comp, p \in Seq(NodeType),
         Tree(p, h, N, rk), Rooted(p), Guides(p, N, rk, comp)
  PROVE  Found(rbtree_search(p, h, comp), N, comp)
<1>1. PICK f : Finds(p, comp, f)
  BY SearchIs
<1>2. CASE h = Nil
  BY <1>1, <1>2 DEF Finds, Found, Tree
<1>3. CASE h # Nil
  <2>1. PICK U : Shape(p, h, N, U) /\ Sorted(p, N, U, rk)
    BY <1>3 DEF Tree, RedBlack
  <2>2. N \subseteq 1 .. Len(p) /\ U[h] = N /\ h \in N /\ Nil \notin N
    BY <2>1 DEF Shape, Nil
  <2> DEFINE S == {n \in N : /\ f[n] = Nil => \A m \in U[n] : comp[m] # 0
                             /\ f[n] # Nil => f[n] \in N /\ comp[f[n]] = 0}
  <2>3. ASSUME NEW n \in N, \A c \in {p[n].left, p[n].right} : c # Nil => c \in S
        PROVE  n \in S
    <3>1. f[n] = IF comp[n] = 0 THEN n ELSE f[Child(p, n, Side(comp[n]))]
      BY <1>1, <2>2 DEF Finds
    <3>2. U[n] = {n} \cup Under(U, p[n].left) \cup Under(U, p[n].right) /\ U[n] \subseteq N
      BY <2>1 DEF Shape, Placed
    <3>3. CASE comp[n] = 0
      BY <2>2, <3>1, <3>3
    <3>4. CASE comp[n] # 0
      <4> DEFINE c == Child(p, n, Side(comp[n]))
      <4>1. f[n] = f[c] /\ c \in {p[n].left, p[n].right}
        BY <3>1, <3>4 DEF Child
      <4>2. \A m \in U[n] : comp[m] = 0 => m \in Under(U, c)
        <5> SUFFICES ASSUME NEW m \in U[n], comp[m] = 0 PROVE m \in Under(U, c)
          OBVIOUS
        <5>1. /\ comp[n] \in Int /\ m \in N /\ m # n
              /\ comp[n] > 0 => Rank(p, rk, n) < Rank(p, rk, m)
              /\ comp[n] < 0 => Rank(p, rk, m) < Rank(p, rk, n)
          BY <3>2, <3>4 DEF Guides
        <5>2. /\ m \in Under(U, p[n].left) => Rank(p, rk, m) <= Rank(p, rk, n)
              /\ m \in Under(U, p[n].right) => Rank(p, rk, n) <= Rank(p, rk, m)
              /\ Rank(p, rk, n) \in Int /\ Rank(p, rk, m) \in Int
          BY <2>1, <5>1 DEF Sorted
        <5>3. CASE comp[n] > 0
          <6>1. c = p[n].right
            BY <5>3 DEF Child, Side
          <6> QED  BY <3>2, <5>1, <5>2, <5>3, <6>1
        <5>4. CASE comp[n] < 0
          <6>1. c = p[n].left
            BY <5>1, <5>4 DEF Child, Side
          <6> QED  BY <3>2, <5>1, <5>2, <5>4, <6>1
        <5> QED  BY <3>4, <5>1, <5>3, <5>4
      <4> HIDE DEF c
      <4>3. CASE c = Nil
        <5>1. f[n] = Nil
          BY <1>1, <4>1, <4>3 DEF Finds
        <5> QED  BY <4>2, <4>3, <5>1 DEF Under
      <4>4. CASE c # Nil
        <5>1. c \in S
          BY <2>3, <4>1, <4>4
        <5> QED  BY <4>1, <4>2, <4>4, <5>1 DEF Under
      <4> QED  BY <4>3, <4>4
    <3> QED  BY <3>3, <3>4
  <2>4. N \subseteq S
    <3> HIDE DEF S
    <3> QED  BY <2>1, <2>3, TreeInduction
  <2>5. rbtree_search(p, h, comp) = f[h] /\ h \in S
    BY <1>1, <2>2, <2>4 DEF Finds
  <2> QED  BY <2>2, <2>5 DEF Found
<1> QED  BY <1>2, <1>3

\* The walk in order.
IsWalk(p, f) ==
  f = [n \in 0 .. Len(p) |->
         IF n = Nil THEN << >> ELSE f[p[n].left] \o <<n>> \o f[p[n].right]]

Walks(p, f) ==
  /\ \A h : InOrder(p, h) = f[h]
  /\ f[Nil] = << >>
  /\ \A n \in 1 .. Len(p) : f[n] = f[p[n].left] \o <<n>> \o f[p[n].right]

\* The walk in order.
LEMMA InOrderIs ==
  ASSUME NEW p \in Seq(NodeType), Rooted(p)
  PROVE  \E f : Walks(p, f)
<1> DEFINE L == Len(p)
           V == Seq(Nat)
           Step == [x \in (1 .. L) \X V \X V |-> x[2] \o <<x[1]>> \o x[3]]
<1>1. L \in Nat
  BY PoolNodes
<1>2. \E f : IsWalk(p, f)
  <2>1. Step \in [(1 .. L) \X V \X V -> V]
    <3>1. ASSUME NEW n \in 1 .. L, NEW a \in V, NEW b \in V PROVE a \o <<n>> \o b \in V
      <4>1. <<n>> \in V
        BY <1>1
      <4>2. a \o <<n>> \in V
        BY <4>1, ConcatProperties
      <4> QED  BY <4>2, ConcatProperties
    <3> HIDE DEF V
    <3> QED  BY <3>1
  <2>2. \A n \in 1 .. L : \A a, b \in V : Step[<<n, a, b>>] = a \o <<n>> \o b
    OBVIOUS
  <2> HIDE DEF Step
  <2>3. \E f : RunsDown(f, p, V, << >>, Step)
    <3>1. << >> \in V
      OBVIOUS
    <3> HIDE DEF V
    <3> QED  BY <2>1, <3>1, RecursionDown
  <2> HIDE DEF V
  <2>4. PICK f \in [0 .. L -> V] :
          f[0] = << >> /\ \A n \in 1 .. L : f[n] = Step[<<n, f[p[n].left], f[p[n].right]>>]
    BY <2>3 DEF RunsDown
  <2>5. \A n \in 1 .. L : p[n].left \in 0 .. L /\ p[n].right \in 0 .. L
    BY RootedLinks
  <2>6. ASSUME NEW n \in 1 .. L
        PROVE  f[n] = f[p[n].left] \o <<n>> \o f[p[n].right]
    <3>1. f[p[n].left] \in V /\ f[p[n].right] \in V
      BY <2>5
    <3> QED  BY <2>2, <2>4, <3>1
  <2>7. ASSUME NEW n \in 0 .. L
        PROVE  f[n] = IF n = Nil THEN << >> ELSE f[p[n].left] \o <<n>> \o f[p[n].right]
    <3>1. CASE n = 0
      BY <2>4, <3>1 DEF Nil
    <3>2. CASE n \in 1 .. L
      BY <1>1, <2>6, <3>2 DEF Nil
    <3> QED  BY <1>1, <3>1, <3>2
  <2>8. IsWalk(p, f)
    BY <2>7 DEF IsWalk
  <2> QED  BY <2>8
<1> DEFINE f == CHOOSE f : IsWalk(p, f)
<1>3. IsWalk(p, f)
  BY <1>2
<1>4. \A h : InOrder(p, h) = f[h]
  BY DEF InOrder, IsWalk
<1> HIDE DEF f
<1>5. f[Nil] = << >>
  BY <1>1, <1>3 DEF IsWalk, Nil
<1>6. \A n \in 1 .. L : f[n] = f[p[n].left] \o <<n>> \o f[p[n].right]
  <2> SUFFICES ASSUME NEW n \in 1 .. L PROVE f[n] = f[p[n].left] \o <<n>> \o f[p[n].right]
    OBVIOUS
  <2>1. n \in 0 .. L /\ n # Nil
    BY <1>1 DEF Nil
  <2>2. f[n] = IF n = Nil THEN << >> ELSE f[p[n].left] \o <<n>> \o f[p[n].right]
    BY <1>3, <2>1, Zenon DEF IsWalk
  <2> QED  BY <2>1, <2>2
<1>7. Walks(p, f)
  BY <1>4, <1>5, <1>6 DEF Walks
<1> QED  BY <1>7

\* A list of nodes of the set S, in the order of their ranks.
Lists(w, S, p, rk) ==
  /\ w \in Seq(Nat) /\ ToSet(w) = S
  /\ \A i, j \in 1 .. Len(w) : i < j => Rank(p, rk, w[i]) <= Rank(p, rk, w[j])

\* Two lists in order, and a node between.
LEMMA ListsJoined ==
  ASSUME NEW p, NEW rk, NEW a, NEW b, NEW A, NEW B, NEW n \in Nat,
         Lists(a, A, p, rk), Lists(b, B, p, rk),
         Rank(p, rk, n) \in Int,
         \A x \in A : Rank(p, rk, x) \in Int /\ Rank(p, rk, x) <= Rank(p, rk, n),
         \A x \in B : Rank(p, rk, x) \in Int /\ Rank(p, rk, n) <= Rank(p, rk, x)
  PROVE  Lists(a \o <<n>> \o b, A \cup {n} \cup B, p, rk)
<1> DEFINE w == a \o <<n>> \o b
<1>1. /\ a \in Seq(Nat) /\ b \in Seq(Nat) /\ <<n>> \in Seq(Nat) /\ ToSet(a) = A /\ ToSet(b) = B
      /\ Len(a) \in Nat /\ Len(b) \in Nat
      /\ \A i \in 1 .. Len(a) : a[i] \in A
      /\ \A i \in 1 .. Len(b) : b[i] \in B
  BY MembersOfList DEF Lists
<1>2. ToSet(<<n>>) = {n}
  BY DEF ToSet
<1>3. w \in Seq(Nat) /\ ToSet(w) = A \cup {n} \cup B
  <2> DEFINE e == <<n>>
             u == a \o e
  <2>1. e \in Seq(Nat) /\ ToSet(e) = {n}
    BY <1>1, <1>2
  <2>2. w = u \o b
    OBVIOUS
  <2> HIDE DEF w, e
  <2>3. u \in Seq(Nat) /\ ToSet(u) = A \cup {n}
    BY <1>1, <2>1, JoinedLists
  <2> HIDE DEF u
  <2>4. u \o b \in Seq(Nat) /\ ToSet(u \o b) = ToSet(u) \cup ToSet(b)
    BY <1>1, <2>3, JoinedLists
  <2> QED  BY <1>1, <2>2, <2>3, <2>4
<1>4. /\ Len(w) = Len(a) + 1 + Len(b)
      /\ \A i \in 1 .. Len(a) : w[i] = a[i]
      /\ w[Len(a) + 1] = n
      /\ \A i \in 1 .. Len(b) : w[Len(a) + 1 + i] = b[i]
  <2> DEFINE u == a \o <<n>>
  <2>1. /\ u \in Seq(Nat) /\ Len(u) = Len(a) + 1
        /\ \A i \in 1 .. Len(a) : u[i] = a[i]
        /\ u[Len(a) + 1] = n
    <3>1. Len(<<n>>) = 1 /\ <<n>>[1] = n
      OBVIOUS
    <3>2. u \in Seq(Nat) /\ Len(u) = Len(a) + Len(<<n>>)
          /\ \A i \in 1 .. Len(a) + Len(<<n>>) : u[i] = IF i <= Len(a) THEN a[i] ELSE <<n>>[i - Len(a)]
      BY <1>1, ConcatProperties
    <3>3. Len(a) + 1 - Len(a) = 1 /\ ~(Len(a) + 1 <= Len(a)) /\ Len(a) + 1 \in 1 .. Len(a) + 1
          /\ \A i \in 1 .. Len(a) : i \in 1 .. Len(a) + 1 /\ i <= Len(a)
      BY <1>1
    <3> HIDE DEF u
    <3> QED  BY <3>1, <3>2, <3>3
  <2> HIDE DEF u
  <2>2. /\ Len(u \o b) = Len(u) + Len(b)
        /\ \A i \in 1 .. Len(u) + Len(b) : (u \o b)[i] = IF i <= Len(u) THEN u[i] ELSE b[i - Len(u)]
    BY <1>1, <2>1, ConcatProperties
  <2>3. /\ \A i \in 1 .. Len(u) : i \in 1 .. Len(u) + Len(b) /\ i <= Len(u)
        /\ \A i \in 1 .. Len(b) : /\ Len(a) + 1 + i \in 1 .. Len(u) + Len(b)
                                  /\ ~(Len(a) + 1 + i <= Len(u)) /\ Len(a) + 1 + i - Len(u) = i
    BY <1>1, <2>1
  <2>4. w = u \o b
    BY DEF u
  <2> HIDE DEF w
  <2>5. \A i \in 1 .. Len(u) : w[i] = u[i]
    BY <2>2, <2>3, <2>4
  <2>6. \A i \in 1 .. Len(b) : w[Len(a) + 1 + i] = b[i]
    BY <2>2, <2>3, <2>4
  <2>7. (\A i \in 1 .. Len(a) : i \in 1 .. Len(u)) /\ Len(a) + 1 \in 1 .. Len(u)
    BY <1>1, <2>1
  <2> QED  BY <2>1, <2>2, <2>4, <2>5, <2>6, <2>7
<1> HIDE DEF w
<1> DEFINE R(x) == Rank(p, rk, x)
<1> SUFFICES ASSUME NEW i \in 1 .. Len(w), NEW j \in 1 .. Len(w), i < j PROVE R(w[i]) <= R(w[j])
  BY <1>3 DEF Lists, w
<1>12. Len(a) \in Nat /\ Len(b) \in Nat /\ Len(w) = Len(a) + 1 + Len(b)
  BY <1>1, <1>4
<1>5. \A k, l \in 1 .. Len(a) : k < l => R(a[k]) <= R(a[l])
  BY DEF Lists
<1>6. \A k, l \in 1 .. Len(b) : k < l => R(b[k]) <= R(b[l])
  BY DEF Lists
<1>7. /\ R(n) \in Int /\ \A x \in A : R(x) \in Int /\ R(x) <= R(n)
      /\ \A x \in B : R(x) \in Int /\ R(n) <= R(x)
  OBVIOUS
<1> HIDE DEF R
<1>8. ASSUME NEW k \in 1 .. Len(w)
      PROVE  \/ k \in 1 .. Len(a) /\ w[k] = a[k] /\ w[k] \in A
             \/ k = Len(a) + 1 /\ w[k] = n
             \/ k - Len(a) - 1 \in 1 .. Len(b) /\ w[k] = b[k - Len(a) - 1] /\ w[k] \in B
  <2>1. k \in 1 .. Len(a) \/ k = Len(a) + 1 \/ k - Len(a) - 1 \in 1 .. Len(b)
    BY <1>12
  <2>2. CASE k - Len(a) - 1 \in 1 .. Len(b)
    <3>1. k = Len(a) + 1 + (k - Len(a) - 1)
      BY <1>1
    <3> QED  BY <1>1, <1>4, <2>2, <3>1
  <2> QED  BY <1>1, <1>4, <2>1, <2>2
<1>9. CASE i \in 1 .. Len(a) /\ w[i] = a[i] /\ w[i] \in A
  <2>1. CASE j \in 1 .. Len(a) /\ w[j] = a[j] /\ w[j] \in A
    BY <1>5, <1>9, <2>1
  <2>2. CASE ~(j \in 1 .. Len(a))
    <3>1. w[j] = n \/ w[j] \in B
      BY <1>8, <2>2
    <3>2. R(w[i]) \in Int /\ R(w[i]) <= R(n)
      BY <1>7, <1>9
    <3>3. R(w[j]) \in Int /\ R(n) <= R(w[j])
      BY <1>7, <3>1
    <3> QED  BY <1>7, <3>2, <3>3
  <2> QED  BY <1>8, <2>1, <2>2
<1>10. CASE i = Len(a) + 1 /\ w[i] = n
  <2>1. ~(j \in 1 .. Len(a)) /\ j # Len(a) + 1
    BY <1>10, <1>12
  <2>2. w[j] \in B
    BY <1>8, <2>1
  <2> QED  BY <1>7, <1>10, <2>2
<1>11. CASE i - Len(a) - 1 \in 1 .. Len(b) /\ w[i] = b[i - Len(a) - 1] /\ w[i] \in B
  <2>0. ~(j \in 1 .. Len(a)) /\ j # Len(a) + 1
    BY <1>11, <1>12
  <2>1. j - Len(a) - 1 \in 1 .. Len(b) /\ w[j] = b[j - Len(a) - 1]
    BY <1>8, <2>0
  <2>2. i - Len(a) - 1 < j - Len(a) - 1
    BY <1>12
  <2> QED  BY <1>6, <1>11, <2>1, <2>2
<1> QED  BY <1>8, <1>9, <1>10, <1>11

\* The walk lists the nodes of the tree, in order.
LEMMA InOrderLists ==
  ASSUME NEW p \in Seq(NodeType), NEW h, NEW N, NEW rk, Tree(p, h, N, rk), Rooted(p)
  PROVE  Lists(InOrder(p, h), N, p, rk)
<1>1. PICK f : Walks(p, f)
  BY InOrderIs
<1>0. Lists(<< >>, {}, p, rk)
  <2>1. << >> \in Seq(Nat) /\ ToSet(<< >>) = {} /\ Len(<< >>) = 0
    BY EmptyList
  <2> QED  BY <2>1 DEF Lists
<1>2. CASE h = Nil
  BY <1>0, <1>1, <1>2 DEF Walks, Tree
<1>3. CASE h # Nil
  <2>1. PICK U : Shape(p, h, N, U) /\ Sorted(p, N, U, rk)
    BY <1>3 DEF Tree, RedBlack
  <2>2. N \subseteq 1 .. Len(p) /\ U[h] = N /\ h \in N /\ Nil \notin N
    BY <2>1 DEF Shape, Nil
  <2> DEFINE S == {n \in N : Lists(f[n], U[n], p, rk)}
  <2>3. ASSUME NEW n \in N, \A c \in {p[n].left, p[n].right} : c # Nil => c \in S
        PROVE  n \in S
    <3> DEFINE l == p[n].left
               r == p[n].right
    <3>1. f[n] = f[l] \o <<n>> \o f[r]
      BY <1>1, <2>2 DEF Walks
    <3>2. U[n] = Under(U, l) \cup {n} \cup Under(U, r) /\ U[n] \subseteq N
      BY <2>1 DEF Shape, Placed
    <3>3. ASSUME NEW c \in {l, r} PROVE Lists(f[c], Under(U, c), p, rk)
      <4>1. CASE c = Nil
        BY <1>0, <1>1, <4>1 DEF Walks, Under
      <4>2. CASE c # Nil
        BY <2>3, <3>3, <4>2 DEF Under
      <4> QED  BY <4>1, <4>2
    <3>4. /\ Rank(p, rk, n) \in Int
          /\ \A b \in Under(U, l) : Rank(p, rk, b) \in Int /\ Rank(p, rk, b) <= Rank(p, rk, n)
          /\ \A b \in Under(U, r) : Rank(p, rk, b) \in Int /\ Rank(p, rk, n) <= Rank(p, rk, b)
      BY <2>1, RanksUnder
    <3> HIDE DEF l, r
    <3>5. n \in Nat
      BY <2>2
    <3>6. Lists(f[n], U[n], p, rk)
      BY <3>1, <3>2, <3>3, <3>4, <3>5, ListsJoined
    <3> QED  BY <3>6
  <2>4. N \subseteq S
    <3> HIDE DEF S
    <3> QED  BY <2>1, <2>3, TreeInduction
  <2>5. Lists(f[h], U[h], p, rk)
    BY <2>2, <2>4
  <2> QED  BY <1>1, <2>2, <2>5 DEF Walks
<1> QED  BY <1>2, <1>3

IsUp(p, f) ==
  f = [n \in 0 .. Len(p) |-> IF n = Nil THEN 0 ELSE f[p[n].par] + (IF p[n].red THEN 0 ELSE 1)]

\* The black nodes from a node up.
LEMMA BlacksAboveIs ==
  ASSUME NEW p \in Seq(NodeType), Hung(p)
  PROVE  /\ BlacksAbove(p)[Nil] = 0
         /\ \A n \in 1 .. Len(p) : BlacksAbove(p)[n] = BlacksAbove(p)[p[n].par] + Weight(p, n)
<1> DEFINE L == Len(p)
           left == [n \in 1 .. L |-> p[n].par]
           right == [n \in 1 .. L |-> 0]
           Step == [x \in (1 .. L) \X Nat \X Nat |-> x[2] + Weight(p, x[1])]
<1>1. L \in Nat
  BY PoolNodes
<1>2. PICK R \in [0 .. L -> 0 .. L] : \A n \in 1 .. L :
        p[n].par = Nil \/ (p[n].par \in 1 .. L /\ R[p[n].par] < R[n])
  BY DEF Hung
<1>3. \E f : IsUp(p, f)
  <2>1. Step \in [(1 .. L) \X Nat \X Nat -> Nat]
    BY DEF Weight
  <2>2. \A n \in 1 .. L : \A a, b \in Nat : Step[<<n, a, b>>] = a + Weight(p, n)
    OBVIOUS
  <2>3. \A n \in 1 .. L : left[n] = p[n].par /\ right[n] = 0
    OBVIOUS
  <2> HIDE DEF Step, left, right, L
  <2>4. R \in [0 .. L -> Nat]
    BY <1>1, <1>2
  <2>5. Founded(L, left, right, R, L)
    <3> SUFFICES ASSUME NEW n \in 1 .. L
                 PROVE  /\ left[n] \in 0 .. L /\ right[n] \in 0 .. L /\ R[n] <= L
                        /\ left[n] = 0 \/ R[left[n]] < R[n]
                        /\ right[n] = 0 \/ R[right[n]] < R[n]
      BY DEF Founded
    <3>1. R[n] \in 0 .. L
      BY <1>1, <1>2
    <3>2. left[n] = 0 \/ (left[n] \in 1 .. L /\ R[left[n]] < R[n])
      BY <1>2, <2>3 DEF Nil
    <3>3. R[n] <= L /\ 0 \in 0 .. L /\ \A c \in 1 .. L : c \in 0 .. L
      BY <1>1, <3>1
    <3> QED  BY <2>3, <3>2, <3>3
  <2>6. Computed(L, left, right, Nat, 0, Step)
    <3>1. 0 \in Nat
      OBVIOUS
    <3> QED  BY <1>1, <2>1, <2>4, <2>5, <3>1, Recursion
  <2>7. PICK f : Computes(f, L, left, right, Nat, 0, Step)
    BY <2>6 DEF Computed
  <2>8. ASSUME NEW n \in 1 .. L PROVE f[n] = f[p[n].par] + Weight(p, n)
    <3>1. f[n] = Step[<<n, f[p[n].par], f[0]>>]
      BY <2>3, <2>7 DEF Computes
    <3>2. p[n].par \in 0 .. L /\ 0 \in 0 .. L
      <4>1. p[n].par = 0 \/ p[n].par \in 1 .. L
        BY <1>2 DEF Nil
      <4>2. 0 \in 0 .. L /\ \A c \in 1 .. L : c \in 0 .. L
        BY <1>1
      <4> QED  BY <4>1, <4>2
    <3>3. f[p[n].par] \in Nat /\ f[0] \in Nat
      BY <2>7, <3>2 DEF Computes
    <3> QED  BY <2>2, <3>1, <3>3
  <2>9. f \in [0 .. L -> Nat] /\ f[0] = 0
    BY <2>7 DEF Computes
  <2>10. ASSUME NEW n \in 0 .. L
         PROVE  f[n] = IF n = Nil THEN 0 ELSE f[p[n].par] + (IF p[n].red THEN 0 ELSE 1)
    <3>1. CASE n = 0
      BY <2>9, <3>1 DEF Nil
    <3>2. CASE n \in 1 .. L
      BY <1>1, <2>8, <3>2 DEF Nil, Weight
    <3> QED  BY <1>1, <3>1, <3>2
  <2>11. IsUp(p, f)
    BY <2>9, <2>10 DEF IsUp, L
  <2> QED  BY <2>11
<1> DEFINE f == CHOOSE f : IsUp(p, f)
<1>4. IsUp(p, f)
  BY <1>3
<1>5. BlacksAbove(p) = f
  BY DEF BlacksAbove, IsUp
<1> HIDE DEF f
<1>6. f[Nil] = 0
  BY <1>1, <1>4 DEF IsUp, Nil
<1>7. ASSUME NEW n \in 1 .. L PROVE f[n] = f[p[n].par] + Weight(p, n)
  BY <1>1, <1>4 DEF IsUp, Nil, Weight
<1> QED  BY <1>5, <1>6, <1>7

\* What is counted upwards complements what is counted downwards.
LEMMA BlacksComplement ==
  ASSUME NEW p \in Seq(NodeType), NEW h, NEW N, NEW U, NEW H,
         Shape(p, h, N, U), Heights(p, N, H), Hung(p)
  PROVE  \A n \in N : BlacksAbove(p)[n] = H[h] - H[n] + Weight(p, n)
<1> DEFINE F(n) == H[h] - H[n] + Weight(p, n)
           B == BlacksAbove(p)
           S == {n \in N : B[n] = F(n) => \A m \in U[n] : B[m] = F(m)}
<1>1. B[Nil] = 0 /\ \A n \in 1 .. Len(p) : B[n] = B[p[n].par] + Weight(p, n)
  BY BlacksAboveIs
<1> HIDE DEF B
<1>2. /\ N \subseteq 1 .. Len(p) /\ U[h] = N /\ h \in N /\ p[h].par = Nil
      /\ \A n \in N : H[n] \in Nat /\ Weight(p, n) \in Nat
  BY DEF Shape, Heights, Weight
<1>3. ASSUME NEW n \in N, \A c \in {p[n].left, p[n].right} : c # Nil => c \in S
      PROVE  n \in S
  <2> SUFFICES ASSUME B[n] = F(n), NEW m \in U[n] PROVE B[m] = F(m)
    OBVIOUS
  <2>1. CASE m = n
    BY <2>1
  <2>2. CASE m # n
    <3>1. PICK c \in {p[n].left, p[n].right} : c # Nil /\ m \in U[c]
      BY <2>2 DEF Shape, Placed, Under
    <3>2. c \in N /\ p[c].par = n
      BY <3>1 DEF Shape, Placed
    <3>3. H[n] = H[c] + Weight(p, n)
      BY <3>1 DEF Heights, Deep
    <3>4. B[c] = B[n] + Weight(p, c)
      BY <1>1, <1>2, <3>2
    <3>5. B[c] = F(c)
      BY <1>2, <3>2, <3>3, <3>4
    <3> QED  BY <1>3, <3>1, <3>5
  <2> QED  BY <2>1, <2>2
<1>4. N \subseteq S
  <2> HIDE DEF S
  <2> QED  BY <1>3, TreeInduction
<1>5. B[h] = F(h)
  BY <1>1, <1>2
<1> QED  BY <1>2, <1>4, <1>5 DEF B

\* What the checks of every tree amount to.
LEMMA TreeIsRedBlack ==
  ASSUME NEW p \in Seq(NodeType), NEW h, NEW N, NEW rk, Tree(p, h, N, rk), Rooted(p), Hung(p)
  PROVE  IsRedBlack(p, h) /\ ToSet(InOrder(p, h)) = N
<1>1. ToSet(InOrder(p, h)) = N
  BY InOrderLists DEF Lists
<1>2. CASE h = Nil
  BY <1>1, <1>2 DEF Tree, IsRedBlack
<1>3. CASE h # Nil
  <2>1. PICK U, H : /\ Shape(p, h, N, U) /\ Sorted(p, N, U, rk) /\ Heights(p, N, H)
                    /\ NoReds(p, N, Nil) /\ ~p[h].red
    BY <1>3 DEF Tree, RedBlack
  <2>2. p[h].par = Nil /\ Nil \notin N
    BY <2>1 DEF Shape, Nil
  <2>3. ASSUME NEW n \in N, NEW c \in {p[n].left, p[n].right} \ {Nil}
        PROVE  p[c].par = n /\ ~(p[n].red /\ p[c].red)
    <3>1. p[c].par = n /\ c \in N /\ c # Nil
      BY <2>1 DEF Shape, Placed
    <3> QED  BY <2>1, <2>2, <3>1 DEF NoReds
  <2>4. ASSUME NEW n \in N, Nil \in {p[n].left, p[n].right} PROVE BlacksAbove(p)[n] = H[h]
    <3>0. Shape(p, h, N, U) /\ Heights(p, N, H)
      BY <2>1
    <3>1. \A k \in N : BlacksAbove(p)[k] = H[h] - H[k] + Weight(p, k)
      BY <3>0, BlacksComplement
    <3>2. H[n] = Weight(p, n) /\ H[n] \in Nat /\ H[h] \in Nat
      BY <2>1, <2>4 DEF Heights, Deep, Weight, Shape
    <3> QED  BY <2>4, <3>1, <3>2
  <2> DEFINE ends == {n \in N : Nil \in {p[n].left, p[n].right}}
  <2>5. \A n, m \in ends : BlacksAbove(p)[n] = BlacksAbove(p)[m]
    BY <2>4
  <2> QED  BY <1>1, <2>1, <2>2, <2>3, <2>5 DEF IsRedBlack
<1> QED  BY <1>1, <1>2, <1>3

\* The keys of each table, and their order.
KeyOf(t) == IF t = "dev" THEN AddrRange ELSE Nat
RankOf(t) == [k \in KeyType |-> IF t = "dev" THEN k.start ELSE k]

\* The comparators order the keys of their tables.
LEMMA CompareOrders ==
  ASSUME NEW t \in Table, NEW a \in KeyOf(t), NEW b \in KeyOf(t)
  PROVE  /\ a \in KeyType /\ RankOf(t)[a] \in Int /\ RankOf(t)[b] \in Int
         /\ Compare(t, a, b) > 0 <=> RankOf(t)[a] < RankOf(t)[b]
         /\ RankOf(t)[a] <= RankOf(t)[b] => Compare(t, a, b) >= 0
<1>1. a \in KeyType /\ b \in KeyType
  BY DEF KeyOf, KeyType
<1>2. CASE t = "dev"
  <2>1. /\ a.start \in Nat /\ a.end \in Nat /\ b.start \in Nat /\ b.end \in Nat
        /\ a.start < a.end /\ b.start < b.end
        /\ a = b \/ a.end <= b.start \/ b.end <= a.start
    BY <1>2, TablesAssumption DEF KeyOf
  <2>2. RankOf(t)[a] = a.start /\ RankOf(t)[b] = b.start
    BY <1>1, <1>2 DEF RankOf
  <2>3. Compare(t, a, b) = IF a = b THEN 0 ELSE IF a.end <= b.start THEN 1 ELSE -1
    BY <1>2, <2>1 DEF Compare, addr_comp
  <2> QED  BY <1>1, <2>1, <2>2, <2>3
<1>3. CASE t # "dev"
  <2>1. a \in Nat /\ b \in Nat
    BY <1>3 DEF KeyOf
  <2>2. RankOf(t)[a] = a /\ RankOf(t)[b] = b
    BY <1>1, <1>3 DEF RankOf
  <2>3. Compare(t, a, b) = b - a
    BY <1>3 DEF Compare, handler_comp
  <2> QED  BY <1>1, <2>1, <2>2, <2>3
<1> QED  BY <1>2, <1>3

\* The three tables on one pool: NN[t] are the nodes of table t.
Forest(p, hd, NN) ==
  /\ p \in Seq(NodeType) /\ hd \in [Table -> Nat] /\ NN \in [Table -> SUBSET (1 .. Len(p))]
  /\ \A t \in Table : Tree(p, hd[t], NN[t], RankOf(t))
  /\ \A t \in Table : \A n \in NN[t] : p[n].key \in KeyOf(t)
  /\ \A n \in 1 .. Len(p) : \E t \in Table : n \in NN[t]
  /\ \A t, u \in Table : t # u => NN[t] \cap NN[u] = {}

\* A measure that falls on the way down one tree, and one on the way up.
LEMMA ForestShapes ==
  ASSUME NEW p, NEW hd, NEW NN, Forest(p, hd, NN)
  PROVE  \E UU : \A t \in Table : NN[t] = {} \/ Shape(p, hd[t], NN[t], UU[t])
<1> DEFINE UU == [t \in Table |-> CHOOSE U : Shape(p, hd[t], NN[t], U)]
<1>1. ASSUME NEW t \in Table, NN[t] # {} PROVE \E U : Shape(p, hd[t], NN[t], U)
  BY <1>1 DEF Forest, Tree, RedBlack
<1>2. \A t \in Table : NN[t] = {} \/ Shape(p, hd[t], NN[t], UU[t])
  <2> SUFFICES ASSUME NEW t \in Table, NN[t] # {} PROVE Shape(p, hd[t], NN[t], UU[t])
    OBVIOUS
  <2>1. UU[t] = CHOOSE U : Shape(p, hd[t], NN[t], U)
    OBVIOUS
  <2> HIDE DEF UU
  <2> QED  BY <1>1, <2>1
<1> HIDE DEF UU
<1> QED  BY <1>2

\* In the three trees together no way down and no way up comes back.
LEMMA ForestRooted ==
  ASSUME NEW p, NEW hd, NEW NN, Forest(p, hd, NN)
  PROVE  Rooted(p) /\ Hung(p)
<1>1. PICK UU : \A t \in Table : NN[t] = {} \/ Shape(p, hd[t], NN[t], UU[t])
  BY ForestShapes
<1> DEFINE L == Len(p)
           T(n) == CHOOSE t \in Table : n \in NN[t]
           C(n) == Cardinality(UU[T(n)][n])
           R == [n \in 0 .. L |-> IF n = 0 THEN 0 ELSE C(n)]
           Q == [n \in 0 .. L |-> IF n = 0 THEN 0 ELSE L - C(n)]
<1>2. p \in Seq(NodeType) /\ L \in Nat /\ DOMAIN p = 1 .. L
  BY PoolNodes DEF Forest
<1>3. ASSUME NEW n \in 1 .. L
      PROVE  T(n) \in Table /\ n \in NN[T(n)] /\ Shape(p, hd[T(n)], NN[T(n)], UU[T(n)])
  <2>1. T(n) \in Table /\ n \in NN[T(n)]
    <3>1. \E t \in Table : n \in NN[t]
      BY DEF Forest
    <3> QED  BY <3>1
  <2> HIDE DEF T
  <2> QED  BY <1>1, <2>1
<1>4. ASSUME NEW t \in Table, NEW n \in NN[t] PROVE T(n) = t
  <2>1. n \in 1 .. L
    BY DEF Forest
  <2>2. T(n) \in Table /\ n \in NN[T(n)]
    BY <1>3, <2>1
  <2> HIDE DEF T
  <2> QED  BY <2>2 DEF Forest
<1> HIDE DEF T
<1>5. ASSUME NEW n \in 1 .. L PROVE C(n) \in 1 .. L
  BY <1>3, Smaller
<1>6. ASSUME NEW n \in 1 .. L, NEW c \in {p[n].left, p[n].right}, c # Nil
      PROVE  c \in 1 .. L /\ C(c) < C(n) /\ p[c].par = n
  <2> DEFINE N == NN[T(n)]
             U == UU[T(n)]
  <2>1. n \in N /\ Shape(p, hd[T(n)], N, U)
    BY <1>3
  <2> HIDE DEF N, U
  <2>2. c \in N /\ Cardinality(U[c]) < Cardinality(U[n])
    BY <1>6, <2>1, Smaller
  <2>3. N \subseteq 1 .. L
    BY <2>1 DEF Shape
  <2>4. T(c) = T(n)
    BY <1>3, <1>4, <2>2 DEF N
  <2>5. p[c].par = n
    BY <1>6, <2>1 DEF Shape, Placed
  <2> QED  BY <2>2, <2>3, <2>4, <2>5 DEF U
<1>7. ASSUME NEW n \in 1 .. L, p[n].par # Nil
      PROVE  p[n].par \in 1 .. L /\ C(n) < C(p[n].par)
  <2>1. n \in NN[T(n)] /\ Shape(p, hd[T(n)], NN[T(n)], UU[T(n)])
    BY <1>3
  <2>2. n # hd[T(n)]
    BY <1>7, <2>1 DEF Shape
  <2>3. p[n].par \in 1 .. L /\ (n = p[p[n].par].left \/ n = p[p[n].par].right)
    BY <2>1, <2>2 DEF Shape, Hangs
  <2>4. n # Nil
    BY DEF Nil
  <2> QED  BY <1>6, <2>3, <2>4
<1> HIDE DEF C
<1>8. /\ \A n \in 1 .. L : R[n] = C(n) /\ Q[n] = L - C(n)
      /\ R \in [0 .. L -> 0 .. L] /\ Q \in [0 .. L -> 0 .. L]
  <2>1. \A n \in 1 .. L : n \in 0 .. L /\ n # 0
    BY <1>2
  <2>2. ASSUME NEW n \in 0 .. L PROVE R[n] \in 0 .. L /\ Q[n] \in 0 .. L
    <3>1. CASE n = 0
      BY <1>2, <3>1
    <3>2. CASE n # 0
      <4>1. C(n) \in 1 .. L
        BY <1>2, <1>5, <3>2
      <4> QED  BY <1>2, <3>2, <4>1
    <3> QED  BY <3>1, <3>2
  <2> QED  BY <2>1, <2>2
<1> HIDE DEF R, Q
<1>9. Rooted(p)
  <2>1. ASSUME NEW n \in 1 .. L, NEW c \in {p[n].left, p[n].right}, c # Nil
        PROVE  c \in 1 .. L /\ R[c] < R[n]
    BY <1>6, <1>8, <2>1
  <2> QED  BY <1>8, <2>1 DEF Rooted
<1>10. Hung(p)
  <2>1. ASSUME NEW n \in 1 .. L, p[n].par # Nil
        PROVE  p[n].par \in 1 .. L /\ Q[p[n].par] < Q[n]
    <3>1. p[n].par \in 1 .. L /\ C(n) < C(p[n].par)
      BY <1>7, <2>1
    <3>2. C(n) \in 1 .. L /\ C(p[n].par) \in 1 .. L
      BY <1>5, <3>1
    <3> QED  BY <1>2, <1>8, <3>1, <3>2
  <2> QED  BY <1>8, <2>1 DEF Hung
<1> QED  BY <1>9, <1>10

\* A tree whose nodes are left alone stays.
LEMMA TreeKept ==
  ASSUME NEW p, NEW q, NEW h, NEW N, NEW rk, Tree(p, h, N, rk), p \in Seq(NodeType), q \in Seq(NodeType),
         Len(p) <= Len(q), N \subseteq 1 .. Len(p), \A n \in N : SameAt(p, q, n)
  PROVE  Tree(q, h, N, rk)
<1>1. CASE h = Nil
  BY <1>1 DEF Tree
<1>2. CASE h # Nil
  <2>1. PICK U, H : /\ Shape(p, h, N, U) /\ Sorted(p, N, U, rk) /\ Heights(p, N, H)
                    /\ NoReds(p, N, Nil) /\ ~p[h].red
    BY <1>2 DEF Tree, RedBlack
  <2>2. \A n \in N : /\ q[n].left = p[n].left /\ q[n].right = p[n].right /\ q[n].par = p[n].par
                     /\ q[n].red = p[n].red /\ q[n].key = p[n].key
    BY DEF SameAt
  <2>3. h \in N /\ N \subseteq 1 .. Len(q)
    BY <2>1, PoolNodes DEF Shape
  <2>4. \A n \in N : Placed(q, N, U, n)
    <3> SUFFICES ASSUME NEW n \in N PROVE Placed(q, N, U, n)
      OBVIOUS
    <3>1. Placed(p, N, U, n)
      BY <2>1 DEF Shape
    <3> QED  BY <2>2, <3>1 DEF Placed
  <2>5. \A n \in N : n # h => Hangs(q, N, n)
    <3> SUFFICES ASSUME NEW n \in N, n # h PROVE Hangs(q, N, n)
      OBVIOUS
    <3>1. Hangs(p, N, n)
      BY <2>1 DEF Shape
    <3> QED  BY <2>2, <3>1 DEF Hangs
  <2>6. Shape(q, h, N, U)
    BY <2>1, <2>2, <2>3, <2>4, <2>5 DEF Shape
  <2>7. Sorted(q, N, U, rk)
    <3>1. \A n \in N : \A b \in Under(U, p[n].left) \cup Under(U, p[n].right) : b \in N
      BY <2>1 DEF Shape, Placed
    <3> QED  BY <2>1, <2>2, <3>1 DEF Sorted, Rank
  <2>8. Heights(q, N, H)
    BY <2>1, <2>2 DEF Heights, Weight
  <2>9. NoReds(q, N, Nil)
    <3> SUFFICES ASSUME NEW n \in N, n # Nil, q[n].red, q[n].par # Nil PROVE ~q[q[n].par].red
      BY DEF NoReds
    <3>1. p[n].par \in N
      BY <2>1, <2>2 DEF Shape, Hangs
    <3> QED  BY <2>1, <2>2, <3>1 DEF NoReds
  <2>10. RedBlack(q, h, N, rk)
    BY <2>1, <2>2, <2>3, <2>6, <2>7, <2>8, <2>9 DEF RedBlack
  <2> QED  BY <1>2, <2>10 DEF Tree
<1> QED  BY <1>1, <1>2

\* An insertion into table t: the new pool q, the new heads and the nodes of each.
InsertedIn(p, hd, NN, q, hd2, MM, t, key, val) ==
  /\ Forest(q, hd2, MM)
  /\ \A u \in Table : u # t => MM[u] = NN[u] /\ \A n \in NN[u] : Has(q, n, p, n)
  /\ \A n \in NN[t] : \E k \in MM[t] : Has(q, k, p, n)
  /\ \E k \in MM[t] : q[k].key = key /\ q[k].val = val
  /\ \A k \in MM[t] : \/ q[k].key = key /\ q[k].val = val
                      \/ \E n \in NN[t] : Has(q, k, p, n)

\* An insertion into one of the three trees on the pool.
LEMMA InsertForest ==
  ASSUME NEW s, NEW NN, Forest(s.pool, s.head, NN),
         NEW t \in Table, NEW key \in KeyOf(t), NEW val \in ValType
  PROVE  \E MM : InsertedIn(s.pool, s.head, NN, Insert(s, t, key, val).pool,
                            Insert(s, t, key, val).head, MM, t, key, val)
<1> DEFINE p == s.pool
           hd == s.head
           N == NN[t]
           rk == RankOf(t)
           comp == Comp(s, t, key)
           r == rbtree_insert(p, hd[t], key, val, comp)
           q == r.pool
           L == Len(q)
           hd2 == [hd EXCEPT ![t] = r.head]
           MM == [NN EXCEPT ![t] = N \cup {L}]
<1>1. /\ p \in Seq(NodeType) /\ hd \in [Table -> Nat] /\ NN \in [Table -> SUBSET (1 .. Len(p))]
      /\ \A u \in Table : Tree(p, hd[u], NN[u], RankOf(u))
      /\ \A u \in Table : \A n \in NN[u] : p[n].key \in KeyOf(u)
      /\ \A n \in 1 .. Len(p) : \E u \in Table : n \in NN[u]
      /\ \A u, v \in Table : u # v => NN[u] \cap NN[v] = {}
  BY DEF Forest
<1>2. Rooted(p) /\ Hung(p)
  BY ForestRooted
<1>3. ToSet(InOrder(p, hd[t])) = N
  BY <1>1, <1>2, InOrderLists DEF Lists
<1>4. /\ key \in KeyType /\ rk[key] \in Int
      /\ \A n \in N : comp[n] > 0 <=> Rank(p, rk, n) < rk[key]
  <2>1. key \in KeyType /\ rk[key] \in Int
    BY CompareOrders
  <2>2. ASSUME NEW n \in N PROVE comp[n] > 0 <=> Rank(p, rk, n) < rk[key]
    <3>1. p[n].key \in KeyOf(t)
      BY <1>1
    <3>2. comp[n] = Compare(t, p[n].key, key)
      BY <1>3 DEF Comp
    <3> QED  BY <3>1, <3>2, CompareOrders DEF Rank
  <2> QED  BY <2>1, <2>2
<1>5. Inserts(p, hd[t], N, rk, key, val, comp)
  BY <1>1, <1>2, <1>4 DEF Inserts
<1> HIDE DEF comp, rk
<1>6. Inserted(p, q, r.head, N, rk, key, val) /\ r.head # Nil
  BY <1>5, InsertTree
<1>7. Insert(s, t, key, val) = [pool |-> q, head |-> hd2]
  BY DEF Insert, comp
<1> HIDE DEF p, hd, r
<1>8. /\ q \in Seq(NodeType) /\ L = Len(p) + 1 /\ Tree(q, r.head, N \cup {L}, rk)
      /\ \A k \in 1 .. Len(p) : k \notin N => SameAt(p, q, k)
      /\ \A n \in N : \E k \in N \cup {L} : Has(q, k, p, n)
      /\ \E k \in N \cup {L} : q[k].key = key /\ q[k].val = val
      /\ \A k \in N \cup {L} : \/ q[k].key = key /\ q[k].val = val
                               \/ \E n \in N : Has(q, k, p, n)
  BY <1>6 DEF Inserted
<1>9. Len(p) \in Nat /\ L \in 1 .. L /\ L \notin 1 .. Len(p) /\ 1 .. L = (1 .. Len(p)) \cup {L}
      /\ Len(p) <= Len(q)
  BY <1>1, <1>8, PoolNodes
<1> HIDE DEF q, L
<1>10. MM[t] = N \cup {L} /\ \A u \in Table : u # t => MM[u] = NN[u]
  BY <1>1
<1>11. \A u \in Table : u # t => \A n \in NN[u] : SameAt(p, q, n)
  BY <1>1, <1>8
<1>12. hd2 \in [Table -> Nat] /\ hd2[t] = r.head /\ \A u \in Table : u # t => hd2[u] = hd[u]
  <2>1. r.head \in Nat
    <3>1. PICK U : Shape(q, r.head, N \cup {L}, U)
      BY <1>6, <1>8 DEF Tree, RedBlack
    <3> QED  BY <1>8, <1>9, <3>1 DEF Shape, L
  <2> QED  BY <1>1, <2>1
<1> HIDE DEF hd2
<1>13. MM \in [Table -> SUBSET (1 .. L)]
  BY <1>1, <1>9
<1> HIDE DEF MM, N
<1>14. ASSUME NEW u \in Table PROVE Tree(q, hd2[u], MM[u], RankOf(u))
  <2>1. CASE u = t
    BY <1>8, <1>10, <1>12, <2>1 DEF rk
  <2>2. CASE u # t
    <3>1. NN[u] \subseteq 1 .. Len(p) /\ (\A n \in NN[u] : SameAt(p, q, n)) /\ Tree(p, hd[u], NN[u], RankOf(u))
      BY <1>1, <1>11, <2>2
    <3>2. Tree(q, hd[u], NN[u], RankOf(u))
      BY <1>1, <1>8, <1>9, <3>1, TreeKept
    <3> QED  BY <1>10, <1>12, <2>2, <3>2
  <2> QED  BY <2>1, <2>2
<1>15. ASSUME NEW u \in Table, NEW n \in MM[u] PROVE q[n].key \in KeyOf(u)
  <2>1. CASE u = t
    <3>1. \A k \in N : p[k].key \in KeyOf(t)
      BY <1>1 DEF N
    <3> QED  BY <1>8, <1>10, <1>15, <2>1, <3>1 DEF Has
  <2>2. CASE u # t
    BY <1>1, <1>10, <1>11, <1>15, <2>2 DEF SameAt
  <2> QED  BY <2>1, <2>2
<1>16. ASSUME NEW n \in 1 .. L PROVE \E u \in Table : n \in MM[u]
  <2>1. CASE n = L
    BY <1>10, <2>1
  <2>2. CASE n \in 1 .. Len(p)
    BY <1>1, <1>10, <2>2 DEF N
  <2> QED  BY <1>9, <2>1, <2>2
<1>17. ASSUME NEW u \in Table, NEW v \in Table, u # v PROVE MM[u] \cap MM[v] = {}
  <2>1. L \notin NN[u] /\ L \notin NN[v]
    BY <1>1, <1>9
  <2> QED  BY <1>1, <1>10, <1>17, <2>1 DEF N
<1>18. Forest(q, hd2, MM)
  BY <1>8, <1>12, <1>13, <1>14, <1>15, <1>16, <1>17 DEF Forest, L
<1>19. InsertedIn(p, hd, NN, q, hd2, MM, t, key, val)
  <2>1. N = NN[t] /\ \A u \in Table : u # t => \A n \in NN[u] : Has(q, n, p, n)
    BY <1>11 DEF SameAt, Has, N
  <2> QED  BY <1>8, <1>10, <1>18, <2>1 DEF InsertedIn
<1>20. Insert(s, t, key, val).pool = q /\ Insert(s, t, key, val).head = hd2
  BY <1>7
<1> QED  BY <1>19, <1>20 DEF p, hd

\* What a lookup is after: the key itself, or the range that holds an address.
Matches(t, k, key) == IF t = "dev" THEN key.start \in k.start .. k.end - 1 ELSE k = key

IsQuery(t, key) ==
  IF t = "dev" THEN \E a \in Nat : key = [start |-> a, end |-> a] ELSE key \in Nat

LookedUp(p, N, n, t, key) ==
  IF n = Nil THEN \A k \in N : ~Matches(t, p[k].key, key)
  ELSE n \in N /\ Matches(t, p[n].key, key)

\* A lookup in one of the three tables.
LEMMA SearchForest ==
  ASSUME NEW s, NEW NN, Forest(s.pool, s.head, NN), NEW t \in Table, NEW key, IsQuery(t, key)
  PROVE  LookedUp(s.pool, NN[t], Search(s, t, key), t, key)
<1> DEFINE p == s.pool
           hd == s.head
           N == NN[t]
           rk == RankOf(t)
           comp == Comp(s, t, key)
<1>1. /\ p \in Seq(NodeType) /\ Tree(p, hd[t], N, rk) /\ \A n \in N : p[n].key \in KeyOf(t)
  BY DEF Forest
<1>2. Rooted(p)
  BY ForestRooted
<1>3. ToSet(InOrder(p, hd[t])) = N
  BY <1>1, <1>2, InOrderLists DEF Lists
<1>4. \A n \in N : comp[n] = Compare(t, p[n].key, key)
  BY <1>3 DEF Comp
<1>5. Search(s, t, key) = rbtree_search(p, hd[t], comp)
  BY DEF Search
<1>6. \A n \in N : Rank(p, rk, n) = IF t = "dev" THEN p[n].key.start ELSE p[n].key
  BY <1>1 DEF Rank, RankOf, KeyOf, KeyType
<1> HIDE DEF p, hd, N, comp, rk
<1>7. Guides(p, N, rk, comp) /\ \A n \in N : comp[n] = 0 <=> Matches(t, p[n].key, key)
  <2>1. CASE t = "dev"
    <3>1. PICK a \in Nat : key = [start |-> a, end |-> a]
      BY <2>1 DEF IsQuery
    <3>2. ASSUME NEW n \in N
          PROVE  /\ p[n].key.start \in Nat /\ p[n].key.end \in Nat /\ p[n].key.start < p[n].key.end
                 /\ p[n].key \in AddrRange
                 /\ comp[n] = IF a >= p[n].key.end THEN 1 ELSE IF p[n].key.start > a THEN -1 ELSE 0
                 /\ Rank(p, rk, n) = p[n].key.start
                 /\ Matches(t, p[n].key, key) <=> a \in p[n].key.start .. p[n].key.end - 1
      <4>1. /\ p[n].key \in AddrRange /\ p[n].key.start \in Nat /\ p[n].key.end \in Nat
            /\ p[n].key.start < p[n].key.end
        BY <1>1, <2>1, TablesAssumption DEF KeyOf
      <4>2. key.start = a /\ key.end = a
        BY <3>1
      <4>3. comp[n] = addr_comp(p[n].key, key)
        BY <1>4, <2>1 DEF Compare
      <4>4. comp[n] = IF a >= p[n].key.end THEN 1 ELSE IF p[n].key.start > a THEN -1 ELSE 0
        BY <4>1, <4>2, <4>3 DEF addr_comp
      <4> QED  BY <1>6, <2>1, <4>1, <4>2, <4>4 DEF Matches
    <3>3. ASSUME NEW n \in N, NEW m \in N, comp[m] = 0
          PROVE  /\ comp[n] > 0 => Rank(p, rk, n) < Rank(p, rk, m)
                 /\ comp[n] < 0 => Rank(p, rk, m) < Rank(p, rk, n)
      <4>1. \/ p[n].key = p[m].key \/ p[n].key.end <= p[m].key.start \/ p[m].key.end <= p[n].key.start
        BY <3>2, TablesAssumption
      <4> QED  BY <3>2, <3>3, <4>1
    <3>4. Guides(p, N, rk, comp)
      BY <3>2, <3>3 DEF Guides
    <3>5. \A n \in N : comp[n] = 0 <=> Matches(t, p[n].key, key)
      BY <3>2
    <3> QED  BY <3>4, <3>5
  <2>2. CASE t # "dev"
    <3>1. key \in Nat
      BY <2>2 DEF IsQuery
    <3>2. \A n \in N : p[n].key \in Nat /\ Rank(p, rk, n) = p[n].key /\ comp[n] = key - p[n].key
      BY <1>1, <1>4, <1>6, <2>2 DEF KeyOf, Compare, handler_comp
    <3>3. Guides(p, N, rk, comp)
      BY <3>1, <3>2 DEF Guides
    <3>4. \A n \in N : comp[n] = 0 <=> Matches(t, p[n].key, key)
      BY <2>2, <3>1, <3>2 DEF Matches
    <3> QED  BY <3>3, <3>4
  <2> QED  BY <2>1, <2>2
<1>8. Found(rbtree_search(p, hd[t], comp), N, comp)
  BY <1>1, <1>2, <1>7, SearchFinds
<1>9. LookedUp(p, N, rbtree_search(p, hd[t], comp), t, key)
  BY <1>7, <1>8 DEF Found, LookedUp
<1> QED  BY <1>5, <1>9 DEF p, N

\* What TreesExact says of a forest.
LEMMA ForestExact ==
  ASSUME NEW NN, Forest(pool, head, NN)
  PROVE  TreesExact
<1>1. Rooted(pool) /\ Hung(pool)
  BY ForestRooted
<1>2. ASSUME NEW t \in Table
      PROVE  /\ IsRedBlack(pool, head[t]) /\ ToSet(InOrder(pool, head[t])) = NN[t]
             /\ Lists(InOrder(pool, head[t]), NN[t], pool, RankOf(t))
  <2>1. pool \in Seq(NodeType) /\ Tree(pool, head[t], NN[t], RankOf(t))
    BY DEF Forest
  <2> QED  BY <1>1, <2>1, TreeIsRedBlack, InOrderLists
<1>3. ASSUME NEW t \in Table PROVE IsOrdered(pool, head[t], LAMBDA a, b : Compare(t, a, b))
  <2> DEFINE w == InOrder(pool, head[t])
  <2>1. Lists(w, NN[t], pool, RankOf(t))
    BY <1>2
  <2> HIDE DEF w
  <2>2. /\ w \in Seq(Nat) /\ DOMAIN w = 1 .. Len(w) /\ \A i \in 1 .. Len(w) : w[i] \in NN[t]
    BY <2>1, MembersOfList DEF Lists
  <2>3. ASSUME NEW i \in DOMAIN w, NEW j \in DOMAIN w, i < j
        PROVE  Compare(t, pool[w[i]].key, pool[w[j]].key) >= 0
    <3>1. Rank(pool, RankOf(t), w[i]) <= Rank(pool, RankOf(t), w[j])
      BY <2>1, <2>2, <2>3 DEF Lists
    <3>2. pool[w[i]].key \in KeyOf(t) /\ pool[w[j]].key \in KeyOf(t)
      BY <2>2 DEF Forest
    <3> QED  BY <3>1, <3>2, CompareOrders DEF Rank
  <2> QED  BY <2>3 DEF IsOrdered, w
<1>4. ASSUME NEW n \in DOMAIN pool
      PROVE  Cardinality({t \in Table : n \in ToSet(InOrder(pool, head[t]))}) = 1
  <2>1. PICK t \in Table : n \in NN[t]
    BY PoolNodes DEF Forest
  <2>2. {u \in Table : n \in ToSet(InOrder(pool, head[u]))} = {t}
    BY <1>2, <2>1 DEF Forest
  <2> QED  BY <2>2, FS_Singleton
<1> QED  BY <1>2, <1>3, <1>4 DEF TreesExact

\* The interrupts that may have a handler.
AnyIrq == Irq \cup ToSet(Own)

\* What may be registered.
LogType ==
  {<<"irq", i>> : i \in AnyIrq} \cup {<<"dev", r>> : r \in AddrRange} \cup
  {<<"vint", Key(t[1], t[2]), s, t[1], t[2]>> : s \in Sender, t \in Target}

\* What a registration is.
LEMMA LogEntry ==
  ASSUME NEW e \in LogType
  PROVE  \/ \E i \in AnyIrq : e = <<"irq", i>> /\ e[1] = "irq" /\ e[2] = i
         \/ \E r \in AddrRange : e = <<"dev", r>> /\ e[1] = "dev" /\ e[2] = r
         \/ \E s \in Sender, t \in Target :
              /\ e = <<"vint", Key(t[1], t[2]), s, t[1], t[2]>>
              /\ e[1] = "vint" /\ e[2] = Key(t[1], t[2]) /\ e[3] = s /\ e[4] = t[1] /\ e[5] = t[2]
BY DEF LogType

\* Two receivers with an interrupt each have two keys.
LEMMA KeysDiffer ==
  ASSUME NEW r \in Nat, NEW s \in Nat, NEW i \in 0 .. KeyShift - 1, NEW j \in 0 .. KeyShift - 1,
         Key(r, i) = Key(s, j)
  PROVE  r = s /\ i = j
<1>1. KeyShift \in Nat
  BY TablesAssumption
<1>2. \A a, b \in Nat : \A k, l \in 0 .. KeyShift - 1 :
        a * KeyShift + k = b * KeyShift + l => ~(a < b)
  <2> SUFFICES ASSUME NEW a \in Nat, NEW b \in Nat, NEW k \in 0 .. KeyShift - 1,
                      NEW l \in 0 .. KeyShift - 1, a * KeyShift + k = b * KeyShift + l, a < b
               PROVE  FALSE
    OBVIOUS
  <2>1. PICK d \in Nat : b = a + 1 + d
    <3>1. b - a - 1 \in Nat /\ b = a + 1 + (b - a - 1)
      OBVIOUS
    <3> QED  BY <3>1
  <2>2. b * KeyShift = a * KeyShift + KeyShift + d * KeyShift
    BY <1>1, <2>1
  <2>3. d * KeyShift \in Nat /\ a * KeyShift \in Nat
    BY <1>1
  <2> QED  BY <1>1, <2>2, <2>3
<1>3. r = s
  BY <1>2 DEF Key
<1>4. r * KeyShift \in Nat
  BY <1>1
<1> QED  BY <1>1, <1>3, <1>4 DEF Key

\* The keys of permissions are numbers.
LEMMA KeyIsNat ==
  ASSUME NEW t \in Target
  PROVE  Key(t[1], t[2]) \in Nat /\ t[1] \in Nat /\ t[2] \in 0 .. KeyShift - 1
<1>1. KeyShift \in Nat /\ t[1] \in Nat /\ t[2] \in 0 .. KeyShift - 1
  BY TablesAssumption
<1>2. t[1] * KeyShift \in Nat
  BY <1>1
<1> QED  BY <1>1, <1>2 DEF Key

\* The part of a list from a place to the next.
LEMMA PairOf ==
  ASSUME NEW s, NEW m \in Int, NEW n \in Int, n = m + 1
  PROVE  SubSeq(s, m, n) = <<s[m], s[n]>>
<1> DEFINE S == {s[m], s[n]}
           u == SubSeq(s, m, n)
<1>1. \A i \in m .. n : s[i] \in S
  <2>1. \A i \in m .. n : i = m \/ i = n
    OBVIOUS
  <2> QED  BY <2>1
<1>2. m <= n /\ n - m + 1 = 2 /\ m + 1 - 1 = m /\ m + 2 - 1 = n
  OBVIOUS
<1>3. u \in Seq(S) /\ Len(u) = 2 /\ \A i \in 1 .. 2 : u[i] = s[m + i - 1]
  <2> HIDE DEF S
  <2>1. /\ SubSeq(s, m, n) \in Seq(S)
        /\ Len(SubSeq(s, m, n)) = IF m <= n THEN n - m + 1 ELSE 0
        /\ \A i \in 1 .. n - m + 1 : SubSeq(s, m, n)[i] = s[m + i - 1]
    BY <1>1, SubSeqProperties
  <2> QED  BY <1>2, <2>1
<1> HIDE DEF u
<1>4. u[1] = s[m] /\ u[2] = s[n]
  BY <1>2, <1>3
<1>5. u = <<u[1], u[2]>>
  BY <1>3
<1> QED  BY <1>4, <1>5 DEF u

\* The permissions given for a key.
Grants(lg, key) == {k \in DOMAIN lg : lg[k][1] = "vint" /\ lg[k][2] = key}

\* The permissions of a receiver and an interrupt are those of their key.
LEMMA GrantsAre ==
  ASSUME NEW lg \in Seq(LogType), NEW s, NEW t \in Target
  PROVE  {k \in DOMAIN lg : lg[k][1] = "vint" /\ SubSeq(lg[k], 4, 5) = SubSeq(<<s, t[1], t[2]>>, 2, 3)}
           = Grants(lg, Key(t[1], t[2]))
<1>1. SubSeq(<<s, t[1], t[2]>>, 2, 3) = <<t[1], t[2]>>
  <2> DEFINE w == <<s, t[1], t[2]>>
  <2>1. w[2] = t[1] /\ w[3] = t[2]
    OBVIOUS
  <2> HIDE DEF w
  <2>2. 2 \in Int /\ 3 \in Int /\ 3 = 2 + 1
    OBVIOUS
  <2>3. SubSeq(w, 2, 3) = <<w[2], w[3]>>
    BY <2>2, PairOf
  <2>4. SubSeq(w, 2, 3) = <<t[1], t[2]>>
    BY <2>1, <2>3
  <2> QED  BY <2>4 DEF w
<1>2. ASSUME NEW k \in DOMAIN lg, lg[k][1] = "vint"
      PROVE  SubSeq(lg[k], 4, 5) = <<t[1], t[2]>> <=> lg[k][2] = Key(t[1], t[2])
  <2>1. lg[k] \in LogType
    BY MembersOfList
  <2>2. PICK u \in Target : /\ lg[k][2] = Key(u[1], u[2]) /\ lg[k][4] = u[1] /\ lg[k][5] = u[2]
    BY <1>2, <2>1, LogEntry
  <2> DEFINE w == lg[k]
  <2> HIDE DEF w
  <2>3. SubSeq(w, 4, 5) = <<w[4], w[5]>>
    <3>1. 4 \in Int /\ 5 \in Int /\ 5 = 4 + 1
      OBVIOUS
    <3> QED  BY <3>1, PairOf
  <2>4. SubSeq(w, 4, 5) = <<u[1], u[2]>>
    BY <2>2, <2>3 DEF w
  <2>5. <<u[1], u[2]>> = <<t[1], t[2]>> <=> u[1] = t[1] /\ u[2] = t[2]
    OBVIOUS
  <2>6. Key(u[1], u[2]) = Key(t[1], t[2]) => u[1] = t[1] /\ u[2] = t[2]
    <3>1. /\ u[1] \in Nat /\ t[1] \in Nat
          /\ u[2] \in 0 .. KeyShift - 1 /\ t[2] \in 0 .. KeyShift - 1
      BY KeyIsNat
    <3> QED  BY <3>1, KeysDiffer
  <2> QED  BY <2>2, <2>4, <2>5, <2>6 DEF w
<1> QED  BY <1>1, <1>2 DEF Grants

Logged(lg, lg2, e) ==
  /\ lg \in Seq(LogType) /\ lg2 \in Seq(LogType) /\ e \in LogType
  /\ Len(lg) \in Nat /\ DOMAIN lg = 1 .. Len(lg) /\ DOMAIN lg2 = 1 .. Len(lg) + 1
  /\ \A k \in 1 .. Len(lg) : lg2[k] = lg[k]
  /\ lg2[Len(lg) + 1] = e

\* A registration is logged.
LEMMA AppendLogs ==
  ASSUME NEW lg \in Seq(LogType), NEW e \in LogType
  PROVE  Logged(lg, Append(lg, e), e)
<1> DEFINE u == Append(lg, e)
<1>1. /\ u \in Seq(LogType) /\ Len(u) = Len(lg) + 1 /\ u[Len(lg) + 1] = e
      /\ \A i \in 1 .. Len(lg) : u[i] = lg[i]
  BY AppendProperties
<1> HIDE DEF u
<1>2. DOMAIN lg = 1 .. Len(lg) /\ Len(lg) \in Nat /\ DOMAIN u = 1 .. Len(u)
  BY <1>1, MembersOfList
<1> QED  BY <1>1, <1>2 DEF Logged, u

\* What the nodes of each table hold, by the registrations.
KeptIn(p, N, lg, kind) ==
  \A k \in DOMAIN lg : lg[k][1] = kind => \E n \in N : p[n].key = lg[k][2]

HoldsEntry(p, n, lg, kind) ==
  p[n].val \in DOMAIN lg /\ lg[p[n].val] = <<kind, p[n].key>>

HoldsGrants(p, n, lg) ==
  LET grants == Grants(lg, p[n].key)
  IN  /\ \A s \in p[n].val : \E k \in grants : s = lg[k][3]
      /\ \E k \in grants : (\A j \in grants : k <= j) /\ lg[k][3] \in p[n].val

Holds(t, p, n, lg) ==
  CASE t = "irq" -> HoldsEntry(p, n, lg, "irq")
    [] t = "dev" -> HoldsEntry(p, n, lg, "dev")
    [] t = "vint" -> HoldsGrants(p, n, lg)

Kept(t, p, N, lg) == KeptIn(p, N, lg, t) /\ \A n \in N : Holds(t, p, n, lg)

\* A node keeps what it has, wherever it is, and whatever is registered besides.
LEMMA HoldsStays ==
  ASSUME NEW t \in Table, NEW p, NEW q, NEW n, NEW m, NEW lg, NEW lg2, NEW e,
         Logged(lg, lg2, e), Holds(t, p, n, lg), Has(q, m, p, n)
  PROVE  Holds(t, q, m, lg2)
<1>1. q[m].key = p[n].key /\ q[m].val = p[n].val
  BY DEF Has
<1>2. ASSUME NEW kind, HoldsEntry(p, n, lg, kind) PROVE HoldsEntry(q, m, lg2, kind)
  BY <1>1, <1>2 DEF HoldsEntry, Logged
<1>3. CASE t = "irq"
  BY <1>1, <1>2, <1>3 DEF Holds
<1>4. CASE t = "dev"
  BY <1>2, <1>4 DEF Holds
<1>5. CASE t = "vint"
  <2> DEFINE g == Grants(lg, p[n].key)
             g2 == Grants(lg2, p[n].key)
  <2>1. /\ \A s \in p[n].val : \E k \in g : s = lg[k][3]
        /\ \E k \in g : (\A j \in g : k <= j) /\ lg[k][3] \in p[n].val
    BY <1>5 DEF Holds, HoldsGrants
  <2>2. /\ \A k \in g : k \in g2 /\ lg2[k] = lg[k] /\ k \in 1 .. Len(lg)
        /\ \A k \in g2 : k \in g \/ k = Len(lg) + 1
    BY DEF Grants, Logged
  <2>3. Len(lg) \in Nat
    BY DEF Logged
  <2> HIDE DEF g, g2
  <2>4. \A s \in p[n].val : \E k \in g2 : s = lg2[k][3]
    BY <2>1, <2>2
  <2>5. PICK k \in g : (\A j \in g : k <= j) /\ lg[k][3] \in p[n].val
    BY <2>1
  <2>6. \A j \in g2 : k <= j
    BY <2>2, <2>3, <2>5
  <2>7. k \in g2 /\ lg2[k][3] \in p[n].val
    BY <2>2, <2>5
  <2>8. HoldsGrants(q, m, lg2)
    BY <1>1, <2>4, <2>6, <2>7 DEF HoldsGrants, g2
  <2> QED  BY <1>5, <2>8 DEF Holds
<1> QED  BY <1>3, <1>4, <1>5 DEF Table

\* Another table was registered in.
LEMMA KeptStays ==
  ASSUME NEW t \in Table, NEW p, NEW q, NEW N, NEW lg, NEW lg2, NEW e,
         Logged(lg, lg2, e), e[1] # t, Kept(t, p, N, lg), \A n \in N : Has(q, n, p, n)
  PROVE  Kept(t, q, N, lg2)
<1>1. \A n \in N : Holds(t, q, n, lg2)
  BY HoldsStays DEF Kept
<1>2. KeptIn(q, N, lg2, t)
  <2> SUFFICES ASSUME NEW k \in DOMAIN lg2, lg2[k][1] = t PROVE \E n \in N : q[n].key = lg2[k][2]
    BY DEF KeptIn
  <2>1. k \in DOMAIN lg /\ lg2[k] = lg[k]
    BY DEF Logged
  <2> QED  BY <2>1 DEF Kept, KeptIn, Has
<1> QED  BY <1>1, <1>2 DEF Kept

Grows(p, N, q, M, key, val) ==
  /\ \A n \in N : \E k \in M : Has(q, k, p, n)
  /\ \E k \in M : q[k].key = key /\ q[k].val = val
  /\ \A k \in M : \/ q[k].key = key /\ q[k].val = val
                  \/ \E n \in N : Has(q, k, p, n)

\* The table itself was registered in, and what it got is right.
LEMMA KeptGrows ==
  ASSUME NEW t \in Table, NEW p, NEW q, NEW N, NEW M, NEW lg, NEW lg2, NEW e, NEW val,
         Logged(lg, lg2, e), Kept(t, p, N, lg), Grows(p, N, q, M, e[2], val),
         \A m \in M : q[m].key = e[2] /\ q[m].val = val => Holds(t, q, m, lg2)
  PROVE  Kept(t, q, M, lg2)
<1>1. ASSUME NEW m \in M PROVE Holds(t, q, m, lg2)
  <2>1. CASE q[m].key = e[2] /\ q[m].val = val
    BY <2>1
  <2>2. CASE \E n \in N : Has(q, m, p, n)
    <3>1. PICK n \in N : Has(q, m, p, n)
      BY <2>2
    <3>2. Holds(t, p, n, lg)
      BY DEF Kept
    <3> QED  BY <3>1, <3>2, HoldsStays
  <2> QED  BY <2>1, <2>2 DEF Grows
<1>2. KeptIn(q, M, lg2, t)
  <2> SUFFICES ASSUME NEW k \in DOMAIN lg2, lg2[k][1] = t PROVE \E n \in M : q[n].key = lg2[k][2]
    BY DEF KeptIn
  <2>1. CASE k \in DOMAIN lg /\ lg2[k] = lg[k]
    <3>1. PICK n \in N : p[n].key = lg[k][2]
      BY <2>1 DEF Kept, KeptIn
    <3>2. PICK m \in M : Has(q, m, p, n)
      BY DEF Grows
    <3> QED  BY <2>1, <3>1, <3>2 DEF Has
  <2>2. CASE lg2[k] = e
    BY <2>2 DEF Grows
  <2> QED  BY <2>1, <2>2 DEF Logged
<1> QED  BY <1>1, <1>2 DEF Kept

\* The mask of a permission: of the senders permitted before, with one more.
LEMMA MaskHolds ==
  ASSUME NEW p, NEW N, NEW lg, NEW lg2, NEW e, NEW n, NEW val, NEW q, NEW m,
         Logged(lg, lg2, e), e[1] = "vint", Kept("vint", p, N, lg),
         LookedUp(p, N, n, "vint", e[2]),
         val = IF n = Nil THEN {e[3]} ELSE p[n].val \cup {e[3]},
         q[m].key = e[2], q[m].val = val
  PROVE  Holds("vint", q, m, lg2)
<1> DEFINE g == Grants(lg, e[2])
           g2 == Grants(lg2, e[2])
           l == Len(lg) + 1
<1>1. /\ \A k \in g : k \in g2 /\ lg2[k] = lg[k] /\ k \in 1 .. Len(lg)
      /\ \A k \in g2 : k \in g \/ k = l
      /\ l \in g2 /\ lg2[l] = e /\ Len(lg) \in Nat
  BY DEF Grants, Logged
<1>2. l \in Nat /\ \A k \in g : k <= l /\ k \in Nat
  BY <1>1
<1> HIDE DEF g2, l
<1>3. CASE n = Nil
  <2>1. g = {}
    <3> SUFFICES ASSUME NEW k \in g PROVE FALSE
      OBVIOUS
    <3>1. k \in DOMAIN lg /\ lg[k][1] = "vint" /\ lg[k][2] = e[2]
      BY DEF Grants
    <3>2. PICK x \in N : p[x].key = lg[k][2]
      BY <3>1 DEF Kept, KeptIn
    <3> QED  BY <1>3, <3>1, <3>2 DEF LookedUp, Matches
  <2>2. val = {e[3]}
    BY <1>3
  <2>3. \A s \in val : \E k \in g2 : s = lg2[k][3]
    BY <1>1, <2>2
  <2>4. (\A j \in g2 : l <= j) /\ lg2[l][3] \in val
    BY <1>1, <1>2, <2>1, <2>2
  <2> HIDE DEF g
  <2> QED  BY <1>1, <2>3, <2>4 DEF Holds, HoldsGrants, g2
<1>4. CASE n # Nil
  <2>1. n \in N /\ p[n].key = e[2]
    BY <1>4 DEF LookedUp, Matches
  <2>2. HoldsGrants(p, n, lg)
    BY <2>1 DEF Kept, Holds
  <2>3. /\ \A s \in p[n].val : \E k \in g : s = lg[k][3]
        /\ \E k \in g : (\A j \in g : k <= j) /\ lg[k][3] \in p[n].val
    BY <2>1, <2>2 DEF HoldsGrants
  <2> HIDE DEF g
  <2>4. val = p[n].val \cup {e[3]}
    BY <1>4
  <2>5. \A s \in val : \E k \in g2 : s = lg2[k][3]
    BY <1>1, <2>3, <2>4
  <2>6. PICK k \in g : (\A j \in g : k <= j) /\ lg[k][3] \in p[n].val
    BY <2>3
  <2>7. k \in g2 /\ (\A j \in g2 : k <= j) /\ lg2[k][3] \in val
    BY <1>1, <1>2, <2>4, <2>6
  <2> QED  BY <2>5, <2>7 DEF Holds, HoldsGrants, g2
<1> QED  BY <1>3, <1>4

\* The three tables hold what was registered.
StoredIn(p, hd, lg, NN) == Forest(p, hd, NN) /\ \A t \in Table : Kept(t, p, NN[t], lg)
Stored(p, hd, lg) == \E NN : StoredIn(p, hd, lg, NN)

Registers(s, lg, NN, t, e, val) ==
  /\ lg \in Seq(LogType) /\ e \in LogType /\ e[1] = t /\ t \in Table
  /\ e[2] \in KeyOf(t) /\ val \in ValType /\ StoredIn(s.pool, s.head, lg, NN)
  /\ \A q, m : q[m].key = e[2] /\ q[m].val = val => Holds(t, q, m, Append(lg, e))

\* A registration keeps what is stored.
LEMMA RegistersStores ==
  ASSUME NEW s, NEW lg, NEW NN, NEW t, NEW e, NEW val, Registers(s, lg, NN, t, e, val)
  PROVE  Stored(Insert(s, t, e[2], val).pool, Insert(s, t, e[2], val).head, Append(lg, e))
<1> DEFINE p == s.pool
           q == Insert(s, t, e[2], val).pool
           hd2 == Insert(s, t, e[2], val).head
           lg2 == Append(lg, e)
<1>1. /\ lg \in Seq(LogType) /\ e \in LogType /\ e[1] = t /\ t \in Table
      /\ e[2] \in KeyOf(t) /\ val \in ValType /\ Forest(p, s.head, NN)
      /\ \A u \in Table : Kept(u, p, NN[u], lg)
      /\ \A r, m : r[m].key = e[2] /\ r[m].val = val => Holds(t, r, m, lg2)
  BY DEF Registers, StoredIn
<1>2. Logged(lg, lg2, e)
  BY <1>1, AppendLogs
<1>3. PICK MM : InsertedIn(p, s.head, NN, q, hd2, MM, t, e[2], val)
  BY <1>1, InsertForest
<1> HIDE DEF p, q, hd2, lg2
<1>4. Forest(q, hd2, MM)
  BY <1>3 DEF InsertedIn
<1>5. ASSUME NEW u \in Table PROVE Kept(u, q, MM[u], lg2)
  <2>1. Kept(u, p, NN[u], lg)
    BY <1>1
  <2>2. CASE u = t
    <3>1. Grows(p, NN[t], q, MM[t], e[2], val)
      BY <1>3 DEF InsertedIn, Grows
    <3>2. \A m \in MM[t] : q[m].key = e[2] /\ q[m].val = val => Holds(t, q, m, lg2)
      BY <1>1
    <3>3. Kept(t, p, NN[t], lg)
      BY <2>1, <2>2
    <3>4. Kept(t, q, MM[t], lg2)
      BY <1>1, <1>2, <3>1, <3>2, <3>3, KeptGrows
    <3> QED  BY <2>2, <3>4
  <2>3. CASE u # t
    <3>1. MM[u] = NN[u] /\ \A n \in NN[u] : Has(q, n, p, n)
      BY <1>3, <2>3 DEF InsertedIn
    <3>2. Kept(u, q, NN[u], lg2)
      BY <1>1, <1>2, <2>1, <2>3, <3>1, KeptStays
    <3> QED  BY <3>1, <3>2
  <2> QED  BY <2>2, <2>3
<1>6. Stored(q, hd2, lg2)
  BY <1>4, <1>5 DEF Stored, StoredIn
<1> QED  BY <1>6 DEF q, hd2, lg2

\* The hypervisor's own interrupts are numbers, and so are all others.
LEMMA OwnIrqs ==
  /\ Own[1] = 26 /\ Own[2] = 25 /\ Own[3] = 30 /\ Own[4] = 27
  /\ \A i \in 1 .. 4 : Own[i] \in AnyIrq
  /\ AnyIrq \subseteq Nat
<1>1. /\ Own[1] = 26 /\ Own[2] = 25 /\ Own[3] = 30 /\ Own[4] = 27
      /\ DOMAIN Own = 1 .. 4
  BY DEF Own
<1>2. \A i \in 1 .. 4 : i = 1 \/ i = 2 \/ i = 3 \/ i = 4
  OBVIOUS
<1>3. ToSet(Own) \subseteq Nat
  BY <1>1, <1>2 DEF ToSet
<1>4. \A i \in 1 .. 4 : Own[i] \in ToSet(Own)
  BY <1>1 DEF ToSet
<1> QED  BY <1>1, <1>3, <1>4, TablesAssumption DEF AnyIrq

\* irq_handler_register, of the hypervisor or of user_init: what it inserts is
\* the place of its entry.
LEMMA IrqRegisters ==
  ASSUME NEW s, NEW lg \in Seq(LogType), NEW NN, StoredIn(s.pool, s.head, lg, NN),
         NEW i \in AnyIrq
  PROVE  Registers(s, lg, NN, "irq", <<"irq", i>>, Len(lg) + 1)
<1> DEFINE e == <<"irq", i>>
           val == Len(lg) + 1
<1>1. Len(lg) \in Nat
  BY MembersOfList
<1>2. e \in LogType /\ e[1] = "irq" /\ e[2] = i
  BY DEF LogType
<1>3. i \in KeyOf("irq") /\ "irq" \in Table /\ val \in ValType
  BY <1>1, OwnIrqs DEF KeyOf, Table, ValType
<1> HIDE DEF e
<1>4. Logged(lg, Append(lg, e), e)
  BY <1>2, AppendLogs
<1>5. ASSUME NEW q, NEW m, q[m].key = e[2], q[m].val = val PROVE Holds("irq", q, m, Append(lg, e))
  <2>1. HoldsEntry(q, m, Append(lg, e), "irq")
    BY <1>1, <1>2, <1>4, <1>5 DEF Logged, HoldsEntry, e
  <2> QED  BY <2>1 DEF Holds
<1> HIDE DEF val
<1>6. Registers(s, lg, NN, "irq", e, val)
  BY <1>2, <1>3, <1>5 DEF Registers
<1> QED  BY <1>6 DEF e, val

\* One of the four insertions of the boot.
LEMMA OwnStores ==
  ASSUME NEW s, NEW lg \in Seq(LogType), NEW k \in 1 .. 4, Len(lg) = k - 1,
         Stored(s.pool, s.head, lg)
  PROVE  /\ Stored(Insert(s, "irq", Own[k], k).pool, Insert(s, "irq", Own[k], k).head,
                   Append(lg, <<"irq", Own[k]>>))
         /\ Append(lg, <<"irq", Own[k]>>) \in Seq(LogType)
         /\ Len(Append(lg, <<"irq", Own[k]>>)) = k
<1> DEFINE e == <<"irq", Own[k]>>
<1>1. PICK NN : StoredIn(s.pool, s.head, lg, NN)
  BY DEF Stored
<1>2. Own[k] \in AnyIrq /\ Len(lg) + 1 = k
  BY OwnIrqs
<1>3. Registers(s, lg, NN, "irq", e, k)
  <2>1. Registers(s, lg, NN, "irq", e, Len(lg) + 1)
    BY <1>1, <1>2, IrqRegisters
  <2> QED  BY <1>2, <2>1
<1>4. e[2] = Own[k] /\ e \in LogType
  BY <1>2 DEF LogType
<1> HIDE DEF e
<1>5. Stored(Insert(s, "irq", e[2], k).pool, Insert(s, "irq", e[2], k).head, Append(lg, e))
  BY <1>3, RegistersStores
<1>6. Append(lg, e) \in Seq(LogType) /\ Len(Append(lg, e)) = k
  BY <1>2, <1>4, AppendProperties
<1>7. /\ Stored(Insert(s, "irq", Own[k], k).pool, Insert(s, "irq", Own[k], k).head, Append(lg, e))
      /\ Append(lg, e) \in Seq(LogType) /\ Len(Append(lg, e)) = k
  BY <1>4, <1>5, <1>6
<1> QED  BY <1>7 DEF e

TablesInv ==
  /\ log \in Seq(LogType)
  /\ pc = "boot" => last = << >>
  /\ Stored(pool, head, log)

Boots(f, s) ==
  f = [i \in 0 .. 4 |-> IF i = 0 THEN s ELSE Insert(f[i - 1], "irq", Own[i], i)]

\* The four insertions of the boot.
LEMMA BootExists ==
  ASSUME NEW s
  PROVE  \E f : Boots(f, s)
<1> DEFINE s1 == Insert(s, "irq", Own[1], 1)
           s2 == Insert(s1, "irq", Own[2], 2)
           s3 == Insert(s2, "irq", Own[3], 3)
           s4 == Insert(s3, "irq", Own[4], 4)
           f == [i \in 0 .. 4 |-> IF i = 0 THEN s ELSE IF i = 1 THEN s1 ELSE IF i = 2 THEN s2
                                  ELSE IF i = 3 THEN s3 ELSE s4]
<1>1. f[0] = s /\ f[1] = s1 /\ f[2] = s2 /\ f[3] = s3 /\ f[4] = s4
  <2> HIDE DEF s1, s2, s3, s4
  <2> QED  OBVIOUS
<1>2. f = [i \in 0 .. 4 |-> f[i]]
  OBVIOUS
<1> HIDE DEF f
<1>3. ASSUME NEW i \in 0 .. 4
      PROVE  f[i] = IF i = 0 THEN s ELSE Insert(f[i - 1], "irq", Own[i], i)
  <2>1. i = 0 \/ i = 1 \/ i = 2 \/ i = 3 \/ i = 4
    OBVIOUS
  <2>2. /\ f[1] = Insert(f[0], "irq", Own[1], 1) /\ f[2] = Insert(f[1], "irq", Own[2], 2)
        /\ f[3] = Insert(f[2], "irq", Own[3], 3) /\ f[4] = Insert(f[3], "irq", Own[4], 4)
    BY <1>1
  <2>3. 1 - 1 = 0 /\ 2 - 1 = 1 /\ 3 - 1 = 2 /\ 4 - 1 = 3
    OBVIOUS
  <2> HIDE DEF s1, s2, s3, s4
  <2> QED  BY <1>1, <2>1, <2>2, <2>3
<1>4. Boots(f, s)
  BY <1>2, <1>3 DEF Boots
<1> QED  BY <1>4

\* The tables after irq_handler_init.
LEMMA InitTables ==
  ASSUME Init
  PROVE  TablesInv /\ FindsRegistered /\ SendsArePermitted
<1> DEFINE s == [pool |-> << >>, head |-> [t \in Table |-> Nil]]
           f == CHOOSE g : Boots(g, s)
           lg1 == Append(<< >>, <<"irq", Own[1]>>)
           lg2 == Append(lg1, <<"irq", Own[2]>>)
           lg3 == Append(lg2, <<"irq", Own[3]>>)
           lg4 == Append(lg3, <<"irq", Own[4]>>)
<1>1. lg4 = [i \in 1 .. 4 |-> <<"irq", Own[i]>>]
  <2> DEFINE u == [i \in 1 .. 4 |-> <<"irq", Own[i]>>]
  <2>1. u = <<u[1], u[2], u[3], u[4]>>
    OBVIOUS
  <2> QED  BY <2>1
<1>2. /\ pool = f[4].pool /\ head = f[4].head /\ pc = "boot" /\ last = << >>
      /\ log = [i \in 1 .. 4 |-> <<"irq", Own[i]>>]
  BY DEF Init, Boots
<1>3. Boots(f, s)
  <2> HIDE DEF s
  <2> QED  BY BootExists
<1>4. Stored(s.pool, s.head, << >>)
  <2> DEFINE NN == [t \in Table |-> {}]
             hd == [t \in Table |-> Nil]
  <2>1. << >> \in Seq(NodeType) /\ Len(<< >>) = 0
    OBVIOUS
  <2>2. /\ NN \in [Table -> SUBSET (1 .. Len(<< >>))] /\ hd \in [Table -> Nat]
        /\ \A t \in Table : NN[t] = {} /\ hd[t] = Nil
    BY DEF Nil
  <2> HIDE DEF NN, hd
  <2>3. Forest(<< >>, hd, NN)
    BY <2>1, <2>2 DEF Forest, Tree
  <2>4. \A t \in Table : Kept(t, << >>, NN[t], << >>)
    BY <2>2 DEF Kept, KeptIn
  <2>5. Stored(<< >>, hd, << >>)
    BY <2>3, <2>4 DEF Stored, StoredIn
  <2> QED  BY <2>5 DEF hd
<1> HIDE DEF f, s
<1>5. /\ f[0] = s /\ f[1] = Insert(f[0], "irq", Own[1], 1) /\ f[2] = Insert(f[1], "irq", Own[2], 2)
      /\ f[3] = Insert(f[2], "irq", Own[3], 3) /\ f[4] = Insert(f[3], "irq", Own[4], 4)
  <2>1. \A i \in 0 .. 4 : f[i] = IF i = 0 THEN s ELSE Insert(f[i - 1], "irq", Own[i], i)
    BY <1>3, Zenon DEF Boots
  <2>2. f[0] = s
    BY <2>1
  <2>3. f[1] = Insert(f[0], "irq", Own[1], 1)
    BY <2>1
  <2>4. f[2] = Insert(f[1], "irq", Own[2], 2)
    BY <2>1
  <2>5. f[3] = Insert(f[2], "irq", Own[3], 3)
    BY <2>1
  <2>6. f[4] = Insert(f[3], "irq", Own[4], 4)
    BY <2>1
  <2> QED  BY <2>2, <2>3, <2>4, <2>5, <2>6
<1>6. /\ 1 \in 1 .. 4 /\ 2 \in 1 .. 4 /\ 3 \in 1 .. 4 /\ 4 \in 1 .. 4
      /\ 1 - 1 = 0 /\ 2 - 1 = 1 /\ 3 - 1 = 2 /\ 4 - 1 = 3
      /\ << >> \in Seq(LogType) /\ Len(<< >>) = 0
  OBVIOUS
<1> HIDE DEF lg1, lg2, lg3, lg4
<1>7. Stored(f[1].pool, f[1].head, lg1) /\ lg1 \in Seq(LogType) /\ Len(lg1) = 1
  BY <1>4, <1>5, <1>6, OwnStores DEF lg1
<1>8. Stored(f[2].pool, f[2].head, lg2) /\ lg2 \in Seq(LogType) /\ Len(lg2) = 2
  <2>1. 2 \in 1 .. 4 /\ Len(lg1) = 2 - 1
    BY <1>6, <1>7
  <2>2. /\ Stored(Insert(f[1], "irq", Own[2], 2).pool, Insert(f[1], "irq", Own[2], 2).head,
                  Append(lg1, <<"irq", Own[2]>>))
        /\ Append(lg1, <<"irq", Own[2]>>) \in Seq(LogType)
        /\ Len(Append(lg1, <<"irq", Own[2]>>)) = 2
    BY <2>1, <1>7, OwnStores
  <2> QED  BY <2>2, <1>5 DEF lg2
<1>9. Stored(f[3].pool, f[3].head, lg3) /\ lg3 \in Seq(LogType) /\ Len(lg3) = 3
  <2>1. 3 \in 1 .. 4 /\ Len(lg2) = 3 - 1
    BY <1>6, <1>8
  <2>2. /\ Stored(Insert(f[2], "irq", Own[3], 3).pool, Insert(f[2], "irq", Own[3], 3).head,
                  Append(lg2, <<"irq", Own[3]>>))
        /\ Append(lg2, <<"irq", Own[3]>>) \in Seq(LogType)
        /\ Len(Append(lg2, <<"irq", Own[3]>>)) = 3
    BY <2>1, <1>8, OwnStores
  <2> QED  BY <2>2, <1>5 DEF lg3
<1>10. Stored(f[4].pool, f[4].head, lg4) /\ lg4 \in Seq(LogType)
  <2>1. 4 \in 1 .. 4 /\ Len(lg3) = 4 - 1
    BY <1>6, <1>9
  <2>2. /\ Stored(Insert(f[3], "irq", Own[4], 4).pool, Insert(f[3], "irq", Own[4], 4).head,
                  Append(lg3, <<"irq", Own[4]>>))
        /\ Append(lg3, <<"irq", Own[4]>>) \in Seq(LogType)
        /\ Len(Append(lg3, <<"irq", Own[4]>>)) = 4
    BY <2>1, <1>9, OwnStores
  <2> QED  BY <2>2, <1>5 DEF lg4
<1>11. TablesInv
  BY <1>1, <1>2, <1>10 DEF TablesInv
<1> QED  BY <1>2, <1>11 DEF FindsRegistered, SendsArePermitted

LookupsInv == TablesInv /\ FindsRegistered /\ SendsArePermitted

\* The tables as they are.
LEMMA NowIs == Now.pool = pool /\ Now.head = head
BY DEF Now

\* A registration.
LEMMA RegisteredStep ==
  ASSUME LookupsInv, NEW t, NEW NN, NEW e, NEW val, Registers(Now, log, NN, t, e, val),
         Registered(Insert(Now, t, e[2], val)), log' = Append(log, e)
  PROVE  LookupsInv'
<1>1. /\ pool' = Insert(Now, t, e[2], val).pool /\ head' = Insert(Now, t, e[2], val).head
      /\ pc' = pc /\ last' = last /\ last = << >>
  BY DEF Registered, LookupsInv, TablesInv
<1>2. Stored(pool', head', log')
  BY <1>1, RegistersStores
<1>3. log' \in Seq(LogType)
  BY AppendProperties DEF Registers
<1>4. TablesInv'
  BY <1>1, <1>2, <1>3 DEF TablesInv
<1> QED  BY <1>1, <1>4 DEF LookupsInv, FindsRegistered, SendsArePermitted

\* irq_handler_register.
LEMMA IrqRegistered ==
  ASSUME LookupsInv, NEW i \in Irq, irq_handler_register(i)
  PROVE  LookupsInv'
<1> DEFINE e == <<"irq", i>>
           val == Len(log) + 1
<1>1. PICK NN : StoredIn(pool, head, log, NN)
  BY DEF LookupsInv, TablesInv, Stored
<1>2. Registers(Now, log, NN, "irq", e, val)
  <2>1. i \in AnyIrq /\ log \in Seq(LogType) /\ StoredIn(Now.pool, Now.head, log, NN)
    BY <1>1, NowIs DEF AnyIrq, LookupsInv, TablesInv
  <2> QED  BY <2>1, IrqRegisters
<1>3. Registered(Insert(Now, "irq", e[2], val)) /\ log' = Append(log, e)
  BY DEF irq_handler_register
<1> HIDE DEF e, val
<1> QED  BY <1>2, <1>3, RegisteredStep

\* virtual_device_handle_register.
LEMMA DevRegistered ==
  ASSUME LookupsInv, NEW r \in AddrRange, virtual_device_handle_register(r)
  PROVE  LookupsInv'
<1> DEFINE e == <<"dev", r>>
           val == Len(log) + 1
<1>1. log \in Seq(LogType) /\ Len(log) \in Nat
  BY MembersOfList DEF LookupsInv, TablesInv
<1>2. e \in LogType /\ e[1] = "dev" /\ e[2] = r
  BY DEF LogType
<1>3. PICK NN : StoredIn(pool, head, log, NN)
  BY DEF LookupsInv, TablesInv, Stored
<1>4. r \in KeyOf("dev") /\ "dev" \in Table /\ val \in ValType
  BY <1>1 DEF KeyOf, Table, ValType
<1> HIDE DEF e
<1>5. Logged(log, Append(log, e), e)
  BY <1>1, <1>2, AppendLogs
<1>6. ASSUME NEW q, NEW m, q[m].key = e[2], q[m].val = val PROVE Holds("dev", q, m, Append(log, e))
  <2>1. HoldsEntry(q, m, Append(log, e), "dev")
    BY <1>1, <1>2, <1>5, <1>6 DEF Logged, HoldsEntry, e
  <2> QED  BY <2>1 DEF Holds
<1> HIDE DEF val
<1>7. Registers(Now, log, NN, "dev", e, val)
  BY <1>1, <1>2, <1>3, <1>4, <1>6, NowIs DEF Registers
<1>8. Registered(Insert(Now, "dev", e[2], val)) /\ log' = Append(log, e)
  BY <1>2 DEF virtual_device_handle_register, e, val
<1> QED  BY <1>7, <1>8, RegisteredStep

\* vint_sender_add_permission: the mask it inserts is that of a permission.
LEMMA SenderRegistered ==
  ASSUME LookupsInv, NEW s \in Sender, NEW t \in Target, vint_sender_add_permission(s, t[1], t[2])
  PROVE  LookupsInv'
<1> DEFINE key == Key(t[1], t[2])
           e == <<"vint", key, s, t[1], t[2]>>
           n == Search(Now, "vint", key)
           val == Mask(Now, key, s)
<1>1. log \in Seq(LogType) /\ Len(log) \in Nat
  BY MembersOfList DEF LookupsInv, TablesInv
<1>2. e \in LogType /\ e[1] = "vint" /\ e[2] = key /\ e[3] = s
  BY DEF LogType
<1>3. PICK NN : StoredIn(pool, head, log, NN)
  BY DEF LookupsInv, TablesInv, Stored
<1>4. key \in KeyOf("vint") /\ "vint" \in Table /\ IsQuery("vint", key)
  BY KeyIsNat DEF KeyOf, Table, IsQuery
<1>5. val = IF n = Nil THEN {s} ELSE pool[n].val \cup {s}
  BY NowIs DEF Mask
<1>6. Registered(Insert(Now, "vint", key, val)) /\ log' = Append(log, e)
  BY DEF vint_sender_add_permission
<1> HIDE DEF e, val, n, key
<1>7. LookedUp(pool, NN["vint"], n, "vint", key) /\ Kept("vint", pool, NN["vint"], log)
  <2>1. Forest(Now.pool, Now.head, NN) /\ Kept("vint", pool, NN["vint"], log)
    BY <1>3, <1>4, NowIs DEF StoredIn
  <2>2. LookedUp(Now.pool, NN["vint"], n, "vint", key)
    BY <1>4, <2>1, SearchForest DEF n
  <2> QED  BY <2>1, <2>2, NowIs
<1>8. Logged(log, Append(log, e), e)
  BY <1>1, <1>2, AppendLogs
<1>9. val \in ValType
  <2>1. CASE n = Nil
    BY <1>5, <2>1 DEF ValType
  <2>2. CASE n # Nil
    <3>1. n \in NN["vint"]
      BY <1>7, <2>2 DEF LookedUp
    <3>2. HoldsGrants(pool, n, log)
      BY <1>7, <3>1 DEF Kept, Holds
    <3>3. ASSUME NEW x \in pool[n].val PROVE x \in Sender
      <4>1. PICK k \in DOMAIN log : log[k][1] = "vint" /\ x = log[k][3]
        BY <3>2 DEF HoldsGrants, Grants
      <4>2. log[k] \in LogType
        BY <1>1, MembersOfList
      <4>3. \E u \in Sender : log[k][3] = u
        BY <4>1, <4>2, LogEntry
      <4> QED  BY <4>1, <4>3
    <3>4. val \in SUBSET Sender
      BY <1>5, <2>2, <3>3
    <3> QED  BY <3>4 DEF ValType
  <2> QED  BY <2>1, <2>2
<1>10. ASSUME NEW q, NEW m, q[m].key = e[2], q[m].val = val
       PROVE  Holds("vint", q, m, Append(log, e))
  <2>1. /\ LookedUp(pool, NN["vint"], n, "vint", e[2])
        /\ val = IF n = Nil THEN {e[3]} ELSE pool[n].val \cup {e[3]}
    BY <1>2, <1>5, <1>7
  <2> QED  BY <1>2, <1>7, <1>8, <1>10, <2>1, MaskHolds
<1>11. Registers(Now, log, NN, "vint", e, val)
  BY <1>1, <1>2, <1>3, <1>4, <1>9, <1>10, NowIs DEF Registers
<1>12. Registered(Insert(Now, "vint", e[2], val))
  BY <1>2, <1>6
<1> QED  BY <1>6, <1>11, <1>12, RegisteredStep

-----------------------------------------------------------------------------
\* The lookups.
LEMMA TablesStay ==
  ASSUME TablesInv, UNCHANGED <<pc, tables, log>>, pc # "boot" \/ last' = last
  PROVE  TablesInv'
BY DEF TablesInv, tables

\* irq_handler.
LEMMA IrqLooksUp ==
  ASSUME LookupsInv, NEW i \in AnyIrq, irq_handler(i)
  PROVE  LookupsInv'
<1> DEFINE n == Search(Now, "irq", i)
<1>1. /\ pc = "guest" /\ last' = <<"irq", i, IF n = Nil THEN Aborted ELSE pool[n].val>>
      /\ UNCHANGED <<pc, tables, log>>
  BY DEF irq_handler
<1>2. TablesInv'
  BY <1>1, TablesStay DEF LookupsInv
<1>3. PICK NN : StoredIn(pool, head, log, NN)
  BY DEF LookupsInv, TablesInv, Stored
<1>4. LookedUp(pool, NN["irq"], n, "irq", i) /\ Kept("irq", pool, NN["irq"], log)
  <2>1. Forest(Now.pool, Now.head, NN) /\ Kept("irq", pool, NN["irq"], log)
    BY <1>3, NowIs DEF StoredIn, Table
  <2>2. "irq" \in Table /\ IsQuery("irq", i)
    BY OwnIrqs DEF Table, IsQuery
  <2>3. LookedUp(Now.pool, NN["irq"], n, "irq", i)
    BY <2>1, <2>2, SearchForest
  <2> QED  BY <2>1, <2>3, NowIs
<1> HIDE DEF n
<1>5. /\ last' # << >> /\ last'[1] = "irq" /\ last'[2] = i
      /\ last'[3] = IF n = Nil THEN Aborted ELSE pool[n].val
  BY <1>1
<1>6. log' = log /\ log \in Seq(LogType)
  BY <1>1 DEF LookupsInv, TablesInv
<1>7. IF last'[3] = Aborted THEN \A k \in DOMAIN log : log[k] # <<"irq", i>>
      ELSE log[last'[3]] = <<"irq", i>>
  <2>1. CASE n = Nil
    <3>1. ASSUME NEW k \in DOMAIN log, log[k] = <<"irq", i>> PROVE FALSE
      <4>1. log[k][1] = "irq" /\ log[k][2] = i
        BY <3>1
      <4>2. PICK m \in NN["irq"] : pool[m].key = i
        BY <1>4, <4>1 DEF Kept, KeptIn
      <4> QED  BY <1>4, <2>1, <4>2 DEF LookedUp, Matches
    <3> QED  BY <1>5, <2>1, <3>1
  <2>2. CASE n # Nil
    <3>1. n \in NN["irq"] /\ pool[n].key = i /\ last'[3] = pool[n].val
      BY <1>4, <1>5, <2>2 DEF LookedUp, Matches
    <3>2. HoldsEntry(pool, n, log, "irq")
      BY <1>4, <3>1 DEF Kept, Holds
    <3>3. Aborted \notin DOMAIN log
      BY <1>6, MembersOfList DEF Aborted
    <3> QED  BY <3>1, <3>2, <3>3 DEF HoldsEntry
  <2> QED  BY <2>1, <2>2
<1>8. FindsRegistered'
  BY <1>5, <1>6, <1>7 DEF FindsRegistered
<1>9. SendsArePermitted'
  BY <1>5 DEF SendsArePermitted
<1> QED  BY <1>2, <1>8, <1>9 DEF LookupsInv

\* virtual_device_handle.
LEMMA DevLooksUp ==
  ASSUME LookupsInv, NEW m \in Mode, NEW r \in Reg, NEW a \in Addr, NEW wnr \in BOOLEAN,
         DataAbort(m, r, a, wnr)
  PROVE  LookupsInv'
<1> DEFINE key == [start |-> a, end |-> a]
           n == Search(Now, "dev", key)
<1>1. pc = "guest" /\ UNCHANGED <<pc, tables, log>> /\ virtual_device_handle(m, r, a, wnr)
  BY DEF DataAbort
<1>2. /\ last' # << >> /\ last'[1] \in {"dev", "load", "store"} /\ last'[2] = a
      /\ last'[3] = IF n = Nil THEN Aborted ELSE pool[n].val
  <2> HIDE DEF n
  <2>1. \/ n = Nil /\ last' = <<"dev", a, Aborted>>
        \/ n # Nil /\ Device(pool[n].val, m, r, a, wnr)
    BY <1>1 DEF virtual_device_handle, n
  <2>2. ASSUME NEW h, Device(h, m, r, a, wnr)
        PROVE  \/ last' = <<"store", a, h, m, r, hyp_reg_read(m, r)>>
               \/ last' = <<"load", a, h, m, r>>
    BY <2>2 DEF Device
  <2>3. CASE n = Nil /\ last' = <<"dev", a, Aborted>>
    BY <2>3
  <2>4. CASE n # Nil /\ Device(pool[n].val, m, r, a, wnr)
    BY <2>2, <2>4
  <2> QED  BY <2>1, <2>3, <2>4
<1>3. TablesInv'
  BY <1>1, TablesStay DEF LookupsInv
<1>4. PICK NN : StoredIn(pool, head, log, NN)
  BY DEF LookupsInv, TablesInv, Stored
<1>5. LookedUp(pool, NN["dev"], n, "dev", key) /\ Kept("dev", pool, NN["dev"], log)
  <2>1. Forest(Now.pool, Now.head, NN) /\ Kept("dev", pool, NN["dev"], log)
    BY <1>4, NowIs DEF StoredIn, Table
  <2>2. "dev" \in Table /\ IsQuery("dev", key)
    BY TablesAssumption DEF Table, IsQuery
  <2> HIDE DEF key
  <2>3. LookedUp(Now.pool, NN["dev"], n, "dev", key)
    BY <2>1, <2>2, SearchForest
  <2> QED  BY <2>1, <2>3, NowIs
<1>6. key.start = a
  OBVIOUS
<1> HIDE DEF n, key
<1>7. log' = log /\ log \in Seq(LogType)
  BY <1>1 DEF LookupsInv, TablesInv
<1> DEFINE hit(k) == log[k][1] = "dev" /\ a \in log[k][2].start .. log[k][2].end - 1
<1>8. IF last'[3] = Aborted THEN \A k \in DOMAIN log : ~hit(k) ELSE hit(last'[3])
  <2>1. CASE n = Nil
    <3>1. ASSUME NEW k \in DOMAIN log, hit(k) PROVE FALSE
      <4>1. PICK x \in NN["dev"] : pool[x].key = log[k][2]
        BY <1>5, <3>1 DEF Kept, KeptIn
      <4>2. ~Matches("dev", pool[x].key, key)
        BY <1>5, <2>1 DEF LookedUp
      <4> QED  BY <1>6, <3>1, <4>1, <4>2 DEF Matches
    <3> QED  BY <1>2, <2>1, <3>1
  <2>2. CASE n # Nil
    <3>1. n \in NN["dev"] /\ Matches("dev", pool[n].key, key) /\ last'[3] = pool[n].val
      BY <1>2, <1>5, <2>2 DEF LookedUp
    <3>2. pool[n].val \in DOMAIN log /\ log[pool[n].val] = <<"dev", pool[n].key>>
      BY <1>5, <3>1 DEF Kept, Holds, HoldsEntry
    <3>3. log[pool[n].val][1] = "dev" /\ log[pool[n].val][2] = pool[n].key
      BY <3>2
    <3>4. hit(pool[n].val)
      BY <1>6, <3>1, <3>3 DEF Matches
    <3>5. Aborted \notin DOMAIN log
      BY <1>7, MembersOfList DEF Aborted
    <3> HIDE DEF hit
    <3> QED  BY <3>1, <3>2, <3>4, <3>5
  <2> QED  BY <2>1, <2>2
<1>9. FindsRegistered'
  BY <1>2, <1>7, <1>8 DEF FindsRegistered
<1>10. SendsArePermitted'
  BY <1>2 DEF SendsArePermitted
<1> QED  BY <1>3, <1>9, <1>10 DEF LookupsInv

\* vint_sender_interface.
LEMMA SendLooksUp ==
  ASSUME LookupsInv, NEW s \in Sender, NEW t \in Target, vint_sender_interface(s, t[1], t[2])
  PROVE  LookupsInv'
<1> DEFINE key == Key(t[1], t[2])
           n == Search(Now, "vint", key)
           res == IF n = Nil THEN "abort" ELSE IF s \in pool[n].val THEN "sent" ELSE "nothing"
           u == <<s, t[1], t[2]>>
<1>1. pc = "guest" /\ UNCHANGED <<pc, tables, log>> /\ last' = <<"send", u, res>>
  BY DEF vint_sender_interface
<1>2. TablesInv'
  BY <1>1, TablesStay DEF LookupsInv
<1>3. PICK NN : StoredIn(pool, head, log, NN)
  BY DEF LookupsInv, TablesInv, Stored
<1>4. LookedUp(pool, NN["vint"], n, "vint", key) /\ Kept("vint", pool, NN["vint"], log)
  <2>1. Forest(Now.pool, Now.head, NN) /\ Kept("vint", pool, NN["vint"], log)
    BY <1>3, NowIs DEF StoredIn, Table
  <2>2. "vint" \in Table /\ IsQuery("vint", key)
    BY KeyIsNat DEF Table, IsQuery
  <2> HIDE DEF key
  <2>3. LookedUp(Now.pool, NN["vint"], n, "vint", key)
    BY <2>1, <2>2, SearchForest
  <2> QED  BY <2>1, <2>3, NowIs
<1>5. log' = log /\ log \in Seq(LogType)
  BY <1>1 DEF LookupsInv, TablesInv
<1>6. {k \in DOMAIN log : log[k][1] = "vint" /\ SubSeq(log[k], 4, 5) = SubSeq(u, 2, 3)} = Grants(log, key)
  BY <1>5, GrantsAre
<1>7. u[1] = s
  OBVIOUS
<1> HIDE DEF u, key, n
<1> DEFINE grants == Grants(log, key)
           mine == {k \in grants : log[k][3] = s}
<1>8. /\ res = "sent" => mine # {}
      /\ res = "abort" <=> grants = {}
      /\ \A k \in mine : (\A j \in grants : k <= j) => res = "sent"
  <2>1. CASE n = Nil
    <3>1. grants = {}
      <4> SUFFICES ASSUME NEW k \in grants PROVE FALSE
        OBVIOUS
      <4>1. k \in DOMAIN log /\ log[k][1] = "vint" /\ log[k][2] = key
        BY DEF Grants
      <4>2. PICK x \in NN["vint"] : pool[x].key = log[k][2]
        BY <1>4, <4>1 DEF Kept, KeptIn
      <4> QED  BY <1>4, <2>1, <4>1, <4>2 DEF LookedUp, Matches
    <3> HIDE DEF grants
    <3> QED  BY <2>1, <3>1
  <2>2. CASE n # Nil
    <3>1. n \in NN["vint"] /\ pool[n].key = key
      BY <1>4, <2>2 DEF LookedUp, Matches
    <3>2. HoldsGrants(pool, n, log)
      BY <1>4, <3>1 DEF Kept, Holds
    <3>3. /\ \A x \in pool[n].val : \E k \in grants : x = log[k][3]
          /\ \E k \in grants : (\A j \in grants : k <= j) /\ log[k][3] \in pool[n].val
      BY <3>1, <3>2 DEF HoldsGrants
    <3>4. \A k \in grants : k \in Nat
      BY <1>5, MembersOfList DEF Grants
    <3> HIDE DEF grants
    <3>5. PICK k \in grants : (\A j \in grants : k <= j) /\ log[k][3] \in pool[n].val
      BY <3>3
    <3>6. ASSUME NEW l \in mine, \A j \in grants : l <= j PROVE s \in pool[n].val
      <4>1. l <= k /\ k <= l /\ l \in Nat /\ k \in Nat
        BY <3>4, <3>5, <3>6
      <4>2. l = k
        BY <4>1
      <4> QED  BY <3>5, <3>6, <4>2
    <3>7. res = IF s \in pool[n].val THEN "sent" ELSE "nothing"
      BY <2>2
    <3>8. s \in pool[n].val => mine # {}
      BY <3>3
    <3> HIDE DEF res, mine
    <3> QED  BY <3>5, <3>6, <3>7, <3>8
  <2> QED  BY <2>1, <2>2
<1> HIDE DEF res
<1>9. last' # << >> /\ last'[1] = "send" /\ last'[2] = u /\ last'[3] = res
  BY <1>1
<1>10. SendsArePermitted'
  <2> SUFFICES LET gs == {k \in DOMAIN log :
                            log[k][1] = "vint" /\ SubSeq(log[k], 4, 5) = SubSeq(u, 2, 3)}
                   ms == {k \in gs : log[k][3] = u[1]}
               IN  /\ res = "sent" => ms # {}
                   /\ res = "abort" <=> gs = {}
                   /\ \A k \in ms : (\A j \in gs : k <= j) => res = "sent"
    BY <1>5, <1>9 DEF SendsArePermitted
  <2> QED  BY <1>6, <1>7, <1>8
<1>11. FindsRegistered'
  BY <1>9 DEF FindsRegistered
<1> QED  BY <1>2, <1>10, <1>11 DEF LookupsInv

\* Every step.
LEMMA LookupsStep ==
  ASSUME LookupsInv, [Next]_vars
  PROVE  LookupsInv'
<1>1. CASE Start
  BY <1>1 DEF Start, tables, LookupsInv, TablesInv, FindsRegistered, SendsArePermitted
<1>2. CASE UNCHANGED vars
  BY <1>2 DEF vars, tables, LookupsInv, TablesInv, FindsRegistered, SendsArePermitted
<1> QED
  BY <1>1, <1>2, IrqRegistered, DevRegistered, SenderRegistered, IrqLooksUp, DevLooksUp, SendLooksUp
     DEF Next, AnyIrq

\* The inductive invariant is one of every step, and the properties follow.
LEMMA LookupsAlways ==
  /\ Init => LookupsInv
  /\ LookupsInv /\ [Next]_vars => LookupsInv'
  /\ LookupsInv => TreesExact /\ FindsRegistered /\ SendsArePermitted
<1>1. Init => LookupsInv
  BY InitTables DEF LookupsInv
<1>2. LookupsInv /\ [Next]_vars => LookupsInv'
  BY LookupsStep
<1>3. LookupsInv => TreesExact /\ FindsRegistered /\ SendsArePermitted
  BY ForestExact DEF LookupsInv, TablesInv, Stored, StoredIn
<1> QED  BY <1>1, <1>2, <1>3

\* TreesExact: whatever is registered, in whatever order, rbtree_insert leaves
\* three red-black trees, each in the order of its comparator, that share no node
\* and lose none.
THEOREM TreesStayRedBlack == Spec => []TreesExact
<1>1. Init => LookupsInv
  BY LookupsAlways
<1>2. LookupsInv /\ [Next]_vars => LookupsInv'
  BY LookupsAlways
<1>3. LookupsInv => TreesExact
  BY LookupsAlways
<1> QED  BY <1>1, <1>2, <1>3, PTL DEF Spec

\* FindsRegistered: an interrupt or an access reaches a handler registered for
\* it, wherever rotations have moved it, and is refused only if there is none.
THEOREM LookupsFindRegistered == Spec => []FindsRegistered
<1>1. Init => LookupsInv
  BY LookupsAlways
<1>2. LookupsInv /\ [Next]_vars => LookupsInv'
  BY LookupsAlways
<1>3. LookupsInv => FindsRegistered
  BY LookupsAlways
<1> QED  BY <1>1, <1>2, <1>3, PTL DEF Spec

\* SendsArePermitted: vint_sender_interface sends only what was permitted to that
\* sender, and always what was permitted to the first.
THEOREM SendsOnlyPermitted == Spec => []SendsArePermitted
<1>1. Init => LookupsInv
  BY LookupsAlways
<1>2. LookupsInv /\ [Next]_vars => LookupsInv'
  BY LookupsAlways
<1>3. LookupsInv => SendsArePermitted
  BY LookupsAlways
<1> QED  BY <1>1, <1>2, <1>3, PTL DEF Spec

-----------------------------------------------------------------------------
\* The registers.

Places == {Place(m, r) : m \in Mode, r \in Reg \ {15}}
Banks  == {Bank(m, r) : m \in Mode, r \in Reg \ {15}}

\* Two names of a register that hold defined values name one place exactly if
\* they name one register of the architecture, and the places a write leaves
\* undefined are nobody else's.
LEMMA PlacesAreBanks ==
  ASSUME NEW m \in Mode, NEW r \in Reg \ {15}, NEW n \in Mode, NEW q \in Reg \ {15}
  PROVE  Place(m, r) = Place(n, q) <=> Bank(m, r) = Bank(n, q)
<1>1. m \in {"usr", "fiq", "irq", "svc", "abt", "und", "sys"} /\
      n \in {"usr", "fiq", "irq", "svc", "abt", "und", "sys"} /\ r \in 0 .. 14 /\ q \in 0 .. 14
  BY TablesAssumption
<1> QED  BY <1>1 DEF Place, Bank

RegistersTyped ==
  /\ traps \in Nat
  /\ regs \in [Places -> Int]
  /\ arch \in [Banks -> Int]

RegistersInv == RegistersTyped /\ RegistersExact

\* A load through hyp_reg_write.
LEMMA WriteInv ==
  ASSUME RegistersInv, NEW m \in Mode, NEW r \in Reg, NEW v \in Nat, v # 0,
         hyp_reg_write(m, r, v), traps' \in Nat
  PROVE  /\ RegistersTyped'
         /\ \A n \in Mode, q \in Reg \ {15} :
              regs'[Place(n, q)] = arch'[Bank(n, q)] \/ ~Defined(n, q)
         /\ r = 15 => elr' # NextInst
<1>1. CASE r = 15
  BY <1>1 DEF RegistersInv, RegistersTyped, RegistersExact, hyp_reg_write, NextInst
<1>2. CASE r # 15
  <2>1. PICK x \in IF Defined(m, r) THEN {v} ELSE {v, Junk} :
          /\ regs' = [regs EXCEPT ![Place(m, r)] = x]
          /\ arch' = [arch EXCEPT ![Bank(m, r)] = v]
    BY <1>2 DEF hyp_reg_write
  <2>2. x \in Int /\ v \in Int /\ (Defined(m, r) => x = v)
    BY <2>1 DEF Junk
  <2>3. RegistersTyped'
    BY <2>1, <2>2 DEF RegistersInv, RegistersTyped
  <2>4. ASSUME NEW n \in Mode, NEW q \in Reg \ {15}
        PROVE  regs'[Place(n, q)] = arch'[Bank(n, q)] \/ ~Defined(n, q)
    <3>1. Place(m, r) = Place(n, q) <=> Bank(m, r) = Bank(n, q)
      BY <1>2, PlacesAreBanks
    <3>2. /\ Place(n, q) \in DOMAIN regs /\ Bank(n, q) \in DOMAIN arch
          /\ Place(m, r) \in DOMAIN regs /\ Bank(m, r) \in DOMAIN arch
      BY <1>2 DEF RegistersInv, RegistersTyped, Places, Banks
    <3>3. Bank(m, r) = Bank(n, q) => (Defined(m, r) <=> Defined(n, q))
      <4>1. m \in {"usr", "fiq", "irq", "svc", "abt", "und", "sys"} /\
            n \in {"usr", "fiq", "irq", "svc", "abt", "und", "sys"} /\ r \in 0 .. 14 /\ q \in 0 .. 14
        BY <1>2, TablesAssumption
      <4> QED  BY <4>1 DEF Bank, Defined
    <3>4. regs[Place(n, q)] = arch[Bank(n, q)] \/ ~Defined(n, q)
      BY DEF RegistersInv, RegistersExact
    <3>5. CASE Bank(m, r) = Bank(n, q)
      BY <2>1, <2>2, <3>1, <3>2, <3>3, <3>5
    <3>6. CASE Bank(m, r) # Bank(n, q)
      BY <2>1, <3>1, <3>2, <3>4, <3>6
    <3> QED  BY <3>5, <3>6
  <2> QED  BY <1>2, <2>3, <2>4
<1> QED  BY <1>1, <1>2

\* An emulated access writes the one register its mode names, and the next address.
LEMMA DataAbortRegisters ==
  ASSUME RegistersInv, NEW m \in Mode, NEW r \in Reg, NEW a \in Addr, NEW wnr \in BOOLEAN,
         DataAbort(m, r, a, wnr)
  PROVE  RegistersInv'
<1>1. traps' = traps + 1 /\ traps' \in Nat /\ traps' # 0 /\ virtual_device_handle(m, r, a, wnr)
  BY DEF DataAbort, RegistersInv, RegistersTyped
<1> DEFINE h == pool[Search(Now, "dev", [start |-> a, end |-> a])].val
<1>2. \/ last' = <<"dev", a, Aborted>> /\ elr' = NextInst /\ UNCHANGED <<regs, arch>>
      \/ Device(h, m, r, a, wnr)
  BY <1>1 DEF virtual_device_handle
<1> HIDE DEF h
<1>3. \/ last' = <<"dev", a, Aborted>> /\ UNCHANGED <<regs, arch>>
      \/ last' = <<"store", a, h, m, r, hyp_reg_read(m, r)>> /\ UNCHANGED <<regs, arch>>
      \/ last' = <<"load", a, h, m, r>> /\ hyp_reg_write(m, r, traps')
  BY <1>2 DEF Device
<1>4. CASE last' = <<"dev", a, Aborted>> /\ UNCHANGED <<regs, arch>>
  BY <1>1, <1>4 DEF RegistersInv, RegistersTyped, RegistersExact
<1>5. CASE last' = <<"store", a, h, m, r, hyp_reg_read(m, r)>> /\ UNCHANGED <<regs, arch>>
  BY <1>1, <1>5 DEF RegistersInv, RegistersTyped, RegistersExact
<1>6. CASE last' = <<"load", a, h, m, r>> /\ hyp_reg_write(m, r, traps')
  <2>1. /\ RegistersTyped'
        /\ \A n \in Mode, q \in Reg \ {15} :
             regs'[Place(n, q)] = arch'[Bank(n, q)] \/ ~Defined(n, q)
        /\ r = 15 => elr' # NextInst
    BY <1>1, <1>6, WriteInv
  <2>2. last'[5] = r
    BY <1>6
  <2> QED  BY <2>1, <2>2 DEF RegistersInv, RegistersExact
<1> QED  BY <1>3, <1>4, <1>5, <1>6

\* Every step.
LEMMA RegistersStep ==
  ASSUME RegistersInv, [Next]_vars
  PROVE  RegistersInv'
<1>1. CASE UNCHANGED <<guest, last, traps>>
  BY <1>1 DEF guest, RegistersInv, RegistersTyped, RegistersExact
<1>2. ASSUME NEW s, Registered(s) PROVE RegistersInv'
  BY <1>1, <1>2 DEF Registered
<1>3. ASSUME NEW i \in Irq, irq_handler_register(i) PROVE RegistersInv'
  BY <1>2, <1>3 DEF irq_handler_register
<1>4. ASSUME NEW r \in AddrRange, virtual_device_handle_register(r) PROVE RegistersInv'
  BY <1>2, <1>4 DEF virtual_device_handle_register
<1>5. ASSUME NEW s \in Sender, NEW t \in Target, vint_sender_add_permission(s, t[1], t[2])
      PROVE  RegistersInv'
  BY <1>2, <1>5 DEF vint_sender_add_permission
<1>6. CASE Start
  BY <1>1, <1>6 DEF Start
<1>7. ASSUME NEW i \in Irq \cup ToSet(Own), irq_handler(i) PROVE RegistersInv'
  BY <1>7 DEF irq_handler, guest, RegistersInv, RegistersTyped, RegistersExact
<1>8. ASSUME NEW s \in Sender, NEW t \in Target, vint_sender_interface(s, t[1], t[2])
      PROVE  RegistersInv'
  BY <1>8 DEF vint_sender_interface, guest, RegistersInv, RegistersTyped, RegistersExact
<1>9. CASE UNCHANGED vars
  BY <1>1, <1>9 DEF vars
<1> QED
  BY <1>3, <1>4, <1>5, <1>6, <1>7, <1>8, <1>9, DataAbortRegisters DEF Next

\* RegistersExact: whatever modes a guest loads and stores from, hyp_reg_write
\* and hyp_reg_read reach the register the architecture names, and a load of the
\* program counter is not undone.
THEOREM RegistersAsBanked == Spec => []RegistersExact
<1>1. Init => RegistersInv
  <2> SUFFICES ASSUME Init PROVE RegistersInv
    OBVIOUS
  <2>1. /\ regs = [p \in Places |-> Old] /\ arch = [b \in Banks |-> Old]
        /\ traps = 0 /\ last = << >>
    BY DEF Init, Places, Banks
  <2>2. \A m \in Mode, r \in Reg \ {15} : Place(m, r) \in Places /\ Bank(m, r) \in Banks
    BY DEF Places, Banks
  <2> QED  BY <2>1, <2>2 DEF Old, RegistersInv, RegistersTyped, RegistersExact
<1>2. RegistersInv /\ [Next]_vars => RegistersInv'
  BY RegistersStep
<1>3. RegistersInv => RegistersExact
  BY DEF RegistersInv
<1> QED  BY <1>1, <1>2, <1>3, PTL DEF Spec
=============================================================================
