------------------------------- MODULE RbTree -------------------------------
(***************************************************************************)
(* The red-black tree of rbtree.c.  A pool is the sequence of the nodes    *)
(* handed out so far, for all trees; a node is named by its index, and Nil *)
(* is the null pointer.  A tree is the index of its head.                  *)
(*                                                                         *)
(* Nothing calls rbtree_delete, so the free list "ls" stays empty and a    *)
(* node, once handed out, stays in its tree.                               *)
(***************************************************************************)
EXTENDS Integers, SequencesExt

Nil == 0

rbtree_node_alloc(pool, key, val) ==
  Append(pool, [key |-> key, val |-> val, left |-> Nil, right |-> Nil,
                par |-> Nil, red |-> TRUE])

\* The child c of n on that side, and n the parent of c if there is one.
WithChild(p, n, side, c) ==
  IF side = "left" THEN [p EXCEPT ![n].left = c] ELSE [p EXCEPT ![n].right = c]
WithParent(p, c, n) == IF c = Nil THEN p ELSE [p EXCEPT ![c].par = n]
Linked(p, n, side, c) == WithParent(WithChild(p, n, side, c), c, n)

\* The keys and values of n and m change places.
Swapped(p, n, m) ==
  LET With(a, b) == [key |-> b.key, val |-> b.val, left |-> a.left, right |-> a.right,
                     par |-> a.par, red |-> a.red]
  IN  [p EXCEPT ![n] = With(p[n], p[m]), ![m] = With(p[m], p[n])]

-----------------------------------------------------------------------------
\* Faulty variants, used by no operator.

NeverRed(p, u) == FALSE

-----------------------------------------------------------------------------
\* rotate: the four shapes of tar, its parent and its grandparent.  In three of
\* them the nodes stay and keys and values move.

RotateLL(p, par, g) ==
  LET gg == p[g].par
      p1 == [p EXCEPT ![par].par = gg]
      p2 == IF gg = Nil THEN p1
            ELSE Linked(p1, gg, IF p[gg].left = g THEN "left" ELSE "right", par)
      p3 == Linked(p2, g, "left", p[par].right)
  IN  [pool |-> Linked(p3, par, "right", g), top |-> par]

RotateLR(p, t, par, g) ==
  LET p1 == Swapped([p EXCEPT ![t].red = FALSE], g, t)
      p2 == Linked(p1, par, "right", p[t].left)
      p3 == Linked(p2, t, "left", p[t].right)
      p4 == Linked(p3, t, "right", p[g].right)
  IN  [pool |-> Linked(p4, g, "right", t), top |-> g]

RotateRR(p, t, par, g) ==
  LET p1 == Swapped(Swapped(p, g, par), par, t)
      p2 == Linked(p1, par, "right", p[t].right)
      p3 == Linked(p2, t, "right", p[par].left)
      p4 == Linked(p3, par, "left", p[t].left)
      p5 == Linked(p4, t, "left", p[g].left)
      p6 == Linked(p5, g, "left", t)
  IN  [pool |-> [p6 EXCEPT ![g].red = FALSE, ![par].red = TRUE], top |-> g]

RotateRL(p, t, par, g) ==
  LET p1 == Swapped([p EXCEPT ![t].red = FALSE], g, t)
      p2 == Linked(p1, par, "left", p[t].right)
      p3 == Linked(p2, t, "right", p[t].left)
      p4 == Linked(p3, t, "left", p[g].left)
  IN  [pool |-> Linked(p4, g, "left", t), top |-> g]

rotate(p, t) ==
  LET par == p[t].par
      g   == p[par].par
  IN  IF p[g].left = par
      THEN IF p[par].left = t THEN RotateLL(p, par, g) ELSE RotateLR(p, t, par, g)
      ELSE IF p[par].right = t THEN RotateRR(p, t, par, g) ELSE RotateRL(p, t, par, g)

-----------------------------------------------------------------------------
Side(cmp) == IF cmp > 0 THEN "right" ELSE "left"
Child(p, n, side) == IF side = "left" THEN p[n].left ELSE p[n].right

\* For insertion and search, comp[n] is what the comparator of the tree returns
\* for the key of its node n and the key in question.

\* The node under which a key is inserted.
Spot(p, head, comp) ==
  LET down[n \in DOMAIN p] ==
        LET next == Child(p, n, Side(comp[n]))
        IN  IF next = Nil THEN n ELSE down[next]
  IN  down[head]

RedUncle(p, u) == u # Nil /\ p[u].red

\* One turn of the loop that removes a red child of a red node.
Rebalanced(s) ==
  LET t   == s.tar
      par == s.pool[t].par
      g   == s.pool[par].par
      u   == IF s.pool[g].left = par THEN s.pool[g].right ELSE s.pool[g].left
      q   == [s.pool EXCEPT ![par].red = FALSE, ![g].red = TRUE]
      r   == IF RedUncle(q, u) THEN [pool |-> [q EXCEPT ![u].red = FALSE], top |-> g]
             ELSE rotate(q, t)
  IN  IF ~s.pool[t].red \/ ~s.pool[par].red THEN s
      ELSE IF r.pool[r.top].par # Nil THEN [pool |-> r.pool, tar |-> r.top, head |-> s.head]
      ELSE [pool |-> [r.pool EXCEPT ![r.top].red = FALSE], tar |-> r.top, head |-> r.top]

rbtree_insert(pool, head, key, val, comp) ==
  LET p    == rbtree_node_alloc(pool, key, val)
      t    == Len(p)
      n    == Spot(pool, head, comp)
      turn[k \in 0 .. t] ==
        IF k = 0 THEN [pool |-> Linked(p, n, Side(comp[n]), t),
                       tar |-> t, head |-> head]
        ELSE Rebalanced(turn[k-1])
  IN  IF head = Nil THEN [pool |-> [p EXCEPT ![t].red = FALSE], head |-> t]
      ELSE [pool |-> turn[t].pool, head |-> turn[t].head]

\* The first node on the way down whose key compares equal, or Nil.
rbtree_search(p, head, comp) ==
  LET down[n \in 0 .. Len(p)] ==
        IF n = Nil \/ comp[n] = 0 THEN n ELSE down[Child(p, n, Side(comp[n]))]
  IN  down[head]

-----------------------------------------------------------------------------
\* What every tree is after every insertion.

\* The nodes under n, in order; the nodes from n up to the head.
InOrder(p, head) ==
  LET walk[n \in 0 .. Len(p)] ==
        IF n = Nil THEN << >> ELSE walk[p[n].left] \o <<n>> \o walk[p[n].right]
  IN  walk[head]

BlacksAbove(p) ==
  LET up[n \in 0 .. Len(p)] ==
        IF n = Nil THEN 0 ELSE up[p[n].par] + (IF p[n].red THEN 0 ELSE 1)
  IN  up

IsRedBlack(p, head) ==
  LET nodes == ToSet(InOrder(p, head))
      ends  == {n \in nodes : Nil \in {p[n].left, p[n].right}}
  IN  /\ head # Nil => ~p[head].red /\ p[head].par = Nil
      /\ \A n \in nodes : \A c \in {p[n].left, p[n].right} \ {Nil} :
           p[c].par = n /\ ~(p[n].red /\ p[c].red)
      /\ \A n, m \in ends : BlacksAbove(p)[n] = BlacksAbove(p)[m]

IsOrdered(p, head, comp(_, _)) ==
  LET w == InOrder(p, head)
  IN  \A i, j \in DOMAIN w : i < j => comp(p[w[i]].key, p[w[j]].key) >= 0
=============================================================================
