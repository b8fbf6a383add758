------------------------------- MODULE Queue -------------------------------
(***************************************************************************)
(* The intrusive doubly linked lists of queue.c, pointer by pointer.  A    *)
(* list owns two sentinels; a node carries its own links and lies on at    *)
(* most one list.  m is the memory: the next and prev fields of every      *)
(* sentinel and node.  Operators return the memory after the call.         *)
(***************************************************************************)
EXTENDS Naturals, Sequences, FiniteSets

CONSTANTS NULL

HeadOf(l) == <<"head", l>>
TailOf(l) == <<"tail", l>>

\* All the memory there is: the sentinels of the lists L and the nodes Q.
Unlinked(L, Q) ==
  LET addr == {HeadOf(l) : l \in L} \cup {TailOf(l) : l \in L} \cup Q
  IN  [next |-> [a \in addr |-> NULL], prev |-> [a \in addr |-> NULL]]

queue_list_init(m, l) ==
  [next |-> [m.next EXCEPT ![HeadOf(l)] = TailOf(l), ![TailOf(l)] = NULL],
   prev |-> [m.prev EXCEPT ![HeadOf(l)] = NULL, ![TailOf(l)] = HeadOf(l)]]

queue_remove(m, q) ==
  [next |-> [m.next EXCEPT ![m.prev[q]] = m.next[q], ![q] = NULL],
   prev |-> [m.prev EXCEPT ![m.next[q]] = m.prev[q], ![q] = NULL]]

\* After p; before n.
queue_insert(m, q, p) ==
  [next |-> [m.next EXCEPT ![q] = m.next[p], ![p] = q],
   prev |-> [m.prev EXCEPT ![m.next[p]] = q, ![q] = p]]

queue_insert_prev(m, q, n) ==
  [next |-> [m.next EXCEPT ![m.prev[n]] = q, ![q] = n],
   prev |-> [m.prev EXCEPT ![q] = m.prev[n], ![n] = q]]

queue_list_enque(m, l, q) == queue_insert(m, q, m.prev[TailOf(l)])

queue_list_is_empty(m, l) == m.next[m.next[HeadOf(l)]] = NULL

\* Both are called on lists that are not empty.
queue_list_top(m, l) == m.next[HeadOf(l)]
queue_list_pop(m, l) == queue_remove(m, queue_list_top(m, l))

-----------------------------------------------------------------------------
\* The walks from the head.  Walk(m, l)[k] is the address after k steps.

Walk(m, l) ==
  LET walk[k \in 0 .. Cardinality(DOMAIN m.next)] ==
        IF k = 0 THEN HeadOf(l)
        ELSE IF walk[k-1] = NULL THEN NULL ELSE m.next[walk[k-1]]
  IN  walk

\* The nodes a walk meets before the tail, in order.
Items(m, l) ==
  LET w == Walk(m, l)
      t == CHOOSE k \in DOMAIN w : w[k] = TailOf(l)
  IN  [i \in 1 .. t - 1 |-> w[i]]

queue_list_find(m, l, q) == \E i \in DOMAIN Items(m, l) : Items(m, l)[i] = q

\* What queue_test expects of a list after every call.
queue_list_check(m, l) ==
  LET w == Walk(m, l)
  IN  /\ m.prev[HeadOf(l)] = NULL /\ m.next[TailOf(l)] = NULL
      /\ \E t \in DOMAIN w :
           /\ w[t] = TailOf(l)
           /\ \A k \in 1 .. t : m.prev[w[k]] = w[k-1]
=============================================================================
