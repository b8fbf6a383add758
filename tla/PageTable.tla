----------------------------- MODULE PageTable ------------------------------
(***************************************************************************)
(* The stage-2 page tables of page_table.c: three levels, built from the   *)
(* memory areas of each VM's configuration.  Addresses count pages.  A     *)
(* first-level entry covers J * K pages (1 GB), a second-level entry K     *)
(* pages (2 MB): a block, or a table of K pages.                           *)
(***************************************************************************)
EXTENDS Naturals, SequencesExt, FiniteSetsExt

CONSTANTS
  I, J, K,    \* entries of a table: 4, 512, 512
  NUM_OF_T_VM,
  Layout,     \* for each VM, in the order of vm_init, the arrays it may be given
  Area,       \* the areas vm_add_page may be given
  MaxTables,  \* table_max_num
  MaxAreas    \* bound: the areas of a VM that vm_add_page adds to

\* An area maps the pages virt .. virt + size - 1 to those from start.  One that
\* holds a whole block maps it to a block.  None reaches the last page: its end,
\* as a 32-bit address, would be 0.
WellFormed(a) ==
  /\ a \in [virt : Nat, size : Nat, start : Nat]
  /\ a.size > 0 /\ a.virt + a.size < I * J * K
  /\ a.virt % K = a.start % K \/ a.virt \div K + 1 >= (a.virt + a.size) \div K

ASSUME PageTableAssumption ==
  /\ {I, J, K, NUM_OF_T_VM, MaxTables, MaxAreas} \subseteq Nat
  /\ I > 0 /\ J > 0 /\ K > 0
  /\ \A a \in Area : WellFormed(a)
  /\ \A v \in 1 .. NUM_OF_T_VM : \A array \in Layout[v] :
       array \in Seq(ToSet(array)) /\ \A a \in ToSet(array) : WellFormed(a)

VARIABLES
  tab,    \* the memory of the tables: table -> index -> entry
  count,  \* table_count
  root,   \* the first-level table of each VM there is, in order
  added   \* history: the areas of each VM, in order

vars == <<tab, count, root, added>>

Page == 0 .. I * J * K - 1
None == [bits |-> 0, to |-> 0, attr |-> 0]
Entry(bits, to, attr) == [bits |-> bits, to |-> to, attr |-> attr]
Idx(p) == p \div (J * K)
Jdx(p) == (p \div K) % J
Kdx(p) == p % K

-----------------------------------------------------------------------------
\* Faulty variants, used by no action.

EveryFirst(w, jend) == w.kdx # 0
AnyRoot(s)          == s.count

-----------------------------------------------------------------------------
\* s is the memory: its tables and the count.

IsBlock(e) == e.bits = 1

\* page_table_get_new_table: the table, and the count after it.
NewTable(s)  == s.count
Took(s)      == [s EXCEPT !.count = @ + 1]

\* A table, written over by the entries of f.
Over(f, table) == [k \in DOMAIN table |-> IF k \in DOMAIN f THEN f[k] ELSE table[k]]

\* The pages of a block, for a table in its place.
Split(e) == [k \in 0 .. K - 1 |-> Entry(3, e.to + k, e.attr)]

page_table_add_third_level(s, t, j) ==
  LET e == s.tab[t][j]
      n == NewTable(s)
      linked == [Took(s) EXCEPT !.tab[t][j] = Entry(3, n, 0)]
  IN  CASE e = None   -> linked
        [] IsBlock(e) -> [linked EXCEPT !.tab[n] = Over(Split(e), @)]
        [] OTHER      -> s

\* w is a walk over an area: the memory, the indices it has come to, the attributes
\* and the page the next entry is for.

\* The entries k .. kend - 1 of the third-level table at jdx.
AddPages(w, kend) ==
  LET t == w.tab[w.root][w.idx].to
      s == page_table_add_third_level(w, t, w.jdx)
      n == s.tab[t][w.jdx].to
  IN  [s EXCEPT !.tab[n] = Over([k \in w.kdx .. kend - 1 |->
                                   Entry(3, w.start_p + (k - w.kdx), w.attr)], @),
                !.start_p = @ + (kend - w.kdx)]

\* The blocks jdx .. jend - 1.
AddBlocks(w, jend) ==
  LET t == w.tab[w.root][w.idx].to
  IN  IF w.jdx >= jend THEN w
      ELSE [w EXCEPT !.tab[t] = Over([j \in w.jdx .. jend - 1 |->
                                        Entry(1, w.start_p + K * (j - w.jdx), w.attr)], @),
                     !.start_p = @ + K * (jend - w.jdx),
                     !.jdx = jend]

\* An area that begins inside a block that it fills to the end.
StartsInside(w, jend) == w.kdx # 0 /\ w.jdx < jend

AddUpTo(w, jend) ==
  AddBlocks(IF StartsInside(w, jend)
            THEN [AddPages(w, K) EXCEPT !.jdx = @ + 1, !.kdx = 0]
            ELSE w, jend)

AddGigabyte(w) == [AddUpTo(w, J) EXCEPT !.jdx = 0, !.idx = @ + 1]

\* One turn of page_table_add_pages: s with the area a mapped under the table r.
AddArea(s, r, a) ==
  LET end == a.virt + a.size
      w0  == [tab |-> s.tab, count |-> s.count, root |-> r, start_p |-> a.start,
              attr |-> a.attr, idx |-> Idx(a.virt), jdx |-> Jdx(a.virt), kdx |-> Kdx(a.virt)]
      n   == Idx(end) - Idx(a.virt)
      turn[i \in 0 .. n] == IF i = 0 THEN w0 ELSE AddGigabyte(turn[i-1])
      w2  == AddUpTo(turn[n], Jdx(end))
      w3  == IF w2.kdx < Kdx(end) THEN AddPages(w2, Kdx(end)) ELSE w2
  IN  [tab |-> w3.tab, count |-> w3.count]

\* areas carry as attribute their place in the VM's history.
Labelled(array, n) == [i \in DOMAIN array |-> [virt |-> array[i].virt, size |-> array[i].size,
                                          start |-> array[i].start, attr |-> n + i]]

page_table_add_pages(s, r, areas) ==
  LET turn[i \in 0 .. Len(areas)] == IF i = 0 THEN s ELSE AddArea(turn[i-1], r, areas[i])
  IN  turn[Len(areas)]

\* page_table_setup: a first-level table on an even place, the place after it left
\* out, and its second-level tables.
Root(s) == s.count + (s.count % 2)

page_table_setup(s, areas) ==
  LET r == Root(s)
      t == [tab   |-> [s.tab EXCEPT ![r] = Over([i \in 0 .. I - 1 |-> Entry(3, r + 2 + i, 0)], @)],
            count |-> r + 2 + I]
  IN  page_table_add_pages(t, r, areas)

-----------------------------------------------------------------------------
Init ==
  /\ tab = [t \in 0 .. MaxTables - 1 |-> [i \in 0 .. Max({I, J, K}) - 1 |-> None]]
  /\ count = 0
  /\ root = << >> /\ added = << >>

\* The memory becomes m, unless page_table_get_new_table aborts.
Built(m) ==
  \E s \in {m} : s.count <= MaxTables /\ tab' = s.tab /\ count' = s.count

Memory == [tab |-> tab, count |-> count]

vm_init(array) ==
  LET areas == Labelled(array, 0) IN
  /\ Built(page_table_setup(Memory, areas))
  /\ root' = Append(root, Root(Memory))
  /\ added' = Append(added, areas)

vm_add_page(v, a) ==
  LET areas == Labelled(<<a>>, Len(added[v])) IN
  /\ Built(page_table_add_pages(Memory, root[v], areas))
  /\ added' = [added EXCEPT ![v] = @ \o areas]
  /\ UNCHANGED root

Next ==
  \/ /\ Len(root) < NUM_OF_T_VM
     /\ \E array \in Layout[Len(root) + 1] : vm_init(array)
  \/ \E v \in DOMAIN root, a \in Area : Len(added[v]) < MaxAreas /\ vm_add_page(v, a)

Spec == Init /\ [][Next]_vars

-----------------------------------------------------------------------------
\* The architecture: the walk of a VM's tables for a page.
Walk(v, p) ==
  LET e1 == tab[root[v]][Idx(p)]
      e2 == tab[e1.to][Jdx(p)]
      e3 == tab[e2.to][Kdx(p)]
  IN  CASE e2 = None   -> None
        [] IsBlock(e2) -> Entry(3, e2.to + Kdx(p), e2.attr)
        [] OTHER       -> e3

\* Wherever areas begin and end, overlap, split blocks and replace tables, each
\* page of each VM is mapped by the last area that holds it, to the right page,
\* and not at all if there is none.
MapsExactly ==
  \A v \in DOMAIN root, p \in Page :
    LET by == {k \in DOMAIN added[v] :
                 p \in added[v][k].virt .. added[v][k].virt + added[v][k].size - 1}
    IN  Walk(v, p) = IF by = {} THEN None
                     ELSE LET a == added[v][Max(by)]
                          IN  Entry(3, a.start + (p - a.virt), a.attr)

\* No table is in use twice, in one VM or two: every entry that names a table, and
\* every root, names one of its own, of those handed out; and a root has the two
\* places, the first of them even, that its size takes.
TablesUnshared ==
  LET roots    == {root[v] : v \in DOMAIN root}
      seconds  == {tab[r][i].to : r \in roots, i \in 0 .. I - 1}
      entries  == {e \in (roots \cup seconds) \X DOMAIN tab[0] : tab[e[1]][e[2]].bits = 3}
      named(e) == tab[e[1]][e[2]].to
  IN  /\ \A e \in entries : /\ named(e) < count
                            /\ named(e) \notin roots \cup {r + 1 : r \in roots}
                            /\ \A f \in entries : named(e) = named(f) => e = f
      /\ \A r \in roots : r % 2 = 0 /\ r + 1 < count
      /\ \A v, w \in DOMAIN root : root[v] = root[w] => v = w
=============================================================================
