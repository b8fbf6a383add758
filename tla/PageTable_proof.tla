--------------------------- MODULE PageTable_proof ---------------------------
(***************************************************************************)
(* page_table.c maps exactly the areas it is given, and never uses a table *)
(* twice, for tables of any size, any number of VMs and any areas: the     *)
(* invariants of PageTable.                                                *)
(***************************************************************************)
EXTENDS PageTable, ListLemmas

-----------------------------------------------------------------------------
\* Pages and the indices of the three levels.

Position(i, j, k) == (i * J + j) * K + k

LEMMA Sizes ==
  /\ I \in Nat /\ J \in Nat /\ K \in Nat /\ I > 0 /\ J > 0 /\ K > 0
  /\ MaxTables \in Nat /\ NUM_OF_T_VM \in Nat /\ MaxAreas \in Nat
BY PageTableAssumption

\* Division, as the provers need it of a divisor that is a variable.
LEMMA Quotient ==
  ASSUME NEW n \in Nat, NEW d \in Nat, d > 0
  PROVE  /\ n \div d \in Nat /\ n % d \in 0 .. d - 1
         /\ n = (n \div d) * d + (n % d)
OBVIOUS

LEMMA Products ==
  ASSUME NEW a \in Int, NEW b \in Int, NEW c \in Nat, a <= b
  PROVE  a * c <= b * c
OBVIOUS

LEMMA QuotientUnique ==
  ASSUME NEW n \in Nat, NEW d \in Nat, d > 0, NEW q \in Nat, NEW r \in 0 .. d - 1,
         n = q * d + r
  PROVE  n \div d = q /\ n % d = r
<1> DEFINE x == n \div d
<1>1. x \in Nat /\ n % d \in 0 .. d - 1 /\ n = x * d + (n % d)
  BY Quotient
<1> HIDE DEF x
<1>2. ~(x < q)
  <2>1. SUFFICES ASSUME x + 1 <= q PROVE FALSE
    BY <1>1
  <2>2. (x + 1) * d <= q * d
    BY <1>1, <2>1, Products
  <2>3. (x + 1) * d = x * d + d
    BY <1>1
  <2> QED  BY <1>1, <2>2, <2>3
<1>3. ~(q < x)
  <2>1. SUFFICES ASSUME q + 1 <= x PROVE FALSE
    BY <1>1
  <2>2. (q + 1) * d <= x * d
    BY <1>1, <2>1, Products
  <2>3. (q + 1) * d = q * d + d
    BY <1>1
  <2> QED  BY <1>1, <2>2, <2>3
<1>4. x = q
  BY <1>1, <1>2, <1>3
<1> QED  BY <1>1, <1>4 DEF x

LEMMA PageIndices ==
  ASSUME NEW p \in Nat
  PROVE  /\ Idx(p) \in Nat /\ Jdx(p) \in 0 .. J - 1 /\ Kdx(p) \in 0 .. K - 1
         /\ p = Position(Idx(p), Jdx(p), Kdx(p))
<1> DEFINE b == p \div K
           i == b \div J
<1>1. b \in Nat /\ p % K \in 0 .. K - 1 /\ p = b * K + (p % K)
  BY Sizes, Quotient
<1> HIDE DEF b
<1>2. i \in Nat /\ b % J \in 0 .. J - 1 /\ b = i * J + (b % J)
  BY <1>1, Sizes, Quotient
<1> HIDE DEF i
<1>3. J * K \in Nat /\ J * K > 0 /\ (b % J) * K + (p % K) \in 0 .. J * K - 1
  <2>1. (b % J) * K <= (J - 1) * K
    BY <1>2, Sizes, Products
  <2>2. (J - 1) * K = J * K - K /\ J * K \in Nat /\ 0 * K <= (b % J) * K /\ 1 * K <= J * K
    BY <1>2, Sizes, Products
  <2>3. (b % J) * K \in Nat
    BY <1>2, Sizes
  <2> QED  BY <1>1, <2>1, <2>2, <2>3, Sizes
<1>4. p = i * (J * K) + ((b % J) * K + (p % K))
  <2>1. (i * J + (b % J)) * K = i * (J * K) + (b % J) * K
    BY <1>2, Sizes
  <2>2. i * (J * K) \in Nat /\ (b % J) * K \in Nat
    BY <1>2, <1>3, Sizes
  <2> QED  BY <1>1, <1>2, <2>1, <2>2
<1>5. p \div (J * K) = i
  BY <1>2, <1>3, <1>4, QuotientUnique
<1> QED  BY <1>1, <1>2, <1>5 DEF b, Idx, Jdx, Kdx, Position

LEMMA Rows ==
  ASSUME NEW a \in Nat, NEW b \in Nat, NEW d \in Nat, NEW r \in 0 .. d - 1
  PROVE  a * d <= b * d + r <=> a <= b
<1>1. a <= b => a * d <= b * d
  BY Products
<1>2. b + 1 <= a => (b + 1) * d <= a * d
  BY Products
<1>3. (b + 1) * d = b * d + d /\ a * d \in Nat /\ b * d \in Nat
  OBVIOUS
<1> QED  BY <1>1, <1>2, <1>3

LEMMA Positions ==
  ASSUME NEW i \in Nat, NEW j \in Nat
  PROVE  /\ \A k \in Nat : /\ Position(i, j, k) \in Nat
                          /\ Position(i, j, k) = Position(i, j, 0) + k
         /\ \A l \in Nat : Position(i, j + l, 0) = Position(i, j, 0) + K * l
         /\ Position(i, j, K) = Position(i, j + 1, 0)
         /\ Position(i, J, 0) = Position(i + 1, 0, 0)
<1>1. i * J \in Nat /\ (i * J + j) * K \in Nat /\ (i + 1) * J = i * J + J
  BY Sizes
<1>2. ASSUME NEW l \in Nat PROVE (i * J + (j + l)) * K = (i * J + j) * K + K * l
  BY <1>1, Sizes
<1>3. Position(i, j, K) = Position(i, j + 1, 0)
  BY <1>1, <1>2, Sizes DEF Position
<1>4. \A k \in Nat : Position(i, j, k) \in Nat /\ Position(i, j, k) = Position(i, j, 0) + k
  BY <1>1, Sizes DEF Position
<1>5. \A l \in Nat : Position(i, j + l, 0) = Position(i, j, 0) + K * l
  <2>1. ASSUME NEW l \in Nat PROVE K * l \in Nat
    BY Sizes
  <2> QED  BY <1>1, <1>2, <2>1, Sizes DEF Position
<1>6. Position(i, J, 0) = Position(i + 1, 0, 0)
  BY <1>1, Sizes DEF Position
<1> QED  BY <1>3, <1>4, <1>5, <1>6

\* The pages of some blocks of a second-level table, and of some entries of a
\* third-level one.
LEMMA PagesOfBlocks ==
  ASSUME NEW p \in Nat, NEW i \in Nat, NEW j \in 0 .. J, NEW jend \in 0 .. J
  PROVE  Idx(p) = i /\ Jdx(p) \in j .. jend - 1
           <=> Position(i, j, 0) <= p /\ p < Position(i, jend, 0)
<1> DEFINE b == Idx(p) * J + Jdx(p)
<1>1. /\ Idx(p) \in Nat /\ Jdx(p) \in 0 .. J - 1 /\ Kdx(p) \in 0 .. K - 1
      /\ p = b * K + Kdx(p)
  BY PageIndices DEF Position
<1>2. b \in Nat /\ i * J \in Nat /\ Idx(p) * J \in Nat /\ (i + 1) * J = i * J + J
  BY <1>1, Sizes
<1>3. /\ Idx(p) = i <=> i * J <= b /\ ~((i + 1) * J <= b)
      /\ Idx(p) = i => b = i * J + Jdx(p)
  <2>1. \A n \in Nat : n * J <= Idx(p) * J + Jdx(p) <=> n <= Idx(p)
    BY <1>1, Rows, Sizes
  <2>2. i \in Nat /\ i + 1 \in Nat
    OBVIOUS
  <2>3. i * J <= b <=> i <= Idx(p)
    BY <2>1
  <2>4. (i + 1) * J <= b <=> i + 1 <= Idx(p)
    BY <2>1, <2>2
  <2>6. Idx(p) = i => b = i * J + Jdx(p)
    BY Zenon DEF b
  <2> HIDE DEF b
  <2>5. Idx(p) = i <=> i * J <= b /\ ~((i + 1) * J <= b)
    BY <1>1, <2>3, <2>4
  <2> QED  BY <2>5, <2>6
<1> HIDE DEF b
<1>4. \A n \in Nat : n * K <= p <=> n <= b
  BY <1>1, <1>2, Rows, Sizes
<1>5. /\ Position(i, j, 0) = (i * J + j) * K /\ i * J + j \in Nat
      /\ Position(i, jend, 0) = (i * J + jend) * K /\ i * J + jend \in Nat
  BY <1>2, Sizes DEF Position
<1>6. /\ Position(i, j, 0) <= p <=> i * J + j <= b
      /\ Position(i, jend, 0) <= p <=> i * J + jend <= b
  BY <1>4, <1>5
<1>7. Position(i, jend, 0) \in Nat
  BY Positions, Sizes
<1>8. Idx(p) = i /\ Jdx(p) \in j .. jend - 1 <=> i * J + j <= b /\ ~(i * J + jend <= b)
  BY <1>1, <1>2, <1>3, Sizes
<1> QED  BY <1>6, <1>7, <1>8

LEMMA PagesOfEntries ==
  ASSUME NEW p \in Nat, NEW i \in Nat, NEW j \in 0 .. J - 1, NEW k \in 0 .. K, NEW kend \in 0 .. K
  PROVE  Idx(p) = i /\ Jdx(p) = j /\ Kdx(p) \in k .. kend - 1
           <=> Position(i, j, k) <= p /\ p < Position(i, j, kend)
<1>1. /\ Idx(p) \in Nat /\ Jdx(p) \in 0 .. J - 1 /\ Kdx(p) \in 0 .. K - 1
      /\ p = Position(Idx(p), Jdx(p), Kdx(p))
  BY PageIndices
<1>2. Idx(p) = i /\ Jdx(p) = j <=> Position(i, j, 0) <= p /\ p < Position(i, j + 1, 0)
  <2>1. j \in 0 .. J /\ j + 1 \in 0 .. J
    BY Sizes
  <2>2. Jdx(p) = j <=> Jdx(p) \in j .. (j + 1) - 1
    BY <1>1
  <2> QED  BY <2>1, <2>2, PagesOfBlocks
<1>3. /\ Position(i, j, k) = Position(i, j, 0) + k /\ Position(i, j, 0) \in Nat
      /\ Position(i, j, kend) = Position(i, j, 0) + kend
      /\ Position(i, j + 1, 0) = Position(i, j, 0) + K
  <2>1. k \in Nat /\ kend \in Nat /\ j \in Nat /\ 0 \in Nat
    BY Sizes
  <2>2. \A x \in Nat : /\ Position(i, j, x) \in Nat
                      /\ Position(i, j, x) = Position(i, j, 0) + x
    BY <2>1, Positions
  <2>3. Position(i, j, K) = Position(i, j + 1, 0)
    BY <2>1, Positions
  <2> QED  BY <2>1, <2>2, <2>3, Sizes
<1>4. Idx(p) = i /\ Jdx(p) = j => p = Position(i, j, 0) + Kdx(p)
  BY <1>1, Positions, Sizes
<1> QED  BY <1>1, <1>2, <1>3, <1>4, Sizes

-----------------------------------------------------------------------------
\* The memory of the tables, for the VMs whose roots are R.

Place     == 0 .. Max({I, J, K}) - 1
Table     == 0 .. MaxTables - 1
EntryType == [bits : {0, 1, 3}, to : Nat, attr : Nat]

\* The places page_table_setup takes for the roots, and the second-level tables.
Fixed(R)   == {t \in Nat : \E r \in R : r <= t /\ t <= r + 1 + I}
Seconds(R) == {t \in Nat : \E r \in R : r + 2 <= t /\ t <= r + 1 + I}

Roots(R, c) ==
  /\ R \subseteq Nat
  /\ \A r \in R : r % 2 = 0 /\ r + 1 + I < c
  /\ \A r, q \in R : r < q => r + 1 + I < q

\* Tables not handed out are blank; an entry of a second-level table is blank, a
\* block, or names a third-level table that no other entry names.
Sound(tb, c, R) ==
  /\ tb \in [Table -> [Place -> EntryType]] /\ c \in 0 .. MaxTables
  /\ Roots(R, c)
  /\ \A t \in Table, x \in Place : t >= c => tb[t][x] = None
  /\ \A r \in R, x \in Place : tb[r][x] = IF x < I THEN Entry(3, r + 2 + x, 0) ELSE None
  /\ \A t \in Seconds(R), x \in Place :
       /\ tb[t][x].bits = 0 \/ x >= J => tb[t][x] = None
       /\ tb[t][x].bits = 3 => tb[t][x].to < c /\ tb[t][x].to \notin Fixed(R)
  /\ \A t, u \in Seconds(R), x, y \in Place :
       tb[t][x].bits = 3 /\ tb[u][y].bits = 3 /\ tb[t][x].to = tb[u][y].to => t = u /\ x = y

\* What the walk of the tables under r finds for a page.
Seen(tb, r, p) ==
  LET e == tb[r + 2 + Idx(p)][Jdx(p)]
  IN  CASE e = None   -> None
        [] IsBlock(e) -> Entry(3, e.to + Kdx(p), e.attr)
        [] OTHER      -> tb[e.to][Kdx(p)]

LEMMA Places ==
  /\ 0 .. I - 1 \subseteq Place /\ 0 .. J - 1 \subseteq Place /\ 0 .. K - 1 \subseteq Place
  /\ Place \subseteq Nat /\ 0 \in Place
<1> DEFINE m == Max({I, J, K})
<1>1. m \in {I, J, K} /\ \A y \in {I, J, K} : m >= y
  <2>1. \E x \in {I, J, K} : \A y \in {I, J, K} : x >= y
    BY Sizes
  <2> QED  BY <2>1 DEF Max
<1> HIDE DEF m
<1>2. Place = 0 .. m - 1
  BY DEF Place, m
<1> QED  BY <1>1, <1>2, Sizes

LEMMA Entries ==
  /\ None \in EntryType /\ None.bits = 0
  /\ \A b \in {0, 1, 3}, x, y \in Nat : /\ Entry(b, x, y) \in EntryType
                                     /\ Entry(b, x, y).bits = b /\ Entry(b, x, y).to = x
                                     /\ Entry(b, x, y).attr = y
  /\ \A e \in EntryType : e.bits \in {0, 1, 3} /\ e.to \in Nat /\ e.attr \in Nat
BY DEF None, EntryType, Entry

LEMMA TablesOf ==
  ASSUME NEW tb, NEW c, NEW R, Sound(tb, c, R)
  PROVE  /\ R \subseteq Table /\ Seconds(R) \subseteq Table
         /\ Seconds(R) \subseteq Fixed(R) /\ R \subseteq Fixed(R) /\ R \cap Seconds(R) = {}
         /\ \A t \in Fixed(R) : t < c
         /\ \A r \in R : \A i \in 0 .. I - 1 : r + 2 + i \in Seconds(R)
         /\ \A r, q \in R : \A i, h \in 0 .. I - 1 : r + 2 + i = q + 2 + h => r = q /\ i = h
         /\ \A t \in Seconds(R) : \E r \in R : \E i \in 0 .. I - 1 : t = r + 2 + i
<1>1. I \in Nat /\ I > 0 /\ MaxTables \in Nat
  BY Sizes
<1>2. c \in 0 .. MaxTables /\ R \subseteq Nat /\ \A r \in R : r + 1 + I < c
  BY DEF Sound, Roots
<1>3. \A r, q \in R : r < q => r + 1 + I < q
  BY DEF Sound, Roots
<1>4. \A t \in Fixed(R) : t \in Nat /\ t < c
  BY <1>1, <1>2 DEF Fixed
<1>5. Seconds(R) \subseteq Fixed(R) /\ R \subseteq Fixed(R)
  BY <1>1, <1>2 DEF Fixed, Seconds
<1>6. Fixed(R) \subseteq Table
  BY <1>1, <1>2, <1>4 DEF Table
<1>7. R \cap Seconds(R) = {}
  <2>1. SUFFICES ASSUME NEW r \in R, NEW q \in R, q + 2 <= r /\ r <= q + 1 + I PROVE FALSE
    BY DEF Seconds
  <2> QED  BY <1>1, <1>2, <1>3, <2>1
<1>8. \A r \in R : \A i \in 0 .. I - 1 : r + 2 + i \in Seconds(R)
  BY <1>1, <1>2 DEF Seconds
<1>9. ASSUME NEW r \in R, NEW q \in R, NEW i \in 0 .. I - 1, NEW h \in 0 .. I - 1,
             r + 2 + i = q + 2 + h
      PROVE  r = q /\ i = h
  <2>1. r \in Nat /\ q \in Nat /\ ~(r < q) /\ ~(q < r)
    BY <1>1, <1>2, <1>3, <1>9
  <2> QED  BY <2>1, <1>9
<1>10. ASSUME NEW t \in Seconds(R) PROVE \E r \in R : \E i \in 0 .. I - 1 : t = r + 2 + i
  <2>1. PICK r \in R : t \in Nat /\ r + 2 <= t /\ t <= r + 1 + I
    BY DEF Seconds
  <2>2. t - r - 2 \in 0 .. I - 1 /\ t = r + 2 + (t - r - 2)
    BY <1>1, <1>2, <2>1
  <2> QED  BY <2>2
<1> QED  BY <1>4, <1>5, <1>6, <1>7, <1>8, <1>9, <1>10

\* What an entry is.
LEMMA EntryIs ==
  ASSUME NEW tb, NEW c, NEW R, Sound(tb, c, R)
  PROVE  /\ \A t \in Table : /\ tb[t] \in [Place -> EntryType]
                             /\ \A x \in Place : tb[t][x] \in EntryType
         /\ \A t \in Seconds(R), x \in Place :
              \/ (tb[t][x] = None /\ tb[t][x].bits = 0)
              \/ (tb[t][x].bits = 1 /\ tb[t][x] # None)
              \/ /\ tb[t][x].bits = 3 /\ tb[t][x] # None
                 /\ tb[t][x].to \in Nat /\ tb[t][x].to < c
                 /\ tb[t][x].to \in Table /\ tb[t][x].to \notin Fixed(R)
<1>1. \A t \in Table : /\ tb[t] \in [Place -> EntryType]
                      /\ \A x \in Place : tb[t][x] \in EntryType
  BY DEF Sound
<1>2. Seconds(R) \subseteq Table /\ c \in 0 .. MaxTables /\ MaxTables \in Nat
  BY TablesOf, Sizes DEF Sound
<1>3. ASSUME NEW t \in Seconds(R), NEW x \in Place
      PROVE  \/ (tb[t][x] = None /\ tb[t][x].bits = 0)
             \/ (tb[t][x].bits = 1 /\ tb[t][x] # None)
             \/ /\ tb[t][x].bits = 3 /\ tb[t][x] # None
                /\ tb[t][x].to \in Nat /\ tb[t][x].to < c
                /\ tb[t][x].to \in Table /\ tb[t][x].to \notin Fixed(R)
  <2>1. tb[t][x] \in EntryType
    BY <1>1, <1>2
  <2>2. tb[t][x].bits \in {0, 1, 3} /\ tb[t][x].to \in Nat
    BY <2>1, Entries
  <2>3. tb[t][x].bits = 0 => tb[t][x] = None
    BY DEF Sound
  <2>4. tb[t][x].bits = 3 => tb[t][x].to < c /\ tb[t][x].to \notin Fixed(R)
    BY DEF Sound
  <2>5. tb[t][x].bits = 3 => tb[t][x].to \in Table
    BY <1>2, <2>2, <2>4 DEF Table
  <2> QED  BY <2>2, <2>3, <2>4, <2>5, Entries
<1> QED  BY <1>1, <1>3

LEMMA NamedOnce ==
  ASSUME NEW tb, NEW c, NEW R, Sound(tb, c, R)
  PROVE  \A t, u \in Seconds(R), x, y \in Place :
           tb[t][x].bits = 3 /\ tb[u][y].bits = 3 /\ tb[t][x].to = tb[u][y].to => t = u /\ x = y
BY DEF Sound

LEMMA NamesTable ==
  ASSUME NEW tb, NEW c, NEW R, Sound(tb, c, R), NEW t \in Seconds(R), NEW x \in Place,
         tb[t][x].bits = 3
  PROVE  /\ tb[t][x].to \in Nat /\ tb[t][x].to \in Table
         /\ tb[t][x].to < c /\ tb[t][x].to \notin Fixed(R)
BY EntryIs, Entries

LEMMA PageRange ==
  ASSUME NEW p \in Page
  PROVE  p \in Nat /\ Idx(p) \in 0 .. I - 1 /\ Jdx(p) \in 0 .. J - 1 /\ Kdx(p) \in 0 .. K - 1
<1>1. I * J \in Nat /\ I * J * K \in Nat /\ I * J * K = (I * J) * K
  BY Sizes
<1>2. p \in Nat /\ p < (I * J) * K
  BY <1>1 DEF Page
<1>3. /\ Idx(p) \in Nat /\ Jdx(p) \in 0 .. J - 1 /\ Kdx(p) \in 0 .. K - 1
      /\ p = (Idx(p) * J + Jdx(p)) * K + Kdx(p)
  BY <1>2, PageIndices DEF Position
<1>4. Idx(p) * J \in Nat /\ Idx(p) * J + Jdx(p) \in Nat
  BY <1>3, Sizes
<1>5. ~(I * J <= Idx(p) * J + Jdx(p))
  <2>1. (I * J) * K <= p <=> I * J <= Idx(p) * J + Jdx(p)
    BY <1>1, <1>3, <1>4, Rows, Sizes
  <2> QED  BY <1>1, <1>2, <2>1
<1>6. ~(I <= Idx(p))
  BY <1>3, <1>5, Rows, Sizes
<1> QED  BY <1>2, <1>3, <1>6, Sizes

-----------------------------------------------------------------------------
\* The writes to the tables: what stays sound, and what the walks find.

\* ub is tb with the entries D of the table t written over.
Wrote(tb, ub, t, D, f) ==
  /\ ub \in [Table -> [Place -> EntryType]]
  /\ \A u \in Table, x \in Place : ub[u][x] = IF u = t /\ x \in D THEN f[x] ELSE tb[u][x]

\* Entries of the second-level table t become blocks.
LEMMA EntriesWritten ==
  ASSUME NEW tb, NEW c, NEW R, Sound(tb, c, R), NEW t \in Seconds(R),
         NEW f, NEW D \in SUBSET (0 .. J - 1), \A x \in D : f[x] \in EntryType /\ f[x].bits = 1,
         NEW ub, Wrote(tb, ub, t, D, f)
  PROVE  /\ Sound(ub, c, R)
         /\ \A r \in R, p \in Page :
              Seen(ub, r, p) = IF r + 2 + Idx(p) = t /\ Jdx(p) \in D
                               THEN Entry(3, f[Jdx(p)].to + Kdx(p), f[Jdx(p)].attr)
                               ELSE Seen(tb, r, p)
<1>1. /\ tb \in [Table -> [Place -> EntryType]] /\ D \subseteq Place /\ t \in Table
      /\ t < c /\ t \in Fixed(R) /\ t \notin R
  BY TablesOf, Places DEF Sound
<1>3. /\ ub \in [Table -> [Place -> EntryType]]
      /\ \A u \in Table : u # t => \A x \in Place : ub[u][x] = tb[u][x]
      /\ \A x \in Place : ub[t][x] = IF x \in D THEN f[x] ELSE tb[t][x]
  BY <1>1 DEF Wrote
<1>4. Sound(ub, c, R)
  <2>1. c \in 0 .. MaxTables /\ Roots(R, c) /\ Seconds(R) \subseteq Table /\ R \subseteq Table
        /\ J \in Nat
    BY TablesOf, Sizes DEF Sound
  <2>2. \A u \in Table, x \in Place : u >= c => ub[u][x] = None
    <3>1. \A u \in Table : u >= c => u # t
      BY <1>1, <2>1 DEF Table
    <3> QED  BY <1>3, <3>1 DEF Sound
  <2>3. \A r \in R, x \in Place : ub[r][x] = IF x < I THEN Entry(3, r + 2 + x, 0) ELSE None
    BY <1>1, <1>3, <2>1 DEF Sound
  <2>4. \A x \in D : ~(x >= J)
    BY <2>1
  <2>5. \A u \in Seconds(R), x \in Place :
          \/ ub[u][x] = tb[u][x] /\ ~(u = t /\ x \in D)
          \/ u = t /\ x \in D /\ ub[u][x].bits = 1
    BY <1>3, <2>1
  <2>6. ASSUME NEW u \in Seconds(R), NEW x \in Place
        PROVE  /\ ub[u][x].bits = 0 \/ x >= J => ub[u][x] = None
               /\ ub[u][x].bits = 3 => ub[u][x].to < c /\ ub[u][x].to \notin Fixed(R)
    <3>1. /\ tb[u][x].bits = 0 \/ x >= J => tb[u][x] = None
          /\ tb[u][x].bits = 3 => tb[u][x].to < c /\ tb[u][x].to \notin Fixed(R)
      BY DEF Sound
    <3>2. CASE u = t /\ x \in D
      BY <2>4, <2>5, <3>2
    <3>3. CASE ~(u = t /\ x \in D)
      BY <2>5, <3>1, <3>3
    <3> QED  BY <3>2, <3>3
  <2>7. \A u, v \in Seconds(R), x, y \in Place :
          ub[u][x].bits = 3 /\ ub[v][y].bits = 3 /\ ub[u][x].to = ub[v][y].to => u = v /\ x = y
    BY <2>5 DEF Sound
  <2> QED  BY <1>3, <2>1, <2>2, <2>3, <2>6, <2>7 DEF Sound
<1>5. ASSUME NEW r \in R, NEW p \in Page
      PROVE  Seen(ub, r, p) = IF r + 2 + Idx(p) = t /\ Jdx(p) \in D
                              THEN Entry(3, f[Jdx(p)].to + Kdx(p), f[Jdx(p)].attr)
                              ELSE Seen(tb, r, p)
  <2> DEFINE u == r + 2 + Idx(p)
  <2>1. /\ u \in Seconds(R) /\ u \in Table /\ Jdx(p) \in Place /\ Kdx(p) \in Place
    BY TablesOf, PageRange, Places
  <2>2. CASE u = t /\ Jdx(p) \in D
    <3>1. ub[u][Jdx(p)] = f[Jdx(p)]
      BY <1>3, <2>1, <2>2
    <3>2. f[Jdx(p)].bits = 1
      BY <2>2
    <3>3. f[Jdx(p)] # None
      BY <3>2, Entries
    <3> QED  BY <2>2, <3>1, <3>2, <3>3 DEF Seen, IsBlock
  <2>3. CASE ~(u = t /\ Jdx(p) \in D)
    <3>1. ub[u][Jdx(p)] = tb[u][Jdx(p)]
      BY <1>3, <2>1, <2>3
    <3>2. ASSUME tb[u][Jdx(p)].bits = 3
          PROVE  ub[tb[u][Jdx(p)].to][Kdx(p)] = tb[tb[u][Jdx(p)].to][Kdx(p)]
      <4>1. tb[u][Jdx(p)].to \notin Fixed(R) /\ tb[u][Jdx(p)].to \in Table
        BY <2>1, <3>2, EntryIs, Entries
      <4> QED  BY <1>1, <1>3, <2>1, <4>1
    <3>3. \/ tb[u][Jdx(p)] = None
          \/ tb[u][Jdx(p)].bits = 1
          \/ tb[u][Jdx(p)].bits = 3
      BY <2>1, EntryIs
    <3> QED  BY <2>3, <3>1, <3>2, <3>3, Entries DEF Seen, IsBlock
  <2> QED  BY <2>2, <2>3
<1> QED  BY <1>4, <1>5

\* The entry j of the second-level table t, blank or a block, comes to name the next
\* table, which maps what the entry did.
LEMMA TableLinked ==
  ASSUME NEW tb, NEW c, NEW R, Sound(tb, c, R), c + 1 <= MaxTables,
         NEW t \in Seconds(R), NEW j \in 0 .. J - 1, tb[t][j].bits # 3,
         NEW g \in [Place -> EntryType],
         \A k \in 0 .. K - 1 : g[k] = IF tb[t][j] = None THEN None
                                     ELSE Entry(3, tb[t][j].to + k, tb[t][j].attr),
         NEW ub \in [Table -> [Place -> EntryType]],
         \A u \in Table, x \in Place :
           ub[u][x] = IF u = c THEN g[x]
                      ELSE IF u = t /\ x = j THEN Entry(3, c, 0) ELSE tb[u][x]
  PROVE  /\ Sound(ub, c + 1, R)
         /\ ub[t][j].bits = 3
         /\ \A r \in R, p \in Page : Seen(ub, r, p) = Seen(tb, r, p)
<1>1. /\ c \in Nat /\ c \in Table /\ c \notin Fixed(R) /\ j \in Place /\ J \in Nat /\ MaxTables \in Nat
      /\ t \in Fixed(R) /\ t # c /\ t \in Table /\ t \notin R
      /\ Seconds(R) \subseteq Table /\ Seconds(R) \subseteq Fixed(R) /\ R \subseteq Fixed(R)
      /\ R \subseteq Table
  <2>1. c \in 0 .. MaxTables /\ MaxTables \in Nat /\ c \in Nat
    BY Sizes DEF Sound
  <2>2. c \in Table
    BY <2>1 DEF Table
  <2>3. c \notin Fixed(R)
    <3>1. \A u \in Fixed(R) : u < c
      BY TablesOf
    <3> QED  BY <3>1, <2>1
  <2> QED  BY <2>1, <2>2, <2>3, TablesOf, Places, Sizes
<1>2. ub[t][j] = Entry(3, c, 0) /\ ub[t][j].bits = 3 /\ ub[t][j].to = c /\ ub[t][j] # None
  BY <1>1, Entries
<1>3. \A u \in Fixed(R) \cap Table, x \in Place : ~(u = t /\ x = j) => ub[u][x] = tb[u][x]
  BY <1>1
<1>4. Sound(ub, c + 1, R)
  <2>1. c + 1 \in 0 .. MaxTables
    BY <1>1
  <2>2. Roots(R, c + 1)
    <3>1. Roots(R, c) /\ I \in Nat
      BY Sizes DEF Sound
    <3> QED  BY <1>1, <3>1 DEF Roots
  <2>3. \A u \in Table, x \in Place : u >= c + 1 => ub[u][x] = None
    <3>1. \A u \in Table : u >= c + 1 => u # c /\ u >= c /\ u # t
      <4>1. t < c
        BY <1>1, TablesOf
      <4> QED  BY <1>1, <4>1 DEF Table
    <3> QED  BY <3>1 DEF Sound
  <2>4. \A r \in R, x \in Place : ub[r][x] = IF x < I THEN Entry(3, r + 2 + x, 0) ELSE None
    BY <1>1, <1>3 DEF Sound
  <2>5. ASSUME NEW u \in Seconds(R), NEW x \in Place
        PROVE  /\ ub[u][x].bits = 0 \/ x >= J => ub[u][x] = None
               /\ ub[u][x].bits = 3 => ub[u][x].to < c + 1 /\ ub[u][x].to \notin Fixed(R)
    <3>1. CASE u = t /\ x = j
      BY <1>1, <1>2, <3>1
    <3>2. CASE ~(u = t /\ x = j)
      <4>1. ub[u][x] = tb[u][x] /\ tb[u][x] \in EntryType
        BY <1>1, <1>3, <3>2, EntryIs
      <4>2. /\ tb[u][x].bits = 0 \/ x >= J => tb[u][x] = None
            /\ tb[u][x].bits = 3 => tb[u][x].to < c /\ tb[u][x].to \notin Fixed(R)
        BY DEF Sound
      <4>3. tb[u][x].to \in Nat
        BY <4>1, Entries
      <4> QED  BY <1>1, <4>1, <4>2, <4>3
    <3> QED  BY <3>1, <3>2
  <2>6. ASSUME NEW u \in Seconds(R), NEW v \in Seconds(R), NEW x \in Place, NEW y \in Place,
               ub[u][x].bits = 3, ub[v][y].bits = 3, ub[u][x].to = ub[v][y].to
        PROVE  u = v /\ x = y
    <3>1. ASSUME NEW w \in Seconds(R), NEW z \in Place, ub[w][z].bits = 3, ~(w = t /\ z = j)
          PROVE  ub[w][z] = tb[w][z] /\ tb[w][z].to \in Nat /\ tb[w][z].to < c
      <4>1. ub[w][z] = tb[w][z]
        BY <1>1, <1>3, <3>1
      <4>2. tb[w][z].bits = 3
        BY <3>1, <4>1
      <4> QED  BY <4>1, <4>2, EntryIs
    <3>2. CASE ~(u = t /\ x = j) /\ ~(v = t /\ y = j)
      BY <2>6, <3>1, <3>2 DEF Sound
    <3>3. CASE u = t /\ x = j
      BY <1>1, <1>2, <2>6, <3>1, <3>3
    <3>4. CASE v = t /\ y = j
      BY <1>1, <1>2, <2>6, <3>1, <3>4
    <3> QED  BY <3>2, <3>3, <3>4
  <2> QED  BY <2>1, <2>2, <2>3, <2>4, <2>5, <2>6 DEF Sound
<1>5. ASSUME NEW r \in R, NEW p \in Page PROVE Seen(ub, r, p) = Seen(tb, r, p)
  <2> DEFINE u == r + 2 + Idx(p)
  <2>1. u \in Seconds(R) /\ u \in Table /\ Jdx(p) \in Place /\ Kdx(p) \in Place
        /\ Kdx(p) \in 0 .. K - 1
    BY <1>1, TablesOf, PageRange, Places
  <2>2. CASE u = t /\ Jdx(p) = j
    <3>1. ub[u][Jdx(p)].to = c /\ ub[u][Jdx(p)].bits = 3 /\ ub[u][Jdx(p)] # None
      BY <1>2, <2>2
    <3>2. ub[c][Kdx(p)] = IF tb[t][j] = None THEN None
                          ELSE Entry(3, tb[t][j].to + Kdx(p), tb[t][j].attr)
      BY <1>1, <2>1
    <3>3. tb[t][j] = None \/ (tb[t][j].bits = 1 /\ tb[t][j] # None)
      <4>1. j \in Place
        BY <1>1
      <4> QED  BY <4>1, EntryIs
    <3>4. Seen(ub, r, p) = ub[c][Kdx(p)]
      <4>1. ~IsBlock(ub[u][Jdx(p)])
        BY <3>1 DEF IsBlock
      <4> QED  BY <3>1, <4>1 DEF Seen
    <3>5. Seen(tb, r, p) = IF tb[t][j] = None THEN None
                           ELSE Entry(3, tb[t][j].to + Kdx(p), tb[t][j].attr)
      <4>1. tb[r + 2 + Idx(p)][Jdx(p)] = tb[t][j]
        BY <2>2
      <4>2. CASE tb[t][j] = None
        <5>1. ~IsBlock(tb[t][j])
          BY <4>2, Entries DEF IsBlock
        <5> QED  BY <4>1, <4>2, <5>1 DEF Seen
      <4>3. CASE tb[t][j].bits = 1 /\ tb[t][j] # None
        BY <4>1, <4>3 DEF Seen, IsBlock
      <4> QED  BY <3>3, <4>2, <4>3
    <3> QED  BY <3>2, <3>4, <3>5
  <2>3. CASE ~(u = t /\ Jdx(p) = j)
    <3>1. ub[u][Jdx(p)] = tb[u][Jdx(p)]
      BY <1>1, <1>3, <2>1, <2>3
    <3>2. ASSUME tb[u][Jdx(p)].bits = 3
          PROVE  ub[tb[u][Jdx(p)].to][Kdx(p)] = tb[tb[u][Jdx(p)].to][Kdx(p)]
      <4>1. /\ tb[u][Jdx(p)].to \notin Fixed(R) /\ tb[u][Jdx(p)].to \in Table
            /\ tb[u][Jdx(p)].to < c /\ tb[u][Jdx(p)].to \in Nat
        BY <2>1, <3>2, EntryIs
      <4>2. tb[u][Jdx(p)].to # t /\ tb[u][Jdx(p)].to # c
        BY <1>1, <4>1
      <4> QED  BY <2>1, <4>1, <4>2
    <3>3. \/ tb[u][Jdx(p)] = None
          \/ tb[u][Jdx(p)].bits = 1
          \/ tb[u][Jdx(p)].bits = 3
      BY <2>1, EntryIs
    <3> QED  BY <3>1, <3>2, <3>3, Entries DEF Seen, IsBlock
  <2> QED  BY <2>2, <2>3
<1> QED  BY <1>2, <1>4, <1>5

\* The entries D, as f has them, of the third-level table that entry j of the
\* second-level table t names: the pages they map, and no others, change.
MapsPages(tb, ub, c, R, t, j, D, f) ==
  /\ Sound(ub, c, R)
  /\ \A r \in R, p \in Page :
       Seen(ub, r, p) = IF r + 2 + Idx(p) = t /\ Jdx(p) = j /\ Kdx(p) \in D
                        THEN f[Kdx(p)] ELSE Seen(tb, r, p)

LEMMA PagesWritten ==
  ASSUME NEW tb, NEW c, NEW R, Sound(tb, c, R), NEW t \in Seconds(R), NEW j \in 0 .. J - 1,
         tb[t][j].bits = 3, NEW f, NEW D \in SUBSET (0 .. K - 1),
         NEW ub, Wrote(tb, ub, tb[t][j].to, D, f)
  PROVE  MapsPages(tb, ub, c, R, t, j, D, f)
<1> DEFINE n == tb[t][j].to
<1>1. /\ tb \in [Table -> [Place -> EntryType]] /\ D \subseteq Place /\ t \in Table /\ j \in Place
      /\ n \in Table /\ n < c /\ n \notin Fixed(R) /\ n \in Nat
      /\ Seconds(R) \subseteq Fixed(R) /\ R \subseteq Fixed(R)
      /\ Seconds(R) \subseteq Table /\ R \subseteq Table
  <2>1. j \in Place
    BY Places
  <2>2. n \in Table /\ n < c /\ n \notin Fixed(R) /\ n \in Nat
    BY <2>1, EntryIs
  <2>3. D \subseteq Place
    BY Places
  <2> QED  BY <2>1, <2>2, <2>3, TablesOf DEF Sound
<1> HIDE DEF n
<1>3. /\ ub \in [Table -> [Place -> EntryType]]
      /\ \A u \in Table : u # n => \A x \in Place : ub[u][x] = tb[u][x]
      /\ \A x \in Place : ub[n][x] = IF x \in D THEN f[x] ELSE tb[n][x]
  BY <1>1 DEF Wrote, n
<1>4. \A u \in Fixed(R) \cap Table, x \in Place : ub[u][x] = tb[u][x]
  BY <1>1, <1>3
<1>5. Sound(ub, c, R)
  <2>1. c \in 0 .. MaxTables /\ Roots(R, c)
    BY DEF Sound
  <2>2. \A u \in Table, x \in Place : u >= c => ub[u][x] = None
    <3>1. \A u \in Table : u >= c => u # n
      BY <1>1, <2>1 DEF Table
    <3> QED  BY <1>3, <3>1 DEF Sound
  <2>3. \A r \in R, x \in Place : ub[r][x] = IF x < I THEN Entry(3, r + 2 + x, 0) ELSE None
    BY <1>1, <1>4 DEF Sound
  <2>4. \A u \in Seconds(R), x \in Place : ub[u][x] = tb[u][x]
    BY <1>1, <1>4
  <2>5. \A u \in Seconds(R), x \in Place :
          /\ ub[u][x].bits = 0 \/ x >= J => ub[u][x] = None
          /\ ub[u][x].bits = 3 => ub[u][x].to < c /\ ub[u][x].to \notin Fixed(R)
    BY <2>4 DEF Sound
  <2>6. \A u, v \in Seconds(R), x, y \in Place :
          ub[u][x].bits = 3 /\ ub[v][y].bits = 3 /\ ub[u][x].to = ub[v][y].to => u = v /\ x = y
    BY <2>4 DEF Sound
  <2> QED  BY <1>3, <2>1, <2>2, <2>3, <2>5, <2>6 DEF Sound
<1>6. ASSUME NEW r \in R, NEW p \in Page
      PROVE  Seen(ub, r, p) = IF r + 2 + Idx(p) = t /\ Jdx(p) = j /\ Kdx(p) \in D
                              THEN f[Kdx(p)] ELSE Seen(tb, r, p)
  <2> DEFINE u == r + 2 + Idx(p)
  <2>1. u \in Seconds(R) /\ u \in Table /\ Jdx(p) \in Place /\ Kdx(p) \in Place
    BY <1>1, TablesOf, PageRange, Places
  <2>2. ub[u][Jdx(p)] = tb[u][Jdx(p)]
    BY <1>1, <1>4, <2>1
  <2>3. CASE u = t /\ Jdx(p) = j
    <3>1. tb[u][Jdx(p)].to = n /\ tb[u][Jdx(p)].bits = 3 /\ tb[u][Jdx(p)] # None
      BY <2>3, Entries DEF n
    <3> QED  BY <1>3, <2>1, <2>2, <2>3, <3>1 DEF Seen, IsBlock
  <2>4. CASE ~(u = t /\ Jdx(p) = j)
    <3>1. ASSUME tb[u][Jdx(p)].bits = 3
          PROVE  ub[tb[u][Jdx(p)].to][Kdx(p)] = tb[tb[u][Jdx(p)].to][Kdx(p)]
      <4>1. ASSUME tb[u][Jdx(p)].to = n PROVE FALSE
        <5>1. u \in Seconds(R) /\ Jdx(p) \in Place /\ j \in Place /\ tb[u][Jdx(p)].to = tb[t][j].to
          BY <1>1, <2>1, <4>1 DEF n
        <5> HIDE DEF u
        <5>2. \A v, w \in Seconds(R), x, y \in Place :
                tb[v][x].bits = 3 /\ tb[w][y].bits = 3 /\ tb[v][x].to = tb[w][y].to
                  => v = w /\ x = y
          BY NamedOnce
        <5>3. u = t /\ Jdx(p) = j
          BY <3>1, <5>1, <5>2
        <5> QED  BY <2>4, <5>3
      <4>2. tb[u][Jdx(p)].to \in Table
        BY <2>1, <3>1, EntryIs, Entries
      <4> QED  BY <1>3, <2>1, <4>1, <4>2
    <3>2. \/ tb[u][Jdx(p)] = None
          \/ tb[u][Jdx(p)].bits = 1
          \/ tb[u][Jdx(p)].bits = 3
      BY <2>1, EntryIs
    <3> QED  BY <2>2, <2>4, <3>1, <3>2, Entries DEF Seen, IsBlock
  <2> QED  BY <2>3, <2>4
<1> QED  BY <1>5, <1>6 DEF MapsPages

-----------------------------------------------------------------------------
\* The steps of the walk over an area.

WalkOf(tb, c, r, s, a, i, j, k) ==
  [tab |-> tb, count |-> c, root |-> r, start_p |-> s, attr |-> a, idx |-> i, jdx |-> j, kdx |-> k]

\* page_table_add_third_level never gives a table back, and changes no walk of the
\* tables: what it does for the walk WalkOf(tb, c, ...), for the tables t.
LinksThird(tb, c, r, s, a, i, j, k, t) ==
  \E ub, d :
    /\ page_table_add_third_level(WalkOf(tb, c, r, s, a, i, j, k), t, j)
         = WalkOf(ub, d, r, s, a, i, j, k)
    /\ d \in Nat /\ c <= d
    /\ \A R : Sound(tb, c, R) /\ t \in Seconds(R) /\ j \in 0 .. J - 1 /\ d <= MaxTables
         => /\ Sound(ub, d, R)
            /\ ub[t][j].bits = 3
            /\ \A q \in R, p \in Page : Seen(ub, q, p) = Seen(tb, q, p)

LEMMA ThirdLevel ==
  ASSUME NEW tb, NEW c \in Nat, NEW r, NEW s, NEW a, NEW i, NEW j, NEW k, NEW t
  PROVE  LinksThird(tb, c, r, s, a, i, j, k, t)
<1> DEFINE w == WalkOf(tb, c, r, s, a, i, j, k)
           e == tb[t][j]
           n == NewTable(w)
           linked == [Took(w) EXCEPT !.tab[t][j] = Entry(3, n, 0)]
           split  == [linked EXCEPT !.tab[n] = Over(Split(e), @)]
           lb == [tb EXCEPT ![t][j] = Entry(3, c, 0)]
           sb == [lb EXCEPT ![c] = Over(Split(e), @)]
<1>1. page_table_add_third_level(w, t, j)
        = CASE e = None -> linked [] IsBlock(e) -> split [] OTHER -> w
  BY DEF page_table_add_third_level, WalkOf
<1>2. n = c /\ Took(w) = WalkOf(tb, c + 1, r, s, a, i, j, k)
  BY DEF Took, NewTable, WalkOf
<1>3. linked = WalkOf(lb, c + 1, r, s, a, i, j, k)
  BY <1>2 DEF WalkOf
<1>4. split = WalkOf(sb, c + 1, r, s, a, i, j, k)
  <2> HIDE DEF lb, linked
  <2> QED  BY <1>2, <1>3 DEF WalkOf
<1> HIDE DEF linked, split, w, n
<1>5. ASSUME NEW R, Sound(tb, c, R), t \in Seconds(R), j \in 0 .. J - 1, c + 1 <= MaxTables
      PROVE  /\ tb \in [Table -> [Place -> EntryType]] /\ t \in Table /\ j \in Place
             /\ c \in Table /\ t # c
             /\ e \in EntryType
             /\ \A k0 \in 0 .. K - 1 : tb[c][k0] = None
  <2>1. c \in Table
    BY <1>5, Sizes DEF Table
  <2>2. t \in Table /\ t # c
    <3>1. t \in Table /\ t < c
      BY <1>5, TablesOf
    <3> QED  BY <3>1 DEF Table
  <2>3. j \in Place
    BY <1>5, Places
  <2>4. e \in EntryType
    BY <1>5, <2>2, <2>3, EntryIs
  <2>5. \A x \in Place : tb[c][x] = None
    BY <1>5, <2>1 DEF Sound
  <2> QED  BY <1>5, <2>1, <2>2, <2>3, <2>4, <2>5, Places DEF Sound
<1>6. CASE e = None
  <2>1. page_table_add_third_level(w, t, j) = WalkOf(lb, c + 1, r, s, a, i, j, k)
    <3>1. ~IsBlock(e)
      BY <1>6, Entries DEF IsBlock
    <3> QED  BY <1>1, <1>3, <1>6, <3>1
  <2>2. ASSUME NEW R, Sound(tb, c, R), t \in Seconds(R), j \in 0 .. J - 1, c + 1 <= MaxTables
        PROVE  /\ Sound(lb, c + 1, R)
               /\ lb[t][j].bits = 3
               /\ \A q \in R, p \in Page : Seen(lb, q, p) = Seen(tb, q, p)
    <3>1. /\ tb \in [Table -> [Place -> EntryType]] /\ t \in Table /\ j \in Place
          /\ c \in Table /\ t # c
          /\ \A k0 \in 0 .. K - 1 : tb[c][k0] = None
      BY <1>5, <2>2
    <3>2. Entry(3, c, 0) \in EntryType
      BY Entries
    <3>3. /\ lb \in [Table -> [Place -> EntryType]]
          /\ \A u \in Table, x \in Place :
               lb[u][x] = IF u = t /\ x = j THEN Entry(3, c, 0) ELSE tb[u][x]
      BY <3>1, <3>2
    <3> HIDE DEF lb
    <3>4. \A u \in Table, x \in Place :
            lb[u][x] = IF u = c THEN tb[c][x] ELSE IF u = t /\ x = j THEN Entry(3, c, 0) ELSE tb[u][x]
      BY <3>1, <3>3
    <3>5. tb[t][j].bits # 3
      BY <1>6, Entries
    <3>6. tb[c] \in [Place -> EntryType]
      BY <3>1
    <3> QED  BY <1>6, <2>2, <3>1, <3>3, <3>4, <3>5, <3>6, TableLinked
  <2>3. c + 1 \in Nat /\ c <= c + 1
    OBVIOUS
  <2> HIDE DEF lb
  <2> QED  BY <2>1, <2>2, <2>3 DEF w, LinksThird
<1>7. CASE e # None /\ IsBlock(e)
  <2>1. page_table_add_third_level(w, t, j) = WalkOf(sb, c + 1, r, s, a, i, j, k)
    BY <1>1, <1>4, <1>7
  <2>2. ASSUME NEW R, Sound(tb, c, R), t \in Seconds(R), j \in 0 .. J - 1, c + 1 <= MaxTables
        PROVE  /\ Sound(sb, c + 1, R)
               /\ sb[t][j].bits = 3
               /\ \A q \in R, p \in Page : Seen(sb, q, p) = Seen(tb, q, p)
    <3>1. /\ tb \in [Table -> [Place -> EntryType]] /\ t \in Table /\ j \in Place
          /\ c \in Table /\ t # c /\ e \in EntryType
      BY <1>5, <2>2
    <3>2. Entry(3, c, 0) \in EntryType
      BY Entries
    <3>3. /\ lb \in [Table -> [Place -> EntryType]] /\ lb[c] = tb[c]
          /\ \A u \in Table, x \in Place :
               lb[u][x] = IF u = t /\ x = j THEN Entry(3, c, 0) ELSE tb[u][x]
      BY <3>1, <3>2
    <3> HIDE DEF lb
    <3> DEFINE g == Over(Split(e), lb[c])
    <3>4. \A k0 \in 0 .. K - 1 : Split(e)[k0] = Entry(3, e.to + k0, e.attr)
                                /\ Split(e)[k0] \in EntryType
      <4>1. \A k0 \in 0 .. K - 1 : e.to + k0 \in Nat /\ e.attr \in Nat
        BY <3>1, Entries, Sizes
      <4> QED  BY <4>1, Entries DEF Split
    <3>5. DOMAIN Split(e) = 0 .. K - 1
      BY DEF Split
    <3>6. DOMAIN lb[c] = Place /\ \A x \in Place : lb[c][x] \in EntryType
      BY <3>1, <3>3
    <3>7. /\ g \in [Place -> EntryType]
          /\ \A k0 \in 0 .. K - 1 : g[k0] = Entry(3, e.to + k0, e.attr)
      BY <3>4, <3>5, <3>6, Places DEF Over
    <3>8. sb = [lb EXCEPT ![c] = g]
      OBVIOUS
    <3> HIDE DEF g, sb, e
    <3>9. /\ sb \in [Table -> [Place -> EntryType]]
          /\ \A u \in Table, x \in Place :
               sb[u][x] = IF u = c THEN g[x] ELSE IF u = t /\ x = j THEN Entry(3, c, 0) ELSE tb[u][x]
      BY <3>1, <3>3, <3>7, <3>8
    <3>10. tb[t][j].bits # 3 /\ tb[t][j] # None
      BY <1>7 DEF IsBlock, e
    <3>11. \A k0 \in 0 .. K - 1 : g[k0] = IF tb[t][j] = None THEN None
                                          ELSE Entry(3, tb[t][j].to + k0, tb[t][j].attr)
      BY <3>7, <3>10 DEF e
    <3> QED  BY <2>2, <3>7, <3>9, <3>10, <3>11, TableLinked
  <2>3. c + 1 \in Nat /\ c <= c + 1
    OBVIOUS
  <2> HIDE DEF sb
  <2> QED  BY <2>1, <2>2, <2>3 DEF w, LinksThird
<1>8. CASE e # None /\ ~IsBlock(e)
  <2>1. page_table_add_third_level(w, t, j) = WalkOf(tb, c, r, s, a, i, j, k)
    BY <1>1, <1>8 DEF w
  <2>2. ASSUME NEW R, Sound(tb, c, R), t \in Seconds(R), j \in 0 .. J - 1
        PROVE  tb[t][j].bits = 3
    <3>1. j \in Place
      BY <2>2, Places
    <3> QED  BY <1>8, <2>2, <3>1, EntryIs DEF IsBlock
  <2> QED  BY <2>1, <2>2 DEF w, LinksThird
<1> QED  BY <1>6, <1>7, <1>8 DEF LinksThird

\* The second-level table of the walk.
LEMMA SecondOf ==
  ASSUME NEW tb, NEW c, NEW R, Sound(tb, c, R), NEW r \in R, NEW i \in 0 .. I - 1
  PROVE  /\ tb[r][i].to = r + 2 + i /\ r + 2 + i \in Seconds(R)
         /\ \A q \in R, p \in Page : q + 2 + Idx(p) = r + 2 + i <=> q = r /\ Idx(p) = i
<1>1. r \in Nat /\ i \in Place /\ i < I /\ i \in Nat
  BY Places, Sizes DEF Sound, Roots
<1>2. tb[r][i] = Entry(3, r + 2 + i, 0)
  BY <1>1 DEF Sound
<1>3. tb[r][i].to = r + 2 + i
  BY <1>1, <1>2, Entries
<1>4. \A q \in R, p \in Page : q + 2 + Idx(p) = r + 2 + i <=> q = r /\ Idx(p) = i
  BY TablesOf, PageRange
<1> QED  BY <1>3, <1>4, TablesOf

\* AddPages and AddBlocks of a walk, by the indices of the pages.
AddsPages(tb, c, r, s, a, i, j, k, kend) ==
  \E ub, d :
    /\ AddPages(WalkOf(tb, c, r, s, a, i, j, k), kend)
         = WalkOf(ub, d, r, s + (kend - k), a, i, j, k)
    /\ d \in Nat /\ c <= d
    /\ \A R : /\ Sound(tb, c, R) /\ r \in R /\ i \in 0 .. I - 1 /\ j \in 0 .. J - 1
              /\ kend <= K /\ d <= MaxTables
         => /\ Sound(ub, d, R)
            /\ \A q \in R, p \in Page :
                 Seen(ub, q, p) =
                   IF q = r /\ Idx(p) = i /\ Jdx(p) = j /\ Kdx(p) \in k .. kend - 1
                   THEN Entry(3, s + (Kdx(p) - k), a) ELSE Seen(tb, q, p)

AddsBlocks(tb, c, r, s, a, i, j, k, jend) ==
  \E ub :
    /\ AddBlocks(WalkOf(tb, c, r, s, a, i, j, k), jend)
         = WalkOf(ub, c, r, s + K * (jend - j), a, i, jend, k)
    /\ \A R : Sound(tb, c, R) /\ r \in R /\ i \in 0 .. I - 1 /\ jend <= J
         => /\ Sound(ub, c, R)
            /\ \A q \in R, p \in Page :
                 Seen(ub, q, p) =
                   IF q = r /\ Idx(p) = i /\ Jdx(p) \in j .. jend - 1
                   THEN Entry(3, s + K * (Jdx(p) - j) + Kdx(p), a) ELSE Seen(tb, q, p)

LEMMA PagesAdded ==
  ASSUME NEW tb, NEW c \in Nat, NEW r, NEW s \in Nat, NEW a \in Nat, NEW i, NEW j,
         NEW k \in Nat, NEW kend \in Nat
  PROVE  AddsPages(tb, c, r, s, a, i, j, k, kend)
<1> DEFINE w == WalkOf(tb, c, r, s, a, i, j, k)
           t == tb[r][i].to
           v == page_table_add_third_level(w, t, j)
           n == v.tab[t][j].to
           f == [k0 \in k .. kend - 1 |-> Entry(3, s + (k0 - k), a)]
<1>1. AddPages(w, kend) = [v EXCEPT !.tab[n] = Over(f, @), !.start_p = @ + (kend - k)]
  BY DEF AddPages, WalkOf
<1> HIDE DEF f, t
<1>2. PICK mb, d :
        /\ v = WalkOf(mb, d, r, s, a, i, j, k)
        /\ d \in Nat /\ c <= d
        /\ \A R : Sound(tb, c, R) /\ t \in Seconds(R) /\ j \in 0 .. J - 1 /\ d <= MaxTables
             => /\ Sound(mb, d, R)
                /\ mb[t][j].bits = 3
                /\ \A q \in R, p \in Page : Seen(mb, q, p) = Seen(tb, q, p)
  <2>1. LinksThird(tb, c, r, s, a, i, j, k, t)
    BY ThirdLevel
  <2> QED  BY <2>1 DEF LinksThird
<1> HIDE DEF w
<1> DEFINE m  == mb[t][j].to
           ub == [mb EXCEPT ![m] = Over(f, mb[m])]
<1>3. AddPages(w, kend) = WalkOf(ub, d, r, s + (kend - k), a, i, j, k)
  <2>1. n = m
    BY <1>2 DEF WalkOf
  <2> HIDE DEF n, m, v
  <2> QED  BY <1>1, <1>2, <2>1 DEF WalkOf
<1>4. ASSUME NEW R, Sound(tb, c, R), r \in R, i \in 0 .. I - 1, j \in 0 .. J - 1,
             kend <= K, d <= MaxTables
      PROVE  /\ Sound(ub, d, R)
             /\ \A q \in R, p \in Page :
                  Seen(ub, q, p) =
                    IF q = r /\ Idx(p) = i /\ Jdx(p) = j /\ Kdx(p) \in k .. kend - 1
                    THEN Entry(3, s + (Kdx(p) - k), a) ELSE Seen(tb, q, p)
  <2>1. /\ t = r + 2 + i /\ t \in Seconds(R)
        /\ \A q \in R, p \in Page : q + 2 + Idx(p) = t <=> q = r /\ Idx(p) = i
    BY <1>4, SecondOf DEF t
  <2>2. /\ Sound(mb, d, R) /\ mb[t][j].bits = 3
        /\ \A q \in R, p \in Page : Seen(mb, q, p) = Seen(tb, q, p)
    BY <1>2, <1>4, <2>1
  <2> DEFINE D == k .. kend - 1
  <2>3. D \in SUBSET (0 .. K - 1)
    BY <1>4, Sizes
  <2>4. f \in [D -> EntryType] /\ \A k0 \in D : f[k0] = Entry(3, s + (k0 - k), a)
    <3>1. \A k0 \in D : s + (k0 - k) \in Nat
      OBVIOUS
    <3>2. \A k0 \in D : Entry(3, s + (k0 - k), a) \in EntryType
      BY <3>1, Entries
    <3> QED  BY <3>2 DEF f
  <2>6. /\ mb \in [Table -> [Place -> EntryType]] /\ D \subseteq Place
        /\ m \in Table
    <3>1. m \in Table
      <4>1. j \in Place
        BY <1>4, Places
      <4> QED  BY <2>1, <2>2, <4>1, NamesTable
    <3> QED  BY <2>2, <2>3, <3>1, Places DEF Sound
  <2> HIDE DEF D, m, v
  <2>7. Wrote(mb, ub, m, D, f)
    BY <2>4, <2>6 DEF Over, Wrote
  <2> HIDE DEF ub
  <2>8. m = mb[t][j].to
    BY DEF m
  <2>5. MapsPages(mb, ub, d, R, t, j, D, f)
    <3>1. j \in 0 .. J - 1
      BY <1>4
    <3>2. Sound(mb, d, R) /\ t \in Seconds(R) /\ mb[t][j].bits = 3
      BY <2>1, <2>2
    <3> HIDE DEF t, w
    <3> QED  BY <2>3, <2>7, <2>8, <3>1, <3>2, PagesWritten
  <2> QED  BY <2>1, <2>2, <2>4, <2>5 DEF D, MapsPages
<1> HIDE DEF ub, n, v, m
<1> QED  BY <1>2, <1>3, <1>4 DEF w, AddsPages

LEMMA BlocksAdded ==
  ASSUME NEW tb, NEW c \in Nat, NEW r, NEW s \in Nat, NEW a \in Nat, NEW i,
         NEW j \in Nat, NEW k, NEW jend \in Nat, j < jend
  PROVE  AddsBlocks(tb, c, r, s, a, i, j, k, jend)
<1> DEFINE w == WalkOf(tb, c, r, s, a, i, j, k)
           t == tb[r][i].to
           D == j .. jend - 1
           f == [j0 \in D |-> Entry(1, s + K * (j0 - j), a)]
           ub == [tb EXCEPT ![t] = Over(f, tb[t])]
<1>1. AddBlocks(w, jend) = [w EXCEPT !.tab[t] = Over(f, @), !.start_p = @ + K * (jend - j),
                                     !.jdx = jend]
  BY DEF AddBlocks, WalkOf
<1> HIDE DEF f, t
<1>2. AddBlocks(w, jend) = WalkOf(ub, c, r, s + K * (jend - j), a, i, jend, k)
  BY <1>1 DEF WalkOf
<1>3. ASSUME NEW R, Sound(tb, c, R), r \in R, i \in 0 .. I - 1, jend <= J
      PROVE  /\ Sound(ub, c, R)
             /\ \A q \in R, p \in Page :
                  Seen(ub, q, p) = IF q = r /\ Idx(p) = i /\ Jdx(p) \in j .. jend - 1
                                   THEN Entry(3, s + K * (Jdx(p) - j) + Kdx(p), a)
                                   ELSE Seen(tb, q, p)
  <2>1. /\ t = r + 2 + i /\ t \in Seconds(R)
        /\ \A q \in R, p \in Page : q + 2 + Idx(p) = t <=> q = r /\ Idx(p) = i
    BY <1>3, SecondOf DEF t
  <2>2. D \in SUBSET (0 .. J - 1)
    BY <1>3, Sizes
  <2>3. /\ f \in [D -> EntryType]
        /\ \A j0 \in D : /\ f[j0].bits = 1 /\ f[j0].attr = a /\ f[j0].to = s + K * (j0 - j)
    <3>1. \A x \in Nat : K * x \in Nat
      BY Sizes
    <3>2. \A j0 \in D : j0 - j \in Nat
      OBVIOUS
    <3>3. \A j0 \in D : s + K * (j0 - j) \in Nat
      BY <3>1, <3>2
    <3>4. \A j0 \in D : /\ Entry(1, s + K * (j0 - j), a) \in EntryType
                        /\ Entry(1, s + K * (j0 - j), a).bits = 1
                        /\ Entry(1, s + K * (j0 - j), a).to = s + K * (j0 - j)
                        /\ Entry(1, s + K * (j0 - j), a).attr = a
      BY <3>3, Entries
    <3> QED  BY <3>4 DEF f
  <2>5. tb \in [Table -> [Place -> EntryType]] /\ D \subseteq Place /\ t \in Table
    BY <1>3, <2>1, <2>2, Places, TablesOf DEF Sound
  <2> HIDE DEF D
  <2>6. Wrote(tb, ub, t, D, f)
    BY <2>3, <2>5 DEF Over, Wrote
  <2>7. \A j0 \in D : f[j0] \in EntryType /\ f[j0].bits = 1
    BY <2>3
  <2> HIDE DEF ub
  <2>4. /\ Sound(ub, c, R)
        /\ \A q \in R, p \in Page :
             Seen(ub, q, p) = IF q + 2 + Idx(p) = t /\ Jdx(p) \in D
                              THEN Entry(3, f[Jdx(p)].to + Kdx(p), f[Jdx(p)].attr)
                              ELSE Seen(tb, q, p)
    BY <1>3, <2>1, <2>2, <2>6, <2>7, EntriesWritten
  <2> QED  BY <2>1, <2>3, <2>4 DEF D
<1> HIDE DEF ub
<1> QED  BY <1>2, <1>3 DEF AddsBlocks

-----------------------------------------------------------------------------
\* A whole area.

\* From tb to ub, the pages x to y under the root r come to be mapped to those from
\* z on, and nothing else changes; unless the tables do not suffice.
Adds(tb, c, ub, d, r, z, a, x, y) ==
  /\ d \in Nat /\ c <= d
  /\ \A R : Sound(tb, c, R) /\ r \in R /\ d <= MaxTables
       => /\ Sound(ub, d, R)
          /\ \A q \in R, p \in Page :
               Seen(ub, q, p) = IF q = r /\ x <= p /\ p < y THEN Entry(3, z + (p - x), a)
                                ELSE Seen(tb, q, p)

LEMMA AddsNothing ==
  ASSUME NEW tb, NEW c \in Nat, NEW r, NEW z, NEW a, NEW x \in Nat
  PROVE  Adds(tb, c, tb, c, r, z, a, x, x)
<1>1. \A p \in Page : p \in Nat /\ ~(x <= p /\ p < x)
  BY PageRange
<1> QED  BY <1>1 DEF Adds

LEMMA AddsMore ==
  ASSUME NEW tb, NEW c \in Nat, NEW ub, NEW d, NEW vb, NEW e, NEW r, NEW z \in Nat, NEW a,
         NEW x \in Nat, NEW y \in Nat, NEW y2 \in Nat, x <= y, y <= y2,
         Adds(tb, c, ub, d, r, z, a, x, y), Adds(ub, d, vb, e, r, z + (y - x), a, y, y2)
  PROVE  Adds(tb, c, vb, e, r, z, a, x, y2)
<1>1. d \in Nat /\ c <= d /\ e \in Nat /\ d <= e /\ c <= e
  BY DEF Adds
<1>2. ASSUME NEW R, Sound(tb, c, R), r \in R, e <= MaxTables
      PROVE  /\ Sound(vb, e, R)
             /\ \A q \in R, p \in Page :
                  Seen(vb, q, p) = IF q = r /\ x <= p /\ p < y2 THEN Entry(3, z + (p - x), a)
                                   ELSE Seen(tb, q, p)
  <2>1. d <= MaxTables
    BY <1>1, <1>2, Sizes
  <2>2. /\ Sound(ub, d, R)
        /\ \A q \in R, p \in Page :
             Seen(ub, q, p) = IF q = r /\ x <= p /\ p < y THEN Entry(3, z + (p - x), a)
                              ELSE Seen(tb, q, p)
    BY <1>2, <2>1 DEF Adds
  <2>3. /\ Sound(vb, e, R)
        /\ \A q \in R, p \in Page :
             Seen(vb, q, p) = IF q = r /\ y <= p /\ p < y2 THEN Entry(3, z + (y - x) + (p - y), a)
                              ELSE Seen(ub, q, p)
    BY <1>2, <2>2 DEF Adds
  <2>4. ASSUME NEW q \in R, NEW p \in Page
        PROVE  Seen(vb, q, p) = IF q = r /\ x <= p /\ p < y2 THEN Entry(3, z + (p - x), a)
                                ELSE Seen(tb, q, p)
    <3>1. p \in Nat /\ z + (y - x) + (p - y) = z + (p - x)
      BY PageRange
    <3> QED  BY <2>2, <2>3, <3>1
  <2> QED  BY <2>3, <2>4
<1> QED  BY <1>1, <1>2 DEF Adds

LEMMA PagesUpTo ==
  ASSUME NEW tb, NEW c \in Nat, NEW r, NEW s \in Nat, NEW a \in Nat, NEW i \in 0 .. I - 1,
         NEW j \in 0 .. J - 1, NEW k \in 0 .. K, NEW kend \in 0 .. K
  PROVE  \E ub, d :
           /\ AddPages(WalkOf(tb, c, r, s, a, i, j, k), kend)
                = WalkOf(ub, d, r, s + (kend - k), a, i, j, k)
           /\ Adds(tb, c, ub, d, r, s, a, Position(i, j, k), Position(i, j, kend))
<1>1. PICK ub, d :
        /\ AddPages(WalkOf(tb, c, r, s, a, i, j, k), kend)
             = WalkOf(ub, d, r, s + (kend - k), a, i, j, k)
        /\ d \in Nat /\ c <= d
        /\ \A R : /\ Sound(tb, c, R) /\ r \in R /\ i \in 0 .. I - 1 /\ j \in 0 .. J - 1
                  /\ kend <= K /\ d <= MaxTables
             => /\ Sound(ub, d, R)
                /\ \A q \in R, p \in Page :
                     Seen(ub, q, p) =
                       IF q = r /\ Idx(p) = i /\ Jdx(p) = j /\ Kdx(p) \in k .. kend - 1
                       THEN Entry(3, s + (Kdx(p) - k), a) ELSE Seen(tb, q, p)
  <2>1. k \in Nat /\ kend \in Nat
    BY Sizes
  <2>2. AddsPages(tb, c, r, s, a, i, j, k, kend)
    BY <2>1, PagesAdded
  <2> QED  BY <2>2 DEF AddsPages
<1>2. ASSUME NEW R, Sound(tb, c, R), r \in R, d <= MaxTables
      PROVE  /\ Sound(ub, d, R)
             /\ \A q \in R, p \in Page :
                  Seen(ub, q, p) =
                    IF q = r /\ Position(i, j, k) <= p /\ p < Position(i, j, kend)
                    THEN Entry(3, s + (p - Position(i, j, k)), a) ELSE Seen(tb, q, p)
  <2>1. /\ Sound(ub, d, R)
        /\ \A q \in R, p \in Page :
             Seen(ub, q, p) =
               IF q = r /\ Idx(p) = i /\ Jdx(p) = j /\ Kdx(p) \in k .. kend - 1
               THEN Entry(3, s + (Kdx(p) - k), a) ELSE Seen(tb, q, p)
    BY <1>1, <1>2, Sizes
  <2>2. ASSUME NEW p \in Page
        PROVE  /\ Idx(p) = i /\ Jdx(p) = j /\ Kdx(p) \in k .. kend - 1
                    <=> Position(i, j, k) <= p /\ p < Position(i, j, kend)
               /\ Idx(p) = i /\ Jdx(p) = j => Kdx(p) - k = p - Position(i, j, k)
    <3>1. p \in Nat /\ Kdx(p) \in 0 .. K - 1 /\ i \in Nat /\ j \in Nat /\ k \in Nat
      BY PageRange, Sizes
    <3>2. Idx(p) = i /\ Jdx(p) = j /\ Kdx(p) \in k .. kend - 1
            <=> Position(i, j, k) <= p /\ p < Position(i, j, kend)
      BY <3>1, PagesOfEntries
    <3>3. /\ Position(i, j, 0) \in Nat
          /\ Position(i, j, k) = Position(i, j, 0) + k
          /\ Position(i, j, Kdx(p)) = Position(i, j, 0) + Kdx(p)
      <4>1. 0 \in Nat /\ Kdx(p) \in Nat
        BY <3>1, Sizes
      <4> QED  BY <3>1, <4>1, Positions
    <3>4. Idx(p) = i /\ Jdx(p) = j => p = Position(i, j, Kdx(p))
      BY <3>1, PageIndices
    <3> QED  BY <3>1, <3>2, <3>3, <3>4
  <2> QED  BY <2>1, <2>2
<1>3. Adds(tb, c, ub, d, r, s, a, Position(i, j, k), Position(i, j, kend))
  BY <1>1, <1>2 DEF Adds
<1> QED  BY <1>1, <1>3

LEMMA BlocksUpTo ==
  ASSUME NEW tb, NEW c \in Nat, NEW r, NEW s \in Nat, NEW a \in Nat, NEW i \in 0 .. I - 1,
         NEW j \in 0 .. J, NEW jend \in 0 .. J, j < jend
  PROVE  \E ub :
           /\ AddBlocks(WalkOf(tb, c, r, s, a, i, j, 0), jend)
                = WalkOf(ub, c, r, s + (Position(i, jend, 0) - Position(i, j, 0)), a, i, jend, 0)
           /\ Adds(tb, c, ub, c, r, s, a, Position(i, j, 0), Position(i, jend, 0))
<1>1. PICK ub :
        /\ AddBlocks(WalkOf(tb, c, r, s, a, i, j, 0), jend)
             = WalkOf(ub, c, r, s + K * (jend - j), a, i, jend, 0)
        /\ \A R : Sound(tb, c, R) /\ r \in R /\ i \in 0 .. I - 1 /\ jend <= J
             => /\ Sound(ub, c, R)
                /\ \A q \in R, p \in Page :
                     Seen(ub, q, p) =
                       IF q = r /\ Idx(p) = i /\ Jdx(p) \in j .. jend - 1
                       THEN Entry(3, s + K * (Jdx(p) - j) + Kdx(p), a) ELSE Seen(tb, q, p)
  <2>1. j \in Nat /\ jend \in Nat
    BY Sizes
  <2>2. AddsBlocks(tb, c, r, s, a, i, j, 0, jend)
    BY <2>1, BlocksAdded
  <2> QED  BY <2>2 DEF AddsBlocks
<1>2. ASSUME NEW l \in j .. J
      PROVE  /\ Position(i, j, 0) \in Nat /\ K * (l - j) \in Nat
             /\ Position(i, l, 0) = Position(i, j, 0) + K * (l - j)
  <2>1. l - j \in Nat /\ j + (l - j) = l /\ i \in Nat /\ j \in Nat /\ 0 \in Nat
    BY Sizes
  <2>2. Position(i, j + (l - j), 0) = Position(i, j, 0) + K * (l - j) /\ Position(i, j, 0) \in Nat
    BY <2>1, Positions
  <2>3. K * (l - j) \in Nat
    BY <2>1, Sizes
  <2> QED  BY <2>1, <2>2, <2>3
<1>3. s + K * (jend - j) = s + (Position(i, jend, 0) - Position(i, j, 0))
  <2>1. jend \in j .. J
    BY Sizes
  <2> QED  BY <1>2, <2>1
<1>4. ASSUME NEW R, Sound(tb, c, R), r \in R
      PROVE  /\ Sound(ub, c, R)
             /\ \A q \in R, p \in Page :
                  Seen(ub, q, p) =
                    IF q = r /\ Position(i, j, 0) <= p /\ p < Position(i, jend, 0)
                    THEN Entry(3, s + (p - Position(i, j, 0)), a) ELSE Seen(tb, q, p)
  <2>1. /\ Sound(ub, c, R)
        /\ \A q \in R, p \in Page :
             Seen(ub, q, p) =
               IF q = r /\ Idx(p) = i /\ Jdx(p) \in j .. jend - 1
               THEN Entry(3, s + K * (Jdx(p) - j) + Kdx(p), a) ELSE Seen(tb, q, p)
    BY <1>1, <1>4, Sizes
  <2>2. ASSUME NEW p \in Page
        PROVE  /\ Idx(p) = i /\ Jdx(p) \in j .. jend - 1
                    <=> Position(i, j, 0) <= p /\ p < Position(i, jend, 0)
               /\ Idx(p) = i /\ Jdx(p) \in j .. jend - 1
                    => s + K * (Jdx(p) - j) + Kdx(p) = s + (p - Position(i, j, 0))
    <3>1. p \in Nat /\ Jdx(p) \in 0 .. J - 1 /\ Kdx(p) \in 0 .. K - 1 /\ i \in Nat
      BY PageRange, Sizes
    <3>2. Idx(p) = i /\ Jdx(p) \in j .. jend - 1
            <=> Position(i, j, 0) <= p /\ p < Position(i, jend, 0)
      BY <3>1, PagesOfBlocks
    <3>3. ASSUME Idx(p) = i, Jdx(p) \in j .. jend - 1
          PROVE  s + K * (Jdx(p) - j) + Kdx(p) = s + (p - Position(i, j, 0))
      <4>1. /\ Position(i, j, 0) \in Nat /\ K * (Jdx(p) - j) \in Nat
            /\ Position(i, Jdx(p), 0) = Position(i, j, 0) + K * (Jdx(p) - j)
        <5>1. Jdx(p) \in j .. J
          BY <3>1, <3>3, Sizes
        <5> QED  BY <1>2, <5>1
      <4>2. p = Position(i, Jdx(p), Kdx(p))
        BY <3>1, <3>3, PageIndices
      <4>3. Position(i, Jdx(p), Kdx(p)) = Position(i, Jdx(p), 0) + Kdx(p)
        <5>1. Jdx(p) \in Nat /\ Kdx(p) \in Nat
          BY <3>1, Sizes
        <5> QED  BY <3>1, <5>1, Positions
      <4> DEFINE kj == K * (Jdx(p) - j)
      <4>4. p = Position(i, j, 0) + kj + Kdx(p) /\ kj \in Nat
        BY <4>1, <4>2, <4>3
      <4> HIDE DEF kj
      <4>5. s + kj + Kdx(p) = s + (p - Position(i, j, 0))
        BY <3>1, <4>1, <4>4
      <4> QED  BY <4>5 DEF kj
    <3> QED  BY <3>2, <3>3
  <2> QED  BY <2>1, <2>2
<1>5. Adds(tb, c, ub, c, r, s, a, Position(i, j, 0), Position(i, jend, 0))
  BY <1>4 DEF Adds
<1> QED  BY <1>1, <1>3, <1>5

LEMMA NotUpTo ==
  ASSUME NEW tb, NEW c, NEW r, NEW s, NEW a, NEW i, NEW j \in Nat, NEW k, NEW jend \in Nat, jend <= j
  PROVE  AddUpTo(WalkOf(tb, c, r, s, a, i, j, k), jend) = WalkOf(tb, c, r, s, a, i, j, k)
<1> DEFINE w == WalkOf(tb, c, r, s, a, i, j, k)
<1>1. w.jdx = j
  BY DEF WalkOf
<1> HIDE DEF w
<1>2. ~StartsInside(w, jend) /\ AddBlocks(w, jend) = w
  BY <1>1 DEF StartsInside, AddBlocks
<1> QED  BY <1>2 DEF w, AddUpTo

\* To the next block, and to the next gigabyte.
NextBlock(w)    == [w EXCEPT !.jdx = @ + 1, !.kdx = 0]
NextGigabyte(w) == [w EXCEPT !.jdx = 0, !.idx = @ + 1]

LEMMA Moves ==
  ASSUME NEW tb, NEW c, NEW r, NEW s, NEW a, NEW i, NEW j, NEW k
  PROVE  /\ NextBlock(WalkOf(tb, c, r, s, a, i, j, k)) = WalkOf(tb, c, r, s, a, i, j + 1, 0)
         /\ NextGigabyte(WalkOf(tb, c, r, s, a, i, j, k)) = WalkOf(tb, c, r, s, a, i + 1, 0, k)
<1> DEFINE w == WalkOf(tb, c, r, s, a, i, j, k)
           x == WalkOf(tb, c, r, s, a, i, j + 1, k)
           y == WalkOf(tb, c, r, s, a, i, 0, k)
<1>1. w.jdx = j /\ w.idx = i
  BY DEF WalkOf
<1>2. [w EXCEPT !.jdx = j + 1] = x
  BY DEF WalkOf
<1>3. [x EXCEPT !.kdx = 0] = WalkOf(tb, c, r, s, a, i, j + 1, 0)
  BY DEF WalkOf
<1>4. [w EXCEPT !.jdx = 0] = y
  BY DEF WalkOf
<1>5. [y EXCEPT !.idx = i + 1] = WalkOf(tb, c, r, s, a, i + 1, 0, k)
  BY DEF WalkOf
<1> HIDE DEF w, x, y
<1>6. NextBlock(w) = [[w EXCEPT !.jdx = j + 1] EXCEPT !.kdx = 0]
  BY <1>1 DEF NextBlock
<1>7. NextGigabyte(w) = [[w EXCEPT !.jdx = 0] EXCEPT !.idx = i + 1]
  BY <1>1 DEF NextGigabyte
<1>8. NextBlock(w) = WalkOf(tb, c, r, s, a, i, j + 1, 0)
  BY <1>2, <1>3, <1>6
<1>9. NextGigabyte(w) = WalkOf(tb, c, r, s, a, i + 1, 0, k)
  BY <1>4, <1>5, <1>7
<1> QED  BY <1>8, <1>9 DEF w

\* The pages from (i, j, k) to the block (i, jend, 0).
AddsUpTo(tb, c, r, s, a, i, j, k, jend) ==
  \E ub, d :
    /\ AddUpTo(WalkOf(tb, c, r, s, a, i, j, k), jend)
         = WalkOf(ub, d, r, s + (Position(i, jend, 0) - Position(i, j, k)), a, i, jend, 0)
    /\ Adds(tb, c, ub, d, r, s, a, Position(i, j, k), Position(i, jend, 0))

LEMMA UpTo ==
  ASSUME NEW tb, NEW c \in Nat, NEW r, NEW s \in Nat, NEW a \in Nat, NEW i \in 0 .. I - 1,
         NEW j \in 0 .. J - 1, NEW k \in 0 .. K - 1, NEW jend \in 0 .. J, j < jend
  PROVE  AddsUpTo(tb, c, r, s, a, i, j, k, jend)
<1> DEFINE w == WalkOf(tb, c, r, s, a, i, j, k)
<1>1. w.jdx = j /\ w.kdx = k
  BY DEF WalkOf
<1>2. /\ i \in Nat /\ j \in Nat /\ k \in Nat /\ j + 1 \in 0 .. J /\ j \in 0 .. J /\ k \in 0 .. K
      /\ K \in 0 .. K /\ jend \in Nat
  BY Sizes
<1>3. CASE k = 0
  <2>1. AddUpTo(w, jend) = AddBlocks(w, jend)
    <3> HIDE DEF w
    <3> QED  BY <1>1, <1>3 DEF AddUpTo, StartsInside
  <2>2. PICK ub :
          /\ AddBlocks(WalkOf(tb, c, r, s, a, i, j, 0), jend)
               = WalkOf(ub, c, r, s + (Position(i, jend, 0) - Position(i, j, 0)), a, i, jend, 0)
          /\ Adds(tb, c, ub, c, r, s, a, Position(i, j, 0), Position(i, jend, 0))
    BY <1>2, BlocksUpTo
  <2> QED  BY <1>3, <2>1, <2>2 DEF AddsUpTo
<1>4. CASE k # 0
  <2> DEFINE x == Position(i, j, k)
             y == Position(i, j, K)
  <2>1. PICK ub, d :
          /\ AddPages(w, K) = WalkOf(ub, d, r, s + (K - k), a, i, j, k)
          /\ Adds(tb, c, ub, d, r, s, a, x, y)
    BY <1>2, PagesUpTo
  <2>2. /\ y = Position(i, j + 1, 0) /\ K - k = y - x /\ x \in Nat /\ y \in Nat /\ x <= y
        /\ s + (K - k) \in Nat
    <3>1. /\ Position(i, j, K) = Position(i, j + 1, 0)
          /\ Position(i, j, 0) \in Nat
          /\ Position(i, j, K) = Position(i, j, 0) + K /\ Position(i, j, k) = Position(i, j, 0) + k
      BY <1>2, Positions, Sizes
    <3> QED  BY <1>2, <3>1, Sizes
  <2> DEFINE w1 == WalkOf(ub, d, r, s + (K - k), a, i, j + 1, 0)
  <2>3. NextBlock(AddPages(w, K)) = w1
    <3> DEFINE s1 == s + (K - k)
    <3> HIDE DEF w, s1, x, y
    <3>1. AddPages(w, K) = WalkOf(ub, d, r, s1, a, i, j, k)
      BY <2>1 DEF s1
    <3> QED  BY <3>1, Moves DEF s1
  <2>4. AddUpTo(w, jend) = AddBlocks(w1, jend)
    <3> HIDE DEF w, w1
    <3>1. StartsInside(w, jend)
      BY <1>1, <1>4 DEF StartsInside
    <3> QED  BY <2>3, <3>1 DEF AddUpTo, NextBlock
  <2> HIDE DEF w, x, y
  <2>5. d \in Nat
    BY <2>1 DEF Adds
  <2>6. CASE j + 1 = jend
    <3>1. AddBlocks(w1, jend) = w1
      BY <2>6 DEF AddBlocks, WalkOf
    <3>2. w1 = WalkOf(ub, d, r, s + (Position(i, jend, 0) - x), a, i, jend, 0)
      BY <2>2, <2>6
    <3>3. Adds(tb, c, ub, d, r, s, a, x, Position(i, jend, 0))
      BY <2>1, <2>2, <2>6
    <3> QED  BY <2>4, <3>1, <3>2, <3>3 DEF AddsUpTo, w, x
  <2>7. CASE j + 1 # jend
    <3>1. j + 1 < jend
      BY <1>2, <2>7
    <3> DEFINE s1 == s + (K - k)
               z == Position(i, jend, 0)
    <3>2. s1 \in Nat
      BY <2>2
    <3>3. PICK vb :
            /\ AddBlocks(WalkOf(ub, d, r, s1, a, i, j + 1, 0), jend)
                 = WalkOf(vb, d, r, s1 + (Position(i, jend, 0) - Position(i, j + 1, 0)), a, i, jend, 0)
            /\ Adds(ub, d, vb, d, r, s1, a, Position(i, j + 1, 0), Position(i, jend, 0))
      <4> HIDE DEF s1
      <4> QED  BY <1>2, <2>5, <3>1, <3>2, BlocksUpTo
    <3>4. z \in Nat /\ y <= z
      <4>1. Position(i, j + 1, 0) \in Nat /\ Position(i, jend, 0) = Position(i, j + 1, 0) + K * (jend - (j + 1))
        <5>1. /\ Position(i, j + 1, 0) \in Nat
              /\ \A l \in Nat : Position(i, (j + 1) + l, 0) = Position(i, j + 1, 0) + K * l
          <6>1. j + 1 \in Nat /\ 0 \in Nat
            BY <1>2
          <6> QED  BY <1>2, <6>1, Positions
        <5>2. jend - (j + 1) \in Nat /\ (j + 1) + (jend - (j + 1)) = jend
          BY <1>2, <3>1
        <5> QED  BY <5>1, <5>2
      <4>2. K * (jend - (j + 1)) \in Nat
        <5>1. jend - (j + 1) \in Nat
          BY <1>2, <3>1
        <5> QED  BY <5>1, Sizes
      <4> QED  BY <2>2, <4>1, <4>2
    <3>5. s1 = s + (y - x) /\ s1 + (z - y) = s + (z - x)
      BY <2>2, <3>4
    <3>6. AddUpTo(w, jend) = WalkOf(vb, d, r, s + (z - x), a, i, jend, 0)
      BY <2>2, <2>4, <3>3, <3>5
    <3>7. Adds(ub, d, vb, d, r, s + (y - x), a, y, z)
      BY <2>2, <3>3, <3>5
    <3> HIDE DEF s1, z
    <3>8. Adds(tb, c, vb, d, r, s, a, x, z)
      BY <2>1, <2>2, <3>4, <3>7, AddsMore
    <3> QED  BY <3>6, <3>8 DEF AddsUpTo, w, x, z
  <2> QED  BY <2>6, <2>7
<1> QED  BY <1>3, <1>4

\* The rest of a gigabyte, from (i, j, k).
AddsGigabyte(tb, c, r, s, a, i, j, k) ==
  \E ub, d :
    /\ AddGigabyte(WalkOf(tb, c, r, s, a, i, j, k))
         = WalkOf(ub, d, r, s + (Position(i + 1, 0, 0) - Position(i, j, k)), a, i + 1, 0, 0)
    /\ Adds(tb, c, ub, d, r, s, a, Position(i, j, k), Position(i + 1, 0, 0))

LEMMA Gigabyte ==
  ASSUME NEW tb, NEW c \in Nat, NEW r, NEW s \in Nat, NEW a \in Nat, NEW i \in 0 .. I - 1,
         NEW j \in 0 .. J - 1, NEW k \in 0 .. K - 1
  PROVE  AddsGigabyte(tb, c, r, s, a, i, j, k)
<1> DEFINE w == WalkOf(tb, c, r, s, a, i, j, k)
<1>1. AddsUpTo(tb, c, r, s, a, i, j, k, J)
  BY UpTo, Sizes
<1>2. PICK ub, d :
        /\ AddUpTo(w, J) = WalkOf(ub, d, r, s + (Position(i, J, 0) - Position(i, j, k)), a, i, J, 0)
        /\ Adds(tb, c, ub, d, r, s, a, Position(i, j, k), Position(i, J, 0))
  BY <1>1 DEF AddsUpTo
<1>3. Position(i, J, 0) = Position(i + 1, 0, 0)
  BY Positions, Sizes
<1>4. AddGigabyte(w)
        = WalkOf(ub, d, r, s + (Position(i, J, 0) - Position(i, j, k)), a, i + 1, 0, 0)
  <2> DEFINE s1 == s + (Position(i, J, 0) - Position(i, j, k))
  <2> HIDE DEF w, s1
  <2>1. AddUpTo(w, J) = WalkOf(ub, d, r, s1, a, i, J, 0)
    BY <1>2 DEF s1
  <2>2. AddGigabyte(w) = NextGigabyte(AddUpTo(w, J))
    BY DEF AddGigabyte, NextGigabyte
  <2> QED  BY <2>1, <2>2, Moves DEF s1
<1> QED  BY <1>2, <1>3, <1>4 DEF AddsGigabyte
-----------------------------------------------------------------------------
\* The turns of an area: what page_table_add_pages adds for it.

LEMMA PositionsOrdered ==
  ASSUME NEW i \in Nat, NEW j \in 0 .. J - 1, NEW k \in 0 .. K - 1,
         NEW g \in 0 .. J - 1, NEW h \in 0 .. K - 1
  PROVE  /\ Position(i, j, k) \in Nat /\ Position(i + 1, 0, 0) \in Nat
         /\ Position(i, j, k) <= Position(i + 1, 0, 0)
         /\ Position(i, 0, 0) <= Position(i, j, k)
         /\ Position(i, j, k) <= Position(i, g, h) => j < g \/ (j = g /\ k <= h)
         /\ j < g => Position(i, j, k) <= Position(i, g, 0)
         /\ Position(i, g, 0) <= Position(i, g, h)
<1> DEFINE b == i * J + j
           e == i * J + g
<1>1. /\ i * J \in Nat /\ b \in Nat /\ e \in Nat /\ (i + 1) * J = i * J + J
      /\ b = i * J + j /\ e = i * J + g
  BY Sizes
<1> HIDE DEF b, e
<1>2. /\ Position(i, j, k) = b * K + k /\ Position(i, g, h) = e * K + h
      /\ Position(i, g, 0) = e * K + 0 /\ Position(i, 0, 0) = (i * J) * K + 0
      /\ Position(i + 1, 0, 0) = (i * J + J) * K + 0
  BY <1>1, Sizes DEF Position, b, e
<1>3. /\ b * K \in Nat /\ e * K \in Nat /\ (i * J) * K \in Nat /\ (i * J + J) * K \in Nat
      /\ (b + 1) * K = b * K + K
  BY <1>1, Sizes
<1>4. b + 1 <= i * J + J => (b + 1) * K <= (i * J + J) * K
  BY <1>1, Sizes, Products
<1>5. i * J <= b => (i * J) * K <= b * K
  BY <1>1, Sizes, Products
<1>6. b * K <= e * K + h <=> b <= e
  BY <1>1, Sizes, Rows
<1>7. b + 1 <= e => (b + 1) * K <= e * K
  BY <1>1, Sizes, Products
<1>8. b + 1 <= i * J + J /\ i * J <= b /\ (b <= e <=> j <= g) /\ (b + 1 <= e <=> j < g)
      /\ (b = e <=> j = g)
  BY <1>1, Sizes
<1>9. k \in Nat /\ h \in Nat /\ k < K /\ h < K /\ K \in Nat
  BY Sizes
<1> QED  BY <1>2, <1>3, <1>4, <1>5, <1>6, <1>7, <1>8, <1>9

IsWalk(n, w, t) == t = [m \in 0 .. n |-> IF m = 0 THEN w ELSE AddGigabyte(t[m-1])]

LEMMA WalkExists ==
  ASSUME NEW n \in Nat, NEW w
  PROVE  \E t : IsWalk(n, w, t)
<1> DEFINE Good == {k \in Nat : \E t : IsWalk(k, w, t)}
<1>1. 0 \in Good
  <2>1. IsWalk(0, w, [k \in 0 .. 0 |-> w])
    BY DEF IsWalk
  <2> QED  BY <2>1
<1>2. ASSUME NEW k \in Nat, k \in Good PROVE k + 1 \in Good
  <2>1. PICK t : IsWalk(k, w, t)
    BY <1>2
  <2> DEFINE u == [m \in 0 .. k + 1 |-> IF m = k + 1 THEN AddGigabyte(t[k]) ELSE t[m]]
  <2>2. \A m \in 0 .. k + 1 : u[m] = IF m = 0 THEN w ELSE AddGigabyte(u[m-1])
    BY <2>1 DEF IsWalk
  <2>3. IsWalk(k + 1, w, u)
    BY <2>2 DEF IsWalk
  <2> HIDE DEF u
  <2> QED  BY <2>3
<1> HIDE DEF Good
<1>3. n \in Good
  BY <1>1, <1>2, Induction
<1> QED  BY <1>3 DEF Good

\* The rest of an area from the walk w, in the gigabyte where it ends.
Ending(w, end) ==
  LET w2 == AddUpTo(w, Jdx(end))
  IN  IF w2.kdx < Kdx(end) THEN AddPages(w2, Kdx(end)) ELSE w2

\* The turns t of an area that spans n gigabytes and a rest.
Runs(tb, c, r, a, n, t) ==
  /\ t[0] = WalkOf(tb, c, r, a.start, a.attr, Idx(a.virt), Jdx(a.virt), Kdx(a.virt))
  /\ \A m \in 1 .. n : t[m] = AddGigabyte(t[m-1])
  /\ AddArea([tab |-> tb, count |-> c], r, a)
       = [tab   |-> Ending(t[n], a.virt + a.size).tab,
          count |-> Ending(t[n], a.virt + a.size).count]

LEMMA AreaRuns ==
  ASSUME NEW tb, NEW c, NEW r, NEW a, NEW n \in Nat, n = Idx(a.virt + a.size) - Idx(a.virt)
  PROVE  \E t : Runs(tb, c, r, a, n, t)
<1> DEFINE w == WalkOf(tb, c, r, a.start, a.attr, Idx(a.virt), Jdx(a.virt), Kdx(a.virt))
           t == CHOOSE u : IsWalk(n, w, u)
<1>1. AddArea([tab |-> tb, count |-> c], r, a)
        = [tab   |-> Ending(t[n], a.virt + a.size).tab,
           count |-> Ending(t[n], a.virt + a.size).count]
  BY DEF AddArea, Ending, IsWalk, WalkOf
<1>2. IsWalk(n, w, t)
  BY WalkExists
<1> HIDE DEF t
<1>3. \A m \in 0 .. n : t[m] = IF m = 0 THEN w ELSE AddGigabyte(t[m-1])
  <2> HIDE DEF w
  <2> QED  BY <1>2 DEF IsWalk
<1>4. 0 \in 0 .. n /\ \A m \in 1 .. n : m \in 0 .. n /\ m # 0
  OBVIOUS
<1> HIDE DEF w
<1>5. t[0] = w /\ \A m \in 1 .. n : t[m] = AddGigabyte(t[m-1])
  BY <1>3, <1>4
<1> QED  BY <1>1, <1>5 DEF w, Runs

\* An area and its pages, as the code takes it.
AddedArea(a) ==
  /\ a.virt \in Nat /\ a.size \in Nat /\ a.start \in Nat /\ a.attr \in Nat
  /\ a.size > 0 /\ a.virt + a.size < I * J * K

\* The walk w has come, in gigabyte i, to the page y, with every page of the area
\* before it added.
Come(tb, c, r, a, i, w) ==
  \E ub, d, j, k :
    /\ w = WalkOf(ub, d, r, a.start + (Position(i, j, k) - a.virt), a.attr, i, j, k)
    /\ j \in 0 .. J - 1 /\ k \in 0 .. K - 1
    /\ a.virt <= Position(i, j, k) /\ Position(i, j, k) <= a.virt + a.size
    /\ Adds(tb, c, ub, d, r, a.start, a.attr, a.virt, Position(i, j, k))

\* The gigabytes of an area.
LEMMA Gigabytes ==
  ASSUME NEW a, AddedArea(a)
  PROVE  /\ Idx(a.virt) \in Nat /\ Jdx(a.virt) \in 0 .. J - 1 /\ Kdx(a.virt) \in 0 .. K - 1
         /\ a.virt = Position(Idx(a.virt), Jdx(a.virt), Kdx(a.virt))
         /\ LET e == a.virt + a.size
            IN  /\ Idx(e) \in 0 .. I - 1 /\ Jdx(e) \in 0 .. J - 1 /\ Kdx(e) \in 0 .. K - 1
                /\ e = Position(Idx(e), Jdx(e), Kdx(e))
                /\ Idx(a.virt) <= Idx(e)
                /\ \A i \in Nat : i <= Idx(e) => Position(i, 0, 0) <= e
<1> DEFINE e == a.virt + a.size
<1>1. a.virt \in Nat /\ e \in Nat /\ a.virt <= e /\ e \in Page
  <2>1. I * J * K \in Nat
    BY Sizes
  <2> QED  BY <2>1 DEF AddedArea, Page
<1>2. /\ Idx(a.virt) \in Nat /\ Jdx(a.virt) \in 0 .. J - 1 /\ Kdx(a.virt) \in 0 .. K - 1
      /\ a.virt = Position(Idx(a.virt), Jdx(a.virt), Kdx(a.virt))
  BY <1>1, PageIndices
<1>3. /\ Idx(e) \in 0 .. I - 1 /\ Jdx(e) \in 0 .. J - 1 /\ Kdx(e) \in 0 .. K - 1
      /\ e = Position(Idx(e), Jdx(e), Kdx(e))
  <2> HIDE DEF e
  <2> QED  BY <1>1, PageRange, PageIndices
<1>4. ASSUME NEW i \in Nat, NEW p \in Nat
      PROVE  Position(i, 0, 0) <= p <=> i <= Idx(p)
  <2> DEFINE b == Idx(p) * J + Jdx(p)
             h == i * J
  <2>1. Idx(p) \in Nat /\ Jdx(p) \in 0 .. J - 1 /\ Kdx(p) \in 0 .. K - 1 /\ p = b * K + Kdx(p)
    BY PageIndices DEF Position
  <2>2. b \in Nat /\ h \in Nat /\ Position(i, 0, 0) = h * K
    <3>1. h \in Nat /\ h * K \in Nat
      BY Sizes
    <3>2. Idx(p) * J \in Nat
      BY <2>1, Sizes
    <3>3. (h + 0) * K + 0 = h * K
      <4> HIDE DEF h
      <4> QED  BY <3>1
    <3> QED  BY <2>1, <3>1, <3>2, <3>3 DEF Position
  <2>3. h <= b <=> i <= Idx(p)
    BY <2>1, Sizes, Rows
  <2> HIDE DEF b, h
  <2>4. h * K <= b * K + Kdx(p) <=> h <= b
    BY <2>1, <2>2, Sizes, Rows
  <2> QED  BY <2>1, <2>2, <2>3, <2>4
<1>5. Idx(a.virt) <= Idx(e)
  <2>1. Position(Idx(a.virt), 0, 0) <= a.virt
    BY <1>1, <1>2, <1>4
  <2>2. Position(Idx(a.virt), 0, 0) \in Nat
    BY <1>2, Positions, Sizes
  <2>3. Position(Idx(a.virt), 0, 0) <= e
    <3> HIDE DEF e
    <3> QED  BY <1>1, <2>1, <2>2
  <2> HIDE DEF e
  <2> QED  BY <1>1, <1>2, <1>4, <2>3
<1>6. \A i \in Nat : i <= Idx(e) => Position(i, 0, 0) <= e
  <2> HIDE DEF e
  <2> QED  BY <1>1, <1>4
<1> HIDE DEF e
<1>7. QED  BY <1>2, <1>3, <1>5, <1>6 DEF e

LEMMA WalkBegins ==
  ASSUME NEW tb, NEW c \in Nat, NEW r, NEW a, AddedArea(a)
  PROVE  Come(tb, c, r, a, Idx(a.virt),
              WalkOf(tb, c, r, a.start, a.attr, Idx(a.virt), Jdx(a.virt), Kdx(a.virt)))
<1> DEFINE i == Idx(a.virt)
           j == Jdx(a.virt)
           k == Kdx(a.virt)
<1>1. j \in 0 .. J - 1 /\ k \in 0 .. K - 1 /\ a.virt = Position(i, j, k)
  BY Gigabytes
<1>2. /\ a.virt \in Nat /\ a.start \in Nat /\ a.size \in Nat
      /\ a.virt <= a.virt /\ a.virt <= a.virt + a.size /\ a.start + (a.virt - a.virt) = a.start
  BY DEF AddedArea
<1>3. Adds(tb, c, tb, c, r, a.start, a.attr, a.virt, a.virt)
  BY <1>2, AddsNothing
<1> DEFINE x == Position(i, j, k)
<1>4. /\ x = a.virt /\ a.virt <= x /\ x <= a.virt + a.size /\ a.start + (x - a.virt) = a.start
      /\ Adds(tb, c, tb, c, r, a.start, a.attr, a.virt, x)
  BY <1>1, <1>2, <1>3
<1> HIDE DEF i, j, k
<1> QED  BY <1>1, <1>4 DEF Come, i, j, k

LEMMA WalkTurns ==
  ASSUME NEW tb, NEW c \in Nat, NEW r, NEW a, AddedArea(a), NEW i \in Nat,
         i < Idx(a.virt + a.size), NEW w, Come(tb, c, r, a, i, w)
  PROVE  Come(tb, c, r, a, i + 1, AddGigabyte(w))
<1> DEFINE v == a.virt
           z == a.start
           e == a.virt + a.size
<1>1. PICK ub, d, j, k :
        /\ w = WalkOf(ub, d, r, z + (Position(i, j, k) - v), a.attr, i, j, k)
        /\ j \in 0 .. J - 1 /\ k \in 0 .. K - 1
        /\ v <= Position(i, j, k) /\ Position(i, j, k) <= e
        /\ Adds(tb, c, ub, d, r, z, a.attr, v, Position(i, j, k))
  BY DEF Come
<1>2. i \in 0 .. I - 1 /\ Position(i + 1, 0, 0) <= e /\ v \in Nat /\ z \in Nat /\ a.attr \in Nat
      /\ e \in Nat
  <2>1. Idx(e) \in 0 .. I - 1 /\ \A l \in Nat : l <= Idx(e) => Position(l, 0, 0) <= e
    BY Gigabytes
  <2>2. v \in Nat /\ z \in Nat /\ a.attr \in Nat /\ e \in Nat
    BY DEF AddedArea
  <2> HIDE DEF e
  <2>3. i + 1 \in Nat /\ i + 1 <= Idx(e) /\ i \in 0 .. I - 1
    BY <2>1, Sizes DEF e
  <2> QED  BY <2>1, <2>2, <2>3
<1> DEFINE x == Position(i, j, k)
           y == Position(i + 1, 0, 0)
           s == z + (x - v)
<1>3. x \in Nat /\ y \in Nat /\ x <= y
  BY <1>1, PositionsOrdered
<1>4. d \in Nat
  BY <1>1 DEF Adds
<1>5. s \in Nat /\ s = z + (x - v) /\ s + (y - x) = z + (y - v) /\ v <= y
  <2> HIDE DEF x, y, v, z
  <2> QED  BY <1>1, <1>2, <1>3 DEF x, v
<1>6. AddsGigabyte(ub, d, r, s, a.attr, i, j, k)
  <2> HIDE DEF s, x
  <2> QED  BY <1>1, <1>2, <1>4, <1>5, Gigabyte
<1>7. PICK vb, g :
        /\ AddGigabyte(WalkOf(ub, d, r, s, a.attr, i, j, k))
             = WalkOf(vb, g, r, s + (y - x), a.attr, i + 1, 0, 0)
        /\ Adds(ub, d, vb, g, r, s, a.attr, x, y)
  <2> HIDE DEF s
  <2> QED  BY <1>6 DEF AddsGigabyte
<1>8. Adds(tb, c, vb, g, r, z, a.attr, v, y)
  <2> HIDE DEF v, z, x, y
  <2>1. Adds(tb, c, ub, d, r, z, a.attr, v, x)
    BY <1>1 DEF x
  <2>2. Adds(ub, d, vb, g, r, z + (x - v), a.attr, x, y)
    BY <1>7
  <2>3. v <= x
    BY <1>1 DEF x
  <2> QED  BY <1>2, <1>3, <2>1, <2>2, <2>3, AddsMore
<1>9. AddGigabyte(w) = WalkOf(vb, g, r, z + (y - v), a.attr, i + 1, 0, 0)
  <2>1. w = WalkOf(ub, d, r, s, a.attr, i, j, k)
    BY <1>1
  <2> HIDE DEF s, x, y, v, z
  <2> QED  BY <1>5, <1>7, <2>1
<1>10. 0 \in 0 .. J - 1 /\ 0 \in 0 .. K - 1
  BY Sizes
<1> QED  BY <1>2, <1>5, <1>8, <1>9, <1>10 DEF Come

Ends(tb, c, r, a, w) ==
  \E ub, d, s, j, k :
    /\ Ending(w, a.virt + a.size) = WalkOf(ub, d, r, s, a.attr, Idx(a.virt + a.size), j, k)
    /\ Adds(tb, c, ub, d, r, a.start, a.attr, a.virt, a.virt + a.size)

LEMMA WalkEnds ==
  ASSUME NEW tb, NEW c \in Nat, NEW r, NEW a, AddedArea(a), NEW w,
         Come(tb, c, r, a, Idx(a.virt + a.size), w)
  PROVE  Ends(tb, c, r, a, w)
<1> DEFINE v == a.virt
           z == a.start
           e == a.virt + a.size
           i == Idx(e)
           g == Jdx(e)
           h == Kdx(e)
<1>1. PICK ub, d, j, k :
        /\ w = WalkOf(ub, d, r, z + (Position(i, j, k) - v), a.attr, i, j, k)
        /\ j \in 0 .. J - 1 /\ k \in 0 .. K - 1
        /\ v <= Position(i, j, k) /\ Position(i, j, k) <= e
        /\ Adds(tb, c, ub, d, r, z, a.attr, v, Position(i, j, k))
  BY DEF Come
<1>2. /\ i \in 0 .. I - 1 /\ g \in 0 .. J - 1 /\ h \in 0 .. K - 1 /\ e = Position(i, g, h)
      /\ v \in Nat /\ z \in Nat /\ a.attr \in Nat /\ e \in Nat
  BY Gigabytes DEF AddedArea
<1>3. i \in Nat /\ J \in Nat /\ K \in Nat /\ g \in 0 .. J /\ h \in 0 .. K /\ h \in Nat
  BY <1>2, Sizes
<1> DEFINE x == Position(i, j, k)
           s == z + (x - v)
\* The blocks up to that of the end.
<1>4. \E vb, f, l :
        /\ AddUpTo(w, g) = WalkOf(vb, f, r, z + (Position(i, g, l) - v), a.attr, i, g, l)
        /\ l \in 0 .. K - 1 /\ v <= Position(i, g, l) /\ Position(i, g, l) <= e
        /\ Adds(tb, c, vb, f, r, z, a.attr, v, Position(i, g, l))
  <2> HIDE DEF i, g, h, e, v, z
  <2>1. x \in Nat /\ d \in Nat
    BY <1>1, <1>3, PositionsOrdered, <1>2 DEF Adds
  <2>2. x <= e => j < g \/ (j = g /\ k <= h)
    BY <1>1, <1>2, <1>3, PositionsOrdered
  <2>3. CASE j = g
    <3>1. AddUpTo(w, g) = w
      <4> DEFINE s0 == z + (Position(i, j, k) - v)
      <4>1. w = WalkOf(ub, d, r, s0, a.attr, i, j, k)
        BY <1>1
      <4> HIDE DEF s0, x
      <4>2. j \in Nat /\ g \in Nat /\ g <= j
        BY <1>1, <1>2, <2>3, Sizes
      <4> QED  BY <4>1, <4>2, NotUpTo
    <3> QED  BY <1>1, <2>3, <3>1
  <2>4. CASE j < g
    <3> DEFINE y == Position(i, g, 0)
    <3>1. y \in Nat /\ x <= y /\ y <= e
      <4>1. 0 \in 0 .. K - 1
        BY Sizes
      <4> QED  BY <1>1, <1>2, <1>3, <2>4, <4>1, PositionsOrdered
    <3>2. s \in Nat /\ s = z + (x - v) /\ s + (y - x) = z + (y - v) /\ v <= y
      <4>1. v <= x
        BY <1>1
      <4> HIDE DEF x, y
      <4> QED  BY <1>2, <2>1, <3>1, <4>1
    <3>3. AddsUpTo(ub, d, r, s, a.attr, i, j, k, g)
      <4> HIDE DEF s, x
      <4> QED  BY <1>1, <1>2, <1>3, <2>1, <2>4, <3>2, UpTo
    <3>4. PICK vb, f :
            /\ AddUpTo(WalkOf(ub, d, r, s, a.attr, i, j, k), g)
                 = WalkOf(vb, f, r, s + (y - x), a.attr, i, g, 0)
            /\ Adds(ub, d, vb, f, r, s, a.attr, x, y)
      <4> HIDE DEF s
      <4> QED  BY <3>3 DEF AddsUpTo
    <3>5. Adds(tb, c, vb, f, r, z, a.attr, v, y)
      <4>1. Adds(tb, c, ub, d, r, z, a.attr, v, x) /\ v <= x
        BY <1>1
      <4>2. Adds(ub, d, vb, f, r, z + (x - v), a.attr, x, y)
        BY <3>4
      <4> HIDE DEF x, y, s
      <4> QED  BY <1>2, <2>1, <3>1, <4>1, <4>2, AddsMore
    <3>6. AddUpTo(w, g) = WalkOf(vb, f, r, z + (y - v), a.attr, i, g, 0)
      <4>1. w = WalkOf(ub, d, r, s, a.attr, i, j, k)
        BY <1>1
      <4> HIDE DEF s, x, y
      <4> QED  BY <3>2, <3>4, <4>1
    <3>7. 0 \in 0 .. K - 1
      BY Sizes
    <3> QED  BY <3>1, <3>2, <3>5, <3>6, <3>7
  <2> QED  BY <1>1, <2>2, <2>3, <2>4
<1>5. PICK vb, f, l :
        /\ AddUpTo(w, g) = WalkOf(vb, f, r, z + (Position(i, g, l) - v), a.attr, i, g, l)
        /\ l \in 0 .. K - 1 /\ v <= Position(i, g, l) /\ Position(i, g, l) <= e
        /\ Adds(tb, c, vb, f, r, z, a.attr, v, Position(i, g, l))
  BY <1>4
<1> DEFINE y == Position(i, g, l)
           q == z + (y - v)
           w2 == WalkOf(vb, f, r, q, a.attr, i, g, l)
<1> HIDE DEF x, s
<1>6. Ending(w, e) = IF l < h THEN AddPages(w2, h) ELSE w2
  <2>1. w2.kdx = l
    BY DEF WalkOf
  <2>2. AddUpTo(w, Jdx(e)) = w2
    BY <1>5
  <2> HIDE DEF w2, e
  <2> QED  BY <2>1, <2>2 DEF Ending
<1>7. y \in Nat /\ f \in Nat /\ (y <= e => l <= h) /\ (l = h => y = e)
  <2>1. f \in Nat
    BY <1>5 DEF Adds
  <2> HIDE DEF e, i, g, h
  <2>2. y \in Nat /\ (y <= e => l <= h)
    BY <1>2, <1>3, <1>5, PositionsOrdered
  <2> QED  BY <1>2, <2>1, <2>2
<1>8. CASE l < h
  <2>1. q \in Nat /\ q = z + (y - v) /\ v <= y /\ y <= e /\ l \in 0 .. K
    <3> HIDE DEF e, y, i, g, z, v
    <3> QED  BY <1>2, <1>5, <1>7, Sizes DEF y
  <2>2. PICK xb, b :
          /\ AddPages(WalkOf(vb, f, r, q, a.attr, i, g, l), h)
               = WalkOf(xb, b, r, q + (h - l), a.attr, i, g, l)
          /\ Adds(vb, f, xb, b, r, q, a.attr, y, Position(i, g, h))
    <3> HIDE DEF q, i, g, h
    <3> QED  BY <1>2, <1>3, <1>5, <1>7, <2>1, PagesUpTo
  <2>3. Adds(tb, c, xb, b, r, z, a.attr, v, e)
    <3>1. Adds(vb, f, xb, b, r, z + (y - v), a.attr, y, e)
      <4> HIDE DEF e, i, g, h, y, v, z
      <4> QED  BY <1>2, <2>2
    <3>2. Adds(tb, c, vb, f, r, z, a.attr, v, y)
      BY <1>5
    <3> HIDE DEF e, y, z, v, q
    <3> QED  BY <1>2, <1>7, <2>1, <3>1, <3>2, AddsMore
  <2>4. Ending(w, e) = WalkOf(xb, b, r, q + (h - l), a.attr, i, g, l)
    BY <1>6, <1>8, <2>2
  <2> HIDE DEF q, g, h
  <2> QED  BY <2>3, <2>4 DEF Ends
<1>9. CASE ~(l < h)
  <2>1. y = e
    <3> HIDE DEF e, y, h
    <3> QED  BY <1>2, <1>5, <1>7, <1>9 DEF y
  <2>2. Adds(tb, c, vb, f, r, z, a.attr, v, e)
    <3>1. Adds(tb, c, vb, f, r, z, a.attr, v, y)
      BY <1>5
    <3> HIDE DEF e, y
    <3> QED  BY <2>1, <3>1
  <2>3. Ending(w, e) = WalkOf(vb, f, r, q, a.attr, i, g, l)
    BY <1>6, <1>9
  <2> HIDE DEF q, g
  <2> QED  BY <2>2, <2>3 DEF Ends
<1> QED  BY <1>8, <1>9

\* An area is added to the pages under r, exactly.
LEMMA AreaAdded ==
  ASSUME NEW tb, NEW c \in Nat, NEW r, NEW a, AddedArea(a)
  PROVE  \E ub, d :
           /\ AddArea([tab |-> tb, count |-> c], r, a) = [tab |-> ub, count |-> d]
           /\ Adds(tb, c, ub, d, r, a.start, a.attr, a.virt, a.virt + a.size)
<1> DEFINE e == a.virt + a.size
           n == Idx(e) - Idx(a.virt)
<1>1. /\ Idx(a.virt) \in Nat /\ Idx(e) \in Nat /\ Idx(a.virt) <= Idx(e)
  BY Gigabytes, Sizes
<1>2. n \in Nat /\ n = Idx(a.virt + a.size) - Idx(a.virt)
  <2> HIDE DEF e
  <2> QED  BY <1>1 DEF e
<1> DEFINE w == WalkOf(tb, c, r, a.start, a.attr, Idx(a.virt), Jdx(a.virt), Kdx(a.virt))
<1>3. PICK t :
        /\ t[0] = w
        /\ \A m \in 1 .. n : t[m] = AddGigabyte(t[m-1])
        /\ AddArea([tab |-> tb, count |-> c], r, a)
             = [tab |-> Ending(t[n], e).tab, count |-> Ending(t[n], e).count]
  <2> HIDE DEF n
  <2>1. PICK t : Runs(tb, c, r, a, n, t)
    BY <1>2, AreaRuns
  <2> QED  BY <2>1 DEF Runs
<1>4. Come(tb, c, r, a, Idx(a.virt), w)
  BY WalkBegins
<1> DEFINE Good == {m \in Nat : m <= n => Come(tb, c, r, a, Idx(a.virt) + m, t[m])}
<1>5. 0 \in Good
  <2>1. Idx(a.virt) + 0 = Idx(a.virt)
    BY <1>1
  <2> HIDE DEF w
  <2> QED  BY <1>3, <1>4, <2>1
<1>6. ASSUME NEW m \in Nat, m \in Good PROVE m + 1 \in Good
  <2> SUFFICES ASSUME m + 1 <= n PROVE Come(tb, c, r, a, Idx(a.virt) + (m + 1), t[m + 1])
    OBVIOUS
  <2> DEFINE i == Idx(a.virt) + m
  <2> HIDE DEF e
  <2>1. i \in Nat /\ i < Idx(e) /\ i + 1 = Idx(a.virt) + (m + 1) /\ m <= n
    BY <1>1
  <2>2. Come(tb, c, r, a, i, t[m])
    BY <1>6, <2>1
  <2>3. t[m + 1] = AddGigabyte(t[m])
    <3>1. m + 1 \in 1 .. n /\ (m + 1) - 1 = m
      BY <1>2
    <3> HIDE DEF n
    <3> QED  BY <1>3, <3>1
  <2> HIDE DEF i
  <2>4. Come(tb, c, r, a, i + 1, AddGigabyte(t[m]))
    BY <2>1, <2>2, WalkTurns DEF e
  <2> QED  BY <2>1, <2>3, <2>4
<1>7. Come(tb, c, r, a, Idx(e), t[n])
  <2> HIDE DEF Good
  <2>1. n \in Good
    BY <1>2, <1>5, <1>6, Induction
  <2>2. Idx(a.virt) + n = Idx(e) /\ n <= n
    BY <1>1
  <2> HIDE DEF n
  <2> QED  BY <2>1, <2>2 DEF Good
<1>8. PICK ub, d, s, j, k :
        /\ Ending(t[n], e) = WalkOf(ub, d, r, s, a.attr, Idx(e), j, k)
        /\ Adds(tb, c, ub, d, r, a.start, a.attr, a.virt, e)
  <2>1. Ends(tb, c, r, a, t[n])
    <3> HIDE DEF n
    <3> QED  BY <1>7, WalkEnds
  <2> QED  BY <2>1 DEF Ends
<1>9. Ending(t[n], e).tab = ub /\ Ending(t[n], e).count = d
  <2> HIDE DEF e, n
  <2> QED  BY <1>8 DEF WalkOf
<1> QED  BY <1>3, <1>8, <1>9

-----------------------------------------------------------------------------
\* Some areas, one after another.

\* The areas, of the first m, that hold the page p, and what p is mapped to by the
\* last of them; to old if there is none.
By(areas, m, p) ==
  {k \in 1 .. m : p \in areas[k].virt .. areas[k].virt + areas[k].size - 1}

Mapping(a, p) == Entry(3, a.start + (p - a.virt), a.attr)

Mapped(areas, m, p, old) ==
  IF By(areas, m, p) = {} THEN old ELSE Mapping(areas[Max(By(areas, m, p))], p)

LEMMA NoneMapped ==
  ASSUME NEW areas, NEW p, NEW old
  PROVE  Mapped(areas, 0, p, old) = old
BY DEF Mapped, By

LEMMA MappedNext ==
  ASSUME NEW areas, NEW m \in Nat, NEW p \in Nat, NEW old, AddedArea(areas[m + 1])
  PROVE  Mapped(areas, m + 1, p, old)
           = IF areas[m + 1].virt <= p /\ p < areas[m + 1].virt + areas[m + 1].size
             THEN Mapping(areas[m + 1], p) ELSE Mapped(areas, m, p, old)
<1> DEFINE a == areas[m + 1]
           B == By(areas, m, p)
           C == By(areas, m + 1, p)
<1>1. /\ a.virt \in Nat /\ a.size \in Nat
      /\ p \in a.virt .. a.virt + a.size - 1 <=> a.virt <= p /\ p < a.virt + a.size
  BY DEF AddedArea
<1>2. 1 .. m + 1 = (1 .. m) \cup {m + 1}
  OBVIOUS
<1>3. C = IF p \in a.virt .. a.virt + a.size - 1 THEN B \cup {m + 1} ELSE B
  BY <1>2 DEF By
<1>4. B \subseteq 1 .. m
  BY DEF By
<1> HIDE DEF B, C
<1>5. CASE p \in a.virt .. a.virt + a.size - 1
  <2>1. C = B \cup {m + 1}
    BY <1>3, <1>5
  <2>2. Max(C) = m + 1 /\ C # {}
    <3>1. \A x \in C : x = m + 1 \/ x \in 1 .. m
      BY <1>4, <2>1
    <3>2. m + 1 \in C /\ \A x \in C : m + 1 >= x
      BY <2>1, <3>1
    <3>3. \A y \in C : (\A x \in C : y >= x) => y = m + 1
      BY <3>1, <3>2
    <3> QED  BY <3>2, <3>3 DEF Max
  <2> QED  BY <1>1, <1>5, <2>2 DEF Mapped, C
<1>6. CASE ~(p \in a.virt .. a.virt + a.size - 1)
  BY <1>1, <1>3, <1>6 DEF Mapped, B, C
<1> QED  BY <1>5, <1>6

\* The areas beyond the m-th play no part.
LEMMA MappedAlike ==
  ASSUME NEW s, NEW t, NEW m \in Nat, \A k \in 1 .. m : s[k] = t[k], NEW p, NEW old
  PROVE  Mapped(s, m, p, old) = Mapped(t, m, p, old)
<1>1. By(s, m, p) = By(t, m, p)
  BY DEF By
<1>2. By(s, m, p) # {} => Max(By(s, m, p)) \in 1 .. m
  <2> DEFINE S == By(s, m, p)
  <2>1. S \subseteq 1 .. m
    BY DEF By
  <2> HIDE DEF S
  <2>2. ASSUME S # {} PROVE Max(S) \in S
    <3>1. S \in SUBSET Nat /\ IsFiniteSet(S)
      <4>1. IsFiniteSet(1 .. m)
        BY FS_Interval
      <4>2. IsFiniteSet(S)
        BY <2>1, <4>1, FS_Subset
      <4> QED  BY <2>1, <4>2
    <3>2. \E x \in S : \A y \in S : x >= y
      BY <2>2, <3>1, Greatest
    <3> QED  BY <3>2 DEF Max
  <2> QED  BY <2>1, <2>2 DEF S
<1> QED  BY <1>1, <1>2 DEF Mapped

\* From tb to ub, the first m of the areas are added under r; unless the tables do
\* not suffice.
AddsAreas(tb, c, ub, d, r, areas, m) ==
  /\ d \in Nat /\ c <= d
  /\ \A R : Sound(tb, c, R) /\ r \in R /\ d <= MaxTables
       => /\ Sound(ub, d, R)
          /\ \A q \in R, p \in Page :
               Seen(ub, q, p) = IF q = r THEN Mapped(areas, m, p, Seen(tb, r, p))
                                ELSE Seen(tb, q, p)

LEMMA NoAreas ==
  ASSUME NEW tb, NEW c \in Nat, NEW r, NEW areas
  PROVE  AddsAreas(tb, c, tb, c, r, areas, 0)
BY NoneMapped DEF AddsAreas

LEMMA MoreAreas ==
  ASSUME NEW tb, NEW c \in Nat, NEW ub, NEW d, NEW vb, NEW e, NEW r, NEW areas, NEW m \in Nat,
         AddsAreas(tb, c, ub, d, r, areas, m), AddedArea(areas[m + 1]),
         Adds(ub, d, vb, e, r, areas[m + 1].start, areas[m + 1].attr, areas[m + 1].virt,
              areas[m + 1].virt + areas[m + 1].size)
  PROVE  AddsAreas(tb, c, vb, e, r, areas, m + 1)
<1> DEFINE a == areas[m + 1]
<1>1. d \in Nat /\ c <= d /\ e \in Nat /\ d <= e /\ c <= e
  BY DEF AddsAreas, Adds
<1>2. ASSUME NEW R, Sound(tb, c, R), r \in R, e <= MaxTables
      PROVE  /\ Sound(vb, e, R)
             /\ \A q \in R, p \in Page :
                  Seen(vb, q, p) = IF q = r THEN Mapped(areas, m + 1, p, Seen(tb, r, p))
                                   ELSE Seen(tb, q, p)
  <2>1. d <= MaxTables
    BY <1>1, <1>2, Sizes
  <2>2. /\ Sound(ub, d, R)
        /\ \A q \in R, p \in Page :
             Seen(ub, q, p) = IF q = r THEN Mapped(areas, m, p, Seen(tb, r, p))
                              ELSE Seen(tb, q, p)
    BY <1>2, <2>1 DEF AddsAreas
  <2>3. /\ Sound(vb, e, R)
        /\ \A q \in R, p \in Page :
             Seen(vb, q, p) = IF q = r /\ a.virt <= p /\ p < a.virt + a.size
                              THEN Entry(3, a.start + (p - a.virt), a.attr)
                              ELSE Seen(ub, q, p)
    BY <1>2, <2>2 DEF Adds
  <2>4. ASSUME NEW q \in R, NEW p \in Page
        PROVE  Seen(vb, q, p) = IF q = r THEN Mapped(areas, m + 1, p, Seen(tb, r, p))
                                ELSE Seen(tb, q, p)
    <3>1. p \in Nat
      BY PageRange
    <3> DEFINE old == Seen(tb, r, p)
    <3>2. Mapped(areas, m + 1, p, old)
            = IF a.virt <= p /\ p < a.virt + a.size
              THEN Mapping(a, p) ELSE Mapped(areas, m, p, old)
      <4> HIDE DEF old
      <4> QED  BY <3>1, MappedNext
    <3>3. Seen(ub, q, p) = IF q = r THEN Mapped(areas, m, p, old) ELSE Seen(tb, q, p)
      BY <2>2
    <3>4. Seen(vb, q, p) = IF q = r /\ a.virt <= p /\ p < a.virt + a.size
                           THEN Mapping(a, p) ELSE Seen(ub, q, p)
      BY <2>3 DEF Mapping
    <3> HIDE DEF old, a
    <3>5. Seen(vb, q, p) = IF q = r THEN Mapped(areas, m + 1, p, old) ELSE Seen(tb, q, p)
      BY <3>2, <3>3, <3>4
    <3> QED  BY <3>5 DEF old
  <2> QED  BY <2>3, <2>4
<1> QED  BY <1>1, <1>2 DEF AddsAreas

IsAdding(n, s, r, areas, t) ==
  t = [m \in 0 .. n |-> IF m = 0 THEN s ELSE AddArea(t[m-1], r, areas[m])]

LEMMA AddingExists ==
  ASSUME NEW n \in Nat, NEW s, NEW r, NEW areas
  PROVE  \E t : IsAdding(n, s, r, areas, t)
<1> DEFINE Good == {k \in Nat : \E t : IsAdding(k, s, r, areas, t)}
<1>1. 0 \in Good
  <2>1. IsAdding(0, s, r, areas, [k \in 0 .. 0 |-> s])
    BY DEF IsAdding
  <2> QED  BY <2>1
<1>2. ASSUME NEW k \in Nat, k \in Good PROVE k + 1 \in Good
  <2>1. PICK t : IsAdding(k, s, r, areas, t)
    BY <1>2
  <2> DEFINE u == [m \in 0 .. k + 1 |-> IF m = k + 1 THEN AddArea(t[k], r, areas[k + 1]) ELSE t[m]]
  <2>2. \A m \in 0 .. k + 1 : u[m] = IF m = 0 THEN s ELSE AddArea(u[m-1], r, areas[m])
    BY <2>1 DEF IsAdding
  <2>3. IsAdding(k + 1, s, r, areas, u)
    BY <2>2 DEF IsAdding
  <2> HIDE DEF u
  <2> QED  BY <2>3
<1> HIDE DEF Good
<1>3. n \in Good
  BY <1>1, <1>2, Induction
<1> QED  BY <1>3 DEF Good

\* page_table_add_pages adds its areas, exactly.
AddsAll(tb, c, r, areas) ==
  \E ub, d : /\ page_table_add_pages([tab |-> tb, count |-> c], r, areas)
                  = [tab |-> ub, count |-> d]
             /\ AddsAreas(tb, c, ub, d, r, areas, Len(areas))

LEMMA AreasAdded ==
  ASSUME NEW tb, NEW c \in Nat, NEW r, NEW areas, Len(areas) \in Nat,
         \A m \in 1 .. Len(areas) : AddedArea(areas[m])
  PROVE  AddsAll(tb, c, r, areas)
<1> DEFINE s == [tab |-> tb, count |-> c]
           n == Len(areas)
           t == CHOOSE u : IsAdding(n, s, r, areas, u)
<1>1. page_table_add_pages(s, r, areas) = t[n]
  BY DEF page_table_add_pages, IsAdding
<1>2. IsAdding(n, s, r, areas, t)
  BY AddingExists
<1> HIDE DEF t
<1>3. \A m \in 0 .. n : t[m] = IF m = 0 THEN s ELSE AddArea(t[m-1], r, areas[m])
  BY <1>2 DEF IsAdding
<1> HIDE DEF n
<1>4. n \in Nat /\ \A m \in 1 .. n : AddedArea(areas[m])
  BY DEF n
<1> DEFINE Good == {m \in Nat : m <= n => \E ub, d : /\ t[m] = [tab |-> ub, count |-> d]
                                                     /\ AddsAreas(tb, c, ub, d, r, areas, m)}
<1>5. 0 \in Good
  <2>1. t[0] = s
    BY <1>3, <1>4
  <2>2. AddsAreas(tb, c, tb, c, r, areas, 0)
    BY NoAreas
  <2> QED  BY <2>1, <2>2
<1>6. ASSUME NEW m \in Nat, m \in Good PROVE m + 1 \in Good
  <2> SUFFICES ASSUME m + 1 <= n
               PROVE  \E vb, e : /\ t[m + 1] = [tab |-> vb, count |-> e]
                                 /\ AddsAreas(tb, c, vb, e, r, areas, m + 1)
    OBVIOUS
  <2> DEFINE a == areas[m + 1]
  <2>1. PICK ub, d : t[m] = [tab |-> ub, count |-> d] /\ AddsAreas(tb, c, ub, d, r, areas, m)
    BY <1>4, <1>6
  <2>2. AddedArea(a) /\ t[m + 1] = AddArea(t[m], r, a)
    <3>1. m + 1 \in 1 .. n /\ m + 1 \in 0 .. n /\ m + 1 # 0 /\ (m + 1) - 1 = m
      BY <1>4
    <3> QED  BY <1>3, <1>4, <3>1
  <2>3. d \in Nat
    BY <2>1 DEF AddsAreas
  <2>4. PICK vb, e :
          /\ AddArea([tab |-> ub, count |-> d], r, a) = [tab |-> vb, count |-> e]
          /\ Adds(ub, d, vb, e, r, a.start, a.attr, a.virt, a.virt + a.size)
    <3> HIDE DEF a
    <3> QED  BY <2>2, <2>3, AreaAdded
  <2>5. AddsAreas(tb, c, vb, e, r, areas, m + 1)
    BY <2>1, <2>2, <2>4, MoreAreas
  <2> QED  BY <2>1, <2>2, <2>4, <2>5
<1> HIDE DEF Good
<1>7. n \in Good
  BY <1>4, <1>5, <1>6, Induction
<1>8. PICK ub, d : t[n] = [tab |-> ub, count |-> d] /\ AddsAreas(tb, c, ub, d, r, areas, n)
  <2>1. n <= n
    BY <1>4
  <2> QED  BY <1>7, <2>1 DEF Good
<1> QED  BY <1>1, <1>8 DEF AddsAll, n

-----------------------------------------------------------------------------
\* A new root, its place even, and its second-level tables, which are blank.
SetUp(tb, r) ==
  [tb EXCEPT ![r] = Over([i \in 0 .. I - 1 |-> Entry(3, r + 2 + i, 0)], @)]

\* The tables of tb are sound for the roots R and the new root, which maps nothing.
RootAdded(tb, c, ub, d, r, R) ==
  /\ Sound(ub, d, R \cup {r})
  /\ r \notin R
  /\ \A p \in Page : /\ Seen(ub, r, p) = None
                     /\ \A q \in R : Seen(ub, q, p) = Seen(tb, q, p)

LEMMA Even ==
  ASSUME NEW c \in Nat
  PROVE  /\ c + (c % 2) \in Nat /\ c <= c + (c % 2) /\ (c + (c % 2)) % 2 = 0
OBVIOUS

LEMMA RootIsAdded ==
  ASSUME NEW tb, NEW c, NEW R, Sound(tb, c, R), NEW r \in Nat, c <= r, r % 2 = 0,
         r + 2 + I <= MaxTables
  PROVE  RootAdded(tb, c, SetUp(tb, r), r + 2 + I, r, R)
<1> DEFINE g == Over([i \in 0 .. I - 1 |-> Entry(3, r + 2 + i, 0)], tb[r])
           ub == SetUp(tb, r)
           d == r + 2 + I
           Q == R \cup {r}
<1>1. /\ I \in Nat /\ I > 0 /\ J \in Nat /\ MaxTables \in Nat /\ c \in Nat /\ c <= MaxTables
      /\ tb \in [Table -> [Place -> EntryType]] /\ r \in Table /\ d \in 0 .. MaxTables
      /\ R \subseteq Nat /\ (\A q \in R : q % 2 = 0 /\ q + 1 + I < c)
      /\ \A q, s \in R : q < s => q + 1 + I < s
  BY Sizes DEF Sound, Table, Roots
<1>2. \A t \in Table, x \in Place : t >= c => tb[t][x] = None
  BY DEF Sound
<1>3. /\ g \in [Place -> EntryType]
      /\ \A x \in Place : g[x] = IF x < I THEN Entry(3, r + 2 + x, 0) ELSE None
  <2>1. /\ DOMAIN tb[r] = Place /\ \A x \in Place : tb[r][x] = None
    BY <1>1, <1>2
  <2>2. \A x \in 0 .. I - 1 : Entry(3, r + 2 + x, 0) \in EntryType
    BY <1>1, Entries
  <2>3. \A x \in Place : x \in Nat /\ (x < I <=> x \in 0 .. I - 1)
    BY <1>1, Places
  <2>4. \A x \in Place : g[x] = IF x < I THEN Entry(3, r + 2 + x, 0) ELSE None
    BY <2>1, <2>3 DEF Over
  <2>5. g = [x \in Place |-> g[x]]
    BY <2>1 DEF Over
  <2> HIDE DEF g
  <2>6. \A x \in Place : g[x] \in EntryType
    BY <2>2, <2>3, <2>4, Entries
  <2> QED  BY <2>4, <2>5, <2>6
<1>4. ub = [tb EXCEPT ![r] = g]
  BY DEF SetUp
<1> HIDE DEF g, ub
<1>5. /\ ub \in [Table -> [Place -> EntryType]]
      /\ \A t \in Table, x \in Place : ub[t][x] = IF t = r THEN g[x] ELSE tb[t][x]
  BY <1>1, <1>3, <1>4
<1>6. /\ R \subseteq Table /\ Seconds(R) \subseteq Table /\ Seconds(R) \subseteq Fixed(R)
      /\ \A t \in Fixed(R) : t \in Nat /\ t < c
  BY TablesOf DEF Fixed
<1>7. \A t \in Fixed(R) : t # r
  BY <1>1, <1>6
<1>8. r \notin R /\ \A t \in Fixed(R) \cap Table, x \in Place : ub[t][x] = tb[t][x]
  <2>1. R \subseteq Fixed(R)
    BY TablesOf
  <2> QED  BY <1>5, <1>7, <2>1
<1>9. Roots(Q, d)
  <2>1. \A q \in Q : q \in Nat /\ q % 2 = 0 /\ q + 1 + I < d
    BY <1>1
  <2>2. ASSUME NEW q \in Q, NEW s \in Q, q < s PROVE q + 1 + I < s
    BY <1>1, <2>2
  <2> QED  BY <2>1, <2>2 DEF Roots
<1>10. \A t \in Seconds(Q) : \/ t \in Seconds(R)
                             \/ t \in Nat /\ r + 2 <= t /\ t <= r + 1 + I
  BY DEF Seconds
<1>11. \A t \in Seconds(Q) \ Seconds(R), x \in Place :
         t \in Table /\ ub[t][x] = None /\ tb[t][x] = None
  <2>1. ASSUME NEW t \in Nat, r + 2 <= t, t <= r + 1 + I
        PROVE  t \in Table /\ t >= c /\ t # r
    BY <1>1, <2>1 DEF Table
  <2> QED  BY <1>2, <1>5, <1>10, <2>1
<1>12. \A t \in Fixed(Q) : t \in Fixed(R) \/ t >= c
  BY <1>1 DEF Fixed
<1>13. Sound(ub, d, Q)
  <2>1. \A t \in Table, x \in Place : t >= d => ub[t][x] = None
    <3>1. \A t \in Table : t >= d => t >= c /\ t # r
      BY <1>1 DEF Table
    <3> QED  BY <1>2, <1>5, <3>1
  <2>2. \A q \in Q, x \in Place : ub[q][x] = IF x < I THEN Entry(3, q + 2 + x, 0) ELSE None
    <3>1. ASSUME NEW q \in R, NEW x \in Place
          PROVE  ub[q][x] = IF x < I THEN Entry(3, q + 2 + x, 0) ELSE None
      <4>1. ub[q][x] = tb[q][x]
        BY <1>5, <1>6, <1>8
      <4> QED  BY <4>1 DEF Sound
    <3>2. \A x \in Place : ub[r][x] = IF x < I THEN Entry(3, r + 2 + x, 0) ELSE None
      BY <1>1, <1>3, <1>5
    <3> QED  BY <3>1, <3>2
  <2>3. ASSUME NEW t \in Seconds(Q), NEW x \in Place
        PROVE  /\ ub[t][x].bits = 0 \/ x >= J => ub[t][x] = None
               /\ ub[t][x].bits = 3 => ub[t][x].to < d /\ ub[t][x].to \notin Fixed(Q)
    <3>1. CASE t \in Seconds(R)
      <4>1. ub[t][x] = tb[t][x]
        BY <1>6, <1>8, <3>1
      <4>2. /\ tb[t][x].bits = 0 \/ x >= J => tb[t][x] = None
            /\ tb[t][x].bits = 3 => tb[t][x].to < c /\ tb[t][x].to \notin Fixed(R)
        BY <3>1 DEF Sound
      <4>3. tb[t][x].bits = 3 => tb[t][x].to \in Nat
        BY <3>1, EntryIs
      <4>4. ASSUME tb[t][x].bits = 3 PROVE tb[t][x].to < d /\ tb[t][x].to \notin Fixed(Q)
        <5> DEFINE n == tb[t][x].to
        <5>1. n \in Nat /\ n < c /\ n \notin Fixed(R)
          BY <4>2, <4>3, <4>4
        <5> HIDE DEF n
        <5>2. n < d /\ ~(n >= c)
          BY <1>1, <5>1
        <5> QED  BY <1>12, <5>1, <5>2 DEF n
      <4> QED  BY <4>1, <4>2, <4>4
    <3>2. CASE t \notin Seconds(R)
      <4>1. ub[t][x] = None
        BY <1>11, <3>2
      <4>2. ub[t][x].bits = 0
        BY <4>1, Entries
      <4> QED  BY <4>1, <4>2
    <3> QED  BY <3>1, <3>2
  <2>4. ASSUME NEW t \in Seconds(Q), NEW u \in Seconds(Q), NEW x \in Place, NEW y \in Place,
               ub[t][x].bits = 3, ub[u][y].bits = 3, ub[t][x].to = ub[u][y].to
        PROVE  t = u /\ x = y
    <3>1. ASSUME NEW v \in Seconds(Q), NEW z \in Place, ub[v][z].bits = 3
          PROVE  v \in Seconds(R) /\ ub[v][z] = tb[v][z]
      <4>1. CASE v \in Seconds(R)
        BY <1>6, <1>8, <4>1
      <4>2. CASE v \notin Seconds(R)
        <5>1. ub[v][z] = None
          BY <1>11, <4>2
        <5>2. ub[v][z].bits = 0
          BY <5>1, Entries
        <5> QED  BY <3>1, <5>2
      <4> QED  BY <4>1, <4>2
    <3>2. t \in Seconds(R) /\ u \in Seconds(R) /\ ub[t][x] = tb[t][x] /\ ub[u][y] = tb[u][y]
      BY <2>4, <3>1
    <3> QED  BY <2>4, <3>2, NamedOnce
  <2>5. d \in 0 .. MaxTables
    BY <1>1
  <2> HIDE DEF Q, d
  <2> QED  BY <1>5, <1>9, <2>1, <2>2, <2>3, <2>4, <2>5 DEF Sound
<1>14. ASSUME NEW p \in Page, NEW q \in R PROVE Seen(ub, q, p) = Seen(tb, q, p)
  <2> DEFINE u == q + 2 + Idx(p)
  <2>1. /\ u \in Seconds(R) /\ Jdx(p) \in Place /\ Kdx(p) \in Place
    BY TablesOf, PageRange, Places
  <2> HIDE DEF u
  <2>2. ub[u][Jdx(p)] = tb[u][Jdx(p)]
    BY <1>6, <1>8, <2>1
  <2>3. ASSUME tb[u][Jdx(p)].bits = 3
        PROVE  ub[tb[u][Jdx(p)].to][Kdx(p)] = tb[tb[u][Jdx(p)].to][Kdx(p)]
    <3>1. tb[u][Jdx(p)].to \in Table /\ tb[u][Jdx(p)].to < c /\ tb[u][Jdx(p)].to \in Nat
      BY <2>1, <2>3, NamesTable
    <3> QED  BY <1>1, <1>5, <2>1, <3>1
  <2>4. \/ tb[u][Jdx(p)] = None
        \/ tb[u][Jdx(p)].bits = 1
        \/ tb[u][Jdx(p)].bits = 3
    BY <2>1, EntryIs
  <2> QED  BY <2>2, <2>3, <2>4, Entries DEF Seen, IsBlock, u
<1>15. ASSUME NEW p \in Page PROVE Seen(ub, r, p) = None
  <2> DEFINE u == r + 2 + Idx(p)
  <2>1. Idx(p) \in 0 .. I - 1 /\ Jdx(p) \in Place
    BY PageRange, Places
  <2>2. u \in Table /\ u # r /\ u >= c
    BY <1>1, <2>1 DEF Table
  <2> HIDE DEF u
  <2>3. ub[u][Jdx(p)] = None
    BY <1>2, <1>5, <2>1, <2>2
  <2>4. ~IsBlock(ub[u][Jdx(p)])
    BY <2>3, Entries DEF IsBlock
  <2> QED  BY <2>3, <2>4 DEF Seen, u
<1> QED  BY <1>8, <1>13, <1>14, <1>15 DEF RootAdded, ub

-----------------------------------------------------------------------------
\* The areas of a VM, labelled.

AreaType == {a \in [virt : Nat, size : Nat, start : Nat, attr : Nat] : AddedArea(a)}

LEMMA Labels ==
  ASSUME NEW S, NEW array \in Seq(S), \A a \in ToSet(array) : WellFormed(a), NEW n \in Nat
  PROVE  /\ Labelled(array, n) \in Seq(AreaType) /\ Len(Labelled(array, n)) = Len(array)
         /\ \A i \in 1 .. Len(array) : AddedArea(Labelled(array, n)[i])
<1> DEFINE m == Len(array)
           L == [i \in 1 .. m |-> [virt |-> array[i].virt, size |-> array[i].size,
                                   start |-> array[i].start, attr |-> n + i]]
<1>1. m \in Nat /\ DOMAIN array = 1 .. m /\ \A i \in 1 .. m : WellFormed(array[i])
  BY MembersOfList
<1>2. Labelled(array, n) = L
  BY <1>1 DEF Labelled
<1> HIDE DEF m
<1>3. ASSUME NEW i \in 1 .. m PROVE L[i] \in AreaType
  <2> DEFINE b == array[i]
  <2>1. b \in [virt : Nat, size : Nat, start : Nat] /\ b.size > 0 /\ b.virt + b.size < I * J * K
    BY <1>1 DEF WellFormed
  <2> HIDE DEF b
  <2> DEFINE a == [virt |-> b.virt, size |-> b.size, start |-> b.start, attr |-> n + i]
  <2>2. /\ a \in [virt : Nat, size : Nat, start : Nat, attr : Nat]
        /\ a.virt = b.virt /\ a.size = b.size /\ a.start = b.start /\ a.attr = n + i
    BY <1>1, <2>1
  <2>3. L[i] = a
    BY DEF b
  <2> HIDE DEF a, L
  <2>4. /\ a.virt \in Nat /\ a.size \in Nat /\ a.start \in Nat /\ a.attr \in Nat
    BY <2>2
  <2>5. AddedArea(a)
    BY <2>1, <2>2, <2>4 DEF AddedArea
  <2> QED  BY <2>2, <2>3, <2>5 DEF AreaType
<1>4. L \in [1 .. m -> AreaType]
  BY <1>3
<1> HIDE DEF L
<1>5. L \in Seq(AreaType) /\ Len(L) = m
  BY <1>1, <1>4
<1>6. \A i \in 1 .. m : AddedArea(L[i])
  BY <1>4 DEF AreaType
<1> QED  BY <1>2, <1>5, <1>6 DEF m

\* The areas of one VM: each that is added to those there are maps its own pages.
LEMMA MappedAfter ==
  ASSUME NEW s \in Seq(AreaType), NEW t \in Seq(AreaType), Len(t) = 1,
         NEW p \in Nat, NEW old
  PROVE  Mapped(t, Len(t), p, Mapped(s, Len(s), p, old)) = Mapped(s \o t, Len(s \o t), p, old)
<1> DEFINE m == Len(s)
           u == s \o t
           was == Mapped(s, m, p, old)
<1>1. m \in Nat /\ Len(u) = m + 1 /\ u[m + 1] = t[1] /\ \A k \in 1 .. m : u[k] = s[k]
  <2>1. m \in Nat /\ Len(u) = m + 1
        /\ \A i \in 1 .. m + 1 : u[i] = IF i <= m THEN s[i] ELSE t[i - m]
    <3>1. /\ Len(u) = m + Len(t)
          /\ \A i \in 1 .. m + Len(t) : u[i] = IF i <= m THEN s[i] ELSE t[i - m]
      BY ConcatProperties
    <3>2. m \in Nat
      BY LenProperties
    <3> HIDE DEF u, m
    <3> QED  BY <3>1, <3>2
  <2> HIDE DEF u, m
  <2>2. \A k \in 1 .. m : k \in 1 .. m + 1 /\ k <= m
    BY <2>1
  <2>3. m + 1 \in 1 .. m + 1 /\ ~(m + 1 <= m) /\ (m + 1) - m = 1
    BY <2>1
  <2> QED  BY <2>1, <2>2, <2>3
<1>2. AddedArea(t[1])
  BY ElementOfSeq DEF AreaType
<1> HIDE DEF m, u
<1>3. Mapped(u, m, p, old) = was
  BY <1>1, MappedAlike
<1> HIDE DEF was
<1> DEFINE a == t[1]
<1>4. Mapped(u, m + 1, p, old)
        = IF a.virt <= p /\ p < a.virt + a.size THEN Mapping(a, p) ELSE was
  <2>1. u[m + 1] = a
    BY <1>1
  <2> HIDE DEF a
  <2>2. AddedArea(u[m + 1])
    BY <1>2, <2>1 DEF a
  <2>3. Mapped(u, m + 1, p, old)
          = IF u[m + 1].virt <= p /\ p < u[m + 1].virt + u[m + 1].size
            THEN Mapping(u[m + 1], p) ELSE Mapped(u, m, p, old)
    BY <1>1, <2>2, MappedNext
  <2> QED  BY <1>3, <2>1, <2>3
<1>5. Mapped(t, 1, p, was)
        = IF a.virt <= p /\ p < a.virt + a.size THEN Mapping(a, p) ELSE was
  <2>1. AddedArea(t[0 + 1]) /\ 0 \in Nat /\ 0 + 1 = 1
    BY <1>2
  <2>2. Mapped(t, 0 + 1, p, was)
          = IF t[0 + 1].virt <= p /\ p < t[0 + 1].virt + t[0 + 1].size
            THEN Mapping(t[0 + 1], p) ELSE Mapped(t, 0, p, was)
    BY <2>1, MappedNext
  <2>3. Mapped(t, 0, p, was) = was
    BY NoneMapped
  <2> QED  BY <2>1, <2>2, <2>3
<1> HIDE DEF a
<1>6. Mapped(t, Len(t), p, was) = Mapped(u, Len(u), p, old)
  BY <1>1, <1>4, <1>5
<1> QED  BY <1>6 DEF was, u, m

-----------------------------------------------------------------------------
\* The inductive invariant.

RootsOf(s) == {s[v] : v \in 1 .. Len(s)}

Lists ==
  /\ root \in Seq(Nat) /\ added \in Seq(Seq(AreaType))
  /\ Len(added) = Len(root) /\ Len(root) <= NUM_OF_T_VM

Apart == \A v, w \in 1 .. Len(root) : root[v] = root[w] => v = w

Exact ==
  \A v \in 1 .. Len(root), p \in Page :
    Seen(tab, root[v], p) = Mapped(added[v], Len(added[v]), p, None)

IInv == Lists /\ Sound(tab, count, RootsOf(root)) /\ Apart /\ Exact

LEMMA InitInv ==
  ASSUME Init
  PROVE  IInv
<1>1. Lists
  <2>1. <<>> \in Seq(Nat) /\ <<>> \in Seq(Seq(AreaType)) /\ Len(<<>>) = 0
    BY EmptySeq
  <2> QED  BY <2>1, Sizes DEF Lists, Init
<1>2. Len(root) = 0
  BY EmptySeq DEF Init
<1>3. Sound(tab, count, {})
  <2>1. /\ tab = [t \in Table |-> [x \in Place |-> None]] /\ count = 0
    BY DEF Init, Table, Place
  <2>2. None \in EntryType
    BY Entries
  <2>3. Seconds({}) = {} /\ Fixed({}) = {}
    BY DEF Seconds, Fixed
  <2>4. tab \in [Table -> [Place -> EntryType]] /\ \A t \in Table, x \in Place : tab[t][x] = None
    BY <2>1, <2>2
  <2>5. count \in 0 .. MaxTables
    BY <2>1, Sizes
  <2>6. Roots({}, count)
    BY DEF Roots
  <2> QED  BY <2>3, <2>4, <2>5, <2>6 DEF Sound
<1>4. RootsOf(root) = {}
  BY <1>2 DEF RootsOf
<1> QED  BY <1>1, <1>2, <1>3, <1>4 DEF IInv, Apart, Exact

LEMMA AddPageInv ==
  ASSUME IInv, NEW v \in DOMAIN root, NEW a \in Area, vm_add_page(v, a)
  PROVE  IInv'
<1> DEFINE r == root[v]
           R == RootsOf(root)
           s == added[v]
           t == Labelled(<<a>>, Len(s))
           n == Len(root)
<1>1. /\ n \in Nat /\ v \in 1 .. n /\ r \in R /\ r \in Nat /\ s \in Seq(AreaType) /\ Len(s) \in Nat
      /\ Len(added) = n /\ added \in Seq(Seq(AreaType)) /\ root \in Seq(Nat) /\ n <= NUM_OF_T_VM
  <2>1. /\ n \in Nat /\ v \in 1 .. n /\ Len(added) = n /\ root \in Seq(Nat)
        /\ added \in Seq(Seq(AreaType)) /\ n <= NUM_OF_T_VM
    BY LenProperties DEF IInv, Lists
  <2>2. r \in Nat /\ s \in Seq(AreaType)
    BY <2>1, ElementOfSeq
  <2>3. Len(s) \in Nat
    BY <2>2, LenProperties
  <2> QED  BY <2>1, <2>2, <2>3 DEF RootsOf
<1>2. t \in Seq(AreaType) /\ Len(t) = 1 /\ \A i \in 1 .. Len(t) : AddedArea(t[i])
  <2>1. <<a>> \in Seq({a}) /\ Len(<<a>>) = 1 /\ ToSet(<<a>>) = {a} /\ WellFormed(a)
    BY PageTableAssumption DEF ToSet
  <2> HIDE DEF s
  <2>2. /\ t \in Seq(AreaType) /\ Len(t) = Len(<<a>>)
        /\ \A i \in 1 .. Len(<<a>>) : AddedArea(t[i])
    <3>1. \A b \in ToSet(<<a>>) : WellFormed(b)
      BY <2>1
    <3> QED  BY <1>1, <2>1, <3>1, Labels
  <2> QED  BY <2>1, <2>2
<1> HIDE DEF t, R
<1>3. count \in Nat /\ Sound(tab, count, R) /\ Apart /\ Exact
  BY Sizes DEF IInv, Sound, R
<1>4. AddsAll(tab, count, r, t)
  <2>1. Len(t) \in Nat
    BY <1>2
  <2> HIDE DEF r
  <2> QED  BY <1>2, <1>3, <2>1, AreasAdded
<1>5. PICK ub, d : /\ page_table_add_pages([tab |-> tab, count |-> count], r, t)
                        = [tab |-> ub, count |-> d]
                   /\ AddsAreas(tab, count, ub, d, r, t, Len(t))
  BY <1>4 DEF AddsAll
<1>6. /\ tab' = ub /\ count' = d /\ d <= MaxTables
      /\ root' = root /\ added' = [added EXCEPT ![v] = s \o t]
  BY <1>5 DEF vm_add_page, Built, Memory, t
<1>7. /\ Sound(ub, d, R)
      /\ \A q \in R, p \in Page :
           Seen(ub, q, p) = IF q = r THEN Mapped(t, Len(t), p, Seen(tab, r, p))
                            ELSE Seen(tab, q, p)
  BY <1>1, <1>3, <1>5, <1>6 DEF AddsAreas
<1>8. /\ added' \in Seq(Seq(AreaType)) /\ Len(added') = n
      /\ \A w \in 1 .. n : added'[w] = IF w = v THEN s \o t ELSE added[w]
  <2>1. s \o t \in Seq(AreaType)
    BY <1>1, <1>2, ConcatProperties
  <2> HIDE DEF s
  <2> QED  BY <1>1, <1>6, <2>1, ExceptSeq
<1>9. ASSUME NEW w \in 1 .. n, NEW p \in Page
      PROVE  Seen(ub, root[w], p) = Mapped(added'[w], Len(added'[w]), p, None)
  <2>1. root[w] \in R /\ Seen(tab, root[w], p) = Mapped(added[w], Len(added[w]), p, None)
    BY <1>3 DEF R, RootsOf, Exact
  <2>2. CASE w = v
    <3>1. Mapped(t, Len(t), p, Mapped(s, Len(s), p, None)) = Mapped(s \o t, Len(s \o t), p, None)
      <4>1. p \in Nat
        BY PageRange
      <4>2. s \in Seq(AreaType) /\ t \in Seq(AreaType) /\ Len(t) = 1
        BY <1>1, <1>2
      <4> HIDE DEF s, r, n
      <4> QED  BY <4>1, <4>2, MappedAfter
    <3>2. Seen(ub, r, p) = Mapped(t, Len(t), p, Seen(tab, r, p))
      BY <1>1, <1>7
    <3>3. Seen(tab, r, p) = Mapped(s, Len(s), p, None)
      BY <2>1, <2>2
    <3>4. added'[w] = s \o t /\ root[w] = r
      BY <1>8, <2>2
    <3> HIDE DEF r, s
    <3> QED  BY <3>1, <3>2, <3>3, <3>4
  <2>3. CASE w # v
    <3>1. root[w] # r
      BY <1>1, <1>3, <2>3 DEF Apart
    <3>2. Seen(ub, root[w], p) = Seen(tab, root[w], p)
      BY <1>7, <2>1, <3>1
    <3> QED  BY <1>8, <2>1, <2>3, <3>2
  <2> QED  BY <2>2, <2>3
<1>10. Lists'
  BY <1>1, <1>6, <1>8 DEF Lists
<1>11. Sound(tab, count, RootsOf(root))'
  BY <1>6, <1>7 DEF R
<1>12. Apart'
  BY <1>3, <1>6 DEF Apart
<1>13. Exact'
  BY <1>6, <1>9 DEF Exact
<1> QED  BY <1>10, <1>11, <1>12, <1>13 DEF IInv

LEMMA InitVmInv ==
  ASSUME IInv, Len(root) < NUM_OF_T_VM, NEW array \in Layout[Len(root) + 1], vm_init(array)
  PROVE  IInv'
<1> DEFINE r == Root(Memory)
           R == RootsOf(root)
           t == Labelled(array, 0)
           n == Len(root)
           e == r + 2 + I
<1>1. /\ n \in Nat /\ Len(added) = n /\ root \in Seq(Nat)
      /\ added \in Seq(Seq(AreaType)) /\ n + 1 <= NUM_OF_T_VM /\ n + 1 \in 1 .. NUM_OF_T_VM
  BY LenProperties, Sizes DEF IInv, Lists
<1>2. t \in Seq(AreaType) /\ Len(t) \in Nat /\ \A i \in 1 .. Len(t) : AddedArea(t[i])
  <2>1. array \in Seq(ToSet(array)) /\ \A a \in ToSet(array) : WellFormed(a)
    BY <1>1, PageTableAssumption
  <2>2. /\ t \in Seq(AreaType) /\ Len(t) = Len(array)
        /\ \A i \in 1 .. Len(array) : AddedArea(t[i])
    BY <2>1, Labels
  <2>3. Len(array) \in Nat
    BY <2>1, LenProperties
  <2> QED  BY <2>2, <2>3
<1> HIDE DEF t, R
<1>3. count \in Nat /\ Sound(tab, count, R) /\ Apart /\ Exact
  BY Sizes DEF IInv, Sound, R
<1>4. r \in Nat /\ count <= r /\ r % 2 = 0
  <2>1. r = count + (count % 2)
    BY DEF Root, Memory
  <2> QED  BY <1>3, <2>1, Even
<1>5. page_table_setup(Memory, t) = page_table_add_pages([tab |-> SetUp(tab, r), count |-> e], r, t)
  <2>1. Memory.tab = tab /\ Memory.count = count
    BY DEF Memory
  <2> QED  BY <2>1 DEF page_table_setup, SetUp
<1> HIDE DEF r
<1>6. e \in Nat
  BY <1>4, Sizes
<1>7. AddsAll(SetUp(tab, r), e, r, t)
  <2> HIDE DEF e
  <2> QED  BY <1>2, <1>6, AreasAdded
<1>8. PICK ub, d : /\ page_table_add_pages([tab |-> SetUp(tab, r), count |-> e], r, t)
                        = [tab |-> ub, count |-> d]
                   /\ AddsAreas(SetUp(tab, r), e, ub, d, r, t, Len(t))
  <2> HIDE DEF e
  <2> QED  BY <1>7 DEF AddsAll
<1>9. /\ tab' = ub /\ count' = d /\ d <= MaxTables
      /\ root' = Append(root, r) /\ added' = Append(added, t)
  <2> HIDE DEF e
  <2>1. page_table_setup(Memory, t) = [tab |-> ub, count |-> d]
    BY <1>5, <1>8
  <2>2. Built(page_table_setup(Memory, t))
    BY DEF vm_init, t
  <2>3. tab' = ub /\ count' = d /\ d <= MaxTables
    BY <2>1, <2>2 DEF Built
  <2>4. root' = Append(root, r) /\ added' = Append(added, t)
    BY DEF vm_init, t, r
  <2> QED  BY <2>3, <2>4
<1>10. d \in Nat /\ e <= d /\ e <= MaxTables
  <2> HIDE DEF e
  <2>1. d \in Nat /\ e <= d
    BY <1>8 DEF AddsAreas
  <2> QED  BY <1>6, <1>9, <2>1, Sizes
<1>11. RootAdded(tab, count, SetUp(tab, r), e, r, R)
  BY <1>3, <1>4, <1>10, RootIsAdded
<1> HIDE DEF e
<1>12. /\ r \notin R /\ Sound(SetUp(tab, r), e, R \cup {r})
       /\ \A p \in Page : /\ Seen(SetUp(tab, r), r, p) = None
                          /\ \A q \in R : Seen(SetUp(tab, r), q, p) = Seen(tab, q, p)
  BY <1>11 DEF RootAdded
<1>13. /\ Sound(ub, d, R \cup {r})
       /\ \A q \in R \cup {r}, p \in Page :
            Seen(ub, q, p) = IF q = r THEN Mapped(t, Len(t), p, Seen(SetUp(tab, r), r, p))
                             ELSE Seen(SetUp(tab, r), q, p)
  <2>1. r \in R \cup {r}
    OBVIOUS
  <2> QED  BY <1>8, <1>9, <1>12, <2>1 DEF AddsAreas
<1>14. /\ root' \in Seq(Nat) /\ Len(root') = n + 1
       /\ root'[n + 1] = r /\ \A w \in 1 .. n : root'[w] = root[w]
  BY <1>1, <1>4, <1>9, AppendProperties
<1>15. /\ added' \in Seq(Seq(AreaType)) /\ Len(added') = n + 1
       /\ added'[n + 1] = t /\ \A w \in 1 .. n : added'[w] = added[w]
  BY <1>1, <1>2, <1>9, AppendProperties
<1> HIDE DEF n
<1>16. 1 .. n + 1 = (1 .. n) \cup {n + 1}
  BY <1>1
<1>17. RootsOf(root') = R \cup {r}
  BY <1>14, <1>16 DEF RootsOf, R, n
<1>18. \A w \in 1 .. n : root[w] \in R /\ root[w] # r
  BY <1>12 DEF R, RootsOf, n
<1>19. Lists'
  BY <1>1, <1>14, <1>15 DEF Lists
<1>20. Sound(tab, count, RootsOf(root))'
  BY <1>9, <1>13, <1>17
<1>21. Apart'
  <2>1. \A v, w \in 1 .. n + 1 : root'[v] = root'[w] => v = w
    BY <1>3, <1>14, <1>16, <1>18 DEF Apart, n
  <2> QED  BY <1>14, <2>1 DEF Apart
<1>22. ASSUME NEW w \in 1 .. n + 1, NEW p \in Page
       PROVE  Seen(ub, root'[w], p) = Mapped(added'[w], Len(added'[w]), p, None)
  <2>1. CASE w = n + 1
    BY <1>12, <1>13, <1>14, <1>15, <2>1
  <2>2. CASE w \in 1 .. n
    <3>1. root'[w] = root[w] /\ added'[w] = added[w]
      BY <1>14, <1>15, <2>2
    <3>2. Seen(ub, root[w], p) = Seen(SetUp(tab, r), root[w], p)
      BY <1>13, <1>18, <2>2
    <3>3. Seen(SetUp(tab, r), root[w], p) = Seen(tab, root[w], p)
      BY <1>12, <1>18, <2>2
    <3>4. Seen(tab, root[w], p) = Mapped(added[w], Len(added[w]), p, None)
      BY <1>3, <2>2 DEF Exact, n
    <3> QED  BY <3>1, <3>2, <3>3, <3>4
  <2> QED  BY <1>16, <2>1, <2>2
<1>23. Exact'
  BY <1>9, <1>14, <1>22 DEF Exact
<1> QED  BY <1>19, <1>20, <1>21, <1>23 DEF IInv

LEMMA StepInv ==
  ASSUME IInv, [Next]_vars
  PROVE  IInv'
<1>1. CASE UNCHANGED vars
  BY <1>1 DEF vars, IInv, Lists, Apart, Exact
<1>2. ASSUME Len(root) < NUM_OF_T_VM, NEW array \in Layout[Len(root) + 1], vm_init(array)
      PROVE  IInv'
  BY <1>2, InitVmInv
<1>3. ASSUME NEW v \in DOMAIN root, NEW a \in Area, vm_add_page(v, a)
      PROVE  IInv'
  BY <1>3, AddPageInv
<1> QED  BY <1>1, <1>2, <1>3 DEF Next

LEMMA Invariant == Spec => []IInv
<1>1. IInv /\ [Next]_vars => IInv'
  BY StepInv
<1> QED  BY <1>1, InitInv, PTL DEF Spec

-----------------------------------------------------------------------------
\* Each page of each VM is mapped by the last area that holds it, and by none if
\* there is none: for tables of any size, any areas, in any order, that overlap,
\* split blocks or replace tables (page_table_setup, page_table_add_pages and
\* page_table_add_third_level of page_table.c).
THEOREM PagesMappedExactly == Spec => []MapsExactly
<1>1. ASSUME IInv PROVE MapsExactly
  <2> SUFFICES ASSUME NEW v \in DOMAIN root, NEW p \in Page
               PROVE  LET by == {k \in DOMAIN added[v] :
                                   p \in added[v][k].virt
                                         .. added[v][k].virt + added[v][k].size - 1}
                      IN  Walk(v, p) = IF by = {} THEN None
                                       ELSE LET a == added[v][Max(by)]
                                            IN  Entry(3, a.start + (p - a.virt), a.attr)
    BY DEF MapsExactly
  <2> DEFINE r == root[v]
             s == added[v]
  <2>1. v \in 1 .. Len(root) /\ DOMAIN s = 1 .. Len(s) /\ r \in RootsOf(root)
    <3>1. v \in 1 .. Len(root) /\ v \in 1 .. Len(added)
      BY <1>1, LenProperties DEF IInv, Lists
    <3>2. s \in Seq(AreaType)
      BY <1>1, <3>1, ElementOfSeq DEF IInv, Lists
    <3> QED  BY <3>1, <3>2, LenProperties DEF RootsOf
  <2>2. Seen(tab, r, p) = Mapped(s, Len(s), p, None)
    BY <1>1, <2>1 DEF IInv, Exact
  <2>3. tab[r][Idx(p)].to = r + 2 + Idx(p)
    BY <1>1, <2>1, PageRange, SecondOf DEF IInv
  <2>4. Walk(v, p) = Seen(tab, r, p)
    BY <2>3 DEF Walk, Seen
  <2> HIDE DEF s
  <2> QED  BY <2>1, <2>2, <2>4 DEF Mapped, By, Mapping, s
<1> QED  BY <1>1, Invariant, PTL

\* page_table_get_new_table hands a table out once: no table is the root of two
\* VMs, or is named by two entries, or both; and every root is even.
THEOREM TablesNeverShared == Spec => []TablesUnshared
<1>1. ASSUME IInv PROVE TablesUnshared
  <2> DEFINE roots    == {root[v] : v \in DOMAIN root}
             seconds  == {tab[r][i].to : r \in roots, i \in 0 .. I - 1}
             entries  == {e \in (roots \cup seconds) \X DOMAIN tab[0] : tab[e[1]][e[2]].bits = 3}
             named(e) == tab[e[1]][e[2]].to
             R == RootsOf(root)
  <2>1. Sound(tab, count, R) /\ DOMAIN root = 1 .. Len(root) /\ Apart
    BY <1>1, LenProperties DEF IInv, Lists
  <2>2. roots = R
    BY <2>1 DEF RootsOf
  <2> HIDE DEF roots, R
  <2>3. /\ I \in Nat /\ I > 0 /\ MaxTables \in Nat /\ count \in 0 .. MaxTables
        /\ R \subseteq Nat /\ (\A q \in R : q % 2 = 0 /\ q + 1 + I < count)
        /\ \A q, s \in R : q < s => q + 1 + I < s
    BY <2>1, Sizes DEF Sound, Roots
  <2>4. seconds \subseteq Seconds(R)
    BY <2>1, <2>2, SecondOf
  <2> HIDE DEF seconds
  <2>5. ASSUME NEW e \in entries
        PROVE  /\ e = <<e[1], e[2]>> /\ e[2] \in Place
               /\ e[1] \in R \/ e[1] \in Seconds(R)
               /\ tab[e[1]][e[2]].bits = 3
               /\ named(e) = tab[e[1]][e[2]].to
    <3>1. /\ e[1] \in roots \cup seconds /\ e[2] \in DOMAIN tab[0] /\ e = <<e[1], e[2]>>
          /\ tab[e[1]][e[2]].bits = 3
      OBVIOUS
    <3>2. 0 \in Table
      <4>1. R # {}
        BY <2>2, <3>1 DEF seconds
      <4>2. MaxTables > 0
        <5>1. PICK q \in R : TRUE
          BY <4>1
        <5>2. q \in Nat /\ q + 1 + I < count /\ count \in Nat /\ count <= MaxTables
          BY <2>3
        <5> QED  BY <2>3, <5>2
      <4> QED  BY <2>3, <4>2 DEF Table
    <3>3. DOMAIN tab[0] = Place
      BY <2>1, <3>2 DEF Sound
    <3> QED  BY <2>2, <2>4, <3>1, <3>3
  <2>6. ASSUME NEW r \in R, NEW x \in Place, tab[r][x].bits = 3
        PROVE  x \in 0 .. I - 1 /\ tab[r][x].to = r + 2 + x
    <3>1. tab[r][x] = IF x < I THEN Entry(3, r + 2 + x, 0) ELSE None
      BY <2>1 DEF Sound
    <3>2. x \in Nat
      BY Places
    <3>3. x \in 0 .. I - 1
      BY <2>3, <2>6, <3>1, <3>2, Entries
    <3>4. r + 2 + x \in Nat
      BY <2>3, <3>2
    <3> QED  BY <3>1, <3>3, <3>4, <2>3, Entries
  <2>7. ASSUME NEW r \in R, NEW i \in 0 .. I - 1
        PROVE  /\ r + 2 + i < count /\ r + 2 + i \in Fixed(R)
               /\ r + 2 + i \notin R \cup {q + 1 : q \in R}
    <3>1. r + 2 + i < count /\ r + 2 + i \in Nat
      BY <2>3
    <3>2. r + 2 + i \in Fixed(R)
      BY <2>3, <3>1 DEF Fixed
    <3>3. ASSUME NEW q \in R PROVE r + 2 + i # q /\ r + 2 + i # q + 1
      BY <2>3
    <3> QED  BY <3>1, <3>2, <3>3
  <2>8. R \cup {q + 1 : q \in R} \subseteq Fixed(R)
    <3>1. ASSUME NEW q \in R PROVE q \in Fixed(R) /\ q + 1 \in Fixed(R)
      <4>1. q \in Nat /\ q + 1 \in Nat /\ q <= q + 1 /\ q + 1 <= q + 1 + I /\ q <= q + 1 + I
        BY <2>3
      <4> QED  BY <4>1 DEF Fixed
    <3> QED  BY <3>1
  <2>9. ASSUME NEW t \in Seconds(R), NEW x \in Place, tab[t][x].bits = 3
        PROVE  /\ tab[t][x].to < count /\ tab[t][x].to \notin Fixed(R)
               /\ tab[t][x].to \notin R \cup {q + 1 : q \in R}
    BY <2>1, <2>8, <2>9, NamesTable
  <2> HIDE DEF entries, named
  <2>10. ASSUME NEW e \in entries
         PROVE  named(e) < count /\ named(e) \notin R \cup {q + 1 : q \in R}
    <3>1. CASE e[1] \in R
      BY <2>5, <2>6, <2>7, <3>1
    <3>2. CASE e[1] \in Seconds(R)
      BY <2>5, <2>9, <3>2
    <3> QED  BY <2>5, <3>1, <3>2
  <2>11. ASSUME NEW e \in entries, NEW f \in entries, named(e) = named(f)
         PROVE  e = f
    <3>1. CASE e[1] \in R /\ f[1] \in R
      <4>1. /\ e[2] \in 0 .. I - 1 /\ named(e) = e[1] + 2 + e[2]
            /\ f[2] \in 0 .. I - 1 /\ named(f) = f[1] + 2 + f[2]
        BY <2>5, <2>6, <3>1
      <4>2. \A r, q \in R : \A i, h \in 0 .. I - 1 : r + 2 + i = q + 2 + h => r = q /\ i = h
        BY <2>1, TablesOf
      <4>3. e[1] = f[1] /\ e[2] = f[2]
        <5> DEFINE r == e[1]
                   i == e[2]
                   q == f[1]
                   h == f[2]
        <5>1. r + 2 + i = q + 2 + h
          BY <2>11, <4>1
        <5>2. r \in R /\ q \in R /\ i \in 0 .. I - 1 /\ h \in 0 .. I - 1
          BY <3>1, <4>1
        <5> HIDE DEF r, i, q, h
        <5>3. r = q /\ i = h
          BY <4>2, <5>1, <5>2
        <5> QED  BY <5>3 DEF r, i, q, h
      <4> QED  BY <2>5, <4>3
    <3>2. CASE e[1] \in R /\ f[1] \in Seconds(R)
      BY <2>5, <2>6, <2>7, <2>9, <2>11, <3>2
    <3>3. CASE e[1] \in Seconds(R) /\ f[1] \in R
      BY <2>5, <2>6, <2>7, <2>9, <2>11, <3>3
    <3>4. CASE e[1] \in Seconds(R) /\ f[1] \in Seconds(R)
      <4>1. /\ e[2] \in Place /\ tab[e[1]][e[2]].bits = 3 /\ named(e) = tab[e[1]][e[2]].to
            /\ f[2] \in Place /\ tab[f[1]][f[2]].bits = 3 /\ named(f) = tab[f[1]][f[2]].to
        BY <2>5
      <4>2. \A t, u \in Seconds(R), x, y \in Place :
              tab[t][x].bits = 3 /\ tab[u][y].bits = 3 /\ tab[t][x].to = tab[u][y].to
                => t = u /\ x = y
        BY <2>1, NamedOnce
      <4>3. e[1] = f[1] /\ e[2] = f[2]
        BY <2>11, <3>4, <4>1, <4>2
      <4> QED  BY <2>5, <4>3
    <3> QED  BY <2>5, <3>1, <3>2, <3>3, <3>4
  <2>12. \A r \in R : r % 2 = 0 /\ r + 1 < count
    BY <2>3
  <2>13. \A v, w \in DOMAIN root : root[v] = root[w] => v = w
    BY <2>1 DEF Apart
  <2> QED  BY <2>2, <2>10, <2>11, <2>12, <2>13 DEF TablesUnshared, roots, seconds, entries, named
<1> QED  BY <1>1, Invariant, PTL
=============================================================================
