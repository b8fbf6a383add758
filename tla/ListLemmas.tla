----------------------------- MODULE ListLemmas -----------------------------
(***************************************************************************)
(* What the list operations of queue.c do to the members of a list, as the *)
(* other proofs need it: a list without duplicates stays so when a member  *)
(* is removed or a newcomer appended or inserted.  Induction is stated of  *)
(* sets, which the provers can instantiate.                                *)
(***************************************************************************)
EXTENDS Naturals, Sequences, SequencesExt, SequenceTheorems,
        FiniteSetTheorems, WellFoundedInduction, TLAPS

-----------------------------------------------------------------------------
\* A set of naturals has a least element, a finite one a greatest, and induction,
\* all about sets.

LEMMA Least ==
  ASSUME NEW S \in SUBSET Nat, S # {}
  PROVE  \E m \in S : \A n \in S : m <= n
<1> DEFINE R == {ss \in Nat \X Nat : ss[1] < ss[2]}
<1>1. IsWellFoundedOn(R, Nat)
  BY NatLessThanWellFounded DEF OpToRel
<1> HIDE DEF R
<1>2. PICK m \in S : \A n \in S : <<n, m>> \notin R
  BY <1>1, WFMin
<1>3. \A n \in S : n < m => <<n, m>> \in R
  BY DEF R
<1>4. \A n \in S : ~(n < m)
  BY <1>2, <1>3
<1>5. \A n \in S : m <= n
  BY <1>4
<1>6. QED
  BY <1>5

LEMMA Induction ==
  ASSUME NEW S, 0 \in S, \A n \in Nat : n \in S => n + 1 \in S
  PROVE  \A n \in Nat : n \in S
<1> DEFINE B == Nat \ S
<1>1. SUFFICES ASSUME B # {} PROVE FALSE
  OBVIOUS
<1>2. PICK k \in B : \A j \in B : k <= j
  BY <1>1, Least
<1>3. k # 0 /\ k - 1 \in Nat
  BY <1>2
<1>4. k - 1 \in S
  BY <1>2, <1>3
<1>5. k - 1 + 1 = k
  BY <1>2
<1>6. QED
  BY <1>2, <1>3, <1>4, <1>5

LEMMA Greatest ==
  ASSUME NEW S \in SUBSET Nat, S # {}, IsFiniteSet(S)
  PROVE  \E m \in S : \A n \in S : n <= m
<1>1. PICK c \in Nat : ExistsSurjection(1 .. c, S)
  BY FS_NatSurjection
<1>2. PICK f \in [1 .. c -> S] : \A x \in S : \E i \in 1 .. c : f[i] = x
  BY <1>1 DEF ExistsSurjection, Surjection
<1> DEFINE Good == {k \in Nat : k <= c => \E b \in Nat : \A i \in 1 .. k : f[i] <= b}
<1>3. 0 \in Good
  <2>1. \A i \in 1 .. 0 : f[i] <= 0
    OBVIOUS
  <2> QED  BY <2>1
<1>4. ASSUME NEW k \in Nat, k \in Good PROVE k + 1 \in Good
  <2> SUFFICES ASSUME k + 1 <= c
               PROVE  \E b \in Nat : \A i \in 1 .. k + 1 : f[i] <= b
    OBVIOUS
  <2>1. PICK b \in Nat : \A i \in 1 .. k : f[i] <= b
    BY <1>4
  <2>2. f[k + 1] \in Nat /\ \A i \in 1 .. k : f[i] \in Nat
    <3>1. k + 1 \in 1 .. c /\ \A i \in 1 .. k : i \in 1 .. c
      OBVIOUS
    <3>2. \A i \in 1 .. c : f[i] \in S
      OBVIOUS
    <3> QED  BY <3>1, <3>2
  <2> DEFINE d == IF f[k + 1] <= b THEN b ELSE f[k + 1]
  <2>3. d \in Nat /\ b <= d /\ f[k + 1] <= d
    BY <2>2
  <2> HIDE DEF d
  <2>4. \A i \in 1 .. k + 1 : i \in 1 .. k \/ i = k + 1
    OBVIOUS
  <2>5. \A i \in 1 .. k + 1 : f[i] <= d
    BY <2>1, <2>2, <2>3, <2>4
  <2> QED  BY <2>3, <2>5
<1> HIDE DEF Good
<1>5. c \in Good
  BY <1>3, <1>4, Induction
<1>6. PICK b \in Nat : \A i \in 1 .. c : f[i] <= b
  BY <1>5 DEF Good
<1> DEFINE Bounds == {d \in Nat : \A x \in S : x <= d}
<1>7. b \in Bounds
  BY <1>2, <1>6
<1>8. PICK m \in Bounds : \A d \in Bounds : m <= d
  BY <1>7, Least
<1>9. m \in S
  <2>1. SUFFICES ASSUME m \notin S PROVE FALSE
    OBVIOUS
  <2>2. \A x \in S : x \in Nat /\ x <= m /\ x # m
    BY <1>8, <2>1
  <2>3. m # 0
    <3>1. PICK x \in S : TRUE
      OBVIOUS
    <3> QED  BY <2>2, <3>1
  <2>4. m - 1 \in Bounds
    BY <2>2, <2>3
  <2> QED  BY <1>8, <2>4
<1> QED  BY <1>8, <1>9

-----------------------------------------------------------------------------
\* The members are the values at the positions.
LEMMA MembersOfList ==
  ASSUME NEW S, NEW s \in Seq(S)
  PROVE  /\ DOMAIN s = 1 .. Len(s)
         /\ Len(s) \in Nat
         /\ \A i \in 1 .. Len(s) : s[i] \in S /\ s[i] \in ToSet(s)
         /\ ToSet(s) \subseteq S
         /\ \A x \in ToSet(s) : \E i \in 1 .. Len(s) : s[i] = x
         /\ s # <<>> <=> Len(s) >= 1
         /\ s = <<>> <=> ToSet(s) = {}
<1>1. /\ DOMAIN s = 1 .. Len(s)
      /\ Len(s) \in Nat
      /\ \A i \in 1 .. Len(s) : s[i] \in S
  BY LenProperties, ElementOfSeq
<1>2. s # <<>> <=> Len(s) >= 1
  BY <1>1, EmptySeq
<1>3. ToSet(s) = {s[i] : i \in 1 .. Len(s)}
  BY <1>1 DEF ToSet
<1>4. s = <<>> => ToSet(s) = {}
  <2>1. s = <<>> => Len(s) = 0
    BY EmptySeq
  <2>2. QED
    BY <1>3, <2>1
<1>5. s # <<>> => ToSet(s) # {}
  <2>1. s # <<>> => 1 \in 1 .. Len(s)
    BY <1>1, <1>2
  <2>2. QED
    BY <1>3, <2>1
<1>6. QED
  BY <1>1, <1>2, <1>3, <1>4, <1>5

\* A list as queue_list_init leaves it.
LEMMA EmptyList ==
  ASSUME NEW S
  PROVE  <<>> \in Seq(S) /\ ToSet(<<>>) = {} /\ IsInjective(<<>>)
<1>1. <<>> \in Seq(S) /\ DOMAIN <<>> = {}
  BY EmptySeq, LenProperties
<1>2. QED
  BY <1>1 DEF ToSet, IsInjective

\* queue_remove of the k-th member: the others keep their order.
LEMMA RemovedAt ==
  ASSUME NEW S, NEW s \in Seq(S), NEW k \in 1 .. Len(s)
  PROVE  /\ RemoveAt(s, k) \in Seq(S)
         /\ Len(RemoveAt(s, k)) = Len(s) - 1
         /\ \A i \in 1 .. Len(s) - 1 :
              RemoveAt(s, k)[i] = IF i < k THEN s[i] ELSE s[i + 1]
<1> DEFINE a == SubSeq(s, 1, k - 1)
           b == SubSeq(s, k + 1, Len(s))
<1>1. Len(s) \in Nat /\ \A i \in 1 .. Len(s) : s[i] \in S
  BY LenProperties, ElementOfSeq
<1>2. a \in Seq(S) /\ Len(a) = k - 1 /\ \A i \in 1 .. k - 1 : a[i] = s[i]
  <2>1. \A i \in 1 .. k - 1 : s[i] \in S
    BY <1>1
  <2>2. /\ a \in Seq(S)
        /\ Len(a) = IF 1 <= k - 1 THEN (k - 1) - 1 + 1 ELSE 0
        /\ \A i \in 1 .. (k - 1) - 1 + 1 : a[i] = s[1 + i - 1]
    BY <2>1, <1>1, SubSeqProperties
  <2>3. QED
    BY <2>2, <1>1
<1>3. /\ b \in Seq(S)
      /\ Len(b) = Len(s) - k
      /\ \A i \in 1 .. Len(s) - k : b[i] = s[k + i]
  <2>1. \A i \in k + 1 .. Len(s) : s[i] \in S
    BY <1>1
  <2>2. /\ b \in Seq(S)
        /\ Len(b) = IF k + 1 <= Len(s) THEN Len(s) - (k + 1) + 1 ELSE 0
        /\ \A i \in 1 .. Len(s) - (k + 1) + 1 : b[i] = s[k + 1 + i - 1]
    BY <2>1, <1>1, SubSeqProperties
  <2>3. QED
    BY <2>2, <1>1
<1>4. RemoveAt(s, k) = a \o b
  BY DEF RemoveAt
<1>5. /\ a \o b \in Seq(S)
      /\ Len(a \o b) = Len(a) + Len(b)
      /\ \A i \in 1 .. Len(a) + Len(b) :
           (a \o b)[i] = IF i <= Len(a) THEN a[i] ELSE b[i - Len(a)]
  BY <1>2, <1>3, ConcatProperties
<1> HIDE DEF a, b
<1>6. QED
  BY <1>1, <1>2, <1>3, <1>4, <1>5

\* The same, for a list without duplicates: exactly that member is gone.
LEMMA RemovedMember ==
  ASSUME NEW S, NEW s \in Seq(S), IsInjective(s), NEW k \in 1 .. Len(s)
  PROVE  /\ RemoveAt(s, k) \in Seq(S)
         /\ IsInjective(RemoveAt(s, k))
         /\ ToSet(RemoveAt(s, k)) = ToSet(s) \ {s[k]}
<1> DEFINE r == RemoveAt(s, k)
<1>1. /\ r \in Seq(S) /\ Len(r) = Len(s) - 1
      /\ \A i \in 1 .. Len(s) - 1 : r[i] = IF i < k THEN s[i] ELSE s[i + 1]
  BY RemovedAt
<1>2. DOMAIN s = 1 .. Len(s) /\ Len(s) \in Nat
  BY MembersOfList
<1>3. DOMAIN r = 1 .. Len(s) - 1
  BY <1>1, <1>2, LenProperties
<1>4. \A i, j \in 1 .. Len(s) : s[i] = s[j] => i = j
  BY <1>2 DEF IsInjective
<1> HIDE DEF r
<1>5. \A i, j \in 1 .. Len(s) - 1 : r[i] = r[j] => i = j
  <2> SUFFICES ASSUME NEW i \in 1 .. Len(s) - 1, NEW j \in 1 .. Len(s) - 1, r[i] = r[j]
               PROVE  i = j
    OBVIOUS
  <2> DEFINE p(n) == IF n < k THEN n ELSE n + 1
  <2>1. p(i) \in 1 .. Len(s) /\ p(j) \in 1 .. Len(s)
    BY <1>2
  <2>2. r[i] = s[p(i)] /\ r[j] = s[p(j)]
    BY <1>1
  <2>3. p(i) = p(j)
    BY <1>4, <2>1, <2>2
  <2>4. QED
    BY <2>3, <1>2
<1>6. \A x \in ToSet(r) : x \in ToSet(s) /\ x # s[k]
  <2> SUFFICES ASSUME NEW i \in 1 .. Len(s) - 1
               PROVE  r[i] \in ToSet(s) /\ r[i] # s[k]
    BY <1>3 DEF ToSet
  <2>1. CASE i < k
    BY <2>1, <1>1, <1>2, <1>4 DEF ToSet
  <2>2. CASE ~(i < k)
    <3>1. r[i] = s[i + 1] /\ i + 1 \in 1 .. Len(s) /\ i + 1 # k
      BY <2>2, <1>1, <1>2
    <3>2. QED
      BY <3>1, <1>2, <1>4 DEF ToSet
  <2>3. QED
    BY <2>1, <2>2
<1>7. \A x \in ToSet(s) \ {s[k]} : x \in ToSet(r)
  <2> SUFFICES ASSUME NEW i \in 1 .. Len(s), s[i] # s[k]
               PROVE  s[i] \in ToSet(r)
    BY <1>2 DEF ToSet
  <2>1. CASE i < k
    <3>1. i \in 1 .. Len(s) - 1 /\ r[i] = s[i]
      BY <2>1, <1>1, <1>2
    <3>2. QED
      BY <3>1, <1>3 DEF ToSet
  <2>2. CASE i > k
    <3>1. i - 1 \in 1 .. Len(s) - 1 /\ r[i - 1] = s[i]
      BY <2>2, <1>1, <1>2
    <3>2. QED
      BY <3>1, <1>3 DEF ToSet
  <2>3. QED
    BY <2>1, <2>2, <1>2
<1>8. IsInjective(r)
  BY <1>3, <1>5 DEF IsInjective
<1>9. QED
  BY <1>1, <1>6, <1>7, <1>8 DEF r

\* Lists without a common member, one after the other.
LEMMA JoinedLists ==
  ASSUME NEW S, NEW s \in Seq(S), NEW t \in Seq(S)
  PROVE  /\ s \o t \in Seq(S)
         /\ ToSet(s \o t) = ToSet(s) \cup ToSet(t)
         /\ IsInjective(s) /\ IsInjective(t) /\ ToSet(s) \cap ToSet(t) = {}
              => IsInjective(s \o t)
<1> DEFINE c == s \o t
<1>1. /\ c \in Seq(S)
      /\ Len(c) = Len(s) + Len(t)
      /\ \A i \in 1 .. Len(s) + Len(t) :
           c[i] = IF i <= Len(s) THEN s[i] ELSE t[i - Len(s)]
  BY ConcatProperties
<1>2. /\ DOMAIN s = 1 .. Len(s) /\ Len(s) \in Nat
      /\ DOMAIN t = 1 .. Len(t) /\ Len(t) \in Nat
  BY MembersOfList
<1>3. DOMAIN c = 1 .. Len(s) + Len(t)
  BY <1>1, LenProperties
<1> HIDE DEF c
<1>4. ToSet(c) \subseteq ToSet(s) \cup ToSet(t)
  <2> SUFFICES ASSUME NEW i \in 1 .. Len(s) + Len(t)
               PROVE  c[i] \in ToSet(s) \cup ToSet(t)
    BY <1>3 DEF ToSet
  <2>1. CASE i <= Len(s)
    BY <2>1, <1>1, <1>2 DEF ToSet
  <2>2. CASE ~(i <= Len(s))
    <3>1. c[i] = t[i - Len(s)] /\ i - Len(s) \in 1 .. Len(t)
      BY <2>2, <1>1, <1>2
    <3>2. QED
      BY <3>1, <1>2 DEF ToSet
  <2>3. QED
    BY <2>1, <2>2
<1>5. ToSet(s) \subseteq ToSet(c)
  <2> SUFFICES ASSUME NEW i \in 1 .. Len(s)
               PROVE  s[i] \in ToSet(c)
    BY <1>2 DEF ToSet
  <2>1. i \in 1 .. Len(s) + Len(t) /\ c[i] = s[i]
    BY <1>1, <1>2
  <2>2. QED
    BY <2>1, <1>3 DEF ToSet
<1>6. ToSet(t) \subseteq ToSet(c)
  <2> SUFFICES ASSUME NEW i \in 1 .. Len(t)
               PROVE  t[i] \in ToSet(c)
    BY <1>2 DEF ToSet
  <2>1. Len(s) + i \in 1 .. Len(s) + Len(t) /\ c[Len(s) + i] = t[i]
    BY <1>1, <1>2
  <2>2. QED
    BY <2>1, <1>3 DEF ToSet
<1>7. ASSUME IsInjective(s), IsInjective(t), ToSet(s) \cap ToSet(t) = {}
      PROVE  IsInjective(c)
  <2> SUFFICES ASSUME NEW i \in 1 .. Len(s) + Len(t), NEW j \in 1 .. Len(s) + Len(t),
                      c[i] = c[j]
               PROVE  i = j
    BY <1>3 DEF IsInjective
  <2>1. \A n \in 1 .. Len(s) + Len(t) :
          \/ n \in 1 .. Len(s) /\ c[n] = s[n] /\ s[n] \in ToSet(s)
          \/ n \notin 1 .. Len(s) /\ n - Len(s) \in 1 .. Len(t) /\ c[n] = t[n - Len(s)] /\ t[n - Len(s)] \in ToSet(t)
    <3> TAKE n \in 1 .. Len(s) + Len(t)
    <3>1. CASE n <= Len(s)
      BY <3>1, <1>1, <1>2 DEF ToSet
    <3>2. CASE ~(n <= Len(s))
      <4>1. /\ c[n] = t[n - Len(s)] /\ n - Len(s) \in 1 .. Len(t)
            /\ n \notin 1 .. Len(s)
        BY <3>2, <1>1, <1>2
      <4>2. QED
        BY <4>1, <1>2 DEF ToSet
    <3>3. QED
      BY <3>1, <3>2
  <2>2. \A a, b \in 1 .. Len(s) : s[a] = s[b] => a = b
    BY <1>2, <1>7 DEF IsInjective
  <2>3. \A a, b \in 1 .. Len(t) : t[a] = t[b] => a = b
    BY <1>2, <1>7 DEF IsInjective
  <2>4. CASE i \in 1 .. Len(s) /\ j \in 1 .. Len(s)
    BY <2>4, <2>2, <1>1
  <2>5. CASE ~(i \in 1 .. Len(s)) /\ ~(j \in 1 .. Len(s))
    <3>1. i - Len(s) = j - Len(s)
      BY <2>5, <2>1, <2>3
    <3>2. QED
      BY <3>1, <1>2
  <2>6. CASE i \in 1 .. Len(s) /\ ~(j \in 1 .. Len(s))
    BY <2>6, <2>1, <1>7
  <2>7. CASE ~(i \in 1 .. Len(s)) /\ j \in 1 .. Len(s)
    BY <2>7, <2>1, <1>7
  <2>8. QED
    BY <2>4, <2>5, <2>6, <2>7
<1>8. QED
  BY <1>1, <1>4, <1>5, <1>6, <1>7 DEF c

\* queue_list_enque of a newcomer.
LEMMA AppendedMember ==
  ASSUME NEW S, NEW s \in Seq(S), NEW e \in S
  PROVE  /\ Append(s, e) \in Seq(S)
         /\ Append(s, e) # <<>>
         /\ ToSet(Append(s, e)) = ToSet(s) \cup {e}
         /\ IsInjective(s) /\ e \notin ToSet(s) => IsInjective(Append(s, e))
<1> DEFINE u == <<e>>
<1>1. u \in Seq(S) /\ ToSet(u) = {e} /\ IsInjective(u)
  BY DEF ToSet, IsInjective
<1>2. Append(s, e) = s \o u /\ Append(s, e) # <<>>
  BY AppendIsConcat, AppendProperties
<1> HIDE DEF u
<1>3. /\ s \o u \in Seq(S)
      /\ ToSet(s \o u) = ToSet(s) \cup ToSet(u)
      /\ IsInjective(s) /\ ToSet(s) \cap ToSet(u) = {} => IsInjective(s \o u)
  BY <1>1, JoinedLists
<1>4. QED
  BY <1>1, <1>2, <1>3

\* queue_list_pop: the head leaves.
LEMMA PoppedHead ==
  ASSUME NEW S, NEW s \in Seq(S), s # <<>>
  PROVE  /\ Tail(s) \in Seq(S) /\ Len(Tail(s)) = Len(s) - 1
         /\ Head(s) \in S /\ Head(s) = s[1] /\ Head(s) \in ToSet(s)
         /\ \A i \in 1 .. Len(s) - 1 : Tail(s)[i] = s[i + 1]
         /\ ToSet(s) = {Head(s)} \cup ToSet(Tail(s))
         /\ IsInjective(s) => IsInjective(Tail(s)) /\ Head(s) \notin ToSet(Tail(s))
<1> DEFINE t == Tail(s)
<1>1. /\ t \in Seq(S) /\ Len(t) = Len(s) - 1
      /\ \A i \in 1 .. Len(s) - 1 : t[i] = s[i + 1]
      /\ Head(s) \in S
  BY HeadTailProperties
<1>2. DOMAIN s = 1 .. Len(s) /\ Len(s) \in Nat /\ Len(s) >= 1
  BY MembersOfList
<1>3. Head(s) = s[1]
  OBVIOUS
<1>4. DOMAIN t = 1 .. Len(s) - 1
  BY <1>1, <1>2, LenProperties
<1> HIDE DEF t
<1>5. \A i \in 1 .. Len(s) : s[i] = s[1] \/ s[i] \in ToSet(t)
  <2> SUFFICES ASSUME NEW i \in 1 .. Len(s), i # 1
               PROVE  s[i] \in ToSet(t)
    OBVIOUS
  <2>1. i - 1 \in 1 .. Len(s) - 1 /\ t[i - 1] = s[i]
    BY <1>1, <1>2
  <2>2. QED
    BY <2>1, <1>4 DEF ToSet
<1>6. \A i \in 1 .. Len(s) - 1 : i + 1 \in 1 .. Len(s) /\ i + 1 # 1 /\ t[i] = s[i + 1]
  BY <1>1, <1>2
<1>7. ToSet(t) \subseteq ToSet(s) /\ s[1] \in ToSet(s)
  <2>1. 1 \in 1 .. Len(s)
    BY <1>2
  <2>2. QED
    BY <2>1, <1>2, <1>4, <1>6 DEF ToSet
<1>8. ToSet(s) = {s[1]} \cup ToSet(t)
  BY <1>2, <1>5, <1>7 DEF ToSet
<1>9. ASSUME IsInjective(s)
      PROVE  IsInjective(t) /\ s[1] \notin ToSet(t)
  <2>1. \A i, j \in 1 .. Len(s) : s[i] = s[j] => i = j
    BY <1>2, <1>9 DEF IsInjective
  <2>2. \A i, j \in 1 .. Len(s) - 1 : t[i] = t[j] => i = j
    <3> TAKE i, j \in 1 .. Len(s) - 1
    <3>1. t[i] = t[j] => i + 1 = j + 1
      BY <2>1, <1>6
    <3>2. QED
      BY <3>1, <1>2
  <2>3. 1 \in 1 .. Len(s)
    BY <1>2
  <2>4. \A i \in 1 .. Len(s) - 1 : t[i] # s[1]
    BY <2>1, <2>3, <1>6
  <2>5. QED
    BY <2>2, <2>4, <1>4 DEF IsInjective, ToSet
<1>10. QED
  BY <1>1, <1>3, <1>7, <1>8, <1>9 DEF t

\* Popping is removing the first member.
LEMMA TailIsRemoved ==
  ASSUME NEW S, NEW s \in Seq(S), s # <<>>
  PROVE  Tail(s) = RemoveAt(s, 1)
<1>1. Len(s) \in Nat /\ 1 \in 1 .. Len(s)
  BY MembersOfList
<1>2. Tail(s) \in Seq(S) /\ Len(Tail(s)) = Len(s) - 1
      /\ \A i \in 1 .. Len(s) - 1 : Tail(s)[i] = s[i + 1]
  BY PoppedHead
<1>3. RemoveAt(s, 1) \in Seq(S) /\ Len(RemoveAt(s, 1)) = Len(s) - 1
      /\ \A i \in 1 .. Len(s) - 1 :
           RemoveAt(s, 1)[i] = IF i < 1 THEN s[i] ELSE s[i + 1]
  BY <1>1, RemovedAt
<1>4. \A i \in 1 .. Len(Tail(s)) : Tail(s)[i] = RemoveAt(s, 1)[i]
  BY <1>1, <1>2, <1>3
<1>5. QED
  BY <1>2, <1>3, <1>4, SeqEqual

\* queue_insert_prev of a newcomer in front of the i-th member.
LEMMA InsertedAt ==
  ASSUME NEW S, NEW s \in Seq(S), NEW i \in 1 .. Len(s) + 1, NEW e \in S
  PROVE  /\ InsertAt(s, i, e) \in Seq(S)
         /\ Len(InsertAt(s, i, e)) = Len(s) + 1
         /\ \A n \in 1 .. Len(s) + 1 :
              InsertAt(s, i, e)[n] = IF n < i THEN s[n] ELSE IF n = i THEN e ELSE s[n - 1]
<1> DEFINE a == SubSeq(s, 1, i - 1)
           b == SubSeq(s, i, Len(s))
           ae == a \o <<e>>
<1>1. Len(s) \in Nat /\ \A n \in 1 .. Len(s) : s[n] \in S
  BY LenProperties, ElementOfSeq
<1>2. a \in Seq(S) /\ Len(a) = i - 1 /\ \A n \in 1 .. i - 1 : a[n] = s[n]
  <2>1. \A n \in 1 .. i - 1 : s[n] \in S
    BY <1>1
  <2>2. /\ a \in Seq(S)
        /\ Len(a) = IF 1 <= i - 1 THEN (i - 1) - 1 + 1 ELSE 0
        /\ \A n \in 1 .. (i - 1) - 1 + 1 : a[n] = s[1 + n - 1]
    BY <2>1, <1>1, SubSeqProperties
  <2>3. QED
    BY <2>2, <1>1
<1>3. /\ b \in Seq(S)
      /\ Len(b) = Len(s) - i + 1
      /\ \A n \in 1 .. Len(s) - i + 1 : b[n] = s[i + n - 1]
  <2>1. \A n \in i .. Len(s) : s[n] \in S
    BY <1>1
  <2>2. /\ b \in Seq(S)
        /\ Len(b) = IF i <= Len(s) THEN Len(s) - i + 1 ELSE 0
        /\ \A n \in 1 .. Len(s) - i + 1 : b[n] = s[i + n - 1]
    BY <2>1, <1>1, SubSeqProperties
  <2>3. QED
    BY <2>2, <1>1
<1>4. InsertAt(s, i, e) = ae \o b
  BY DEF InsertAt
<1>5. <<e>> \in Seq(S) /\ Len(<<e>>) = 1 /\ <<e>>[1] = e
  OBVIOUS
<1> HIDE DEF a, b
<1>6. /\ ae \in Seq(S) /\ Len(ae) = i
      /\ \A n \in 1 .. i : ae[n] = IF n < i THEN s[n] ELSE e
  <2>1. /\ ae \in Seq(S)
        /\ Len(ae) = Len(a) + Len(<<e>>)
        /\ \A n \in 1 .. Len(a) + Len(<<e>>) :
             ae[n] = IF n <= Len(a) THEN a[n] ELSE <<e>>[n - Len(a)]
    BY <1>2, <1>5, ConcatProperties
  <2>2. i \in Nat /\ Len(a) + Len(<<e>>) = i
    BY <1>1, <1>2, <1>5
  <2>3. ASSUME NEW n \in 1 .. i, n < i PROVE ae[n] = s[n]
    BY <2>1, <2>2, <2>3, <1>2
  <2>4. ae[i] = e
    <3>1. i \in 1 .. i /\ ~(i <= Len(a)) /\ i - Len(a) = 1
      BY <2>2, <1>2
    <3>2. QED
      BY <2>1, <2>2, <3>1, <1>5
  <2>5. QED
    BY <2>1, <2>2, <2>3, <2>4
<1> HIDE DEF ae
<1>7. /\ ae \o b \in Seq(S)
      /\ Len(ae \o b) = Len(ae) + Len(b)
      /\ \A n \in 1 .. Len(ae) + Len(b) :
           (ae \o b)[n] = IF n <= Len(ae) THEN ae[n] ELSE b[n - Len(ae)]
  BY <1>3, <1>6, ConcatProperties
<1>8. QED
  BY <1>1, <1>3, <1>4, <1>6, <1>7

\* The same, for a newcomer to a list without duplicates.
LEMMA InsertedMember ==
  ASSUME NEW S, NEW s \in Seq(S), NEW i \in 1 .. Len(s) + 1, NEW e \in S
  PROVE  /\ ToSet(InsertAt(s, i, e)) = ToSet(s) \cup {e}
         /\ IsInjective(s) /\ e \notin ToSet(s) => IsInjective(InsertAt(s, i, e))
<1> DEFINE r == InsertAt(s, i, e)
<1>1. /\ r \in Seq(S)
      /\ Len(r) = Len(s) + 1
      /\ \A n \in 1 .. Len(s) + 1 :
           r[n] = IF n < i THEN s[n] ELSE IF n = i THEN e ELSE s[n - 1]
  BY InsertedAt
<1>2. DOMAIN s = 1 .. Len(s) /\ Len(s) \in Nat
  BY MembersOfList
<1>3. DOMAIN r = 1 .. Len(s) + 1
  BY <1>1, LenProperties
<1> HIDE DEF r
<1> DEFINE p(n) == IF n < i THEN n ELSE n - 1
<1>4. \A n \in 1 .. Len(s) + 1 : n = i \/ (p(n) \in 1 .. Len(s) /\ r[n] = s[p(n)])
  BY <1>1, <1>2
<1>5. i \in 1 .. Len(s) + 1 /\ r[i] = e
  BY <1>1, <1>2
<1>6. ToSet(r) \subseteq ToSet(s) \cup {e}
  <2> SUFFICES ASSUME NEW n \in 1 .. Len(s) + 1
               PROVE  r[n] \in ToSet(s) \cup {e}
    BY <1>3 DEF ToSet
  <2> QED
    BY <1>2, <1>4, <1>5 DEF ToSet
<1>7. ToSet(s) \subseteq ToSet(r)
  <2> SUFFICES ASSUME NEW m \in 1 .. Len(s)
               PROVE  s[m] \in ToSet(r)
    BY <1>2 DEF ToSet
  <2>1. CASE m < i
    <3>1. m \in 1 .. Len(s) + 1 /\ r[m] = s[m]
      BY <2>1, <1>1, <1>2
    <3>2. QED
      BY <3>1, <1>3 DEF ToSet
  <2>2. CASE ~(m < i)
    <3>1. m + 1 \in 1 .. Len(s) + 1 /\ r[m + 1] = s[m]
      BY <2>2, <1>1, <1>2
    <3>2. QED
      BY <3>1, <1>3 DEF ToSet
  <2>3. QED
    BY <2>1, <2>2
<1>8. e \in ToSet(r)
  BY <1>3, <1>5 DEF ToSet
<1>9. ASSUME IsInjective(s), e \notin ToSet(s)
      PROVE  IsInjective(r)
  <2> SUFFICES ASSUME NEW m \in 1 .. Len(s) + 1, NEW n \in 1 .. Len(s) + 1, r[m] = r[n]
               PROVE  m = n
    BY <1>3 DEF IsInjective
  <2>1. \A a \in 1 .. Len(s) + 1 : r[a] = e => a = i
    BY <1>2, <1>4, <1>9 DEF ToSet
  <2>2. CASE m = i \/ n = i
    BY <2>1, <2>2, <1>5
  <2>3. CASE m # i /\ n # i
    <3>1. p(m) = p(n)
      BY <2>3, <1>2, <1>4, <1>9 DEF IsInjective
    <3>2. QED
      BY <3>1, <2>3, <1>2
  <2>4. QED
    BY <2>2, <2>3
<1>10. QED
  BY <1>6, <1>7, <1>8, <1>9 DEF r

\* A list that visits each member of a finite set once.
LEMMA Enumerated ==
  ASSUME NEW S, NEW W \in SUBSET S, IsFiniteSet(W), NEW s \in SetToSeqs(W)
  PROVE  s \in Seq(S) /\ ToSet(s) = W /\ IsInjective(s)
<1> DEFINE D == 1 .. Cardinality(W)
<1>1. Cardinality(W) \in Nat
  BY FS_CardinalityType
<1>2. IsFiniteSet(D) /\ Cardinality(D) = Cardinality(W)
  <2>1. IsFiniteSet(1 .. Cardinality(W))
        /\ Cardinality(1 .. Cardinality(W)) = IF 1 > Cardinality(W) THEN 0 ELSE Cardinality(W) - 1 + 1
    BY <1>1, FS_Interval
  <2>2. QED
    BY <2>1, <1>1
<1>3. s \in [D -> W] /\ \A i, j \in D : i # j => s[i] # s[j]
  BY DEF SetToSeqs
<1> HIDE DEF D
<1>4. IsInjective(s)
  BY <1>3 DEF IsInjective
<1>5. s \in Injection(D, W)
  BY <1>3, <1>4 DEF Injection
<1>6. s \in Surjection(D, W)
  BY <1>2, <1>5, FS_Injection
<1>7. ToSet(s) = W
  BY <1>3, <1>6 DEF Surjection, ToSet
<1>8. s \in Seq(S)
  BY <1>1, <1>3 DEF D
<1>9. QED
  BY <1>4, <1>7, <1>8
=============================================================================
